---------------------------- MODULE MCClientConn ----------------------------
EXTENDS ClientConn, TLC

(* Three of the four, in the order of addRepositoryListeners: one before,  *)
(* one after and one in the middle of any walk.                            *)
ThreeSignals == <<"channelCreated", "messagePosted", "userCreated">>

(* Two of the four, for the runs whose cost grows with every signal. *)
TwoSignals == <<"messagePosted", "userCreated">>

Perms == Permutations(Conn)
=============================================================================
