------------------------------ MODULE Broadcast ------------------------------
(***************************************************************************)
(* What a signal promises to its users: one broadcast at a time, the set   *)
(* of its receivers fixed when it begins, every one of them served exactly *)
(* once before it ends.  There is no lock, no slice and no loop here:      *)
(* Signal.tla, the code, is shown to implement this.                       *)
(***************************************************************************)
EXTENDS Integers

CONSTANTS Chan,   \* the channels that may listen
          Msg,    \* the broadcasts, one per call of Dispatch
          Idle    \* "no broadcast is under way", not an element of Msg

VARIABLES members,   \* the channels that listen
          current,   \* the broadcast under way, or Idle
          pending,   \* the receivers it has yet to serve
          finished,  \* the broadcasts that have ended
          got        \* got[c]: the broadcasts c has received

bvars == <<members, current, pending, finished, got>>

Init ==
  /\ members = {}
  /\ current = Idle
  /\ pending = {}
  /\ finished = {}
  /\ got = [c \in Chan |-> {}]

(* The receivers of a broadcast do not change while it runs. *)
Join(c) ==
  /\ current = Idle
  /\ c \notin members
  /\ members' = members \cup {c}
  /\ UNCHANGED <<current, pending, finished, got>>

Leave(c) ==
  /\ current = Idle
  /\ c \in members
  /\ members' = members \ {c}
  /\ UNCHANGED <<current, pending, finished, got>>

Begin(m) ==
  /\ current = Idle
  /\ m \notin finished
  /\ current' = m
  /\ pending' = members
  /\ UNCHANGED <<members, finished, got>>

Deliver(c) ==
  /\ c \in pending
  /\ pending' = pending \ {c}
  /\ got' = [got EXCEPT ![c] = @ \cup {current}]
  /\ UNCHANGED <<members, current, finished>>

End ==
  /\ current # Idle
  /\ pending = {}
  /\ current' = Idle
  /\ finished' = finished \cup {current}
  /\ UNCHANGED <<members, pending, got>>

Next ==
  \/ \E c \in Chan : Join(c) \/ Leave(c) \/ Deliver(c)
  \/ \E m \in Msg : Begin(m)
  \/ End

Spec == Init /\ [][Next]_bvars
=============================================================================
