------------------------------ MODULE SignalOps ------------------------------
(***************************************************************************)
(* The listener slice of a signal (backend/message_signal.go and its two   *)
(* generated copies, channel_signal.go and user_signal.go): what Add and   *)
(* Remove make of it.  A Go channel is an opaque value.                    *)
(***************************************************************************)
EXTENDS Integers, Sequences, Functions

(* Add appends the channel to the slice. *)
AddListener(l, c) == Append(l, c)

(* The index at which the search loop of Remove stops. *)
FirstIndex(l, c) ==
  CHOOSE i \in 1..Len(l) : l[i] = c /\ \A j \in 1..(i - 1) : l[j] # c

(* Mutant: Remove shrinks the slice and forgets to move its last element.  *)
RemoveListenerNoMove(l, c) == IF c \in Range(l) THEN SubSeq(l, 1, Len(l) - 1) ELSE l

(* Mutant: Remove clears the place of the channel and leaves it in the      *)
(* slice.                                                                  *)
RemoveListenerNil(l, c) ==
  IF c \in Range(l) THEN [l EXCEPT ![FirstIndex(l, c)] = "nil"] ELSE l

(* Remove overwrites the first occurrence of the channel with the last     *)
(* element and shrinks the slice by one; a channel that is not listed      *)
(* leaves the slice alone.                                                 *)
RemoveListener(l, c) ==
  IF c \in Range(l)
    THEN [j \in 1..(Len(l) - 1) |-> IF j = FirstIndex(l, c) THEN l[Len(l)] ELSE l[j]]
    ELSE l
=============================================================================
