-------------------------------- MODULE Signal --------------------------------
(***************************************************************************)
(* One signal of the backend (backend/message_signal.go): a slice of       *)
(* listener channels under a mutex.  Every element of Msg is one call of   *)
(* Dispatch, run by a goroutine of its own (pgx_repository.go starts each  *)
(* with `go`); every element of Chan is one unbuffered Go channel made by  *)
(* addRepositoryListeners of backend/ws.go, together with the one          *)
(* goroutine that receives from it and that adds and removes it.           *)
(*                                                                         *)
(* Add and Remove block on nothing once they hold the mutex, so locking,   *)
(* changing the slice and unlocking is one step of theirs.  Dispatch holds *)
(* the mutex while it blocks on each listener in turn.                     *)
(***************************************************************************)
EXTENDS SignalOps

CONSTANTS Chan,      \* the listener channels
          Msg,       \* the calls of Dispatch
          Unlocked   \* the value of the mutex when nobody holds it

ASSUME UnlockedAssumption == Unlocked \notin Msg

VARIABLES
  listeners,  \* the slice of channels
  mutex,      \* the dispatch that holds the mutex, or Unlocked
  pos,        \* the index of the range loop of that dispatch
  phase,      \* phase[m]: how far the goroutine of dispatch m is
  owner,      \* owner[c]: what the goroutine that owns channel c does
  heard       \* heard[c]: what was received from c, in order

vars == <<listeners, mutex, pos, phase, owner, heard>>

(* "new": not called yet; "wait": blocked in Lock; "send": in the loop,    *)
(* with the mutex; "done": returned.                                       *)
Phases == {"new", "wait", "send", "done"}

(* "new": channel not made; "adding": blocked in Add; "recv": in a select  *)
(* that receives from c; "busy": doing something else; "removing": blocked *)
(* in Remove; "gone": c was removed and is not used again.                 *)
OwnerStates == {"new", "adding", "recv", "busy", "removing", "gone"}

(* Every variable has the type its declaration gives it. *)
TypeOK ==
  /\ listeners \in Seq(Chan)
  /\ mutex \in Msg \cup {Unlocked}
  /\ pos \in Nat
  /\ phase \in [Msg -> Phases]
  /\ owner \in [Chan -> OwnerStates]
  /\ heard \in [Chan -> Seq(Msg)]

Init ==
  /\ listeners = <<>>
  /\ mutex = Unlocked
  /\ pos = 0
  /\ phase = [m \in Msg |-> "new"]
  /\ owner = [c \in Chan |-> "new"]
  /\ heard = [c \in Chan |-> <<>>]

-----------------------------------------------------------------------------
(* A dispatch. *)

(* go repo.xxxSignal.Dispatch(m) *)
Spawn(m) ==
  /\ phase[m] = "new"
  /\ phase' = [phase EXCEPT ![m] = "wait"]
  /\ UNCHANGED <<listeners, mutex, pos, owner, heard>>

(* Mutant: a dispatch loses the mutex to the next one and starts again.    *)
AcquireSteals(m) ==
  /\ phase[m] = "wait"
  /\ mutex' = m
  /\ pos' = 1
  /\ phase' = [n \in Msg |-> IF n = m THEN "send" ELSE IF n = mutex THEN "wait" ELSE phase[n]]
  /\ UNCHANGED <<listeners, owner, heard>>

Acquire(m) ==
  /\ phase[m] = "wait"
  /\ mutex = Unlocked
  /\ mutex' = m
  /\ pos' = 1
  /\ phase' = [phase EXCEPT ![m] = "send"]
  /\ UNCHANGED <<listeners, owner, heard>>

(* l <- msg: the channel is unbuffered, so the step needs the receiver. *)
Send(m) ==
  /\ phase[m] = "send"
  /\ pos <= Len(listeners)
  /\ LET c == listeners[pos] IN
       /\ owner[c] = "recv"
       /\ owner' = [owner EXCEPT ![c] = "busy"]
       /\ heard' = [heard EXCEPT ![c] = Append(@, m)]
  /\ pos' = pos + 1
  /\ UNCHANGED <<listeners, mutex, phase>>

(* The loop is over: the deferred Unlock, and the goroutine ends. *)
Release(m) ==
  /\ phase[m] = "send"
  /\ pos > Len(listeners)
  /\ mutex' = Unlocked
  /\ pos' = 0
  /\ phase' = [phase EXCEPT ![m] = "done"]
  /\ UNCHANGED <<listeners, owner, heard>>

-----------------------------------------------------------------------------
(* The owner of a channel. *)

OwnerGoes(c, from, to) ==
  /\ owner[c] \in from
  /\ owner' = [owner EXCEPT ![c] = to]

CallAdd(c) ==
  /\ OwnerGoes(c, {"new"}, "adding")
  /\ UNCHANGED <<listeners, mutex, pos, phase, heard>>

(* Mutant: Add without Lock. *)
AddUnlocked(c) ==
  /\ OwnerGoes(c, {"adding"}, "busy")
  /\ listeners' = AddListener(listeners, c)
  /\ UNCHANGED <<mutex, pos, phase, heard>>

(* The owner returns from Add into its handler, not yet into its select. *)
Add(c) ==
  /\ mutex = Unlocked
  /\ OwnerGoes(c, {"adding"}, "busy")
  /\ listeners' = AddListener(listeners, c)
  /\ UNCHANGED <<mutex, pos, phase, heard>>

(* The owner reaches its select. *)
Listen(c) ==
  /\ OwnerGoes(c, {"busy"}, "recv")
  /\ UNCHANGED <<listeners, mutex, pos, phase, heard>>

(* The select takes another of its cases: a request, or a message of       *)
(* another signal.                                                         *)
TurnAway(c) ==
  /\ OwnerGoes(c, {"recv"}, "busy")
  /\ UNCHANGED <<listeners, mutex, pos, phase, heard>>

CallRemove(c) ==
  /\ OwnerGoes(c, {"recv", "busy"}, "removing")
  /\ UNCHANGED <<listeners, mutex, pos, phase, heard>>

(* Mutant: Remove without Lock. *)
RemoveUnlocked(c) ==
  /\ OwnerGoes(c, {"removing"}, "gone")
  /\ listeners' = RemoveListener(listeners, c)
  /\ UNCHANGED <<mutex, pos, phase, heard>>

Remove(c) ==
  /\ mutex = Unlocked
  /\ OwnerGoes(c, {"removing"}, "gone")
  /\ listeners' = RemoveListener(listeners, c)
  /\ UNCHANGED <<mutex, pos, phase, heard>>

-----------------------------------------------------------------------------
DispatchStep(m) == Spawn(m) \/ Acquire(m) \/ Send(m) \/ Release(m)

OwnerStep(c) ==
  \/ CallAdd(c)
  \/ Add(c)
  \/ Listen(c)
  \/ TurnAway(c)
  \/ CallRemove(c)
  \/ Remove(c)

Next ==
  \/ \E m \in Msg : DispatchStep(m)
  \/ \E c \in Chan : OwnerStep(c)

SafeSpec == Init /\ [][Next]_vars

(* A goroutine that can run runs; an owner comes back to its select; and a *)
(* select that again and again finds a blocked sender sometimes takes it   *)
(* (Go chooses uniformly among the cases that are ready).  Nothing obliges *)
(* a dispatch to be called or a channel to be added or removed.            *)
Fairness ==
  /\ \A m \in Msg : WF_vars(Acquire(m)) /\ SF_vars(Send(m)) /\ WF_vars(Release(m))
  /\ \A c \in Chan : WF_vars(Add(c)) /\ WF_vars(Listen(c)) /\ WF_vars(Remove(c))

Spec == SafeSpec /\ Fairness

-----------------------------------------------------------------------------
(* Properties. *)

(* The slice holds a channel exactly once from the return of Add to the    *)
(* return of Remove, and never outside: the swap with the last element     *)
(* neither loses nor duplicates another listener.                          *)
ListenersMatchOwners ==
  /\ IsInjective(listeners)
  /\ Range(listeners) = {c \in Chan : owner[c] \in {"recv", "busy", "removing"}}

(* a was received before b. *)
Before(s, a, b) == \E i, j \in DOMAIN s : i < j /\ s[i] = a /\ s[j] = b

(* Two listeners never hear the same two messages in different orders,     *)
(* although every message is dispatched by its own goroutine.              *)
SameOrder ==
  \A c, d \in Chan : \A a, b \in Msg :
    ~ (Before(heard[c], a, b) /\ Before(heard[d], b, a))

(* When Dispatch returns, the message has been received from every channel *)
(* that is listed, and from no other channel.                              *)
Reached(m) == {c \in Chan : m \in Range(heard[c])}

DispatchReachesAll ==
  [][\A m \in Msg : (phase[m] # "done" /\ phase'[m] = "done")
        => Reached(m) = Range(listeners)]_vars

(* The owner of a channel waits in Remove for the mutex of a dispatch that *)
(* waits for that owner.                                                   *)
MutualWait ==
  \E m \in Msg, c \in Chan :
    /\ phase[m] = "send"
    /\ pos <= Len(listeners)
    /\ listeners[pos] = c
    /\ owner[c] = "removing"

(* Nothing ends such a wait: no step of any other goroutine helps. *)
MutualWaitIsForever == [][MutualWait => MutualWait']_vars

-----------------------------------------------------------------------------
(* The signal implements the atomic broadcast. *)
B == INSTANCE Broadcast WITH
       Idle     <- Unlocked,
       members  <- Range(listeners),
       current  <- mutex,
       pending  <- {listeners[i] : i \in {j \in DOMAIN listeners : mutex # Unlocked /\ j >= pos}},
       finished <- {m \in Msg : phase[m] = "done"},
       got      <- [c \in Chan |-> Range(heard[c])]

(* Every behaviour of the signal is a behaviour of Broadcast. *)
ImplementsBroadcast == B!Spec
=============================================================================
