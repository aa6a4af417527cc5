------------------------------- MODULE ConnPool -------------------------------
(***************************************************************************)
(* The pool of database connections (ConnPool of pgx, conn_pool.go) seen   *)
(* from its callers: what Acquire and Release promise, whatever is done    *)
(* with a connection in between, except that it may die.                   *)
(***************************************************************************)
EXTENDS Integers, Sequences, SequencesExt, FiniteSets

CONSTANTS Caller,         \* the goroutines that use the pool
          Connection,     \* the connections there may be
          MaxConnections

VARIABLES
  all,        \* allConnections
  available,  \* availableConnections, the last one is taken next
  alive,      \* alive[x]: connection x has not died
  pc,         \* pc[k]: where caller k is
  conn,       \* conn[k]: the connection it holds, if it holds one
  waiters,    \* the callers in cond.Wait, in the order of their calls
  lock        \* who keeps cond.L while it waits for something, or Free

poolVars == <<all, available, alive, pc, conn, waiters, lock>>

Free == "free"
Nil == "nil"

(* At least two, for NewConnPool refuses one; and the lock is free when no *)
(* caller has it.                                                          *)
ASSUME ConnPoolAssumption ==
  /\ MaxConnections \in Nat /\ MaxConnections >= 2
  /\ Free \notin Caller

(* "create": in createConnection; "wait", "woken": in cond.Wait, before    *)
(* and after the signal; "hold": using the connection; "signal": released, *)
(* about to call cond.Signal.                                              *)
Places == {"idle", "create", "wait", "woken", "hold", "signal"}

PoolTypeOK ==
  /\ all \subseteq Connection
  /\ available \in Seq(Connection)
  /\ alive \in [Connection -> BOOLEAN]
  /\ pc \in [Caller -> Places]
  /\ conn \in [Caller -> Connection \cup {Nil}]
  /\ waiters \in Seq(Caller)
  /\ lock \in Caller \cup {Free}

(* NewConnPool: one connection to begin with. *)
PoolInit ==
  /\ \E x \in Connection :
       /\ all = {x}
       /\ available = <<x>>
       /\ alive = [y \in Connection |-> y = x]
  /\ pc = [k \in Caller |-> "idle"]
  /\ conn = [k \in Caller |-> Nil]
  /\ waiters = <<>>
  /\ lock = Free

Goto(k, place) == pc' = [pc EXCEPT ![k] = place]

(* Mutant: the connection stays in availableConnections. *)
TakeKeeps(k) ==
  /\ available # <<>>
  /\ conn' = [conn EXCEPT ![k] = Last(available)]
  /\ UNCHANGED available

Take(k) ==
  /\ available # <<>>
  /\ conn' = [conn EXCEPT ![k] = Last(available)]
  /\ available' = Front(available)

Room == Cardinality(all) < MaxConnections

(* cond.Wait lets go of the lock. *)
Wait(k) ==
  /\ Goto(k, "wait")
  /\ waiters' = Append(waiters, k)
  /\ UNCHANGED <<all, available, alive, conn, lock>>

(* Acquire of k: an available connection, or room for a new one, which is  *)
(* made under the lock, or else a wait.                                    *)
Acquire(k) ==
  /\ pc[k] = "idle"
  /\ lock = Free
  /\ \/ Take(k) /\ Goto(k, "hold") /\ UNCHANGED <<all, alive, waiters, lock>>
     \/ /\ available = <<>> /\ Room
        /\ lock' = k
        /\ Goto(k, "create")
        /\ UNCHANGED <<all, available, alive, conn, waiters>>
     \/ available = <<>> /\ ~ Room /\ Wait(k)

(* createConnection has returned. *)
Created(k) ==
  /\ pc[k] = "create"
  /\ lock' = Free
  /\ \/ \E x \in Connection \ all :
          /\ all' = all \cup {x}
          /\ alive' = [alive EXCEPT ![x] = TRUE]
          /\ conn' = [conn EXCEPT ![k] = x]
          /\ Goto(k, "hold")
     \/ Goto(k, "idle") /\ UNCHANGED <<all, alive, conn>>
  /\ UNCHANGED <<available, waiters>>

(* A waiter that was woken looks for an available connection, and for      *)
(* nothing else.                                                           *)
Wake(k) ==
  /\ pc[k] = "woken"
  /\ lock = Free
  /\ \/ Take(k) /\ Goto(k, "hold") /\ UNCHANGED <<all, alive, waiters, lock>>
     \/ available = <<>> /\ Wait(k)

Die(k) ==
  /\ pc[k] = "hold"
  /\ alive' = [alive EXCEPT ![conn[k]] = FALSE]
  /\ UNCHANGED <<all, available, conn, waiters, lock, pc>>

PutBack(k) ==
  \/ /\ alive[conn[k]]
     /\ available' = Append(available, conn[k])
     /\ UNCHANGED all
  \/ /\ ~ alive[conn[k]]
     /\ all' = all \ {conn[k]}
     /\ UNCHANGED available

(* Release of k, up to its Unlock. *)
Release(k) ==
  /\ pc[k] = "hold"
  /\ lock = Free
  /\ PutBack(k)
  /\ conn' = [conn EXCEPT ![k] = Nil]
  /\ Goto(k, "signal")
  /\ UNCHANGED <<alive, waiters, lock>>

(* Mutant: the signal is given when a second connection is available. *)
SignalLate(k) ==
  /\ pc[k] = "signal"
  /\ \/ /\ waiters = <<>> \/ Len(available) = 1
        /\ Goto(k, "idle")
        /\ UNCHANGED waiters
     \/ /\ waiters # <<>> /\ Len(available) # 1
        /\ pc' = [pc EXCEPT ![k] = "idle", ![Head(waiters)] = "woken"]
        /\ waiters' = Tail(waiters)
  /\ UNCHANGED <<all, available, alive, conn, lock>>

(* cond.Signal wakes the one that has waited longest. *)
Signal(k) ==
  /\ pc[k] = "signal"
  /\ \/ /\ waiters = <<>>
        /\ Goto(k, "idle")
        /\ UNCHANGED waiters
     \/ /\ waiters # <<>>
        /\ pc' = [pc EXCEPT ![k] = "idle", ![Head(waiters)] = "woken"]
        /\ waiters' = Tail(waiters)
  /\ UNCHANGED <<all, available, alive, conn, lock>>

PoolNext ==
  \E k \in Caller :
    Acquire(k) \/ Created(k) \/ Wake(k) \/ Die(k) \/ Release(k) \/ Signal(k)

PoolSpec == PoolInit /\ [][PoolNext]_poolVars

-----------------------------------------------------------------------------
(* Properties. *)

Holders == {k \in Caller : pc[k] = "hold"}

(* A connection serves one caller at a time: no two callers hold one, and  *)
(* what a caller holds is not available to others.                         *)
HeldByOne ==
  /\ \A k, l \in Holders : conn[k] = conn[l] => k = l
  /\ \A k \in Holders : conn[k] \notin Range(available)
  /\ IsInjective(available)

(* Nothing is lost from the pool: its connections are the available ones,  *)
(* all of them alive, and those that callers hold; there are never too     *)
(* many.                                                                   *)
Accounted ==
  /\ all = Range(available) \cup {conn[k] : k \in Holders}
  /\ \A x \in Range(available) : alive[x]
  /\ Cardinality(all) <= MaxConnections

(* The state of the pool is sound: each variable has its type, the         *)
(* connections are shared out and none is lost (conn_pool.go Acquire,      *)
(* Release).                                                               *)
PoolSound == PoolTypeOK /\ HeldByOne /\ Accounted

(* As long as connections are available to callers that wait, that many of *)
(* these were woken or are about to be.                                    *)
WakeupsSuffice ==
  LET coming == Cardinality({k \in Caller : pc[k] \in {"signal", "woken"}}) IN
    coming >= Len(available) \/ coming >= Len(waiters)

(* A caller that waits is waiting for another one, or all the connections  *)
(* have died: then it is woken only after a later caller has made a new    *)
(* connection, although it might have made one itself.                     *)
WaitsForSomeone ==
  waiters # <<>> =>
    all = {} \/ \E k \in Caller : pc[k] \in {"hold", "signal", "woken"}

(* No wake-up is lost and nobody waits for nobody (conn_pool.go            *)
(* cond.Wait, cond.Signal), but for a pool whose connections have all died. *)
WaitersAreServed == WakeupsSuffice /\ WaitsForSomeone
=============================================================================
