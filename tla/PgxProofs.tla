------------------------------- MODULE PgxProofs -------------------------------
(***************************************************************************)
(* The driver pgx, its pool, its statements and its values.                *)
(*                                                                         *)
(* No connection of the pool is lost or used by two callers and no wake-up *)
(* is lost, for any number of callers and connections: first for the pool  *)
(* alone, whatever its callers do, and then for callers that talk to the   *)
(* server.  Of these, what a call returns is the answer to its statement,  *)
(* and what it reports as done has been done.                              *)
(***************************************************************************)
EXTENDS PgPool, PgValues, SequenceTheorems, FiniteSetTheorems, TLAPS

(* Who is in cond.Wait is in the list once. *)
WaitersWait ==
  /\ IsInjective(waiters)
  /\ \A i \in DOMAIN waiters : pc[waiters[i]] = "wait"

(* The room that Acquire found is there until createConnection returns,    *)
(* because it is called under the lock.                                    *)
RoomIsKept == \A k \in Caller : pc[k] = "create" => lock = k /\ Room

PoolInv ==
  /\ PoolSound
  /\ IsFiniteSet(all)
  /\ WaitersWait
  /\ RoomIsKept

(* Connections as they were, and held by the same callers. *)
SameShares ==
  /\ UNCHANGED <<all, available, alive, conn>>
  /\ \A k \in Caller : pc'[k] = "hold" <=> pc[k] = "hold"

(* A step that moves no connection leaves them shared out. *)
LEMMA SharesStay ==
  ASSUME PoolInv, SameShares
  PROVE  HeldByOne' /\ Accounted' /\ IsFiniteSet(all')
<1>1. Holders' = Holders
  BY DEF Holders, SameShares
<1>2. HeldByOne'
  BY <1>1 DEF PoolInv, PoolSound, HeldByOne, SameShares
<1>3. Accounted'
  BY <1>1 DEF PoolInv, PoolSound, Accounted, SameShares
<1> QED
  BY <1>2, <1>3 DEF PoolInv, SameShares

(* What a holder has is a connection of the pool. *)
LEMMA HeldIsOurs ==
  ASSUME PoolInv, NEW k \in Caller, pc[k] = "hold"
  PROVE  conn[k] \in Connection /\ conn[k] \in all
BY DEF PoolInv, PoolSound, PoolTypeOK, Accounted, Holders

(* Popping the last available connection hands it to one caller. *)
LEMMA TakeShares ==
  ASSUME PoolInv, NEW k \in Caller, pc[k] # "hold", Take(k), Goto(k, "hold"),
         UNCHANGED <<all, alive>>
  PROVE  /\ available' \in Seq(Connection)
         /\ conn' \in [Caller -> Connection \cup {Nil}]
         /\ HeldByOne' /\ Accounted' /\ IsFiniteSet(all')
<1>1. available \in Seq(Connection) /\ available # <<>>
  BY DEF Take, PoolInv, PoolSound, PoolTypeOK
<1>2. PICK n \in Nat \ {0} : n = Len(available)
  BY <1>1, EmptySeq
<1>3. DOMAIN available = 1..n /\ \A i \in 1..n : available[i] \in Connection
  BY <1>1, <1>2, LenProperties, ElementOfSeq
<1>4. PICK x \in Connection : x = available[n]
  BY <1>2, <1>3
<1>5. /\ available' \in Seq(Connection)
      /\ DOMAIN available' = 1..(n - 1)
      /\ \A i \in 1..(n - 1) : available'[i] = available[i]
  <2>1. available' = SubSeq(available, 1, n - 1)
    BY <1>2 DEF Take, Front
  <2>2. /\ SubSeq(available, 1, n - 1) \in Seq(Connection)
        /\ Len(SubSeq(available, 1, n - 1)) = n - 1
        /\ \A i \in 1..(n - 1) : SubSeq(available, 1, n - 1)[i] = available[i]
    <3>1. 1 \in Int /\ n - 1 \in Int /\ \A i \in 1..(n - 1) : available[i] \in Connection
      BY <1>3
    <3> QED
      BY <3>1, SubSeqProperties
  <2> QED
    BY <2>1, <2>2, LenProperties
<1>6. conn' = [conn EXCEPT ![k] = x] /\ pc' = [pc EXCEPT ![k] = "hold"]
  BY <1>2, <1>4 DEF Take, Last, Goto
<1>7. \A l \in Caller : (pc'[l] = "hold" <=> l = k \/ pc[l] = "hold")
  BY <1>6 DEF PoolInv, PoolSound, PoolTypeOK
<1>8. \A l \in Caller : conn'[l] = IF l = k THEN x ELSE conn[l]
  BY <1>6 DEF PoolInv, PoolSound, PoolTypeOK
<1>9. \A i, j \in 1..n : available[i] = available[j] => i = j
  BY <1>3 DEF PoolInv, PoolSound, HeldByOne, IsInjective
<1>10. \A l \in Caller : pc[l] = "hold" => \A i \in 1..n : conn[l] # available[i]
  BY <1>3 DEF PoolInv, PoolSound, HeldByOne, Holders, Range
<1>11. Range(available) = Range(available') \cup {x}
  BY <1>3, <1>4, <1>5 DEF Range
<1>12. x \notin Range(available')
  BY <1>4, <1>5, <1>9 DEF Range
<1>13. HeldByOne'
  <2>1. \A l, m \in Caller : pc'[l] = "hold" /\ pc'[m] = "hold" /\ conn'[l] = conn'[m] => l = m
    BY <1>2, <1>4, <1>7, <1>8, <1>10 DEF PoolInv, PoolSound, HeldByOne, Holders
  <2>2. \A l \in Caller : pc'[l] = "hold" => conn'[l] \notin Range(available')
    BY <1>5, <1>7, <1>8, <1>10, <1>12 DEF Range
  <2>3. IsInjective(available')
    BY <1>5, <1>9 DEF IsInjective
  <2> QED
    BY <2>1, <2>2, <2>3 DEF HeldByOne, Holders
<1>14. Accounted'
  <2>1. Holders' = Holders \cup {k}
    BY <1>7 DEF Holders
  <2>2. {conn'[l] : l \in Holders'} = {conn[l] : l \in Holders} \cup {x}
    BY <1>8, <2>1 DEF Holders
  <2>3. all = Range(available) \cup {conn[l] : l \in Holders}
    BY DEF PoolInv, PoolSound, Accounted
  <2>4. all' = Range(available') \cup {conn'[l] : l \in Holders'}
    BY <1>11, <2>2, <2>3
  <2> QED
    BY <1>11, <2>4 DEF Accounted, PoolInv, PoolSound
<1> QED
  BY <1>4, <1>5, <1>6, <1>13, <1>14 DEF PoolInv, PoolSound, PoolTypeOK

(* Release: the connection is available again, or it has died and the pool *)
(* lets it go.                                                             *)
LEMMA ReleaseShares ==
  ASSUME PoolInv, NEW k \in Caller, Release(k)
  PROVE  /\ available' \in Seq(Connection) /\ all' \subseteq Connection
         /\ conn' \in [Caller -> Connection \cup {Nil}]
         /\ HeldByOne' /\ Accounted' /\ IsFiniteSet(all') /\ all' \subseteq all
<1>1. pc[k] = "hold" /\ PutBack(k) /\ alive' = alive
  BY DEF Release
<1>2. PICK x \in Connection : x = conn[k] /\ x \in all
  BY <1>1, HeldIsOurs
<1>3. \A l \in Caller : pc'[l] = "hold" <=> l # k /\ pc[l] = "hold"
  BY DEF Release, Goto, PoolInv, PoolSound, PoolTypeOK
<1>4. /\ conn' \in [Caller -> Connection \cup {Nil}]
      /\ \A l \in Caller : l # k => conn'[l] = conn[l]
  BY DEF Release, PoolInv, PoolSound, PoolTypeOK
<1>5. Holders' = Holders \ {k} /\ k \in Holders
  BY <1>1, <1>3 DEF Holders
<1>6. {conn[l] : l \in Holders} = {conn'[l] : l \in Holders'} \cup {x}
  BY <1>2, <1>4, <1>5 DEF Holders
<1>7. \A l \in Holders' : conn'[l] # x /\ conn'[l] \notin Range(available)
  BY <1>2, <1>4, <1>5 DEF PoolInv, PoolSound, HeldByOne, Holders
<1>8. \A l, m \in Holders' : conn'[l] = conn'[m] => l = m
  BY <1>4, <1>5 DEF PoolInv, PoolSound, HeldByOne, Holders
<1>9. x \notin Range(available)
  BY <1>2, <1>5 DEF PoolInv, PoolSound, HeldByOne
<1>10. CASE alive[x] /\ available' = Append(available, x) /\ all' = all
  <2>1. PICK n \in Nat : n = Len(available) /\ DOMAIN available = 1..n
    BY LenProperties DEF PoolInv, PoolSound, PoolTypeOK
  <2>2. /\ available' \in Seq(Connection)
        /\ DOMAIN available' = 1..(n + 1)
        /\ available'[n + 1] = x
        /\ \A i \in 1..n : available'[i] = available[i]
    BY <1>10, <2>1, AppendProperties, LenProperties DEF PoolInv, PoolSound, PoolTypeOK
  <2>3. Range(available') = Range(available) \cup {x}
    BY <2>1, <2>2 DEF Range
  <2>4. IsInjective(available')
    <3>1. \A i \in 1..n : available[i] # x
      BY <1>9, <2>1 DEF Range
    <3>2. \A i, j \in 1..n : available[i] = available[j] => i = j
      BY <2>1 DEF PoolInv, PoolSound, HeldByOne, IsInjective
    <3> QED
      BY <2>2, <3>1, <3>2 DEF IsInjective
  <2>5. HeldByOne'
    BY <1>7, <1>8, <2>3, <2>4 DEF HeldByOne
  <2>6. Accounted'
    <3>1. all = Range(available) \cup {conn[l] : l \in Holders}
      BY DEF PoolInv, PoolSound, Accounted
    <3>2. all' = Range(available') \cup {conn'[l] : l \in Holders'}
      BY <1>6, <1>10, <2>3, <3>1
    <3>3. \A y \in Range(available') : alive'[y]
      BY <1>1, <1>10, <2>3 DEF PoolInv, PoolSound, Accounted
    <3>4. Cardinality(all') <= MaxConnections
      BY <1>10 DEF PoolInv, PoolSound, Accounted
    <3> QED
      BY <3>2, <3>3, <3>4 DEF Accounted
  <2> QED
    BY <1>4, <1>10, <2>2, <2>5, <2>6 DEF PoolInv, PoolSound, PoolTypeOK
<1>11. CASE all' = all \ {x} /\ available' = available
  <2>1. HeldByOne'
    BY <1>7, <1>8, <1>11 DEF HeldByOne, PoolInv, PoolSound
  <2>2. Accounted'
    <3>1. all = Range(available) \cup {conn[l] : l \in Holders}
      BY DEF PoolInv, PoolSound, Accounted
    <3>2. all' = Range(available') \cup {conn'[l] : l \in Holders'}
      BY <1>6, <1>7, <1>9, <1>11, <3>1
    <3>3. \A y \in Range(available') : alive'[y]
      BY <1>1, <1>11 DEF PoolInv, PoolSound, Accounted
    <3>4. Cardinality(all) \in Nat /\ Cardinality(all') \in Nat
          /\ Cardinality(all') <= Cardinality(all)
      <4>1. IsFiniteSet(all) /\ all' \in SUBSET all
        BY <1>11 DEF PoolInv
      <4> QED
        BY <4>1, FS_CardinalityType, FS_Subset
    <3>5. Cardinality(all') <= MaxConnections
      BY <3>4, ConnPoolAssumption DEF PoolInv, PoolSound, Accounted
    <3> QED
      BY <3>2, <3>3, <3>5 DEF Accounted
  <2>3. IsFiniteSet(all')
    BY <1>11, FS_RemoveElement DEF PoolInv
  <2> QED
    BY <1>4, <1>11, <2>1, <2>2, <2>3 DEF PoolInv, PoolSound, PoolTypeOK
<1> QED
  BY <1>1, <1>2, <1>10, <1>11 DEF PutBack

(* A new connection is held by the one that made it, and there was room.   *)
LEMMA CreatedShares ==
  ASSUME PoolInv, NEW k \in Caller, pc[k] = "create", NEW x \in Connection \ all,
         all' = all \cup {x}, alive' = [alive EXCEPT ![x] = TRUE],
         conn' = [conn EXCEPT ![k] = x], Goto(k, "hold"), available' = available
  PROVE  HeldByOne' /\ Accounted' /\ IsFiniteSet(all')
<1>1. /\ \A l \in Caller : conn'[l] = IF l = k THEN x ELSE conn[l]
      /\ Holders' = Holders \cup {k} /\ k \notin Holders
  BY DEF Goto, Holders, PoolInv, PoolSound, PoolTypeOK
<1>2. all = Range(available) \cup {conn[l] : l \in Holders}
  BY DEF PoolInv, PoolSound, Accounted
<1>3. HeldByOne'
  <2>1. \A l, m \in Holders' : conn'[l] = conn'[m] => l = m
    BY <1>1, <1>2 DEF PoolInv, PoolSound, HeldByOne, Holders
  <2>2. \A l \in Holders' : conn'[l] \notin Range(available)
    BY <1>1, <1>2 DEF PoolInv, PoolSound, HeldByOne, Holders
  <2> QED
    BY <2>1, <2>2 DEF HeldByOne, PoolInv, PoolSound
<1>4. IsFiniteSet(all') /\ Cardinality(all') = Cardinality(all) + 1
  BY FS_AddElement DEF PoolInv
<1>5. Accounted'
  <2>1. {conn'[l] : l \in Holders'} = {conn[l] : l \in Holders} \cup {x}
    BY <1>1 DEF Holders
  <2>2. \A y \in Range(available) : alive'[y]
    BY <1>2 DEF PoolInv, PoolSound, Accounted, PoolTypeOK
  <2>3. Cardinality(all) \in Nat /\ Cardinality(all) < MaxConnections
    BY FS_CardinalityType DEF PoolInv, RoomIsKept, Room
  <2>4. Cardinality(all') <= MaxConnections
    BY <1>4, <2>3, ConnPoolAssumption
  <2> QED
    BY <1>2, <2>1, <2>2, <2>4 DEF Accounted
<1> QED
  BY <1>3, <1>4, <1>5

-----------------------------------------------------------------------------
(* One lemma for each action. *)

(* Nobody is in createConnection while the lock is free. *)
LEMMA NobodyCreates ==
  ASSUME PoolInv, lock = Free
  PROVE  \A k \in Caller : pc[k] # "create"
BY ConnPoolAssumption DEF PoolInv, RoomIsKept

(* A caller that does not wait moves on: those who wait stay in the list.  *)
LEMMA WaitersStay ==
  ASSUME PoolInv, NEW k \in Caller, pc[k] # "wait", UNCHANGED waiters,
         NEW place \in Places, Goto(k, place)
  PROVE  pc' \in [Caller -> Places] /\ WaitersWait'
<1>1. \A i \in DOMAIN waiters : waiters[i] \in Caller /\ waiters[i] # k
  BY LenProperties, ElementOfSeq DEF PoolInv, PoolSound, PoolTypeOK, WaitersWait
<1> QED
  BY <1>1 DEF PoolInv, PoolSound, PoolTypeOK, WaitersWait, Goto

(* cond.Wait: the caller enters the list, in which it was not. *)
LEMMA WaitKeeps ==
  ASSUME PoolInv, NEW k \in Caller, pc[k] \in {"idle", "woken"}, lock = Free, Wait(k)
  PROVE  PoolInv'
<1>1. /\ pc' \in [Caller -> Places]
      /\ \A l \in Caller : pc'[l] = IF l = k THEN "wait" ELSE pc[l]
  BY DEF Wait, Goto, Places, PoolInv, PoolSound, PoolTypeOK
<1>2. SameShares
  BY <1>1 DEF SameShares, Wait
<1>3. PICK n \in Nat :
        /\ n = Len(waiters) /\ DOMAIN waiters = 1..n
        /\ \A i \in 1..n : waiters[i] \in Caller
  BY LenProperties, ElementOfSeq DEF PoolInv, PoolSound, PoolTypeOK
<1>4. /\ waiters' \in Seq(Caller)
      /\ DOMAIN waiters' = 1..(n + 1)
      /\ waiters'[n + 1] = k
      /\ \A i \in 1..n : waiters'[i] = waiters[i]
  BY <1>3, AppendProperties, LenProperties DEF Wait, PoolInv, PoolSound, PoolTypeOK
<1>5. \A i \in 1..n : pc[waiters[i]] = "wait" /\ waiters[i] # k
  BY <1>3 DEF PoolInv, WaitersWait
<1>6. WaitersWait'
  <2>1. \A i, j \in 1..n : waiters[i] = waiters[j] => i = j
    BY <1>3 DEF PoolInv, WaitersWait, IsInjective
  <2>2. IsInjective(waiters')
    BY <1>4, <1>5, <2>1 DEF IsInjective
  <2>3. \A i \in 1..(n + 1) : pc'[waiters'[i]] = "wait"
    BY <1>1, <1>3, <1>4, <1>5
  <2> QED
    BY <1>4, <2>2, <2>3 DEF WaitersWait
<1>7. RoomIsKept'
  BY <1>1, NobodyCreates DEF RoomIsKept
<1>8. PoolTypeOK'
  BY <1>1, <1>4 DEF Wait, PoolInv, PoolSound, PoolTypeOK
<1> QED
  BY <1>2, <1>6, <1>7, <1>8, SharesStay DEF PoolInv, PoolSound

(* A caller gets an available connection. *)
LEMMA TakeKeepsInv ==
  ASSUME PoolInv, NEW k \in Caller, pc[k] \in {"idle", "woken"}, lock = Free,
         Take(k), Goto(k, "hold"), UNCHANGED <<all, alive, waiters, lock>>
  PROVE  PoolInv'
<1>1. /\ available' \in Seq(Connection)
      /\ conn' \in [Caller -> Connection \cup {Nil}]
      /\ HeldByOne' /\ Accounted' /\ IsFiniteSet(all')
  BY TakeShares
<1>2. pc' \in [Caller -> Places] /\ WaitersWait'
  BY WaitersStay DEF Places
<1>3. RoomIsKept'
  BY NobodyCreates DEF RoomIsKept, Goto, PoolInv, PoolSound, PoolTypeOK
<1>4. PoolTypeOK'
  BY <1>1, <1>2 DEF PoolInv, PoolSound, PoolTypeOK
<1> QED
  BY <1>1, <1>2, <1>3, <1>4 DEF PoolInv, PoolSound

LEMMA AcquireKeeps ==
  ASSUME PoolInv, NEW k \in Caller, Acquire(k)
  PROVE  PoolInv'
<1>1. CASE /\ available = <<>> /\ Room
           /\ lock' = k
           /\ Goto(k, "create")
           /\ UNCHANGED <<all, available, alive, conn, waiters>>
  <2>1. pc' \in [Caller -> Places] /\ WaitersWait'
    BY <1>1, WaitersStay DEF Acquire, Places
  <2>2. SameShares
    BY <1>1 DEF SameShares, Goto, Acquire, PoolInv, PoolSound, PoolTypeOK
  <2>3. RoomIsKept'
    BY <1>1, NobodyCreates DEF RoomIsKept, Room, Goto, Acquire, PoolInv, PoolSound, PoolTypeOK
  <2>4. PoolTypeOK'
    BY <1>1, <2>1 DEF PoolInv, PoolSound, PoolTypeOK
  <2> QED
    BY <2>1, <2>2, <2>3, <2>4, SharesStay DEF PoolInv, PoolSound
<1> QED
  BY <1>1, TakeKeepsInv, WaitKeeps DEF Acquire

LEMMA WakeKeeps ==
  ASSUME PoolInv, NEW k \in Caller, Wake(k)
  PROVE  PoolInv'
BY TakeKeepsInv, WaitKeeps DEF Wake

LEMMA CreatedKeeps ==
  ASSUME PoolInv, NEW k \in Caller, Created(k)
  PROVE  PoolInv'
<1>1. pc[k] = "create" /\ lock' = Free /\ UNCHANGED <<available, waiters>>
  BY DEF Created
<1>2. PICK place \in {"hold", "idle"} : Goto(k, place)
  BY DEF Created
<1>3. pc' \in [Caller -> Places] /\ WaitersWait'
  BY <1>1, <1>2, WaitersStay DEF Places
<1>4. RoomIsKept'
  BY <1>1, <1>2 DEF RoomIsKept, Goto, PoolInv, PoolSound, PoolTypeOK
<1>5. ASSUME NEW x \in Connection \ all, all' = all \cup {x},
             alive' = [alive EXCEPT ![x] = TRUE], conn' = [conn EXCEPT ![k] = x],
             Goto(k, "hold")
      PROVE  PoolInv'
  <2>1. HeldByOne' /\ Accounted' /\ IsFiniteSet(all')
    BY <1>1, <1>5, CreatedShares
  <2>2. PoolTypeOK'
    BY <1>1, <1>3, <1>5 DEF PoolInv, PoolSound, PoolTypeOK
  <2> QED
    BY <1>3, <1>4, <2>1, <2>2 DEF PoolInv, PoolSound
<1>6. CASE Goto(k, "idle") /\ UNCHANGED <<all, alive, conn>>
  <2>1. SameShares
    BY <1>1, <1>6 DEF SameShares, Goto, PoolInv, PoolSound, PoolTypeOK
  <2>2. PoolTypeOK'
    BY <1>1, <1>3, <1>6 DEF PoolInv, PoolSound, PoolTypeOK
  <2> QED
    BY <1>3, <1>4, <2>1, <2>2, SharesStay DEF PoolInv, PoolSound
<1> QED
  BY <1>5, <1>6 DEF Created

(* A connection that dies is held, so none of the available ones dies. *)
LEMMA DieKeeps ==
  ASSUME PoolInv, NEW k \in Caller, Die(k)
  PROVE  PoolInv'
<1>1. PICK x \in Connection : x = conn[k] /\ x \notin Range(available)
  BY HeldIsOurs DEF Die, PoolInv, PoolSound, HeldByOne, Holders
<1>2. /\ alive' \in [Connection -> BOOLEAN]
      /\ \A y \in Connection : y # x => alive'[y] = alive[y]
  BY <1>1 DEF Die, PoolInv, PoolSound, PoolTypeOK
<1>3. \A y \in Range(available) : y \in Connection
  BY DEF PoolInv, PoolSound, Accounted, PoolTypeOK
<1>4. Holders' = Holders
  BY DEF Die, Holders
<1>5. HeldByOne'
  BY <1>4 DEF Die, PoolInv, PoolSound, HeldByOne
<1>6. Accounted'
  <2>1. \A y \in Range(available') : alive'[y]
    BY <1>1, <1>2, <1>3 DEF Die, PoolInv, PoolSound, Accounted
  <2> QED
    BY <1>4, <2>1 DEF Die, PoolInv, PoolSound, Accounted
<1>7. PoolTypeOK'
  BY <1>2 DEF Die, PoolInv, PoolSound, PoolTypeOK
<1> QED
  BY <1>5, <1>6, <1>7 DEF Die, PoolInv, PoolSound, WaitersWait, RoomIsKept, Room

LEMMA ReleaseKeeps ==
  ASSUME PoolInv, NEW k \in Caller, Release(k)
  PROVE  PoolInv'
<1>1. /\ available' \in Seq(Connection) /\ all' \subseteq Connection
      /\ conn' \in [Caller -> Connection \cup {Nil}]
      /\ HeldByOne' /\ Accounted' /\ IsFiniteSet(all')
  BY ReleaseShares
<1>2. pc' \in [Caller -> Places] /\ WaitersWait'
  BY WaitersStay DEF Release, Places
<1>3. RoomIsKept'
  BY NobodyCreates DEF Release, RoomIsKept, Goto, PoolInv, PoolSound, PoolTypeOK
<1>4. PoolTypeOK'
  BY <1>1, <1>2 DEF Release, PoolInv, PoolSound, PoolTypeOK
<1> QED
  BY <1>1, <1>2, <1>3, <1>4 DEF PoolInv, PoolSound

(* cond.Signal: the first of the list leaves it and wakes. *)
LEMMA SignalKeeps ==
  ASSUME PoolInv, NEW k \in Caller, Signal(k)
  PROVE  PoolInv'
<1>1. pc[k] = "signal" /\ UNCHANGED <<all, available, alive, conn, lock>>
  BY DEF Signal
<1>2. CASE Goto(k, "idle") /\ UNCHANGED waiters
  <2>1. pc' \in [Caller -> Places] /\ WaitersWait'
    BY <1>1, <1>2, WaitersStay DEF Places
  <2>2. SameShares
    BY <1>1, <1>2 DEF SameShares, Goto, PoolInv, PoolSound, PoolTypeOK
  <2>3. RoomIsKept'
    BY <1>1, <1>2 DEF RoomIsKept, Room, Goto, PoolInv, PoolSound, PoolTypeOK
  <2>4. PoolTypeOK'
    BY <1>1, <1>2, <2>1 DEF PoolInv, PoolSound, PoolTypeOK
  <2> QED
    BY <2>1, <2>2, <2>3, <2>4, SharesStay DEF PoolInv, PoolSound
<1>3. CASE /\ waiters # <<>>
           /\ pc' = [pc EXCEPT ![k] = "idle", ![Head(waiters)] = "woken"]
           /\ waiters' = Tail(waiters)
  <2>1. PICK n \in Nat \ {0} :
          /\ n = Len(waiters) /\ DOMAIN waiters = 1..n
          /\ \A i \in 1..n : waiters[i] \in Caller
    BY <1>3, EmptySeq, LenProperties, ElementOfSeq DEF PoolInv, PoolSound, PoolTypeOK
  <2>2. PICK h \in Caller : h = waiters[1] /\ h = Head(waiters)
    BY <1>3, <2>1 DEF PoolInv, PoolSound, PoolTypeOK
  <2>3. /\ waiters' \in Seq(Caller)
        /\ DOMAIN waiters' = 1..(n - 1)
        /\ \A i \in 1..(n - 1) : waiters'[i] = waiters[i + 1]
    BY <1>3, <2>1, HeadTailProperties, LenProperties DEF PoolInv, PoolSound, PoolTypeOK
  <2>4. \A i \in 1..n : pc[waiters[i]] = "wait" /\ waiters[i] # k
    BY <1>1, <2>1 DEF PoolInv, WaitersWait
  <2>5. \A i, j \in 1..n : waiters[i] = waiters[j] => i = j
    BY <2>1 DEF PoolInv, WaitersWait, IsInjective
  <2>6. /\ pc' \in [Caller -> Places]
        /\ \A l \in Caller : pc'[l] = IF l = h THEN "woken" ELSE IF l = k THEN "idle" ELSE pc[l]
    BY <1>3, <2>2 DEF Places, PoolInv, PoolSound, PoolTypeOK
  <2>7. pc[h] = "wait" /\ h # k
    BY <2>1, <2>2, <2>4
  <2>8. WaitersWait'
    <3>1. IsInjective(waiters')
      BY <2>1, <2>3, <2>5 DEF IsInjective
    <3>2. \A i \in 1..(n - 1) : pc'[waiters'[i]] = "wait"
      BY <2>1, <2>2, <2>3, <2>4, <2>5, <2>6
    <3> QED
      BY <2>3, <3>1, <3>2 DEF WaitersWait
  <2>9. SameShares
    BY <1>1, <2>6, <2>7 DEF SameShares
  <2>10. RoomIsKept'
    BY <1>1, <2>6 DEF RoomIsKept, Room, PoolInv
  <2>11. PoolTypeOK'
    BY <1>1, <2>3, <2>6 DEF PoolInv, PoolSound, PoolTypeOK
  <2> QED
    BY <2>8, <2>9, <2>10, <2>11, SharesStay DEF PoolInv, PoolSound
<1> QED
  BY <1>2, <1>3 DEF Signal

-----------------------------------------------------------------------------
LEMMA PoolStarts == PoolInit => PoolInv
<1> SUFFICES ASSUME PoolInit PROVE PoolInv
  OBVIOUS
<1>1. PICK x \in Connection :
        /\ all = {x} /\ available = <<x>>
        /\ alive = [y \in Connection |-> y = x]
  BY DEF PoolInit
<1>2. Holders = {} /\ Range(available) = {x} /\ IsInjective(available)
  BY <1>1 DEF PoolInit, Holders, Range, IsInjective
<1>3. IsFiniteSet(all) /\ Cardinality(all) = 1
  BY <1>1, FS_Singleton
<1>4. HeldByOne
  BY <1>2 DEF HeldByOne
<1>5. Accounted
  <2>1. all = Range(available) \cup {conn[k] : k \in Holders}
    BY <1>1, <1>2
  <2>2. \A y \in Range(available) : alive[y]
    BY <1>1, <1>2
  <2>3. Cardinality(all) <= MaxConnections
    BY <1>3, ConnPoolAssumption
  <2> QED
    BY <2>1, <2>2, <2>3 DEF Accounted
<1>6. PoolTypeOK
  BY <1>1 DEF PoolInit, PoolTypeOK, Places
<1>7. WaitersWait /\ RoomIsKept
  BY DEF PoolInit, WaitersWait, RoomIsKept, IsInjective
<1> QED
  BY <1>3, <1>4, <1>5, <1>6, <1>7 DEF PoolInv, PoolSound

LEMMA PoolSteps == PoolInv /\ [PoolNext]_poolVars => PoolInv'
<1> SUFFICES ASSUME PoolInv, [PoolNext]_poolVars PROVE PoolInv'
  OBVIOUS
<1>1. CASE PoolNext
  BY <1>1, AcquireKeeps, CreatedKeeps, WakeKeeps, DieKeeps, ReleaseKeeps, SignalKeeps
     DEF PoolNext
<1>2. CASE UNCHANGED poolVars
  BY <1>2 DEF poolVars, PoolInv, PoolSound, PoolTypeOK, HeldByOne, Accounted, Holders,
              WaitersWait, RoomIsKept, Room
<1> QED
  BY <1>1, <1>2

(* Acquire and Release share the connections out: no two callers use one   *)
(* at a time, none is lost, none that is available is dead, and there are  *)
(* never more than maxConnections (conn_pool.go).                          *)
THEOREM ConnectionsAreShared == PoolSpec => []PoolSound
<1>1. PoolInv => PoolSound
  BY DEF PoolInv
<1> QED
  BY <1>1, PoolStarts, PoolSteps, PTL DEF PoolSpec

(* What a caller and the network do is one of the pool's steps, or none. *)
LEMMA StepsOfThePool == [Next]_vars => [PoolNext]_poolVars
<1> SUFFICES ASSUME [Next]_vars PROVE [PoolNext]_poolVars
  OBVIOUS
<1>1. ASSUME NEW k \in Caller, Pool(k) PROVE PoolNext
  BY <1>1 DEF Pool, Call, Connect, WakeUp, GiveBack, Notify, PoolNext
<1>2. ASSUME NEW k \in Caller, Use(k) PROVE UNCHANGED poolVars \/ Die(k)
  BY <1>2 DEF Use, Send, Exec, NextRow, Drain, ReadFails, ReadNothing, Rollback, DieOf, Die
<1>3. ASSUME NEW k \in Caller, ConnectSpins(k) PROVE UNCHANGED poolVars
  BY <1>3 DEF ConnectSpins
<1>4. ASSUME NEW x \in Connection, Break(x) PROVE UNCHANGED poolVars
  BY <1>4 DEF Break
<1>5. CASE UNCHANGED vars
  BY <1>5 DEF vars
<1> QED
  BY <1>1, <1>2, <1>3, <1>4, <1>5 DEF Next, PoolNext

(* What callers and the server do with the connections is a behaviour of   *)
(* the pool, in which a connection may die in the hands of its caller: a   *)
(* query sees no more of the pool than Acquire and Release (query.go,      *)
(* conn.go).                                                               *)
THEOREM QueriesUseThePool == Spec => PoolSpec
<1>1. Init => PoolInit
  BY DEF Init
<1> QED
  BY <1>1, StepsOfThePool, PTL DEF Spec, PoolSpec

(* So the pool is sound under connections that break and callers whose     *)
(* reads fail, end early or never end (conn_pool.go, query.go).            *)
THEOREM QueriesShareConnections == Spec => []PoolSound
BY ConnectionsAreShared, QueriesUseThePool, PTL

-----------------------------------------------------------------------------
(* Wake-ups. *)

Coming == {k \in Caller : pc[k] \in {"signal", "woken"}}

(* As long as callers wait, there is a wake-up for each available          *)
(* connection.  Only the list of those who wait bounds what is promised:   *)
(* a wake-up that is used up takes a connection with it.                   *)
WakeInv ==
  /\ IsFiniteSet(Coming)
  /\ waiters = <<>> \/ Cardinality(Coming) >= Len(available)

WaitInv == PoolInv /\ WakeInv

(* Who is woken or about to signal, before and after a step of k alone. *)
LEMMA ComingChanges ==
  ASSUME WaitInv, NEW k \in Caller, NEW place \in Places, Goto(k, place)
  PROVE  /\ place \in {"signal", "woken"} => Coming' = Coming \cup {k}
         /\ place \notin {"signal", "woken"} => Coming' = Coming \ {k}
         /\ IsFiniteSet(Coming')
<1>1. \A l \in Caller : pc'[l] = IF l = k THEN place ELSE pc[l]
  BY DEF Goto, WaitInv, PoolInv, PoolSound, PoolTypeOK
<1>2. /\ place \in {"signal", "woken"} => Coming' = Coming \cup {k}
      /\ place \notin {"signal", "woken"} => Coming' = Coming \ {k}
  BY <1>1 DEF Coming
<1>3. IsFiniteSet(Coming \cup {k}) /\ IsFiniteSet(Coming \ {k})
  BY FS_AddElement, FS_RemoveElement DEF WaitInv, WakeInv
<1> QED
  BY <1>2, <1>3

(* The numbers of wake-ups and of available connections. *)
LEMMA NumbersCompare ==
  ASSUME WaitInv
  PROVE  Cardinality(Coming) \in Nat /\ Len(available) \in Nat
BY FS_CardinalityType, LenProperties DEF WaitInv, WakeInv, PoolInv, PoolSound, PoolTypeOK

(* A caller that neither signals nor was woken. *)
LEMMA OthersWake ==
  ASSUME WaitInv, NEW k \in Caller, k \notin Coming, NEW place \in Places \ {"signal", "woken"},
         Goto(k, place)
  PROVE  Coming' = Coming
BY ComingChanges

(* cond.Wait is called when nothing is available. *)
LEMMA WaitWakes ==
  ASSUME WaitInv, NEW k \in Caller, Wait(k), available = <<>>
  PROVE  WakeInv'
<1>1. "wait" \in Places /\ Goto(k, "wait") /\ available' = <<>>
  BY DEF Wait, Places
<1>2. IsFiniteSet(Coming')
  BY <1>1, ComingChanges
<1>3. Cardinality(Coming') \in Nat /\ Len(available') = 0
  BY <1>1, <1>2, FS_CardinalityType, EmptySeq
<1> QED
  BY <1>2, <1>3 DEF WakeInv

(* Who is served takes a connection, and its wake-up if it had one. *)
LEMMA TakeWakes ==
  ASSUME WaitInv, NEW k \in Caller, Take(k), Goto(k, "hold"), UNCHANGED waiters
  PROVE  WakeInv'
<1>1. "hold" \in Places
  BY DEF Places
<1>2. IsFiniteSet(Coming') /\ Coming' = Coming \ {k}
  BY <1>1, ComingChanges
<1>3. PICK n \in Nat \ {0} : n = Len(available)
  BY EmptySeq DEF Take, WaitInv, PoolInv, PoolSound, PoolTypeOK
<1>4. Len(available') = n - 1
  <2>1. \A i \in 1..(n - 1) : available[i] \in Connection
    BY <1>3, LenProperties, ElementOfSeq DEF WaitInv, PoolInv, PoolSound, PoolTypeOK
  <2>2. available' = SubSeq(available, 1, n - 1)
    BY <1>3 DEF Take, Front
  <2>3. Len(SubSeq(available, 1, n - 1)) = n - 1
    BY <2>1, SubSeqProperties
  <2> QED
    BY <2>2, <2>3
<1>5. Cardinality(Coming') \in Nat /\ Cardinality(Coming') >= Cardinality(Coming) - 1
  <2>1. Cardinality(Coming \ {k}) = IF k \in Coming THEN Cardinality(Coming) - 1 ELSE Cardinality(Coming)
    BY FS_RemoveElement DEF WaitInv, WakeInv
  <2> QED
    BY <1>2, <2>1, NumbersCompare, FS_CardinalityType
<1> QED
  BY <1>2, <1>3, <1>4, <1>5, NumbersCompare DEF WaitInv, WakeInv

LEMMA AcquireWakes == ASSUME WaitInv, NEW k \in Caller, Acquire(k) PROVE WakeInv'
<1>1. CASE Take(k) /\ Goto(k, "hold") /\ UNCHANGED waiters
  BY <1>1, TakeWakes
<1>2. CASE available = <<>> /\ Wait(k)
  BY <1>2, WaitWakes
<1>3. CASE available = <<>> /\ Goto(k, "create") /\ UNCHANGED <<available, waiters>>
  <2>1. Coming' = Coming
    BY <1>3, OthersWake DEF Acquire, Coming, Places
  <2> QED
    BY <1>3, <2>1 DEF WaitInv, WakeInv
<1> QED
  BY <1>1, <1>2, <1>3 DEF Acquire

LEMMA CreatedWakes == ASSUME WaitInv, NEW k \in Caller, Created(k) PROVE WakeInv'
<1>1. PICK place \in {"hold", "idle"} : Goto(k, place)
  BY DEF Created
<1>2. Coming' = Coming
  BY <1>1, OthersWake DEF Created, Coming, Places
<1> QED
  BY <1>2 DEF Created, WaitInv, WakeInv

LEMMA WakeWakes == ASSUME WaitInv, NEW k \in Caller, Wake(k) PROVE WakeInv'
BY TakeWakes, WaitWakes DEF Wake

(* Release makes one more available at most, and one more signal. *)
LEMMA ReleaseWakes == ASSUME WaitInv, NEW k \in Caller, Release(k) PROVE WakeInv'
<1>1. pc[k] = "hold" /\ PutBack(k) /\ Goto(k, "signal") /\ UNCHANGED waiters /\ "signal" \in Places
  BY DEF Release, Places
<1>2. k \notin Coming /\ Coming' = Coming \cup {k} /\ IsFiniteSet(Coming')
  BY <1>1, ComingChanges DEF Coming
<1>3. Cardinality(Coming') = Cardinality(Coming) + 1
  BY <1>2, FS_AddElement DEF WaitInv, WakeInv
<1>4. Len(available') \in {Len(available), Len(available) + 1}
  <2>1. conn[k] \in Connection /\ available \in Seq(Connection)
    BY <1>1, HeldIsOurs DEF WaitInv, PoolInv, PoolSound, PoolTypeOK
  <2> QED
    BY <1>1, <2>1, AppendProperties DEF PutBack
<1> QED
  BY <1>1, <1>2, <1>3, <1>4, NumbersCompare DEF WaitInv, WakeInv

(* cond.Signal hands its wake-up on, unless nobody waits. *)
LEMMA SignalWakes == ASSUME WaitInv, NEW k \in Caller, Signal(k) PROVE WakeInv'
<1>1. pc[k] = "signal" /\ available' = available /\ k \in Coming
  BY DEF Signal, Coming
<1>2. CASE waiters = <<>> /\ Goto(k, "idle") /\ UNCHANGED waiters
  BY <1>2, ComingChanges DEF WakeInv, Places
<1>3. CASE /\ waiters # <<>>
           /\ pc' = [pc EXCEPT ![k] = "idle", ![Head(waiters)] = "woken"]
           /\ waiters' = Tail(waiters)
  <2>1. PICK h \in Caller : h = Head(waiters) /\ pc[h] = "wait"
    <3>1. waiters \in Seq(Caller) /\ 1 \in DOMAIN waiters /\ Head(waiters) = waiters[1]
      BY <1>3, EmptySeq, LenProperties DEF WaitInv, PoolInv, PoolSound, PoolTypeOK
    <3>2. waiters[1] \in Caller
      BY <3>1, LenProperties, ElementOfSeq
    <3> QED
      BY <3>1, <3>2 DEF WaitInv, PoolInv, WaitersWait
  <2>2. \A l \in Caller : pc'[l] = IF l = h THEN "woken" ELSE IF l = k THEN "idle" ELSE pc[l]
    BY <1>1, <1>3, <2>1 DEF WaitInv, PoolInv, PoolSound, PoolTypeOK
  <2>3. Coming' = (Coming \ {k}) \cup {h} /\ h \notin Coming /\ h # k
    BY <1>1, <2>1, <2>2 DEF Coming
  <2>4. IsFiniteSet(Coming \ {k}) /\ Cardinality(Coming \ {k}) = Cardinality(Coming) - 1
    BY <1>1, FS_RemoveElement DEF WaitInv, WakeInv
  <2>5. IsFiniteSet(Coming') /\ Cardinality(Coming') = Cardinality(Coming \ {k}) + 1
    BY <2>3, <2>4, FS_AddElement
  <2>6. waiters # <<>> => Cardinality(Coming') >= Len(available')
    BY <1>1, <2>4, <2>5, NumbersCompare DEF WaitInv, WakeInv
  <2> QED
    BY <1>3, <2>5, <2>6 DEF WakeInv
<1> QED
  BY <1>2, <1>3 DEF Signal

LEMMA WaitSteps == WaitInv /\ [PoolNext]_poolVars => WaitInv'
<1> SUFFICES ASSUME WaitInv, [PoolNext]_poolVars PROVE WakeInv'
  BY PoolSteps DEF WaitInv
<1>1. CASE PoolNext
  <2>1. ASSUME NEW k \in Caller, Die(k) PROVE WakeInv'
    BY <2>1 DEF Die, WaitInv, WakeInv, Coming
  <2> QED
    BY <1>1, <2>1, AcquireWakes, CreatedWakes, WakeWakes, ReleaseWakes, SignalWakes DEF PoolNext
<1>2. CASE UNCHANGED poolVars
  BY <1>2 DEF poolVars, WaitInv, WakeInv, Coming
<1> QED
  BY <1>1, <1>2

(* Who waits although a connection is there will be woken, and who waits   *)
(* for a connection that someone has will be woken by him.                 *)
LEMMA WakeUpsSuffice == WaitInv => WaitersAreServed
<1> SUFFICES ASSUME WaitInv PROVE WakeupsSuffice /\ WaitsForSomeone
  BY DEF WaitersAreServed
<1>1. Cardinality(Coming) \in Nat /\ Len(available) \in Nat
  BY NumbersCompare
<1>2. WakeupsSuffice
  <2>1. waiters = <<>> => Len(waiters) = 0
    BY EmptySeq
  <2>2. Cardinality(Coming) >= Len(available) \/ Cardinality(Coming) >= Len(waiters)
    BY <1>1, <2>1 DEF WaitInv, WakeInv
  <2> QED
    BY <2>2 DEF WakeupsSuffice, Coming
<1>3. ASSUME waiters # <<>>, all # {}, \A k \in Caller : pc[k] \notin {"hold", "signal", "woken"}
      PROVE  FALSE
  <2>1. Coming = {} /\ Holders = {}
    BY <1>3 DEF Coming, Holders
  <2>2. Len(available) = 0
    BY <1>1, <1>3, <2>1, FS_EmptySet DEF WaitInv, WakeInv
  <2>3. available = <<>>
    BY <2>2, EmptySeq DEF WaitInv, PoolInv, PoolSound, PoolTypeOK
  <2>4. all = {}
    BY <2>1, <2>3 DEF WaitInv, PoolInv, PoolSound, Accounted, Range
  <2> QED
    BY <1>3, <2>4
<1> QED
  BY <1>2, <1>3 DEF WaitsForSomeone

(* No wake-up is lost: a waiter that is woken takes a connection with it,  *)
(* Release signals after each connection it gives back, and a caller that  *)
(* came in between and took it leaves the waiter to wait again only when   *)
(* nothing is available (conn_pool.go Acquire, Release; sync.Cond).        *)
THEOREM WakeUpsAreNotLost == PoolSpec => []WaitersAreServed
<1>1. PoolInit => WaitInv
  <2> SUFFICES ASSUME PoolInit PROVE WakeInv
    BY PoolStarts DEF WaitInv
  <2>1. Coming = {} /\ waiters = <<>>
    BY DEF PoolInit, Coming
  <2> QED
    BY <2>1, FS_EmptySet DEF WakeInv
<1> QED
  BY <1>1, WaitSteps, WakeUpsSuffice, PTL DEF PoolSpec

(* The same under statements that fail and connections that break.         *)
THEOREM QueriesAreServed == Spec => []WaitersAreServed
BY WakeUpsAreNotLost, QueriesUseThePool, PTL

-----------------------------------------------------------------------------
(* Statements. *)

PhaseFits ==
  \A k \in Caller :
    /\ pc[k] = "hold" => phase[k] # "none"
    /\ phase[k] \notin {"none", "spin"} => pc[k] = "hold"
    /\ phase[k] = "spin" => pc[k] \in {"hold", "create"}
    /\ lock = k => pc[k] = "create"

(* A connection in good order: nothing was left unread on it. *)
Tidy(x) == x \in all /\ alive[x] /\ ~ poisoned[x] /\ ~ early[x]

Reading(k) == phase[k] \in {"read", "drain"}

(* All that is in s answers the last statement, and ends it. *)
OneAnswer(s) == \A i \in DOMAIN s : s[i].own /\ (s[i].kind = "ready" => i = Len(s))

(* What is on its way on such a connection is the answer its caller reads. *)
AnswersAlone ==
  \A x \in Connection : Tidy(x) =>
    /\ OneAnswer(in[x])
    /\ in[x] # <<>> => \E k \in Caller : Reading(k) /\ conn[k] = x

(* A caller that has taken another statement's row or tag for its own      *)
(* holds a connection that is not.                                         *)
GotFits == \A k \in Caller : got[k] = "stale" => pc[k] = "hold" /\ early[conn[k]]

(* The rest of an answer will tell that its statement was not carried out: *)
(* by an error, or because ReadyForQuery never comes.                      *)
Tells(s) ==
  \/ \E i \in DOMAIN s : s[i].kind \in {"error", "fatal"}
  \/ \A i \in DOMAIN s : s[i].kind # "ready"

FailuresTold ==
  \A k \in Caller : Tidy(conn[k]) /\ ~ err[k] =>
    /\ Reading(k) => carried[k] \/ Tells(in[conn[k]])
    /\ phase[k] = "release" => carried[k]

QueryInv == PhaseFits /\ AnswersAlone /\ GotFits /\ FailuresTold

(* The types of what the statements use. *)
CallTypeOK ==
  /\ in \in [Connection -> Seq(Messages)]
  /\ cut \in [Connection -> BOOLEAN]
  /\ poisoned \in [Connection -> BOOLEAN]
  /\ early \in [Connection -> BOOLEAN]
  /\ phase \in [Caller -> Phases]
  /\ op \in [Caller -> Ops]
  /\ err \in [Caller -> BOOLEAN]
  /\ got \in [Caller -> {"none", "own", "stale"}]
  /\ carried \in [Caller -> BOOLEAN]
  /\ calls \in 0..MaxCalls /\ faults \in 0..MaxFaults

QInv == PoolInv /\ CallTypeOK /\ QueryInv

(* The type invariant of PgPool is part of it. *)
LEMMA QueryTypes == QInv => TypeOK
<1> SUFFICES ASSUME QInv PROVE TypeOK
  OBVIOUS
<1>1. PoolTypeOK /\ CallTypeOK
  BY DEF QInv, PoolInv, PoolSound
<1>2. \A k \in Caller : pc[k] = "hold" <=> phase[k] \in Phases \ {"none"} /\ lock # k
  <2> TAKE k \in Caller
  <2>1. phase[k] \in Phases /\ (pc[k] = "create" => lock = k)
    BY <1>1 DEF CallTypeOK, QInv, PoolInv, RoomIsKept
  <2> QED
    BY <2>1 DEF QInv, QueryInv, PhaseFits
<1> QED
  BY <1>1, <1>2 DEF CallTypeOK, TypeOK

(* What a holder has is a connection that nobody else has. *)
LEMMA HeldAlone ==
  ASSUME QInv, NEW k \in Caller, pc[k] = "hold"
  PROVE  /\ conn[k] \in Connection /\ conn[k] \in all
         /\ \A l \in Caller : pc[l] = "hold" /\ conn[l] = conn[k] => l = k
BY HeldIsOurs DEF QInv, PoolInv, PoolSound, HeldByOne, Holders

(* What the others hold, and how far they are. *)
Others(k, x) ==
  /\ \A y \in Connection : y # x =>
       /\ in'[y] = in[y] /\ alive'[y] = alive[y]
       /\ poisoned'[y] = poisoned[y] /\ early'[y] = early[y]
  /\ \A l \in Caller : l # k =>
       /\ pc'[l] = pc[l] /\ conn'[l] = conn[l] /\ phase'[l] = phase[l]
       /\ err'[l] = err[l] /\ got'[l] = got[l] /\ carried'[l] = carried[l]

(* What has to be shown of the connection x that k holds, and of k. *)
GoodFor(k, x) ==
  /\ phase[k] # "none"
  /\ Tidy(x) => OneAnswer(in[x]) /\ (in[x] # <<>> => Reading(k))
  /\ got[k] = "stale" => early[x]
  /\ Tidy(x) /\ ~ err[k] =>
       /\ Reading(k) => carried[k] \/ Tells(in[x])
       /\ phase[k] = "release" => carried[k]

(* It is the case as long as the statement is under way.                   *)
LEMMA HolderIsGood ==
  ASSUME QInv, NEW k \in Caller, NEW x \in Connection, pc[k] = "hold", conn[k] = x
  PROVE  GoodFor(k, x)
<1>1. \A l \in Caller : Reading(l) /\ conn[l] = x => l = k
  <2>1. \A l \in Caller : Reading(l) => pc[l] = "hold"
    BY DEF QInv, QueryInv, PhaseFits, Reading
  <2> QED
    BY <2>1, HeldAlone
<1>2. phase[k] # "none"
  BY DEF QInv, QueryInv, PhaseFits
<1>3. Tidy(x) => OneAnswer(in[x]) /\ (in[x] # <<>> => Reading(k))
  BY <1>1 DEF QInv, QueryInv, AnswersAlone
<1>4. got[k] = "stale" => early[x]
  BY DEF QInv, QueryInv, GotFits
<1>5. Tidy(x) /\ ~ err[k] =>
        /\ Reading(k) => carried[k] \/ Tells(in[x])
        /\ phase[k] = "release" => carried[k]
  BY DEF QInv, QueryInv, FailuresTold
<1> QED
  BY <1>2, <1>3, <1>4, <1>5 DEF GoodFor

(* A step of a caller on its connection, which it keeps. *)
LEMMA HolderSteps ==
  ASSUME QInv, NEW k \in Caller, NEW x \in Connection, pc[k] = "hold", conn[k] = x,
         UNCHANGED <<all, pc, conn, lock>>, Others(k, x), GoodFor(k, x)'
  PROVE  QueryInv'
<1>1. x \in all /\ \A l \in Caller : l # k /\ pc[l] = "hold" => conn[l] # x
  BY HeldAlone
<1>2. PhaseFits'
  <2>1. phase'[k] # "none"
    BY DEF GoodFor
  <2>2. lock # k
    BY DEF QInv, QueryInv, PhaseFits
  <2> QED
    BY <2>1, <2>2 DEF QInv, QueryInv, PhaseFits, Others
<1>3. \A y \in Connection : y # x => (Tidy(y)' <=> Tidy(y))
  BY DEF Tidy, Others
<1>4. AnswersAlone'
  <2> SUFFICES ASSUME NEW y \in Connection, Tidy(y)'
               PROVE  /\ OneAnswer(in[y])'
                      /\ in'[y] # <<>> => \E l \in Caller : Reading(l)' /\ conn'[l] = y
    BY DEF AnswersAlone
  <2>1. CASE y = x
    BY <2>1 DEF GoodFor
  <2>2. CASE y # x
    <3>1. OneAnswer(in[y]) /\ (in[y] # <<>> => \E l \in Caller : Reading(l) /\ conn[l] = y)
      BY <1>3, <2>2 DEF QInv, QueryInv, AnswersAlone
    <3>2. in'[y] = in[y]
      BY <2>2 DEF Others
    <3>3. \A l \in Caller : Reading(l) /\ conn[l] = y => Reading(l)' /\ conn'[l] = y
      BY <2>2 DEF Others, Reading
    <3> QED
      BY <3>1, <3>2, <3>3 DEF OneAnswer
  <2> QED
    BY <2>1, <2>2
<1>5. GotFits'
  <2> SUFFICES ASSUME NEW l \in Caller, got'[l] = "stale"
               PROVE  pc'[l] = "hold" /\ early'[conn'[l]]
    BY DEF GotFits
  <2>1. CASE l = k
    BY <2>1 DEF GoodFor
  <2>2. CASE l # k
    <3>1. pc[l] = "hold" /\ early[conn[l]]
      BY <2>2 DEF Others, QInv, QueryInv, GotFits
    <3>2. conn[l] # x /\ conn[l] \in Connection
      BY <1>1, <2>2, <3>1, HeldAlone
    <3> QED
      BY <3>1, <3>2 DEF Others
  <2> QED
    BY <2>1, <2>2
<1>6. FailuresTold'
  <2> SUFFICES ASSUME NEW l \in Caller, Tidy(conn[l])', ~ err'[l]
               PROVE  /\ Reading(l)' => carried'[l] \/ Tells(in[conn[l]])'
                      /\ phase'[l] = "release" => carried'[l]
    BY DEF FailuresTold
  <2>1. CASE l = k
    BY <2>1 DEF GoodFor
  <2>2. ASSUME l # k, Reading(l) \/ phase[l] = "release"
        PROVE  /\ Reading(l)' => carried'[l] \/ Tells(in[conn[l]])'
               /\ phase'[l] = "release" => carried'[l]
    <3>1. pc[l] = "hold"
      BY <2>2 DEF QInv, QueryInv, PhaseFits, Reading
    <3>2. PICK y \in Connection : y = conn[l] /\ y # x
      BY <1>1, <2>2, <3>1, HeldAlone
    <3>3. Tidy(y) /\ ~ err[l] /\ in'[y] = in[y] /\ y = conn'[l]
      BY <1>3, <2>2, <3>2 DEF Others
    <3>4. (Reading(l) => carried[l] \/ Tells(in[y])) /\ (phase[l] = "release" => carried[l])
      BY <3>2, <3>3 DEF QInv, QueryInv, FailuresTold
    <3> QED
      BY <2>2, <3>2, <3>3, <3>4 DEF Others, Reading, Tells
  <2> QED
    BY <2>1, <2>2 DEF Others, Reading
<1> QED
  BY <1>2, <1>4, <1>5, <1>6 DEF QueryInv

(* What is left of an answer, when its first message has been read. *)
LEMMA RestOfAnswer ==
  ASSUME NEW s \in Seq(Messages), s # <<>>, NEW m, m = Head(s)
  PROVE  /\ m \in Messages /\ Tail(s) \in Seq(Messages)
         /\ OneAnswer(s) => m.own /\ OneAnswer(Tail(s))
         /\ OneAnswer(s) /\ m.kind = "ready" => Tail(s) = <<>> /\ ~ Tells(s)
         /\ Tells(s) => m.kind \in {"error", "fatal"} \/ Tells(Tail(s))
<1>1. PICK n \in Nat \ {0} : n = Len(s) /\ DOMAIN s = 1..n /\ m = s[1]
  BY EmptySeq, LenProperties
<1>2. \A i \in 1..n : s[i] \in Messages
  BY <1>1, ElementOfSeq
<1>3. PICK t \in Seq(Messages) : t = Tail(s)
  BY HeadTailProperties
<1>4. Len(t) = n - 1 /\ DOMAIN t = 1..(n - 1) /\ \A i \in 1..(n - 1) : t[i] = s[i + 1]
  BY <1>1, <1>3, HeadTailProperties, LenProperties
<1>5. \A i \in 1..(n - 1) : i + 1 \in 1..n
  OBVIOUS
<1>6. ASSUME OneAnswer(s) PROVE m.own /\ OneAnswer(t)
  <2>1. \A i \in 1..n : s[i].own /\ (s[i].kind = "ready" => i = n)
    BY <1>1, <1>6 DEF OneAnswer
  <2>2. \A i \in 1..(n - 1) : i + 1 = n <=> i = n - 1
    OBVIOUS
  <2>3. \A i \in 1..(n - 1) : t[i].own /\ (t[i].kind = "ready" => i = n - 1)
    BY <1>4, <1>5, <2>1, <2>2
  <2>4. 1 \in 1..n
    OBVIOUS
  <2> QED
    BY <1>1, <1>4, <2>1, <2>3, <2>4 DEF OneAnswer
<1>7. ASSUME OneAnswer(s), m.kind = "ready" PROVE t = <<>> /\ ~ Tells(s)
  <2>1. n = 1
    BY <1>1, <1>7 DEF OneAnswer
  <2>2. t = <<>>
    BY <1>4, <2>1, EmptySeq
  <2>3. ~ Tells(s)
    BY <1>1, <1>7, <2>1 DEF Tells
  <2> QED
    BY <2>2, <2>3
<1>8. ASSUME Tells(s), m.kind \notin {"error", "fatal"} PROVE Tells(t)
  <2>1. CASE \E i \in 1..n : s[i].kind \in {"error", "fatal"}
    <3>1. PICK i \in 1..n : s[i].kind \in {"error", "fatal"}
      BY <2>1
    <3>2. i # 1
      BY <1>1, <1>8, <3>1
    <3>3. PICK j \in 1..(n - 1) : i = j + 1
      BY <3>2
    <3> QED
      BY <1>4, <3>1, <3>3 DEF Tells
  <2>2. CASE \A i \in 1..n : s[i].kind # "ready"
    BY <1>4, <1>5, <2>2 DEF Tells
  <2> QED
    BY <1>1, <1>8, <2>1, <2>2 DEF Tells
<1> QED
  BY <1>1, <1>2, <1>3, <1>6, <1>7, <1>8

(* rxMsg, on the connection x of k. *)
LEMMA RxReads ==
  ASSUME QInv, NEW k \in Caller, NEW x \in Connection, pc[k] = "hold", conn[k] = x,
         NEW m \in Messages, Rx(k, m)
  PROVE  /\ in' \in [Connection -> Seq(Messages)]
         /\ poisoned' \in [Connection -> BOOLEAN]
         /\ \A y \in Connection : y # x => in'[y] = in[y] /\ poisoned'[y] = poisoned[y]
         /\ x \in all /\ alive[x] /\ ~ poisoned[x]
         /\ m.torn /\ m.kind = "ready" => poisoned'[x]
         /\ early[x] \/ m.own
         /\ Tidy(x) => OneAnswer(in'[x])
         /\ Tidy(x) /\ m.kind = "ready" => in'[x] = <<>> /\ ~ Tells(in[x])
         /\ Tells(in[x]) => m.kind \in {"error", "fatal"} \/ Tells(in'[x])
<1>1. in[x] \in Seq(Messages) /\ in[x] # <<>> /\ m = Head(in[x])
  BY DEF Rx, QInv, CallTypeOK
<1>2. x \in all /\ alive[x] /\ ~ poisoned[x]
  BY HeldAlone DEF Rx
<1>3. /\ in' \in [Connection -> Seq(Messages)] /\ in'[x] = Tail(in[x])
      /\ \A y \in Connection : y # x => in'[y] = in[y]
  BY <1>1, RestOfAnswer DEF Rx, QInv, CallTypeOK
<1>4. \A S : (m.kind \in S) \in BOOLEAN
  OBVIOUS
<1>5. Poisons(k, m) \in BOOLEAN
  BY DEF Poisons
<1>6. /\ poisoned' \in [Connection -> BOOLEAN]
      /\ poisoned'[x] = Poisons(k, m)
      /\ \A y \in Connection : y # x => poisoned'[y] = poisoned[y]
  BY <1>5 DEF Rx, QInv, CallTypeOK
<1>7. m.torn /\ m.kind = "ready" => poisoned'[x]
  BY <1>6 DEF Poisons, BodiesRead
<1>8. Tidy(x) => OneAnswer(in[x])
  BY DEF QInv, QueryInv, AnswersAlone
<1>9. early[x] \/ Tidy(x)
  BY <1>2 DEF Tidy
<1> QED
  BY <1>1, <1>2, <1>3, <1>6, <1>7, <1>8, <1>9, RestOfAnswer

(* A fatal error ends the connection, another leaves it alive. *)
LEMMA FatalKills ==
  ASSUME QInv, NEW k \in Caller, NEW x \in Connection, pc[k] = "hold", conn[k] = x,
         NEW m \in Messages, DieOf(k, m)
  PROVE  /\ UNCHANGED <<all, pc, conn, lock>>
         /\ m.kind = "fatal" => ~ alive'[x]
         /\ m.kind # "fatal" => alive'[x] = alive[x]
         /\ \A y \in Connection : y # x => alive'[y] = alive[y]
BY DEF DieOf, Die, poolVars, QInv, PoolInv, PoolSound, PoolTypeOK

(* What one caller sets of its own. *)
LEMMA EnterSets ==
  ASSUME QInv, NEW k \in Caller, NEW p \in Phases, Enter(k, p)
  PROVE  /\ phase' \in [Caller -> Phases] /\ phase'[k] = p
         /\ \A l \in Caller : l # k => phase'[l] = phase[l]
BY DEF Enter, QInv, CallTypeOK

LEMMA SetErrSets ==
  ASSUME QInv, NEW k \in Caller, NEW b \in BOOLEAN, SetErr(k, b)
  PROVE  /\ err' \in [Caller -> BOOLEAN] /\ err'[k] = b
         /\ \A l \in Caller : l # k => err'[l] = err[l]
BY DEF SetErr, QInv, CallTypeOK

LEMMA FreshFits == \A m \in Messages : Fresh(m) \in {"own", "stale"} /\ (Fresh(m) = "stale" <=> ~ m.own)
BY DEF Fresh, Messages

(* Exec's loop. *)
LEMMA ExecQueries == ASSUME QInv, NEW k \in Caller, Exec(k) PROVE CallTypeOK' /\ QueryInv'
<1>1. /\ phase[k] = "read" /\ op[k] = "exec"
      /\ UNCHANGED <<cut, early, op, carried, calls, faults>>
  BY DEF Exec
<1>2. pc[k] = "hold"
  BY <1>1 DEF QInv, QueryInv, PhaseFits
<1>3. PICK x \in Connection : conn[k] = x
  BY <1>2, HeldAlone
<1>4. PICK m \in Messages :
        /\ Rx(k, m)
        /\ DieOf(k, m)
        /\ SetErr(k, err[k] \/ m.kind \in {"error", "fatal"})
        /\ got' = IF m.kind = "complete" /\ ~ m.torn THEN [got EXCEPT ![k] = Fresh(m)] ELSE got
        /\ IF m.kind = "ready" THEN Ready(k, m) ELSE UNCHANGED phase
  BY DEF Exec
<1>5. GoodFor(k, x)
  BY <1>2, <1>3, HolderIsGood
<1>6. /\ phase' \in [Caller -> Phases]
      /\ m.kind = "ready" => phase'[k] \in {"rollback", "release"} /\ (m.torn => phase'[k] = "rollback")
      /\ m.kind # "ready" => phase'[k] = "read"
      /\ \A l \in Caller : l # k => phase'[l] = phase[l]
  <2>1. CASE m.kind = "ready"
    BY <1>4, <2>1, EnterSets DEF Ready, Phases
  <2>2. CASE m.kind # "ready"
    BY <1>1, <1>4, <2>2 DEF QInv, CallTypeOK
  <2> QED
    BY <2>1, <2>2
<1>7. (err[k] \/ m.kind \in {"error", "fatal"}) \in BOOLEAN
  OBVIOUS
<1>8. /\ err' \in [Caller -> BOOLEAN] /\ (err'[k] <=> err[k] \/ m.kind \in {"error", "fatal"})
      /\ \A l \in Caller : l # k => err'[l] = err[l]
  BY <1>4, <1>7, SetErrSets
<1>9. /\ got' \in [Caller -> {"none", "own", "stale"}]
      /\ got'[k] = "stale" => got[k] = "stale" \/ ~ m.own
      /\ \A l \in Caller : l # k => got'[l] = got[l]
  BY <1>4, FreshFits DEF QInv, CallTypeOK
<1>10. CallTypeOK'
  BY <1>1, <1>2, <1>3, <1>4, <1>6, <1>8, <1>9, RxReads DEF QInv, CallTypeOK
<1>11. Others(k, x) /\ UNCHANGED <<all, pc, conn, lock>>
  BY <1>1, <1>2, <1>3, <1>4, <1>6, <1>8, <1>9, RxReads, FatalKills DEF Others
<1>12. /\ x \in all /\ alive[x] /\ ~ poisoned[x]
       /\ m.torn /\ m.kind = "ready" => poisoned'[x]
       /\ early[x] \/ m.own
       /\ Tidy(x) => OneAnswer(in'[x])
       /\ Tidy(x) /\ m.kind = "ready" => in'[x] = <<>> /\ ~ Tells(in[x])
       /\ Tells(in[x]) => m.kind \in {"error", "fatal"} \/ Tells(in'[x])
  BY <1>2, <1>3, <1>4, RxReads
<1>13. Tidy(x)' => Tidy(x)
  BY <1>1, <1>12 DEF Tidy
<1>14. GoodFor(k, x)'
  <2>1. phase'[k] # "none"
    BY <1>6
  <2>2. Tidy(x)' => OneAnswer(in'[x]) /\ (in'[x] # <<>> => Reading(k)')
    BY <1>6, <1>12, <1>13 DEF Reading
  <2>3. got'[k] = "stale" => early'[x]
    BY <1>1, <1>5, <1>9, <1>12 DEF GoodFor
  <2>4. ASSUME Tidy(x)', ~ err'[k]
        PROVE  /\ Reading(k)' => carried'[k] \/ Tells(in'[x])
               /\ phase'[k] = "release" => carried'[k]
    <3>1. Tidy(x) /\ ~ err[k] /\ m.kind \notin {"error", "fatal"}
      BY <1>8, <1>13, <2>4
    <3>2. carried[k] \/ Tells(in[x])
      BY <1>1, <1>5, <3>1 DEF GoodFor, Reading
    <3> QED
      BY <1>1, <1>6, <1>12, <3>1, <3>2 DEF Reading
  <2> QED
    BY <2>1, <2>2, <2>3, <2>4 DEF GoodFor
<1> QED
  BY <1>2, <1>3, <1>10, <1>11, <1>14, HolderSteps

(* rows.Next and Scan. *)
LEMMA NextRowQueries == ASSUME QInv, NEW k \in Caller, NextRow(k) PROVE CallTypeOK' /\ QueryInv'
<1>1. phase[k] = "read" /\ UNCHANGED <<cut, early, op, carried, calls, faults>>
  BY DEF NextRow
<1>2. pc[k] = "hold"
  BY <1>1 DEF QInv, QueryInv, PhaseFits
<1>3. PICK x \in Connection : conn[k] = x
  BY <1>2, HeldAlone
<1>4. PICK m \in Messages :
        /\ Rx(k, m)
        /\ DieOf(k, m)
        /\ \/ m.kind = "ready" /\ Ready(k, m) /\ UNCHANGED <<err, got>>
           \/ m.kind = "complete" /\ UNCHANGED <<phase, err, got>>
           \/ m.kind \in {"error", "fatal"} /\ SetErr(k, TRUE) /\ Enter(k, "drain") /\ UNCHANGED got
           \/ /\ m.kind = "row"
              /\ got' = [got EXCEPT ![k] = Fresh(m)]
              /\ Enter(k, IF op[k] = "row" THEN "drain" ELSE "read")
              /\ UNCHANGED err
           \/ /\ m.kind = "row" /\ (m.torn \/ ~ m.own)
              /\ SetErr(k, TRUE) /\ Enter(k, "drain") /\ UNCHANGED got
  BY DEF NextRow
<1>5. GoodFor(k, x)
  BY <1>2, <1>3, HolderIsGood
<1>6. /\ phase' \in [Caller -> Phases]
      /\ m.kind = "ready" => phase'[k] \in {"rollback", "release"} /\ (m.torn => phase'[k] = "rollback")
      /\ m.kind # "ready" => phase'[k] \in {"read", "drain"}
      /\ \A l \in Caller : l # k => phase'[l] = phase[l]
  <2>1. CASE Ready(k, m) /\ m.kind = "ready"
    BY <2>1, EnterSets DEF Ready, Phases
  <2>2. CASE m.kind = "complete" /\ UNCHANGED phase
    BY <1>1, <2>2 DEF QInv, CallTypeOK
  <2>3. ASSUME NEW p \in {"read", "drain"}, Enter(k, p), m.kind # "ready" 
        PROVE  phase' \in [Caller -> Phases] /\ phase'[k] = p
               /\ \A l \in Caller : l # k => phase'[l] = phase[l]
    BY <2>3, EnterSets DEF Phases
  <2> QED
    BY <1>4, <2>1, <2>2, <2>3
<1>7. /\ err' \in [Caller -> BOOLEAN]
      /\ ~ err'[k] => ~ err[k] /\ m.kind \notin {"error", "fatal"}
      /\ \A l \in Caller : l # k => err'[l] = err[l]
  <2>1. CASE UNCHANGED err /\ m.kind \notin {"error", "fatal"}
    BY <2>1 DEF QInv, CallTypeOK
  <2>2. CASE SetErr(k, TRUE)
    BY <2>2, SetErrSets
  <2> QED
    BY <1>4, <2>1, <2>2
<1>8. /\ got' \in [Caller -> {"none", "own", "stale"}]
      /\ got'[k] = "stale" => got[k] = "stale" \/ ~ m.own
      /\ \A l \in Caller : l # k => got'[l] = got[l]
  BY <1>4, FreshFits DEF QInv, CallTypeOK
<1>9. CallTypeOK'
  BY <1>1, <1>2, <1>3, <1>4, <1>6, <1>7, <1>8, RxReads DEF QInv, CallTypeOK
<1>10. Others(k, x) /\ UNCHANGED <<all, pc, conn, lock>>
  BY <1>1, <1>2, <1>3, <1>4, <1>6, <1>7, <1>8, RxReads, FatalKills DEF Others
<1>11. /\ x \in all /\ alive[x] /\ ~ poisoned[x]
       /\ m.torn /\ m.kind = "ready" => poisoned'[x]
       /\ early[x] \/ m.own
       /\ Tidy(x) => OneAnswer(in'[x])
       /\ Tidy(x) /\ m.kind = "ready" => in'[x] = <<>> /\ ~ Tells(in[x])
       /\ Tells(in[x]) => m.kind \in {"error", "fatal"} \/ Tells(in'[x])
  BY <1>2, <1>3, <1>4, RxReads
<1>12. Tidy(x)' => Tidy(x)
  BY <1>1, <1>11 DEF Tidy
<1>13. GoodFor(k, x)'
  <2>1. phase'[k] # "none"
    BY <1>6
  <2>2. Tidy(x)' => OneAnswer(in'[x]) /\ (in'[x] # <<>> => Reading(k)')
    BY <1>6, <1>11, <1>12 DEF Reading
  <2>3. got'[k] = "stale" => early'[x]
    BY <1>1, <1>5, <1>8, <1>11 DEF GoodFor
  <2>4. ASSUME Tidy(x)', ~ err'[k]
        PROVE  /\ Reading(k)' => carried'[k] \/ Tells(in'[x])
               /\ phase'[k] = "release" => carried'[k]
    <3>1. Tidy(x) /\ ~ err[k] /\ m.kind \notin {"error", "fatal"}
      BY <1>7, <1>12, <2>4
    <3>2. carried[k] \/ Tells(in[x])
      BY <1>1, <1>5, <3>1 DEF GoodFor, Reading
    <3> QED
      BY <1>1, <1>6, <1>11, <3>1, <3>2 DEF Reading
  <2> QED
    BY <2>1, <2>2, <2>3, <2>4 DEF GoodFor
<1> QED
  BY <1>2, <1>3, <1>9, <1>10, <1>13, HolderSteps

(* readUntilReadyForQuery: when an error ends it, the connection is marked. *)
LEMMA DrainQueries == ASSUME QInv, NEW k \in Caller, Drain(k) PROVE CallTypeOK' /\ QueryInv'
<1>1. phase[k] = "drain" /\ UNCHANGED <<cut, op, err, got, carried, calls, faults>>
  BY DEF Drain
<1>2. pc[k] = "hold"
  BY <1>1 DEF QInv, QueryInv, PhaseFits
<1>3. PICK x \in Connection : conn[k] = x
  BY <1>2, HeldAlone
<1>4. PICK m \in Messages :
        /\ Rx(k, m)
        /\ DieOf(k, m)
        /\ early' = [early EXCEPT ![conn[k]] = @ \/ m.kind = "error"]
        /\ IF EndsDrain(m) THEN Ready(k, [m EXCEPT !.torn = @ /\ m.kind = "ready"]) ELSE UNCHANGED phase
  BY DEF Drain
<1>5. GoodFor(k, x)
  BY <1>2, <1>3, HolderIsGood
<1>6. /\ phase' \in [Caller -> Phases]
      /\ m.kind = "ready" => phase'[k] \in {"rollback", "release"} /\ (m.torn => phase'[k] = "rollback")
      /\ m.kind \in {"error", "fatal"} => phase'[k] = "release"
      /\ m.kind \notin {"ready", "error", "fatal"} => phase'[k] = "drain"
      /\ \A l \in Caller : l # k => phase'[l] = phase[l]
  <2>1. CASE EndsDrain(m)
    <3>1. [m EXCEPT !.torn = @ /\ m.kind = "ready"].torn = (m.torn /\ m.kind = "ready")
      BY DEF Messages
    <3>2. PICK p \in {"rollback", "release"} :
            /\ Enter(k, p)
            /\ p = IF m.torn /\ m.kind = "ready" THEN "rollback" ELSE "release"
      BY <1>4, <2>1, <3>1 DEF Ready
    <3> QED
      BY <2>1, <3>2, EnterSets DEF EndsDrain, Phases
  <2>2. CASE ~ EndsDrain(m)
    BY <1>1, <1>4, <2>2 DEF QInv, CallTypeOK, EndsDrain
  <2> QED
    BY <2>1, <2>2
<1>7. (early[x] \/ m.kind = "error") \in BOOLEAN
  OBVIOUS
<1>8. /\ early' \in [Connection -> BOOLEAN]
      /\ early'[x] <=> early[x] \/ m.kind = "error"
      /\ \A y \in Connection : y # x => early'[y] = early[y]
  BY <1>3, <1>4, <1>7 DEF QInv, CallTypeOK
<1>9. CallTypeOK'
  BY <1>1, <1>2, <1>3, <1>4, <1>6, <1>8, RxReads DEF QInv, CallTypeOK
<1>10. Others(k, x) /\ UNCHANGED <<all, pc, conn, lock>>
  BY <1>1, <1>2, <1>3, <1>4, <1>6, <1>8, RxReads, FatalKills DEF Others
<1>11. /\ x \in all /\ alive[x] /\ ~ poisoned[x]
       /\ m.torn /\ m.kind = "ready" => poisoned'[x]
       /\ Tidy(x) => OneAnswer(in'[x])
       /\ Tidy(x) /\ m.kind = "ready" => in'[x] = <<>> /\ ~ Tells(in[x])
       /\ Tells(in[x]) => m.kind \in {"error", "fatal"} \/ Tells(in'[x])
       /\ m.kind = "fatal" => ~ alive'[x]
  BY <1>2, <1>3, <1>4, RxReads, FatalKills
<1>12. Tidy(x)' => Tidy(x) /\ m.kind \notin {"error", "fatal"}
  BY <1>8, <1>11 DEF Tidy
<1>13. GoodFor(k, x)'
  <2>1. phase'[k] # "none"
    BY <1>6
  <2>2. Tidy(x)' => OneAnswer(in'[x]) /\ (in'[x] # <<>> => Reading(k)')
    BY <1>6, <1>11, <1>12 DEF Reading
  <2>3. got'[k] = "stale" => early'[x]
    BY <1>1, <1>5, <1>8 DEF GoodFor
  <2>4. ASSUME Tidy(x)', ~ err'[k]
        PROVE  /\ Reading(k)' => carried'[k] \/ Tells(in'[x])
               /\ phase'[k] = "release" => carried'[k]
    <3>1. Tidy(x) /\ ~ err[k] /\ m.kind \notin {"error", "fatal"}
      BY <1>1, <1>12, <2>4
    <3>2. carried[k] \/ Tells(in[x])
      BY <1>1, <1>5, <3>1 DEF GoodFor, Reading
    <3> QED
      BY <1>1, <1>6, <1>11, <3>1, <3>2 DEF Reading
  <2> QED
    BY <2>1, <2>2, <2>3, <2>4 DEF GoodFor
<1> QED
  BY <1>2, <1>3, <1>9, <1>10, <1>13, HolderSteps

(* A connection that has died is in no order that has to be kept. *)
LEMMA DyingQueries ==
  ASSUME QInv, NEW k \in Caller, pc[k] = "hold", Die(k), NEW p \in Phases \ {"none"}, Enter(k, p),
         NEW b \in BOOLEAN, SetErr(k, b),
         UNCHANGED <<connVars, op, got, carried, calls, faults>>
  PROVE  CallTypeOK' /\ QueryInv'
<1>1. PICK x \in Connection : conn[k] = x
  BY HeldAlone
<1>2. /\ phase' \in [Caller -> Phases] /\ phase'[k] = p
      /\ \A l \in Caller : l # k => phase'[l] = phase[l]
  BY EnterSets
<1>3. /\ err' \in [Caller -> BOOLEAN] /\ \A l \in Caller : l # k => err'[l] = err[l]
  BY SetErrSets
<1>4. ~ alive'[x] /\ \A y \in Connection : y # x => alive'[y] = alive[y]
  BY <1>1 DEF Die, QInv, PoolInv, PoolSound, PoolTypeOK
<1>5. CallTypeOK'
  BY <1>2, <1>3 DEF connVars, QInv, CallTypeOK
<1>6. Others(k, x) /\ UNCHANGED <<all, pc, conn, lock>>
  BY <1>2, <1>3, <1>4 DEF Others, Die, connVars
<1>7. GoodFor(k, x)
  BY <1>1, HolderIsGood
<1>8. GoodFor(k, x)'
  BY <1>2, <1>4, <1>7 DEF GoodFor, Tidy, connVars
<1> QED
  BY <1>1, <1>5, <1>6, <1>8, HolderSteps

LEMMA ReadFailsQueries == ASSUME QInv, NEW k \in Caller, ReadFails(k) PROVE CallTypeOK' /\ QueryInv'
<1>1. pc[k] = "hold"
  BY DEF ReadFails, Die
<1>2. (err[k] \/ phase[k] = "read") \in BOOLEAN
  OBVIOUS
<1>3. "release" \in Phases \ {"none"}
  BY DEF Phases
<1> QED
  BY <1>1, <1>2, <1>3, DyingQueries DEF ReadFails

(* Rollback of a connection whose reader is poisoned. *)
LEMMA StillPoisoned ==
  ASSUME QInv, NEW k \in Caller, NEW x \in Connection, pc[k] = "hold", conn[k] = x, ~ Tidy(x),
         NEW p \in Phases \ {"none"}, Enter(k, p), NEW b \in BOOLEAN, SetErr(k, b),
         UNCHANGED <<poolVars, connVars, op, got, carried, calls, faults>>
  PROVE  CallTypeOK' /\ QueryInv'
<1>1. /\ phase' \in [Caller -> Phases] /\ phase'[k] = p
      /\ \A l \in Caller : l # k => phase'[l] = phase[l]
  BY EnterSets
<1>2. /\ err' \in [Caller -> BOOLEAN] /\ \A l \in Caller : l # k => err'[l] = err[l]
  BY SetErrSets
<1>3. CallTypeOK'
  BY <1>1, <1>2 DEF connVars, QInv, CallTypeOK
<1>4. Others(k, x) /\ UNCHANGED <<all, pc, conn, lock>>
  BY <1>1, <1>2 DEF Others, poolVars, connVars
<1>5. GoodFor(k, x)'
  <2>1. GoodFor(k, x) /\ ~ Tidy(x)'
    BY HolderIsGood DEF Tidy, poolVars, connVars
  <2> QED
    BY <1>1, <2>1 DEF GoodFor, connVars
<1> QED
  BY <1>3, <1>4, <1>5, HolderSteps

(* The message of type 0: the connection is poisoned, and remains so. *)
LEMMA ReadNothingQueries == ASSUME QInv, NEW k \in Caller, ReadNothing(k) PROVE CallTypeOK' /\ QueryInv'
<1>1. /\ Reading(k) /\ poisoned[conn[k]]
      /\ UNCHANGED <<poolVars, connVars, op, got, carried, calls, faults>>
  BY DEF ReadNothing, Reading
<1>2. pc[k] = "hold"
  BY <1>1 DEF QInv, QueryInv, PhaseFits, Reading
<1>3. PICK x \in Connection : conn[k] = x
  BY <1>2, HeldAlone
<1>4. ~ Tidy(x)
  BY <1>1, <1>3 DEF Tidy
<1>5. PICK p \in Phases \ {"none"}, b \in BOOLEAN : Enter(k, p) /\ SetErr(k, b)
  <2>1. err = [err EXCEPT ![k] = err[k]] /\ err[k] \in BOOLEAN
    BY DEF QInv, CallTypeOK
  <2>2. UNCHANGED err => SetErr(k, err[k])
    BY <2>1 DEF SetErr
  <2>3. "spin" \in Phases \ {"none"} /\ "drain" \in Phases \ {"none"} /\ "release" \in Phases \ {"none"}
    BY DEF Phases
  <2>4. CASE Enter(k, "spin") /\ UNCHANGED err
    BY <2>1, <2>2, <2>3, <2>4
  <2>5. CASE Enter(k, "drain") /\ SetErr(k, TRUE)
    BY <2>3, <2>5
  <2>6. CASE Enter(k, "release") /\ UNCHANGED err
    BY <2>1, <2>2, <2>3, <2>6
  <2> QED
    BY <2>4, <2>5, <2>6 DEF ReadNothing
<1> QED
  BY <1>1, <1>2, <1>3, <1>4, <1>5, StillPoisoned

(* The rollback of Release: the connection dies, or the loop has no end. *)
LEMMA RollbackQueries == ASSUME QInv, NEW k \in Caller, Rollback(k) PROVE CallTypeOK' /\ QueryInv'
<1>1. phase[k] = "rollback" /\ UNCHANGED <<connVars, callVars, calls, faults>>
  BY DEF Rollback
<1>2. pc[k] = "hold"
  BY <1>1 DEF QInv, QueryInv, PhaseFits
<1>3. PICK x \in Connection : conn[k] = x
  BY <1>2, HeldAlone
<1>4. CASE Die(k) /\ Enter(k, "release")
  <2>1. SetErr(k, err[k]) /\ err[k] \in BOOLEAN
    BY <1>1 DEF SetErr, callVars, QInv, CallTypeOK
  <2>2. "release" \in Phases \ {"none"}
    BY DEF Phases
  <2> QED
    BY <1>1, <1>2, <1>4, <2>1, <2>2, DyingQueries DEF callVars
<1>5. CASE Enter(k, "spin") /\ UNCHANGED poolVars
  <2>1. /\ phase' \in [Caller -> Phases] /\ phase'[k] = "spin"
        /\ \A l \in Caller : l # k => phase'[l] = phase[l]
    BY <1>5, EnterSets DEF Phases
  <2>2. CallTypeOK'
    BY <1>1, <2>1 DEF connVars, callVars, QInv, CallTypeOK
  <2>3. Others(k, x) /\ UNCHANGED <<all, pc, conn, lock>>
    BY <1>1, <1>5, <2>1 DEF Others, poolVars, connVars, callVars
  <2>4. GoodFor(k, x)
    BY <1>2, <1>3, HolderIsGood
  <2>5. Tidy(x)' => Tidy(x)
    BY <1>1, <1>5 DEF Tidy, poolVars, connVars
  <2>6. Tidy(x) => OneAnswer(in[x]) /\ in[x] = <<>>
    BY <1>1, <2>4 DEF GoodFor, Reading
  <2>7. UNCHANGED <<in, early, got>>
    BY <1>1 DEF connVars, callVars
  <2>8. Tidy(x)' => OneAnswer(in[x])' /\ (in'[x] # <<>> => Reading(k)')
    BY <2>5, <2>6, <2>7
  <2>9. GoodFor(k, x)'
    BY <2>1, <2>4, <2>7, <2>8 DEF GoodFor, Reading
  <2> QED
    BY <1>2, <1>3, <2>2, <2>3, <2>9, HolderSteps
<1> QED
  BY <1>1, <1>4, <1>5 DEF Rollback

(* What the server may send for one statement. *)
LEMMA AnswersEnd ==
  ASSUME NEW a \in Answers \cup LateAnswers
  PROVE  /\ a \in Seq(Kinds)
         /\ \A i \in DOMAIN a : a[i] = "ready" => i = Len(a)
<1>1. CASE a = <<"row", "complete", "ready">>
  BY <1>1 DEF Kinds
<1>2. CASE a = <<"complete", "ready">>
  BY <1>2 DEF Kinds
<1>3. CASE a = <<"error", "ready">>
  BY <1>3 DEF Kinds
<1>4. CASE a = <<"row", "error", "ready">>
  BY <1>4 DEF Kinds
<1>5. CASE a = <<"row", "complete", "error", "ready">>
  BY <1>5 DEF Kinds
<1>6. CASE a = <<"fatal">>
  BY <1>6 DEF Kinds
<1>7. CASE a = <<"row", "fatal">>
  BY <1>7 DEF Kinds
<1> QED
  BY <1>1, <1>2, <1>3, <1>4, <1>5, <1>6, <1>7 DEF Answers, LateAnswers

(* They come as messages that answer the statement sent last. *)
LEMMA ServeAnswers ==
  ASSUME QInv, NEW k \in Caller, NEW x \in Connection, conn[k] = x,
         NEW a \in Answers \cup LateAnswers, Serve(k, a)
  PROVE  /\ in' \in [Connection -> Seq(Messages)] /\ cut' \in [Connection -> BOOLEAN]
         /\ carried' \in [Caller -> BOOLEAN]
         /\ \A y \in Connection : y # x => in'[y] = in[y]
         /\ \A l \in Caller : l # k => carried'[l] = carried[l]
         /\ carried'[k] \/ Tells(in'[x])
         /\ in[x] = <<>> => OneAnswer(in'[x])
<1> DEFINE t == [i \in DOMAIN a |-> Message(a[i])]
<1>1. PICK n \in Nat :
        /\ n = Len(a) /\ DOMAIN a = 1..n
        /\ \A i \in 1..n : a[i] \in Kinds /\ (a[i] = "ready" => i = n)
  BY AnswersEnd, LenProperties, ElementOfSeq
<1>2. t \in Seq(Messages) /\ Len(t) = n
  <2>1. \A i \in 1..n : Message(a[i]) \in Messages
    BY <1>1 DEF Message, Messages
  <2>2. t \in [1..n -> Messages]
    BY <1>1, <2>1
  <2> QED
    BY <2>2, IsASeq, LenProperties
<1>3. PICK s \in Seq(Messages) : s = in[x]
  BY DEF QInv, CallTypeOK
<1>4. PICK m \in Nat : m = Len(s) /\ DOMAIN s = 1..m /\ \A i \in 1..m : s[i] \in Messages
  BY LenProperties, ElementOfSeq
<1>5. Stale(s) \in Seq(Messages) /\ Len(Stale(s)) = m
  <2>1. \A i \in 1..m : [s[i] EXCEPT !.own = FALSE] \in Messages
    BY <1>4 DEF Messages
  <2>2. Stale(s) \in [1..m -> Messages]
    BY <1>4, <2>1 DEF Stale
  <2> QED
    BY <2>2, IsASeq, LenProperties
<1>6. PICK q \in Seq(Messages) : q = Stale(s) \o t
  BY <1>2, <1>5, ConcatProperties
<1>7. /\ Len(q) = m + n /\ DOMAIN q = 1..(m + n)
      /\ \A i \in 1..n : q[m + i] = t[i]
  <2>1. Len(q) = m + n
    BY <1>2, <1>5, <1>6, ConcatProperties
  <2>2. \A i \in 1..(m + n) : q[i] = IF i <= m THEN Stale(s)[i] ELSE t[i - m]
    BY <1>2, <1>5, <1>6, ConcatProperties
  <2>3. \A i \in 1..n : m + i \in 1..(m + n) /\ ~ (m + i <= m) /\ (m + i) - m = i
    BY <1>1, <1>4
  <2>4. \A i \in 1..n : q[m + i] = t[i]
    BY <2>2, <2>3
  <2> QED
    BY <2>1, <2>4, LenProperties
<1>8. \A i \in 1..n : t[i].kind = a[i] /\ t[i].own
  BY <1>1 DEF Message
<1>9. in' = [in EXCEPT ![x] = q]
  BY <1>3, <1>6 DEF Serve
<1>10. /\ in' \in [Connection -> Seq(Messages)] /\ in'[x] = q
       /\ \A y \in Connection : y # x => in'[y] = in[y]
  BY <1>9 DEF QInv, CallTypeOK
<1>11. cut' \in [Connection -> BOOLEAN]
  <2>1. ("fatal" \in Range(a)) \in BOOLEAN
    OBVIOUS
  <2> QED
    BY <2>1 DEF Serve, QInv, CallTypeOK
<1>12. /\ carried' \in [Caller -> BOOLEAN]
       /\ carried'[k] <=> Range(a) \cap {"error", "fatal"} = {}
       /\ \A l \in Caller : l # k => carried'[l] = carried[l]
  <2>1. (Range(a) \cap {"error", "fatal"} = {}) \in BOOLEAN
    OBVIOUS
  <2> QED
    BY <2>1 DEF Serve, QInv, CallTypeOK
<1>13. carried'[k] \/ Tells(in'[x])
  <2> SUFFICES ASSUME ~ carried'[k] PROVE Tells(q)
    BY <1>10
  <2>1. PICK i \in 1..n : a[i] \in {"error", "fatal"}
    BY <1>1, <1>12 DEF Range
  <2>2. q[m + i] = t[i] /\ t[i].kind \in {"error", "fatal"}
    BY <1>7, <1>8, <2>1
  <2>3. m + i \in 1..(m + n)
    BY <1>1, <1>4, <2>1
  <2> QED
    BY <1>7, <2>2, <2>3 DEF Tells
<1>14. ASSUME in[x] = <<>> PROVE OneAnswer(q)
  <2>1. m = 0
    BY <1>3, <1>4, <1>14, EmptySeq
  <2>2. \A i \in 1..n : q[i] = t[i]
    BY <1>7, <2>1
  <2> QED
    BY <1>1, <1>7, <1>8, <2>1, <2>2 DEF OneAnswer
<1> QED
  BY <1>10, <1>11, <1>12, <1>13, <1>14

(* sendPreparedQuery: nothing else was on its way, on a connection in good *)
(* order; a write that fails is the end of the connection.                 *)
LEMMA SendQueries == ASSUME QInv, NEW k \in Caller, Send(k) PROVE CallTypeOK' /\ QueryInv'
<1>1. phase[k] = "send" /\ UNCHANGED <<poisoned, early, op, got, calls>>
  BY DEF Send
<1>2. pc[k] = "hold"
  BY <1>1 DEF QInv, QueryInv, PhaseFits
<1>3. PICK x \in Connection : conn[k] = x
  BY <1>2, HeldAlone
<1>4. GoodFor(k, x)
  BY <1>2, <1>3, HolderIsGood
<1>5. Tidy(x) => in[x] = <<>>
  BY <1>1, <1>4 DEF GoodFor, Reading
<1>6. ASSUME Enter(k, "read")
      PROVE  /\ phase' \in [Caller -> Phases] /\ phase'[k] = "read"
             /\ \A l \in Caller : l # k => phase'[l] = phase[l]
  BY <1>6, EnterSets DEF Phases
<1>7. ASSUME NEW a \in Answers \cup LateAnswers, Serve(k, a), Enter(k, "read"),
             UNCHANGED <<poolVars, err>>, faults' \in 0..MaxFaults
      PROVE  CallTypeOK' /\ QueryInv'
  <2>1. /\ in' \in [Connection -> Seq(Messages)] /\ cut' \in [Connection -> BOOLEAN]
        /\ carried' \in [Caller -> BOOLEAN]
        /\ \A y \in Connection : y # x => in'[y] = in[y]
        /\ \A l \in Caller : l # k => carried'[l] = carried[l]
        /\ carried'[k] \/ Tells(in'[x])
        /\ in[x] = <<>> => OneAnswer(in'[x])
    BY <1>3, <1>7, ServeAnswers
  <2>2. CallTypeOK'
    BY <1>1, <1>6, <1>7, <2>1 DEF QInv, CallTypeOK
  <2>3. Others(k, x) /\ UNCHANGED <<all, pc, conn, lock>>
    BY <1>1, <1>6, <1>7, <2>1 DEF Others, poolVars
  <2>4. Tidy(x)' => Tidy(x)
    BY <1>1, <1>7 DEF Tidy, poolVars
  <2>5. GoodFor(k, x)'
    BY <1>1, <1>4, <1>5, <1>6, <1>7, <2>1, <2>4 DEF GoodFor, Reading
  <2> QED
    BY <1>2, <1>3, <2>2, <2>3, <2>5, HolderSteps
<1>8. ASSUME \E a \in Answers : Serve(k, a) /\ UNCHANGED faults, Enter(k, "read"), UNCHANGED <<poolVars, err>>
      PROVE  CallTypeOK' /\ QueryInv'
  <2>1. faults' \in 0..MaxFaults
    BY <1>8 DEF QInv, CallTypeOK
  <2> QED
    BY <1>7, <1>8, <2>1
<1>9. ASSUME Fault, \E a \in LateAnswers : Serve(k, a), Enter(k, "read"), UNCHANGED <<poolVars, err>>
      PROVE  CallTypeOK' /\ QueryInv'
  <2>1. faults' \in 0..MaxFaults
    BY <1>9, PgPoolAssumption DEF Fault, QInv, CallTypeOK
  <2> QED
    BY <1>7, <1>9, <2>1
<1>10. ASSUME Enter(k, "read"), UNCHANGED <<poolVars, err, in, cut, carried, faults>>
       PROVE  CallTypeOK' /\ QueryInv'
  <2>1. CallTypeOK'
    BY <1>1, <1>6, <1>10 DEF QInv, CallTypeOK
  <2>2. Others(k, x) /\ UNCHANGED <<all, pc, conn, lock>>
    BY <1>1, <1>6, <1>10 DEF Others, poolVars
  <2>3. Tidy(x)' => Tidy(x)
    BY <1>1, <1>10 DEF Tidy, poolVars
  <2>4. in[x] = <<>> => Tells(in[x])
    BY DEF Tells
  <2>5. GoodFor(k, x)'
    BY <1>1, <1>4, <1>5, <1>6, <1>10, <2>3, <2>4 DEF GoodFor, Reading
  <2> QED
    BY <1>2, <1>3, <2>1, <2>2, <2>5, HolderSteps
<1>11. ASSUME Die(k), Enter(k, "release"), err' = [err EXCEPT ![k] = TRUE],
              UNCHANGED <<in, cut, carried, faults>>
       PROVE  CallTypeOK' /\ QueryInv'
  <2>1. SetErr(k, TRUE)
    BY <1>11 DEF SetErr
  <2>2. "release" \in Phases \ {"none"}
    BY DEF Phases
  <2>3. UNCHANGED <<connVars, op, got, carried, calls, faults>>
    BY <1>1, <1>11 DEF connVars
  <2> QED
    BY <1>2, <1>11, <2>1, <2>2, <2>3, DyingQueries
<1> QED
  BY <1>8, <1>9, <1>10, <1>11 DEF Send

(* What a connection that breaks still delivers of an answer. *)
LEMMA CutAnswers ==
  ASSUME NEW s \in Seq(Messages), NEW n \in 0..Len(s), NEW t,
         t = SubSeq(s, 1, n) \/ (n > 0 /\ t = Torn(SubSeq(s, 1, n)))
  PROVE  /\ t \in Seq(Messages)
         /\ OneAnswer(s) => OneAnswer(t)
         /\ s = <<>> => t = <<>>
         /\ OneAnswer(s) /\ Tells(s) => Tells(t)
         /\ OneAnswer(s) /\ (\E i \in (n + 1)..Len(s) : s[i].kind = "ready") => Tells(t)
<1>1. PICK m \in Nat : m = Len(s) /\ DOMAIN s = 1..m /\ \A i \in 1..m : s[i] \in Messages
  BY LenProperties, ElementOfSeq
<1>2. n \in Nat /\ n <= m
  BY <1>1
<1>3. PICK r \in Seq(Messages) : r = SubSeq(s, 1, n) /\ Len(r) = n /\ \A i \in 1..n : r[i] = s[i]
  <2>1. 1 \in Int /\ n \in Int /\ \A i \in 1..n : s[i] \in Messages
    BY <1>1, <1>2
  <2>2. /\ SubSeq(s, 1, n) \in Seq(Messages)
        /\ Len(SubSeq(s, 1, n)) = IF 1 <= n THEN n - 1 + 1 ELSE 0
        /\ \A i \in 1..(n - 1 + 1) : SubSeq(s, 1, n)[i] = s[1 + i - 1]
    BY <2>1, SubSeqProperties
  <2>3. (IF 1 <= n THEN n - 1 + 1 ELSE 0) = n
    BY <1>2
  <2>4. n - 1 + 1 = n /\ \A i \in 1..n : 1 + i - 1 = i
    BY <1>2
  <2> QED
    BY <2>2, <2>3, <2>4
<1>4. /\ t \in Seq(Messages) /\ Len(t) = n /\ DOMAIN t = 1..n
      /\ \A i \in 1..n : t[i].kind = s[i].kind /\ t[i].own = s[i].own
  <2>1. CASE t = r
    BY <1>3, <2>1, LenProperties
  <2>2. CASE n > 0 /\ t = Torn(r)
    <3>1. r[n] \in Messages /\ n \in DOMAIN r
      BY <1>1, <1>2, <1>3, <2>2, LenProperties
    <3>2. t = [r EXCEPT ![n] = [@ EXCEPT !.torn = TRUE]]
      BY <1>3, <2>2 DEF Torn
    <3>3. /\ [r[n] EXCEPT !.torn = TRUE] \in Messages
          /\ [r[n] EXCEPT !.torn = TRUE].kind = r[n].kind
          /\ [r[n] EXCEPT !.torn = TRUE].own = r[n].own
      BY <3>1 DEF Messages
    <3>4. PICK e \in Messages : e = [r[n] EXCEPT !.torn = TRUE]
      BY <3>3
    <3>5. n \in 1..Len(r)
      BY <1>2, <1>3, <2>2
    <3>6. t = [r EXCEPT ![n] = e]
      BY <3>2, <3>4
    <3>7. /\ t \in Seq(Messages) /\ Len(t) = n
          /\ \A i \in 1..n : t[i] = IF i = n THEN e ELSE r[i]
      <4>1. /\ [r EXCEPT ![n] = e] \in Seq(Messages) /\ Len([r EXCEPT ![n] = e]) = Len(r)
            /\ \A i \in 1..Len(r) : [r EXCEPT ![n] = e][i] = IF i = n THEN e ELSE r[i]
        BY <3>5, ExceptSeq
      <4> QED
        BY <1>3, <3>6, <4>1
    <3>8. \A i \in 1..n : t[i].kind = r[i].kind /\ t[i].own = r[i].own
      BY <3>3, <3>4, <3>7
    <3>9. DOMAIN t = 1..n
      BY <3>7, LenProperties
    <3>10. \A i \in 1..n : t[i].kind = s[i].kind /\ t[i].own = s[i].own
      BY <1>3, <3>8
    <3> QED
      BY <3>7, <3>9, <3>10
  <2> QED
    BY <1>3, <2>1, <2>2
<1>5. \A i \in 1..n : i \in 1..m
  BY <1>1, <1>2
<1>6. OneAnswer(s) => OneAnswer(t)
  <2> SUFFICES ASSUME OneAnswer(s), NEW i \in 1..n
               PROVE  t[i].own /\ (t[i].kind = "ready" => i = n)
    BY <1>4 DEF OneAnswer
  <2>1. s[i].own /\ (s[i].kind = "ready" => i = m)
    BY <1>1, <1>5 DEF OneAnswer
  <2>2. i = m => i = n
    BY <1>1, <1>2
  <2> QED
    BY <1>4, <2>1, <2>2
<1>7. s = <<>> => t = <<>>
  <2>1. s = <<>> => n = 0
    BY <1>1, <1>2, EmptySeq
  <2>2. n = 0 => t = <<>>
    BY <1>4, EmptySeq
  <2> QED
    BY <2>1, <2>2
<1>8. ASSUME OneAnswer(s), NEW i \in (n + 1)..m PROVE \A j \in 1..n : t[j].kind # "ready"
  <2> SUFFICES ASSUME NEW j \in 1..n, t[j].kind = "ready" PROVE FALSE
    OBVIOUS
  <2>1. s[j].kind = "ready" /\ j \in 1..m
    BY <1>4, <1>5
  <2>2. j = m
    BY <1>1, <1>8, <2>1 DEF OneAnswer
  <2> QED
    BY <1>1, <1>2, <1>8, <2>2
<1>9. ASSUME OneAnswer(s), Tells(s) PROVE Tells(t)
  <2>1. CASE \E i \in 1..m : s[i].kind \in {"error", "fatal"}
    <3>1. PICK i \in 1..m : s[i].kind \in {"error", "fatal"}
      BY <2>1
    <3>2. CASE i \in 1..n
      <4>1. t[i].kind \in {"error", "fatal"}
        BY <1>4, <3>1, <3>2
      <4> QED
        BY <1>4, <3>2, <4>1 DEF Tells
    <3>3. CASE i \in (n + 1)..m
      BY <1>4, <1>8, <1>9, <3>3 DEF Tells
    <3> QED
      BY <1>2, <3>1, <3>2, <3>3
  <2>2. CASE \A i \in 1..m : s[i].kind # "ready"
    <3>1. \A i \in 1..n : t[i].kind # "ready"
      BY <1>4, <1>5, <2>2
    <3> QED
      BY <1>4, <3>1 DEF Tells
  <2> QED
    BY <1>1, <1>9, <2>1, <2>2 DEF Tells
<1>10. ASSUME OneAnswer(s), NEW i \in (n + 1)..m PROVE Tells(t)
  BY <1>4, <1>8, <1>10 DEF Tells
<1> QED
  BY <1>1, <1>4, <1>6, <1>7, <1>9, <1>10

LEMMA BreakQueries == ASSUME QInv, NEW x \in Connection, Break(x) PROVE CallTypeOK' /\ QueryInv'
<1>1. /\ Fault /\ cut' = [cut EXCEPT ![x] = TRUE]
      /\ UNCHANGED <<poolVars, poisoned, early, phase, op, err, got, calls>>
  BY DEF Break
<1>2. PICK s \in Seq(Messages) : s = in[x]
  BY DEF QInv, CallTypeOK
<1>3. PICK n \in 0..Len(s) :
        LET rest == SubSeq(s, 1, n) IN
          /\ in' = [in EXCEPT ![x] = rest] \/ (n > 0 /\ in' = [in EXCEPT ![x] = Torn(rest)])
          /\ carried' \in {carried, [k \in Caller |-> carried[k] /\ ~ (conn[k] = x /\ Unanswered(x, n))]}
  BY <1>2 DEF Break
<1>4. PICK t : /\ t = SubSeq(s, 1, n) \/ (n > 0 /\ t = Torn(SubSeq(s, 1, n)))
               /\ in' = [in EXCEPT ![x] = t]
  BY <1>3
<1>5. /\ t \in Seq(Messages)
      /\ OneAnswer(s) => OneAnswer(t)
      /\ s = <<>> => t = <<>>
      /\ OneAnswer(s) /\ Tells(s) => Tells(t)
      /\ OneAnswer(s) /\ (\E i \in (n + 1)..Len(s) : s[i].kind = "ready") => Tells(t)
  BY <1>4, CutAnswers
<1>6. /\ in' \in [Connection -> Seq(Messages)] /\ in'[x] = t
      /\ \A y \in Connection : y # x => in'[y] = in[y]
  BY <1>4, <1>5 DEF QInv, CallTypeOK
<1>7. \A k \in Caller : (carried[k] /\ ~ (conn[k] = x /\ Unanswered(x, n))) \in BOOLEAN
  OBVIOUS
<1>8. /\ carried' \in [Caller -> BOOLEAN]
      /\ \A k \in Caller : carried[k] => carried'[k] \/ (conn[k] = x /\ Unanswered(x, n))
  BY <1>3, <1>7 DEF QInv, CallTypeOK
<1>9. faults' \in 0..MaxFaults
  BY <1>1, PgPoolAssumption DEF Fault, QInv, CallTypeOK
<1>10. CallTypeOK'
  BY <1>1, <1>6, <1>8, <1>9 DEF QInv, CallTypeOK
<1>11. PhaseFits' /\ GotFits'
  BY <1>1 DEF QInv, QueryInv, PhaseFits, GotFits, poolVars
<1>12. \A y \in Connection : Tidy(y)' <=> Tidy(y)
  BY <1>1 DEF Tidy, poolVars
<1>13. \A k \in Caller : Reading(k)' <=> Reading(k)
  BY <1>1 DEF Reading
<1>14. AnswersAlone'
  <2> SUFFICES ASSUME NEW y \in Connection, Tidy(y)
               PROVE  /\ OneAnswer(in[y])'
                      /\ in'[y] # <<>> => \E k \in Caller : Reading(k) /\ conn[k] = y
    BY <1>1, <1>12, <1>13 DEF AnswersAlone, poolVars
  <2>1. OneAnswer(in[y]) /\ (in[y] # <<>> => \E k \in Caller : Reading(k) /\ conn[k] = y)
    BY DEF QInv, QueryInv, AnswersAlone
  <2>2. OneAnswer(in'[y]) /\ (in[y] = <<>> => in'[y] = <<>>)
    BY <1>2, <1>5, <1>6, <2>1
  <2> QED
    BY <2>1, <2>2
<1>15. FailuresTold'
  <2> SUFFICES ASSUME NEW k \in Caller, Tidy(conn[k]), ~ err[k], Reading(k) \/ phase[k] = "release"
               PROVE  /\ Reading(k) => carried'[k] \/ Tells(in'[conn[k]])
                      /\ phase[k] = "release" => carried'[k]
    BY <1>1, <1>12, <1>13 DEF FailuresTold, poolVars, Tidy, Reading
  <2>1. pc[k] = "hold"
    BY DEF QInv, QueryInv, PhaseFits, Reading
  <2>2. PICK y \in Connection : conn[k] = y
    BY <2>1, HeldAlone
  <2>3. GoodFor(k, y)
    BY <2>1, <2>2, HolderIsGood
  <2>4. /\ OneAnswer(in[y]) /\ (in[y] # <<>> => Reading(k))
        /\ Reading(k) => carried[k] \/ Tells(in[y])
        /\ phase[k] = "release" => carried[k]
    BY <2>2, <2>3 DEF GoodFor
  <2>5. CASE y # x
    BY <1>6, <1>8, <2>2, <2>4, <2>5
  <2>6. CASE y = x /\ Reading(k)
    <3>1. phase[k] # "release"
      BY <2>6 DEF Reading
    <3>2. Unanswered(x, n) => Tells(t)
      BY <1>2, <1>5, <2>4, <2>6 DEF Unanswered
    <3>3. carried'[k] \/ Tells(t)
      BY <1>2, <1>5, <1>8, <2>4, <2>6, <3>2
    <3> QED
      BY <1>6, <2>2, <2>6, <3>1, <3>3
  <2>7. CASE y = x /\ ~ Reading(k)
    <3>1. s = <<>>
      BY <1>2, <2>4, <2>7
    <3>2. ~ Unanswered(x, n)
      <4>1. Len(s) = 0 /\ n = 0
        BY <3>1, EmptySeq
      <4> QED
        BY <1>2, <4>1 DEF Unanswered
    <3>3. carried'[k]
      BY <1>8, <2>4, <2>7, <3>2
    <3> QED
      BY <2>7, <3>3
  <2> QED
    BY <2>5, <2>6, <2>7
<1> QED
  BY <1>10, <1>11, <1>14, <1>15 DEF QueryInv

(* A caller that reads no answer gets a connection or gives it back: what  *)
(* the others do with theirs is not touched, and a connection that is new  *)
(* carries nothing.                                                        *)
LEMMA MoverQueries ==
  ASSUME QInv, NEW k \in Caller, ~ Reading(k), PhaseFits', all' \subseteq Connection,
         phase'[k] \in {"none", "send", "spin"}, got'[k] # "stale",
         \A l \in Caller : l # k =>
           /\ pc[l] = "hold" => pc'[l] = "hold"
           /\ conn'[l] = conn[l] /\ phase'[l] = phase[l]
           /\ err'[l] = err[l] /\ got'[l] = got[l] /\ carried'[l] = carried[l],
         \A y \in all :
           /\ in'[y] = in[y] /\ alive'[y] = alive[y]
           /\ poisoned'[y] = poisoned[y] /\ early'[y] = early[y],
         \A y \in all' \ all : in'[y] = <<>>
  PROVE  QueryInv'
<1>1. \A y \in all : Tidy(y)' => Tidy(y)
  BY DEF Tidy
<1>2. \A l \in Caller : Reading(l) => l # k /\ Reading(l)' /\ conn'[l] = conn[l]
  BY DEF Reading
<1>3. AnswersAlone'
  <2> SUFFICES ASSUME NEW y \in Connection, Tidy(y)'
               PROVE  /\ OneAnswer(in[y])'
                      /\ in'[y] # <<>> => \E l \in Caller : Reading(l)' /\ conn'[l] = y
    BY DEF AnswersAlone
  <2>1. CASE y \in all
    <3>1. OneAnswer(in[y]) /\ (in[y] # <<>> => \E l \in Caller : Reading(l) /\ conn[l] = y)
      BY <1>1, <2>1 DEF QInv, QueryInv, AnswersAlone
    <3>2. in'[y] = in[y]
      BY <2>1
    <3> QED
      BY <1>2, <3>1, <3>2
  <2>2. CASE y \notin all
    <3>1. in'[y] = <<>>
      BY <2>2 DEF Tidy
    <3> QED
      BY <3>1 DEF OneAnswer
  <2> QED
    BY <2>1, <2>2
<1>4. GotFits'
  <2> SUFFICES ASSUME NEW l \in Caller, got'[l] = "stale"
               PROVE  pc'[l] = "hold" /\ early'[conn'[l]]
    BY DEF GotFits
  <2>1. l # k /\ pc[l] = "hold" /\ early[conn[l]] /\ conn'[l] = conn[l]
    BY DEF QInv, QueryInv, GotFits
  <2>2. conn[l] \in all
    BY <2>1, HeldAlone
  <2> QED
    BY <2>1, <2>2
<1>5. FailuresTold'
  <2> SUFFICES ASSUME NEW l \in Caller, Tidy(conn[l])', ~ err'[l], Reading(l)' \/ phase'[l] = "release"
               PROVE  /\ Reading(l)' => carried'[l] \/ Tells(in[conn[l]])'
                      /\ phase'[l] = "release" => carried'[l]
    BY DEF FailuresTold
  <2>1. l # k /\ phase'[l] = phase[l] /\ (Reading(l) \/ phase[l] = "release")
    BY DEF Reading
  <2>2. pc[l] = "hold"
    BY <2>1 DEF QInv, QueryInv, PhaseFits, Reading
  <2>3. PICK y \in Connection : y = conn[l] /\ y \in all
    BY <2>2, HeldAlone
  <2>4. y = conn'[l] /\ in'[y] = in[y] /\ ~ err[l] /\ carried'[l] = carried[l]
    BY <2>1, <2>3
  <2>5. Tidy(y)
    BY <1>1, <2>3, <2>4
  <2>6. (Reading(l) => carried[l] \/ Tells(in[y])) /\ (phase[l] = "release" => carried[l])
    BY <2>3, <2>4, <2>5 DEF QInv, QueryInv, FailuresTold
  <2>7. Reading(l)' => Reading(l)
    BY <2>1 DEF Reading
  <2>8. Tells(in[conn[l]])' <=> Tells(in[y])
    BY <2>4
  <2> QED
    BY <2>1, <2>4, <2>6, <2>7, <2>8
<1> QED
  BY <1>3, <1>4, <1>5 DEF QueryInv

(* The caller goes where the pool sends it, with the phase that fits.      *)
LEMMA MoverFits ==
  ASSUME QInv, NEW k \in Caller, pc[k] # "hold" \/ phase[k] = "release",
         NEW place \in Places \ {"wait"},
         pc'[k] = place \/ (place = "idle" /\ pc'[k] = "wait"),
         NEW p \in {"none", "send"}, p = "send" <=> place = "hold", Enter(k, p),
         lock' = k <=> place = "create", lock' \in {lock, k, Free},
         \A l \in Caller : l # k => pc'[l] = pc[l] \/ (pc[l] = "wait" /\ pc'[l] = "woken")
  PROVE  /\ PhaseFits' /\ ~ Reading(k)
         /\ phase' \in [Caller -> Phases] /\ phase'[k] = p
         /\ \A l \in Caller : l # k => phase'[l] = phase[l] /\ (pc[l] = "hold" => pc'[l] = "hold")
<1>1. /\ phase' \in [Caller -> Phases] /\ phase'[k] = p
      /\ \A l \in Caller : l # k => phase'[l] = phase[l]
  BY EnterSets DEF Phases
<1>2. ~ Reading(k)
  BY DEF QInv, QueryInv, PhaseFits, Reading
<1>3. Free # k
  BY ConnPoolAssumption
<1>4. PhaseFits'
  <2> SUFFICES ASSUME NEW l \in Caller
               PROVE  /\ pc'[l] = "hold" => phase'[l] # "none"
                      /\ phase'[l] \notin {"none", "spin"} => pc'[l] = "hold"
                      /\ phase'[l] = "spin" => pc'[l] \in {"hold", "create"}
                      /\ lock' = l => pc'[l] = "create"
    BY DEF PhaseFits
  <2>1. CASE l = k
    BY <1>1, <1>3, <2>1
  <2>2. CASE l # k
    <3>1. /\ pc[l] = "hold" => phase[l] # "none"
          /\ phase[l] \notin {"none", "spin"} => pc[l] = "hold"
          /\ phase[l] = "spin" => pc[l] \in {"hold", "create"}
          /\ lock = l => pc[l] = "create"
      BY DEF QInv, QueryInv, PhaseFits
    <3>2. lock' = l => lock = l
      BY <2>2, ConnPoolAssumption
    <3> QED
      BY <1>1, <2>2, <3>1, <3>2
  <2> QED
    BY <2>1, <2>2
<1> QED
  BY <1>1, <1>2, <1>4

(* The other values of a caller and of the connections keep their types. *)
LEMMA CallQueries == ASSUME QInv, NEW k \in Caller, NEW o \in Ops, Call(k, o) PROVE CallTypeOK' /\ QueryInv'
<1>1. /\ pc[k] = "idle" /\ Acquire(k) /\ Arrive(k) /\ op' = [op EXCEPT ![k] = o]
      /\ calls < MaxCalls /\ calls' = calls + 1
      /\ UNCHANGED <<connVars, err, got, carried, faults>>
  BY DEF Call, Acquire
<1>2. pc \in [Caller -> Places] /\ lock # k /\ k # Free
  BY <1>1, ConnPoolAssumption DEF QInv, PoolInv, PoolSound, PoolTypeOK, QueryInv, PhaseFits
<1>3. \A l \in Caller : l # k => pc'[l] = pc[l]
  BY <1>1, <1>2 DEF Acquire, Goto, Wait
<1>4. PICK place \in Places \ {"wait"} :
        /\ pc'[k] = place \/ (place = "idle" /\ pc'[k] = "wait")
        /\ lock' = k <=> place = "create"
        /\ lock' \in {lock, k, Free}
  <2>1. CASE Goto(k, "hold") /\ UNCHANGED lock
    BY <1>2, <2>1 DEF Goto, Places
  <2>2. CASE Goto(k, "create") /\ lock' = k
    BY <1>2, <2>2 DEF Goto, Places
  <2>3. CASE Wait(k)
    BY <1>2, <2>3 DEF Wait, Goto, Places
  <2> QED
    BY <1>1, <2>1, <2>2, <2>3 DEF Acquire
<1>5. PICK p \in {"none", "send"} : (p = "send" <=> place = "hold") /\ Enter(k, p)
  BY <1>1, <1>4 DEF Arrive
<1>6. /\ PhaseFits' /\ ~ Reading(k)
      /\ phase' \in [Caller -> Phases] /\ phase'[k] = p
      /\ \A l \in Caller : l # k => phase'[l] = phase[l] /\ (pc[l] = "hold" => pc'[l] = "hold")
  BY <1>1, <1>3, <1>4, <1>5, MoverFits
<1>7. CallTypeOK'
  <2>1. calls' \in 0..MaxCalls
    BY <1>1, PgPoolAssumption DEF QInv, CallTypeOK
  <2> QED
    BY <1>1, <1>6, <2>1 DEF connVars, QInv, CallTypeOK
<1>8. UNCHANGED <<all, alive>> /\ \A l \in Caller : l # k => conn'[l] = conn[l]
  BY <1>1 DEF Acquire, Take, Wait, QInv, PoolInv, PoolSound, PoolTypeOK
<1>9. got'[k] # "stale"
  BY <1>1 DEF QInv, QueryInv, GotFits
<1>10. all' \subseteq Connection
  BY <1>8 DEF QInv, PoolInv, PoolSound, PoolTypeOK
<1> QED
  BY <1>1, <1>6, <1>7, <1>8, <1>9, <1>10, MoverQueries DEF connVars

LEMMA WakeUpQueries == ASSUME QInv, NEW k \in Caller, WakeUp(k) PROVE CallTypeOK' /\ QueryInv'
<1>1. /\ pc[k] = "woken" /\ lock = Free /\ Wake(k) /\ Arrive(k)
      /\ UNCHANGED <<connVars, callVars, calls, faults>>
  BY DEF WakeUp, Wake
<1>2. pc \in [Caller -> Places] /\ lock' = Free /\ k # Free
  BY <1>1, ConnPoolAssumption DEF Wake, Wait, QInv, PoolInv, PoolSound, PoolTypeOK
<1>3. \A l \in Caller : l # k => pc'[l] = pc[l]
  BY <1>1, <1>2 DEF Wake, Goto, Wait
<1>4. PICK place \in {"hold", "idle"} : pc'[k] = place \/ (place = "idle" /\ pc'[k] = "wait")
  BY <1>1, <1>2 DEF Wake, Goto, Wait
<1>5. PICK p \in {"none", "send"} : (p = "send" <=> place = "hold") /\ Enter(k, p)
  BY <1>1, <1>4 DEF Arrive
<1>6. /\ PhaseFits' /\ ~ Reading(k)
      /\ phase' \in [Caller -> Phases] /\ phase'[k] = p
      /\ \A l \in Caller : l # k => phase'[l] = phase[l] /\ (pc[l] = "hold" => pc'[l] = "hold")
  <2>1. place \in Places \ {"wait"}
    BY <1>4 DEF Places
  <2> QED
    BY <1>1, <1>2, <1>3, <1>4, <1>5, <2>1, MoverFits
<1>7. CallTypeOK'
  BY <1>1, <1>6 DEF connVars, callVars, QInv, CallTypeOK
<1>8. UNCHANGED <<all, alive>> /\ \A l \in Caller : l # k => conn'[l] = conn[l]
  BY <1>1 DEF Wake, Take, Wait, QInv, PoolInv, PoolSound, PoolTypeOK
<1>9. got'[k] # "stale"
  BY <1>1 DEF callVars, QInv, QueryInv, GotFits
<1>10. all' \subseteq Connection
  BY <1>8 DEF QInv, PoolInv, PoolSound, PoolTypeOK
<1> QED
  BY <1>1, <1>6, <1>7, <1>8, <1>9, <1>10, MoverQueries DEF connVars, callVars

LEMMA ConnectQueries == ASSUME QInv, NEW k \in Caller, Connect(k) PROVE CallTypeOK' /\ QueryInv'
<1>1. /\ pc[k] = "create" /\ Created(k) /\ Arrive(k) /\ lock' = Free
      /\ in' = [x \in Connection |-> IF x \in all THEN in[x] ELSE <<>>]
      /\ cut' = [x \in Connection |-> x \in all /\ cut[x]]
      /\ poisoned' = [x \in Connection |-> x \in all /\ poisoned[x]]
      /\ early' = [x \in Connection |-> x \in all /\ early[x]]
      /\ UNCHANGED <<callVars, calls, faults>>
  BY DEF Connect, Created
<1>2. pc \in [Caller -> Places] /\ k # Free /\ all \subseteq Connection
  BY ConnPoolAssumption DEF QInv, PoolInv, PoolSound, PoolTypeOK
<1>3. \A l \in Caller : l # k => pc'[l] = pc[l]
  BY <1>1, <1>2 DEF Created, Goto
<1>4. PICK place \in {"hold", "idle"} : pc'[k] = place
  BY <1>1, <1>2 DEF Created, Goto
<1>5. PICK p \in {"none", "send"} : (p = "send" <=> place = "hold") /\ Enter(k, p)
  BY <1>1, <1>4 DEF Arrive
<1>6. /\ PhaseFits' /\ ~ Reading(k)
      /\ phase' \in [Caller -> Phases] /\ phase'[k] = p
      /\ \A l \in Caller : l # k => phase'[l] = phase[l] /\ (pc[l] = "hold" => pc'[l] = "hold")
  <2>1. place \in Places \ {"wait"}
    BY <1>4 DEF Places
  <2> QED
    BY <1>1, <1>2, <1>3, <1>4, <1>5, <2>1, MoverFits
<1>7. CallTypeOK'
  <2>1. in' \in [Connection -> Seq(Messages)]
    BY <1>1 DEF QInv, CallTypeOK
  <2>2. \A x \in Connection : /\ (x \in all /\ cut[x]) \in BOOLEAN
                              /\ (x \in all /\ poisoned[x]) \in BOOLEAN
                              /\ (x \in all /\ early[x]) \in BOOLEAN
    OBVIOUS
  <2>3. /\ cut' \in [Connection -> BOOLEAN] /\ poisoned' \in [Connection -> BOOLEAN]
        /\ early' \in [Connection -> BOOLEAN]
    BY <1>1, <2>2
  <2> QED
    BY <1>1, <1>6, <2>1, <2>3 DEF callVars, QInv, CallTypeOK
<1>8. /\ all' \subseteq Connection
      /\ \A x \in all : alive'[x] = alive[x]
      /\ \A l \in Caller : l # k => conn'[l] = conn[l]
  <2>1. alive \in [Connection -> BOOLEAN] /\ conn \in [Caller -> Connection \cup {Nil}]
    BY DEF QInv, PoolInv, PoolSound, PoolTypeOK
  <2> QED
    BY <1>1, <1>2, <2>1 DEF Created
<1>9. got'[k] # "stale"
  BY <1>1 DEF callVars, QInv, QueryInv, GotFits
<1>10. /\ \A y \in all : in'[y] = in[y] /\ poisoned'[y] = poisoned[y] /\ early'[y] = early[y]
       /\ \A y \in all' \ all : in'[y] = <<>>
  <2>1. \A y \in all : poisoned[y] \in BOOLEAN /\ early[y] \in BOOLEAN
    BY <1>2 DEF QInv, CallTypeOK
  <2> QED
    BY <1>1, <1>2, <1>8, <2>1
<1> QED
  BY <1>1, <1>6, <1>7, <1>8, <1>9, <1>10, MoverQueries DEF callVars

(* A caller that is stuck in createConnection has no connection yet. *)
LEMMA ConnectSpinsQueries == ASSUME QInv, NEW k \in Caller, ConnectSpins(k) PROVE CallTypeOK' /\ QueryInv'
<1>1. /\ pc[k] = "create" /\ Fault /\ Enter(k, "spin")
      /\ UNCHANGED <<poolVars, connVars, callVars, calls>>
  BY DEF ConnectSpins
<1>2. /\ phase' \in [Caller -> Phases] /\ phase'[k] = "spin"
      /\ \A l \in Caller : l # k => phase'[l] = phase[l]
  BY <1>1, EnterSets DEF Phases
<1>3. CallTypeOK'
  <2>1. faults' \in 0..MaxFaults
    BY <1>1, PgPoolAssumption DEF Fault, QInv, CallTypeOK
  <2> QED
    BY <1>1, <1>2, <2>1 DEF connVars, callVars, QInv, CallTypeOK
<1>4. PhaseFits'
  BY <1>1, <1>2 DEF QInv, QueryInv, PhaseFits, poolVars
<1>5. ~ Reading(k)
  BY <1>1 DEF QInv, QueryInv, PhaseFits, Reading
<1>6. got'[k] # "stale" /\ all' \subseteq Connection
  BY <1>1 DEF poolVars, callVars, QInv, QueryInv, GotFits, PoolInv, PoolSound, PoolTypeOK
<1> QED
  BY <1>1, <1>2, <1>3, <1>4, <1>5, <1>6, MoverQueries DEF poolVars, connVars, callVars

(* Release: an answer that was another's is forgotten. *)
LEMMA GiveBackQueries == ASSUME QInv, NEW k \in Caller, GiveBack(k) PROVE CallTypeOK' /\ QueryInv'
<1>1. /\ phase[k] = "release" /\ Release(k) /\ Enter(k, "none")
      /\ err' = [err EXCEPT ![k] = FALSE]
      /\ got' = [got EXCEPT ![k] = "none"]
      /\ carried' = [carried EXCEPT ![k] = FALSE]
      /\ op' = [op EXCEPT ![k] = "exec"]
      /\ UNCHANGED <<connVars, calls, faults>>
  BY DEF GiveBack
<1>2. pc[k] = "hold" /\ lock = Free /\ lock' = Free /\ k # Free
  BY <1>1, ConnPoolAssumption DEF Release
<1>3. pc'[k] = "signal" /\ \A l \in Caller : l # k => pc'[l] = pc[l]
  BY <1>1 DEF Release, Goto, QInv, PoolInv, PoolSound, PoolTypeOK
<1>4. /\ PhaseFits' /\ ~ Reading(k)
      /\ phase' \in [Caller -> Phases] /\ phase'[k] = "none"
      /\ \A l \in Caller : l # k => phase'[l] = phase[l] /\ (pc[l] = "hold" => pc'[l] = "hold")
  <2>1. "signal" \in Places \ {"wait"}
    BY DEF Places
  <2> QED
    BY <1>1, <1>2, <1>3, <2>1, MoverFits
<1>5. /\ CallTypeOK'
      /\ \A l \in Caller : l # k => err'[l] = err[l] /\ got'[l] = got[l] /\ carried'[l] = carried[l]
      /\ got'[k] # "stale"
  <2>1. op' \in [Caller -> Ops]
    BY <1>1 DEF Ops, QInv, CallTypeOK
  <2>2. /\ err' \in [Caller -> BOOLEAN] /\ carried' \in [Caller -> BOOLEAN]
        /\ got' \in [Caller -> {"none", "own", "stale"}]
    BY <1>1 DEF QInv, CallTypeOK
  <2>3. \A l \in Caller : l # k => err'[l] = err[l] /\ got'[l] = got[l] /\ carried'[l] = carried[l]
    BY <1>1 DEF QInv, CallTypeOK
  <2>4. got'[k] # "stale"
    BY <1>1 DEF QInv, CallTypeOK
  <2> QED
    BY <1>1, <1>4, <2>1, <2>2, <2>3, <2>4 DEF connVars, QInv, CallTypeOK
<1>6. /\ all' \subseteq all /\ all' \subseteq Connection /\ alive' = alive
      /\ \A l \in Caller : l # k => conn'[l] = conn[l]
  BY <1>1 DEF Release, PutBack, QInv, PoolInv, PoolSound, PoolTypeOK
<1> QED
  BY <1>1, <1>4, <1>5, <1>6, MoverQueries DEF connVars

LEMMA NotifyQueries == ASSUME QInv, NEW k \in Caller, Notify(k) PROVE CallTypeOK' /\ QueryInv'
<1>1. pc[k] = "signal" /\ Signal(k) /\ UNCHANGED <<connVars, phase, callVars, calls, faults>>
      /\ UNCHANGED <<all, available, alive, conn, lock>>
  BY DEF Notify, Signal
<1>2. CallTypeOK'
  BY <1>1 DEF connVars, callVars, QInv, CallTypeOK
<1>3. phase[k] = "none" /\ lock # k
  BY <1>1 DEF QInv, QueryInv, PhaseFits
<1>4. pc'[k] = "idle" /\ \A l \in Caller : l # k => pc'[l] = pc[l] \/ (pc[l] = "wait" /\ pc'[l] = "woken")
  <2>1. pc \in [Caller -> Places] /\ waiters \in Seq(Caller)
    BY DEF QInv, PoolInv, PoolSound, PoolTypeOK
  <2>2. CASE waiters = <<>>
    BY <1>1, <2>1, <2>2 DEF Signal, Goto
  <2>3. CASE waiters # <<>>
    <3>1. PICK h : h = Head(waiters) /\ h \in Caller /\ h = waiters[1] /\ 1 \in DOMAIN waiters
      BY <2>1, <2>3
    <3>2. pc[h] = "wait" /\ h # k
      BY <1>1, <3>1 DEF QInv, PoolInv, WaitersWait
    <3>3. pc' = [pc EXCEPT ![k] = "idle", ![h] = "woken"]
      BY <1>1, <2>3, <3>1 DEF Signal
    <3> QED
      BY <2>1, <3>1, <3>2, <3>3
  <2> QED
    BY <2>2, <2>3
<1>5. Enter(k, "none")
  BY <1>1, <1>3 DEF Enter, QInv, CallTypeOK
<1>6. /\ PhaseFits' /\ ~ Reading(k)
      /\ phase'[k] = "none"
      /\ \A l \in Caller : l # k => phase'[l] = phase[l] /\ (pc[l] = "hold" => pc'[l] = "hold")
  <2>1. "idle" \in Places \ {"wait"}
    BY DEF Places
  <2> QED
    BY <1>1, <1>3, <1>4, <1>5, <2>1, MoverFits
<1>7. got'[k] # "stale" /\ all' \subseteq Connection
  BY <1>1 DEF callVars, QInv, QueryInv, GotFits, PoolInv, PoolSound, PoolTypeOK
<1> QED
  BY <1>1, <1>2, <1>6, <1>7, MoverQueries DEF connVars, callVars

-----------------------------------------------------------------------------
LEMMA QueriesStart == Init => QInv
<1> SUFFICES ASSUME Init PROVE QInv
  OBVIOUS
<1>1. PoolInv
  BY PoolStarts DEF Init
<1>2. CallTypeOK
  BY PgPoolAssumption DEF Init, CallTypeOK, Phases, Ops
<1>3. lock \notin Caller /\ \A k \in Caller : pc[k] = "idle" /\ phase[k] = "none" /\ got[k] = "none"
  BY ConnPoolAssumption DEF Init, PoolInit
<1>4. PhaseFits /\ GotFits
  BY <1>3 DEF PhaseFits, GotFits
<1>5. AnswersAlone
  BY DEF AnswersAlone, OneAnswer, Init
<1>6. FailuresTold
  BY <1>3 DEF FailuresTold, Reading
<1> QED
  BY <1>1, <1>2, <1>4, <1>5, <1>6 DEF QInv, QueryInv

LEMMA QueriesStep == QInv /\ [Next]_vars => QInv'
<1> SUFFICES ASSUME QInv, [Next]_vars PROVE CallTypeOK' /\ QueryInv'
  BY StepsOfThePool, PoolSteps DEF QInv
<1>1. ASSUME NEW k \in Caller, Pool(k) PROVE CallTypeOK' /\ QueryInv'
  BY <1>1, CallQueries, ConnectQueries, WakeUpQueries, GiveBackQueries, NotifyQueries DEF Pool
<1>2. ASSUME NEW k \in Caller, Use(k) PROVE CallTypeOK' /\ QueryInv'
  BY <1>2, SendQueries, ExecQueries, NextRowQueries, DrainQueries, ReadFailsQueries,
     ReadNothingQueries, RollbackQueries DEF Use
<1>3. CASE UNCHANGED vars
  <2>1. CallTypeOK'
    BY <1>3 DEF vars, connVars, callVars, QInv, CallTypeOK
  <2>2. PhaseFits' /\ GotFits'
    BY <1>3 DEF vars, poolVars, connVars, callVars, QInv, QueryInv, PhaseFits, GotFits
  <2>3. \A x \in Connection \cup {Nil} : Tidy(x)' <=> Tidy(x)
    BY <1>3 DEF vars, poolVars, connVars, Tidy
  <2>4. \A k \in Caller : Reading(k)' <=> Reading(k)
    BY <1>3 DEF vars, Reading
  <2>5. AnswersAlone'
    BY <1>3, <2>3, <2>4 DEF vars, poolVars, connVars, QInv, QueryInv, AnswersAlone
  <2>6. FailuresTold'
    BY <1>3, <2>4 DEF vars, poolVars, connVars, callVars, QInv, QueryInv, FailuresTold, Tidy
  <2> QED
    BY <2>1, <2>2, <2>5, <2>6 DEF QueryInv
<1> QED
  BY <1>1, <1>2, <1>3, ConnectSpinsQueries, BreakQueries DEF Next

LEMMA QueriesKeepOrder == Spec => []QInv
BY QueriesStart, QueriesStep, PTL DEF Spec

(* Whatever fails, every variable of a call and its connection has its     *)
(* type, and a caller is at a statement exactly while it holds one         *)
(* (conn_pool.go, conn.go, query.go).                                      *)
THEOREM QueriesAreTyped == Spec => []TypeOK
BY QueriesKeepOrder, QueryTypes, PTL

(* A row or a tag that a call returns is of its own statement, whatever    *)
(* failed on the connection before: only a drain that an error ended       *)
(* (conn.go readUntilReadyForQuery) leaves another's answer behind.        *)
THEOREM OnlyEarlyDrainsMixAnswers == Spec => []AnswersAreOwn
<1>1. QInv => AnswersAreOwn
  BY DEF QInv, QueryInv, GotFits, AnswersAreOwn, Returning
<1> QED
  BY <1>1, QueriesKeepOrder, PTL

(* A call that returns no error, on a connection that stays in good order, *)
(* has been carried out by the server: its answer ended in ReadyForQuery   *)
(* and no error came before it (query.go, conn.go Exec).                   *)
THEOREM ReportedSuccessIsReal == Spec => []SuccessIsReal
<1>1. QInv => SuccessIsReal
  <2> SUFFICES ASSUME QInv, NEW k \in Caller, phase[k] = "release", ~ err[k], Tidy(conn[k])
               PROVE  carried[k]
    <3>1. \A k \in Caller : phase[k] = "release" /\ QInv => conn[k] \in all
      <4> SUFFICES ASSUME NEW k \in Caller, phase[k] = "release", QInv PROVE conn[k] \in all
        OBVIOUS
      <4>1. pc[k] = "hold"
        BY DEF QInv, QueryInv, PhaseFits
      <4> QED
        BY <4>1, HeldAlone
    <3> QED
      BY <3>1 DEF SuccessIsReal, Succeeded, Returning, Tidy
  <2> QED
    BY DEF QInv, QueryInv, FailuresTold
<1> QED
  BY <1>1, QueriesKeepOrder, PTL

-----------------------------------------------------------------------------
(* The values: that those of jchat come back from its tables as they were  *)
(* sent, for bytes of any size, integers that are not too small and        *)
(* instants.                                                               *)

(* The remainder of a number by a larger one. *)
LEMMA SmallRemainder ==
  ASSUME NEW c \in Nat, NEW n \in Int, 0 <= n, n < c
  PROVE  n % c = n
BY SMT

LEMMA NegativeRemainder ==
  ASSUME NEW c \in Nat, NEW n \in Int, - c <= n, n < 0
  PROVE  n % c = n + c
BY SMT

LEMMA HalfOfEven ==
  ASSUME NEW c \in Nat, c >= 2, c % 2 = 0
  PROVE  /\ c \div 2 \in Nat /\ 2 * (c \div 2) = c
BY SMT

(* A number within the range of k bytes is the one that its word stands    *)
(* for (messages.go WriteInt32, msg_reader.go readInt32).                  *)
LEMMA SignedOfWord ==
  ASSUME NEW k \in Sizes, NEW n \in Int, MinOf(k) <= n, n <= MaxOf(k)
  PROVE  Signed(Word(n, k), k) = n
<1> DEFINE c == Card[k]
           h == Card[k] \div 2
<1>1. c \in Nat /\ c >= 2 /\ c % 2 = 0
  BY PgValuesAssumption
<1>2. h \in Nat /\ 2 * h = c
  BY <1>1, HalfOfEven
<1>3. - h <= n /\ n <= h - 1
  BY DEF MinOf, MaxOf
<1> HIDE DEF c, h
<1>4. CASE n >= 0
  <2>1. n % c = n
    BY <1>1, <1>2, <1>3, <1>4, SmallRemainder
  <2> QED
    BY <2>1, <1>2, <1>3 DEF Signed, Word, MaxOf, c, h
<1>5. CASE n < 0
  <2>0. - c <= n
    BY <1>1, <1>2, <1>3
  <2>1. n % c = n + c
    BY <1>1, <1>5, <2>0, NegativeRemainder
  <2>2. n + c > h - 1
    BY <1>1, <1>2, <1>3
  <2> QED
    BY <1>1, <1>2, <1>3, <2>1, <2>2 DEF Signed, Word, MaxOf, c, h
<1> QED
  BY <1>4, <1>5

(* What a word stands for is within the range of its bytes. *)
LEMMA SignedInRange ==
  ASSUME NEW k \in Sizes, NEW n \in Int
  PROVE  /\ Signed(Word(n, k), k) \in Int
         /\ MinOf(k) <= Signed(Word(n, k), k)
<1> DEFINE c == Card[k]
           h == Card[k] \div 2
<1>1. c \in Nat /\ c >= 2 /\ c % 2 = 0
  BY PgValuesAssumption
<1>2. h \in Nat /\ 2 * h = c
  BY <1>1, HalfOfEven
<1>3. n % c \in 0..(c - 1)
  BY <1>1
<1> QED
  BY <1>1, <1>2, <1>3 DEF Signed, Word, MaxOf, MinOf

LEMMA SizesOfColumns == {4, 8} \subseteq Sizes
BY DEF Sizes

(* The column that is set to a binary parameter of a known length. *)
LEMMA StoredBinary ==
  ASSUME NEW oid \in {"int4", "timestamptz"}, NEW size \in {4, 8}, NEW data
  PROVE  Stored(oid, [size |-> size, data |-> data]) =
           [oid |-> oid, null |-> FALSE, format |-> "binary", size |-> size, data |-> data]
<1>1. oid # "date" /\ oid \in BinaryColumns
  BY DEF BinaryColumns, Binary
<1>2. ResultFormat(oid) = "binary"
  BY <1>1 DEF ResultFormat
<1>3. (size = -1) = FALSE
  OBVIOUS
<1> QED
  BY <1>1, <1>2, <1>3 DEF Stored

(* What EncodeInt4 sends is stored and read by DecodeInt4 as the word says. *)
LEMMA Int4Path ==
  ASSUME NEW g \in GoInts, NEW v \in Int
  PROVE  /\ Encode(g, v, "int4") = EncodeInteger(g, v, 4)
         /\ v <= MaxOf(4) => Return(g, v, "int4", "int32") = Done(Signed(Word(v, 4), 4))
<1>1. g \notin {"nil", "string"}
  BY DEF GoInts
<1>2. Encode(g, v, "int4") = EncodeInteger(g, v, 4)
  BY <1>1 DEF Encode, EncodeInt4
<1>3. ASSUME v <= MaxOf(4)
      PROVE  Return(g, v, "int4", "int32") = Done(Signed(Word(v, 4), 4))
  <2>1. MaxOf(4) \in Int
    BY PgValuesAssumption, SizesOfColumns DEF MaxOf
  <2>2. Encode(g, v, "int4").value = [size |-> 4, data |-> Word(v, 4)]
    BY <1>2, <1>3, <2>1 DEF EncodeInteger, Sent, Done
  <2> DEFINE c == Stored("int4", Encode(g, v, "int4").value)
  <2>3. c = [oid |-> "int4", null |-> FALSE, format |-> "binary", size |-> 4, data |-> Word(v, 4)]
    BY <2>2, StoredBinary
  <2>4. Scan("int32", c) = DecodeInteger(c, "int4", 4)
    BY DEF Scan, DecodeInt4
  <2> QED
    BY <2>3, <2>4 DEF Return, DecodeInteger, Refused
<1> QED
  BY <1>2, <1>3

(* An integer that is sent for an int4 column, of whatever Go type, and is *)
(* not below the range of the column, is the int32 that is read from it    *)
(* (values.go encodeInt4, decodeInt4; users, channels and sessions).       *)
THEOREM Int4Returns ==
  ASSUME NEW g \in GoInts, NEW v \in Int,
         Encode(g, v, "int4").ok, v >= MinOf(4)
  PROVE  Return(g, v, "int4", "int32") = Done(v)
<1>1. v <= MaxOf(4)
  <2>1. MaxOf(4) \in Int
    BY PgValuesAssumption, SizesOfColumns DEF MaxOf
  <2> QED
    BY <2>1, Int4Path DEF EncodeInteger, Fatal
<1>2. Signed(Word(v, 4), 4) = v
  BY <1>1, SizesOfColumns, SignedOfWord
<1> QED
  BY <1>1, <1>2, Int4Path

(* Any other integer is refused, if it is too large, and sent as another   *)
(* one, if it is too small: encodeInt4 compares with the largest only.     *)
THEOREM SmallIntegersWrap ==
  ASSUME NEW g \in GoInts, NEW v \in Int, v < MinOf(4)
  PROVE  Encode(g, v, "int4").ok /\ Return(g, v, "int4", "int32") # Done(v)
<1>1. MinOf(4) \in Int /\ MaxOf(4) \in Int /\ MinOf(4) <= MaxOf(4)
  BY PgValuesAssumption, SizesOfColumns DEF MinOf, MaxOf
<1>2. v <= MaxOf(4)
  BY <1>1
<1>3. Encode(g, v, "int4").ok
  BY <1>1, <1>2, Int4Path DEF EncodeInteger, Sent, Done
<1>4. Signed(Word(v, 4), 4) # v
  BY <1>1, SizesOfColumns, SignedInRange
<1> QED
  BY <1>2, <1>3, <1>4, Int4Path DEF Done

(* An instant within the range of the microseconds of a timestamptz is     *)
(* read from it as it was sent, to the microsecond and in local time       *)
(* (values.go encodeTimestampTz, decodeTimestampTz).                       *)
THEOREM InstantsReturn ==
  ASSUME NEW instant \in Int, NEW zone \in Int,
         MinOf(8) <= MicrosSinceY2K(Time(instant, zone)),
         MicrosSinceY2K(Time(instant, zone)) <= MaxOf(8)
  PROVE  Return("time", Time(instant, zone), "timestamptz", "time") =
           Done(Time((instant \div Micro) * Micro, Local))
<1> DEFINE t == Time(instant, zone)
           n == MicrosSinceY2K(t)
           c == Stored("timestamptz", Encode("time", t, "timestamptz").value)
<1>1. instant \div Micro \in Int /\ n = instant \div Micro - Y2K /\ n \in Int
  BY PgValuesAssumption DEF MicrosSinceY2K, Time
<1>2. Signed(Word(n, 8), 8) = n
  BY <1>1, SizesOfColumns, SignedOfWord
<1>3. Encode("time", t, "timestamptz").value = [size |-> 8, data |-> Word(n, 8)]
  BY DEF Encode, EncodeTimestampTz, Sent, Done
<1>4. c = [oid |-> "timestamptz", null |-> FALSE, format |-> "binary", size |-> 8,
           data |-> Word(n, 8)]
  BY <1>3, StoredBinary
<1>5. Scan("time", c) = DecodeTimestampTz(c)
  BY <1>4 DEF Scan
<1>6. DecodeTimestampTz(c) = Done(TimeOfMicros(n))
  BY <1>2, <1>4 DEF DecodeTimestampTz, Refused
<1>7. n + Y2K = instant \div Micro
  BY <1>1, PgValuesAssumption
<1> QED
  BY <1>5, <1>6, <1>7 DEF Return, TimeOfMicros
=============================================================================
