----------------------------- MODULE SignalProofs -----------------------------
(***************************************************************************)
(* Signal.tla proved for every set of channels and of dispatches.  The     *)
(* argument: the mutex makes a dispatch the only one in its loop and keeps *)
(* the slice still under it, so the listeners before `pos` are exactly     *)
(* those that have heard its message, and that message is the last one     *)
(* each of them has heard.                                                 *)
(***************************************************************************)
EXTENDS Signal, TLAPS

-----------------------------------------------------------------------------
(* What Add and Remove do to a slice of listeners without duplicates.      *)

(* Add lists the channel and keeps every other listener; a channel that    *)
(* was not listed is then listed once.                                     *)
LEMMA AddListenerLemma ==
  ASSUME NEW S, NEW l \in Seq(S), NEW c \in S
  PROVE  /\ AddListener(l, c) \in Seq(S)
         /\ Range(AddListener(l, c)) = Range(l) \cup {c}
         /\ IsInjective(l) /\ c \notin Range(l) => IsInjective(AddListener(l, c))
<1> DEFINE r == Append(l, c)
<1>1. /\ r \in Seq(S)
      /\ Len(r) = Len(l) + 1
      /\ \A i \in 1..Len(l) : r[i] = l[i]
      /\ r[Len(l) + 1] = c
  OBVIOUS
<1>2. DOMAIN l = 1..Len(l) /\ DOMAIN r = 1..(Len(l) + 1) /\ Len(l) \in Nat
  BY <1>1
<1>3. Range(r) = Range(l) \cup {c}
  <2>1. ASSUME NEW x \in Range(r) PROVE x \in Range(l) \cup {c}
    <3>1. PICK i \in 1..(Len(l) + 1) : r[i] = x
      BY <1>2, <2>1 DEF Range
    <3> QED
      BY <1>1, <1>2, <3>1 DEF Range
  <2>2. ASSUME NEW x \in Range(l) PROVE x \in Range(r)
    <3>1. PICK i \in 1..Len(l) : l[i] = x
      BY <1>2, <2>2 DEF Range
    <3>2. i \in DOMAIN r /\ r[i] = x
      BY <1>1, <1>2, <3>1
    <3> QED
      BY <3>2 DEF Range
  <2>3. c \in Range(r)
    <3>1. Len(l) + 1 \in DOMAIN r
      BY <1>2
    <3> QED
      BY <1>1, <3>1 DEF Range
  <2> QED
    BY <2>1, <2>2, <2>3
<1>4. ASSUME IsInjective(l), c \notin Range(l) PROVE IsInjective(r)
  <2>1. \A i \in 1..Len(l) : l[i] # c
    BY <1>2, <1>4 DEF Range
  <2> QED
    BY <1>1, <1>2, <1>4, <2>1 DEF IsInjective
<1> QED
  BY <1>1, <1>3, <1>4 DEF AddListener

(* Remove unlists exactly its channel, in a slice without duplicates, and  *)
(* leaves it without duplicates.                                           *)
LEMMA RemoveListenerLemma ==
  ASSUME NEW S, NEW l \in Seq(S), NEW c, IsInjective(l)
  PROVE  /\ RemoveListener(l, c) \in Seq(S)
         /\ Range(RemoveListener(l, c)) = Range(l) \ {c}
         /\ IsInjective(RemoveListener(l, c))
<1>1. CASE c \notin Range(l)
  BY <1>1 DEF RemoveListener
<1>2. CASE c \in Range(l)
  <2> DEFINE n == Len(l)
             k == FirstIndex(l, c)
             r == [j \in 1..(n - 1) |-> IF j = k THEN l[n] ELSE l[j]]
  <2>1. n \in Nat /\ DOMAIN l = 1..n /\ \A i \in 1..n : l[i] \in S
    OBVIOUS
  <2>2. k \in 1..n /\ l[k] = c
    <3>1. PICK i \in 1..n : l[i] = c
      BY <1>2, <2>1 DEF Range
    <3>2. \A j \in 1..(i - 1) : l[j] # c
      BY <2>1, <3>1 DEF IsInjective
    <3> QED
      BY <3>1, <3>2 DEF FirstIndex
  <2> HIDE DEF k
  <2>3. n \in 1..n /\ n - 1 \in Nat
    BY <2>1, <2>2
  <2>4. r \in Seq(S) /\ DOMAIN r = 1..(n - 1)
    BY <2>1, <2>3
  <2>5. \A j \in 1..(n - 1) : r[j] = IF j = k THEN l[n] ELSE l[j]
    OBVIOUS
  <2> HIDE DEF r
  <2>6. Range(r) = Range(l) \ {c}
    <3>1. ASSUME NEW x \in Range(r) PROVE x \in Range(l) /\ x # c
      <4>1. PICK j \in 1..(n - 1) : r[j] = x
        BY <2>4, <3>1 DEF Range
      <4>2. PICK i \in 1..n : l[i] = x /\ i # k
        BY <2>1, <2>2, <2>3, <2>5, <4>1
      <4> QED
        BY <2>1, <2>2, <4>2 DEF Range, IsInjective
    <3>2. ASSUME NEW x \in Range(l), x # c PROVE x \in Range(r)
      <4>1. PICK i \in 1..n : l[i] = x
        BY <2>1, <3>2 DEF Range
      <4>2. i # k
        BY <2>2, <3>2, <4>1
      <4>3. PICK j \in 1..(n - 1) : r[j] = x
        BY <2>1, <2>2, <2>5, <4>1, <4>2
      <4> QED
        BY <2>4, <4>3 DEF Range
    <3> QED
      BY <3>1, <3>2
  <2>7. IsInjective(r)
    BY <2>1, <2>2, <2>4, <2>5 DEF IsInjective
  <2> QED
    BY <1>2, <2>4, <2>6, <2>7 DEF RemoveListener, r, k
<1> QED
  BY <1>1, <1>2

-----------------------------------------------------------------------------
(* The invariant. *)

(* Only the dispatch that holds the mutex is in the loop. *)
HolderSends == \A m \in Msg : phase[m] = "send" <=> mutex = m

(* The loop index stays within the slice, or one past its end. *)
LoopIndex == mutex \in Msg => pos \in 1..(Len(listeners) + 1)

(* The listeners before the loop index, and no other channel, have heard   *)
(* the message under way.                                                  *)
Delivered ==
  mutex \in Msg =>
    \A c \in Chan : mutex \in Range(heard[c]) <=> \E i \in 1..(pos - 1) : listeners[i] = c

(* What was heard was being sent, or its dispatch has returned. *)
HeardIsSent ==
  \A c \in Chan : \A m \in Range(heard[c]) : phase[m] \in {"send", "done"}

(* The message under way is the last one heard by whoever has heard it. *)
CurrentIsLast ==
  mutex \in Msg =>
    \A c \in Chan : \A i \in DOMAIN heard[c] : heard[c][i] = mutex => i = Len(heard[c])

(* The inductive invariant behind the order and the reach of a dispatch. *)
IInv ==
  /\ TypeOK
  /\ ListenersMatchOwners
  /\ HolderSends
  /\ LoopIndex
  /\ Delivered
  /\ HeardIsSent
  /\ CurrentIsLast
  /\ SameOrder

-----------------------------------------------------------------------------
(* What appending a message to the heard sequence of one channel changes. *)
LEMMA HeardAppend ==
  ASSUME NEW s \in Seq(Msg), NEW m \in Msg
  PROVE  LET t == Append(s, m) IN
         /\ t \in Seq(Msg)
         /\ Len(t) = Len(s) + 1
         /\ DOMAIN t = 1..(Len(s) + 1)
         /\ \A i \in 1..Len(s) : t[i] = s[i]
         /\ t[Len(s) + 1] = m
         /\ Range(t) = Range(s) \cup {m}
<1>1. /\ Append(s, m) \in Seq(Msg)
      /\ Len(Append(s, m)) = Len(s) + 1
      /\ \A i \in 1..Len(s) : Append(s, m)[i] = s[i]
      /\ Append(s, m)[Len(s) + 1] = m
      /\ DOMAIN Append(s, m) = 1..(Len(s) + 1)
  OBVIOUS
<1>2. Range(Append(s, m)) = Range(s) \cup {m}
  BY AddListenerLemma DEF AddListener
<1> QED
  BY <1>1, <1>2

(* In a sequence to which m is appended, "a before b" is either old or has *)
(* b = m and a among the old elements.                                     *)
LEMMA BeforeAppend ==
  ASSUME NEW s \in Seq(Msg), NEW m \in Msg, NEW a, NEW b,
         Before(Append(s, m), a, b)
  PROVE  Before(s, a, b) \/ (b = m /\ a \in Range(s))
<1> DEFINE t == Append(s, m)
<1>1. PICK i, j \in DOMAIN t : i < j /\ t[i] = a /\ t[j] = b
  BY DEF Before
<1>2. /\ DOMAIN t = 1..(Len(s) + 1) /\ DOMAIN s = 1..Len(s) /\ Len(s) \in Nat
      /\ \A k \in 1..Len(s) : t[k] = s[k]
      /\ t[Len(s) + 1] = m
  BY HeardAppend
<1> HIDE DEF t
<1>3. i \in DOMAIN s /\ s[i] = a
  BY <1>1, <1>2
<1>4. a \in Range(s)
  BY <1>3 DEF Range
<1>5. CASE j = Len(s) + 1
  BY <1>1, <1>2, <1>4, <1>5
<1>6. CASE j # Len(s) + 1
  <2>1. j \in DOMAIN s /\ s[j] = b
    BY <1>1, <1>2, <1>6
  <2> QED
    BY <1>1, <1>3, <2>1 DEF Before
<1> QED
  BY <1>5, <1>6

LEMMA BeforeRange ==
  ASSUME NEW s, NEW a, NEW b, Before(s, a, b)
  PROVE  a \in Range(s) /\ b \in Range(s)
BY DEF Before, Range

-----------------------------------------------------------------------------
LEMMA InitIInv == Init => IInv
<1> SUFFICES ASSUME Init PROVE IInv
  OBVIOUS
<1>1. TypeOK
  BY DEF Init, TypeOK, Phases, OwnerStates
<1>2. ListenersMatchOwners
  BY DEF Init, ListenersMatchOwners, IsInjective, Range
<1>3. HolderSends /\ LoopIndex /\ Delivered /\ CurrentIsLast
  BY UnlockedAssumption DEF Init, HolderSends, LoopIndex, Delivered, CurrentIsLast
<1>4. HeardIsSent
  BY DEF Init, HeardIsSent, Range
<1>5. SameOrder
  BY DEF Init, SameOrder, Before
<1> QED
  BY <1>1, <1>2, <1>3, <1>4, <1>5 DEF IInv

(* The steps that leave the slice, the lock, the loop and what was heard   *)
(* alone: an owner that moves among the states in which it is listed, or   *)
(* among those in which it is not.                                         *)
LEMMA OwnerMoves ==
  ASSUME IInv, UNCHANGED <<listeners, mutex, pos, phase, heard>>,
         owner' \in [Chan -> OwnerStates],
         \A c \in Chan : owner'[c] \in {"recv", "busy", "removing"}
                           <=> owner[c] \in {"recv", "busy", "removing"}
  PROVE  IInv'
<1>1. TypeOK'
  BY DEF IInv, TypeOK
<1>2. ListenersMatchOwners'
  BY DEF IInv, ListenersMatchOwners
<1>3. HolderSends' /\ LoopIndex' /\ Delivered' /\ HeardIsSent' /\ CurrentIsLast' /\ SameOrder'
  BY DEF IInv, HolderSends, LoopIndex, Delivered, HeardIsSent, CurrentIsLast, SameOrder
<1> QED
  BY <1>1, <1>2, <1>3 DEF IInv

LEMMA SpawnStep ==
  ASSUME IInv, NEW m \in Msg, Spawn(m)
  PROVE  IInv'
<1> USE DEF Spawn
<1>1. TypeOK'
  BY DEF IInv, TypeOK, Phases
<1>2. ListenersMatchOwners' /\ LoopIndex' /\ Delivered' /\ CurrentIsLast' /\ SameOrder'
  BY DEF IInv, ListenersMatchOwners, LoopIndex, Delivered, CurrentIsLast, SameOrder
<1>3. HolderSends' /\ HeardIsSent'
  BY DEF IInv, TypeOK, HolderSends, HeardIsSent
<1> QED
  BY <1>1, <1>2, <1>3 DEF IInv

LEMMA AcquireStep ==
  ASSUME IInv, NEW m \in Msg, Acquire(m)
  PROVE  IInv'
<1> USE DEF Acquire
<1>1. TypeOK'
  BY DEF IInv, TypeOK, Phases
<1>2. ListenersMatchOwners' /\ SameOrder'
  BY DEF IInv, ListenersMatchOwners, SameOrder
<1>3. HolderSends'
  BY UnlockedAssumption DEF IInv, TypeOK, HolderSends
<1>4. LoopIndex'
  BY DEF IInv, TypeOK, LoopIndex
<1>5. HeardIsSent'
  BY DEF IInv, TypeOK, HeardIsSent
<1>6. \A c \in Chan : m \notin Range(heard[c])
  BY DEF IInv, HeardIsSent
<1>7. Delivered'
  BY <1>6 DEF Delivered
<1>8. CurrentIsLast'
  BY <1>6 DEF CurrentIsLast, Range
<1> QED
  BY <1>1, <1>2, <1>3, <1>4, <1>5, <1>7, <1>8 DEF IInv

LEMMA SendStep ==
  ASSUME IInv, NEW m \in Msg, Send(m)
  PROVE  IInv'
<1> DEFINE c == listeners[pos]
<1>1. /\ mutex = m /\ pos \in 1..Len(listeners)
      /\ listeners \in Seq(Chan) /\ IsInjective(listeners)
      /\ \A d \in Chan : heard[d] \in Seq(Msg)
  BY DEF IInv, TypeOK, HolderSends, LoopIndex, ListenersMatchOwners, Send
<1>2. /\ c \in Chan
      /\ heard' = [heard EXCEPT ![c] = Append(@, m)]
      /\ owner' = [owner EXCEPT ![c] = "busy"]
      /\ owner[c] = "recv" /\ phase[m] = "send"
      /\ pos' = pos + 1 /\ UNCHANGED <<listeners, mutex, phase>>
  BY <1>1 DEF Send
<1> HIDE DEF c
<1>3. /\ heard'[c] = Append(heard[c], m)
      /\ \A d \in Chan \ {c} : heard'[d] = heard[d]
  BY <1>2 DEF IInv, TypeOK
<1>4. m \notin Range(heard[c])
  <2>1. \A i \in 1..(pos - 1) : listeners[i] # c
    BY <1>1 DEF IsInjective, c
  <2> QED
    BY <1>1, <1>2, <2>1 DEF IInv, Delivered
<1>5. TypeOK'
  <2>1. heard' \in [Chan -> Seq(Msg)]
    BY <1>1, <1>2, HeardAppend DEF IInv, TypeOK
  <2> QED
    BY <1>1, <1>2, <2>1 DEF IInv, TypeOK, OwnerStates
<1>6. ListenersMatchOwners'
  BY <1>2 DEF IInv, TypeOK, ListenersMatchOwners
<1>7. HolderSends' /\ LoopIndex'
  BY <1>1, <1>2 DEF IInv, HolderSends, LoopIndex
<1>8. \A d \in Chan : Range(heard'[d]) = IF d = c THEN Range(heard[d]) \cup {m} ELSE Range(heard[d])
  <2>1. Range(Append(heard[c], m)) = Range(heard[c]) \cup {m}
    BY <1>1, <1>2, HeardAppend
  <2>2. ASSUME NEW d \in Chan, d # c PROVE Range(heard'[d]) = Range(heard[d])
    <3>1. heard'[d] = heard[d]
      BY <1>3, <2>2
    <3> QED
      BY <3>1
  <2>3. Range(heard'[c]) = Range(heard[c]) \cup {m}
    <3>1. heard'[c] = Append(heard[c], m)
      BY <1>3
    <3> QED
      BY <2>1, <3>1
  <2> QED
    BY <2>2, <2>3
<1>9. Delivered'
  <2> SUFFICES ASSUME NEW d \in Chan
               PROVE  m \in Range(heard'[d]) <=> \E i \in 1..pos : listeners[i] = d
    <3>1. mutex' = m /\ pos' = pos + 1 /\ pos' - 1 = pos /\ UNCHANGED listeners
      BY <1>1, <1>2 DEF IInv, LoopIndex
    <3> QED
      BY <3>1 DEF Delivered
  <2>1. m \in Range(heard[d]) <=> \E i \in 1..(pos - 1) : listeners[i] = d
    BY <1>1 DEF IInv, Delivered
  <2>2. (\E i \in 1..pos : listeners[i] = d)
          <=> (d = c \/ \E i \in 1..(pos - 1) : listeners[i] = d)
    BY <1>1 DEF c
  <2> QED
    BY <1>8, <2>1, <2>2
<1>10. HeardIsSent'
  <2> SUFFICES ASSUME NEW d \in Chan, NEW n \in Range(heard'[d])
               PROVE  phase[n] \in {"send", "done"}
    BY <1>2 DEF HeardIsSent
  <2>1. n = m \/ n \in Range(heard[d])
    BY <1>8
  <2> QED
    BY <1>2, <2>1 DEF IInv, HeardIsSent
<1>11. CurrentIsLast'
  <2> SUFFICES ASSUME NEW d \in Chan, NEW i \in DOMAIN heard'[d], heard'[d][i] = m
               PROVE  i = Len(heard'[d])
    BY <1>1, <1>2 DEF CurrentIsLast
  <2>1. CASE d = c
    <3>1. \A j \in 1..Len(heard[c]) : heard[c][j] # m
      BY <1>1, <1>2, <1>4 DEF Range
    <3> QED
      BY <1>1, <1>2, <1>3, <2>1, <3>1, HeardAppend
  <2>2. CASE d # c
    BY <1>1, <1>3, <2>2 DEF IInv, CurrentIsLast
  <2> QED
    BY <2>1, <2>2
<1>12. SameOrder'
  <2> SUFFICES ASSUME NEW d \in Chan, NEW e \in Chan, NEW a \in Msg, NEW b \in Msg,
                      Before(heard'[d], a, b), Before(heard'[e], b, a)
               PROVE  FALSE
    BY DEF SameOrder
  <2>1. ASSUME NEW f \in Chan, NEW x, Before(heard[f], m, x)
        PROVE  FALSE
    <3>1. PICK i, j \in DOMAIN heard[f] : i < j /\ heard[f][i] = m
      BY <2>1 DEF Before
    <3>2. i = Len(heard[f])
      BY <1>1, <3>1 DEF IInv, CurrentIsLast
    <3> QED
      BY <1>1, <3>1, <3>2
  <2>2. ASSUME NEW f \in Chan, NEW x, NEW y, Before(heard'[f], x, y)
        PROVE  Before(heard[f], x, y) \/ (f = c /\ y = m /\ x \in Range(heard[c]))
    BY <1>1, <1>2, <1>3, <2>2, BeforeAppend
  <2>3. Before(heard[d], a, b) \/ (b = m /\ a \in Range(heard[c]))
    BY <2>2
  <2>4. Before(heard[e], b, a) \/ (a = m /\ b \in Range(heard[c]))
    BY <2>2
  <2>5. ~ (Before(heard[d], a, b) /\ Before(heard[e], b, a))
    BY DEF IInv, SameOrder
  <2> QED
    BY <1>4, <2>1, <2>3, <2>4, <2>5
<1> QED
  BY <1>5, <1>6, <1>7, <1>9, <1>10, <1>11, <1>12 DEF IInv

LEMMA ReleaseStep ==
  ASSUME IInv, NEW m \in Msg, Release(m)
  PROVE  IInv'
<1> USE DEF Release
<1>1. TypeOK'
  BY DEF IInv, TypeOK, Phases
<1>2. ListenersMatchOwners' /\ SameOrder'
  BY DEF IInv, ListenersMatchOwners, SameOrder
<1>3. HolderSends'
  BY UnlockedAssumption DEF IInv, TypeOK, HolderSends
<1>4. HeardIsSent'
  BY DEF IInv, TypeOK, HeardIsSent
<1>5. LoopIndex' /\ Delivered' /\ CurrentIsLast'
  BY UnlockedAssumption DEF LoopIndex, Delivered, CurrentIsLast
<1> QED
  BY <1>1, <1>2, <1>3, <1>4, <1>5 DEF IInv

(* Add and Remove change the slice only while the mutex is free. *)
LEMMA ListChanges ==
  ASSUME IInv, mutex = Unlocked, UNCHANGED <<mutex, pos, phase, heard>>,
         owner' \in [Chan -> OwnerStates], listeners' \in Seq(Chan),
         ListenersMatchOwners'
  PROVE  IInv'
<1>1. TypeOK' /\ HolderSends' /\ HeardIsSent' /\ SameOrder'
  BY DEF IInv, TypeOK, HolderSends, HeardIsSent, SameOrder
<1>2. LoopIndex' /\ Delivered' /\ CurrentIsLast'
  BY UnlockedAssumption DEF LoopIndex, Delivered, CurrentIsLast
<1> QED
  BY <1>1, <1>2 DEF IInv

LEMMA AddStep ==
  ASSUME IInv, NEW c \in Chan, Add(c)
  PROVE  IInv'
<1>1. /\ listeners \in Seq(Chan) /\ IsInjective(listeners)
      /\ Range(listeners) = {d \in Chan : owner[d] \in {"recv", "busy", "removing"}}
      /\ owner \in [Chan -> OwnerStates]
  BY DEF IInv, TypeOK, ListenersMatchOwners
<1>2. owner[c] = "adding" /\ owner' = [owner EXCEPT ![c] = "busy"]
  BY DEF Add, OwnerGoes
<1>3. /\ listeners' \in Seq(Chan) /\ IsInjective(listeners')
      /\ Range(listeners') = Range(listeners) \cup {c}
  <2>1. c \notin Range(listeners)
    BY <1>1, <1>2
  <2>2. listeners' = AddListener(listeners, c)
    BY DEF Add
  <2> QED
    BY <1>1, <2>1, <2>2, AddListenerLemma
<1>4. ListenersMatchOwners'
  BY <1>1, <1>2, <1>3 DEF ListenersMatchOwners
<1>5. owner' \in [Chan -> OwnerStates]
  BY <1>1, <1>2 DEF OwnerStates
<1> QED
  BY <1>3, <1>4, <1>5, ListChanges DEF Add

LEMMA RemoveStep ==
  ASSUME IInv, NEW c \in Chan, Remove(c)
  PROVE  IInv'
<1>1. /\ listeners \in Seq(Chan) /\ IsInjective(listeners)
      /\ Range(listeners) = {d \in Chan : owner[d] \in {"recv", "busy", "removing"}}
      /\ owner \in [Chan -> OwnerStates]
  BY DEF IInv, TypeOK, ListenersMatchOwners
<1>2. owner[c] = "removing" /\ owner' = [owner EXCEPT ![c] = "gone"]
  BY DEF Remove, OwnerGoes
<1>3. /\ listeners' \in Seq(Chan) /\ IsInjective(listeners')
      /\ Range(listeners') = Range(listeners) \ {c}
  BY <1>1, RemoveListenerLemma DEF Remove
<1>4. ListenersMatchOwners'
  BY <1>1, <1>2, <1>3 DEF ListenersMatchOwners
<1>5. owner' \in [Chan -> OwnerStates]
  BY <1>1, <1>2 DEF OwnerStates
<1> QED
  BY <1>3, <1>4, <1>5, ListChanges DEF Remove

LEMMA NextIInv == IInv /\ [Next]_vars => IInv'
<1> SUFFICES ASSUME IInv, [Next]_vars PROVE IInv'
  OBVIOUS
<1>1. ASSUME NEW m \in Msg, DispatchStep(m) PROVE IInv'
  BY <1>1, SpawnStep, AcquireStep, SendStep, ReleaseStep DEF DispatchStep
<1>2. ASSUME NEW c \in Chan, OwnerStep(c) PROVE IInv'
  <2>0. owner \in [Chan -> OwnerStates]
    BY DEF IInv, TypeOK
  <2>1. CASE CallAdd(c)
    BY <2>0, <2>1, OwnerMoves DEF CallAdd, OwnerGoes, OwnerStates
  <2>2. CASE Listen(c)
    BY <2>0, <2>2, OwnerMoves DEF Listen, OwnerGoes, OwnerStates
  <2>3. CASE TurnAway(c)
    BY <2>0, <2>3, OwnerMoves DEF TurnAway, OwnerGoes, OwnerStates
  <2>4. CASE CallRemove(c)
    BY <2>0, <2>4, OwnerMoves DEF CallRemove, OwnerGoes, OwnerStates
  <2> QED
    BY <1>2, <2>1, <2>2, <2>3, <2>4, AddStep, RemoveStep DEF OwnerStep
<1>3. CASE UNCHANGED vars
  <2>1. owner' \in [Chan -> OwnerStates]
    BY <1>3 DEF IInv, TypeOK, vars
  <2> QED
    BY <1>3, <2>1, OwnerMoves DEF vars
<1> QED
  BY <1>1, <1>2, <1>3 DEF Next

LEMMA Invariance == SafeSpec => []IInv
BY InitIInv, NextIInv, PTL DEF SafeSpec

-----------------------------------------------------------------------------
(* The variables of the signal always have their types. *)
THEOREM TypeCorrect == SafeSpec => []TypeOK
BY Invariance, PTL DEF IInv

(* Add and Remove keep the slice of any signal equal to the set of the     *)
(* channels between their Add and their Remove, each listed once.          *)
THEOREM ListingCorrect == SafeSpec => []ListenersMatchOwners
BY Invariance, PTL DEF IInv

(* Any number of dispatches, each in a goroutine of its own, is heard in   *)
(* one order by all the listeners.                                         *)
THEOREM OneOrder == SafeSpec => []SameOrder
BY Invariance, PTL DEF IInv

(* Dispatch returns only when all the listeners, and only they, have its   *)
(* message.                                                                *)
THEOREM DispatchDelivers == SafeSpec => DispatchReachesAll
<1>1. ASSUME IInv, [Next]_vars, NEW m \in Msg, phase[m] # "done", phase'[m] = "done"
      PROVE  Reached(m) = Range(listeners)
  <2>0. phase \in [Msg -> Phases] /\ (phase' = phase => phase'[m] # "done")
    BY <1>1 DEF IInv, TypeOK
  <2>1. Release(m)
    <3>1. ASSUME NEW n \in Msg, DispatchStep(n) PROVE Release(m)
      BY <1>1, <2>0, <3>1 DEF DispatchStep, Spawn, Acquire, Send, Release
    <3>2. ASSUME NEW c \in Chan, OwnerStep(c) PROVE FALSE
      BY <1>1, <3>2 DEF OwnerStep, CallAdd, Add, Listen, TurnAway, CallRemove, Remove
    <3>3. CASE UNCHANGED vars
      BY <1>1, <3>3 DEF vars
    <3> QED
      BY <1>1, <3>1, <3>2, <3>3 DEF Next
  <2>2. /\ mutex = m /\ pos = Len(listeners) + 1
        /\ listeners \in Seq(Chan)
    BY <1>1, <2>1 DEF Release, IInv, TypeOK, HolderSends, LoopIndex
  <2>3. \A c \in Chan : m \in Range(heard[c]) <=> \E i \in 1..Len(listeners) : listeners[i] = c
    BY <1>1, <2>2 DEF IInv, Delivered
  <2>4. Range(listeners) = {c \in Chan : \E i \in 1..Len(listeners) : listeners[i] = c}
    BY <2>2 DEF Range
  <2> QED
    BY <2>3, <2>4 DEF Reached
<1>2. IInv /\ [Next]_vars
        => [\A m \in Msg : (phase[m] # "done" /\ phase'[m] = "done")
              => Reached(m) = Range(listeners)]_vars
  BY <1>1
<1> QED
  BY <1>2, Invariance, PTL DEF SafeSpec, DispatchReachesAll

(* A goroutine that waits in Remove for a dispatch that waits for it waits *)
(* forever: no step of the signal or of another owner frees either.        *)
THEOREM DeadlockIsForever == SafeSpec => MutualWaitIsForever
<1>1. ASSUME IInv, [Next]_vars, MutualWait
      PROVE  MutualWait'
  <2>1. PICK m \in Msg, c \in Chan :
          phase[m] = "send" /\ pos <= Len(listeners) /\ listeners[pos] = c /\ owner[c] = "removing"
    BY <1>1 DEF MutualWait
  <2>2. mutex = m /\ mutex # Unlocked /\ \A n \in Msg : phase[n] = "send" => n = m
    BY <1>1, <2>1, UnlockedAssumption DEF IInv, HolderSends
  <2> DEFINE Stuck == /\ phase'[m] = "send" /\ owner'[c] = "removing"
                      /\ pos' = pos /\ listeners' = listeners
  <2>3. Stuck
    <3>0. phase \in [Msg -> Phases] /\ owner \in [Chan -> OwnerStates]
      BY <1>1 DEF IInv, TypeOK
    <3>1. ASSUME NEW n \in Msg, DispatchStep(n) PROVE Stuck
      <4>1. CASE Spawn(n)
        BY <2>1, <3>0, <4>1 DEF Spawn
      <4>2. CASE Acquire(n) \/ Send(n)
        BY <2>1, <2>2, <4>2 DEF Acquire, Send
      <4>3. CASE Release(n)
        <5>1. ~ (pos > Len(listeners))
          BY <1>1, <2>1 DEF IInv, TypeOK
        <5> QED
          BY <4>3, <5>1 DEF Release
      <4> QED
        BY <3>1, <4>1, <4>2, <4>3 DEF DispatchStep
    <3>2. ASSUME NEW d \in Chan, OwnerStep(d) PROVE Stuck
      BY <2>1, <2>2, <3>0, <3>2
      DEF OwnerStep, OwnerGoes, CallAdd, Add, Listen, TurnAway, CallRemove, Remove
    <3>3. CASE UNCHANGED vars
      BY <2>1, <3>3 DEF vars
    <3> HIDE DEF Stuck
    <3> QED
      BY <1>1, <3>1, <3>2, <3>3 DEF Next
  <2> QED
    BY <2>1, <2>3 DEF MutualWait
<1>2. IInv /\ [Next]_vars => [MutualWait => MutualWait']_vars
  BY <1>1
<1> QED
  BY <1>2, Invariance, PTL DEF SafeSpec, MutualWaitIsForever

-----------------------------------------------------------------------------
(* Every step of the signal is a step of the broadcast it promises: taking *)
(* the mutex begins it, each send serves one receiver, and the slice may   *)
(* change only between broadcasts.                                         *)
Pending == {listeners[i] : i \in {j \in DOMAIN listeners : mutex # Unlocked /\ j >= pos}}
Finished == {m \in Msg : phase[m] = "done"}
Got == [c \in Chan |-> Range(heard[c])]

LEMMA InitRefines == Init => B!Init
<1> SUFFICES ASSUME Init PROVE B!Init
  OBVIOUS
<1>1. Range(listeners) = {} /\ Pending = {} /\ Finished = {} /\ mutex = Unlocked
  BY DEF Init, Range, Pending, Finished
<1>2. Got = [c \in Chan |-> {}]
  <2>1. ASSUME NEW c \in Chan PROVE Range(heard[c]) = {}
    BY DEF Init, Range
  <2> QED
    BY <2>1 DEF Got
<1> QED
  BY <1>1, <1>2 DEF B!Init, Pending, Finished, Got

LEMMA SendRefines ==
  ASSUME IInv, NEW m \in Msg, NEW c \in Chan, c = listeners[pos], Send(m)
  PROVE  B!Deliver(c)
<1>1. /\ mutex = m /\ mutex # Unlocked /\ pos \in 1..Len(listeners)
      /\ listeners \in Seq(Chan) /\ IsInjective(listeners)
      /\ heard \in [Chan -> Seq(Msg)]
      /\ heard' = [heard EXCEPT ![c] = Append(@, m)]
      /\ pos' = pos + 1 /\ UNCHANGED <<listeners, mutex, phase>>
  BY UnlockedAssumption DEF IInv, TypeOK, HolderSends, LoopIndex, ListenersMatchOwners, Send
<1>2. c \in Pending
  BY <1>1 DEF Pending
<1>3. Pending' = Pending \ {c}
  <2>1. Pending = {listeners[i] : i \in pos..Len(listeners)}
    BY <1>1 DEF Pending
  <2>2. Pending' = {listeners[i] : i \in (pos + 1)..Len(listeners)}
    BY <1>1 DEF Pending
  <2>3. \A i \in (pos + 1)..Len(listeners) : listeners[i] # c
    BY <1>1 DEF IsInjective
  <2>4. pos..Len(listeners) = {pos} \cup (pos + 1)..Len(listeners)
    BY <1>1
  <2>5. Pending = {c} \cup {listeners[i] : i \in (pos + 1)..Len(listeners)}
    BY <2>1, <2>4
  <2> QED
    BY <2>2, <2>3, <2>5
<1>4. Got' = [Got EXCEPT ![c] = @ \cup {mutex}]
  <2>1. ASSUME NEW d \in Chan
        PROVE  Range(heard'[d]) = IF d = c THEN Range(heard[d]) \cup {m} ELSE Range(heard[d])
    <3>1. CASE d = c
      <4>1. heard'[d] = Append(heard[d], m) /\ heard[d] \in Seq(Msg)
        BY <1>1, <3>1
      <4> QED
        BY <3>1, <4>1, HeardAppend
    <3>2. CASE d # c
      <4>1. heard'[d] = heard[d]
        BY <1>1, <3>2
      <4> QED
        BY <3>2, <4>1
    <3> QED
      BY <3>1, <3>2
  <2> QED
    BY <1>1, <2>1 DEF Got
<1>5. Range(listeners)' = Range(listeners) /\ Finished' = Finished /\ mutex' = mutex
  BY <1>1 DEF Finished
<1> QED
  BY <1>2, <1>3, <1>4, <1>5 DEF B!Deliver, Pending, Finished, Got

LEMMA DispatchRefines ==
  ASSUME IInv, NEW m \in Msg, DispatchStep(m)
  PROVE  [B!Next]_(B!bvars)
<1>0. phase \in [Msg -> Phases] /\ listeners \in Seq(Chan) /\ pos \in Nat
  BY DEF IInv, TypeOK
<1>1. CASE Spawn(m)
  <2>1. UNCHANGED <<Range(listeners), mutex, Pending, Got>>
    BY <1>1 DEF Spawn, Pending, Got
  <2>2. Finished' = Finished
    BY <1>0, <1>1 DEF Spawn, Finished
  <2> QED
    BY <2>1, <2>2 DEF B!bvars, Pending, Finished, Got
<1>2. CASE Acquire(m)
  <2>1. mutex = Unlocked /\ mutex' = m /\ m # Unlocked /\ m \notin Finished
    BY <1>2, UnlockedAssumption DEF Acquire, Finished
  <2>2. Pending' = Range(listeners)
    BY <1>0, <1>2, <2>1 DEF Acquire, Pending, Range
  <2>3. Finished' = Finished
    BY <1>0, <1>2 DEF Acquire, Finished
  <2>4. Range(listeners)' = Range(listeners) /\ Got' = Got
    BY <1>2 DEF Acquire, Got
  <2>5. B!Begin(m)
    BY <2>1, <2>2, <2>3, <2>4 DEF B!Begin, Pending, Finished, Got
  <2> QED
    BY <2>5 DEF B!Next
<1>3. CASE Send(m)
  <2>1. listeners[pos] \in Chan
    BY <1>0, <1>3 DEF IInv, HolderSends, LoopIndex, Send
  <2>2. PICK c \in Chan : c = listeners[pos]
    BY <2>1
  <2>3. B!Deliver(c)
    BY <1>3, <2>2, SendRefines
  <2> QED
    BY <2>3 DEF B!Next
<1>4. CASE Release(m)
  <2>1. mutex = m /\ mutex # Unlocked /\ mutex' = Unlocked
    BY <1>4, UnlockedAssumption DEF Release, IInv, HolderSends
  <2>2. Pending = {} /\ Pending' = {}
    BY <1>0, <1>4, <2>1 DEF Release, Pending
  <2>3. Finished' = Finished \cup {m}
    BY <1>0, <1>4 DEF Release, Finished
  <2>4. Range(listeners)' = Range(listeners) /\ Got' = Got
    BY <1>4 DEF Release, Got
  <2>5. B!End
    BY <2>1, <2>2, <2>3, <2>4 DEF B!End, Pending, Finished, Got
  <2> QED
    BY <2>5 DEF B!Next
<1> QED
  BY <1>1, <1>2, <1>3, <1>4 DEF DispatchStep

LEMMA OwnerRefines ==
  ASSUME IInv, NEW c \in Chan, OwnerStep(c)
  PROVE  [B!Next]_(B!bvars)
<1>0. /\ listeners \in Seq(Chan) /\ IsInjective(listeners)
      /\ Range(listeners) = {d \in Chan : owner[d] \in {"recv", "busy", "removing"}}
  BY DEF IInv, TypeOK, ListenersMatchOwners
<1>1. UNCHANGED <<mutex, Finished, Got>>
  BY DEF OwnerStep, CallAdd, Add, Listen, TurnAway, CallRemove, Remove, Finished, Got
<1>2. CASE Add(c)
  <2>1. mutex = Unlocked /\ Pending = {} /\ Pending' = {}
    BY <1>2 DEF Add, Pending
  <2>2. Range(listeners)' = Range(listeners) \cup {c} /\ c \notin Range(listeners)
    BY <1>0, <1>2, AddListenerLemma DEF Add, OwnerGoes
  <2>3. B!Join(c)
    BY <1>1, <2>1, <2>2 DEF B!Join, Pending, Finished, Got
  <2> QED
    BY <2>3 DEF B!Next
<1>3. CASE Remove(c)
  <2>1. mutex = Unlocked /\ Pending = {} /\ Pending' = {}
    BY <1>3 DEF Remove, Pending
  <2>2. Range(listeners)' = Range(listeners) \ {c} /\ c \in Range(listeners)
    BY <1>0, <1>3, RemoveListenerLemma DEF Remove, OwnerGoes
  <2>3. B!Leave(c)
    BY <1>1, <2>1, <2>2 DEF B!Leave, Pending, Finished, Got
  <2> QED
    BY <2>3 DEF B!Next
<1>4. CASE UNCHANGED <<listeners, mutex, pos, phase, heard>>
  <2>1. UNCHANGED <<Range(listeners), mutex, Pending, Finished, Got>>
    BY <1>4 DEF Pending, Finished, Got
  <2> QED
    BY <2>1 DEF B!bvars, Pending, Finished, Got
<1> QED
  BY <1>2, <1>3, <1>4 DEF OwnerStep, CallAdd, Listen, TurnAway, CallRemove

(* Every behaviour of the signal is one of the atomic broadcast.           *)
THEOREM Refinement == SafeSpec => ImplementsBroadcast
<1>1. IInv /\ [Next]_vars => [B!Next]_(B!bvars)
  <2> SUFFICES ASSUME IInv, [Next]_vars PROVE [B!Next]_(B!bvars)
    OBVIOUS
  <2>1. CASE UNCHANGED vars
    BY <2>1 DEF vars, B!bvars
  <2> QED
    BY <2>1, DispatchRefines, OwnerRefines DEF Next
<1> QED
  BY <1>1, InitRefines, Invariance, PTL DEF SafeSpec, ImplementsBroadcast, B!Spec
=============================================================================
