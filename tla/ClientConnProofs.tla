--------------------------- MODULE ClientConnProofs ---------------------------
(***************************************************************************)
(* Connections listen to all signals or to none, and are told of each      *)
(* thing once, for any number of connections, signals, logins and          *)
(* dispatches, and however their walks and dispatches interleave.          *)
(***************************************************************************)
EXTENDS ClientConn, SequenceTheorems, TLAPS

-----------------------------------------------------------------------------
(* What Add and Remove do to a slice of listeners without duplicates, as   *)
(* SignalProofs has it for the slice of one signal.                        *)

(* Add lists the channel and keeps every other listener; a channel that    *)
(* was not listed is then listed once.                                     *)
LEMMA AddListenerLemma ==
  ASSUME NEW S, NEW l \in Seq(S), NEW c \in S
  PROVE  /\ AddListener(l, c) \in Seq(S)
         /\ Range(AddListener(l, c)) = Range(l) \cup {c}
         /\ IsInjective(l) /\ c \notin Range(l) => IsInjective(AddListener(l, c))
<1> DEFINE r == Append(l, c)
<1>1. /\ r \in Seq(S)
      /\ Len(r) = Len(l) + 1
      /\ \A i \in 1..Len(l) : r[i] = l[i]
      /\ r[Len(l) + 1] = c
  OBVIOUS
<1>2. DOMAIN l = 1..Len(l) /\ DOMAIN r = 1..(Len(l) + 1) /\ Len(l) \in Nat
  BY <1>1
<1>3. Range(r) = Range(l) \cup {c}
  <2>1. ASSUME NEW x \in Range(r) PROVE x \in Range(l) \cup {c}
    <3>1. PICK i \in 1..(Len(l) + 1) : r[i] = x
      BY <1>2, <2>1 DEF Range
    <3> QED
      BY <1>1, <1>2, <3>1 DEF Range
  <2>2. ASSUME NEW x \in Range(l) PROVE x \in Range(r)
    <3>1. PICK i \in 1..Len(l) : l[i] = x
      BY <1>2, <2>2 DEF Range
    <3>2. i \in DOMAIN r /\ r[i] = x
      BY <1>1, <1>2, <3>1
    <3> QED
      BY <3>2 DEF Range
  <2>3. c \in Range(r)
    <3>1. Len(l) + 1 \in DOMAIN r
      BY <1>2
    <3> QED
      BY <1>1, <3>1 DEF Range
  <2> QED
    BY <2>1, <2>2, <2>3
<1>4. ASSUME IsInjective(l), c \notin Range(l) PROVE IsInjective(r)
  <2>1. \A i \in 1..Len(l) : l[i] # c
    BY <1>2, <1>4 DEF Range
  <2> QED
    BY <1>1, <1>2, <1>4, <2>1 DEF IsInjective
<1> QED
  BY <1>1, <1>3, <1>4 DEF AddListener

(* Remove unlists exactly its channel, in a slice without duplicates, and  *)
(* leaves it without duplicates.                                           *)
LEMMA RemoveListenerLemma ==
  ASSUME NEW S, NEW l \in Seq(S), NEW c, IsInjective(l)
  PROVE  /\ RemoveListener(l, c) \in Seq(S)
         /\ Range(RemoveListener(l, c)) = Range(l) \ {c}
         /\ IsInjective(RemoveListener(l, c))
<1>1. CASE c \notin Range(l)
  BY <1>1 DEF RemoveListener
<1>2. CASE c \in Range(l)
  <2> DEFINE n == Len(l)
             k == FirstIndex(l, c)
             r == [j \in 1..(n - 1) |-> IF j = k THEN l[n] ELSE l[j]]
  <2>1. n \in Nat /\ DOMAIN l = 1..n /\ \A i \in 1..n : l[i] \in S
    OBVIOUS
  <2>2. k \in 1..n /\ l[k] = c
    <3>1. PICK i \in 1..n : l[i] = c
      BY <1>2, <2>1 DEF Range
    <3>2. \A j \in 1..(i - 1) : l[j] # c
      BY <2>1, <3>1 DEF IsInjective
    <3> QED
      BY <3>1, <3>2 DEF FirstIndex
  <2> HIDE DEF k
  <2>3. n \in 1..n /\ n - 1 \in Nat
    BY <2>1, <2>2
  <2>4. r \in Seq(S) /\ DOMAIN r = 1..(n - 1)
    BY <2>1, <2>3
  <2>5. \A j \in 1..(n - 1) : r[j] = IF j = k THEN l[n] ELSE l[j]
    OBVIOUS
  <2> HIDE DEF r
  <2>6. Range(r) = Range(l) \ {c}
    <3>1. ASSUME NEW x \in Range(r) PROVE x \in Range(l) /\ x # c
      <4>1. PICK j \in 1..(n - 1) : r[j] = x
        BY <2>4, <3>1 DEF Range
      <4>2. PICK i \in 1..n : l[i] = x /\ i # k
        BY <2>1, <2>2, <2>3, <2>5, <4>1
      <4> QED
        BY <2>1, <2>2, <4>2 DEF Range, IsInjective
    <3>2. ASSUME NEW x \in Range(l), x # c PROVE x \in Range(r)
      <4>1. PICK i \in 1..n : l[i] = x
        BY <2>1, <3>2 DEF Range
      <4>2. i # k
        BY <2>2, <3>2, <4>1
      <4>3. PICK j \in 1..(n - 1) : r[j] = x
        BY <2>1, <2>2, <2>5, <4>1, <4>2
      <4> QED
        BY <2>4, <4>3 DEF Range
    <3> QED
      BY <3>1, <3>2
  <2>7. IsInjective(r)
    BY <2>1, <2>2, <2>4, <2>5 DEF IsInjective
  <2> QED
    BY <1>2, <2>4, <2>6, <2>7 DEF RemoveListener, r, k
<1> QED
  BY <1>1, <1>2

-----------------------------------------------------------------------------
(* The invariant. *)

Stations == 1..Len(SignalOrder)
Outside == {"select", "handle", "session", "reply", "notify"}

(* The channel in c's field for k is in the slice of k. *)
Listed(c, k) == <<c, field[c][k]>> \in Range(listeners[k])

(* Only channels of the fields are listed, each once. *)
ListsFit ==
  \A k \in Kind :
    /\ IsInjective(listeners[k])
    /\ \A c \in Conn, n \in 1..MaxLogins :
         <<c, n>> \in Range(listeners[k]) => n = field[c][k]

(* The fields of c are nil together, except in the walk that replaces them. *)
NilAlike(c) == \A k, l \in Kind : field[c][k] = 0 => field[c][l] = 0

(* How far c's walk has come shows in every signal. *)
WalkFits(c) ==
  /\ pc[c] \in Outside => NilAlike(c) /\ \A k \in Kind : Listed(c, k) <=> field[c][k] # 0
  /\ pc[c] \in {"detach", "leave"} =>
       /\ at[c] \in Stations
       /\ NilAlike(c)
       /\ \A i \in Stations :
            Listed(c, SignalOrder[i]) <=> i >= at[c] /\ field[c][SignalOrder[i]] # 0
  /\ pc[c] = "detach" => \A k \in Kind : field[c][k] < MaxLogins
  /\ pc[c] = "attach" =>
       /\ at[c] \in Stations
       /\ \A i \in Stations : i < at[c] =>
            Listed(c, SignalOrder[i]) /\ field[c][SignalOrder[i]] # 0
       /\ \A i \in Stations : i >= at[c] =>
            ~ Listed(c, SignalOrder[i]) /\ field[c][SignalOrder[i]] < MaxLogins
  /\ pc[c] = "ended" => \A k \in Kind : ~ Listed(c, k)

(* A lock is held by the dispatch that sends. *)
LocksFit ==
  /\ Len(dispatch) <= MaxDispatches
  /\ \A k \in Kind : mutex[k] = Unlocked \/ mutex[k] \in DOMAIN dispatch
  /\ \A e \in DOMAIN dispatch :
       dispatch[e].phase = "send" <=> mutex[dispatch[e].kind] = e

(* Dispatch e has begun; while it sends, it is past a channel of c. *)
HasPassed(e, c) ==
  /\ e \in DOMAIN dispatch
  /\ dispatch[e].phase # "wait"
  /\ dispatch[e].phase = "send" =>
       LET k == dispatch[e].kind IN
         \E j \in DOMAIN listeners[k] : j < pos[k] /\ listeners[k][j][1] = c

(* What was received from a channel was dispatched by its signal. *)
LogsFit ==
  \A k \in Kind, c \in Conn, n \in 1..MaxLogins : \A i \in DOMAIN heard[k][<<c, n>>] :
    /\ HasPassed(heard[k][<<c, n>>][i], c)
    /\ dispatch[heard[k][<<c, n>>][i]].kind = k

IInv ==
  /\ TypeOK
  /\ ListsFit
  /\ \A c \in Conn : WalkFits(c)
  /\ LocksFit
  /\ LogsFit
  /\ ToldOnce

-----------------------------------------------------------------------------
(* The stations of a walk are the signals, each once. *)
LEMMA StationsAreSignals ==
  /\ Len(SignalOrder) \in Nat /\ Len(SignalOrder) >= 2
  /\ DOMAIN SignalOrder = Stations
  /\ \A i \in Stations : SignalOrder[i] \in Kind
  /\ \A k \in Kind : \E i \in Stations : SignalOrder[i] = k
  /\ \A i, j \in Stations : SignalOrder[i] = SignalOrder[j] => i = j
<1>1. SignalOrder \in Seq(STRING) /\ IsInjective(SignalOrder) /\ Len(SignalOrder) >= 2
  BY SignalsAssumption
<1>2. Len(SignalOrder) \in Nat /\ DOMAIN SignalOrder = Stations
  BY <1>1, LenProperties DEF Stations
<1> QED
  BY <1>1, <1>2 DEF Kind, Range, IsInjective

(* The walk of a connection fits as long as nothing of its own changes. *)
LEMMA OthersFit ==
  ASSUME NEW d \in Conn, WalkFits(d),
         pc'[d] = pc[d], at'[d] = at[d], field'[d] = field[d],
         \A k \in Kind, n \in 0..MaxLogins :
           <<d, n>> \in Range(listeners'[k]) <=> <<d, n>> \in Range(listeners[k]),
         TypeOK
  PROVE  WalkFits(d)'
<1>1. \A k \in Kind : Listed(d, k)' <=> Listed(d, k)
  BY DEF Listed, TypeOK
<1>2. NilAlike(d)' <=> NilAlike(d)
  BY DEF NilAlike
<1> QED
  BY <1>1, <1>2, StationsAreSignals DEF WalkFits

(* What changes none of the listeners leaves the other walks alone. *)
LEMMA OneMoves ==
  ASSUME IInv, NEW c \in Conn, UNCHANGED <<field, listeners>>,
         pc' \in [Conn -> Places], at' \in [Conn -> 0..Len(SignalOrder)],
         \A d \in Conn : d # c => pc'[d] = pc[d] /\ at'[d] = at[d],
         WalkFits(c)'
  PROVE  \A d \in Conn : WalkFits(d)'
BY OthersFit DEF IInv

(* A handler that ends up elsewhere outside the walks. *)
LEMMA StaysOutside ==
  ASSUME IInv, NEW c \in Conn, pc[c] \in Outside, NEW place \in Outside, Goto(c, place),
         UNCHANGED <<at, field, listeners>>
  PROVE  /\ pc' \in [Conn -> Places] /\ at' \in [Conn -> 0..Len(SignalOrder)]
         /\ \A d \in Conn : WalkFits(d)'
<1>1. /\ pc' \in [Conn -> Places] /\ at' \in [Conn -> 0..Len(SignalOrder)]
      /\ pc'[c] = place
      /\ \A d \in Conn : d # c => pc'[d] = pc[d] /\ at'[d] = at[d]
  BY DEF Goto, Outside, Places, IInv, TypeOK
<1>2. WalkFits(c)'
  <2>1. NilAlike(c)' /\ \A k \in Kind : Listed(c, k)' <=> field'[c][k] # 0
    BY DEF IInv, WalkFits, NilAlike, Listed
  <2>2. pc'[c] \notin {"detach", "leave", "attach", "ended"}
    BY <1>1 DEF Outside
  <2> QED
    BY <2>1, <2>2 DEF WalkFits
<1> QED
  BY <1>1, <1>2, OneMoves

(* At the start of a walk all that is listed lies ahead. *)
LEMMA EntersWalk ==
  ASSUME IInv, NEW c \in Conn, pc[c] \in Outside,
         NEW place \in {"detach", "leave"}, StartWalk(c, place),
         place = "detach" => \A k \in Kind : field[c][k] < MaxLogins,
         UNCHANGED <<field, listeners>>
  PROVE  /\ pc' \in [Conn -> Places] /\ at' \in [Conn -> 0..Len(SignalOrder)]
         /\ \A d \in Conn : WalkFits(d)'
<1>1. /\ pc' \in [Conn -> Places]
      /\ pc'[c] = place
      /\ \A d \in Conn : d # c => pc'[d] = pc[d]
  BY DEF StartWalk, Goto, Places, IInv, TypeOK
<1>2. 1 \in 0..Len(SignalOrder) /\ 1 \in Stations /\ \A i \in Stations : i >= 1
  BY StationsAreSignals DEF Stations
<1>3. /\ at' \in [Conn -> 0..Len(SignalOrder)]
      /\ at'[c] = 1
      /\ \A d \in Conn : d # c => at'[d] = at[d]
  BY <1>2 DEF StartWalk, IInv, TypeOK
<1>4. WalkFits(c)'
  <2>1. NilAlike(c)' /\ \A k \in Kind : Listed(c, k)' <=> field'[c][k] # 0
    BY DEF IInv, WalkFits, NilAlike, Listed
  <2>2. \A i \in Stations :
          Listed(c, SignalOrder[i])' <=> i >= at'[c] /\ field'[c][SignalOrder[i]] # 0
    BY <1>2, <1>3, <2>1, StationsAreSignals
  <2>3. pc'[c] \notin Outside /\ pc'[c] # "attach" /\ pc'[c] # "ended"
    BY <1>1 DEF Outside
  <2> QED
    BY <1>1, <1>2, <1>3, <2>1, <2>2, <2>3 DEF WalkFits
<1> QED
  BY <1>1, <1>3, <1>4, OneMoves

(* What was told stays told as long as the dispatches that told it go on. *)
LEMMA LogsKeep ==
  ASSUME IInv, UNCHANGED heard,
         \A e, c : HasPassed(e, c) => HasPassed(e, c)' /\ dispatch'[e].kind = dispatch[e].kind
  PROVE  LogsFit'
<1> SUFFICES ASSUME NEW k \in Kind, NEW c \in Conn, NEW n \in 1..MaxLogins,
                    NEW i \in DOMAIN heard'[k][<<c, n>>]
             PROVE  (HasPassed(heard[k][<<c, n>>][i], c) /\ dispatch[heard[k][<<c, n>>][i]].kind = k)'
  BY Zenon DEF LogsFit
<1>1. PICK e : e = heard[k][<<c, n>>][i]
  OBVIOUS
<1>2. HasPassed(e, c) /\ dispatch[e].kind = k
  BY <1>1 DEF IInv, LogsFit
<1>3. (HasPassed(e, c) /\ dispatch[e].kind = k)'
  BY <1>2
<1> QED
  BY <1>1, <1>3 DEF HasPassed

(* A dispatch that is called waits for a lock, and has told nobody. *)
LEMMA PublishKeeps ==
  ASSUME IInv, UNCHANGED <<mutex, pos, listeners, heard>>,
         UNCHANGED dispatch \/ \E k \in Kind : Publish(k)
  PROVE  /\ dispatch' \in Seq(Dispatches)
         /\ LocksFit' /\ LogsFit'
<1>1. CASE UNCHANGED dispatch
  <2>1. dispatch' \in Seq(Dispatches) /\ LocksFit'
    BY <1>1 DEF IInv, TypeOK, LocksFit
  <2>2. \A e, c : HasPassed(e, c)' <=> HasPassed(e, c)
    BY <1>1 DEF HasPassed
  <2>3. LogsFit'
    BY <1>1, <2>2, LogsKeep
  <2> QED
    BY <2>1, <2>3
<1>2. ASSUME NEW k \in Kind, Publish(k)
      PROVE  dispatch' \in Seq(Dispatches) /\ LocksFit' /\ LogsFit'
  <2>1. PICK n \in Nat : n = Len(dispatch) /\ DOMAIN dispatch = 1..n
    BY LenProperties DEF IInv, TypeOK
  <2>2. [kind |-> k, phase |-> "wait"] \in Dispatches
    BY DEF Dispatches
  <2>3. /\ dispatch' \in Seq(Dispatches) /\ DOMAIN dispatch' = 1..(n + 1)
        /\ dispatch'[n + 1] = [kind |-> k, phase |-> "wait"]
        /\ \A e \in 1..n : dispatch'[e] = dispatch[e]
    BY <1>2, <2>1, <2>2, AppendProperties, LenProperties DEF Publish, IInv, TypeOK
  <2>4. \A e \in 1..(n + 1) : e \in 1..n \/ e = n + 1
    OBVIOUS
  <2>5. \A l \in Kind : mutex[l] # n + 1
    BY <2>1 DEF IInv, LocksFit, Unlocked
  <2>6. Len(dispatch') <= MaxDispatches
    BY <1>2, <2>1, <2>3, BoundsAssumption, LenProperties DEF Publish
  <2>7. LocksFit'
    <3>1. \A l \in Kind : mutex[l] = Unlocked \/ mutex[l] \in 1..(n + 1)
      BY <2>1 DEF IInv, LocksFit
    <3>2. \A e \in 1..n : dispatch'[e].phase = "send" <=> mutex[dispatch'[e].kind] = e
      BY <2>1, <2>3 DEF IInv, LocksFit
    <3>3. dispatch'[n + 1].phase = "send" <=> mutex[dispatch'[n + 1].kind] = n + 1
      BY <2>3, <2>5
    <3> QED
      BY <2>3, <2>4, <2>6, <3>1, <3>2, <3>3 DEF LocksFit
  <2>8. LogsFit'
    <3>1. \A e, c : HasPassed(e, c) => HasPassed(e, c)' /\ dispatch'[e].kind = dispatch[e].kind
      BY <2>1, <2>3 DEF IInv, HasPassed
    <3> QED
      BY <3>1, LogsKeep
  <2> QED
    BY <2>3, <2>7, <2>8
<1> QED
  BY <1>1, <1>2

(* What a connection does between two walks. *)
LEMMA LocalKeeps ==
  ASSUME IInv, UNCHANGED <<field, signalVars, heard>>, authed' \in [Conn -> BOOLEAN],
         pc' \in [Conn -> Places], at' \in [Conn -> 0..Len(SignalOrder)],
         UNCHANGED dispatch \/ \E k \in Kind : Publish(k),
         \A d \in Conn : WalkFits(d)'
  PROVE  IInv'
<1>1. dispatch' \in Seq(Dispatches) /\ LocksFit' /\ LogsFit'
  BY PublishKeeps DEF signalVars
<1>2. TypeOK'
  BY <1>1 DEF IInv, TypeOK, signalVars
<1>3. ListsFit' /\ ToldOnce'
  BY DEF IInv, ListsFit, ToldOnce, signalVars
<1> QED
  BY <1>1, <1>2, <1>3 DEF IInv

LEMMA TakeRequestKeeps == ASSUME IInv, NEW c \in Conn, TakeRequest(c) PROVE IInv'
<1>1. pc[c] \in Outside /\ "handle" \in Outside
  BY DEF TakeRequest, Outside
<1> QED
  BY <1>1, StaysOutside, LocalKeeps DEF TakeRequest, signalVars, IInv, TypeOK

LEMMA ReadErrorKeeps == ASSUME IInv, NEW c \in Conn, ReadError(c) PROVE IInv'
<1>1. pc[c] \in Outside
  BY DEF ReadError, Outside
<1> QED
  BY <1>1, EntersWalk, LocalKeeps DEF ReadError, signalVars, IInv, TypeOK

LEMMA WriteKeeps == ASSUME IInv, NEW c \in Conn, Write(c) PROVE IInv'
<1>1. pc[c] \in Outside /\ "select" \in Outside
  BY DEF Write, Outside
<1>2. UNCHANGED <<authed, field, signalVars, dispatch, heard>>
  BY DEF Write
<1>3. CASE Goto(c, "select") /\ UNCHANGED at
  BY <1>1, <1>2, <1>3, StaysOutside, LocalKeeps DEF signalVars, IInv, TypeOK
<1>4. CASE StartWalk(c, "leave")
  BY <1>1, <1>2, <1>4, EntersWalk, LocalKeeps DEF signalVars, IInv, TypeOK
<1> QED
  BY <1>3, <1>4 DEF Write

LEMMA OpenSessionKeeps == ASSUME IInv, NEW c \in Conn, OpenSession(c) PROVE IInv'
<1>1. pc[c] \in Outside /\ "reply" \in Outside
  BY DEF OpenSession, Outside
<1>2. UNCHANGED <<authed, field, signalVars, dispatch, heard>>
  BY DEF OpenSession
<1>3. CASE ReplaceListeners(c)
  BY <1>1, <1>2, <1>3, EntersWalk, LocalKeeps DEF ReplaceListeners, signalVars, IInv, TypeOK
<1>4. CASE Goto(c, "reply") /\ UNCHANGED at
  BY <1>1, <1>2, <1>4, StaysOutside, LocalKeeps DEF signalVars, IInv, TypeOK
<1> QED
  BY <1>3, <1>4 DEF OpenSession

LEMMA HandleKeeps == ASSUME IInv, NEW c \in Conn, Handle(c) PROVE IInv'
<1>1. pc[c] \in Outside /\ "reply" \in Outside /\ "session" \in Outside
  BY DEF Handle, Outside
<1>2. UNCHANGED <<field, signalVars, heard>>
  BY DEF Handle
<1>3. \A known \in BOOLEAN : SetUser(c, known) => authed' \in [Conn -> BOOLEAN]
  BY DEF SetUser, IInv, TypeOK
<1>4. UNCHANGED authed => authed' \in [Conn -> BOOLEAN]
  BY DEF IInv, TypeOK
<1>5. TRUE \in BOOLEAN /\ FALSE \in BOOLEAN /\ \A k : Publish(k) => k \in Kind
  BY DEF Publish
<1>6. CASE ResumeSession(c)
  BY <1>1, <1>2, <1>3, <1>6, EntersWalk, LocalKeeps DEF ResumeSession, ReplaceListeners, signalVars
<1>7. ASSUME NEW place \in {"reply", "session"}, Goto(c, place), UNCHANGED at,
             authed' \in [Conn -> BOOLEAN],
             UNCHANGED dispatch \/ \E k \in Kind : Publish(k)
      PROVE  IInv'
  BY <1>1, <1>2, <1>7, StaysOutside, LocalKeeps DEF signalVars
<1>8. CASE Answer(c)
  BY <1>4, <1>7, <1>8 DEF Answer
<1>9. CASE Register(c)
  BY <1>3, <1>5, <1>7, <1>9 DEF Register
<1>10. CASE Login(c)
  BY <1>3, <1>5, <1>7, <1>10 DEF Login
<1>11. CASE PostMessage(c) \/ CreateChannel(c) \/ RenameChannel(c)
  BY <1>4, <1>5, <1>7, <1>11 DEF PostMessage, CreateChannel, RenameChannel, PublishRequest
<1>12. CASE Logout(c)
  BY <1>3, <1>5, <1>7, <1>12 DEF Logout
<1> QED
  BY <1>6, <1>8, <1>9, <1>10, <1>11, <1>12 DEF Handle

-----------------------------------------------------------------------------
(* The walks. *)

(* Add and Remove wait for the lock, so the slice of a dispatch that sends *)
(* stays as it is.                                                         *)
LEMMA SlicesChange ==
  ASSUME IInv, NEW k \in Kind, listeners' = listeners \/ LockFree(k),
         \A l \in Kind : l # k => listeners'[l] = listeners[l],
         UNCHANGED <<mutex, pos, dispatch, heard>>
  PROVE  LocksFit' /\ LogsFit' /\ ToldOnce'
<1>1. LocksFit' /\ ToldOnce'
  BY DEF IInv, LocksFit, ToldOnce
<1>2. ASSUME NEW e, NEW c, HasPassed(e, c)
      PROVE  HasPassed(e, c)' /\ dispatch'[e] = dispatch[e]
  <2>1. e \in DOMAIN dispatch /\ dispatch[e].phase # "wait"
    BY <1>2 DEF HasPassed
  <2>2. e # Unlocked /\ dispatch[e].kind \in Kind
    <3>1. dispatch[e] \in Dispatches /\ e \in 1..Len(dispatch)
      BY <2>1, LenProperties, ElementOfSeq DEF IInv, TypeOK
    <3> QED
      BY <3>1 DEF Dispatches, Unlocked
  <2>3. dispatch[e].phase = "send" => listeners'[dispatch[e].kind] = listeners[dispatch[e].kind]
    BY <2>1, <2>2 DEF IInv, LocksFit, LockFree
  <2> QED
    BY <1>2, <2>3 DEF HasPassed
<1>3. LogsFit'
  BY <1>2, LogsKeep
<1> QED
  BY <1>1, <1>3

(* What NextSignal does at station p. *)
LEMMA NextSignalSteps ==
  ASSUME IInv, NEW c \in Conn, NEW p \in Stations, at[c] = p, NextSignal(c),
         pc[c] \in {"detach", "attach", "leave"}
  PROVE  /\ pc' \in [Conn -> Places] /\ at' \in [Conn -> 0..Len(SignalOrder)]
         /\ \A d \in Conn : d # c => pc'[d] = pc[d] /\ at'[d] = at[d]
         /\ \/ p < Len(SignalOrder) /\ at'[c] = p + 1 /\ p + 1 \in Stations /\ pc'[c] = pc[c]
            \/ p = Len(SignalOrder) /\ pc[c] = "detach" /\ pc'[c] = "attach" /\ at'[c] = 1
            \/ p = Len(SignalOrder) /\ pc[c] = "attach" /\ pc'[c] = "reply"
            \/ p = Len(SignalOrder) /\ pc[c] = "leave" /\ pc'[c] = "ended"
<1>1. PICK n \in Nat : n = Len(SignalOrder) /\ n >= 2 /\ Stations = 1..n
  BY StationsAreSignals DEF Stations
<1>2. CASE p < n /\ at' = [at EXCEPT ![c] = p + 1] /\ UNCHANGED pc
  <2>1. p + 1 \in 1..n /\ p + 1 \in 0..n
    BY <1>1, <1>2
  <2> QED
    BY <1>1, <1>2, <2>1 DEF IInv, TypeOK
<1>3. CASE /\ p = n
           /\ at' = [at EXCEPT ![c] = IF pc[c] = "detach" THEN 1 ELSE 0]
           /\ Goto(c, AfterWalk[pc[c]])
  <2>1. AfterWalk[pc[c]] \in Places
    BY DEF AfterWalk, Places
  <2>2. /\ pc' \in [Conn -> Places] /\ pc'[c] = AfterWalk[pc[c]]
        /\ \A d \in Conn : d # c => pc'[d] = pc[d]
    BY <1>3, <2>1 DEF Goto, IInv, TypeOK
  <2>3. 0 \in 0..n /\ 1 \in 0..n
    BY <1>1
  <2>4. /\ at' \in [Conn -> 0..n]
        /\ pc[c] = "detach" => at'[c] = 1
        /\ \A d \in Conn : d # c => at'[d] = at[d]
    BY <1>1, <1>3, <2>3 DEF IInv, TypeOK
  <2> QED
    BY <1>1, <1>3, <2>2, <2>4 DEF AfterWalk
<1> QED
  BY <1>1, <1>2, <1>3 DEF NextSignal

(* Remove at station p: the channel that c has there is listed no more. *)
LEMMA RemoveListenerKeeps ==
  ASSUME IInv, NEW c \in Conn, NEW k \in Kind, RemoveListenerOf(c, k)
  PROVE  IInv'
<1>1. PICK p \in Stations : p = at[c] /\ SignalOrder[p] = k
  BY StationsAreSignals DEF RemoveListenerOf, Reaches
<1>2. /\ pc[c] \in {"detach", "leave"} /\ NextSignal(c)
      /\ UNCHANGED <<authed, field, mutex, pos, dispatch, heard>>
  BY DEF RemoveListenerOf
<1>3. PICK f \in 0..MaxLogins : f = field[c][k]
  BY DEF IInv, TypeOK
<1>4. /\ listeners' \in [Kind -> Seq(Channels)]
      /\ IsInjective(listeners'[k])
      /\ Range(listeners'[k]) = Range(listeners[k]) \ {<<c, f>>}
      /\ \A l \in Kind : l # k => listeners'[l] = listeners[l]
      /\ listeners' = listeners \/ LockFree(k)
  <2>1. listeners[k] \in Seq(Channels) /\ IsInjective(listeners[k])
    BY DEF IInv, TypeOK, ListsFit
  <2>2. CASE f = 0 /\ listeners' = listeners
    <3>1. <<c, f>> \notin Range(listeners[k])
      BY <1>1, <1>2, <1>3, <2>2 DEF IInv, WalkFits, Listed
    <3> QED
      BY <2>1, <2>2, <3>1 DEF IInv, TypeOK
  <2>3. CASE /\ LockFree(k)
             /\ listeners' = [listeners EXCEPT ![k] = RemoveListener(@, <<c, f>>)]
    <3>1. /\ RemoveListener(listeners[k], <<c, f>>) \in Seq(Channels)
          /\ Range(RemoveListener(listeners[k], <<c, f>>)) = Range(listeners[k]) \ {<<c, f>>}
          /\ IsInjective(RemoveListener(listeners[k], <<c, f>>))
      BY <2>1, RemoveListenerLemma
    <3> QED
      BY <2>3, <3>1 DEF IInv, TypeOK
  <2> QED
    BY <1>3, <2>2, <2>3 DEF RemoveListenerOf
<1>5. /\ pc' \in [Conn -> Places] /\ at' \in [Conn -> 0..Len(SignalOrder)]
      /\ \A d \in Conn : d # c => pc'[d] = pc[d] /\ at'[d] = at[d]
      /\ \/ p < Len(SignalOrder) /\ at'[c] = p + 1 /\ p + 1 \in Stations /\ pc'[c] = pc[c]
         \/ p = Len(SignalOrder) /\ pc[c] = "detach" /\ pc'[c] = "attach" /\ at'[c] = 1
         \/ p = Len(SignalOrder) /\ pc[c] = "leave" /\ pc'[c] = "ended"
  BY <1>1, <1>2, NextSignalSteps
<1>6. TypeOK'
  BY <1>2, <1>4, <1>5 DEF IInv, TypeOK
<1>7. ListsFit'
  <2>1. \A l \in Kind : Range(listeners'[l]) \subseteq Range(listeners[l])
    BY <1>4
  <2>2. \A l \in Kind : IsInjective(listeners'[l])
    BY <1>4 DEF IInv, ListsFit
  <2> QED
    BY <1>2, <2>1, <2>2 DEF IInv, ListsFit
<1>8. \A i \in Stations : Listed(c, SignalOrder[i])' <=> i # p /\ Listed(c, SignalOrder[i])
  <2> TAKE i \in Stations
  <2>1. CASE i = p
    BY <1>1, <1>2, <1>3, <1>4, <2>1 DEF Listed
  <2>2. CASE i # p
    <3>1. SignalOrder[i] # k /\ SignalOrder[i] \in Kind
      BY <1>1, <2>2, StationsAreSignals
    <3> QED
      BY <1>2, <1>4, <2>2, <3>1 DEF Listed
  <2> QED
    BY <2>1, <2>2
<1>9. \A i \in Stations : Listed(c, SignalOrder[i])' <=> i > p /\ field[c][SignalOrder[i]] # 0
  BY <1>1, <1>2, <1>8 DEF IInv, WalkFits, Stations
<1>10. WalkFits(c)'
  <2>1. NilAlike(c)' /\ (pc[c] = "detach" => \A l \in Kind : field'[c][l] < MaxLogins)
    BY <1>2 DEF IInv, WalkFits, NilAlike
  <2>2. CASE p < Len(SignalOrder) /\ at'[c] = p + 1 /\ p + 1 \in Stations /\ pc'[c] = pc[c]
    <3>1. \A i \in Stations : i > p <=> i >= p + 1
      BY DEF Stations
    <3> QED
      BY <1>2, <1>9, <2>1, <2>2, <3>1 DEF WalkFits, Outside
  <2>3. CASE p = Len(SignalOrder) /\ pc'[c] \in {"attach", "ended"}
             /\ (pc'[c] = "attach" => pc[c] = "detach" /\ at'[c] = 1)
    <3>1. /\ \A i \in Stations : ~ (i > p) /\ ~ (i < 1)
          /\ 1 \in Stations
      BY <2>3, StationsAreSignals DEF Stations
    <3>2. \A l \in Kind : ~ Listed(c, l)'
      BY <1>9, <3>1, StationsAreSignals
    <3> QED
      BY <2>1, <2>3, <3>1, <3>2, StationsAreSignals DEF WalkFits, Outside
  <2> QED
    BY <1>5, <2>2, <2>3
<1>11. \A d \in Conn : WalkFits(d)'
  <2>1. ASSUME NEW d \in Conn, d # c PROVE WalkFits(d)'
    <3>1. \A l \in Kind, n \in 0..MaxLogins :
            <<d, n>> \in Range(listeners'[l]) <=> <<d, n>> \in Range(listeners[l])
      BY <1>4, <2>1
    <3> QED
      BY <1>2, <1>5, <2>1, <3>1, OthersFit DEF IInv
  <2> QED
    BY <1>10, <2>1
<1> QED
  BY <1>2, <1>4, <1>6, <1>7, <1>11, SlicesChange DEF IInv

(* Add at station p: a new channel is listed there, in the field of c. *)
LEMMA AddListenerKeeps ==
  ASSUME IInv, NEW c \in Conn, NEW k \in Kind, AddListenerOf(c, k)
  PROVE  IInv'
<1>1. PICK p \in Stations : p = at[c] /\ SignalOrder[p] = k
  BY StationsAreSignals DEF AddListenerOf, Reaches
<1>2. /\ pc[c] = "attach" /\ NextSignal(c) /\ LockFree(k)
      /\ UNCHANGED <<authed, mutex, pos, dispatch, heard>>
  BY DEF AddListenerOf
<1>3. PICK f \in 0..MaxLogins : f = field[c][k]
  BY DEF IInv, TypeOK
<1>4. f < MaxLogins /\ f + 1 \in 1..MaxLogins
  <2>1. p >= at[c]
    BY <1>1 DEF Stations
  <2>2. f < MaxLogins
    BY <1>1, <1>2, <1>3, <2>1 DEF IInv, WalkFits
  <2> QED
    BY <2>2, BoundsAssumption
<1>5. <<c, f + 1>> \notin Range(listeners[k])
  BY <1>3, <1>4 DEF IInv, ListsFit
<1>6. /\ listeners' \in [Kind -> Seq(Channels)]
      /\ IsInjective(listeners'[k])
      /\ Range(listeners'[k]) = Range(listeners[k]) \cup {<<c, f + 1>>}
      /\ \A l \in Kind : l # k => listeners'[l] = listeners[l]
  <2>1. /\ listeners[k] \in Seq(Channels) /\ IsInjective(listeners[k])
        /\ <<c, f + 1>> \in Channels
    BY <1>4 DEF IInv, TypeOK, ListsFit, Channels
  <2>2. ASSUME NEW x \in Channels, x \notin Range(listeners[k])
        PROVE  /\ AddListener(listeners[k], x) \in Seq(Channels)
               /\ Range(AddListener(listeners[k], x)) = Range(listeners[k]) \cup {x}
               /\ IsInjective(AddListener(listeners[k], x))
    BY <2>1, <2>2, AddListenerLemma
  <2>3. listeners' = [listeners EXCEPT ![k] = AddListener(listeners[k], <<c, f + 1>>)]
    BY <1>3 DEF AddListenerOf, IInv, TypeOK
  <2>4. /\ AddListener(listeners[k], <<c, f + 1>>) \in Seq(Channels)
        /\ Range(AddListener(listeners[k], <<c, f + 1>>)) = Range(listeners[k]) \cup {<<c, f + 1>>}
        /\ IsInjective(AddListener(listeners[k], <<c, f + 1>>))
    BY <1>5, <2>1, <2>2
  <2> QED
    BY <2>3, <2>4 DEF IInv, TypeOK
<1>7. /\ field' \in [Conn -> [Kind -> 0..MaxLogins]]
      /\ field'[c][k] = f + 1
      /\ \A l \in Kind : l # k => field'[c][l] = field[c][l]
      /\ \A d \in Conn : d # c => field'[d] = field[d]
  <2>1. field' = [field EXCEPT ![c] = [field[c] EXCEPT ![k] = f + 1]]
    BY <1>3 DEF AddListenerOf, IInv, TypeOK
  <2>2. f + 1 \in 0..MaxLogins
    BY <1>4
  <2> QED
    BY <2>1, <2>2 DEF IInv, TypeOK
<1>8. /\ pc' \in [Conn -> Places] /\ at' \in [Conn -> 0..Len(SignalOrder)]
      /\ \A d \in Conn : d # c => pc'[d] = pc[d] /\ at'[d] = at[d]
      /\ \/ p < Len(SignalOrder) /\ at'[c] = p + 1 /\ p + 1 \in Stations /\ pc'[c] = pc[c]
         \/ p = Len(SignalOrder) /\ pc'[c] = "reply"
  BY <1>1, <1>2, NextSignalSteps
<1>9. TypeOK'
  BY <1>2, <1>6, <1>7, <1>8 DEF IInv, TypeOK
<1>10. ListsFit'
  <2>1. ASSUME NEW l \in Kind PROVE IsInjective(listeners'[l])
    BY <1>6 DEF IInv, ListsFit
  <2>2. ASSUME NEW l \in Kind, NEW d \in Conn, NEW n \in 1..MaxLogins,
               <<d, n>> \in Range(listeners'[l])
        PROVE  n = field'[d][l]
    <3>1. CASE l = k /\ d = c
      <4>1. <<c, n>> \in Range(listeners[k]) => n = f /\ <<c, f>> \in Range(listeners[k])
        BY <1>3 DEF IInv, ListsFit
      <4>2. p >= at[c]
        BY <1>1 DEF Stations
      <4>3. <<c, f>> \notin Range(listeners[k])
        BY <1>1, <1>2, <1>3, <4>2 DEF IInv, WalkFits, Listed
      <4> QED
        BY <1>6, <1>7, <2>2, <3>1, <4>1, <4>3
    <3>2. CASE l # k \/ d # c
      <4>1. <<d, n>> \in Range(listeners[l])
        BY <1>6, <2>2, <3>2
      <4> QED
        BY <1>7, <3>2, <4>1 DEF IInv, ListsFit
    <3> QED
      BY <3>1, <3>2
  <2> QED
    BY <2>1, <2>2 DEF ListsFit
<1>11. /\ Listed(c, k)'
       /\ \A l \in Kind : l # k => (Listed(c, l)' <=> Listed(c, l))
  BY <1>6, <1>7 DEF Listed
<1>12. \A i \in Stations : i # p => SignalOrder[i] \in Kind /\ SignalOrder[i] # k
  BY <1>1, StationsAreSignals
<1>13. /\ \A i \in Stations : i < p + 1 =>
            Listed(c, SignalOrder[i])' /\ field'[c][SignalOrder[i]] # 0
       /\ \A i \in Stations : i >= p + 1 =>
            ~ Listed(c, SignalOrder[i])' /\ field'[c][SignalOrder[i]] < MaxLogins
  <2>1. ASSUME NEW i \in Stations, i < p + 1
        PROVE  Listed(c, SignalOrder[i])' /\ field'[c][SignalOrder[i]] # 0
    <3>1. CASE i = p
      BY <1>1, <1>7, <1>11, <3>1
    <3>2. CASE i # p
      <4>1. i < p
        BY <2>1, <3>2 DEF Stations
      <4> QED
        BY <1>1, <1>2, <1>7, <1>11, <1>12, <3>2, <4>1 DEF IInv, WalkFits
    <3> QED
      BY <3>1, <3>2
  <2>2. ASSUME NEW i \in Stations, i >= p + 1
        PROVE  ~ Listed(c, SignalOrder[i])' /\ field'[c][SignalOrder[i]] < MaxLogins
    <3>1. i # p /\ i >= p
      BY <2>2 DEF Stations
    <3> QED
      BY <1>1, <1>2, <1>7, <1>11, <1>12, <3>1 DEF IInv, WalkFits
  <2> QED
    BY <2>1, <2>2
<1>14. WalkFits(c)'
  <2>1. CASE p < Len(SignalOrder) /\ at'[c] = p + 1 /\ p + 1 \in Stations /\ pc'[c] = pc[c]
    BY <1>2, <1>13, <2>1 DEF WalkFits, Outside
  <2>2. CASE p = Len(SignalOrder) /\ pc'[c] = "reply"
    <3>1. \A i \in Stations : i < p + 1
      BY <2>2, StationsAreSignals DEF Stations
    <3>2. \A l \in Kind : Listed(c, l)' /\ field'[c][l] # 0
      BY <1>13, <3>1, StationsAreSignals
    <3> QED
      BY <2>2, <3>2 DEF WalkFits, Outside, NilAlike
  <2> QED
    BY <1>8, <2>1, <2>2
<1>15. \A d \in Conn : WalkFits(d)'
  <2>1. ASSUME NEW d \in Conn, d # c PROVE WalkFits(d)'
    <3>1. \A l \in Kind, n \in 0..MaxLogins :
            <<d, n>> \in Range(listeners'[l]) <=> <<d, n>> \in Range(listeners[l])
      <4> TAKE l \in Kind, n \in 0..MaxLogins
      <4>1. <<d, n>> # <<c, f + 1>>
        BY <2>1
      <4> QED
        BY <1>6, <4>1
    <3> QED
      BY <1>7, <1>8, <2>1, <3>1, OthersFit DEF IInv
  <2> QED
    BY <1>14, <2>1
<1> QED
  BY <1>2, <1>6, <1>9, <1>10, <1>15, SlicesChange DEF IInv

-----------------------------------------------------------------------------
(* The dispatches. *)

(* What is known of a dispatch. *)
LEMMA DispatchFacts ==
  ASSUME IInv, NEW e \in DOMAIN dispatch
  PROVE  /\ e \in 1..Len(dispatch) /\ e \in 1..MaxDispatches /\ e # Unlocked
         /\ dispatch[e] \in Dispatches
         /\ dispatch[e].kind \in Kind
<1>1. Len(dispatch) \in Nat /\ e \in 1..Len(dispatch) /\ dispatch[e] \in Dispatches
  BY LenProperties, ElementOfSeq DEF IInv, TypeOK
<1>2. Len(dispatch) <= MaxDispatches
  BY DEF IInv, LocksFit
<1> QED
  BY <1>1, <1>2, BoundsAssumption DEF Dispatches, Unlocked

(* A step of a dispatch from one phase to the next. *)
LEMMA PhaseChanges ==
  ASSUME IInv, NEW e \in DOMAIN dispatch, NEW phase \in {"send", "done"},
         dispatch' = [dispatch EXCEPT ![e].phase = phase]
  PROVE  /\ dispatch' \in Seq(Dispatches) /\ Len(dispatch') = Len(dispatch)
         /\ DOMAIN dispatch' = DOMAIN dispatch
         /\ dispatch'[e].kind = dispatch[e].kind /\ dispatch'[e].phase = phase
         /\ \A d \in DOMAIN dispatch : d # e => dispatch'[d] = dispatch[d]
<1> DEFINE r == [dispatch[e] EXCEPT !.phase = phase]
<1>1. e \in 1..Len(dispatch) /\ dispatch[e] \in Dispatches /\ dispatch \in Seq(Dispatches)
  BY DispatchFacts DEF IInv, TypeOK
<1>2. r \in Dispatches /\ r.kind = dispatch[e].kind /\ r.phase = phase
  BY <1>1 DEF Dispatches
<1> HIDE DEF r
<1>3. dispatch' = [dispatch EXCEPT ![e] = r]
  BY DEF r
<1>4. /\ dispatch' \in Seq(Dispatches) /\ Len(dispatch') = Len(dispatch)
      /\ \A j \in 1..Len(dispatch) : dispatch'[j] = IF j = e THEN r ELSE dispatch[j]
  BY <1>1, <1>2, <1>3, ExceptSeq
<1> QED
  BY <1>1, <1>2, <1>4, LenProperties

(* The steps of a dispatch change no walk but that of the one it tells. *)
LEMMA AcquireKeeps ==
  ASSUME IInv, NEW e \in DOMAIN dispatch, Acquire(e)
  PROVE  IInv'
<1>1. PICK k \in Kind : k = dispatch[e].kind
  BY DispatchFacts
<1>2. /\ dispatch[e].phase = "wait" /\ mutex[k] = Unlocked
      /\ mutex' = [mutex EXCEPT ![k] = e] /\ pos' = [pos EXCEPT ![k] = 1]
      /\ UNCHANGED <<authed, pc, at, field, listeners, heard>>
  BY <1>1 DEF Acquire, LockFree, connVars
<1>3. /\ dispatch' \in Seq(Dispatches) /\ Len(dispatch') = Len(dispatch)
      /\ DOMAIN dispatch' = DOMAIN dispatch
      /\ dispatch'[e].kind = k /\ dispatch'[e].phase = "send"
      /\ \A d \in DOMAIN dispatch : d # e => dispatch'[d] = dispatch[d]
  BY <1>1, PhaseChanges DEF Acquire
<1>4. e \in 0..MaxDispatches /\ e # Unlocked /\ \A d \in DOMAIN dispatch : d # Unlocked
  BY DispatchFacts
<1>5. /\ mutex' \in [Kind -> 0..MaxDispatches] /\ pos' \in [Kind -> Nat]
      /\ mutex'[k] = e
      /\ \A l \in Kind : l # k => mutex'[l] = mutex[l] /\ pos'[l] = pos[l]
  BY <1>2, <1>4 DEF IInv, TypeOK
<1>6. TypeOK'
  BY <1>2, <1>3, <1>5 DEF IInv, TypeOK
<1>7. LocksFit'
  <2>1. \A d \in DOMAIN dispatch : dispatch[d].kind \in Kind
    BY DispatchFacts
  <2>2. \A d \in DOMAIN dispatch : d # e =>
          (dispatch'[d].phase = "send" <=> mutex'[dispatch'[d].kind] = d)
    BY <1>2, <1>3, <1>4, <1>5, <2>1 DEF IInv, LocksFit
  <2> QED
    BY <1>3, <1>5, <2>2 DEF IInv, LocksFit
<1>8. LogsFit'
  <2>1. ASSUME NEW d, NEW c, HasPassed(d, c)
        PROVE  HasPassed(d, c)' /\ dispatch'[d].kind = dispatch[d].kind
    <3>1. d \in DOMAIN dispatch /\ d # e /\ dispatch[d].kind \in Kind
      BY <1>2, <2>1, DispatchFacts DEF HasPassed
    <3>2. dispatch[d].phase = "send" => dispatch[d].kind # k
      BY <1>2, <1>4, <3>1 DEF IInv, LocksFit
    <3> QED
      BY <1>2, <1>3, <1>5, <2>1, <3>1, <3>2 DEF HasPassed
  <2> QED
    BY <1>2, <2>1, LogsKeep
<1>9. \A d \in Conn : WalkFits(d)'
  BY <1>2, OthersFit DEF IInv
<1> QED
  BY <1>2, <1>6, <1>7, <1>8, <1>9 DEF IInv, ListsFit, ToldOnce

LEMMA ReleaseKeeps ==
  ASSUME IInv, NEW e \in DOMAIN dispatch, Release(e)
  PROVE  IInv'
<1>1. PICK k \in Kind : k = dispatch[e].kind
  BY DispatchFacts
<1>2. /\ dispatch[e].phase = "send" /\ mutex[k] = e
      /\ mutex' = [mutex EXCEPT ![k] = Unlocked] /\ pos' = [pos EXCEPT ![k] = 0]
      /\ UNCHANGED <<authed, pc, at, field, listeners, heard>>
  BY <1>1 DEF Release, connVars, IInv, LocksFit
<1>3. /\ dispatch' \in Seq(Dispatches) /\ Len(dispatch') = Len(dispatch)
      /\ DOMAIN dispatch' = DOMAIN dispatch
      /\ dispatch'[e].kind = k /\ dispatch'[e].phase = "done"
      /\ \A d \in DOMAIN dispatch : d # e => dispatch'[d] = dispatch[d]
  BY <1>1, PhaseChanges DEF Release
<1>4. Unlocked \in 0..MaxDispatches /\ \A d \in DOMAIN dispatch : d # Unlocked
  BY DispatchFacts, BoundsAssumption DEF Unlocked
<1>5. /\ mutex' \in [Kind -> 0..MaxDispatches] /\ pos' \in [Kind -> Nat]
      /\ mutex'[k] = Unlocked
      /\ \A l \in Kind : l # k => mutex'[l] = mutex[l] /\ pos'[l] = pos[l]
  BY <1>2, <1>4 DEF IInv, TypeOK
<1>6. TypeOK'
  BY <1>2, <1>3, <1>5 DEF IInv, TypeOK
<1>7. LocksFit'
  <2>1. \A d \in DOMAIN dispatch : dispatch[d].kind \in Kind
    BY DispatchFacts
  <2>2. \A d \in DOMAIN dispatch : d # e =>
          (dispatch'[d].phase = "send" <=> mutex'[dispatch'[d].kind] = d)
    BY <1>2, <1>3, <1>4, <1>5, <2>1 DEF IInv, LocksFit
  <2>3. mutex'[k] # e
    BY <1>4, <1>5
  <2> QED
    BY <1>3, <1>5, <2>2, <2>3 DEF IInv, LocksFit
<1>8. LogsFit'
  <2>1. ASSUME NEW d, NEW c, HasPassed(d, c)
        PROVE  HasPassed(d, c)' /\ dispatch'[d].kind = dispatch[d].kind
    <3>1. d \in DOMAIN dispatch /\ dispatch[d].kind \in Kind
      BY <2>1, DispatchFacts DEF HasPassed
    <3>2. CASE d = e
      BY <1>1, <1>3, <3>1, <3>2 DEF HasPassed
    <3>3. CASE d # e
      <4>1. dispatch'[d] = dispatch[d] /\ DOMAIN dispatch' = DOMAIN dispatch
        BY <1>3, <3>1, <3>3
      <4>2. dispatch[d].phase = "send" => dispatch[d].kind # k
        BY <1>2, <3>1, <3>3 DEF IInv, LocksFit
      <4> QED
        BY <1>2, <1>5, <2>1, <3>1, <4>1, <4>2 DEF HasPassed
    <3> QED
      BY <3>2, <3>3
  <2> QED
    BY <1>2, <2>1, LogsKeep
<1>9. \A d \in Conn : WalkFits(d)'
  BY <1>2, OthersFit DEF IInv
<1> QED
  BY <1>2, <1>6, <1>7, <1>8, <1>9 DEF IInv, ListsFit, ToldOnce

(* The one that a dispatch serves was not served by it before: its channel *)
(* is listed once, and it has one channel in the slice.                    *)
LEMMA SendKeeps ==
  ASSUME IInv, NEW e \in DOMAIN dispatch, Send(e)
  PROVE  IInv'
<1>1. PICK k \in Kind : k = dispatch[e].kind
  BY DispatchFacts
<1>2. /\ dispatch[e].phase = "send" /\ pos[k] \in DOMAIN listeners[k] /\ mutex[k] = e
  BY <1>1 DEF Send, IInv, LocksFit
<1>3. listeners[k] \in Seq(Channels)
  BY DEF IInv, TypeOK
<1>4. PICK q \in Nat : q = pos[k] /\ q \in DOMAIN listeners[k]
  BY <1>2 DEF IInv, TypeOK
<1>5. PICK c \in Conn, n \in 1..MaxLogins :
        listeners[k][q] = <<c, n>> /\ listeners[k][q][1] = c /\ listeners[k][q][2] = n
  <2>1. listeners[k][q] \in Channels
    BY <1>3, <1>4, ElementOfSeq, LenProperties
  <2> QED
    BY <2>1 DEF Channels
<1>6. /\ pc[c] = "select" /\ field[c][k] = n /\ Goto(c, "notify")
      /\ heard' = [heard EXCEPT ![k] =
                     [heard[k] EXCEPT ![<<c, n>>] = Append(heard[k][<<c, n>>], e)]]
      /\ pos' = [pos EXCEPT ![k] = q + 1]
      /\ UNCHANGED <<authed, at, field, listeners, mutex, dispatch>>
  BY <1>1, <1>4, <1>5 DEF Send, IInv, TypeOK
<1>7. PICK m \in Nat : m = Len(heard[k][<<c, n>>]) /\ DOMAIN heard[k][<<c, n>>] = 1..m
  <2>1. <<c, n>> \in Channels
    BY DEF Channels
  <2> QED
    BY <2>1, LenProperties DEF IInv, TypeOK
<1>8. /\ heard' \in [Kind -> [Channels -> Seq(1..MaxDispatches)]]
      /\ DOMAIN heard'[k][<<c, n>>] = 1..(m + 1)
      /\ heard'[k][<<c, n>>][m + 1] = e
      /\ \A i \in 1..m : heard'[k][<<c, n>>][i] = heard[k][<<c, n>>][i]
      /\ \A l \in Kind, b \in Conn, o \in 1..MaxLogins :
           l # k \/ b # c \/ o # n => heard'[l][<<b, o>>] = heard[l][<<b, o>>]
  <2>1. /\ heard[k] \in [Channels -> Seq(1..MaxDispatches)]
        /\ \A b \in Conn, o \in 1..MaxLogins : <<b, o>> \in Channels
        /\ e \in 1..MaxDispatches
    BY DispatchFacts DEF IInv, TypeOK, Channels
  <2>2. PICK s \in Seq(1..MaxDispatches) : s = Append(heard[k][<<c, n>>], e)
    BY <2>1, AppendProperties
  <2>3. /\ DOMAIN s = 1..(m + 1)
        /\ s[m + 1] = e
        /\ \A i \in 1..m : s[i] = heard[k][<<c, n>>][i]
    BY <1>7, <2>1, <2>2, AppendProperties, LenProperties
  <2>4. PICK h \in [Channels -> Seq(1..MaxDispatches)] :
          h = [heard[k] EXCEPT ![<<c, n>>] = s]
    BY <2>1
  <2>5. /\ h[<<c, n>>] = s
        /\ \A b \in Conn, o \in 1..MaxLogins :
             b # c \/ o # n => h[<<b, o>>] = heard[k][<<b, o>>]
    BY <2>1, <2>4
  <2>6. /\ heard' = [heard EXCEPT ![k] = h] /\ heard'[k] = h
        /\ heard' \in [Kind -> [Channels -> Seq(1..MaxDispatches)]]
        /\ \A l \in Kind : l # k => heard'[l] = heard[l]
    BY <1>6, <2>2, <2>4 DEF IInv, TypeOK
  <2>7. DOMAIN heard'[k][<<c, n>>] = 1..(m + 1) /\ heard'[k][<<c, n>>][m + 1] = e
    BY <2>3, <2>6, <2>5
  <2>8. \A i \in 1..m : heard'[k][<<c, n>>][i] = heard[k][<<c, n>>][i]
    BY <2>3, <2>6, <2>5
  <2>9. ASSUME NEW l \in Kind, NEW b \in Conn, NEW o \in 1..MaxLogins, l # k \/ b # c \/ o # n
        PROVE  heard'[l][<<b, o>>] = heard[l][<<b, o>>]
    <3>1. CASE l = k
      BY <2>6, <2>5, <2>9, <3>1
    <3>2. CASE l # k
      BY <2>6, <3>2
    <3> QED
      BY <3>1, <3>2
  <2> QED
    BY <2>6, <2>7, <2>8, <2>9
<1>9. /\ pos' \in [Kind -> Nat] /\ pos'[k] = q + 1
      /\ \A l \in Kind : l # k => pos'[l] = pos[l]
  <2>1. q + 1 \in Nat /\ pos \in [Kind -> Nat]
    BY DEF IInv, TypeOK
  <2> QED
    BY <1>6, <2>1
<1>10. /\ pc' \in [Conn -> Places] /\ at' \in [Conn -> 0..Len(SignalOrder)]
       /\ \A d \in Conn : WalkFits(d)'
  <2>1. pc[c] \in Outside /\ "notify" \in Outside
    BY <1>6 DEF Outside
  <2> QED
    BY <1>6, <2>1, StaysOutside
<1>11. TypeOK'
  BY <1>6, <1>8, <1>9, <1>10 DEF IInv, TypeOK
<1>12. LocksFit'
  BY <1>6 DEF IInv, LocksFit
<1>13. ASSUME NEW d, NEW b, HasPassed(d, b) PROVE HasPassed(d, b)'
  <2>1. d \in DOMAIN dispatch /\ dispatch[d].kind \in Kind
    BY <1>13, DispatchFacts DEF HasPassed
  <2>2. PICK l \in Kind : l = dispatch[d].kind
    BY <2>1
  <2>3. pos[l] \in Nat /\ pos'[l] \in Nat /\ pos'[l] >= pos[l]
    <3>1. CASE l = k
      BY <1>4, <1>9, <3>1
    <3>2. CASE l # k
      BY <1>9, <3>2 DEF IInv, TypeOK
    <3> QED
      BY <3>1, <3>2
  <2>4. ASSUME NEW j \in DOMAIN listeners[l], j < pos[l] PROVE j < pos'[l]
    <3>1. j \in Nat
      <4>1. listeners[l] \in Seq(Channels)
        BY DEF IInv, TypeOK
      <4> QED
        BY <4>1, LenProperties
    <3> QED
      BY <2>3, <2>4, <3>1
  <2> QED
    BY <1>6, <1>13, <2>2, <2>4 DEF HasPassed
<1>14. HasPassed(e, c)'
  BY <1>1, <1>2, <1>4, <1>5, <1>6, <1>9 DEF HasPassed
<1>15. ASSUME NEW l \in Kind, NEW b \in Conn, NEW o \in 1..MaxLogins,
              NEW i \in DOMAIN heard'[l][<<b, o>>]
       PROVE  \/ /\ i \in DOMAIN heard[l][<<b, o>>]
                 /\ heard'[l][<<b, o>>][i] = heard[l][<<b, o>>][i]
              \/ /\ l = k /\ b = c /\ o = n /\ i = m + 1
                 /\ heard'[l][<<b, o>>][i] = e
  <2>1. \A x \in 1..(m + 1) : x \in 1..m \/ x = m + 1
    OBVIOUS
  <2> QED
    BY <1>7, <1>8, <1>15, <2>1
<1>16. LogsFit'
  <2>1. ASSUME NEW l \in Kind, NEW b \in Conn, NEW o \in 1..MaxLogins,
               NEW i \in DOMAIN heard'[l][<<b, o>>]
        PROVE  (HasPassed(heard[l][<<b, o>>][i], b) /\ dispatch[heard[l][<<b, o>>][i]].kind = l)'
    <3>1. CASE /\ i \in DOMAIN heard[l][<<b, o>>]
               /\ heard'[l][<<b, o>>][i] = heard[l][<<b, o>>][i]
      <4>1. PICK d : d = heard[l][<<b, o>>][i]
        OBVIOUS
      <4>2. HasPassed(d, b) /\ dispatch[d].kind = l
        BY <3>1, <4>1 DEF IInv, LogsFit
      <4>3. (HasPassed(d, b) /\ dispatch[d].kind = l)'
        BY <1>6, <1>13, <4>2
      <4> QED
        BY <3>1, <4>1, <4>3 DEF HasPassed
    <3>2. CASE l = k /\ b = c /\ o = n /\ i = m + 1 /\ heard'[l][<<b, o>>][i] = e
      BY <1>1, <1>6, <1>14, <3>2 DEF HasPassed
    <3> QED
      BY <1>15, <2>1, <3>1, <3>2
  <2> QED
    BY <2>1 DEF LogsFit
<1>17. ASSUME NEW l \in Kind, NEW p \in 1..MaxLogins, NEW i \in DOMAIN heard[l][<<c, p>>]
       PROVE  heard[l][<<c, p>>][i] # e
  <2> SUFFICES ASSUME heard[l][<<c, p>>][i] = e PROVE FALSE
    OBVIOUS
  <2>1. HasPassed(e, c)
    BY <1>17 DEF IInv, LogsFit
  <2>2. PICK j \in DOMAIN listeners[k] : j < q /\ listeners[k][j][1] = c
    BY <1>1, <1>2, <1>4, <2>1 DEF HasPassed
  <2>3. PICK o \in 1..MaxLogins : listeners[k][j] = <<c, o>>
    <3>1. listeners[k][j] \in Channels
      BY <1>3, <2>2, ElementOfSeq, LenProperties
    <3> QED
      BY <2>2, <3>1 DEF Channels
  <2>4. o = n
    BY <1>6, <2>2, <2>3 DEF IInv, ListsFit, Range
  <2>5. j = q
    BY <1>4, <1>5, <2>2, <2>3, <2>4 DEF IInv, ListsFit, IsInjective
  <2>6. j \in Nat
    BY <1>3, <2>2, LenProperties
  <2> QED
    BY <2>2, <2>5, <2>6
<1>18. ToldOnce'
  <2>1. ASSUME NEW b \in Conn, NEW l1 \in Kind, NEW l2 \in Kind,
               NEW o1 \in 1..MaxLogins, NEW o2 \in 1..MaxLogins,
               NEW i \in DOMAIN heard'[l1][<<b, o1>>], NEW j \in DOMAIN heard'[l2][<<b, o2>>],
               heard'[l1][<<b, o1>>][i] = heard'[l2][<<b, o2>>][j]
        PROVE  l1 = l2 /\ o1 = o2 /\ i = j
    <3>1. CASE /\ i \in DOMAIN heard[l1][<<b, o1>>] /\ j \in DOMAIN heard[l2][<<b, o2>>]
               /\ heard'[l1][<<b, o1>>][i] = heard[l1][<<b, o1>>][i]
               /\ heard'[l2][<<b, o2>>][j] = heard[l2][<<b, o2>>][j]
      <4>1. heard[l1][<<b, o1>>][i] = heard[l2][<<b, o2>>][j]
        BY <2>1, <3>1
      <4>2. <<l1, o1, i>> = <<l2, o2, j>>
        BY <3>1, <4>1 DEF IInv, ToldOnce
      <4> QED
        BY <4>2
    <3>2. CASE /\ i \in DOMAIN heard[l1][<<b, o1>>]
               /\ heard'[l1][<<b, o1>>][i] = heard[l1][<<b, o1>>][i]
               /\ b = c /\ heard'[l2][<<b, o2>>][j] = e
      BY <1>17, <2>1, <3>2
    <3>3. CASE /\ j \in DOMAIN heard[l2][<<b, o2>>]
               /\ heard'[l2][<<b, o2>>][j] = heard[l2][<<b, o2>>][j]
               /\ b = c /\ heard'[l1][<<b, o1>>][i] = e
      BY <1>17, <2>1, <3>3
    <3>4. CASE /\ l1 = k /\ o1 = n /\ i = m + 1
               /\ l2 = k /\ o2 = n /\ j = m + 1
      BY <3>4
    <3>5. /\ \/ /\ i \in DOMAIN heard[l1][<<b, o1>>]
                /\ heard'[l1][<<b, o1>>][i] = heard[l1][<<b, o1>>][i]
             \/ /\ l1 = k /\ b = c /\ o1 = n /\ i = m + 1
                /\ heard'[l1][<<b, o1>>][i] = e
          /\ \/ /\ j \in DOMAIN heard[l2][<<b, o2>>]
                /\ heard'[l2][<<b, o2>>][j] = heard[l2][<<b, o2>>][j]
             \/ /\ l2 = k /\ b = c /\ o2 = n /\ j = m + 1
                /\ heard'[l2][<<b, o2>>][j] = e
      BY <1>15
    <3> QED
      BY <3>1, <3>2, <3>3, <3>4, <3>5
  <2> QED
    BY <2>1 DEF ToldOnce
<1> QED
  BY <1>6, <1>10, <1>11, <1>12, <1>16, <1>18 DEF IInv, ListsFit

-----------------------------------------------------------------------------
LEMMA Starts == Init => IInv
<1> SUFFICES ASSUME Init PROVE IInv
  OBVIOUS
<1>1. TypeOK
  <2>1. Len(SignalOrder) \in Nat /\ MaxLogins \in Nat /\ MaxDispatches \in Nat
    BY StationsAreSignals, BoundsAssumption
  <2>2. 0 \in 0..Len(SignalOrder) /\ 0 \in 0..MaxLogins /\ 0 \in 0..MaxDispatches
    BY <2>1
  <2>3. authed \in [Conn -> BOOLEAN]
    BY Zenon DEF Init
  <2>4. pc \in [Conn -> Places] /\ at \in [Conn -> 0..Len(SignalOrder)]
    BY <2>2 DEF Init, Places
  <2>5. field \in [Conn -> [Kind -> 0..MaxLogins]]
    BY <2>2 DEF Init
  <2>6. listeners \in [Kind -> Seq(Channels)]
    <3>1. << >> \in Seq(Channels)
      BY EmptySeq
    <3> QED
      BY <3>1, Zenon DEF Init
  <2>7. mutex \in [Kind -> 0..MaxDispatches] /\ pos \in [Kind -> Nat]
    BY <2>2 DEF Init, Unlocked
  <2>8. dispatch \in Seq(Dispatches)
    BY EmptySeq DEF Init
  <2>9. heard \in [Kind -> [Channels -> Seq(1..MaxDispatches)]]
    <3>1. << >> \in Seq(1..MaxDispatches)
      BY EmptySeq
    <3>2. [l \in Channels |-> << >>] \in [Channels -> Seq(1..MaxDispatches)]
      BY <3>1
    <3> QED
      BY <3>2, Zenon DEF Init
  <2> QED
    BY <2>3, <2>4, <2>5, <2>6, <2>7, <2>8, <2>9 DEF TypeOK
<1>2. \A k \in Kind : listeners[k] = << >> /\ DOMAIN listeners[k] = {}
  BY DEF Init
<1>3. \A k \in Kind : Range(listeners[k]) = {}
  BY <1>2 DEF Range
<1>4. ListsFit
  BY <1>2, <1>3 DEF ListsFit, IsInjective
<1>5. \A c \in Conn : WalkFits(c)
  BY <1>3 DEF Init, WalkFits, NilAlike, Listed
<1>6. LocksFit
  <2>1. Len(dispatch) = 0 /\ DOMAIN dispatch = {} /\ 0 <= MaxDispatches
    BY BoundsAssumption DEF Init
  <2> QED
    BY <2>1 DEF Init, LocksFit
<1>7. LogsFit /\ ToldOnce
  <2>1. \A k \in Kind, c \in Conn, n \in 1..MaxLogins : DOMAIN heard[k][<<c, n>>] = {}
    BY DEF Init, Channels
  <2> QED
    BY <2>1 DEF LogsFit, ToldOnce
<1> QED
  BY <1>1, <1>4, <1>5, <1>6, <1>7 DEF IInv

LEMMA Steps == IInv /\ [Next]_vars => IInv'
<1> SUFFICES ASSUME IInv, [Next]_vars PROVE IInv'
  OBVIOUS
<1>1. ASSUME NEW c \in Conn, TakeRequest(c) PROVE IInv'
  BY <1>1, TakeRequestKeeps
<1>2. ASSUME NEW c \in Conn, ReadError(c) PROVE IInv'
  BY <1>2, ReadErrorKeeps
<1>3. ASSUME NEW c \in Conn, Handle(c) PROVE IInv'
  BY <1>3, HandleKeeps
<1>4. ASSUME NEW c \in Conn, OpenSession(c) PROVE IInv'
  BY <1>4, OpenSessionKeeps
<1>5. ASSUME NEW c \in Conn, Write(c) PROVE IInv'
  BY <1>5, WriteKeeps
<1>6. ASSUME NEW c \in Conn, NEW k \in Kind, RemoveListenerOf(c, k) PROVE IInv'
  BY <1>6, RemoveListenerKeeps
<1>7. ASSUME NEW c \in Conn, NEW k \in Kind, AddListenerOf(c, k) PROVE IInv'
  BY <1>7, AddListenerKeeps
<1>8. ASSUME NEW e \in DOMAIN dispatch, Acquire(e) PROVE IInv'
  BY <1>8, AcquireKeeps
<1>9. ASSUME NEW e \in DOMAIN dispatch, Send(e) PROVE IInv'
  BY <1>9, SendKeeps
<1>10. ASSUME NEW e \in DOMAIN dispatch, Release(e) PROVE IInv'
  BY <1>10, ReleaseKeeps
<1>11. CASE UNCHANGED vars
  <2>1. UNCHANGED <<authed, pc, at, field, listeners, mutex, pos, dispatch, heard>>
    BY <1>11 DEF vars, connVars, signalVars
  <2>2. LogsFit'
    <3>1. \A e, c : HasPassed(e, c)' <=> HasPassed(e, c)
      BY <2>1 DEF HasPassed
    <3> QED
      BY <2>1, <3>1, LogsKeep
  <2>3. \A c \in Conn : WalkFits(c)'
    BY <2>1, OthersFit DEF IInv
  <2>4. TypeOK' /\ ListsFit'
    BY <2>1 DEF IInv, TypeOK, ListsFit
  <2>5. LocksFit' /\ ToldOnce'
    BY <2>1 DEF IInv, LocksFit, ToldOnce
  <2> QED
    BY <2>2, <2>3, <2>4, <2>5 DEF IInv
<1> QED
  BY <1>1, <1>2, <1>3, <1>4, <1>5, <1>6, <1>7, <1>8, <1>9, <1>10, <1>11
     DEF Next, Work, Walk

LEMMA Invariance == SafeSpec => []IInv
BY Starts, Steps, PTL DEF SafeSpec

(* The state of the goroutines of ws.go and of the signals is what the     *)
(* comments of ClientConn.tla say it is, in every behaviour.               *)
THEOREM TypeCorrect == SafeSpec => []TypeOK
<1>1. IInv => TypeOK
  BY DEF IInv
<1> QED
  BY <1>1, Invariance, PTL

(* addRepositoryListeners and removeRepositoryListeners visit one signal   *)
(* after another while others add, remove and dispatch; a connection that  *)
(* is not in one of them listens to all signals, with the channels of its  *)
(* fields, or to none, and to none when its goroutine has returned.        *)
THEOREM ListensToAll == SafeSpec => []ListensToAllOrNone
<1>1. IInv => ListensToAllOrNone
  <2> SUFFICES ASSUME IInv, NEW c \in Conn
               PROVE  /\ pc[c] \in Outside =>
                           /\ ListedOn(c) \in {{}, Kind}
                           /\ \A k \in ListedOn(c), n \in 1..MaxLogins :
                                <<c, n>> \in Range(listeners[k]) => n = field[c][k]
                      /\ pc[c] = "ended" => ListedOn(c) = {}
    BY DEF ListensToAllOrNone, Outside
  <2>1. WalkFits(c) /\ ListsFit /\ \A k \in Kind : field[c][k] \in 0..MaxLogins
    BY DEF IInv, TypeOK
  <2>2. \A k \in Kind : field[c][k] # 0 => field[c][k] \in 1..MaxLogins
    BY <2>1
  <2>3. \A k \in Kind : k \in ListedOn(c) => Listed(c, k)
    BY <2>1 DEF ListsFit, ListedOn, Listed
  <2>4. \A k \in Kind : Listed(c, k) /\ field[c][k] # 0 => k \in ListedOn(c)
    BY <2>2 DEF ListedOn, Listed
  <2>5. ListedOn(c) \subseteq Kind
    BY DEF ListedOn
  <2>6. \A k \in ListedOn(c), n \in 1..MaxLogins :
          <<c, n>> \in Range(listeners[k]) => n = field[c][k]
    BY <2>1, <2>5 DEF ListsFit
  <2>7. CASE pc[c] \in Outside
    <3>1. NilAlike(c) /\ \A k \in Kind : Listed(c, k) <=> field[c][k] # 0
      BY <2>1, <2>7 DEF WalkFits
    <3>2. \A k, l \in Kind : k \in ListedOn(c) => l \in ListedOn(c)
      BY <2>3, <2>4, <3>1 DEF NilAlike
    <3>3. ListedOn(c) \in {{}, Kind}
      BY <2>5, <3>2
    <3> QED
      BY <2>6, <2>7, <3>3 DEF Outside
  <2>8. CASE pc[c] = "ended"
    BY <2>1, <2>3, <2>5, <2>8 DEF WalkFits, Outside
  <2> QED
    BY <2>7, <2>8
<1> QED
  BY <1>1, Invariance, PTL

(* A login replaces the channels of a connection while dispatches run, and *)
(* the removal of another one's channel moves those behind it; still no    *)
(* dispatch reaches a connection twice.                                    *)
THEOREM ToldAtMostOnce == SafeSpec => []ToldOnce
<1>1. IInv => ToldOnce
  BY DEF IInv
<1> QED
  BY <1>1, Invariance, PTL

-----------------------------------------------------------------------------
(* Circles. *)

(* Only in a walk is a connection at a signal. *)
AtRest == \A c \in Conn : pc[c] \in Outside \cup {"ended"} => at[c] = 0

LEMMA AtRestStays ==
  ASSUME IInv, AtRest, [Next]_vars
  PROVE  AtRest'
<1> SUFFICES ASSUME NEW c \in Conn, pc'[c] \in Outside \cup {"ended"} PROVE at'[c] = 0
  BY DEF AtRest
<1>1. pc \in [Conn -> Places] /\ at \in [Conn -> 0..Len(SignalOrder)] /\ 0 \notin Stations
  BY DEF IInv, TypeOK, Stations
<1>2. pc[c] \in Outside \cup {"ended"} => at[c] = 0
  BY DEF AtRest
<1>3. CASE \E d \in Conn : TakeRequest(d)
  BY <1>1, <1>2, <1>3 DEF TakeRequest, Goto, Outside
<1>4. CASE \E d \in Conn : ReadError(d)
  BY <1>1, <1>2, <1>4 DEF ReadError, StartWalk, Goto, Outside
<1>5. CASE \E d \in Conn : Handle(d)
  <2>1. PICK d \in Conn : Handle(d)
    BY <1>5
  <2>2. /\ pc[d] = "handle"
        /\ \/ Goto(d, "reply") /\ UNCHANGED at
           \/ Goto(d, "session") /\ UNCHANGED at
           \/ StartWalk(d, "detach")
    BY <2>1 DEF Handle, Answer, Register, Login, ResumeSession, ReplaceListeners,
       PostMessage, CreateChannel, RenameChannel, PublishRequest, Logout
  <2> QED
    BY <1>1, <1>2, <2>2 DEF Goto, StartWalk, Outside
<1>6. CASE \E d \in Conn : OpenSession(d)
  BY <1>1, <1>2, <1>6 DEF OpenSession, ReplaceListeners, StartWalk, Goto, Outside
<1>7. CASE \E d \in Conn : Write(d)
  BY <1>1, <1>2, <1>7 DEF Write, StartWalk, Goto, Outside
<1>8. CASE \E d \in Conn : Walk(d)
  <2>1. PICK d \in Conn : Walk(d)
    BY <1>8
  <2>2. pc[d] \in {"detach", "attach", "leave"} /\ NextSignal(d)
    BY <2>1 DEF Walk, RemoveListenerOf, AddListenerOf
  <2>3. CASE UNCHANGED pc /\ at' = [at EXCEPT ![d] = @ + 1]
    BY <1>1, <1>2, <2>2, <2>3 DEF Outside
  <2>4. CASE at' = [at EXCEPT ![d] = IF pc[d] = "detach" THEN 1 ELSE 0] /\ Goto(d, AfterWalk[pc[d]])
    BY <1>1, <1>2, <2>2, <2>4 DEF Goto, AfterWalk, Outside
  <2> QED
    BY <2>2, <2>3, <2>4 DEF NextSignal
<1>9. CASE \E e \in DOMAIN dispatch : Acquire(e) \/ Send(e) \/ Release(e)
  <2>1. /\ at' = at
        /\ \/ pc' = pc
           \/ \E d \in Conn : pc[d] = "select" /\ pc' = [pc EXCEPT ![d] = "notify"]
           \/ \E d : d \notin Conn /\ pc' = [pc EXCEPT ![d] = "notify"]
    BY <1>9 DEF Acquire, Send, Release, connVars, Goto
  <2> QED
    BY <1>1, <1>2, <2>1 DEF Outside
<1>10. CASE UNCHANGED vars
  BY <1>2, <1>10 DEF vars, connVars
<1> QED
  BY <1>3, <1>4, <1>5, <1>6, <1>7, <1>8, <1>9, <1>10 DEF Next, Work

(* Who waits for a lock is in a walk and does not move. *)
LEMMA WaitingStays ==
  ASSUME IInv, AtRest, NEW c \in Conn, NEW d \in Conn, WaitsFor(c, d)
  PROVE  /\ pc[c] \in {"detach", "attach", "leave"}
         /\ ~ TakeRequest(c) /\ ~ ReadError(c) /\ ~ Work(c) /\ ~ Walk(c)
<1>1. PICK k \in Kind :
        /\ Reaches(c, k)
        /\ pc[c] = "attach" \/ field[c][k] # 0
        /\ mutex[k] # Unlocked
  BY DEF WaitsFor
<1>2. at[c] # 0
  BY <1>1, StationsAreSignals DEF Reaches, Stations
<1>3. pc[c] \in {"detach", "attach", "leave"}
  BY <1>2 DEF AtRest, Outside, Places, IInv, TypeOK
<1>4. \A l \in Kind : Reaches(c, l) => l = k
  BY <1>1 DEF Reaches
<1>5. ~ Walk(c)
  BY <1>1, <1>4 DEF Walk, RemoveListenerOf, AddListenerOf, LockFree
<1>6. ~ TakeRequest(c) /\ ~ ReadError(c) /\ ~ Work(c)
  BY <1>3 DEF TakeRequest, ReadError, Work, Handle, OpenSession, Write
<1> QED
  BY <1>3, <1>5, <1>6

(* What another connection does leaves the wait of c for d as it is. *)
LEMMA OthersDoNotHelp ==
  ASSUME IInv, NEW c \in Conn, NEW d \in Conn, WaitsFor(c, d), NEW x \in Conn, x # c,
         TakeRequest(x) \/ ReadError(x) \/ Work(x) \/ Walk(x)
  PROVE  WaitsFor(c, d)'
<1>1. UNCHANGED <<mutex, pos>>
  BY DEF TakeRequest, ReadError, Work, Handle, OpenSession, Write, Walk, RemoveListenerOf,
     AddListenerOf, signalVars
<1>2. pc'[c] = pc[c] /\ at'[c] = at[c] /\ field'[c] = field[c]
  <2>1. \A place : Goto(x, place) => pc'[c] = pc[c]
    BY DEF Goto, IInv, TypeOK
  <2>2. \A place : StartWalk(x, place) => at'[c] = at[c]
    BY DEF StartWalk, IInv, TypeOK
  <2>3. NextSignal(x) => pc'[c] = pc[c] /\ at'[c] = at[c]
    BY <2>1 DEF NextSignal, IInv, TypeOK
  <2>4. CASE TakeRequest(x) \/ ReadError(x)
    BY <2>1, <2>2, <2>4 DEF TakeRequest, ReadError, StartWalk
  <2>5. CASE Handle(x)
    BY <2>1, <2>2, <2>5 DEF Handle, Answer, Register, Login, ResumeSession, ReplaceListeners,
       PostMessage, CreateChannel, RenameChannel, PublishRequest, Logout, StartWalk
  <2>6. CASE OpenSession(x) \/ Write(x)
    BY <2>1, <2>2, <2>6 DEF OpenSession, ReplaceListeners, Write, StartWalk
  <2>7. CASE Walk(x)
    BY <2>3, <2>7 DEF Walk, RemoveListenerOf, AddListenerOf, IInv, TypeOK
  <2> QED
    BY <2>4, <2>5, <2>6, <2>7 DEF Work
<1>3. \A k \in Kind : mutex[k] # Unlocked => listeners'[k] = listeners[k]
  <2>1. CASE Walk(x)
    BY <2>1 DEF Walk, RemoveListenerOf, AddListenerOf, LockFree, IInv, TypeOK
  <2>2. CASE TakeRequest(x) \/ ReadError(x) \/ Work(x)
    BY <2>2 DEF TakeRequest, ReadError, Work, Handle, OpenSession, Write, signalVars
  <2> QED
    BY <2>1, <2>2
<1> QED
  BY <1>1, <1>2, <1>3 DEF WaitsFor, Reaches

(* Nor does a dispatch, unless it sends to d.                              *)
LEMMA DispatchesDoNotHelp ==
  ASSUME IInv, NEW c \in Conn, NEW d \in Conn, WaitsFor(c, d),
         pc[c] # "select", pc[d] # "select",
         NEW e \in DOMAIN dispatch, Acquire(e) \/ Send(e) \/ Release(e)
  PROVE  WaitsFor(c, d)'
<1>1. PICK k \in Kind :
        /\ Reaches(c, k)
        /\ pc[c] = "attach" \/ field[c][k] # 0
        /\ mutex[k] # Unlocked
        /\ pos[k] \in DOMAIN listeners[k]
        /\ listeners[k][pos[k]][1] = d
  BY DEF WaitsFor
<1>2. UNCHANGED <<at, field, listeners>>
  BY DEF Acquire, Send, Release, connVars
<1>3. dispatch[e].kind # k /\ pc'[c] = pc[c]
  BY <1>1 DEF Acquire, Send, Release, LockFree, connVars, Goto, IInv, TypeOK
<1>4. mutex'[k] = mutex[k] /\ pos'[k] = pos[k]
  BY <1>3 DEF Acquire, Send, Release, IInv, TypeOK
<1> QED
  BY <1>1, <1>2, <1>3, <1>4 DEF WaitsFor, Reaches

(* A circle of connections each of which waits in Add or Remove for the    *)
(* lock of a signal that is sent to another of them stays: Add, Remove and *)
(* Dispatch wait without a way out, and no browser that goes away, request *)
(* or other dispatch releases one of them (ws.go add- and                  *)
(* removeRepositoryListeners, message_signal.go).                          *)
THEOREM CirclesStay == SafeSpec => CircularWaitIsForever
<1>1. Init => AtRest
  BY DEF Init, AtRest
<1>2. ASSUME IInv, AtRest, [Next]_vars, CircularWait PROVE CircularWait'
  <2>1. PICK S \in SUBSET Conn \ {{}} : \A c \in S : \E d \in S : WaitsFor(c, d)
    BY <1>2 DEF CircularWait
  <2> SUFFICES ASSUME NEW c \in S, NEW d \in S, WaitsFor(c, d)
               PROVE  WaitsFor(c, d)'
    <3>1. \A c \in S : \E d \in S : WaitsFor(c, d)'
      BY <2>1
    <3> QED
      BY <3>1 DEF CircularWait
  <2>2. \A x \in S : /\ x \in Conn /\ pc[x] \in {"detach", "attach", "leave"}
                     /\ ~ TakeRequest(x) /\ ~ ReadError(x) /\ ~ Work(x) /\ ~ Walk(x)
    BY <1>2, <2>1, WaitingStays
  <2>3. CASE \E x \in Conn : TakeRequest(x) \/ ReadError(x) \/ Work(x) \/ Walk(x)
    <3>1. PICK x \in Conn : TakeRequest(x) \/ ReadError(x) \/ Work(x) \/ Walk(x)
      BY <2>3
    <3>2. x # c
      BY <2>2, <3>1
    <3> QED
      BY <1>2, <2>2, <3>1, <3>2, OthersDoNotHelp
  <2>4. CASE \E e \in DOMAIN dispatch : Acquire(e) \/ Send(e) \/ Release(e)
    BY <1>2, <2>2, <2>4, DispatchesDoNotHelp
  <2>5. CASE UNCHANGED vars
    BY <2>5 DEF vars, connVars, signalVars, WaitsFor, Reaches
  <2> QED
    BY <1>2, <2>3, <2>4, <2>5 DEF Next
<1>3. IInv /\ AtRest /\ [Next]_vars => AtRest'
  BY AtRestStays
<1>4. IInv /\ AtRest /\ [Next]_vars => (CircularWait => CircularWait')
  BY <1>2
<1> QED
  BY <1>1, <1>3, <1>4, Invariance, PTL DEF SafeSpec, CircularWaitIsForever

-----------------------------------------------------------------------------
(* The signals, seen one at a time (the refinement mapping of Sig).        *)

PhasesOn(k) == [e \in 1..MaxDispatches |-> PhaseOn(k, e)]
OwnersOn(k) == [l \in Channels |-> OwnerOf(k, l)]

(* What the owner of its n-th channel for the signal at station q does,    *)
(* when a connection is at place p, its walk at station a, and its field   *)
(* for that signal holds the f-th channel.                                 *)
OwnerIs(p, a, f, q, n) ==
  IF n < f THEN "gone"
  ELSE IF n > f THEN IF p = "attach" /\ a = q /\ n = f + 1 THEN "adding" ELSE "new"
  ELSE IF p = "select" THEN "recv"
  ELSE IF p \in Outside THEN "busy"
  ELSE IF p = "ended" THEN "gone"
  ELSE IF p = "attach" THEN IF a <= q THEN "gone" ELSE "busy"
  ELSE IF a = q THEN "removing" ELSE IF a < q THEN "busy" ELSE "gone"

(* Where a walk is, by the number of its station. *)
LEMMA Passing ==
  ASSUME TypeOK, NEW q \in Stations, NEW c \in Conn
  PROVE  /\ Reaches(c, SignalOrder[q]) <=> at[c] = q
         /\ Before(c, SignalOrder[q]) <=> at[c] < q
BY StationsAreSignals DEF Reaches, Before, TypeOK, Stations

LEMMA PassingNext ==
  ASSUME TypeOK', NEW q \in Stations, NEW c \in Conn
  PROVE  /\ Reaches(c, SignalOrder[q])' <=> at'[c] = q
         /\ Before(c, SignalOrder[q])' <=> at'[c] < q
BY StationsAreSignals DEF Reaches, Before, TypeOK, Stations

LEMMA OwnerNow ==
  ASSUME TypeOK, NEW q \in Stations, NEW c \in Conn, NEW n \in 1..MaxLogins
  PROVE  OwnersOn(SignalOrder[q])[<<c, n>>]
           = OwnerIs(pc[c], at[c], field[c][SignalOrder[q]], q, n)
<1>1. PICK k \in Kind : k = SignalOrder[q]
  BY StationsAreSignals
<1>2. PICK f \in Nat : f = field[c][k]
  BY DEF TypeOK
<1>3. PICK a \in Nat : a = at[c]
  BY StationsAreSignals DEF TypeOK
<1>4. PICK p \in Places : p = pc[c]
  BY DEF TypeOK
<1>5. (Reaches(c, k) <=> a = q) /\ (Before(c, k) <=> a < q)
  BY <1>1, <1>3, Passing
<1>6. q \in Nat /\ n \in Nat
  BY DEF Stations
<1>7. OwnersOn(k)[<<c, n>>] = OwnerOf(k, <<c, n>>)
  BY DEF OwnersOn, Channels
<1>8. CurrentOwner(c, k) = OwnerIs(p, a, n, q, n)
  BY <1>3, <1>4, <1>5, <1>6 DEF CurrentOwner, OwnerIs, Places, Outside
<1>9. OwnerOf(k, <<c, n>>) = OwnerIs(p, a, f, q, n)
  BY <1>2, <1>3, <1>4, <1>5, <1>6, <1>8 DEF OwnerOf, OwnerIs
<1> QED
  BY <1>1, <1>2, <1>3, <1>4, <1>7, <1>9

LEMMA OwnerNext ==
  ASSUME TypeOK', NEW q \in Stations, NEW c \in Conn, NEW n \in 1..MaxLogins
  PROVE  OwnersOn(SignalOrder[q])'[<<c, n>>]
           = OwnerIs(pc'[c], at'[c], field'[c][SignalOrder[q]], q, n)
<1>1. PICK k \in Kind : k = SignalOrder[q]
  BY StationsAreSignals
<1>2. PICK f \in Nat : f = field'[c][k]
  BY DEF TypeOK
<1>3. PICK a \in Nat : a = at'[c]
  BY StationsAreSignals DEF TypeOK
<1>4. PICK p \in Places : p = pc'[c]
  BY DEF TypeOK
<1>5. (Reaches(c, k)' <=> a = q) /\ (Before(c, k)' <=> a < q)
  BY <1>1, <1>3, PassingNext
<1>6. q \in Nat /\ n \in Nat
  BY DEF Stations
<1>7. OwnersOn(k)'[<<c, n>>] = OwnerOf(k, <<c, n>>)'
  BY DEF OwnersOn, Channels
<1>8. CurrentOwner(c, k)' = OwnerIs(p, a, n, q, n)
  BY <1>3, <1>4, <1>5, <1>6 DEF CurrentOwner, OwnerIs, Places, Outside
<1>9. OwnerOf(k, <<c, n>>)' = OwnerIs(p, a, f, q, n)
  BY <1>2, <1>3, <1>4, <1>5, <1>6, <1>8 DEF OwnerOf, OwnerIs
<1>10. OwnersOn(SignalOrder[q])' = OwnersOn(k)'
  BY <1>1
<1> QED
  BY <1>1, <1>2, <1>3, <1>4, <1>7, <1>9, <1>10

(* All of a signal but the owners of its channels. *)
Still(k) ==
  /\ listeners'[k] = listeners[k] /\ mutex'[k] = mutex[k] /\ pos'[k] = pos[k]
  /\ PhasesOn(k)' = PhasesOn(k)
  /\ heard'[k] = heard[k]

LEMMA NothingMoves ==
  ASSUME NEW k \in Kind, Still(k), OwnersOn(k)' = OwnersOn(k)
  PROVE  UNCHANGED Sig(k)!vars
BY DEF Still, Sig!vars, PhasesOn, OwnersOn

(* The steps of an owner that change nothing else of the signal. *)
LEMMA OwnerSteps ==
  ASSUME NEW k \in Kind, Still(k), NEW l \in Channels, NEW v,
         OwnersOn(k)' = [OwnersOn(k) EXCEPT ![l] = v],
         \/ OwnersOn(k)[l] = "new" /\ v = "adding"
         \/ OwnersOn(k)[l] = "busy" /\ v \in {"recv", "removing"}
         \/ OwnersOn(k)[l] = "recv" /\ v \in {"busy", "removing"}
  PROVE  Sig(k)!Next
<1>1. OwnersOn(k)[l] = "new" /\ v = "adding" => Sig(k)!CallAdd(l)
  BY DEF Still, Sig!CallAdd, Sig!OwnerGoes, PhasesOn, OwnersOn
<1>2. OwnersOn(k)[l] = "busy" /\ v = "recv" => Sig(k)!Listen(l)
  BY DEF Still, Sig!Listen, Sig!OwnerGoes, PhasesOn, OwnersOn
<1>3. OwnersOn(k)[l] = "recv" /\ v = "busy" => Sig(k)!TurnAway(l)
  BY DEF Still, Sig!TurnAway, Sig!OwnerGoes, PhasesOn, OwnersOn
<1>4. OwnersOn(k)[l] \in {"recv", "busy"} /\ v = "removing" => Sig(k)!CallRemove(l)
  BY DEF Still, Sig!CallRemove, Sig!OwnerGoes, PhasesOn, OwnersOn
<1>5. Sig(k)!OwnerStep(l)
  BY <1>1, <1>2, <1>3, <1>4 DEF Sig!OwnerStep
<1> QED
  BY <1>5 DEF Sig!Next

(* A step of connection c moves the owners of its own channels only. *)
LEMMA OwnersStay ==
  ASSUME TypeOK, TypeOK', NEW q \in Stations, NEW k \in Kind, k = SignalOrder[q],
         \A d \in Conn, n \in 1..MaxLogins :
           OwnerIs(pc'[d], at'[d], field'[d][k], q, n) = OwnerIs(pc[d], at[d], field[d][k], q, n)
  PROVE  OwnersOn(k)' = OwnersOn(k)
<1>1. ASSUME NEW l \in Channels PROVE OwnersOn(k)'[l] = OwnersOn(k)[l]
  <2>1. PICK d \in Conn, n \in 1..MaxLogins : l = <<d, n>>
    BY DEF Channels
  <2>2. OwnersOn(SignalOrder[q])[<<d, n>>] = OwnerIs(pc[d], at[d], field[d][SignalOrder[q]], q, n)
    BY OwnerNow
  <2>3. OwnersOn(SignalOrder[q])'[<<d, n>>]
          = OwnerIs(pc'[d], at'[d], field'[d][SignalOrder[q]], q, n)
    BY OwnerNext
  <2>4. OwnersOn(SignalOrder[q])' = OwnersOn(k)'
    OBVIOUS
  <2> QED
    BY <2>1, <2>2, <2>3, <2>4
<1>2. /\ OwnersOn(k) = [l \in Channels |-> OwnersOn(k)[l]]
      /\ OwnersOn(k)' = [l \in Channels |-> OwnersOn(k)'[l]]
  BY DEF OwnersOn
<1> QED
  BY <1>1, <1>2

LEMMA OneOwnerMoves ==
  ASSUME TypeOK, TypeOK', NEW q \in Stations, NEW k \in Kind, k = SignalOrder[q],
         NEW c \in Conn, NEW m \in 1..MaxLogins,
         \A d \in Conn : d # c => pc'[d] = pc[d] /\ at'[d] = at[d] /\ field'[d][k] = field[d][k],
         \A n \in 1..MaxLogins : n # m =>
           OwnerIs(pc'[c], at'[c], field'[c][k], q, n) = OwnerIs(pc[c], at[c], field[c][k], q, n)
  PROVE  /\ OwnersOn(k)[<<c, m>>] = OwnerIs(pc[c], at[c], field[c][k], q, m)
         /\ OwnersOn(k)' = [OwnersOn(k) EXCEPT ![<<c, m>>] =
                              OwnerIs(pc'[c], at'[c], field'[c][k], q, m)]
<1>1. OwnersOn(k)[<<c, m>>] = OwnerIs(pc[c], at[c], field[c][k], q, m)
  BY OwnerNow
<1>2. ASSUME NEW l \in Channels
      PROVE  OwnersOn(k)'[l] = IF l = <<c, m>> THEN OwnerIs(pc'[c], at'[c], field'[c][k], q, m)
                               ELSE OwnersOn(k)[l]
  <2>1. PICK d \in Conn, n \in 1..MaxLogins : l = <<d, n>>
    BY DEF Channels
  <2>2. OwnersOn(SignalOrder[q])[<<d, n>>] = OwnerIs(pc[d], at[d], field[d][SignalOrder[q]], q, n)
    BY OwnerNow
  <2>3. OwnersOn(SignalOrder[q])'[<<d, n>>]
          = OwnerIs(pc'[d], at'[d], field'[d][SignalOrder[q]], q, n)
    BY OwnerNext
  <2>4. OwnersOn(SignalOrder[q])' = OwnersOn(k)'
    OBVIOUS
  <2>5. d # c \/ n # m =>
          OwnerIs(pc'[d], at'[d], field'[d][k], q, n) = OwnerIs(pc[d], at[d], field[d][k], q, n)
    OBVIOUS
  <2>6. CASE d = c /\ n = m
    BY <2>1, <2>3, <2>4, <2>6
  <2>7. CASE d # c \/ n # m
    <3>1. l # <<c, m>>
      BY <2>1, <2>7
    <3> QED
      BY <2>1, <2>2, <2>3, <2>4, <2>5, <2>7, <3>1
  <2> QED
    BY <2>6, <2>7
<1>3. /\ DOMAIN OwnersOn(k) = Channels
      /\ OwnersOn(k) = [l \in Channels |-> OwnersOn(k)[l]]
      /\ OwnersOn(k)' = [l \in Channels |-> OwnersOn(k)'[l]]
  BY DEF OwnersOn
<1>4. [OwnersOn(k) EXCEPT ![<<c, m>>] = OwnerIs(pc'[c], at'[c], field'[c][k], q, m)]
        = [l \in Channels |-> IF l = <<c, m>> THEN OwnerIs(pc'[c], at'[c], field'[c][k], q, m)
                               ELSE OwnersOn(k)[l]]
  BY <1>3
<1> QED
  BY <1>1, <1>2, <1>3, <1>4

(* Such a step is one of the signal, or leaves it alone. *)
LEMMA ConnSteps ==
  ASSUME TypeOK, TypeOK', NEW q \in Stations, NEW k \in Kind, k = SignalOrder[q], Still(k),
         NEW c \in Conn, NEW m,
         \A d \in Conn : d # c => pc'[d] = pc[d] /\ at'[d] = at[d] /\ field'[d][k] = field[d][k],
         \A n \in 1..MaxLogins : n # m =>
           OwnerIs(pc'[c], at'[c], field'[c][k], q, n) = OwnerIs(pc[c], at[c], field[c][k], q, n),
         NEW from, from = OwnerIs(pc[c], at[c], field[c][k], q, m),
         NEW to, to = OwnerIs(pc'[c], at'[c], field'[c][k], q, m),
         \/ m \notin 1..MaxLogins
         \/ from = to
         \/ from = "new" /\ to = "adding"
         \/ from = "busy" /\ to \in {"recv", "removing"}
         \/ from = "recv" /\ to \in {"busy", "removing"}
  PROVE  [Sig(k)!Next]_(Sig(k)!vars)
<1>1. CASE m \notin 1..MaxLogins \/ from = to
  <2>1. \A d \in Conn, n \in 1..MaxLogins :
          OwnerIs(pc'[d], at'[d], field'[d][k], q, n) = OwnerIs(pc[d], at[d], field[d][k], q, n)
    BY <1>1
  <2>2. OwnersOn(k)' = OwnersOn(k)
    BY <2>1, OwnersStay
  <2> QED
    BY <2>2, NothingMoves
<1>2. CASE m \in 1..MaxLogins /\ from # to
  <2>1. PICK o \in 1..MaxLogins : o = m
    BY <1>2
  <2>2. /\ OwnersOn(k)[<<c, o>>] = OwnerIs(pc[c], at[c], field[c][k], q, o)
        /\ OwnersOn(k)' = [OwnersOn(k) EXCEPT ![<<c, o>>] =
                              OwnerIs(pc'[c], at'[c], field'[c][k], q, o)]
    BY <2>1, OneOwnerMoves
  <2>3. <<c, o>> \in Channels
    BY DEF Channels
  <2>4. OwnersOn(k)[<<c, o>>] = from /\ OwnersOn(k)' = [OwnersOn(k) EXCEPT ![<<c, o>>] = to]
    BY <2>1, <2>2
  <2>5. PICK l \in Channels : l = <<c, o>>
    BY <2>3
  <2>6. OwnersOn(k)[l] = from /\ OwnersOn(k)' = [OwnersOn(k) EXCEPT ![l] = to]
    BY <2>4, <2>5
  <2>7. \/ OwnersOn(k)[l] = "new" /\ to = "adding"
        \/ OwnersOn(k)[l] = "busy" /\ to \in {"recv", "removing"}
        \/ OwnersOn(k)[l] = "recv" /\ to \in {"busy", "removing"}
    BY <1>2, <2>6
  <2>8. Sig(k)!Next
    BY <2>6, <2>7, OwnerSteps, SMTT(30)
  <2> QED
    BY <2>8
<1> QED
  BY <1>1, <1>2

(* The steps of a connection between its walks. *)
LEMMA LocalImplements ==
  ASSUME TypeOK, TypeOK', NEW q \in Stations, NEW k \in Kind, k = SignalOrder[q], Still(k),
         NEW c \in Conn, UNCHANGED field,
         \A d \in Conn : d # c => pc'[d] = pc[d] /\ at'[d] = at[d],
         pc[c] \in Outside,
         \/ pc'[c] \in Outside
         \/ pc'[c] \in {"detach", "leave"} /\ at'[c] = 1
  PROVE  [Sig(k)!Next]_(Sig(k)!vars)
<1>1. PICK f \in 0..MaxLogins : f = field[c][k] /\ f = field'[c][k]
  BY DEF TypeOK
<1>2. PICK p \in Outside : p = pc[c]
  OBVIOUS
<1>3. PICK r \in Places : r = pc'[c]
  BY DEF TypeOK
<1>4. \/ r \in Outside
      \/ r \in {"detach", "leave"} /\ at'[c] = 1
  BY <1>3
<1>5. q \in Nat /\ q >= 1 /\ f \in Nat
  BY DEF Stations
<1>6. ASSUME NEW n \in 1..MaxLogins, n # f
      PROVE  OwnerIs(r, at'[c], f, q, n) = OwnerIs(p, at[c], f, q, n)
  BY <1>4, <1>5, <1>6 DEF OwnerIs, Outside
<1>7. PICK from : from = OwnerIs(p, at[c], f, q, f)
  OBVIOUS
<1>8. PICK to : to = OwnerIs(r, at'[c], f, q, f)
  OBVIOUS
<1>9. from = IF p = "select" THEN "recv" ELSE "busy"
  BY <1>5, <1>7 DEF OwnerIs
<1>10. to = IF r = "select" THEN "recv" ELSE IF r \in Outside \/ q > 1 THEN "busy" ELSE "removing"
  BY <1>4, <1>5, <1>8 DEF OwnerIs, Outside
<1>11. \/ from = to
       \/ from = "busy" /\ to \in {"recv", "removing"}
       \/ from = "recv" /\ to \in {"busy", "removing"}
  BY <1>9, <1>10
<1> QED
  BY <1>1, <1>2, <1>3, <1>6, <1>7, <1>8, <1>11, ConnSteps

(* What changes no dispatch changes no phase. *)
LEMMA PhasesStay ==
  ASSUME NEW k \in Kind, \A e \in 1..MaxDispatches : PhaseOn(k, e)' = PhaseOn(k, e)
  PROVE  PhasesOn(k)' = PhasesOn(k)
BY DEF PhasesOn

LEMMA OnePhaseMoves ==
  ASSUME NEW k \in Kind, NEW e \in 1..MaxDispatches, NEW v, PhaseOn(k, e)' = v,
         \A d \in 1..MaxDispatches : d # e => PhaseOn(k, d)' = PhaseOn(k, d)
  PROVE  /\ PhasesOn(k)[e] = PhaseOn(k, e)
         /\ PhasesOn(k)' = [PhasesOn(k) EXCEPT ![e] = v]
BY DEF PhasesOn

(* A dispatch is spawned by the handler of the request that publishes. *)
LEMMA PublishImplements ==
  ASSUME IInv, TypeOK', NEW q \in Stations, NEW k \in Kind, k = SignalOrder[q],
         NEW c \in Conn, NEW kind \in Kind, Publish(kind),
         UNCHANGED <<at, field, signalVars, heard>>,
         \A d \in Conn : d # c => pc'[d] = pc[d],
         pc[c] = "handle", pc'[c] \in {"session", "reply"}
  PROVE  [Sig(k)!Next]_(Sig(k)!vars)
<1>1. PICK n \in Nat : n = Len(dispatch) /\ DOMAIN dispatch = 1..n
  BY LenProperties DEF IInv, TypeOK
<1>2. /\ n + 1 \in 1..MaxDispatches
      /\ DOMAIN dispatch' = 1..(n + 1)
      /\ dispatch'[n + 1] = [kind |-> kind, phase |-> "wait"]
      /\ \A e \in 1..n : dispatch'[e] = dispatch[e]
  <2>1. [kind |-> kind, phase |-> "wait"] \in Dispatches
    BY DEF Dispatches
  <2>2. n < MaxDispatches
    BY <1>1 DEF Publish
  <2>3. n + 1 \in 1..MaxDispatches
    BY <2>2, BoundsAssumption
  <2> QED
    BY <1>1, <2>1, <2>3, AppendProperties, LenProperties DEF Publish, IInv, TypeOK
<1>3. /\ \A e : e # n + 1 => PhaseOn(k, e)' = PhaseOn(k, e)
      /\ PhaseOn(k, n + 1) = "new"
      /\ PhaseOn(k, n + 1)' = IF k = kind THEN "wait" ELSE "new"
  <2>1. n + 1 \notin 1..n /\ n + 1 \in 1..(n + 1)
    OBVIOUS
  <2>2. \A e : e # n + 1 => (e \in 1..(n + 1) <=> e \in 1..n)
    OBVIOUS
  <2>3. PhaseOn(k, n + 1) = "new"
    BY <1>1, <2>1 DEF PhaseOn
  <2>4. PhaseOn(k, n + 1)' = IF k = kind THEN "wait" ELSE "new"
    BY <1>2, <2>1 DEF PhaseOn
  <2>5. \A e : e # n + 1 => PhaseOn(k, e)' = PhaseOn(k, e)
    BY <1>1, <1>2, <2>2 DEF PhaseOn
  <2> QED
    BY <2>3, <2>4, <2>5
<1>4. CASE k # kind
  <2>1. Still(k)
    <3>1. PhasesOn(k)' = PhasesOn(k)
      BY <1>3, <1>4, PhasesStay
    <3> QED
      BY <3>1 DEF Still, signalVars
  <2> QED
    BY <2>1, LocalImplements DEF IInv, Outside
<1>5. CASE k = kind
  <2>1. PhasesOn(k)[n + 1] = "new" /\ PhasesOn(k)' = [PhasesOn(k) EXCEPT ![n + 1] = "wait"]
    BY <1>2, <1>3, <1>5, OnePhaseMoves
  <2>2. OwnersOn(k)' = OwnersOn(k)
    <3>1. \A m \in 1..MaxLogins : OwnerIs(pc'[c], at[c], field[c][k], q, m)
                                    = OwnerIs(pc[c], at[c], field[c][k], q, m)
      BY DEF OwnerIs, Outside
    <3>2. \A d \in Conn, m \in 1..MaxLogins : OwnerIs(pc'[d], at'[d], field'[d][k], q, m)
                                    = OwnerIs(pc[d], at[d], field[d][k], q, m)
      BY <3>1
    <3> QED
      BY <3>2, OwnersStay DEF IInv
  <2>3. Sig(k)!Spawn(n + 1)
    BY <2>1, <2>2 DEF Sig!Spawn, PhasesOn, OwnersOn, signalVars
  <2> QED
    BY <1>2, <2>3 DEF Sig!Next, Sig!DispatchStep
<1> QED
  BY <1>4, <1>5

(* A step of a walk: Remove of the signal where it is; the next signal is  *)
(* waited for, and when the last was left, the first is added to.          *)
LEMMA RemoveImplements ==
  ASSUME IInv, IInv', NEW q \in Stations, NEW k \in Kind, k = SignalOrder[q],
         NEW c \in Conn, NEW kind \in Kind, RemoveListenerOf(c, kind)
  PROVE  [Sig(k)!Next]_(Sig(k)!vars)
<1>1. PICK p \in Stations : p = at[c] /\ SignalOrder[p] = kind
  BY StationsAreSignals DEF RemoveListenerOf, Reaches
<1>2. /\ pc[c] \in {"detach", "leave"} /\ NextSignal(c)
      /\ UNCHANGED <<authed, field, mutex, pos, dispatch, heard>>
  BY DEF RemoveListenerOf
<1>3. PICK f \in 0..MaxLogins : f = field[c][k] /\ f = field'[c][k]
  BY <1>2 DEF IInv, TypeOK
<1>4. PICK r : r = pc'[c]
  OBVIOUS
<1>5. PICK b : b = at'[c]
  OBVIOUS
<1>6. PICK s \in {"detach", "leave"}, n \in Nat :
        s = pc[c] /\ r = pc'[c] /\ b = at'[c] /\ n = Len(SignalOrder)
  BY <1>2, <1>4, <1>5, StationsAreSignals
<1>7. /\ \A d \in Conn : d # c => pc'[d] = pc[d] /\ at'[d] = at[d]
      /\ \/ p < n /\ b = p + 1 /\ r = s
         \/ p = n /\ s = "detach" /\ r = "attach" /\ b = 1
         \/ p = n /\ s = "leave" /\ r = "ended"
  BY <1>1, <1>2, <1>6, NextSignalSteps
<1>8. /\ q \in Nat /\ q >= 1 /\ q <= n /\ p \in Nat /\ p >= 1 /\ p <= n /\ n >= 2
      /\ f \in Nat /\ (k = kind <=> p = q)
  BY <1>1, <1>6, StationsAreSignals DEF Stations
<1>9. PhasesOn(k)' = PhasesOn(k)
  BY <1>2, PhasesStay DEF PhaseOn
<1>10. CASE p = q /\ f = 0
  <2>1. Still(k)
    BY <1>2, <1>3, <1>8, <1>9, <1>10 DEF Still, RemoveListenerOf
  <2>2. \A m \in 1..MaxLogins : OwnerIs(r, b, f, q, m) = OwnerIs(s, p, f, q, m)
    BY <1>7, <1>8, <1>10 DEF OwnerIs, Outside
  <2>3. 0 \notin 1..MaxLogins
    OBVIOUS
  <2> QED
    BY <1>1, <1>2, <1>3, <1>6, <1>7, <2>1, <2>2, <2>3, ConnSteps DEF IInv
<1>11. CASE p = q /\ f # 0
  <2>1. f \in 1..MaxLogins
    BY <1>8, <1>11
  <2>2. /\ OwnerIs(s, p, f, q, f) = "removing"
        /\ OwnerIs(r, b, f, q, f) = "gone"
        /\ \A m \in 1..MaxLogins : m # f => OwnerIs(r, b, f, q, m) = OwnerIs(s, p, f, q, m)
    BY <1>7, <1>8, <1>11 DEF OwnerIs, Outside
  <2>3. /\ OwnersOn(k)[<<c, f>>] = "removing"
        /\ OwnersOn(k)' = [OwnersOn(k) EXCEPT ![<<c, f>>] = "gone"]
    <3>1. /\ OwnerIs(pc[c], at[c], field[c][k], q, f) = "removing"
          /\ OwnerIs(pc'[c], at'[c], field'[c][k], q, f) = "gone"
          /\ \A m \in 1..MaxLogins : m # f =>
               OwnerIs(pc'[c], at'[c], field'[c][k], q, m)
                 = OwnerIs(pc[c], at[c], field[c][k], q, m)
      BY <1>1, <1>3, <1>6, <2>2
    <3>2. /\ OwnersOn(k)[<<c, f>>] = OwnerIs(pc[c], at[c], field[c][k], q, f)
          /\ OwnersOn(k)' = [OwnersOn(k) EXCEPT ![<<c, f>>] =
                                OwnerIs(pc'[c], at'[c], field'[c][k], q, f)]
      BY <1>2, <1>7, <2>1, <3>1, OneOwnerMoves, SMTT(30) DEF IInv
    <3> QED
      BY <3>1, <3>2
  <2>4. PICK l \in Channels : l = <<c, f>>
    BY <2>1 DEF Channels
  <2>5. mutex[k] = Unlocked /\ listeners'[k] = RemoveListener(listeners[k], l)
    <3>1. kind = k
      BY <1>8, <1>11
    <3>2. /\ mutex[k] = Unlocked
          /\ listeners' = [listeners EXCEPT ![k] = RemoveListener(listeners[k], <<c, field[c][k]>>)]
      BY <1>3, <1>11, <3>1 DEF RemoveListenerOf, LockFree
    <3> QED
      BY <1>3, <2>4, <3>2 DEF IInv, TypeOK
  <2>6. Sig(k)!RemoveListener(listeners[k], l) = RemoveListener(listeners[k], l)
    BY DEF RemoveListener, FirstIndex, Range, Sig!RemoveListener, Sig!FirstIndex, Sig!Range
  <2>7. Sig(k)!Remove(l)
    BY <1>2, <1>9, <2>3, <2>4, <2>5, <2>6 DEF Sig!Remove, Sig!OwnerGoes, PhasesOn, OwnersOn
  <2> QED
    BY <2>7 DEF Sig!Next, Sig!OwnerStep
<1>12. CASE p # q
  <2>1. Still(k)
    BY <1>2, <1>8, <1>9, <1>12 DEF Still, RemoveListenerOf, IInv, TypeOK
  <2>2. CASE r = s
    <3>1. /\ \A m \in 1..MaxLogins : m # f => OwnerIs(r, b, f, q, m) = OwnerIs(s, p, f, q, m)
          /\ \/ OwnerIs(r, b, f, q, f) = OwnerIs(s, p, f, q, f)
             \/ OwnerIs(s, p, f, q, f) = "busy" /\ OwnerIs(r, b, f, q, f) = "removing"
      BY <1>7, <1>8, <1>12, <2>2 DEF OwnerIs, Outside
    <3> QED
      BY <1>1, <1>2, <1>3, <1>6, <1>7, <2>1, <3>1, ConnSteps DEF IInv
  <2>3. CASE r # s
    <3>1. /\ \A m \in 1..MaxLogins : m # f + 1 => OwnerIs(r, b, f, q, m) = OwnerIs(s, p, f, q, m)
          /\ \/ OwnerIs(r, b, f, q, f + 1) = OwnerIs(s, p, f, q, f + 1)
             \/ OwnerIs(s, p, f, q, f + 1) = "new" /\ OwnerIs(r, b, f, q, f + 1) = "adding"
      BY <1>7, <1>8, <1>12, <2>3 DEF OwnerIs, Outside
    <3> QED
      BY <1>1, <1>2, <1>3, <1>6, <1>7, <2>1, <3>1, ConnSteps DEF IInv
  <2> QED
    BY <2>2, <2>3
<1> QED
  BY <1>10, <1>11, <1>12

LEMMA AddImplements ==
  ASSUME IInv, IInv', NEW q \in Stations, NEW k \in Kind, k = SignalOrder[q],
         NEW c \in Conn, NEW kind \in Kind, AddListenerOf(c, kind)
  PROVE  [Sig(k)!Next]_(Sig(k)!vars)
<1>1. PICK p \in Stations : p = at[c] /\ SignalOrder[p] = kind
  BY StationsAreSignals DEF AddListenerOf, Reaches
<1>2. /\ pc[c] = "attach" /\ NextSignal(c) /\ LockFree(kind)
      /\ UNCHANGED <<authed, mutex, pos, dispatch, heard>>
  BY DEF AddListenerOf
<1>3. PICK f \in 0..MaxLogins : f = field[c][k]
  BY DEF IInv, TypeOK
<1>4. PICK r : r = pc'[c]
  OBVIOUS
<1>5. PICK b : b = at'[c]
  OBVIOUS
<1>6. PICK n \in Nat : r = pc'[c] /\ b = at'[c] /\ n = Len(SignalOrder)
  BY <1>4, <1>5, StationsAreSignals
<1>7. /\ \A d \in Conn : d # c => pc'[d] = pc[d] /\ at'[d] = at[d]
      /\ \/ p < n /\ b = p + 1 /\ r = "attach"
         \/ p = n /\ r = "reply"
  BY <1>1, <1>2, <1>6, NextSignalSteps
<1>8. /\ q \in Nat /\ q >= 1 /\ q <= n /\ p \in Nat /\ p >= 1 /\ p <= n /\ n >= 2
      /\ f \in Nat /\ (k = kind <=> p = q)
  BY <1>1, <1>6, StationsAreSignals DEF Stations
<1>9. PhasesOn(k)' = PhasesOn(k)
  BY <1>2, PhasesStay DEF PhaseOn
<1>10. /\ field'[c][k] = IF p = q THEN f + 1 ELSE f
      /\ \A d \in Conn : d # c => field'[d][k] = field[d][k]
  <2>1. field' = [field EXCEPT ![c] = [field[c] EXCEPT ![kind] = field[c][kind] + 1]]
    BY DEF AddListenerOf, IInv, TypeOK
  <2> QED
    BY <1>3, <1>8, <2>1 DEF IInv, TypeOK
<1>11. CASE p = q
  <2>1. f + 1 \in 1..MaxLogins
    <3>1. field'[c][k] \in 0..MaxLogins
      BY DEF IInv, TypeOK
    <3> QED
      BY <1>8, <1>10, <1>11, <3>1, BoundsAssumption
  <2>2. /\ OwnerIs("attach", p, f, q, f + 1) = "adding"
        /\ OwnerIs(r, b, f + 1, q, f + 1) = "busy"
        /\ \A m \in 1..MaxLogins : m # f + 1 =>
             OwnerIs(r, b, f + 1, q, m) = OwnerIs("attach", p, f, q, m)
    BY <1>7, <1>8, <1>11 DEF OwnerIs, Outside
  <2>3. /\ OwnersOn(k)[<<c, f + 1>>] = "adding"
        /\ OwnersOn(k)' = [OwnersOn(k) EXCEPT ![<<c, f + 1>>] = "busy"]
    <3>1. /\ OwnerIs(pc[c], at[c], field[c][k], q, f + 1) = "adding"
          /\ OwnerIs(pc'[c], at'[c], field'[c][k], q, f + 1) = "busy"
          /\ \A m \in 1..MaxLogins : m # f + 1 =>
               OwnerIs(pc'[c], at'[c], field'[c][k], q, m)
                 = OwnerIs(pc[c], at[c], field[c][k], q, m)
      BY <1>1, <1>2, <1>3, <1>6, <1>10, <1>11, <2>2
    <3>2. PICK g \in 1..MaxLogins : g = f + 1
      BY <2>1
    <3>3. /\ OwnersOn(k)[<<c, g>>] = OwnerIs(pc[c], at[c], field[c][k], q, g)
          /\ OwnersOn(k)' = [OwnersOn(k) EXCEPT ![<<c, g>>] =
                                OwnerIs(pc'[c], at'[c], field'[c][k], q, g)]
      BY <1>7, <1>10, <3>1, <3>2, OneOwnerMoves DEF IInv
    <3> QED
      BY <3>1, <3>2, <3>3
  <2>4. PICK l \in Channels : l = <<c, f + 1>>
    BY <2>1 DEF Channels
  <2>5. mutex[k] = Unlocked /\ listeners'[k] = AddListener(listeners[k], l)
    BY <1>2, <1>3, <1>8, <1>11, <2>4 DEF AddListenerOf, LockFree, IInv, TypeOK
  <2>6. Sig(k)!AddListener(listeners[k], l) = AddListener(listeners[k], l)
    BY DEF AddListener, Sig!AddListener
  <2>7. Sig(k)!Add(l)
    BY <1>2, <1>9, <2>3, <2>4, <2>5, <2>6 DEF Sig!Add, Sig!OwnerGoes, PhasesOn, OwnersOn
  <2> QED
    BY <2>7 DEF Sig!Next, Sig!OwnerStep
<1>12. CASE p # q
  <2>1. Still(k)
    BY <1>2, <1>8, <1>9, <1>12 DEF Still, AddListenerOf, IInv, TypeOK
  <2>2. /\ \A m \in 1..MaxLogins : m # f + 1 =>
             OwnerIs(r, b, f, q, m) = OwnerIs("attach", p, f, q, m)
        /\ \/ OwnerIs(r, b, f, q, f + 1) = OwnerIs("attach", p, f, q, f + 1)
           \/ /\ OwnerIs("attach", p, f, q, f + 1) = "new"
              /\ OwnerIs(r, b, f, q, f + 1) = "adding"
    BY <1>7, <1>8, <1>12 DEF OwnerIs, Outside
  <2> QED
    BY <1>1, <1>2, <1>3, <1>6, <1>7, <1>10, <1>12, <2>1, <2>2, ConnSteps DEF IInv
<1> QED
  BY <1>11, <1>12

(* The loop of a dispatch has begun when it has the lock. *)
Begun == \A k \in Kind : mutex[k] # Unlocked => pos[k] # 0

LEMMA BegunStays ==
  ASSUME IInv, Begun, [Next]_vars
  PROVE  Begun'
<1>1. CASE UNCHANGED <<mutex, pos>>
  BY <1>1 DEF Begun
<1>2. ASSUME NEW e \in DOMAIN dispatch, Acquire(e) PROVE Begun'
  BY <1>2, DispatchFacts DEF Acquire, Begun, IInv, TypeOK
<1>3. ASSUME NEW e \in DOMAIN dispatch, Release(e) PROVE Begun'
  BY <1>3, DispatchFacts DEF Release, Begun, IInv, TypeOK
<1>4. ASSUME NEW e \in DOMAIN dispatch, Send(e) PROVE Begun'
  <2>1. PICK k \in Kind, q \in Nat : k = dispatch[e].kind /\ q = pos[k]
    BY DispatchFacts DEF IInv, TypeOK
  <2>2. pos' = [pos EXCEPT ![dispatch[e].kind] = pos[dispatch[e].kind] + 1] /\ mutex' = mutex
    BY <1>4 DEF Send
  <2>3. pos' = [pos EXCEPT ![k] = q + 1] /\ mutex' = mutex /\ q + 1 # 0
    BY <2>1, <2>2
  <2> QED
    BY <2>3 DEF Begun, IInv, TypeOK
<1>5. ASSUME NEW c \in Conn, TakeRequest(c) \/ ReadError(c) \/ Work(c) \/ Walk(c)
      PROVE  UNCHANGED <<mutex, pos>>
  BY <1>5 DEF TakeRequest, ReadError, Work, Walk, Handle, OpenSession, Write,
              RemoveListenerOf, AddListenerOf, signalVars
<1>6. UNCHANGED vars => UNCHANGED <<mutex, pos>>
  BY DEF vars, signalVars
<1> QED
  BY <1>1, <1>2, <1>3, <1>4, <1>5, <1>6 DEF Next

(* The steps of a dispatch: of its own signal, and seen by the others only *)
(* when the connection that it tells turns away from them.                 *)
LEMMA AcquireImplements ==
  ASSUME IInv, IInv', NEW q \in Stations, NEW k \in Kind, k = SignalOrder[q],
         NEW e \in DOMAIN dispatch, Acquire(e)
  PROVE  [Sig(k)!Next]_(Sig(k)!vars)
<1>1. PICK kind \in Kind : kind = dispatch[e].kind
  BY DispatchFacts
<1>2. /\ dispatch[e].phase = "wait" /\ mutex[kind] = Unlocked
      /\ mutex' = [mutex EXCEPT ![kind] = e] /\ pos' = [pos EXCEPT ![kind] = 1]
      /\ UNCHANGED <<authed, pc, at, field, listeners, heard>>
  BY <1>1 DEF Acquire, LockFree, connVars
<1>3. /\ DOMAIN dispatch' = DOMAIN dispatch
      /\ dispatch'[e].kind = kind /\ dispatch'[e].phase = "send"
      /\ \A d \in DOMAIN dispatch : d # e => dispatch'[d] = dispatch[d]
  BY <1>1, PhaseChanges DEF Acquire
<1>4. /\ \A d \in 1..MaxDispatches : d # e => PhaseOn(k, d)' = PhaseOn(k, d)
      /\ PhaseOn(k, e) = IF k = kind THEN "wait" ELSE "new"
      /\ PhaseOn(k, e)' = IF k = kind THEN "send" ELSE "new"
  BY <1>1, <1>2, <1>3 DEF PhaseOn
<1>5. OwnersOn(k)' = OwnersOn(k)
  BY <1>2, OwnersStay DEF IInv
<1>6. e \in 1..MaxDispatches
  BY DispatchFacts
<1>7. CASE k = kind
  <2>1. PhasesOn(k)[e] = "wait" /\ PhasesOn(k)' = [PhasesOn(k) EXCEPT ![e] = "send"]
    BY <1>4, <1>6, <1>7, OnePhaseMoves
  <2>2. mutex[k] = Unlocked /\ mutex'[k] = e /\ pos'[k] = 1
    BY <1>2, <1>7 DEF IInv, TypeOK
  <2>3. Sig(k)!Acquire(e)
    BY <1>2, <1>5, <2>1, <2>2 DEF Sig!Acquire, PhasesOn, OwnersOn
  <2> QED
    BY <1>6, <2>3 DEF Sig!Next, Sig!DispatchStep
<1>8. CASE k # kind
  <2>1. PhasesOn(k)' = PhasesOn(k)
    BY <1>4, <1>8, PhasesStay
  <2>2. mutex'[k] = mutex[k] /\ pos'[k] = pos[k]
    BY <1>2, <1>8 DEF IInv, TypeOK
  <2> QED
    BY <1>2, <1>5, <2>1, <2>2, NothingMoves DEF Still
<1> QED
  BY <1>7, <1>8

LEMMA ReleaseImplements ==
  ASSUME IInv, IInv', Begun, NEW q \in Stations, NEW k \in Kind, k = SignalOrder[q],
         NEW e \in DOMAIN dispatch, Release(e)
  PROVE  [Sig(k)!Next]_(Sig(k)!vars)
<1>1. PICK kind \in Kind : kind = dispatch[e].kind
  BY DispatchFacts
<1>2. /\ dispatch[e].phase = "send" /\ pos[kind] \notin DOMAIN listeners[kind]
      /\ mutex' = [mutex EXCEPT ![kind] = Unlocked] /\ pos' = [pos EXCEPT ![kind] = 0]
      /\ UNCHANGED <<authed, pc, at, field, listeners, heard>>
  BY <1>1 DEF Release, connVars
<1>3. /\ DOMAIN dispatch' = DOMAIN dispatch
      /\ dispatch'[e].kind = kind /\ dispatch'[e].phase = "done"
      /\ \A d \in DOMAIN dispatch : d # e => dispatch'[d] = dispatch[d]
  BY <1>1, PhaseChanges DEF Release
<1>4. /\ \A d \in 1..MaxDispatches : d # e => PhaseOn(k, d)' = PhaseOn(k, d)
      /\ PhaseOn(k, e) = IF k = kind THEN "send" ELSE "new"
      /\ PhaseOn(k, e)' = IF k = kind THEN "done" ELSE "new"
  BY <1>1, <1>2, <1>3 DEF PhaseOn
<1>5. OwnersOn(k)' = OwnersOn(k)
  BY <1>2, OwnersStay DEF IInv
<1>6. e \in 1..MaxDispatches
  BY DispatchFacts
<1>7. CASE k = kind
  <2>1. PhasesOn(k)[e] = "send" /\ PhasesOn(k)' = [PhasesOn(k) EXCEPT ![e] = "done"]
    BY <1>4, <1>6, <1>7, OnePhaseMoves
  <2>2. mutex'[k] = Unlocked /\ pos'[k] = 0
    BY <1>2, <1>7 DEF IInv, TypeOK
  <2>3. pos[k] > Len(listeners[k])
    <3>1. Len(listeners[k]) \in Nat /\ DOMAIN listeners[k] = 1..Len(listeners[k])
      BY LenProperties DEF IInv, TypeOK
    <3>2. mutex[k] = e /\ e # Unlocked
      BY <1>1, <1>2, <1>7, DispatchFacts DEF IInv, LocksFit
    <3>3. pos[k] \in Nat /\ pos[k] # 0
      BY <3>2 DEF IInv, TypeOK, Begun
    <3> QED
      BY <1>2, <1>7, <3>1, <3>3
  <2>4. Sig(k)!Release(e)
    BY <1>2, <1>5, <2>1, <2>2, <2>3 DEF Sig!Release, PhasesOn, OwnersOn
  <2> QED
    BY <1>6, <2>4 DEF Sig!Next, Sig!DispatchStep
<1>8. CASE k # kind
  <2>1. PhasesOn(k)' = PhasesOn(k)
    BY <1>4, <1>8, PhasesStay
  <2>2. mutex'[k] = mutex[k] /\ pos'[k] = pos[k]
    BY <1>2, <1>8 DEF IInv, TypeOK
  <2> QED
    BY <1>2, <1>5, <2>1, <2>2, NothingMoves DEF Still
<1> QED
  BY <1>7, <1>8

(* The one that is told was in its select: for the signal it receives, for *)
(* the others it turns away.                                               *)
LEMMA SendImplements ==
  ASSUME IInv, IInv', NEW q \in Stations, NEW k \in Kind, k = SignalOrder[q],
         NEW e \in DOMAIN dispatch, Send(e)
  PROVE  [Sig(k)!Next]_(Sig(k)!vars)
<1>1. PICK kind \in Kind : kind = dispatch[e].kind
  BY DispatchFacts
<1>2. dispatch[e].phase = "send" /\ pos[kind] \in DOMAIN listeners[kind]
  BY <1>1 DEF Send
<1>3. PICK i \in Nat : i = pos[kind] /\ i \in DOMAIN listeners[kind] /\ i <= Len(listeners[kind])
  BY <1>2, LenProperties DEF IInv, TypeOK
<1>4. PICK c \in Conn, n \in 1..MaxLogins :
        listeners[kind][i] = <<c, n>> /\ listeners[kind][i][1] = c /\ listeners[kind][i][2] = n
  <2>1. listeners[kind][i] \in Channels
    BY <1>3, ElementOfSeq, LenProperties DEF IInv, TypeOK
  <2> QED
    BY <2>1 DEF Channels
<1>5. /\ pc[c] = "select" /\ field[c][kind] = n /\ Goto(c, "notify")
      /\ heard' = [heard EXCEPT ![kind] =
                     [heard[kind] EXCEPT ![<<c, n>>] = Append(heard[kind][<<c, n>>], e)]]
      /\ pos' = [pos EXCEPT ![kind] = i + 1]
      /\ UNCHANGED <<authed, at, field, listeners, mutex, dispatch>>
  BY <1>1, <1>3, <1>4 DEF Send, IInv, TypeOK
<1>6. /\ pc'[c] = "notify"
      /\ \A d \in Conn : d # c => pc'[d] = pc[d] /\ at'[d] = at[d]
  BY <1>5 DEF Goto, IInv, TypeOK
<1>7. PhasesOn(k)' = PhasesOn(k)
  BY <1>5, PhasesStay DEF PhaseOn
<1>8. CASE k = kind
  <2>1. PICK a : a = at[c]
    OBVIOUS
  <2>2. /\ OwnerIs("select", a, n, q, n) = "recv" /\ OwnerIs("notify", a, n, q, n) = "busy"
        /\ \A m \in 1..MaxLogins : m # n =>
             OwnerIs("notify", a, n, q, m) = OwnerIs("select", a, n, q, m)
    BY DEF OwnerIs, Outside
  <2>3. /\ OwnerIs(pc[c], at[c], field[c][k], q, n) = "recv"
        /\ OwnerIs(pc'[c], at'[c], field'[c][k], q, n) = "busy"
        /\ \A m \in 1..MaxLogins : m # n =>
             OwnerIs(pc'[c], at'[c], field'[c][k], q, m) = OwnerIs(pc[c], at[c], field[c][k], q, m)
    BY <1>5, <1>6, <1>8, <2>1, <2>2
  <2>4. /\ OwnersOn(k)[<<c, n>>] = OwnerIs(pc[c], at[c], field[c][k], q, n)
        /\ OwnersOn(k)' = [OwnersOn(k) EXCEPT ![<<c, n>>] =
                              OwnerIs(pc'[c], at'[c], field'[c][k], q, n)]
    <3>1. \A d \in Conn : field'[d][k] = field[d][k]
      BY <1>5
    <3> QED
      BY <1>6, <2>3, <3>1, OneOwnerMoves DEF IInv
  <2>5. OwnersOn(k)[<<c, n>>] = "recv" /\ OwnersOn(k)' = [OwnersOn(k) EXCEPT ![<<c, n>>] = "busy"]
    BY <2>3, <2>4
  <2>6. PhasesOn(k)[e] = "send" /\ e \in 1..MaxDispatches
    BY <1>1, <1>2, <1>8, DispatchFacts DEF PhasesOn, PhaseOn
  <2>7. /\ heard'[k] = [heard[k] EXCEPT ![<<c, n>>] = Append(heard[k][<<c, n>>], e)]
        /\ pos'[k] = i + 1 /\ pos[k] = i
        /\ listeners[k][i] = <<c, n>> /\ i <= Len(listeners[k])
    BY <1>3, <1>4, <1>5, <1>8 DEF IInv, TypeOK
  <2>8. Sig(k)!Send(e)
    BY <1>5, <1>7, <2>5, <2>6, <2>7 DEF Sig!Send, PhasesOn, OwnersOn
  <2> QED
    BY <2>6, <2>8 DEF Sig!Next, Sig!DispatchStep
<1>9. CASE k # kind
  <2>1. Still(k)
    BY <1>5, <1>7, <1>9 DEF Still, IInv, TypeOK
  <2>2. pc[c] \in Outside /\ pc'[c] \in Outside
    BY <1>5, <1>6 DEF Outside
  <2> QED
    BY <1>5, <1>6, <2>1, <2>2, LocalImplements DEF IInv
<1> QED
  BY <1>8, <1>9

(* What the goroutine of a connection does between its walks. *)
LEMMA GoroutineImplements ==
  ASSUME IInv, IInv', NEW q \in Stations, NEW k \in Kind, k = SignalOrder[q],
         NEW c \in Conn, TakeRequest(c) \/ ReadError(c) \/ Work(c)
  PROVE  [Sig(k)!Next]_(Sig(k)!vars)
<1>1. UNCHANGED <<field, listeners, mutex, pos, heard>>
  BY DEF TakeRequest, ReadError, Work, Handle, OpenSession, Write, signalVars
<1>2. CASE \E kind \in Kind : pc[c] = "handle" /\ Publish(kind) /\ UNCHANGED at
                              /\ \E place \in {"session", "reply"} : Goto(c, place)
  <2>1. PICK kind \in Kind : Publish(kind)
    BY <1>2
  <2>2. pc'[c] \in {"session", "reply"} /\ \A d \in Conn : d # c => pc'[d] = pc[d]
    BY <1>2 DEF Goto, IInv, TypeOK
  <2>3. UNCHANGED <<at, field, signalVars, heard>> /\ pc[c] = "handle"
    BY <1>1, <1>2 DEF signalVars
  <2> QED
    BY <2>1, <2>2, <2>3, PublishImplements DEF IInv
<1>3. ASSUME NEW place \in Outside, pc[c] \in Outside, Goto(c, place), UNCHANGED <<at, dispatch>>
      PROVE  [Sig(k)!Next]_(Sig(k)!vars)
  <2>1. Still(k)
    <3>1. PhasesOn(k)' = PhasesOn(k)
      BY <1>3, PhasesStay DEF PhaseOn
    <3> QED
      BY <1>1, <3>1 DEF Still
  <2>2. pc'[c] \in Outside /\ \A d \in Conn : d # c => pc'[d] = pc[d] /\ at'[d] = at[d]
    BY <1>3 DEF Goto, IInv, TypeOK
  <2> QED
    BY <1>1, <1>3, <2>1, <2>2, LocalImplements DEF IInv
<1>4. ASSUME NEW place \in {"detach", "leave"}, pc[c] \in Outside, StartWalk(c, place),
             UNCHANGED dispatch
      PROVE  [Sig(k)!Next]_(Sig(k)!vars)
  <2>1. Still(k)
    <3>1. PhasesOn(k)' = PhasesOn(k)
      BY <1>4, PhasesStay DEF PhaseOn
    <3> QED
      BY <1>1, <3>1 DEF Still
  <2>2. /\ pc'[c] \in {"detach", "leave"} /\ at'[c] = 1
        /\ \A d \in Conn : d # c => pc'[d] = pc[d] /\ at'[d] = at[d]
    BY <1>4 DEF StartWalk, Goto, IInv, TypeOK
  <2> QED
    BY <1>1, <1>4, <2>1, <2>2, LocalImplements DEF IInv
<1>5. CASE TakeRequest(c)
  <2>1. pc[c] \in Outside /\ "handle" \in Outside
    BY <1>5 DEF TakeRequest, Outside
  <2> QED
    BY <1>3, <1>5, <2>1 DEF TakeRequest
<1>6. CASE ReadError(c)
  BY <1>4, <1>6 DEF ReadError, Outside
<1>7. CASE Write(c)
  <2>1. pc[c] \in Outside /\ "select" \in Outside
    BY <1>7 DEF Write, Outside
  <2> QED
    BY <1>3, <1>4, <1>7, <2>1 DEF Write
<1>8. CASE OpenSession(c)
  <2>1. pc[c] \in Outside /\ "reply" \in Outside
    BY <1>8 DEF OpenSession, Outside
  <2> QED
    BY <1>3, <1>4, <1>8, <2>1 DEF OpenSession, ReplaceListeners
<1>9. CASE Handle(c)
  <2>1. pc[c] = "handle" /\ pc[c] \in Outside /\ "reply" \in Outside /\ "session" \in Outside
    BY <1>9 DEF Handle, Outside
  <2>2. \A kind : Publish(kind) => kind \in Kind
    BY DEF Publish
  <2>3. CASE ResumeSession(c)
    BY <1>4, <2>1, <2>3 DEF ResumeSession, ReplaceListeners
  <2>4. CASE Answer(c) \/ Login(c) \/ Logout(c)
    BY <1>3, <2>1, <2>4 DEF Answer, Login, Logout
  <2>5. CASE Register(c)
    BY <1>2, <1>3, <2>1, <2>2, <2>5 DEF Register
  <2>6. CASE PostMessage(c) \/ CreateChannel(c) \/ RenameChannel(c)
    BY <1>2, <2>1, <2>2, <2>6 DEF PostMessage, CreateChannel, RenameChannel, PublishRequest
  <2> QED
    BY <1>9, <2>3, <2>4, <2>5, <2>6 DEF Handle
<1> QED
  BY <1>5, <1>6, <1>7, <1>8, <1>9 DEF Work

LEMMA SignalSteps ==
  ASSUME IInv, Begun, [Next]_vars, NEW k \in Kind
  PROVE  [Sig(k)!Next]_(Sig(k)!vars)
<1>1. PICK q \in Stations : k = SignalOrder[q]
  BY StationsAreSignals
<1>2. IInv'
  BY Steps
<1>3. ASSUME NEW c \in Conn, TakeRequest(c) \/ ReadError(c) \/ Work(c)
      PROVE  [Sig(k)!Next]_(Sig(k)!vars)
  BY <1>1, <1>2, <1>3, GoroutineImplements
<1>4. ASSUME NEW c \in Conn, Walk(c) PROVE [Sig(k)!Next]_(Sig(k)!vars)
  BY <1>1, <1>2, <1>4, RemoveImplements, AddImplements DEF Walk
<1>5. ASSUME NEW e \in DOMAIN dispatch, Acquire(e) \/ Send(e) \/ Release(e)
      PROVE  [Sig(k)!Next]_(Sig(k)!vars)
  BY <1>1, <1>2, <1>5, AcquireImplements, SendImplements, ReleaseImplements
<1>6. CASE UNCHANGED vars
  <2>1. UNCHANGED <<authed, pc, at, field, listeners, mutex, pos, dispatch, heard>>
    BY <1>6 DEF vars, connVars, signalVars
  <2>2. PhasesOn(k)' = PhasesOn(k)
    BY <2>1, PhasesStay DEF PhaseOn
  <2>3. OwnersOn(k)' = OwnersOn(k)
    BY <1>1, <1>2, <2>1, OwnersStay DEF IInv
  <2> QED
    BY <2>1, <2>2, <2>3, NothingMoves DEF Still
<1> QED
  BY <1>3, <1>4, <1>5, <1>6 DEF Next

LEMMA SignalsStart == ASSUME Init, NEW k \in Kind PROVE Sig(k)!Init
<1>1. IInv
  BY Starts
<1>2. PICK q \in Stations : k = SignalOrder[q]
  BY StationsAreSignals
<1>3. listeners[k] = << >> /\ mutex[k] = Unlocked /\ pos[k] = 0
  BY DEF Init
<1>4. PhasesOn(k) = [e \in 1..MaxDispatches |-> "new"]
  BY DEF PhasesOn, PhaseOn, Init
<1>5. OwnersOn(k) = [l \in Channels |-> "new"]
  <2>1. ASSUME NEW c \in Conn, NEW n \in 1..MaxLogins PROVE OwnersOn(k)[<<c, n>>] = "new"
    <3>1. OwnersOn(k)[<<c, n>>] = OwnerIs("select", 0, 0, q, n)
      BY <1>1, <1>2, OwnerNow DEF Init, IInv
    <3>2. OwnerIs("select", 0, 0, q, n) = "new"
      BY DEF OwnerIs
    <3> QED
      BY <3>1, <3>2
  <2>2. ASSUME NEW l \in Channels PROVE OwnerOf(k, l) = "new"
    <3>1. PICK c \in Conn, n \in 1..MaxLogins : l = <<c, n>>
      BY DEF Channels
    <3>2. OwnersOn(k)[l] = OwnerOf(k, l)
      BY DEF OwnersOn
    <3> QED
      BY <2>1, <3>1, <3>2
  <2> QED
    BY <2>2 DEF OwnersOn
<1>6. heard[k] = [l \in Channels |-> << >>]
  BY DEF Init
<1> QED
  BY <1>3, <1>4, <1>5, <1>6 DEF Sig!Init, PhasesOn, OwnersOn

(* Each of the four signals, with the connections as the owners of its     *)
(* channels, behaves as Signal.tla says: the goroutines of ws.go make,     *)
(* add, serve and remove the channels in the order its owners are to keep  *)
(* to, through logins, write errors and the ends of connections, and one   *)
(* signal moves without regard to the others.                              *)
THEOREM SignalsAreImplemented == SafeSpec => ImplementsSignals
<1>1. Init => \A k \in Kind : Sig(k)!Init
  BY SignalsStart
<1>2. Init => Begun
  BY DEF Init, Begun
<1>3. IInv /\ Begun /\ [Next]_vars => Begun'
  BY BegunStays
<1>4. IInv /\ Begun /\ [Next]_vars => \A k \in Kind : [Sig(k)!Next]_(Sig(k)!vars)
  BY SignalSteps
<1> QED
  BY <1>1, <1>2, <1>3, <1>4, Invariance, PTL DEF SafeSpec, ImplementsSignals
=============================================================================
