------------------------- MODULE BrowserSessionProofs -------------------------
(***************************************************************************)
(* The page keeps its accounts, for any numbers of connections and acts of *)
(* the user: a request that is pending is one that the server has yet to   *)
(* answer, the notice says so, and #view shows what the hash names.        *)
(***************************************************************************)
EXTENDS BrowserSession, SequenceTheorems, TLAPS

AnyRequest == [id : Nat, method : Methods]

(* The ids that were given are below the next one. *)
Numbered ==
  /\ nextID \in Nat
  /\ pending \subseteq AnyRequest /\ stuck \subseteq AnyRequest
  /\ wire \in Seq(AnyRequest)
  /\ \A r \in pending \cup stuck : r.id < nextID
  /\ \A i \in DOMAIN wire : wire[i].id < nextID

(* The server owes an answer to each request once. *)
OwedOnce == \A i, j \in DOMAIN wire : wire[i] = wire[j] => i = j

(* Nothing is on its way without a connection, and what is sent too early, *)
(* while there is none, is stuck.                                          *)
ClosedFits ==
  /\ ws \in {"connecting", "open", "closed"}
  /\ ws # "open" => wire = <<>>
  /\ ws = "connecting" => pending \subseteq stuck

Owed == {wire[i] : i \in DOMAIN wire}

RequestInv == Numbered /\ OwedOnce /\ ClosedFits /\ PendingIsOwed /\ NoticeWhilePending

PageInv ==
  /\ events \in Nat /\ routers \in Nat /\ chats \in Nat /\ resumed \in Nat
  /\ bare \in Nat /\ bare <= chats /\ resumed <= chats
  /\ routers = 0 => shown.page = "blank"
  /\ ShownMatchesHash

-----------------------------------------------------------------------------
(* The queue of the server. *)

LEMMA SeqFacts ==
  ASSUME NEW S, NEW s \in Seq(S)
  PROVE  \E n \in Nat : n = Len(s) /\ DOMAIN s = 1..n /\ \A i \in 1..n : s[i] \in S
BY LenProperties, ElementOfSeq

(* The first answer is given. *)
LEMMA FirstAnswered ==
  ASSUME NEW S, NEW s \in Seq(S), s # <<>>, NEW r, r = Head(s),
         \A i, j \in DOMAIN s : s[i] = s[j] => i = j
  PROVE  /\ r \in S /\ r \in {s[i] : i \in DOMAIN s}
         /\ Tail(s) \in Seq(S)
         /\ \A i, j \in DOMAIN Tail(s) : Tail(s)[i] = Tail(s)[j] => i = j
         /\ {Tail(s)[i] : i \in DOMAIN Tail(s)} = {s[i] : i \in DOMAIN s} \ {r}
<1>1. PICK n \in Nat \ {0} : n = Len(s) /\ DOMAIN s = 1..n /\ r = s[1] /\ \A i \in 1..n : s[i] \in S
  BY EmptySeq, SeqFacts
<1>2. PICK t \in Seq(S) : t = Tail(s)
  BY HeadTailProperties
<1>3. DOMAIN t = 1..(n - 1) /\ \A i \in 1..(n - 1) : t[i] = s[i + 1]
  BY <1>1, <1>2, HeadTailProperties, LenProperties
<1>4. \A i \in 1..(n - 1) : i + 1 \in 1..n /\ i + 1 # 1
  OBVIOUS
<1>5. \A i, j \in 1..(n - 1) : t[i] = t[j] => i = j
  <2> SUFFICES ASSUME NEW i \in 1..(n - 1), NEW j \in 1..(n - 1), t[i] = t[j] PROVE i = j
    OBVIOUS
  <2>1. s[i + 1] = s[j + 1]
    BY <1>3
  <2>2. i + 1 = j + 1
    BY <1>1, <1>4, <2>1
  <2> QED
    BY <2>2
<1>6. \A i \in 1..(n - 1) : t[i] \in {s[j] : j \in 1..n} /\ t[i] # r
  <2> SUFFICES ASSUME NEW i \in 1..(n - 1) PROVE t[i] \in {s[j] : j \in 1..n} /\ t[i] # r
    OBVIOUS
  <2>1. t[i] = s[i + 1] /\ i + 1 \in 1..n /\ i + 1 # 1 /\ 1 \in 1..n
    BY <1>3, <1>4
  <2> QED
    BY <1>1, <2>1
<1>7. \A j \in 1..n : s[j] # r => s[j] \in {t[i] : i \in 1..(n - 1)}
  <2> SUFFICES ASSUME NEW j \in 1..n, s[j] # r PROVE \E i \in 1..(n - 1) : s[j] = t[i]
    OBVIOUS
  <2>1. j # 1
    BY <1>1
  <2>2. PICK i \in 1..(n - 1) : i + 1 = j
    BY <2>1
  <2> QED
    BY <1>3, <2>2
<1>8. {t[i] : i \in 1..(n - 1)} = {s[i] : i \in 1..n} \ {r}
  BY <1>6, <1>7
<1>9. r \in S /\ r \in {s[i] : i \in 1..n}
  BY <1>1
<1>10. /\ \A i, j \in DOMAIN t : t[i] = t[j] => i = j
       /\ {t[i] : i \in DOMAIN t} = {s[i] : i \in DOMAIN s} \ {r}
  BY <1>1, <1>3, <1>5, <1>8
<1>11. r \in S /\ r \in {s[i] : i \in DOMAIN s}
  BY <1>1, <1>9
<1> QED
  BY <1>2, <1>10, <1>11

(* A request is sent. *)
LEMMA OneMoreOwed ==
  ASSUME NEW S, NEW s \in Seq(S), NEW e \in S,
         \A i, j \in DOMAIN s : s[i] = s[j] => i = j,
         \A i \in DOMAIN s : s[i] # e
  PROVE  /\ Append(s, e) \in Seq(S)
         /\ \A i, j \in DOMAIN Append(s, e) : Append(s, e)[i] = Append(s, e)[j] => i = j
         /\ {Append(s, e)[i] : i \in DOMAIN Append(s, e)} = {s[i] : i \in DOMAIN s} \cup {e}
<1>1. PICK n \in Nat : n = Len(s) /\ DOMAIN s = 1..n
  BY SeqFacts
<1>2. PICK t \in Seq(S) : t = Append(s, e)
  BY AppendProperties
<1>3. DOMAIN t = 1..(n + 1) /\ t[n + 1] = e /\ \A i \in 1..n : t[i] = s[i]
  BY <1>1, <1>2, AppendProperties, LenProperties
<1>4. \A i \in 1..(n + 1) : i \in 1..n \/ i = n + 1
  OBVIOUS
<1>5. \A i, j \in 1..(n + 1) : t[i] = t[j] => i = j
  BY <1>1, <1>3, <1>4
<1>6. {t[i] : i \in 1..(n + 1)} = {s[i] : i \in 1..n} \cup {e}
  <2>1. \A i \in 1..(n + 1) : t[i] \in {s[j] : j \in 1..n} \cup {e}
    BY <1>3, <1>4
  <2>2. \A i \in 1..n : s[i] = t[i] /\ i \in 1..(n + 1)
    BY <1>3
  <2>3. e = t[n + 1] /\ n + 1 \in 1..(n + 1)
    BY <1>3
  <2> QED
    BY <2>1, <2>2, <2>3
<1> QED
  BY <1>1, <1>2, <1>3, <1>5, <1>6

-----------------------------------------------------------------------------
(* The requests. *)

(* sendRequest, on a socket that is open or not.  q is what the server     *)
(* owes: on a socket that has just opened, nothing.                        *)
LEMMA SendKeeps ==
  ASSUME RequestInv, NEW m \in Methods, NEW w, w = ws', NEW q, q = wire,
         SendRequest(m, w, pending, q),
         w \in {"connecting", "open", "closed"},
         ws # w => ws = "connecting" /\ w = "open" /\ pending \subseteq stuck
  PROVE  RequestInv'
<1> DEFINE r == [id |-> nextID, method |-> m]
<1>1. /\ r \in AnyRequest
      /\ r \notin pending /\ r \notin stuck /\ \A i \in DOMAIN wire : wire[i] # r
      /\ nextID \in Nat
  BY DEF RequestInv, Numbered, AnyRequest
<1>2. /\ nextID' = nextID + 1
      /\ pending' = pending \cup {r}
      /\ stuck' = IF w = "connecting" THEN stuck \cup {r} ELSE stuck
      /\ wire' = IF w = "open" THEN Append(wire, r) ELSE wire
      /\ notice' = (notice \/ pending = {})
  BY DEF SendRequest, FirstStarted
<1>3. NoticeWhilePending'
  BY <1>2 DEF RequestInv, NoticeWhilePending
<1>4. PICK s \in Seq(AnyRequest) : s = wire /\ \A i, j \in DOMAIN s : s[i] = s[j] => i = j
  BY DEF RequestInv, Numbered, OwedOnce
<1>5. PICK t \in Seq(AnyRequest) :
        /\ t = wire'
        /\ \A i, j \in DOMAIN t : t[i] = t[j] => i = j
        /\ {t[i] : i \in DOMAIN t} = IF w = "open" THEN Owed \cup {r} ELSE Owed
  <2>1. CASE w = "open"
    <3>1. PICK u : u = Append(s, r)
      OBVIOUS
    <3>2. /\ u \in Seq(AnyRequest)
          /\ \A i, j \in DOMAIN u : u[i] = u[j] => i = j
          /\ {u[i] : i \in DOMAIN u} = {s[i] : i \in DOMAIN s} \cup {r}
      BY <1>1, <1>4, <3>1, OneMoreOwed
    <3>3. u = wire' /\ Owed = {s[i] : i \in DOMAIN s}
      BY <1>2, <1>4, <2>1, <3>1 DEF Owed
    <3> QED
      BY <2>1, <3>2, <3>3
  <2>2. CASE w # "open"
    BY <1>2, <1>4, <2>2 DEF Owed
  <2> QED
    BY <2>1, <2>2
<1>6. OwedOnce'
  BY <1>5 DEF OwedOnce
<1>7. Numbered'
  <2>1. \A o \in Owed : o.id < nextID
    BY DEF Owed, RequestInv, Numbered
  <2>2. \A o \in Owed \cup {r} : o \in AnyRequest => o.id < nextID + 1
    BY <1>1, <2>1 DEF AnyRequest
  <2>3. PICK n \in Nat : DOMAIN t = 1..n /\ \A i \in 1..n : t[i] \in AnyRequest
    BY SeqFacts
  <2>4. \A i \in DOMAIN t : t[i].id < nextID + 1
    <3>1. \A i \in DOMAIN t : t[i] \in Owed \cup {r} /\ t[i] \in AnyRequest
      BY <1>5, <2>3
    <3> QED
      BY <2>2, <3>1
  <2>5. \A o \in (pending \cup {r}) \cup (stuck \cup {r}) : o.id < nextID + 1
    BY <1>1 DEF RequestInv, Numbered, AnyRequest
  <2> QED
    BY <1>1, <1>2, <1>5, <2>4, <2>5 DEF RequestInv, Numbered
<1>8. ClosedFits'
  BY <1>2 DEF RequestInv, ClosedFits
<1>9. PendingIsOwed'
  <2> SUFFICES ASSUME w = "open" PROVE pending' \ stuck' = {t[i] : i \in DOMAIN t}
    BY <1>5 DEF PendingIsOwed
  <2>1. pending \ stuck = Owed
    <3>1. CASE ws = "open"
      BY <3>1 DEF RequestInv, PendingIsOwed, Owed
    <3>2. CASE ws # "open"
      <4>1. Owed = {}
        BY <3>2 DEF Owed, RequestInv, ClosedFits
      <4> QED
        BY <3>2, <4>1
    <3> QED
      BY <3>1, <3>2
  <2> QED
    BY <1>1, <1>2, <1>5, <2>1
<1> QED
  BY <1>3, <1>6, <1>7, <1>8, <1>9 DEF RequestInv

(* An answer is taken. *)
LEMMA AnswerTaken ==
  ASSUME RequestInv, ws = "open", wire # <<>>, NEW r, r = Head(wire)
  PROVE  /\ r \in pending /\ r \notin stuck /\ r \in AnyRequest /\ r.id < nextID
         /\ Tail(wire) \in Seq(AnyRequest)
         /\ \A i, j \in DOMAIN Tail(wire) : Tail(wire)[i] = Tail(wire)[j] => i = j
         /\ {Tail(wire)[i] : i \in DOMAIN Tail(wire)} = (pending \ stuck) \ {r}
<1>1. /\ r \in AnyRequest /\ r \in Owed
      /\ Tail(wire) \in Seq(AnyRequest)
      /\ \A i, j \in DOMAIN Tail(wire) : Tail(wire)[i] = Tail(wire)[j] => i = j
      /\ {Tail(wire)[i] : i \in DOMAIN Tail(wire)} = Owed \ {r}
  BY FirstAnswered DEF RequestInv, Numbered, OwedOnce, Owed
<1>2. pending \ stuck = Owed
  BY DEF RequestInv, PendingIsOwed, Owed
<1>3. r \in pending /\ r \notin stuck
  BY <1>1, <1>2
<1>4. r.id < nextID
  BY <1>3 DEF RequestInv, Numbered
<1> QED
  BY <1>1, <1>2, <1>3, <1>4

(* What is pending, stuck and owed after it, and what that has to be.      *)
LEMMA AnswerKeeps ==
  ASSUME RequestInv, ws = "open", ws' = "open",
         nextID' \in Nat, nextID <= nextID',
         pending' \subseteq AnyRequest, stuck' \subseteq AnyRequest,
         \A r \in pending' \cup stuck' : r.id < nextID',
         wire' \in Seq(AnyRequest),
         \A i, j \in DOMAIN wire' : wire'[i] = wire'[j] => i = j,
         pending' \ stuck' = {wire'[i] : i \in DOMAIN wire'},
         pending' # {} => notice'
  PROVE  RequestInv'
<1>1. \A i \in DOMAIN wire' : wire'[i].id < nextID'
  <2>1. \A i \in DOMAIN wire' : wire'[i] \in pending'
    OBVIOUS
  <2> QED
    BY <2>1
<1> QED
  BY <1>1 DEF RequestInv, Numbered, OwedOnce, ClosedFits, PendingIsOwed, NoticeWhilePending

LEMMA SettleKeeps ==
  ASSUME RequestInv, ws = "open", ws' = ws, wire # <<>>, Settle(Head(wire))
  PROVE  RequestInv'
<1>1. PICK r : r = Head(wire)
  OBVIOUS
<1>2. PICK t \in Seq(AnyRequest) :
        /\ t = wire' /\ r \in pending /\ r \notin stuck
        /\ \A i, j \in DOMAIN t : t[i] = t[j] => i = j
        /\ {t[i] : i \in DOMAIN t} = (pending \ stuck) \ {r}
  BY <1>1, AnswerTaken DEF Settle
<1>3. /\ pending' = pending \ {r} /\ UNCHANGED <<stuck, nextID>>
      /\ notice' = (notice /\ pending' # {})
  BY <1>1 DEF Settle
<1>4. pending' # {} => notice'
  BY <1>3 DEF RequestInv, NoticeWhilePending
<1>5. /\ nextID' \in Nat /\ nextID <= nextID'
      /\ pending' \subseteq AnyRequest /\ stuck' \subseteq AnyRequest
      /\ \A o \in pending' \cup stuck' : o.id < nextID'
  BY <1>3 DEF RequestInv, Numbered
<1>6. pending' \ stuck' = {wire'[i] : i \in DOMAIN wire'}
  BY <1>2, <1>3
<1> QED
  BY <1>2, <1>4, <1>5, <1>6, AnswerKeeps

LEMMA ThrowKeeps ==
  ASSUME RequestInv, ws = "open", ws' = ws, wire # <<>>, Throw(Head(wire))
  PROVE  RequestInv'
<1>1. PICK r : r = Head(wire)
  OBVIOUS
<1>2. PICK t \in Seq(AnyRequest) :
        /\ t = wire' /\ r \in AnyRequest /\ r.id < nextID
        /\ \A i, j \in DOMAIN t : t[i] = t[j] => i = j
        /\ {t[i] : i \in DOMAIN t} = (pending \ stuck) \ {r}
  BY <1>1, AnswerTaken DEF Throw
<1>3. stuck' = stuck \cup {r} /\ UNCHANGED <<pending, nextID, notice>>
  BY <1>1 DEF Throw
<1>4. pending' # {} => notice'
  BY <1>3 DEF RequestInv, NoticeWhilePending
<1>5. /\ nextID' \in Nat /\ nextID <= nextID'
      /\ pending' \subseteq AnyRequest /\ stuck' \subseteq AnyRequest
      /\ \A o \in pending' \cup stuck' : o.id < nextID'
  BY <1>2, <1>3 DEF RequestInv, Numbered
<1>6. pending' \ stuck' = {wire'[i] : i \in DOMAIN wire'}
  BY <1>2, <1>3
<1> QED
  BY <1>2, <1>4, <1>5, <1>6, AnswerKeeps

(* The notice stays, because the answered request was still pending when   *)
(* the next one was sent.                                                  *)
LEMMA FollowKeeps ==
  ASSUME RequestInv, ws = "open", ws' = ws, wire # <<>>, NEW m \in Methods, Follow(Head(wire), m)
  PROVE  RequestInv'
<1>1. PICK r : r = Head(wire)
  OBVIOUS
<1>2. PICK e \in AnyRequest : e = [id |-> nextID, method |-> m] /\ e.id = nextID
  <2>1. nextID \in Nat
    BY DEF RequestInv, Numbered
  <2>2. [id |-> nextID, method |-> m] \in AnyRequest /\ [id |-> nextID, method |-> m].id = nextID
    BY <2>1 DEF AnyRequest
  <2> QED
    BY <2>2
<1>3. PICK t \in Seq(AnyRequest) :
        /\ t = Tail(wire) /\ r \in pending /\ r.id < nextID
        /\ \A i, j \in DOMAIN t : t[i] = t[j] => i = j
        /\ {t[i] : i \in DOMAIN t} = (pending \ stuck) \ {r}
  BY <1>1, AnswerTaken
<1>4. /\ nextID' = nextID + 1
      /\ pending' = (pending \cup {e}) \ {r}
      /\ wire' = Append(t, e)
      /\ UNCHANGED <<stuck, notice>>
  BY <1>1, <1>2, <1>3 DEF Follow
<1>5. nextID \in Nat /\ e \notin pending /\ e \notin stuck /\ e # r
  BY <1>2, <1>3 DEF RequestInv, Numbered
<1>6. \A i \in DOMAIN t : t[i] # e
  BY <1>3, <1>5
<1>7. /\ wire' \in Seq(AnyRequest)
      /\ \A i, j \in DOMAIN wire' : wire'[i] = wire'[j] => i = j
      /\ {wire'[i] : i \in DOMAIN wire'} = ((pending \ stuck) \ {r}) \cup {e}
  BY <1>3, <1>4, <1>6, OneMoreOwed
<1>8. notice'
  BY <1>3, <1>4 DEF RequestInv, NoticeWhilePending
<1>9. \A o \in pending' \cup stuck' : o.id < nextID'
  <2>1. \A o \in pending \cup stuck : o.id < nextID /\ o.id \in Nat
    BY DEF RequestInv, Numbered, AnyRequest
  <2> QED
    BY <1>2, <1>4, <1>5, <2>1
<1>10. /\ nextID' \in Nat /\ nextID <= nextID'
       /\ pending' \subseteq AnyRequest /\ stuck' \subseteq AnyRequest
  BY <1>4, <1>5 DEF RequestInv, Numbered
<1>11. pending' \ stuck' = {wire'[i] : i \in DOMAIN wire'}
  BY <1>4, <1>5, <1>7
<1> QED
  BY <1>7, <1>8, <1>9, <1>10, <1>11, AnswerKeeps

LEMMA RequestsStart == Init => RequestInv
<1> SUFFICES ASSUME Init PROVE RequestInv
  OBVIOUS
<1>1. Numbered /\ OwedOnce
  BY DEF Init, Numbered, OwedOnce
<1> QED
  BY <1>1 DEF Init, RequestInv, ClosedFits, PendingIsOwed, NoticeWhilePending

LEMMA RequestsStep == RequestInv /\ [Next]_vars => RequestInv'
<1> SUFFICES ASSUME RequestInv, [Next]_vars PROVE RequestInv'
  OBVIOUS
<1>1. ASSUME UNCHANGED <<ws, requestVars>> PROVE RequestInv'
  BY <1>1 DEF requestVars, RequestInv, Numbered, OwedOnce, ClosedFits, PendingIsOwed, NoticeWhilePending
<1>2. CASE Open
  <2>1. ws = "connecting" /\ ws' = "open" /\ wire = <<>> /\ pending \subseteq stuck
    BY <1>2 DEF Open, RequestInv, ClosedFits
  <2>2. CASE SendRequest("resume", "open", pending, <<>>)
    <3>1. "resume" \in Methods
      BY DEF Methods
    <3> QED
      BY <2>1, <2>2, <3>1, SendKeeps
  <2>3. CASE UNCHANGED requestVars
    <3>1. pending \ stuck = {} /\ {wire[i] : i \in DOMAIN wire} = {}
      BY <2>1
    <3> QED
      BY <2>1, <2>3, <3>1 DEF requestVars, RequestInv, Numbered, OwedOnce, ClosedFits, PendingIsOwed,
                              NoticeWhilePending
  <2> QED
    BY <1>2, <2>2, <2>3 DEF Open
<1>3. CASE Close
  <2>1. <<>> \in Seq(AnyRequest)
    OBVIOUS
  <2> QED
    BY <1>3, <2>1 DEF Close, RequestInv, Numbered, OwedOnce, ClosedFits, PendingIsOwed, NoticeWhilePending
<1>4. CASE Connect
  BY <1>4 DEF Connect, Forget, RequestInv, Numbered, OwedOnce, ClosedFits, PendingIsOwed, NoticeWhilePending
<1>5. CASE Answer
  <2>1. /\ ws = "open" /\ ws' = ws /\ wire # <<>>
        /\ Succeed(Head(wire)) \/ Fail(Head(wire))
    BY <1>5 DEF Answer
  <2>2. \/ Settle(Head(wire)) \/ Throw(Head(wire))
        \/ \E m \in Methods : Follow(Head(wire), m)
    BY <2>1 DEF Succeed, Fail, Methods
  <2> QED
    BY <2>1, <2>2, SettleKeeps, ThrowKeeps, FollowKeeps
<1>6. CASE Submit
  <2>1. /\ SendRequest(FormOf[shown.page], ws, pending, wire) /\ ws' = ws
        /\ FormOf[shown.page] \in Methods
    BY <1>6 DEF Submit, Pages, FormOf, Methods
  <2>2. ws \in {"connecting", "open", "closed"}
    BY DEF RequestInv, ClosedFits
  <2> QED
    BY <2>1, <2>2, SendKeeps
<1> QED
  BY <1>1, <1>2, <1>3, <1>4, <1>5, <1>6 DEF Next, HashChange, Logout, Visit, vars

-----------------------------------------------------------------------------
(* The page. *)

(* A new router shows the page that it navigates to. *)
LEMMA StartShows ==
  ASSUME PageInv, NEW h \in Pages \ {"home"}, Start(h), UNCHANGED <<chats, bare, resumed>>
  PROVE  PageInv'
BY DEF PageInv, Start, Navigate, CanMake, PageOf, ShownMatchesHash, Pages

LEMMA ChatMade ==
  ASSUME PageInv, MakeChat
  PROVE  chats' = chats + 1 /\ bare' \in Nat /\ bare <= bare' /\ bare' <= chats'
BY DEF PageInv, MakeChat

(* The home page of a session that was resumed has its chat, or that chat  *)
(* has no channel and #view is what it was.                                *)
LEMMA ResumedShows ==
  ASSUME PageInv, MakeChat, Start("home"), resumed' = chats'
  PROVE  PageInv'
<1>1. /\ chats' \in Nat /\ bare' \in Nat /\ bare' <= chats' /\ resumed' <= chats'
      /\ events' \in Nat /\ routers' \in Nat \ {0}
  BY ChatMade DEF PageInv, Start, Navigate
<1>2. CASE chats' > bare'
  BY <1>1, <1>2 DEF PageInv, Start, Navigate, CanMake, PageOf, ShownMatchesHash
<1>3. CASE chats' <= bare'
  <2>1. shown' = shown /\ hash' = "home" /\ resumed' <= bare'
    BY <1>1, <1>3 DEF Start, Navigate, CanMake
  <2>2. events' = 0 => shown.page \in {"home", "blank"}
    BY DEF PageInv, Start, Navigate, ShownMatchesHash
  <2> QED
    BY <1>1, <2>1, <2>2 DEF PageInv, ShownMatchesHash
<1> QED
  BY <1>1, <1>2, <1>3

(* Another hash gives an event, and the same one changes nothing. *)
LEMMA GoShows ==
  ASSUME PageInv, NEW h, Navigate(h), UNCHANGED <<routers, resumed, shown>>,
         MakeChat \/ UNCHANGED <<chats, bare>>
  PROVE  PageInv'
<1>1. /\ chats' \in Nat /\ bare' \in Nat /\ bare <= bare' /\ bare' <= chats'
      /\ chats <= chats' /\ events' \in Nat
  BY ChatMade DEF PageInv, Navigate
<1>2. CASE h = hash
  BY <1>1, <1>2 DEF PageInv, Navigate, ShownMatchesHash
<1>3. CASE h # hash
  <2>1. events' # 0
    BY <1>3 DEF PageInv, Navigate
  <2> QED
    BY <1>1, <2>1 DEF PageInv, Navigate, ShownMatchesHash
<1> QED
  BY <1>2, <1>3

LEMMA HashChangeShows == ASSUME PageInv, HashChange PROVE PageInv'
<1>1. CASE routers > 0 /\ hash = "unrouted" /\ events' = events
  BY <1>1 DEF HashChange, PageInv, ShownMatchesHash
<1>2. CASE /\ routers > 0 /\ hash # "unrouted"
           /\ events' = events - 1
           /\ \/ CanMake(hash, chats, bare) /\ shown' = PageOf(hash, chats)
              \/ hash = "home" /\ shown' = [page |-> "blank", chat |-> chats]
           /\ UNCHANGED hash
  BY <1>2 DEF HashChange, PageInv, PageOf, ShownMatchesHash
<1>3. CASE routers = 0 /\ events' = events - 1
  BY <1>3 DEF HashChange, PageInv, ShownMatchesHash
<1> QED
  BY <1>1, <1>2, <1>3 DEF HashChange

LEMMA AnswerShows == ASSUME PageInv, Answer PROVE PageInv'
<1>1. CASE Stay
  BY <1>1 DEF Stay, pageVars, PageInv, ShownMatchesHash
<1>2. CASE GotoLogin
  BY <1>2, StartShows DEF GotoLogin, Pages
<1>3. ASSUME NEW h, Go(h) PROVE PageInv'
  BY <1>3, GoShows DEF Go
<1>4. CASE MakeChat /\ Start("home") /\ resumed' = chats'
  BY <1>4, ResumedShows
<1>5. CASE GoHome \/ ChannelSaved
  BY <1>5, GoShows DEF GoHome, ChannelSaved
<1>6. ASSUME NEW r, Succeed(r) PROVE PageInv'
  BY <1>1, <1>3, <1>4, <1>5, <1>6 DEF Succeed
<1>7. ASSUME NEW r, Fail(r) PROVE PageInv'
  BY <1>1, <1>2, <1>7 DEF Fail
<1> QED
  BY <1>6, <1>7 DEF Answer

LEMMA PageStarts == Init => PageInv
BY DEF Init, Blank, PageInv, ShownMatchesHash

LEMMA PageSteps == PageInv /\ [Next]_vars => PageInv'
<1> SUFFICES ASSUME PageInv, [Next]_vars PROVE PageInv'
  OBVIOUS
<1>1. CASE UNCHANGED pageVars
  BY <1>1 DEF pageVars, PageInv, ShownMatchesHash
<1>2. ASSUME NEW h, Go(h) PROVE PageInv'
  BY <1>2, GoShows DEF Go
<1>3. CASE Open
  BY <1>1, <1>3, StartShows DEF Open, GotoLogin, Pages, Stay
<1> QED
  BY <1>1, <1>2, <1>3, HashChangeShows, AnswerShows
     DEF Next, Close, Connect, Submit, Logout, Visit, Stay, vars

-----------------------------------------------------------------------------
LEMMA RequestsAreKept == Spec => []RequestInv
BY RequestsStart, RequestsStep, PTL DEF Spec

(* The working notice is shown while a request is pending, although        *)
(* callbacks send requests of their own before that of theirs is deleted   *)
(* (connection.js sendRequest, onResponse).                                *)
THEOREM NoticeIsShown == Spec => []NoticeWhilePending
<1>1. RequestInv => NoticeWhilePending
  BY DEF RequestInv
<1> QED
  BY <1>1, RequestsAreKept, PTL

(* On an open connection what waits for a callback is what the server has  *)
(* yet to answer: no answer of one connection is taken for that of another *)
(* (connection.js connect, sendRequest, onResponse).                       *)
THEOREM RequestsAreOwed == Spec => []PendingIsOwed
<1>1. RequestInv => PendingIsOwed
  BY DEF RequestInv
<1> QED
  BY <1>1, RequestsAreKept, PTL

(* When no hashchange is left to handle the newest router shows the page   *)
(* of the hash, with a chat of the session resumed last or a later one; at *)
(* #home it may show nothing instead, when that chat has no channel or a   *)
(* later home page could not be made (router.js, initialize.js, home.js).  *)
THEOREM HashIsShown == Spec => []ShownMatchesHash
<1>1. PageInv => ShownMatchesHash
  BY DEF PageInv
<1> QED
  BY <1>1, PageStarts, PageSteps, PTL DEF Spec
=============================================================================
