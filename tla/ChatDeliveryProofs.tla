------------------------- MODULE ChatDeliveryProofs -------------------------
(***************************************************************************)
(* Nothing that is stored is lost on its way to a page, no message comes   *)
(* to it more than twice, and each time the messages are told they stand   *)
(* in the order of their creation_time: for any number of browsers, users, *)
(* channels, messages and restarts, and in whatever order statements,      *)
(* dispatches, listeners and snapshots come.                               *)
(***************************************************************************)
EXTENDS ChatDelivery, SequenceTheorems, FiniteSetTheorems, TLAPS

Posts == [channel : Channel, author : User]

(* What a message refers to was stored before it, and those that had been  *)
(* dispatched then are dispatched now.                                     *)
StoreFits ==
  /\ \A m \in Message : phase[m] # "new" =>
       post[m] \in Posts /\ {post[m].channel, post[m].author} \subseteq Stored
  /\ \A m \in Message : seen[m] \subseteq {i \in Item : phase[i] = "done"}
  /\ IsFiniteSet(Stored \cap Message)

(* A signal dispatches one item at a time, and a connection that has left  *)
(* addRepositoryListeners listens to all signals.                          *)
SignalsFit ==
  /\ \A i \in Item : phase[i] = "send" => holder[SignalOf(i)] = i
  /\ \A b \in Browser :
       /\ place[b] = "down" => at[b] = 0
       /\ place[b] = "attach" => at[b] < 3
       /\ place[b] = "select" => at[b] = 3
       /\ \A n \in 1..at[b] : b \in listening[SignalOrder[n]]

(* A connection is asked for a chat once: the answer to resume_session,    *)
(* the request, its answer and the Chat made of that follow one another.   *)
AskedOnce(b) ==
  /\ place[b] # "select" => toBrowser[b] = <<>> /\ ~ asked[b] /\ ~ live[b]
  /\ live[b] => chat[b] \in Chats /\ ~ asked[b]
  /\ \A j \in DOMAIN toBrowser[b] : toBrowser[b][j].type # "told" =>
       /\ ~ asked[b] /\ ~ live[b]
       /\ \A l \in DOMAIN toBrowser[b] : l # j => toBrowser[b][l].type = "told"

(* Who is told of an item is told of one that is stored. *)
ToldStored(b) ==
  \A j \in DOMAIN toBrowser[b] :
    toBrowser[b][j].type = "told" => toBrowser[b][j].item \in Stored

(* Where the notifications begin that a Chat will take: at 0 for the Chat  *)
(* that is shown, at an answer to init_chat that is on its way for the     *)
(* Chat which will be made of it.                                          *)
Starts(b) ==
  {n \in 0..Len(toBrowser[b]) : IF n = 0 THEN live[b] ELSE toBrowser[b][n].type = "init"}

View(b, n) == IF n = 0 THEN chat[b] ELSE toBrowser[b][n].data

Has(page, i) ==
  CASE i \in User -> i \in page.users
    [] i \in Channel -> page.channels[i] # <<>>
    [] i \in Message -> \E e \in DOMAIN page.channels[post[i].channel] :
                          i \in Range(page.channels[post[i].channel][e])

IsTold(text, i) == text.type = "told" /\ text.item = i

(* The page has i, or will have it when it has taken what is on its way.   *)
Comes(b, n, i) ==
  \/ Has(View(b, n), i)
  \/ \E l \in DOMAIN toBrowser[b] : l > n /\ IsTold(toBrowser[b][l], i)
  \/ ToCome(b, i)

Complete(b) ==
  \A n \in Starts(b) : \A i \in Stored :
    \/ Comes(b, n, i)
    \/ i \in Message /\ Early(i)
    \/ n = 0 /\ i \in cut[b]

Needs(m) == {post[m].channel, post[m].author}

(* A message comes after its channel and its author. *)
Prepared(b) ==
  \A n \in Starts(b) : \A l \in DOMAIN toBrowser[b] : \A m \in Message :
    l > n /\ IsTold(toBrowser[b][l], m) /\ ~ Early(m) =>
      \A x \in Needs(m) :
        \/ Has(View(b, n), x)
        \/ \E h \in DOMAIN toBrowser[b] : h > n /\ h < l /\ IsTold(toBrowser[b][h], x)

Authored(b) ==
  \A n \in Starts(b) : \A m \in Stored \cap Message :
    Has(View(b, n), m) => post[m].author \in View(b, n).users \/ Early(m)

Holds(page, m) ==
  \E c \in Channel : \E e \in DOMAIN page.channels[c] : m \in Range(page.channels[c][e])

(* A page shows nothing that is not stored. *)
HoldsStored(b) ==
  \A n \in Starts(b) : \A m \in Message : Holds(View(b, n), m) => m \in Stored

Served(b) ==
  ToldStored(b) /\ Complete(b) /\ Prepared(b) /\ Authored(b) /\ HoldsStored(b)

(* The types of what the argument is about: not time and restarts. *)
Types ==
  /\ phase \in [Item -> Phases]
  /\ post \in [Message -> Posts \cup {None}]
  /\ seen \in [Message -> SUBSET Item]
  /\ holder \in [Kind -> Item \cup {None}]
  /\ toServe \in [Kind -> SUBSET Browser]
  /\ listening \in [Kind -> SUBSET Browser]
  /\ place \in [Browser -> {"down", "attach", "select"}]
  /\ at \in [Browser -> 0..3]
  /\ toBrowser \in [Browser -> Seq(Texts)]
  /\ asked \in [Browser -> BOOLEAN]
  /\ chat \in [Browser -> Chats \cup {None}]
  /\ former \in [Browser -> Seq(Chats)]
  /\ live \in [Browser -> BOOLEAN]
  /\ cut \in [Browser -> SUBSET Message]

IInv == Types /\ StoreFits /\ SignalsFit /\ \A b \in Browser : AskedOnce(b) /\ Served(b)

-----------------------------------------------------------------------------
(* The signals. *)
LEMMA ThreeSignals ==
  /\ Len(SignalOrder) = 3
  /\ Kind = {SignalOrder[1], SignalOrder[2], SignalOrder[3]}
  /\ \A n \in 1..3 : SignalOrder[n] \in Kind
  /\ \A k \in Kind : \E n \in 1..3 : SignalOrder[n] = k
  /\ \A i \in Item : SignalOf(i) \in Kind
<1>1. /\ Len(SignalOrder) = 3 /\ DOMAIN SignalOrder = 1..3
      /\ SignalOrder[1] = "channelCreated" /\ SignalOrder[2] = "messagePosted"
      /\ SignalOrder[3] = "userCreated"
  BY DEF SignalOrder
<1>2. Kind = {SignalOrder[1], SignalOrder[2], SignalOrder[3]}
  <2>1. Kind = {SignalOrder[n] : n \in 1..3}
    BY <1>1 DEF Kind, Range
  <2>2. 1..3 = {1, 2, 3}
    OBVIOUS
  <2> QED
    BY <2>1, <2>2
<1>3. \A i \in Item : SignalOf(i) \in Kind
  BY <1>1, <1>2 DEF SignalOf, Item
<1> QED
  BY <1>1, <1>2, <1>3

LEMMA ItemsDiffer ==
  /\ \A i \in User : i \notin Channel /\ i \notin Message /\ i \in Item
  /\ \A i \in Channel : i \notin User /\ i \notin Message /\ i \in Item
  /\ \A i \in Message : i \notin User /\ i \notin Channel /\ i \in Item
  /\ \A i \in Item : i \in User \/ i \in Channel \/ i \in Message
  /\ None \notin Item
BY ItemsAssumption DEF Item

LEMMA TextCases ==
  ASSUME NEW x \in Texts
  PROVE  /\ x.type \in {"resumed", "init", "told"}
         /\ x.type = "init" => x.data \in Chats
         /\ x.type = "told" => x.item \in Item
<1>1. CASE x \in [type : {"resumed"}]
  BY <1>1
<1>2. CASE x \in [type : {"init"}, data : Chats]
  BY <1>2
<1>3. CASE x \in [type : {"told"}, item : Item]
  BY <1>3
<1> QED
  BY <1>1, <1>2, <1>3 DEF Texts

LEMMA TextsAre ==
  /\ [type |-> "resumed"] \in Texts
  /\ \A s \in Chats : [type |-> "init", data |-> s] \in Texts
  /\ \A i \in Item : [type |-> "told", item |-> i] \in Texts
BY DEF Texts

(* What a page has of the users, the channels and the messages. *)
LEMMA HasOne ==
  ASSUME NEW page
  PROVE  /\ \A u \in User : Has(page, u) <=> u \in page.users
         /\ \A c \in Channel : Has(page, c) <=> page.channels[c] # <<>>
         /\ \A m \in Message : Has(page, m) <=>
              \E e \in DOMAIN page.channels[post[m].channel] :
                m \in Range(page.channels[post[m].channel][e])
BY ItemsDiffer DEF Has


(* The posts are all that Has reads of the state. *)
LEMMA HasStays ==
  ASSUME NEW page, NEW i \in Item, i \in Message => post'[i] = post[i]
  PROVE  Has(page, i)' <=> Has(page, i)
<1>1. CASE i \in User
  BY <1>1, ItemsDiffer DEF Has
<1>2. CASE i \in Channel
  BY <1>2, ItemsDiffer DEF Has
<1>3. CASE i \in Message
  BY <1>3, ItemsDiffer DEF Has
<1> QED
  BY <1>1, <1>2, <1>3, ItemsDiffer

-----------------------------------------------------------------------------
(* What a notification does to a Chat. *)

LEMMA InsertAtIs ==
  ASSUME NEW T, NEW s \in Seq(T), NEW e \in T, NEW p \in 1..(Len(s) + 1)
  PROVE  /\ Len(s) \in Nat /\ DOMAIN s = 1..Len(s) /\ p \in Nat
         /\ InsertAt(s, p, e) \in Seq(T) /\ Len(InsertAt(s, p, e)) = Len(s) + 1
         /\ DOMAIN InsertAt(s, p, e) = 1..(Len(s) + 1)
         /\ \A i \in 1..(p - 1) : InsertAt(s, p, e)[i] = s[i]
         /\ InsertAt(s, p, e)[p] = e
         /\ \A i \in (p + 1)..(Len(s) + 1) : InsertAt(s, p, e)[i] = s[i - 1]
<1> DEFINE n == Len(s)
           a == SubSeq(s, 1, p - 1)
           z == SubSeq(s, p, n)
           r == InsertAt(s, p, e)
<1>1. n \in Nat /\ DOMAIN s = 1..n /\ \A i \in 1..n : s[i] \in T
  BY LenProperties, ElementOfSeq
<1>2. p \in Nat /\ p >= 1 /\ p <= n + 1
  BY <1>1
<1>3. a \in Seq(T) /\ Len(a) = p - 1 /\ \A i \in 1..(p - 1) : a[i] = s[i]
  <2>1. \A i \in 1..(p - 1) : s[i] \in T
    BY <1>1, <1>2
  <2>2. /\ a \in Seq(T)
        /\ Len(a) = IF 1 <= p - 1 THEN (p - 1) - 1 + 1 ELSE 0
        /\ \A i \in 1..((p - 1) - 1 + 1) : a[i] = s[1 + i - 1]
    BY <1>2, <2>1, SubSeqProperties
  <2> QED
    BY <1>2, <2>2
<1>4. z \in Seq(T) /\ Len(z) = n - p + 1 /\ \A i \in 1..(n - p + 1) : z[i] = s[p + i - 1]
  <2>1. \A i \in p..n : s[i] \in T
    BY <1>1, <1>2
  <2>2. /\ z \in Seq(T)
        /\ Len(z) = IF p <= n THEN n - p + 1 ELSE 0
        /\ \A i \in 1..(n - p + 1) : z[i] = s[p + i - 1]
    BY <1>1, <1>2, <2>1, SubSeqProperties
  <2> QED
    BY <1>1, <1>2, <2>2
<1> HIDE DEF a, z
<1>5. <<e>> \in Seq(T) /\ Len(<<e>>) = 1 /\ <<e>>[1] = e
  OBVIOUS
<1>6. PICK w \in Seq(T) :
        /\ w = a \o <<e>> /\ Len(w) = p
        /\ \A i \in 1..(p - 1) : w[i] = s[i]
        /\ w[p] = e
  <2>1. /\ a \o <<e>> \in Seq(T) /\ Len(a \o <<e>>) = Len(a) + Len(<<e>>)
        /\ \A i \in 1..(Len(a) + Len(<<e>>)) :
             (a \o <<e>>)[i] = IF i <= Len(a) THEN a[i] ELSE <<e>>[i - Len(a)]
    BY <1>3, <1>5, ConcatProperties
  <2>2. Len(a \o <<e>>) = p
    BY <1>2, <1>3, <1>5, <2>1
  <2>3. \A i \in 1..(p - 1) : (a \o <<e>>)[i] = s[i]
    <3> SUFFICES ASSUME NEW i \in 1..(p - 1) PROVE (a \o <<e>>)[i] = s[i]
      OBVIOUS
    <3>1. i \in 1..(Len(a) + Len(<<e>>)) /\ i <= Len(a)
      BY <1>2, <1>3, <1>5
    <3> QED
      BY <1>3, <2>1, <3>1
  <2>4. (a \o <<e>>)[p] = e
    <3>1. p \in 1..(Len(a) + Len(<<e>>)) /\ ~ (p <= Len(a)) /\ p - Len(a) = 1
      BY <1>2, <1>3, <1>5
    <3> QED
      BY <1>5, <2>1, <3>1
  <2> QED
    BY <2>1, <2>2, <2>3, <2>4
<1>7. r = w \o z
  BY <1>6 DEF InsertAt, a, z
<1>8. /\ r \in Seq(T) /\ Len(r) = n + 1
      /\ \A i \in 1..(n + 1) : r[i] = IF i <= p THEN w[i] ELSE z[i - p]
  <2>1. /\ w \o z \in Seq(T)
        /\ Len(w \o z) = Len(w) + Len(z)
        /\ \A i \in 1..(Len(w) + Len(z)) :
             (w \o z)[i] = IF i <= Len(w) THEN w[i] ELSE z[i - Len(w)]
    <3>1. w \in Seq(T) /\ z \in Seq(T)
      BY <1>4
    <3> QED
      BY <3>1, ConcatProperties
  <2>2. Len(w) = p /\ Len(z) = n - p + 1 /\ p + (n - p + 1) = n + 1
    BY <1>1, <1>2, <1>4, <1>6
  <2> QED
    BY <1>7, <2>1, <2>2
<1> HIDE DEF r
<1>9. DOMAIN r = 1..(n + 1)
  BY <1>8, LenProperties
<1>10. \A i \in 1..(p - 1) : r[i] = s[i]
  BY <1>1, <1>2, <1>6, <1>8
<1>11. r[p] = e
  BY <1>1, <1>2, <1>6, <1>8
<1>12. \A i \in (p + 1)..(n + 1) : r[i] = s[i - 1]
  <2> SUFFICES ASSUME NEW i \in (p + 1)..(n + 1) PROVE r[i] = s[i - 1]
    OBVIOUS
  <2>1. i \in 1..(n + 1) /\ ~ (i <= p) /\ i - p \in 1..(n - p + 1) /\ p + (i - p) - 1 = i - 1
    BY <1>1, <1>2
  <2>2. r[i] = z[i - p]
    BY <1>8, <2>1
  <2>3. z[i - p] = s[p + (i - p) - 1]
    BY <1>4, <2>1
  <2> QED
    BY <2>1, <2>2, <2>3
<1> QED
  BY <1>1, <1>2, <1>8, <1>9, <1>10, <1>11, <1>12 DEF r

LEMMA InsertAtKeeps ==
  ASSUME NEW T, NEW s \in Seq(T), NEW e \in T, NEW p \in 1..(Len(s) + 1)
  PROVE  /\ InsertAt(s, p, e) \in Seq(T)
         /\ InsertAt(s, p, e) # <<>>
         /\ \A j \in DOMAIN s : \E h \in DOMAIN InsertAt(s, p, e) : InsertAt(s, p, e)[h] = s[j]
         /\ \A h \in DOMAIN InsertAt(s, p, e) :
              InsertAt(s, p, e)[h] = e \/ \E j \in DOMAIN s : s[j] = InsertAt(s, p, e)[h]
<1>1. PICK n \in Nat : n = Len(s) /\ DOMAIN s = 1..n /\ p \in Nat /\ p >= 1 /\ p <= n + 1
  BY InsertAtIs
<1>2. PICK r \in Seq(T) :
        /\ r = InsertAt(s, p, e) /\ Len(r) = n + 1 /\ DOMAIN r = 1..(n + 1)
        /\ \A i \in 1..(p - 1) : r[i] = s[i]
        /\ r[p] = e
        /\ \A i \in (p + 1)..(n + 1) : r[i] = s[i - 1]
  <2>1. /\ InsertAt(s, p, e) \in Seq(T)
        /\ Len(InsertAt(s, p, e)) = Len(s) + 1
        /\ DOMAIN InsertAt(s, p, e) = 1..(Len(s) + 1)
        /\ \A i \in 1..(p - 1) : InsertAt(s, p, e)[i] = s[i]
        /\ InsertAt(s, p, e)[p] = e
        /\ \A i \in (p + 1)..(Len(s) + 1) : InsertAt(s, p, e)[i] = s[i - 1]
    BY InsertAtIs
  <2>2. PICK r : r = InsertAt(s, p, e)
    OBVIOUS
  <2>3. Len(s) = n
    BY <1>1
  <2> QED
    BY <2>1, <2>2, <2>3
<1>3. \A j \in 1..n : (j \in 1..(p - 1)) \/ (j + 1 \in (p + 1)..(n + 1))
  BY <1>1, <1>2
<1>4. \A j \in DOMAIN s : \E h \in DOMAIN r : r[h] = s[j]
  <2> SUFFICES ASSUME NEW j \in 1..n PROVE \E h \in 1..(n + 1) : r[h] = s[j]
    BY <1>1, <1>2
  <2>1. CASE j \in 1..(p - 1)
    BY <1>1, <1>2, <2>1
  <2>2. CASE j + 1 \in (p + 1)..(n + 1)
    <3>1. r[j + 1] = s[j] /\ j + 1 \in 1..(n + 1)
      BY <1>1, <1>2, <2>2
    <3> QED
      BY <3>1
  <2> QED
    BY <1>3, <2>1, <2>2
<1>5. \A h \in DOMAIN r : r[h] = e \/ \E j \in DOMAIN s : s[j] = r[h]
  <2> SUFFICES ASSUME NEW h \in 1..(n + 1) PROVE r[h] = e \/ \E j \in 1..n : s[j] = r[h]
    BY <1>1, <1>2
  <2>1. CASE h < p
    BY <1>1, <1>2, <2>1
  <2>2. CASE h = p
    BY <1>2, <2>2
  <2>3. CASE h > p
    <3>1. r[h] = s[h - 1] /\ h - 1 \in 1..n
      BY <1>1, <1>2, <2>3
    <3> QED
      BY <3>1
  <2> QED
    BY <1>1, <1>2, <2>1, <2>2, <2>3
<1>6. r # <<>>
  BY <1>1, <1>2
<1> QED
  BY <1>2, <1>4, <1>5, <1>6

(* A notification takes nothing from a Chat, and adds what it tells of,    *)
(* but for a message whose channel is not there.                           *)
NotLess(page, new, i) ==
  /\ new \in Chats
  /\ page.users \subseteq new.users
  /\ \A x \in Item : (x \in Message => post[x] \in Posts) /\ Has(page, x) => Has(new, x)
  /\ i \notin Message => Has(new, i)
  /\ i \in Message /\ Has(page, post[i].channel) => Has(new, i)
  /\ \A m \in Message : post[m] \in Posts /\ Has(new, m) => Has(page, m) \/ m = i
  /\ \A m \in Message : Holds(new, m) => Holds(page, m) \/ m = i

LEMMA UserUpdateFits ==
  ASSUME NEW page \in Chats, NEW i \in User, NEW new \in Updated(page, i)
  PROVE  NotLess(page, new, i)
<1>1. new = [page EXCEPT !.users = page.users \cup {i}]
  BY ItemsDiffer DEF Updated, OnUserCreated
<1>2. /\ new \in Chats /\ new.users = page.users \cup {i}
      /\ new.channels = page.channels
  BY <1>1 DEF Chats
<1>3. \A x \in Item : Has(page, x) => Has(new, x)
  <2>1. \A x \in User : Has(page, x) => Has(new, x)
    BY <1>2, HasOne
  <2>2. \A x \in Channel : Has(page, x) => Has(new, x)
    BY <1>2, HasOne
  <2>3. \A x \in Message : Has(page, x) => Has(new, x)
    BY <1>2, HasOne
  <2> QED
    BY <2>1, <2>2, <2>3, ItemsDiffer
<1>4. \A m \in Message : Has(new, m) => Has(page, m)
  BY <1>2, HasOne
<1>5. Has(new, i)
  BY <1>2, HasOne
<1>6. \A m \in Message : Holds(new, m) => Holds(page, m)
  BY <1>2 DEF Holds
<1> QED
  BY <1>2, <1>3, <1>4, <1>5, <1>6, ItemsDiffer DEF NotLess

LEMMA ChannelUpdateFits ==
  ASSUME NEW page \in Chats, NEW i \in Channel, NEW new \in Updated(page, i)
  PROVE  NotLess(page, new, i)
<1>1. PICK p \in 1..(Len(page.channels[i]) + 1) :
        new = [page EXCEPT !.channels[i] = InsertAt(page.channels[i], p, <<>>)]
  BY ItemsDiffer DEF Updated, OnChannelCreated
<1>2. page.users \subseteq User /\ page.channels \in [Channel -> Seq(Seq(Message))]
  BY DEF Chats
<1>3. PICK r : r = InsertAt(page.channels[i], p, <<>>)
  OBVIOUS
<1>4. /\ r \in Seq(Seq(Message)) /\ r # <<>>
      /\ \A j \in DOMAIN page.channels[i] : \E h \in DOMAIN r : r[h] = page.channels[i][j]
      /\ \A h \in DOMAIN r : r[h] = <<>> \/ \E j \in DOMAIN page.channels[i] : page.channels[i][j] = r[h]
  <2>1. PICK s \in Seq(Seq(Message)) : s = page.channels[i]
    BY <1>2
  <2>2. PICK T : T = Seq(Message)
    OBVIOUS
  <2>3. PICK e \in T : e = <<>>
    BY <2>2, EmptySeq
  <2>4. s \in Seq(T) /\ p \in 1..(Len(s) + 1) /\ r = InsertAt(s, p, e)
    BY <1>3, <2>1, <2>2, <2>3
  <2>5. /\ InsertAt(s, p, e) \in Seq(T)
        /\ InsertAt(s, p, e) # <<>>
        /\ \A j \in DOMAIN s : \E h \in DOMAIN InsertAt(s, p, e) : InsertAt(s, p, e)[h] = s[j]
        /\ \A h \in DOMAIN InsertAt(s, p, e) :
             InsertAt(s, p, e)[h] = e \/ \E j \in DOMAIN s : s[j] = InsertAt(s, p, e)[h]
    BY <2>4, InsertAtKeeps
  <2> QED
    BY <2>1, <2>2, <2>3, <2>4, <2>5
<1>5. new.users = page.users /\ new.channels = [page.channels EXCEPT ![i] = r]
  BY <1>1, <1>3 DEF Chats
<1>6. new \in Chats
  <2>1. new = [users |-> page.users, channels |-> [page.channels EXCEPT ![i] = r]]
    BY <1>1, <1>3 DEF Chats
  <2>2. [page.channels EXCEPT ![i] = r] \in [Channel -> Seq(Seq(Message))]
    BY <1>2, <1>4
  <2> QED
    BY <1>2, <2>1, <2>2 DEF Chats
<1>7. new.channels[i] = r /\ \A c \in Channel : c # i => new.channels[c] = page.channels[c]
  BY <1>2, <1>5
<1>8. Has(new, i)
  BY <1>4, <1>7, HasOne
<1>9. ASSUME NEW m \in Message, post[m] \in Posts PROVE Has(page, m) <=> Has(new, m)
  <2>1. PICK c \in Channel : c = post[m].channel
    BY <1>9 DEF Posts
  <2>2. CASE c = i
    <3>1. Range(<<>>) = {}
      BY DEF Range
    <3>2. (\E e \in DOMAIN page.channels[i] : m \in Range(page.channels[i][e]))
            <=> \E e \in DOMAIN r : m \in Range(r[e])
      BY <1>4, <3>1
    <3> QED
      BY <1>7, <2>1, <2>2, <3>2, HasOne
  <2>3. CASE c # i
    BY <1>7, <2>1, <2>3, HasOne
  <2> QED
    BY <2>2, <2>3
<1>10. \A c \in Channel : Has(page, c) => Has(new, c)
  BY <1>7, <1>8, HasOne
<1>11. \A u \in User : Has(page, u) => Has(new, u)
  BY <1>5, HasOne
<1>12. ASSUME NEW m \in Message, Holds(new, m) PROVE Holds(page, m)
  <2>1. PICK c \in Channel : \E e \in DOMAIN new.channels[c] : m \in Range(new.channels[c][e])
    BY <1>12 DEF Holds
  <2>2. CASE c = i
    <3>1. PICK h \in DOMAIN r : m \in Range(r[h])
      BY <1>7, <2>1, <2>2
    <3>2. r[h] # <<>>
      BY <3>1 DEF Range
    <3>3. PICK j \in DOMAIN page.channels[i] : page.channels[i][j] = r[h]
      BY <1>4, <3>2
    <3> QED
      BY <3>1, <3>3 DEF Holds
  <2>3. CASE c # i
    BY <1>7, <2>1, <2>3 DEF Holds
  <2> QED
    BY <2>2, <2>3
<1> QED
  BY <1>5, <1>6, <1>8, <1>9, <1>10, <1>11, <1>12, ItemsDiffer DEF NotLess

LEMMA MessageUpdateFits ==
  ASSUME NEW page \in Chats, NEW i \in Message, post[i] \in Posts,
         NEW new \in Updated(page, i)
  PROVE  NotLess(page, new, i)
<1>1. PICK c \in Channel : c = post[i].channel
  BY DEF Posts
<1>2. page.users \subseteq User /\ page.channels \in [Channel -> Seq(Seq(Message))]
  BY DEF Chats
<1>3. CASE page.channels[c] = <<>>
  <2>1. new = page
    BY <1>1, <1>3, ItemsDiffer DEF Updated, OnMessagePosted
  <2>2. ~ Has(page, c)
    BY <1>3, HasOne
  <2> QED
    BY <1>1, <2>1, <2>2 DEF NotLess
<1>4. CASE page.channels[c] # <<>>
  <2>1. PICK s \in Seq(Seq(Message)) : s = page.channels[c]
    BY <1>2
  <2>2. 1 \in DOMAIN s /\ s[1] \in Seq(Message)
    <3>1. Len(s) \in Nat /\ Len(s) # 0 /\ DOMAIN s = 1..Len(s)
      BY <1>4, <2>1, LenProperties, EmptySeq
    <3> QED
      BY <3>1, ElementOfSeq
  <2>3. PICK a : a = Append(s[1], i)
    OBVIOUS
  <2>4. a \in Seq(Message) /\ Range(a) = Range(s[1]) \cup {i}
    <3>1. /\ a \in Seq(Message) /\ Len(a) = Len(s[1]) + 1
          /\ \A j \in 1..Len(s[1]) : a[j] = s[1][j]
          /\ a[Len(s[1]) + 1] = i
      BY <2>2, <2>3, AppendProperties
    <3>2. PICK n \in Nat : n = Len(s[1]) /\ DOMAIN s[1] = 1..n /\ DOMAIN a = 1..(n + 1)
      BY <2>2, <3>1, LenProperties
    <3>3. a[n + 1] = i /\ n + 1 \in 1..(n + 1) /\ \A j \in 1..n : a[j] = s[1][j] /\ j \in 1..(n + 1)
      BY <3>1, <3>2
    <3>4. \A j \in 1..(n + 1) : j \in 1..n \/ j = n + 1
      OBVIOUS
    <3>5. \A x : (\E j \in 1..(n + 1) : a[j] = x) <=> (\E j \in 1..n : s[1][j] = x) \/ x = i
      BY <3>3, <3>4
    <3>6. Range(a) = {a[j] : j \in 1..(n + 1)} /\ Range(s[1]) = {s[1][j] : j \in 1..n}
      BY <3>2 DEF Range
    <3>7. a \in Seq(Message)
      BY <3>1
    <3>8. \A x : x \in Range(a) <=> x \in Range(s[1]) \/ x = i
      <4>1. \A x : x \in Range(a) <=> \E j \in 1..(n + 1) : a[j] = x
        BY <3>6
      <4>2. \A x : x \in Range(s[1]) <=> \E j \in 1..n : s[1][j] = x
        BY <3>6
      <4> QED
        BY <3>5, <4>1, <4>2
    <3>9. Range(a) = Range(s[1]) \cup {i}
      BY <3>8
    <3> QED
      BY <3>7, <3>9
  <2>5. PICK r : r = [s EXCEPT ![1] = a]
    OBVIOUS
  <2>6. /\ r \in Seq(Seq(Message)) /\ DOMAIN r = DOMAIN s /\ r[1] = a
        /\ \A e \in DOMAIN s : e # 1 => r[e] = s[e]
    BY <2>1, <2>2, <2>4, <2>5, ExceptSeq
  <2>7. r # <<>>
    BY <2>2, <2>6
  <2>8. new = [page EXCEPT !.channels[c] = r]
    BY <1>1, <1>4, <2>1, <2>3, <2>5, ItemsDiffer DEF Updated, OnMessagePosted
  <2>9. new.users = page.users /\ new.channels = [page.channels EXCEPT ![c] = r]
    BY <2>8 DEF Chats
  <2>10. new \in Chats
    <3>1. new = [users |-> page.users, channels |-> [page.channels EXCEPT ![c] = r]]
      BY <2>8 DEF Chats
    <3>2. [page.channels EXCEPT ![c] = r] \in [Channel -> Seq(Seq(Message))]
      BY <1>2, <2>6
    <3> QED
      BY <1>2, <3>1, <3>2 DEF Chats
  <2>11. new.channels[c] = r /\ \A d \in Channel : d # c => new.channels[d] = page.channels[d]
    BY <1>2, <2>9
  <2>12. Has(new, i)
    <3>1. i \in Range(r[1]) /\ 1 \in DOMAIN r
      BY <2>2, <2>4, <2>6
    <3> QED
      BY <1>1, <2>11, <3>1, HasOne
  <2>13. ASSUME NEW m \in Message, m # i, post[m] \in Posts PROVE Has(page, m) <=> Has(new, m)
    <3>1. PICK d \in Channel : d = post[m].channel
      BY <2>13 DEF Posts
    <3>2. CASE d = c
      <4>1. \A e \in DOMAIN s : m \in Range(s[e]) <=> m \in Range(r[e])
        BY <2>4, <2>6, <2>13
      <4>2. Has(page, m) <=> \E e \in DOMAIN s : m \in Range(s[e])
        BY <2>1, <3>1, <3>2, HasOne
      <4>3. Has(new, m) <=> \E e \in DOMAIN s : m \in Range(r[e])
        BY <2>6, <2>11, <3>1, <3>2, HasOne
      <4> QED
        BY <4>1, <4>2, <4>3
    <3>3. CASE d # c
      BY <2>11, <3>1, <3>3, HasOne
    <3> QED
      BY <3>2, <3>3
  <2>14. \A d \in Channel : Has(page, d) => Has(new, d)
    <3> TAKE d \in Channel
    <3>1. CASE d = c
      BY <2>7, <2>11, <3>1, HasOne
    <3>2. CASE d # c
      BY <2>11, <3>2, HasOne
    <3> QED
      BY <3>1, <3>2
  <2>15. \A u \in User : Has(page, u) => Has(new, u)
    BY <2>9, HasOne
  <2>16. ASSUME NEW m \in Message, m # i, Holds(new, m) PROVE Holds(page, m)
    <3>1. PICK d \in Channel : \E e \in DOMAIN new.channels[d] : m \in Range(new.channels[d][e])
      BY <2>16 DEF Holds
    <3>2. CASE d = c
      <4>1. \A e \in DOMAIN s : m \in Range(s[e]) <=> m \in Range(r[e])
        BY <2>4, <2>6, <2>16
      <4>2. \E e \in DOMAIN s : m \in Range(s[e])
        BY <2>6, <2>11, <3>1, <3>2, <4>1
      <4> QED
        BY <2>1, <4>2 DEF Holds
    <3>3. CASE d # c
      BY <2>11, <3>1, <3>3 DEF Holds
    <3> QED
      BY <3>2, <3>3
  <2> QED
    BY <2>9, <2>10, <2>12, <2>13, <2>14, <2>15, <2>16, ItemsDiffer DEF NotLess
<1> QED
  BY <1>3, <1>4

LEMMA UpdatedFits ==
  ASSUME NEW page \in Chats, NEW i \in Item, i \in Message => post[i] \in Posts,
         NEW new \in Updated(page, i)
  PROVE  NotLess(page, new, i)
BY UserUpdateFits, ChannelUpdateFits, MessageUpdateFits, ItemsDiffer

-----------------------------------------------------------------------------
(* What get_init answers. *)

LEMMA SetToSeqsIsOnto ==
  ASSUME NEW S, IsFiniteSet(S), NEW s \in SetToSeqs(S)
  PROVE  s \in Seq(S) /\ \A x : x \in Range(s) <=> x \in S
<1>1. PICK n \in Nat : n = Cardinality(S)
  BY FS_CardinalityType
<1>2. s \in [1..n -> S] /\ \A i, j \in 1..n : i # j => s[i] # s[j]
  BY <1>1 DEF SetToSeqs
<1>3. s \in Injection(1..n, S)
  BY <1>2 DEF Injection, IsInjective
<1>4. IsFiniteSet(1..n) /\ Cardinality(1..n) = n
  <2>1. 1 \in Int /\ n \in Int
    OBVIOUS
  <2>2. IsFiniteSet(1..n) /\ Cardinality(1..n) = IF 1 > n THEN 0 ELSE n - 1 + 1
    BY <2>1, FS_Interval
  <2> QED
    BY <2>2
<1>5. s \in Surjection(1..n, S)
  BY <1>1, <1>3, <1>4, FS_Injection
<1>6. \A x \in S : \E i \in 1..n : s[i] = x
  BY <1>5 DEF Surjection
<1> QED
  BY <1>2, <1>6 DEF Range

LEMMA SnapshotFits ==
  ASSUME StoreFits, NEW s \in Snapshots
  PROVE  /\ s \in Chats
         /\ \A i \in Stored : Has(s, i)
         /\ \A m \in Message : Holds(s, m) => m \in Stored
         /\ \A u \in User : u \in Stored => u \in s.users
<1> DEFINE Lists(c) == IF c \in Stored THEN {<<l>> : l \in Listings(Posted(c))} ELSE {<<>>}
<1>1. PICK f : /\ f \in [Channel -> UNION {Lists(c) : c \in Channel}]
               /\ \A c \in Channel : f[c] \in Lists(c)
               /\ s = [users |-> Stored \cap User, channels |-> f]
  BY DEF Snapshots
<1>2. s.users = Stored \cap User /\ s.channels = f
  BY <1>1
<1>3. ASSUME NEW c \in Channel, c \notin Stored
      PROVE  f[c] = <<>>
  BY <1>1, <1>3
<1>4. ASSUME NEW c \in Channel, c \in Stored
      PROVE  \E l \in Seq(Message) : f[c] = <<l>> /\ \A x : x \in Range(l) <=> x \in Posted(c)
  <2>1. PICK l \in Listings(Posted(c)) : f[c] = <<l>>
    BY <1>1, <1>4
  <2>2. IsFiniteSet(Posted(c))
    <3>1. IsFiniteSet(Stored \cap Message) /\ Posted(c) \in SUBSET (Stored \cap Message)
      BY DEF StoreFits, Posted
    <3> QED
      BY <3>1, FS_Subset
  <2>3. l \in SetToSeqs(Posted(c))
    BY DEF Listings
  <2>4. l \in Seq(Posted(c)) /\ \A x : x \in Range(l) <=> x \in Posted(c)
    BY <2>2, <2>3, SetToSeqsIsOnto
  <2>5. Posted(c) \subseteq Message
    BY DEF Posted
  <2>6. l \in Seq(Message)
    BY <2>4, <2>5
  <2> QED
    BY <2>1, <2>4, <2>6
<1>5. s \in Chats
  <2>1. \A c \in Channel : f[c] \in Seq(Seq(Message))
    <3> TAKE c \in Channel
    <3>1. CASE c \in Stored
      <4>1. PICK l \in Seq(Message) : f[c] = <<l>>
        BY <1>4, <3>1
      <4> QED
        BY <4>1
    <3>2. CASE c \notin Stored
      <4>1. f[c] = <<>>
        BY <1>3, <3>2
      <4> QED
        BY <4>1, EmptySeq
    <3> QED
      BY <3>1, <3>2
  <2>2. f \in [Channel -> Seq(Seq(Message))]
    BY <1>1, <2>1
  <2> QED
    BY <1>1, <2>2 DEF Chats
<1>6. ASSUME NEW i \in Stored PROVE Has(s, i)
  <2>1. CASE i \in User
    BY <1>2, <2>1, HasOne
  <2>2. CASE i \in Channel
    <3>1. PICK l \in Seq(Message) : f[i] = <<l>>
      BY <1>4, <2>2
    <3> QED
      BY <1>2, <2>2, <3>1, HasOne
  <2>3. CASE i \in Message
    <3>1. phase[i] # "new"
      BY DEF Stored
    <3>2. PICK c \in Channel : c = post[i].channel /\ c \in Stored
      BY <2>3, <3>1 DEF StoreFits, Posts
    <3>3. PICK l \in Seq(Message) : f[c] = <<l>> /\ i \in Range(l)
      BY <1>4, <2>3, <3>2 DEF Posted
    <3>4. 1 \in DOMAIN f[c] /\ f[c][1] = l
      BY <3>3
    <3> QED
      BY <1>2, <2>3, <3>2, <3>3, <3>4, HasOne
  <2> QED
    BY <2>1, <2>2, <2>3, ItemsDiffer DEF Stored
<1>7. ASSUME NEW m \in Message, Holds(s, m) PROVE m \in Stored
  <2>1. PICK c \in Channel : \E e \in DOMAIN f[c] : m \in Range(f[c][e])
    BY <1>2, <1>7 DEF Holds
  <2>2. c \in Stored
    BY <1>3, <2>1
  <2>3. PICK l \in Seq(Message) : f[c] = <<l>> /\ \A x : x \in Range(l) <=> x \in Posted(c)
    BY <1>4, <2>2
  <2>4. m \in Range(l)
    BY <2>1, <2>3
  <2> QED
    BY <2>3, <2>4 DEF Posted
<1> QED
  BY <1>2, <1>5, <1>6, <1>7

-----------------------------------------------------------------------------
(* A step that leaves a page alone. *)

LEMMA NoPage ==
  ASSUME Types, NEW b \in Browser, toBrowser[b] = <<>>, ~ live[b]
  PROVE  Starts(b) = {}
<1>1. Len(toBrowser[b]) = 0
  OBVIOUS
<1>2. 0..0 = {0}
  OBVIOUS
<1> QED
  BY <1>1, <1>2 DEF Starts

(* The statement of a message does not change once it has begun. *)
PostsKept ==
  \A m \in Message : phase[m] # "new" => post'[m] = post[m] /\ seen'[m] = seen[m]

LEMMA StoredHave ==
  ASSUME StoreFits, PostsKept, NEW i \in Stored, NEW page
  PROVE  /\ Has(page, i)' <=> Has(page, i)
         /\ i \in Message => Early(i)' = Early(i) /\ Needs(i)' = Needs(i) /\ post'[i] = post[i]
<1>1. i \in Item /\ phase[i] # "new"
  BY DEF Stored
<1>2. i \in Message => post'[i] = post[i] /\ seen'[i] = seen[i]
  BY <1>1 DEF PostsKept
<1>3. Has(page, i)' <=> Has(page, i)
  BY <1>1, <1>2, HasStays
<1> QED
  BY <1>2, <1>3 DEF Early, Needs

LEMMA NeedsAre ==
  ASSUME StoreFits, NEW m \in Message, m \in Stored
  PROVE  /\ post[m].channel \in Channel /\ post[m].author \in User
         /\ Needs(m) = {post[m].channel, post[m].author}
         /\ Needs(m) \subseteq Stored
         /\ \A x \in Needs(m) : x \in Item /\ x \notin Message
<1>1. phase[m] # "new"
  BY DEF Stored
<1> QED
  BY <1>1, ItemsDiffer DEF StoreFits, Posts, Needs

(* Of an item that is stored, nothing may be missing but what is to come.  *)
LEMMA QuietPage ==
  ASSUME StoreFits, StoreFits', NEW b \in Browser, Served(b), PostsKept,
         toBrowser'[b] = toBrowser[b], chat'[b] = chat[b], live'[b] = live[b],
         cut'[b] = cut[b],
         Stored \subseteq Stored',
         \A i \in Stored' : i \in Stored \/ ToCome(b, i)',
         Starts(b) # {} => \A i \in Stored : ToCome(b, i) => ToCome(b, i)'
  PROVE  Served(b)'
<1>1. PICK t : t = toBrowser[b]
  OBVIOUS
<1>2. Starts(b)' = Starts(b) /\ \A n : View(b, n)' = View(b, n)
  BY DEF Starts, View
<1>3. PICK D : D = DOMAIN t
  OBVIOUS
<1>4. ToldStored(b)'
  BY DEF Served, ToldStored
<1>5. Complete(b)'
  <2> SUFFICES ASSUME NEW n \in Starts(b), NEW i \in Stored'
               PROVE  Comes(b, n, i)' \/ (i \in Message /\ Early(i)') \/ (n = 0 /\ i \in cut[b])
    BY <1>2 DEF Complete
  <2>1. PICK page : page = View(b, n)
    OBVIOUS
  <2>2. CASE i \in Stored
    <3>1. \/ Has(page, i)
          \/ \E l \in D : l > n /\ IsTold(t[l], i)
          \/ ToCome(b, i)
          \/ i \in Message /\ Early(i)
          \/ n = 0 /\ i \in cut[b]
      BY <1>1, <1>3, <2>1, <2>2 DEF Served, Complete, Comes
    <3>2. /\ Has(page, i)' <=> Has(page, i)
          /\ i \in Message => Early(i)' = Early(i)
      BY <2>2, StoredHave
    <3>3. ToCome(b, i) => ToCome(b, i)'
      BY <2>2
    <3>4. Comes(b, n, i)' <=> \/ Has(page, i)'
                              \/ \E l \in D : l > n /\ IsTold(t[l], i)
                              \/ ToCome(b, i)'
      BY <1>1, <1>2, <1>3, <2>1 DEF Comes, IsTold
    <3> QED
      BY <3>1, <3>2, <3>3, <3>4
  <2>3. CASE ToCome(b, i)'
    BY <2>3 DEF Comes
  <2> QED
    BY <2>2, <2>3
<1>6. Prepared(b)'
  <2> SUFFICES ASSUME NEW n \in Starts(b), NEW l \in D, NEW m \in Message,
                      l > n, IsTold(t[l], m), ~ Early(m)', NEW x \in Needs(m)'
               PROVE  \/ Has(View(b, n), x)'
                      \/ \E h \in D : h > n /\ h < l /\ IsTold(t[h], x)
    BY <1>1, <1>2, <1>3 DEF Prepared, IsTold
  <2>1. PICK page : page = View(b, n)
    OBVIOUS
  <2>2. m \in Stored
    BY <1>1, <1>3 DEF Served, ToldStored, IsTold
  <2>3. x \in Needs(m) /\ ~ Early(m)
    BY <2>2, StoredHave
  <2>4. x \in Stored
    BY <2>2, <2>3, NeedsAre
  <2>5. \/ Has(page, x)
        \/ \E h \in D : h > n /\ h < l /\ IsTold(t[h], x)
    BY <1>1, <1>3, <2>1, <2>3 DEF Served, Prepared
  <2>6. Has(page, x)' <=> Has(page, x)
    BY <2>4, StoredHave
  <2>7. Has(View(b, n), x)' <=> Has(page, x)'
    BY <1>2, <2>1
  <2> QED
    BY <2>5, <2>6, <2>7
<1>7. ASSUME NEW n \in Starts(b), NEW m \in Message, Holds(View(b, n), m)
      PROVE  m \in Stored
  BY <1>7 DEF Served, HoldsStored
<1>8. HoldsStored(b)'
  BY <1>2, <1>7 DEF HoldsStored, Holds
<1>9. Authored(b)'
  <2> SUFFICES ASSUME NEW n \in Starts(b), NEW m \in Stored' \cap Message, Has(View(b, n), m)'
               PROVE  post'[m].author \in View(b, n).users \/ Early(m)'
    BY <1>2 DEF Authored
  <2>1. PICK page : page = View(b, n)
    OBVIOUS
  <2>2. m \in Stored
    <3>1. phase'[m] # "new"
      BY DEF Stored
    <3>2. PICK c \in Channel : c = post'[m].channel
      BY <3>1 DEF StoreFits, Posts
    <3>3. PICK e \in DOMAIN page.channels[c] : m \in Range(page.channels[c][e])
      <4>1. Has(page, m)'
        BY <1>2, <2>1
      <4>2. Has(page, m)' <=> \E e \in DOMAIN page.channels[c] : m \in Range(page.channels[c][e])
        BY <3>2, ItemsDiffer DEF Has
      <4> QED
        BY <4>1, <4>2
    <3>4. Holds(page, m)
      BY <3>3 DEF Holds
    <3> QED
      BY <1>7, <2>1, <3>4
  <2>3. Has(page, m)
    <3>1. Has(View(b, n), m)' <=> Has(page, m)'
      BY <1>2, <2>1
    <3> QED
      BY <2>2, <3>1, StoredHave
  <2>4. post[m].author \in page.users \/ Early(m)
    BY <2>1, <2>2, <2>3 DEF Served, Authored
  <2> QED
    BY <2>1, <2>2, <2>4, StoredHave
<1> QED
  BY <1>4, <1>5, <1>6, <1>8, <1>9 DEF Served

-----------------------------------------------------------------------------
(* The statements and the dispatches. *)

LEMMA StoreStep ==
  ASSUME IInv, Types', StoreFits', SignalsFit', PostsKept,
         UNCHANGED <<toBrowser, chat, live, cut, place, asked>>,
         Stored \subseteq Stored',
         \A b \in Browser : \A i \in Stored' : i \in Stored \/ ToCome(b, i)',
         \A b \in Browser : place[b] = "select" =>
           \A i \in Stored : ToCome(b, i) => ToCome(b, i)'
  PROVE  IInv'
<1>1. ASSUME NEW b \in Browser PROVE AskedOnce(b)' /\ Served(b)'
  <2>1. AskedOnce(b) /\ Served(b) /\ StoreFits /\ Types
    BY DEF IInv
  <2>2. AskedOnce(b)'
    BY <2>1 DEF AskedOnce
  <2>3. Starts(b) # {} => place[b] = "select"
    BY <2>1, NoPage DEF AskedOnce
  <2>4. Served(b)'
    <3>1. /\ \A i \in Stored' : i \in Stored \/ ToCome(b, i)'
          /\ Starts(b) # {} => \A i \in Stored : ToCome(b, i) => ToCome(b, i)'
      BY <2>3
    <3>2. toBrowser'[b] = toBrowser[b] /\ chat'[b] = chat[b] /\ live'[b] = live[b] /\ cut'[b] = cut[b]
      OBVIOUS
    <3> QED
      BY <2>1, <3>1, <3>2, QuietPage
  <2> QED
    BY <2>2, <2>4
<1> QED
  BY <1>1 DEF IInv

(* An item that gets to another phase, none of the others. *)
LEMMA PhaseChanges ==
  ASSUME Types, NEW i \in Item, NEW p \in Phases, SetPhase(i, p)
  PROVE  /\ phase' \in [Item -> Phases] /\ phase'[i] = p
         /\ \A j \in Item : j # i => phase'[j] = phase[j]
         /\ \A j \in Item : j # i => (j \in Stored' <=> j \in Stored)
         /\ i \in Stored' <=> p \in {"wait", "send", "done"}
         /\ i \in Stored <=> phase[i] \in {"wait", "send", "done"}
         /\ \A j \in Stored' : j \in Item
         /\ \A j \in Stored : j \in Item
BY DEF Types, SetPhase, Stored

LEMMA CreateFits ==
  ASSUME IInv, NEW i \in Item, Create(i)
  PROVE  IInv'
<1> USE DEF Create
<1>0. Types /\ StoreFits /\ SignalsFit /\ "wait" \in Phases
  BY DEF IInv, Phases
<1>1. /\ phase' \in [Item -> Phases] /\ phase'[i] = "wait"
      /\ \A j \in Item : j # i => phase'[j] = phase[j]
      /\ \A j \in Item : j # i => (j \in Stored' <=> j \in Stored)
      /\ i \in Stored' /\ i \notin Stored
      /\ \A j \in Stored' : j \in Item
      /\ \A j \in Stored : j \in Item
  BY <1>0, PhaseChanges
<1>2. Types'
  BY <1>0, <1>1 DEF Types, signalVars, connVars, pageVars
<1>3. i \notin Message
  BY ItemsDiffer
<1>4. Stored \subseteq Stored' /\ Stored' \cap Message = Stored \cap Message
  BY <1>1, <1>3
<1>5. StoreFits'
  <2>1. \A m \in Message : phase'[m] = phase[m]
    BY <1>1, <1>3, ItemsDiffer
  <2>2. \A j \in Item : phase[j] = "done" => phase'[j] = "done"
    BY <1>1
  <2>3. \A m \in Message : phase'[m] # "new" =>
          post'[m] \in Posts /\ {post'[m].channel, post'[m].author} \subseteq Stored'
    BY <1>0, <1>4, <2>1 DEF StoreFits
  <2>4. \A m \in Message : seen'[m] \subseteq {j \in Item : phase'[j] = "done"}
    BY <1>0, <2>2 DEF StoreFits
  <2> QED
    BY <1>0, <1>4, <2>3, <2>4 DEF StoreFits
<1>6. SignalsFit'
  <2>1. \A j \in Item : phase'[j] = "send" => phase[j] = "send"
    BY <1>1
  <2> QED
    BY <1>0, <2>1 DEF SignalsFit, signalVars, connVars
<1>7. PostsKept
  BY DEF PostsKept
<1>8. \A b \in Browser : \A j \in Stored' : j \in Stored \/ ToCome(b, j)'
  BY <1>1 DEF ToCome
<1>9. \A b \in Browser : \A j \in Stored : ToCome(b, j) => ToCome(b, j)'
  BY <1>1 DEF ToCome, signalVars
<1> QED
  BY <1>2, <1>4, <1>5, <1>6, <1>7, <1>8, <1>9, StoreStep DEF connVars, pageVars

LEMMA BeginPostFits ==
  ASSUME IInv, NEW m \in Message, NEW c \in Channel, NEW u \in User, BeginPost(m, c, u)
  PROVE  IInv'
<1> USE DEF BeginPost
<1>0. Types /\ StoreFits /\ SignalsFit /\ "begun" \in Phases /\ m \in Item
  BY ItemsDiffer DEF IInv, Phases
<1>1. /\ phase' \in [Item -> Phases] /\ phase'[m] = "begun"
      /\ \A j \in Item : j # m => phase'[j] = phase[j]
      /\ \A j \in Item : j # m => (j \in Stored' <=> j \in Stored)
      /\ m \notin Stored' /\ m \notin Stored
      /\ \A j \in Stored' : j \in Item
      /\ \A j \in Stored : j \in Item
  BY <1>0, PhaseChanges
<1>2. Stored' = Stored
  BY <1>1
<1>3. /\ post' \in [Message -> Posts \cup {None}] /\ post'[m] = [channel |-> c, author |-> u]
      /\ \A o \in Message : o # m => post'[o] = post[o]
  BY <1>0 DEF Types, Posts
<1>4. PICK done : done = {i \in Item : phase[i] = "done"}
  OBVIOUS
<1>5. /\ seen' \in [Message -> SUBSET Item] /\ seen'[m] = done
      /\ \A o \in Message : o # m => seen'[o] = seen[o]
  <2>1. done \subseteq Item /\ seen' = [seen EXCEPT ![m] = done]
    BY <1>4
  <2> QED
    BY <1>0, <2>1 DEF Types
<1>6. Types'
  BY <1>0, <1>1, <1>3, <1>5 DEF Types, signalVars, connVars, pageVars
<1>7. StoreFits'
  <2>1. ASSUME NEW o \in Message, phase'[o] # "new"
        PROVE  post'[o] \in Posts /\ {post'[o].channel, post'[o].author} \subseteq Stored'
    <3>1. CASE o = m
      BY <1>2, <1>3, <3>1 DEF Posts
    <3>2. CASE o # m
      BY <1>0, <1>1, <1>2, <1>3, <2>1, <3>2, ItemsDiffer DEF StoreFits
    <3> QED
      BY <3>1, <3>2
  <2>2. \A j \in Item : phase[j] = "done" => phase'[j] = "done"
    BY <1>1
  <2>3. ASSUME NEW o \in Message
        PROVE  seen'[o] \subseteq {j \in Item : phase'[j] = "done"}
    <3>1. seen[o] \subseteq {j \in Item : phase[j] = "done"}
      BY <1>0 DEF StoreFits
    <3>2. seen'[o] \subseteq {j \in Item : phase[j] = "done"}
      BY <1>4, <1>5, <3>1
    <3> QED
      BY <2>2, <3>2
  <2>4. IsFiniteSet(Stored' \cap Message)
    BY <1>0, <1>2 DEF StoreFits
  <2> QED
    BY <2>1, <2>3, <2>4 DEF StoreFits
<1>8. SignalsFit'
  <2>1. \A j \in Item : phase'[j] = "send" => phase[j] = "send"
    BY <1>1
  <2> QED
    BY <1>0, <2>1 DEF SignalsFit, signalVars, connVars
<1>9. PostsKept
  BY <1>3, <1>5 DEF PostsKept
<1>10. \A b \in Browser : \A j \in Stored : ToCome(b, j) => ToCome(b, j)'
  BY <1>1 DEF ToCome, signalVars
<1> QED
  BY <1>2, <1>6, <1>7, <1>8, <1>9, <1>10, StoreStep DEF connVars, pageVars

LEMMA EndPostFits ==
  ASSUME IInv, NEW m \in Message, EndPost(m)
  PROVE  IInv'
<1> USE DEF EndPost
<1>0. /\ Types /\ StoreFits /\ SignalsFit /\ m \in Item
      /\ "wait" \in Phases /\ "failed" \in Phases
  BY ItemsDiffer DEF IInv, Phases
<1>1. PICK p \in {"wait", "failed"} : SetPhase(m, p)
  OBVIOUS
<1>2. /\ phase' \in [Item -> Phases] /\ phase'[m] = p
      /\ \A j \in Item : j # m => phase'[j] = phase[j]
      /\ \A j \in Item : j # m => (j \in Stored' <=> j \in Stored)
      /\ m \in Stored' <=> p = "wait"
      /\ m \notin Stored
      /\ \A j \in Stored' : j \in Item
      /\ \A j \in Stored : j \in Item
  <2>1. p \in Phases
    BY <1>0
  <2> QED
    BY <1>0, <1>1, <2>1, PhaseChanges
<1>3. Types'
  BY <1>0, <1>2 DEF Types, signalVars, connVars, pageVars
<1>4. Stored \subseteq Stored' /\ Stored' \subseteq Stored \cup {m}
  BY <1>2
<1>5. StoreFits'
  <2>1. IsFiniteSet(Stored' \cap Message)
    <3>1. IsFiniteSet((Stored \cap Message) \cup {m})
      BY <1>0, FS_AddElement DEF StoreFits
    <3>2. (Stored' \cap Message) \in SUBSET ((Stored \cap Message) \cup {m})
      BY <1>4
    <3> QED
      BY <3>1, <3>2, FS_Subset
  <2>2. \A j \in Item : phase[j] = "done" => phase'[j] = "done"
    BY <1>2
  <2>3. \A o \in Message : seen'[o] \subseteq {j \in Item : phase'[j] = "done"}
    BY <1>0, <2>2 DEF StoreFits
  <2>4. \A o \in Message : phase'[o] # "new" => phase[o] # "new"
    BY <1>2, ItemsDiffer
  <2>5. \A o \in Message : phase'[o] # "new" =>
          post'[o] \in Posts /\ {post'[o].channel, post'[o].author} \subseteq Stored'
    BY <1>0, <1>4, <2>4 DEF StoreFits
  <2> QED
    BY <2>1, <2>3, <2>5 DEF StoreFits
<1>6. SignalsFit'
  <2>1. \A j \in Item : phase'[j] = "send" => phase[j] = "send"
    BY <1>2
  <2> QED
    BY <1>0, <2>1 DEF SignalsFit, signalVars, connVars
<1>7. PostsKept
  BY DEF PostsKept
<1>8. \A b \in Browser : \A j \in Stored' : j \in Stored \/ ToCome(b, j)'
  BY <1>2 DEF ToCome
<1>9. \A b \in Browser : \A j \in Stored : ToCome(b, j) => ToCome(b, j)'
  BY <1>2 DEF ToCome, signalVars
<1> QED
  BY <1>3, <1>4, <1>5, <1>6, <1>7, <1>8, <1>9, StoreStep DEF connVars, pageVars

LEMMA AcquireFits ==
  ASSUME IInv, NEW i \in Item, Acquire(i)
  PROVE  IInv'
<1> USE DEF Acquire
<1>0. Types /\ StoreFits /\ SignalsFit /\ "send" \in Phases
  BY DEF IInv, Phases
<1>1. PICK k \in Kind : k = SignalOf(i)
  BY ThreeSignals
<1>2. /\ phase' \in [Item -> Phases] /\ phase'[i] = "send" /\ phase[i] = "wait"
      /\ \A j \in Item : j # i => phase'[j] = phase[j]
      /\ \A j \in Item : j # i => (j \in Stored' <=> j \in Stored)
      /\ i \in Stored' /\ i \in Stored
      /\ \A j \in Stored' : j \in Item
      /\ \A j \in Stored : j \in Item
  BY <1>0, PhaseChanges
<1>3. Stored' = Stored
  BY <1>2
<1>4. /\ holder[k] = None
      /\ holder' \in [Kind -> Item \cup {None}] /\ holder'[k] = i
      /\ \A h \in Kind : h # k => holder'[h] = holder[h]
  BY <1>0, <1>1 DEF Types
<1>5. /\ toServe' \in [Kind -> SUBSET Browser] /\ toServe'[k] = listening[k]
      /\ \A h \in Kind : h # k => toServe'[h] = toServe[h]
  <2>1. listening[k] \in SUBSET Browser /\ toServe' = [toServe EXCEPT ![k] = listening[k]]
    BY <1>0, <1>1 DEF Types
  <2> QED
    BY <1>0, <2>1 DEF Types
<1>6. Types'
  BY <1>0, <1>2, <1>4, <1>5 DEF Types, connVars, pageVars
<1>7. StoreFits'
  <2>1. \A j \in Item : phase[j] = "done" => phase'[j] = "done"
    BY <1>2
  <2>2. \A o \in Message : phase'[o] # "new" => phase[o] # "new"
    BY <1>2, ItemsDiffer
  <2>3. \A o \in Message : seen'[o] \subseteq {j \in Item : phase'[j] = "done"}
    BY <1>0, <2>1 DEF StoreFits
  <2>4. \A o \in Message : phase'[o] # "new" =>
          post'[o] \in Posts /\ {post'[o].channel, post'[o].author} \subseteq Stored'
    BY <1>0, <1>3, <2>2 DEF StoreFits
  <2> QED
    BY <1>0, <1>3, <2>3, <2>4 DEF StoreFits
<1>8. ASSUME NEW j \in Item, j # i, phase[j] = "send"
      PROVE  SignalOf(j) \in Kind /\ SignalOf(j) # k /\ phase'[j] = "send"
  <2>1. holder[SignalOf(j)] = j
    BY <1>0, <1>8 DEF SignalsFit
  <2> QED
    BY <1>2, <1>4, <1>8, <2>1, ItemsDiffer, ThreeSignals
<1>9. SignalsFit'
  <2>1. ASSUME NEW j \in Item, phase'[j] = "send" PROVE holder'[SignalOf(j)] = j
    <3>1. CASE j = i
      BY <1>1, <1>4, <3>1
    <3>2. CASE j # i
      <4>1. phase[j] = "send" /\ holder[SignalOf(j)] = j
        BY <1>0, <1>2, <2>1, <3>2 DEF SignalsFit
      <4>2. SignalOf(j) \in Kind /\ SignalOf(j) # k
        BY <1>8, <3>2, <4>1
      <4> QED
        BY <1>4, <4>1, <4>2
    <3> QED
      BY <3>1, <3>2
  <2> QED
    BY <1>0, <2>1 DEF SignalsFit, connVars
<1>10. PostsKept
  BY DEF PostsKept
<1>11. ASSUME NEW b \in Browser, place[b] = "select", NEW j \in Stored, ToCome(b, j)
       PROVE  ToCome(b, j)'
  <2>1. CASE j = i
    <3>1. PICK n \in 1..3 : SignalOrder[n] = k
      BY ThreeSignals
    <3>2. b \in listening[k]
      BY <1>0, <1>11, <3>1 DEF SignalsFit
    <3> QED
      BY <1>1, <1>2, <1>5, <2>1, <3>2 DEF ToCome
  <2>2. CASE j # i
    <3>1. j \in Item /\ phase'[j] = phase[j]
      BY <1>2, <2>2
    <3>2. CASE phase[j] = "wait"
      BY <3>1, <3>2 DEF ToCome
    <3>3. CASE phase[j] = "send"
      <4>1. SignalOf(j) \in Kind /\ SignalOf(j) # k
        BY <1>8, <2>2, <3>1, <3>3
      <4>2. toServe'[SignalOf(j)] = toServe[SignalOf(j)]
        BY <1>5, <4>1
      <4> QED
        BY <1>11, <3>1, <3>3, <4>2 DEF ToCome
    <3> QED
      BY <1>11, <3>2, <3>3 DEF ToCome
  <2> QED
    BY <2>1, <2>2
<1> QED
  BY <1>3, <1>6, <1>7, <1>9, <1>10, <1>11, StoreStep DEF connVars, pageVars

LEMMA ReleaseFits ==
  ASSUME IInv, NEW i \in Item, Release(i)
  PROVE  IInv'
<1> USE DEF Release
<1>0. Types /\ StoreFits /\ SignalsFit /\ "done" \in Phases
  BY DEF IInv, Phases
<1>1. PICK k \in Kind : k = SignalOf(i)
  BY ThreeSignals
<1>2. /\ phase' \in [Item -> Phases] /\ phase'[i] = "done" /\ phase[i] = "send"
      /\ \A j \in Item : j # i => phase'[j] = phase[j]
      /\ \A j \in Item : j # i => (j \in Stored' <=> j \in Stored)
      /\ i \in Stored' /\ i \in Stored
      /\ \A j \in Stored' : j \in Item
      /\ \A j \in Stored : j \in Item
  BY <1>0, PhaseChanges
<1>3. Stored' = Stored
  BY <1>2
<1>4. /\ holder' \in [Kind -> Item \cup {None}]
      /\ \A h \in Kind : h # k => holder'[h] = holder[h]
  BY <1>0, <1>1 DEF Types
<1>5. Types'
  BY <1>0, <1>2, <1>4 DEF Types, connVars, pageVars
<1>6. StoreFits'
  <2>1. \A j \in Item : phase[j] = "done" => phase'[j] = "done"
    BY <1>2
  <2>2. \A o \in Message : phase'[o] # "new" => phase[o] # "new"
    BY <1>2, ItemsDiffer
  <2>3. \A o \in Message : seen'[o] \subseteq {j \in Item : phase'[j] = "done"}
    BY <1>0, <2>1 DEF StoreFits
  <2>4. \A o \in Message : phase'[o] # "new" =>
          post'[o] \in Posts /\ {post'[o].channel, post'[o].author} \subseteq Stored'
    BY <1>0, <1>3, <2>2 DEF StoreFits
  <2> QED
    BY <1>0, <1>3, <2>3, <2>4 DEF StoreFits
<1>7. SignalsFit'
  <2>1. ASSUME NEW j \in Item, phase'[j] = "send" PROVE holder'[SignalOf(j)] = j
    <3>1. j # i /\ phase[j] = "send"
      BY <1>2, <2>1
    <3>2. holder[SignalOf(j)] = j /\ holder[k] = i
      BY <1>0, <1>1, <1>2, <3>1 DEF SignalsFit
    <3>3. SignalOf(j) # k /\ SignalOf(j) \in Kind
      BY <3>1, <3>2, ThreeSignals
    <3> QED
      BY <1>4, <3>2, <3>3
  <2> QED
    BY <1>0, <2>1 DEF SignalsFit, connVars
<1>8. PostsKept
  BY DEF PostsKept
<1>9. ASSUME NEW b \in Browser, NEW j \in Stored, ToCome(b, j)
      PROVE  ToCome(b, j)'
  <2>1. j # i
    BY <1>2, <1>9 DEF ToCome
  <2> QED
    BY <1>2, <1>9, <2>1 DEF ToCome
<1> QED
  BY <1>3, <1>5, <1>6, <1>7, <1>8, <1>9, StoreStep DEF connVars, pageVars

-----------------------------------------------------------------------------
(* What is written to a web socket. *)

LEMMA AppendText ==
  ASSUME NEW s \in Seq(Texts), NEW x \in Texts
  PROVE  /\ Append(s, x) \in Seq(Texts)
         /\ Len(s) \in Nat /\ DOMAIN s = 1..Len(s)
         /\ Len(Append(s, x)) = Len(s) + 1
         /\ DOMAIN Append(s, x) = 1..(Len(s) + 1)
         /\ \A l \in 1..Len(s) : Append(s, x)[l] = s[l] /\ s[l] \in Texts
         /\ Append(s, x)[Len(s) + 1] = x
<1>1. Len(s) \in Nat /\ DOMAIN s = 1..Len(s) /\ \A l \in 1..Len(s) : s[l] \in Texts
  BY LenProperties, ElementOfSeq
<1>2. /\ Append(s, x) \in Seq(Texts) /\ Len(Append(s, x)) = Len(s) + 1
      /\ \A l \in 1..Len(s) : Append(s, x)[l] = s[l]
      /\ Append(s, x)[Len(s) + 1] = x
  BY AppendProperties
<1>3. DOMAIN Append(s, x) = 1..(Len(s) + 1)
  BY <1>2, LenProperties
<1> QED
  BY <1>1, <1>2, <1>3

LEMMA TailText ==
  ASSUME NEW s \in Seq(Texts), s # <<>>
  PROVE  /\ Tail(s) \in Seq(Texts) /\ Head(s) = s[1] /\ s[1] \in Texts
         /\ Len(s) \in Nat /\ Len(s) >= 1 /\ DOMAIN s = 1..Len(s)
         /\ Len(Tail(s)) = Len(s) - 1
         /\ DOMAIN Tail(s) = 1..(Len(s) - 1)
         /\ \A l \in 1..(Len(s) - 1) : Tail(s)[l] = s[l + 1]
<1>1. Len(s) \in Nat /\ DOMAIN s = 1..Len(s) /\ \A l \in 1..Len(s) : s[l] \in Texts
  BY LenProperties, ElementOfSeq
<1>2. Len(s) # 0
  BY EmptySeq
<1>3. /\ Tail(s) \in Seq(Texts) /\ Len(Tail(s)) = Len(s) - 1
      /\ \A l \in 1..Len(Tail(s)) : Tail(s)[l] = s[l + 1]
  BY HeadTailProperties
<1>4. Head(s) = s[1]
  OBVIOUS
<1>5. DOMAIN Tail(s) = 1..(Len(s) - 1)
  BY <1>3, LenProperties
<1> QED
  BY <1>1, <1>2, <1>3, <1>4, <1>5

(* A step of one browser leaves the others alone. *)
LEMMA PageStep ==
  ASSUME IInv, NEW b \in Browser, UNCHANGED storeVars,
         Types', SignalsFit', AskedOnce(b)', Served(b)',
         \A d \in Browser : d # b =>
           /\ toBrowser'[d] = toBrowser[d] /\ chat'[d] = chat[d] /\ live'[d] = live[d]
           /\ cut'[d] = cut[d] /\ place'[d] = place[d] /\ asked'[d] = asked[d]
           /\ \A i \in Stored : ToCome(d, i) => ToCome(d, i)'
  PROVE  IInv'
<1>1. Types /\ StoreFits
  BY DEF IInv
<1>2. Stored' = Stored
  BY DEF Stored, storeVars
<1>3. StoreFits'
  BY <1>1, <1>2 DEF StoreFits, storeVars
<1>4. PostsKept
  BY DEF PostsKept, storeVars
<1>5. ASSUME NEW d \in Browser, d # b PROVE AskedOnce(d)' /\ Served(d)'
  <2>1. AskedOnce(d) /\ Served(d)
    BY DEF IInv
  <2>2. /\ toBrowser'[d] = toBrowser[d] /\ chat'[d] = chat[d] /\ live'[d] = live[d]
        /\ cut'[d] = cut[d] /\ place'[d] = place[d] /\ asked'[d] = asked[d]
    BY <1>5
  <2>3. AskedOnce(d)'
    BY <2>1, <2>2 DEF AskedOnce
  <2>4. \A i \in Stored : ToCome(d, i) => ToCome(d, i)'
    BY <1>5
  <2>5. Served(d)'
    BY <1>1, <1>2, <1>3, <1>4, <2>1, <2>2, <2>4, QuietPage
  <2> QED
    BY <2>3, <2>5
<1> QED
  BY <1>3, <1>5 DEF IInv

(* While the tables do not change, neither does what there is to say of    *)
(* an item.                                                                *)
LEMMA SameStore ==
  ASSUME UNCHANGED storeVars
  PROVE  /\ Stored' = Stored
         /\ \A m \in Message : Early(m)' = Early(m) /\ Needs(m)' = Needs(m)
         /\ \A i \in Item : phase'[i] = phase[i]
         /\ post' = post
BY DEF storeVars, Stored, Early, Needs

LEMMA NoStarts ==
  ASSUME NEW b \in Browser, ToldStored(b), Starts(b) = {}
  PROVE  Served(b)
BY DEF Served, Complete, Prepared, Authored, HoldsStored

-----------------------------------------------------------------------------
(* A notification is written. *)
LEMMA DeliverFits ==
  ASSUME IInv, NEW i \in Item, NEW b \in Browser, Deliver(i, b)
  PROVE  IInv'
<1> USE DEF Deliver
<1>0. Types /\ StoreFits /\ SignalsFit /\ AskedOnce(b) /\ Served(b) /\ UNCHANGED storeVars
  BY DEF IInv
<1>1. PICK k \in Kind : k = SignalOf(i)
  BY ThreeSignals
<1>2. /\ toServe' \in [Kind -> SUBSET Browser] /\ toServe'[k] = toServe[k] \ {b}
      /\ \A h \in Kind : h # k => toServe'[h] = toServe[h]
  BY <1>0, <1>1 DEF Types
<1>3. PICK s \in Seq(Texts) : s = toBrowser[b]
  BY <1>0 DEF Types
<1>4. PICK x \in Texts : x = [type |-> "told", item |-> i]
  BY TextsAre
<1>5. PICK t : t = Append(s, x)
  OBVIOUS
<1>6. PICK L \in Nat : L = Len(s)
  BY <1>3, LenProperties
<1>7. /\ t \in Seq(Texts) /\ Len(t) = L + 1
      /\ DOMAIN s = 1..L /\ DOMAIN t = 1..(L + 1)
      /\ \A l \in 1..L : t[l] = s[l]
      /\ t[L + 1] = x /\ x.type = "told" /\ x.item = i
  BY <1>4, <1>5, <1>6, AppendText
<1>8. /\ toBrowser' \in [Browser -> Seq(Texts)] /\ toBrowser'[b] = t
      /\ \A d \in Browser : d # b => toBrowser'[d] = toBrowser[d]
  BY <1>0, <1>3, <1>4, <1>5, <1>7 DEF Types, Write
<1>9. Types'
  BY <1>0, <1>2, <1>8 DEF Types, storeVars, connVars, pageVars
<1>10. SignalsFit'
  BY <1>0 DEF SignalsFit, storeVars, connVars
<1>11. AskedOnce(b)'
  <2>1. \A j \in 1..(L + 1) : j \in 1..L \/ t[j].type = "told"
    BY <1>7
  <2>2. \A j \in 1..L : s[j].type # "told" =>
          ~ asked[b] /\ ~ live[b] /\ \A l \in 1..L : l # j => s[l].type = "told"
    BY <1>0, <1>3, <1>7 DEF AskedOnce
  <2>3. \A j \in 1..(L + 1) : t[j].type # "told" =>
          ~ asked[b] /\ ~ live[b] /\ \A l \in 1..(L + 1) : l # j => t[l].type = "told"
    <3> SUFFICES ASSUME NEW j \in 1..(L + 1), t[j].type # "told"
                 PROVE  ~ asked[b] /\ ~ live[b] /\ \A l \in 1..(L + 1) : l # j => t[l].type = "told"
      OBVIOUS
    <3>1. j \in 1..L /\ s[j].type # "told"
      BY <1>7, <2>1
    <3>2. ~ asked[b] /\ ~ live[b] /\ \A l \in 1..L : l # j => t[l].type = "told"
      BY <1>7, <2>2, <3>1
    <3> QED
      BY <2>1, <3>2
  <2> QED
    BY <1>0, <1>7, <1>8, <2>3 DEF AskedOnce, connVars, pageVars
<1>12. /\ Stored' = Stored
       /\ \A m \in Message : Early(m)' = Early(m) /\ Needs(m)' = Needs(m)
       /\ post' = post /\ i \in Stored /\ chat'[b] = chat[b]
       /\ live'[b] = live[b] /\ cut'[b] = cut[b]
  BY <1>0, SameStore DEF Stored, pageVars
<1>13. ASSUME NEW n \in Starts(b)'
       PROVE  n \in 0..L /\ n \in Starts(b) /\ View(b, n)' = View(b, n)
  <2>1. n \in 0..(L + 1) /\ IF n = 0 THEN live[b] ELSE t[n].type = "init"
    BY <1>7, <1>8, <1>12 DEF Starts
  <2>2. n \in 0..L
    BY <1>7, <2>1
  <2>3. n = 0 \/ n \in 1..L
    BY <2>2
  <2> QED
    BY <1>3, <1>6, <1>7, <1>8, <1>12, <2>1, <2>2, <2>3 DEF Starts, View
<1>14. ToldStored(b)'
  <2>1. \A j \in 1..L : s[j].type = "told" => s[j].item \in Stored
    BY <1>0, <1>3, <1>7 DEF Served, ToldStored
  <2>2. \A j \in 1..(L + 1) : t[j].type = "told" => t[j].item \in Stored
    <3> TAKE j \in 1..(L + 1)
    <3>1. CASE j \in 1..L
      BY <1>7, <2>1, <3>1
    <3>2. CASE j = L + 1
      BY <1>7, <1>12, <3>2
    <3> QED
      BY <3>1, <3>2
  <2> QED
    BY <1>7, <1>8, <1>12, <2>2 DEF ToldStored
<1>15. Complete(b)'
  <2> SUFFICES ASSUME NEW n \in Starts(b)', NEW y \in Stored
               PROVE  Comes(b, n, y)' \/ (y \in Message /\ Early(y)) \/ (n = 0 /\ y \in cut[b])
    BY <1>12 DEF Complete
  <2>1. PICK page : page = View(b, n)
    OBVIOUS
  <2>2. n \in 0..L /\ n \in Starts(b) /\ View(b, n)' = page
    BY <1>13, <2>1
  <2>3. \/ Has(page, y)
        \/ \E l \in 1..L : l > n /\ IsTold(s[l], y)
        \/ ToCome(b, y)
        \/ y \in Message /\ Early(y)
        \/ n = 0 /\ y \in cut[b]
    BY <1>0, <1>3, <1>7, <2>1, <2>2 DEF Served, Complete, Comes
  <2>4. y \in Item
    BY DEF Stored
  <2>5. CASE Has(page, y)
    <3>1. Has(page, y)'
      BY <1>12, <2>4, <2>5, HasStays
    <3> QED
      BY <2>2, <3>1 DEF Comes
  <2>6. CASE \E l \in 1..L : l > n /\ IsTold(s[l], y)
    <3>1. \E l \in 1..(L + 1) : l > n /\ IsTold(t[l], y)
      BY <1>7, <2>6
    <3> QED
      BY <1>7, <1>8, <3>1 DEF Comes, IsTold
  <2>7. CASE ToCome(b, y)
    <3>1. CASE y = i
      <4>1. L + 1 \in 1..(L + 1) /\ L + 1 > n /\ IsTold(t[L + 1], y)
        BY <1>7, <2>2, <3>1 DEF IsTold
      <4> QED
        BY <1>7, <1>8, <4>1 DEF Comes, IsTold
    <3>2. CASE y # i
      <4>1. ToCome(b, y)'
        <5>1. CASE phase[y] = "wait"
          BY <5>1 DEF ToCome, storeVars
        <5>2. CASE phase[y] = "send"
          <6>1. SignalOf(y) \in Kind /\ SignalOf(y) # k
            BY <1>0, <1>1, <2>4, <3>2, <5>2, ThreeSignals DEF SignalsFit
          <6> QED
            BY <1>2, <2>7, <5>2, <6>1 DEF ToCome, storeVars
        <5> QED
          BY <2>7, <5>1, <5>2 DEF ToCome
      <4> QED
        BY <4>1 DEF Comes
    <3> QED
      BY <3>1, <3>2
  <2> QED
    BY <2>3, <2>5, <2>6, <2>7
<1>16. Prepared(b)'
  <2> SUFFICES ASSUME NEW n \in Starts(b)', NEW l \in 1..(L + 1), NEW m \in Message,
                      l > n, IsTold(t[l], m), ~ Early(m), NEW y \in Needs(m)
               PROVE  \/ Has(View(b, n), y)'
                      \/ \E h \in 1..(L + 1) : h > n /\ h < l /\ IsTold(t[h], y)
    <3>1. DOMAIN toBrowser'[b] = 1..(L + 1) /\ \A l \in 1..(L + 1) : toBrowser'[b][l] = t[l]
      BY <1>7, <1>8
    <3>2. \A m \in Message : Early(m)' = Early(m) /\ Needs(m)' = Needs(m)
      BY <1>12
    <3> QED
      BY <3>1, <3>2 DEF Prepared, IsTold
  <2>1. PICK page : page = View(b, n)
    OBVIOUS
  <2>2. n \in 0..L /\ n \in Starts(b) /\ View(b, n)' = page
    BY <1>13, <2>1
  <2>3. m \in Stored
    <3>1. ToldStored(b)
      BY <1>0 DEF Served
    <3>2. CASE l \in 1..L
      BY <1>3, <1>7, <3>1, <3>2 DEF ToldStored, IsTold
    <3>3. CASE l = L + 1
      BY <1>7, <1>12, <3>3 DEF IsTold
    <3> QED
      BY <3>2, <3>3
  <2>4. y \in Stored /\ y \in Item /\ y \notin Message
    BY <1>0, <2>3, NeedsAre
  <2>5. \/ Has(page, y)
        \/ \E h \in 1..L : h > n /\ h < l /\ IsTold(s[h], y)
    <3>1. CASE l \in 1..L
      <4>1. IsTold(s[l], m)
        BY <1>7, <3>1
      <4> QED
        BY <1>0, <1>3, <1>7, <2>1, <2>2, <3>1, <4>1 DEF Served, Prepared
    <3>2. CASE l = L + 1
      <4>1. \/ Has(page, y)
            \/ \E h \in 1..L : h > n /\ IsTold(s[h], y)
            \/ ToCome(b, y)
            \/ n = 0 /\ y \in cut[b]
        BY <1>0, <1>3, <1>7, <2>1, <2>2, <2>4 DEF Served, Complete, Comes
      <4>2. y \notin cut[b]
        BY <1>0, <2>4 DEF Types
      <4>3. phase[y] = "done"
        <5>1. y \in seen[m]
          BY DEF Early, Needs
        <5> QED
          BY <1>0, <5>1 DEF StoreFits
      <4>4. ~ ToCome(b, y)
        BY <4>3 DEF ToCome
      <4> QED
        BY <3>2, <4>1, <4>2, <4>4
    <3> QED
      BY <3>1, <3>2
  <2>6. Has(View(b, n), y)' <=> Has(page, y)
    <3>1. Has(View(b, n), y)' <=> Has(page, y)'
      BY <2>2
    <3> QED
      BY <1>12, <2>4, <3>1, HasStays
  <2>7. (\E h \in 1..L : h > n /\ h < l /\ IsTold(s[h], y)) =>
          \E h \in 1..(L + 1) : h > n /\ h < l /\ IsTold(t[h], y)
    BY <1>7
  <2> QED
    BY <2>5, <2>6, <2>7
<1>17. Authored(b)' /\ HoldsStored(b)'
  <2>1. ASSUME NEW n \in Starts(b)', NEW m \in Stored \cap Message, Has(View(b, n), m)'
        PROVE  (post[m].author \in View(b, n).users \/ Early(m)) /\ View(b, n)' = View(b, n)
    <3>1. PICK page : page = View(b, n)
      OBVIOUS
    <3>2. n \in Starts(b) /\ View(b, n)' = page
      BY <1>13, <3>1
    <3>3. Has(page, m)'
      BY <2>1, <3>2
    <3>4. Has(page, m)
      BY <1>12, <3>3, HasStays, ItemsDiffer
    <3> QED
      BY <1>0, <3>1, <3>2, <3>4 DEF Served, Authored
  <2>2. Authored(b)'
    BY <1>12, <2>1 DEF Authored
  <2>3. HoldsStored(b)'
    BY <1>0, <1>12, <1>13 DEF Served, HoldsStored, Holds
  <2> QED
    BY <2>2, <2>3
<1>18. Served(b)'
  BY <1>14, <1>15, <1>16, <1>17 DEF Served
<1>19. ASSUME NEW d \in Browser, d # b
       PROVE  /\ toBrowser'[d] = toBrowser[d] /\ chat'[d] = chat[d] /\ live'[d] = live[d]
              /\ cut'[d] = cut[d] /\ place'[d] = place[d] /\ asked'[d] = asked[d]
              /\ \A y \in Stored : ToCome(d, y) => ToCome(d, y)'
  <2>1. ASSUME NEW y \in Stored, ToCome(d, y) PROVE ToCome(d, y)'
    <3>1. y \in Item
      BY DEF Stored
    <3>2. SignalOf(y) \in Kind
      BY <3>1, ThreeSignals
    <3>3. d \in toServe[SignalOf(y)] => d \in toServe'[SignalOf(y)]
      BY <1>2, <1>19, <3>2
    <3> QED
      BY <2>1, <3>3 DEF ToCome, storeVars
  <2> QED
    BY <1>8, <1>19, <2>1 DEF pageVars, connVars
<1> QED
  BY <1>0, <1>9, <1>10, <1>11, <1>18, <1>19, PageStep

-----------------------------------------------------------------------------
(* A connection comes up. *)

LEMMA ConnectFits ==
  ASSUME IInv, NEW b \in Browser, Connect(b)
  PROVE  IInv'
<1> USE DEF Connect
<1>0. Types /\ StoreFits /\ SignalsFit /\ AskedOnce(b) /\ Served(b) /\ UNCHANGED storeVars
  BY DEF IInv
<1>1. /\ place' \in [Browser -> {"down", "attach", "select"}] /\ place'[b] = "attach"
      /\ \A d \in Browser : d # b => place'[d] = place[d]
  BY <1>0 DEF Types
<1>2. Types'
  BY <1>0, <1>1 DEF Types, storeVars, signalVars, pageVars
<1>3. SignalsFit'
  BY <1>0, <1>1 DEF SignalsFit, storeVars, signalVars
<1>4. AskedOnce(b)'
  BY <1>0, <1>1 DEF AskedOnce, pageVars
<1>5. \A d \in Browser : \A i \in Stored : ToCome(d, i) => ToCome(d, i)'
  BY DEF ToCome, storeVars, signalVars
<1>6. Served(b)'
  <2>1. Stored' = Stored /\ PostsKept /\ StoreFits'
    BY <1>0 DEF Stored, PostsKept, StoreFits, storeVars
  <2>2. toBrowser'[b] = toBrowser[b] /\ chat'[b] = chat[b] /\ live'[b] = live[b] /\ cut'[b] = cut[b]
    BY DEF pageVars
  <2> QED
    BY <1>0, <1>5, <2>1, <2>2, QuietPage
<1> QED
  BY <1>0, <1>1, <1>2, <1>3, <1>4, <1>5, <1>6, PageStep DEF pageVars

LEMMA AttachFits ==
  ASSUME IInv, NEW b \in Browser, Attach(b)
  PROVE  IInv'
<1>0. /\ Types /\ StoreFits /\ SignalsFit /\ AskedOnce(b) /\ Served(b) /\ UNCHANGED storeVars
      /\ place[b] = "attach"
  BY DEF IInv, Attach
<1>1. PICK n \in 1..3 : n = at[b] + 1
  <2>1. PICK a : a = at[b]
    OBVIOUS
  <2>2. a \in 0..3
    BY <1>0, <2>1 DEF Types
  <2>3. a < 3
    BY <1>0, <2>1 DEF SignalsFit
  <2>4. a + 1 \in 1..3
    BY <2>2, <2>3
  <2> QED
    BY <2>1, <2>4
<1>2. PICK k \in Kind : k = SignalOrder[n]
  BY ThreeSignals
<1>3. /\ listening' = [listening EXCEPT ![k] = listening[k] \cup {b}]
      /\ at' = [at EXCEPT ![b] = n]
      /\ \/ n < 3 /\ UNCHANGED <<place, toBrowser>>
         \/ /\ n = 3 /\ place' = [place EXCEPT ![b] = "select"]
            /\ Write(b, [type |-> "resumed"])
      /\ UNCHANGED <<storeVars, holder, toServe, asked, pageVars, restarts>>
  BY <1>1, <1>2, ThreeSignals DEF Attach
<1>4. /\ listening' \in [Kind -> SUBSET Browser] /\ listening'[k] = listening[k] \cup {b}
      /\ \A h \in Kind : listening[h] \subseteq listening'[h]
  BY <1>0, <1>2, <1>3 DEF Types
<1>5. /\ at' \in [Browser -> 0..3] /\ at'[b] = n
      /\ \A d \in Browser : d # b => at'[d] = at[d]
  BY <1>0, <1>1, <1>3 DEF Types
<1>6. /\ place' \in [Browser -> {"down", "attach", "select"}]
      /\ place'[b] = IF n < 3 THEN "attach" ELSE "select"
      /\ \A d \in Browser : d # b => place'[d] = place[d]
  <2>1. place \in [Browser -> {"down", "attach", "select"}]
    BY <1>0 DEF Types
  <2>2. CASE n < 3
    BY <1>0, <1>3, <2>1, <2>2
  <2>3. CASE n = 3
    BY <1>3, <2>1, <2>3
  <2> QED
    BY <1>1, <2>2, <2>3
<1>7. toBrowser[b] = <<>> /\ ~ asked[b] /\ ~ live[b]
  BY <1>0 DEF AskedOnce
<1>8. PICK x \in Texts : x = [type |-> "resumed"]
  BY TextsAre
<1>9. /\ toBrowser' \in [Browser -> Seq(Texts)]
      /\ toBrowser'[b] = IF n < 3 THEN <<>> ELSE <<x>>
      /\ \A d \in Browser : d # b => toBrowser'[d] = toBrowser[d]
  <2>1. CASE n < 3
    BY <1>0, <1>3, <1>7, <2>1 DEF Types
  <2>2. CASE n = 3
    <3>1. toBrowser' = [toBrowser EXCEPT ![b] = Append(toBrowser[b], x)]
      BY <1>3, <1>8, <2>2 DEF Write
    <3>2. Append(toBrowser[b], x) = <<x>> /\ <<x>> \in Seq(Texts)
      BY <1>7
    <3> QED
      BY <1>0, <2>2, <3>1, <3>2 DEF Types
  <2> QED
    BY <1>1, <2>1, <2>2
<1>10. Types'
  BY <1>0, <1>3, <1>4, <1>5, <1>6, <1>9 DEF Types, storeVars, pageVars
<1>11. SignalsFit'
  <2>1. ASSUME NEW d \in Browser
        PROVE  /\ place'[d] = "down" => at'[d] = 0
               /\ place'[d] = "attach" => at'[d] < 3
               /\ place'[d] = "select" => at'[d] = 3
               /\ \A h \in 1..at'[d] : d \in listening'[SignalOrder[h]]
    <3>1. \A h \in 1..3 : listening[SignalOrder[h]] \subseteq listening'[SignalOrder[h]]
      BY <1>4, ThreeSignals
    <3>2. \A h \in 1..at[d] : h \in 1..3 /\ d \in listening'[SignalOrder[h]]
      <4>1. at[d] \in 0..3
        BY <1>0 DEF Types
      <4>2. \A h \in 1..at[d] : d \in listening[SignalOrder[h]]
        BY <1>0 DEF SignalsFit
      <4> QED
        BY <3>1, <4>1, <4>2
    <3>3. CASE d = b
      <4>1. \A h \in 1..n : h \in 1..at[b] \/ h = n
        <5>1. PICK a \in 0..3 : a = at[b]
          BY <1>0 DEF Types
        <5>2. n = a + 1
          BY <1>1, <5>1
        <5>3. \A h \in 1..(a + 1) : h \in 1..a \/ h = a + 1
          BY <5>1
        <5> QED
          BY <5>1, <5>2, <5>3
      <4>2. \A h \in 1..n : b \in listening'[SignalOrder[h]]
        BY <1>2, <1>4, <3>2, <3>3, <4>1
      <4> QED
        BY <1>1, <1>5, <1>6, <3>3, <4>2
    <3>4. CASE d # b
      BY <1>0, <1>5, <1>6, <3>2, <3>4 DEF SignalsFit
    <3> QED
      BY <3>3, <3>4
  <2> QED
    BY <1>0, <1>3, <2>1 DEF SignalsFit, storeVars
<1>12. live'[b] = live[b] /\ asked'[b] = asked[b] /\ chat'[b] = chat[b]
  BY <1>3 DEF pageVars
<1>13. AskedOnce(b)'
  <2>1. CASE n < 3
    BY <1>6, <1>7, <1>9, <1>12, <2>1 DEF AskedOnce
  <2>2. CASE n = 3
    <3>1. toBrowser'[b] = <<x>> /\ DOMAIN <<x>> = {1} /\ place'[b] = "select"
      BY <1>6, <1>9, <2>2
    <3> QED
      BY <1>7, <1>12, <3>1 DEF AskedOnce
  <2> QED
    BY <1>1, <2>1, <2>2
<1>14. Served(b)'
  <2>1. \A j \in DOMAIN toBrowser'[b] : toBrowser'[b][j].type = "resumed"
    BY <1>1, <1>8, <1>9
  <2>2. ToldStored(b)'
    BY <2>1 DEF ToldStored
  <2>3. Starts(b)' = {}
    <3>1. \A j \in 0..Len(toBrowser'[b]) : j = 0 \/ j \in DOMAIN toBrowser'[b]
      BY <1>10, LenProperties DEF Types
    <3> QED
      BY <1>7, <1>12, <2>1, <3>1 DEF Starts
  <2> QED
    BY <2>2, <2>3 DEF Served, Complete, Prepared, Authored, HoldsStored
<1>15. ASSUME NEW d \in Browser, d # b
       PROVE  /\ toBrowser'[d] = toBrowser[d] /\ chat'[d] = chat[d] /\ live'[d] = live[d]
              /\ cut'[d] = cut[d] /\ place'[d] = place[d] /\ asked'[d] = asked[d]
              /\ \A y \in Stored : ToCome(d, y) => ToCome(d, y)'
  BY <1>3, <1>6, <1>9, <1>15 DEF pageVars, storeVars, ToCome
<1> QED
  BY <1>0, <1>10, <1>11, <1>13, <1>14, <1>15, PageStep

LEMMA InitChatFits ==
  ASSUME IInv, NEW b \in Browser, InitChat(b)
  PROVE  IInv'
<1> USE DEF InitChat
<1>0. /\ Types /\ StoreFits /\ SignalsFit /\ AskedOnce(b) /\ Served(b) /\ UNCHANGED storeVars
      /\ asked[b] /\ place[b] = "select"
  BY DEF IInv
<1>1. PICK page \in Snapshots : Write(b, [type |-> "init", data |-> page])
  OBVIOUS
<1>2. /\ page \in Chats
      /\ \A i \in Stored : Has(page, i)
      /\ \A m \in Message : Holds(page, m) => m \in Stored
      /\ \A u \in User : u \in Stored => u \in page.users
  BY <1>0, SnapshotFits
<1>3. PICK s \in Seq(Texts) : s = toBrowser[b]
  BY <1>0 DEF Types
<1>4. PICK x \in Texts : x = [type |-> "init", data |-> page]
  BY <1>2, TextsAre
<1>5. PICK t : t = Append(s, x)
  OBVIOUS
<1>6. PICK L \in Nat : L = Len(s)
  BY <1>3, LenProperties
<1>7. /\ t \in Seq(Texts) /\ Len(t) = L + 1
      /\ DOMAIN s = 1..L /\ DOMAIN t = 1..(L + 1)
      /\ \A l \in 1..L : t[l] = s[l]
      /\ t[L + 1] = x /\ x.type = "init" /\ x.data = page
  BY <1>4, <1>5, <1>6, AppendText
<1>8. /\ toBrowser' \in [Browser -> Seq(Texts)] /\ toBrowser'[b] = t
      /\ \A d \in Browser : d # b => toBrowser'[d] = toBrowser[d]
  BY <1>0, <1>1, <1>3, <1>4, <1>5, <1>7 DEF Types, Write
<1>9. /\ asked' \in [Browser -> BOOLEAN] /\ ~ asked'[b]
      /\ \A d \in Browser : d # b => asked'[d] = asked[d]
  BY <1>0 DEF Types
<1>10. Types'
  BY <1>0, <1>8, <1>9 DEF Types, storeVars, signalVars, pageVars
<1>11. SignalsFit'
  BY <1>0 DEF SignalsFit, storeVars, signalVars
<1>12. ~ live[b] /\ \A l \in 1..L : s[l].type = "told"
  BY <1>0, <1>3, <1>7 DEF AskedOnce
<1>13. ~ live'[b]
  BY <1>12 DEF pageVars
<1>14. AskedOnce(b)'
  <2>1. \A j \in 1..(L + 1) : j # L + 1 => j \in 1..L /\ t[j].type = "told"
    BY <1>7, <1>12
  <2>2. \A j \in 1..(L + 1) : t[j].type # "told" =>
          \A l \in 1..(L + 1) : l # j => t[l].type = "told"
    BY <2>1
  <2> QED
    BY <1>0, <1>7, <1>8, <1>9, <1>13, <2>2 DEF AskedOnce
<1>15. /\ Stored' = Stored
       /\ \A m \in Message : Early(m)' = Early(m) /\ Needs(m)' = Needs(m)
       /\ post' = post
  BY <1>0, SameStore
<1>16. ASSUME NEW n \in Starts(b)'
       PROVE  n = L + 1 /\ View(b, n)' = page
  <2>1. n \in 0..(L + 1) /\ IF n = 0 THEN live'[b] ELSE t[n].type = "init"
    BY <1>7, <1>8 DEF Starts
  <2>2. n = 0 \/ n \in 1..L \/ n = L + 1
    BY <2>1
  <2>3. n = L + 1
    BY <1>7, <1>12, <1>13, <2>1, <2>2
  <2>4. n # 0
    BY <2>3
  <2> QED
    BY <1>7, <1>8, <2>3, <2>4 DEF View
<1>17. ToldStored(b)'
  <2>1. \A j \in 1..L : s[j].type = "told" => s[j].item \in Stored
    BY <1>0, <1>3, <1>7 DEF Served, ToldStored
  <2>2. \A j \in 1..(L + 1) : t[j].type = "told" => t[j].item \in Stored
    <3> TAKE j \in 1..(L + 1)
    <3>1. CASE j \in 1..L
      BY <1>7, <2>1, <3>1
    <3>2. CASE j = L + 1
      BY <1>7, <3>2
    <3> QED
      BY <3>1, <3>2
  <2> QED
    BY <1>7, <1>8, <1>15, <2>2 DEF ToldStored
<1>18. Complete(b)'
  <2> SUFFICES ASSUME NEW n \in Starts(b)', NEW y \in Stored
               PROVE  Comes(b, n, y)'
    BY <1>15 DEF Complete
  <2>1. Has(page, y)'
    BY <1>2, <1>15, HasStays DEF Stored
  <2> QED
    BY <1>16, <2>1 DEF Comes
<1>19. Prepared(b)'
  <2>1. ASSUME NEW n \in Starts(b)', NEW l \in 1..(L + 1) PROVE ~ (l > n)
    BY <1>6, <1>16
  <2>2. DOMAIN toBrowser'[b] = 1..(L + 1)
    BY <1>7, <1>8
  <2> QED
    BY <2>1, <2>2 DEF Prepared
<1>20. Authored(b)' /\ HoldsStored(b)'
  <2>1. \A m \in Stored \cap Message : post[m].author \in page.users
    <3> TAKE m \in Stored \cap Message
    <3>1. post[m].author \in User /\ post[m].author \in Needs(m) /\ Needs(m) \subseteq Stored
      BY <1>0, NeedsAre
    <3> QED
      BY <1>2, <3>1
  <2>2. Authored(b)'
    BY <1>15, <1>16, <2>1 DEF Authored
  <2>3. HoldsStored(b)'
    BY <1>2, <1>15, <1>16 DEF HoldsStored, Holds
  <2> QED
    BY <2>2, <2>3
<1>21. Served(b)'
  BY <1>17, <1>18, <1>19, <1>20 DEF Served
<1>22. ASSUME NEW d \in Browser, d # b
       PROVE  /\ toBrowser'[d] = toBrowser[d] /\ chat'[d] = chat[d] /\ live'[d] = live[d]
              /\ cut'[d] = cut[d] /\ place'[d] = place[d] /\ asked'[d] = asked[d]
              /\ \A y \in Stored : ToCome(d, y) => ToCome(d, y)'
  BY <1>8, <1>9, <1>22 DEF pageVars, storeVars, signalVars, ToCome
<1> QED
  BY <1>0, <1>10, <1>11, <1>14, <1>21, <1>22, PageStep

-----------------------------------------------------------------------------
(* A page takes what arrives. *)

LEMMA Taken ==
  ASSUME Types, NEW b \in Browser, NEW type, Take(b, type)
  PROVE  /\ toBrowser' \in [Browser -> Seq(Texts)]
         /\ \A d \in Browser : d # b => toBrowser'[d] = toBrowser[d]
         /\ \E s, t \in Seq(Texts), L \in Nat :
              /\ s = toBrowser[b] /\ t = toBrowser'[b]
              /\ Len(s) = L + 1 /\ DOMAIN s = 1..(L + 1)
              /\ Len(t) = L /\ DOMAIN t = 1..L
              /\ \A l \in 1..L : t[l] = s[l + 1]
              /\ s[1] \in Texts /\ s[1] = Head(toBrowser[b]) /\ s[1].type = type
<1> USE DEF Take
<1>1. PICK s \in Seq(Texts) : s = toBrowser[b] /\ s # <<>>
  BY DEF Types
<1>2. PICK t : t = Tail(s)
  OBVIOUS
<1>3. /\ t \in Seq(Texts) /\ Head(s) = s[1] /\ s[1] \in Texts
      /\ Len(s) \in Nat /\ Len(s) >= 1 /\ DOMAIN s = 1..Len(s)
      /\ Len(t) = Len(s) - 1
      /\ DOMAIN t = 1..(Len(s) - 1)
      /\ \A l \in 1..(Len(s) - 1) : t[l] = s[l + 1]
  BY <1>1, <1>2, TailText
<1>4. PICK L \in Nat : Len(s) = L + 1
  <2>1. Len(s) - 1 \in Nat /\ Len(s) = (Len(s) - 1) + 1
    BY <1>3
  <2> QED
    BY <2>1
<1>5. Len(s) - 1 = L
  BY <1>4
<1>6. toBrowser' = [toBrowser EXCEPT ![b] = t] /\ toBrowser \in [Browser -> Seq(Texts)]
  BY <1>1, <1>2 DEF Types
<1>7. /\ toBrowser' \in [Browser -> Seq(Texts)] /\ toBrowser'[b] = t
      /\ \A d \in Browser : d # b => toBrowser'[d] = toBrowser[d]
  BY <1>3, <1>6
<1>8. s[1].type = type /\ s[1] = Head(toBrowser[b])
  BY <1>1, <1>3
<1>9. /\ Len(s) = L + 1 /\ DOMAIN s = 1..(L + 1)
      /\ Len(t) = L /\ DOMAIN t = 1..L
      /\ \A l \in 1..L : t[l] = s[l + 1]
  BY <1>3, <1>4, <1>5
<1>10. s \in Seq(Texts) /\ t \in Seq(Texts) /\ s = toBrowser[b] /\ t = toBrowser'[b] /\ s[1] \in Texts
  BY <1>1, <1>3, <1>7
<1> QED
  BY <1>7, <1>8, <1>9, <1>10

LEMMA ReceiveResumedFits ==
  ASSUME IInv, NEW b \in Browser, ReceiveResumed(b)
  PROVE  IInv'
<1> USE DEF ReceiveResumed
<1>0. Types /\ StoreFits /\ SignalsFit /\ AskedOnce(b) /\ Served(b) /\ UNCHANGED storeVars
  BY DEF IInv
<1>1. /\ toBrowser' \in [Browser -> Seq(Texts)]
      /\ \A d \in Browser : d # b => toBrowser'[d] = toBrowser[d]
  BY <1>0, Taken
<1>2. PICK s, t \in Seq(Texts), L \in Nat :
        /\ s = toBrowser[b] /\ t = toBrowser'[b]
        /\ Len(s) = L + 1 /\ DOMAIN s = 1..(L + 1)
        /\ Len(t) = L /\ DOMAIN t = 1..L
        /\ \A l \in 1..L : t[l] = s[l + 1]
        /\ s[1] \in Texts /\ s[1].type = "resumed"
  BY <1>0, Taken
<1>3. /\ asked' \in [Browser -> BOOLEAN] /\ asked'[b]
      /\ \A d \in Browser : d # b => asked'[d] = asked[d]
  BY <1>0 DEF Types
<1>4. 1 \in 1..(L + 1) /\ \A l \in 1..L : l + 1 \in 1..(L + 1) /\ l + 1 # 1
  BY <1>2
<1>5. ~ live[b] /\ ~ asked[b] /\ \A l \in 1..(L + 1) : l # 1 => s[l].type = "told"
  BY <1>0, <1>2, <1>4 DEF AskedOnce
<1>6. ASSUME NEW l \in 1..L PROVE t[l].type = "told"
  <2>1. t[l] = s[l + 1] /\ l + 1 \in 1..(L + 1) /\ l + 1 # 1
    BY <1>2, <1>4
  <2> QED
    BY <1>5, <2>1
<1>7. place[b] = "select"
  <2>1. s # <<>>
    BY <1>2, <1>4
  <2> QED
    BY <1>0, <1>2, <2>1 DEF AskedOnce
<1>8. Types'
  BY <1>0, <1>1, <1>3 DEF Types, storeVars, signalVars, pageVars
<1>9. SignalsFit'
  BY <1>0 DEF SignalsFit, storeVars, signalVars
<1>10. AskedOnce(b)'
  BY <1>2, <1>5, <1>6, <1>7 DEF AskedOnce, pageVars
<1>11. Served(b)'
  <2>1. Stored' = Stored
    BY <1>0, SameStore
  <2>2. ToldStored(b)'
    <3>1. \A l \in 1..L : t[l].item \in Stored
      BY <1>0, <1>2, <1>4, <1>5 DEF Served, ToldStored
    <3> QED
      BY <1>2, <2>1, <3>1 DEF ToldStored
  <2>3. Starts(b)' = {}
    <3>1. \A n \in 0..L : n = 0 \/ n \in 1..L
      OBVIOUS
    <3> QED
      BY <1>2, <1>5, <1>6, <3>1 DEF Starts, pageVars
  <2> QED
    BY <2>2, <2>3 DEF Served, Complete, Prepared, Authored, HoldsStored
<1>12. ASSUME NEW d \in Browser, d # b
       PROVE  /\ toBrowser'[d] = toBrowser[d] /\ chat'[d] = chat[d] /\ live'[d] = live[d]
              /\ cut'[d] = cut[d] /\ place'[d] = place[d] /\ asked'[d] = asked[d]
              /\ \A y \in Stored : ToCome(d, y) => ToCome(d, y)'
  BY <1>1, <1>3, <1>12 DEF pageVars, storeVars, signalVars, ToCome
<1> QED
  BY <1>0, <1>8, <1>9, <1>10, <1>11, <1>12, PageStep

LEMMA PagesAre ==
  ASSUME Types, NEW b \in Browser, chat[b] # None
  PROVE  \E F \in Nat :
           /\ F = Len(former[b]) /\ Pages(b) \in Seq(Chats)
           /\ Len(Pages(b)) = F + 1 /\ DOMAIN Pages(b) = 1..(F + 1)
           /\ \A n \in 1..(F + 1) : Pages(b)[n] \in Chats
           /\ Pages(b)[F + 1] = chat[b]
<1>1. former[b] \in Seq(Chats) /\ chat[b] \in Chats
  BY DEF Types
<1>2. Pages(b) = Append(former[b], chat[b])
  BY DEF Pages
<1>3. PICK F \in Nat : F = Len(former[b])
  BY <1>1, LenProperties
<1>4. /\ Pages(b) \in Seq(Chats) /\ Len(Pages(b)) = F + 1 /\ Pages(b)[F + 1] = chat[b]
  BY <1>1, <1>2, <1>3, AppendProperties
<1>5. DOMAIN Pages(b) = 1..(F + 1) /\ \A n \in 1..(F + 1) : Pages(b)[n] \in Chats
  BY <1>4, LenProperties, ElementOfSeq
<1> QED
  BY <1>3, <1>4, <1>5

(* Prepared(b)', in terms of what toBrowser[b] becomes. *)
LEMMA PreparedIf ==
  ASSUME NEW b \in Browser, NEW L \in Nat, NEW t, t = toBrowser'[b], DOMAIN t = 1..L,
         UNCHANGED storeVars,
         \A n \in Starts(b)', l \in 1..L, m \in Message :
           l > n /\ IsTold(t[l], m) /\ ~ Early(m) =>
             \A y \in Needs(m) : \/ Has(View(b, n), y)'
                                \/ \E h \in 1..L : h > n /\ h < l /\ IsTold(t[h], y)
  PROVE  Prepared(b)'
<1>1. \A m \in Message : Early(m)' = Early(m) /\ Needs(m)' = Needs(m)
  BY SameStore
<1> SUFFICES ASSUME NEW n \in Starts(b)', NEW l \in 1..L, NEW m \in Message,
                    l > n, IsTold(t[l], m), ~ Early(m)', NEW y \in Needs(m)'
             PROVE  \/ Has(View(b, n), y)'
                    \/ \E h \in 1..L : h > n /\ h < l /\ IsTold(t[h], y)
  BY DEF Prepared, IsTold
<1>2. ~ Early(m) /\ y \in Needs(m)
  BY <1>1
<1> QED
  BY <1>2

LEMMA ReceiveInitFits ==
  ASSUME IInv, NEW b \in Browser, ReceiveInit(b)
  PROVE  IInv'
<1> USE DEF ReceiveInit
<1>0. Types /\ StoreFits /\ SignalsFit /\ AskedOnce(b) /\ Served(b) /\ UNCHANGED storeVars
  BY DEF IInv
<1>1. /\ toBrowser' \in [Browser -> Seq(Texts)]
      /\ \A d \in Browser : d # b => toBrowser'[d] = toBrowser[d]
  BY <1>0, Taken
<1>2. PICK s, t \in Seq(Texts), L \in Nat :
        /\ s = toBrowser[b] /\ t = toBrowser'[b]
        /\ Len(s) = L + 1 /\ DOMAIN s = 1..(L + 1)
        /\ Len(t) = L /\ DOMAIN t = 1..L
        /\ \A l \in 1..L : t[l] = s[l + 1]
        /\ s[1] \in Texts /\ s[1] = Head(toBrowser[b]) /\ s[1].type = "init"
  BY <1>0, Taken
<1>3. PICK page \in Chats : page = s[1].data
  BY <1>2, TextCases
<1>4. 1 \in 1..(L + 1) /\ 1 \in 0..(L + 1) /\ \A l \in 1..L : l + 1 \in 1..(L + 1) /\ l + 1 # 1
  BY <1>2
<1>5. ~ live[b] /\ ~ asked[b] /\ \A l \in 1..(L + 1) : l # 1 => s[l].type = "told"
  BY <1>0, <1>2, <1>4 DEF AskedOnce
<1>6. ASSUME NEW l \in 1..L PROVE t[l].type = "told"
  <2>1. t[l] = s[l + 1] /\ l + 1 \in 1..(L + 1) /\ l + 1 # 1
    BY <1>2, <1>4
  <2> QED
    BY <1>5, <2>1
<1>7. place[b] = "select"
  <2>1. s # <<>>
    BY <1>2, <1>4
  <2> QED
    BY <1>0, <1>2, <2>1 DEF AskedOnce
<1>8. /\ chat' \in [Browser -> Chats \cup {None}] /\ chat'[b] = page
      /\ \A d \in Browser : d # b => chat'[d] = chat[d]
  BY <1>0, <1>2, <1>3 DEF Types
<1>9. /\ live' \in [Browser -> BOOLEAN] /\ live'[b]
      /\ \A d \in Browser : d # b => live'[d] = live[d]
  BY <1>0 DEF Types
<1>10. /\ cut' \in [Browser -> SUBSET Message] /\ cut'[b] = {}
       /\ \A d \in Browser : d # b => cut'[d] = cut[d]
  BY <1>0 DEF Types
<1>11. former' \in [Browser -> Seq(Chats)]
  <2>1. Pages(b) \in Seq(Chats)
    <3>1. CASE chat[b] = None
      BY <3>1, EmptySeq DEF Pages
    <3>2. CASE chat[b] # None
      BY <1>0, <3>2, PagesAre
    <3> QED
      BY <3>1, <3>2
  <2> QED
    BY <1>0, <2>1 DEF Types
<1>12. Types'
  BY <1>0, <1>1, <1>8, <1>9, <1>10, <1>11 DEF Types, storeVars, signalVars, connVars
<1>13. SignalsFit'
  BY <1>0 DEF SignalsFit, storeVars, signalVars, connVars
<1>14. AskedOnce(b)'
  BY <1>2, <1>3, <1>5, <1>6, <1>7, <1>8 DEF AskedOnce, connVars
<1>15. /\ Stored' = Stored
       /\ \A m \in Message : Early(m)' = Early(m) /\ Needs(m)' = Needs(m)
       /\ post' = post
  BY <1>0, SameStore
<1>16. ASSUME NEW n \in Starts(b)'
       PROVE  n = 0 /\ View(b, n)' = page
  <2>1. n = 0 \/ n \in 1..L
    BY <1>2 DEF Starts
  <2>2. n = 0
    BY <1>2, <1>6, <2>1 DEF Starts
  <2> QED
    BY <1>8, <2>2 DEF View
<1>17. 1 \in Starts(b) /\ View(b, 1) = page
  BY <1>2, <1>3, <1>4 DEF Starts, View
<1>18. ToldStored(b)'
  <2>1. \A l \in 1..L : t[l].item \in Stored
    BY <1>0, <1>2, <1>4, <1>5 DEF Served, ToldStored
  <2> QED
    BY <1>2, <1>15, <2>1 DEF ToldStored
(* What comes after 1 before comes after 0 now. *)
<1>19. ASSUME NEW l \in 1..(L + 1), l > 1
       PROVE  l - 1 \in 1..L /\ l - 1 > 0 /\ t[l - 1] = s[l]
  <2>1. l - 1 \in 1..L /\ (l - 1) + 1 = l /\ l - 1 > 0
    BY <1>19
  <2> QED
    BY <1>2, <2>1
<1>20. Complete(b)'
  <2> SUFFICES ASSUME NEW y \in Stored
               PROVE  \/ Has(page, y)'
                      \/ \E l \in 1..L : l > 0 /\ IsTold(t[l], y)
                      \/ ToCome(b, y)'
                      \/ y \in Message /\ Early(y)
    <3> SUFFICES ASSUME NEW n \in Starts(b)', NEW y \in Stored
                 PROVE  Comes(b, n, y)' \/ (y \in Message /\ Early(y))
      BY <1>15 DEF Complete
    <3>1. n = 0 /\ View(b, n)' = page
      BY <1>16
    <3>2. Comes(b, n, y)' <=> \/ Has(page, y)'
                              \/ \E l \in 1..L : l > 0 /\ IsTold(t[l], y)
                              \/ ToCome(b, y)'
      BY <1>2, <3>1 DEF Comes, IsTold
    <3> QED
      BY <3>2
  <2>1. \/ Has(page, y)
        \/ \E l \in 1..(L + 1) : l > 1 /\ IsTold(s[l], y)
        \/ ToCome(b, y)
        \/ y \in Message /\ Early(y)
    <3>1. \/ Comes(b, 1, y)
          \/ y \in Message /\ Early(y)
          \/ 1 = 0 /\ y \in cut[b]
      BY <1>0, <1>17 DEF Served, Complete
    <3>2. Comes(b, 1, y) <=> \/ Has(page, y)
                             \/ \E l \in 1..(L + 1) : l > 1 /\ IsTold(s[l], y)
                             \/ ToCome(b, y)
      BY <1>2, <1>17 DEF Comes
    <3> QED
      BY <3>1, <3>2
  <2>2. Has(page, y)' <=> Has(page, y)
    BY <1>15, HasStays DEF Stored
  <2>3. (\E l \in 1..(L + 1) : l > 1 /\ IsTold(s[l], y)) =>
          \E l \in 1..L : l > 0 /\ IsTold(t[l], y)
    BY <1>19
  <2>4. ToCome(b, y) => ToCome(b, y)'
    BY DEF ToCome, storeVars, signalVars
  <2> QED
    BY <2>1, <2>2, <2>3, <2>4
<1>21. Prepared(b)'
  <2> SUFFICES ASSUME NEW n \in Starts(b)', NEW l \in 1..L, NEW m \in Message,
                      l > n, IsTold(t[l], m), ~ Early(m), NEW y \in Needs(m)
               PROVE  \/ Has(View(b, n), y)'
                      \/ \E h \in 1..L : h > n /\ h < l /\ IsTold(t[h], y)
    <3>1. t = toBrowser'[b] /\ DOMAIN t = 1..L
      BY <1>2
    <3> QED
      BY <1>0, <3>1, PreparedIf
  <2>0. n = 0 /\ (Has(View(b, n), y)' <=> Has(page, y)')
    BY <1>16
  <2>1. l + 1 \in 1..(L + 1) /\ l + 1 > 1 /\ IsTold(s[l + 1], m)
    <3>1. l + 1 \in 1..(L + 1) /\ l + 1 > 1
      BY <1>2
    <3>2. t[l] = s[l + 1]
      BY <1>2
    <3> QED
      BY <3>1, <3>2
  <2>2. \/ Has(page, y)
        \/ \E h \in 1..(L + 1) : h > 1 /\ h < l + 1 /\ IsTold(s[h], y)
    BY <1>0, <1>2, <1>17, <2>1 DEF Served, Prepared
  <2>3. y \in Item
    <3>1. m \in Stored
      BY <1>0, <1>2, <2>1 DEF Served, ToldStored, IsTold
    <3> QED
      BY <1>0, <3>1, NeedsAre
  <2>4. Has(page, y)' <=> Has(page, y)
    BY <1>15, <2>3, HasStays
  <2>5. ASSUME NEW h \in 1..(L + 1), h > 1, h < l + 1, IsTold(s[h], y)
        PROVE  \E g \in 1..L : g > 0 /\ g < l /\ IsTold(t[g], y)
    <3>1. h - 1 \in 1..L /\ h - 1 > 0 /\ h - 1 < l /\ IsTold(t[h - 1], y)
      BY <1>19, <2>5
    <3> QED
      BY <3>1
  <2> QED
    BY <2>0, <2>2, <2>4, <2>5
<1>22. Authored(b)'
  <2>1. ASSUME NEW m \in Stored \cap Message, Has(page, m)'
        PROVE  post[m].author \in page.users \/ Early(m)
    <3>1. Has(page, m)
      BY <1>15, <2>1, HasStays, ItemsDiffer
    <3> QED
      BY <1>0, <1>17, <3>1 DEF Served, Authored
  <2> QED
    BY <1>15, <1>16, <2>1 DEF Authored
<1>23. HoldsStored(b)'
  BY <1>0, <1>15, <1>16, <1>17 DEF Served, HoldsStored, Holds
<1>24. Served(b)'
  BY <1>18, <1>20, <1>21, <1>22, <1>23 DEF Served
<1>25. ASSUME NEW d \in Browser, d # b
       PROVE  /\ toBrowser'[d] = toBrowser[d] /\ chat'[d] = chat[d] /\ live'[d] = live[d]
              /\ cut'[d] = cut[d] /\ place'[d] = place[d] /\ asked'[d] = asked[d]
              /\ \A y \in Stored : ToCome(d, y) => ToCome(d, y)'
  BY <1>1, <1>8, <1>9, <1>10, <1>25 DEF connVars, storeVars, signalVars, ToCome
<1> QED
  BY <1>0, <1>12, <1>13, <1>14, <1>24, <1>25, PageStep

(* What a notification does to the Chats of a page: nothing, as there are  *)
(* none; an update of all of them; or one that ends before the last.       *)
LEMMA ToldCases ==
  ASSUME Types, NEW b \in Browser, ReceiveTold(b), NEW i \in Item,
         i = Head(toBrowser[b]).item, i \in Message => post[i] \in Posts
  PROVE  /\ former' \in [Browser -> Seq(Chats)]
         /\ chat' \in [Browser -> Chats \cup {None}]
         /\ cut' \in [Browser -> SUBSET Message]
         /\ live' = live
         /\ \A d \in Browser : d # b => chat'[d] = chat[d] /\ cut'[d] = cut[d]
         /\ \/ chat[b] = None /\ chat'[b] = chat[b] /\ cut'[b] = cut[b]
            \/ chat[b] \in Chats /\ chat'[b] \in Updated(chat[b], i) /\ cut'[b] = cut[b]
            \/ i \in Message /\ chat'[b] = chat[b] /\ cut'[b] = cut[b] \cup {i}
<1>1. CASE chat[b] = None
  <2>1. Pages(b) = <<>>
    BY <1>1 DEF Pages
  <2>2. DOMAIN Pages(b) = {}
    BY <2>1
  <2>3. UNCHANGED pageVars
    BY <2>1, <2>2 DEF ReceiveTold
  <2> QED
    BY <1>1, <2>3 DEF pageVars, Types
<1>2. CASE chat[b] # None
  <2>1. PICK p : p = Pages(b)
    OBVIOUS
  <2>2. PICK F \in Nat :
          /\ F = Len(former[b]) /\ Len(p) = F + 1 /\ DOMAIN p = 1..(F + 1)
          /\ \A n \in 1..(F + 1) : p[n] \in Chats
          /\ p[F + 1] = chat[b]
    BY <1>2, <2>1, PagesAre
  <2>3. p # <<>>
    BY <2>2
  <2>4. PICK r \in 1..(F + 1) :
          \E new \in [1..r -> UNION {Updated(p[n], i) : n \in 1..r}] :
            /\ \A n \in 1..r : new[n] \in Updated(p[n], i)
            /\ \/ /\ r = Len(p)
                  /\ former' = [former EXCEPT ![b] = Front(new)]
                  /\ chat' = [chat EXCEPT ![b] = Last(new)]
                  /\ UNCHANGED cut
               \/ /\ r < Len(p)
                  /\ i \in Message /\ Unrenderable(new[r], i)
                  /\ former' = [former EXCEPT ![b] = new \o SubSeq(@, r + 1, Len(@))]
                  /\ cut' = [cut EXCEPT ![b] = @ \cup {i}]
                  /\ UNCHANGED chat
    <3>1. \E r \in DOMAIN p :
            \E new \in [1..r -> UNION {Updated(p[n], i) : n \in 1..r}] :
              /\ \A n \in 1..r : new[n] \in Updated(p[n], i)
              /\ \/ /\ r = Len(p)
                    /\ former' = [former EXCEPT ![b] = Front(new)]
                    /\ chat' = [chat EXCEPT ![b] = Last(new)]
                    /\ UNCHANGED cut
                 \/ /\ r < Len(p)
                    /\ i \in Message /\ Unrenderable(new[r], i)
                    /\ former' = [former EXCEPT ![b] = new \o SubSeq(@, r + 1, Len(@))]
                    /\ cut' = [cut EXCEPT ![b] = @ \cup {i}]
                    /\ UNCHANGED chat
      BY <2>1, <2>3, ZenonT(40) DEF ReceiveTold
    <3>2. DOMAIN p = 1..(F + 1)
      BY <2>2
    <3> QED
      BY <3>1, <3>2
  <2>5. PICK new \in [1..r -> UNION {Updated(p[n], i) : n \in 1..r}] :
          /\ \A n \in 1..r : new[n] \in Updated(p[n], i)
          /\ \/ /\ r = F + 1
                /\ former' = [former EXCEPT ![b] = Front(new)]
                /\ chat' = [chat EXCEPT ![b] = Last(new)]
                /\ UNCHANGED cut
             \/ /\ r < F + 1
                /\ i \in Message
                /\ former' = [former EXCEPT ![b] = new \o SubSeq(@, r + 1, Len(@))]
                /\ cut' = [cut EXCEPT ![b] = @ \cup {i}]
                /\ UNCHANGED chat
    BY <2>2, <2>4
  <2>6. live' = live
    BY <2>1, <2>3 DEF ReceiveTold, pageVars
  <2>7. \A n \in 1..r : new[n] \in Chats
    <3> TAKE n \in 1..r
    <3>1. n \in 1..(F + 1)
      BY <2>2
    <3>2. p[n] \in Chats /\ new[n] \in Updated(p[n], i)
      BY <2>2, <2>5, <3>1
    <3>3. PICK page \in Chats : page = p[n]
      BY <3>2
    <3>4. PICK after \in Updated(page, i) : after = new[n]
      BY <3>2, <3>3
    <3>5. NotLess(page, after, i)
      BY UpdatedFits
    <3> QED
      BY <3>4, <3>5 DEF NotLess
  <2>8. new \in [1..r -> Chats] /\ DOMAIN new = 1..r
    BY <2>5, <2>7
  <2>9. new \in Seq(Chats) /\ Len(new) = r
    <3>0. r \in Nat
      BY <2>2
    <3>1. r \in Nat /\ new \in UNION {[1..n -> Chats] : n \in Nat}
      <4>1. \E n \in Nat : new \in [1..n -> Chats]
        BY <2>8, <3>0
      <4> QED
        BY <3>0, <4>1
    <3>2. new \in Seq(Chats)
      BY <3>1, SeqDef
    <3>3. Len(new) \in Nat /\ DOMAIN new = 1..Len(new)
      BY <3>2, LenProperties
    <3>4. 1..Len(new) = 1..r
      BY <2>8, <3>3
    <3> QED
      BY <3>1, <3>2, <3>3, <3>4
  <2>10. CASE r = F + 1
    <3>1. Last(new) = new[r] /\ Last(new) \in Updated(chat[b], i) /\ Last(new) \in Chats
      <4>1. r \in 1..r /\ p[r] = chat[b]
        BY <2>2, <2>10
      <4> QED
        BY <2>5, <2>7, <2>9, <4>1 DEF Last
    <3>2. Front(new) \in Seq(Chats)
      <4>1. \A n \in 1..(r - 1) : new[n] \in Chats
        BY <2>7
      <4>2. SubSeq(new, 1, r - 1) \in Seq(Chats)
        BY <2>2, <4>1, SubSeqProperties
      <4> QED
        BY <2>9, <4>2 DEF Front
    <3>3. /\ former' = [former EXCEPT ![b] = Front(new)]
          /\ chat' = [chat EXCEPT ![b] = Last(new)]
          /\ cut' = cut
      BY <2>2, <2>5, <2>10
    <3>4. chat[b] \in Chats
      BY <1>2 DEF Types
    <3>5. former' \in [Browser -> Seq(Chats)]
      BY <3>2, <3>3 DEF Types
    <3>6. /\ chat' \in [Browser -> Chats \cup {None}] /\ chat'[b] = Last(new)
          /\ \A d \in Browser : d # b => chat'[d] = chat[d]
      BY <3>1, <3>3 DEF Types
    <3> QED
      BY <2>6, <3>1, <3>3, <3>4, <3>5, <3>6 DEF Types
  <2>11. CASE r < F + 1
    <3>1. PICK f \in Seq(Chats) : f = former[b] /\ Len(f) = F
      BY <2>2 DEF Types
    <3>2. \A n \in 1..F : f[n] \in Chats
      BY <3>1, ElementOfSeq
    <3>3. PICK z : z = SubSeq(f, r + 1, F)
      OBVIOUS
    <3>4. z \in Seq(Chats)
      <4>1. \A n \in (r + 1)..F : f[n] \in Chats
        BY <3>2
      <4> QED
        BY <3>3, <4>1, SubSeqProperties
    <3>5. new \o z \in Seq(Chats)
      BY <2>9, <3>4, ConcatProperties
    <3>6. /\ i \in Message /\ chat' = chat
          /\ former' = [former EXCEPT ![b] = new \o z]
          /\ cut' = [cut EXCEPT ![b] = cut[b] \cup {i}]
      BY <2>5, <2>11, <3>1, <3>3
    <3>7. former' \in [Browser -> Seq(Chats)]
      BY <3>5, <3>6 DEF Types
    <3>8. /\ cut' \in [Browser -> SUBSET Message] /\ cut'[b] = cut[b] \cup {i}
          /\ \A d \in Browser : d # b => cut'[d] = cut[d]
      BY <3>6 DEF Types
    <3> QED
      BY <2>6, <3>6, <3>7, <3>8 DEF Types
  <2> QED
    BY <2>2, <2>10, <2>11
<1> QED
  BY <1>1, <1>2

(* The Chat that is shown has no less after a notification, and what was   *)
(* told unless it is early or cut off.                                     *)
ChatGrows(b, i) ==
  /\ \A x \in Stored : Has(chat[b], x) => Has(chat'[b], x)
  /\ \/ Has(chat'[b], i)
     \/ i \in Message /\ ~ Has(chat[b], post[i].channel)
     \/ i \in cut'[b]
  /\ cut[b] \subseteq cut'[b]
  /\ \A m \in Stored \cap Message : Has(chat'[b], m) => Has(chat[b], m) \/ m = i
  /\ \A m \in Message : Holds(chat'[b], m) => Holds(chat[b], m) \/ m = i
  /\ chat[b].users \subseteq chat'[b].users

LEMMA ToldGrows ==
  ASSUME Types, StoreFits, NEW b \in Browser, ReceiveTold(b), live[b] => chat[b] \in Chats,
         NEW i \in Stored, i = Head(toBrowser[b]).item, live[b]
  PROVE  ChatGrows(b, i)
<1>1. i \in Item /\ (i \in Message => post[i] \in Posts)
  <2>1. i \in Item /\ phase[i] # "new"
    BY DEF Stored
  <2> QED
    BY <2>1 DEF StoreFits
<1>2. PICK page \in Chats : page = chat[b]
  OBVIOUS
<1>3. PICK new : new = chat'[b]
  OBVIOUS
<1>4. \/ new = page /\ chat[b] = None
      \/ new \in Updated(page, i) /\ cut'[b] = cut[b]
      \/ i \in Message /\ new = page /\ cut'[b] = cut[b] \cup {i}
  <2>1. \/ chat[b] = None /\ chat'[b] = chat[b] /\ cut'[b] = cut[b]
        \/ chat[b] \in Chats /\ chat'[b] \in Updated(chat[b], i) /\ cut'[b] = cut[b]
        \/ i \in Message /\ chat'[b] = chat[b] /\ cut'[b] = cut[b] \cup {i}
    BY <1>1, ToldCases
  <2> QED
    BY <1>2, <1>3, <2>1
<1>5. \A x \in Stored : x \in Item /\ (x \in Message => post[x] \in Posts)
  BY DEF Stored, StoreFits
<1>6. chat[b] # None
  BY <1>2, NoneAssumption
<1>7. CASE new \in Updated(page, i) /\ cut'[b] = cut[b]
  <2>1. NotLess(page, new, i)
    <3>1. PICK after \in Updated(page, i) : after = new
      BY <1>7
    <3> QED
      BY <1>1, <3>1, UpdatedFits
  <2>2. \A x \in Stored : Has(page, x) => Has(new, x)
    BY <1>5, <2>1 DEF NotLess
  <2>3. Has(new, i) \/ (i \in Message /\ ~ Has(page, post[i].channel))
    BY <2>1 DEF NotLess
  <2>4. \A m \in Stored \cap Message : Has(new, m) => Has(page, m) \/ m = i
    BY <1>5, <2>1 DEF NotLess
  <2>5. \A m \in Message : Holds(new, m) => Holds(page, m) \/ m = i
    BY <2>1 DEF NotLess
  <2>6. page.users \subseteq new.users
    BY <2>1 DEF NotLess
  <2> QED
    BY <1>2, <1>3, <1>7, <2>2, <2>3, <2>4, <2>5, <2>6 DEF ChatGrows
<1>8. CASE i \in Message /\ new = page /\ cut'[b] = cut[b] \cup {i}
  BY <1>2, <1>3, <1>8 DEF ChatGrows
<1> QED
  BY <1>4, <1>6, <1>7, <1>8

LEMMA ReceiveToldFits ==
  ASSUME IInv, NEW b \in Browser, ReceiveTold(b)
  PROVE  IInv'
<1>0. /\ Types /\ StoreFits /\ SignalsFit /\ AskedOnce(b) /\ Served(b)
      /\ UNCHANGED <<storeVars, signalVars, connVars, restarts>> /\ Take(b, "told")
  BY DEF IInv, ReceiveTold
<1>1. /\ toBrowser' \in [Browser -> Seq(Texts)]
      /\ \A d \in Browser : d # b => toBrowser'[d] = toBrowser[d]
  BY <1>0, Taken
<1>2. PICK s, t \in Seq(Texts), L \in Nat :
        /\ s = toBrowser[b] /\ t = toBrowser'[b]
        /\ Len(s) = L + 1 /\ DOMAIN s = 1..(L + 1)
        /\ Len(t) = L /\ DOMAIN t = 1..L
        /\ \A l \in 1..L : t[l] = s[l + 1]
        /\ s[1] \in Texts /\ s[1] = Head(toBrowser[b]) /\ s[1].type = "told"
  BY <1>0, Taken
<1>3. 1 \in 1..(L + 1) /\ \A l \in 1..L : l + 1 \in 1..(L + 1) /\ l + 1 # 1
  BY <1>2
<1>4. PICK i \in Item : i = Head(toBrowser[b]).item /\ i = s[1].item /\ i \in Stored
  <2>1. s[1].item \in Item
    BY <1>2, TextCases
  <2>2. s[1].item \in Stored
    BY <1>0, <1>2, <1>3 DEF Served, ToldStored
  <2> QED
    BY <1>2, <2>1, <2>2
<1>5. i \in Message => post[i] \in Posts
  BY <1>0, <1>4 DEF StoreFits, Stored
<1>6. /\ former' \in [Browser -> Seq(Chats)]
      /\ chat' \in [Browser -> Chats \cup {None}]
      /\ cut' \in [Browser -> SUBSET Message]
      /\ live' = live
      /\ \A d \in Browser : d # b => chat'[d] = chat[d] /\ cut'[d] = cut[d]
      /\ \/ chat[b] = None /\ chat'[b] = chat[b] /\ cut'[b] = cut[b]
         \/ chat[b] \in Chats /\ chat'[b] \in Updated(chat[b], i) /\ cut'[b] = cut[b]
         \/ i \in Message /\ chat'[b] = chat[b] /\ cut'[b] = cut[b] \cup {i}
  BY <1>0, <1>4, <1>5, ToldCases
<1>7. live[b] => chat[b] \in Chats /\ chat'[b] \in Chats /\ ~ asked[b] /\ ChatGrows(b, i)
  <2> SUFFICES ASSUME live[b]
               PROVE  chat[b] \in Chats /\ chat'[b] \in Chats /\ ~ asked[b] /\ ChatGrows(b, i)
    OBVIOUS
  <2>1. chat[b] \in Chats /\ ~ asked[b]
    BY <1>0 DEF AskedOnce
  <2>2. chat'[b] \in Chats
    <3>1. CASE chat'[b] = chat[b]
      BY <2>1, <3>1
    <3>2. CASE chat'[b] \in Updated(chat[b], i)
      <4>1. PICK page \in Chats : page = chat[b]
        BY <2>1
      <4>2. PICK new \in Updated(page, i) : new = chat'[b]
        BY <3>2, <4>1
      <4> QED
        BY <1>5, <4>2, UpdatedFits DEF NotLess
    <3> QED
      BY <1>6, <3>1, <3>2
  <2>3. ChatGrows(b, i)
    BY <1>0, <1>4, <2>1, ToldGrows
  <2> QED
    BY <2>1, <2>2, <2>3
<1>8. Types'
  BY <1>0, <1>1, <1>6 DEF Types, storeVars, signalVars, connVars
<1>9. SignalsFit'
  BY <1>0 DEF SignalsFit, storeVars, signalVars, connVars
<1>10. place[b] = "select"
  <2>1. s # <<>>
    BY <1>2, <1>3
  <2> QED
    BY <1>0, <1>2, <2>1 DEF AskedOnce
<1>11. AskedOnce(b)'
  <2>1. ASSUME NEW j \in 1..L, t[j].type # "told"
        PROVE  ~ asked[b] /\ ~ live[b] /\ \A l \in 1..L : l # j => t[l].type = "told"
    <3>1. j + 1 \in 1..(L + 1) /\ t[j] = s[j + 1]
      BY <1>2, <1>3
    <3>2. ~ asked[b] /\ ~ live[b] /\ \A l \in 1..(L + 1) : l # j + 1 => s[l].type = "told"
      <4>1. PICK k \in 1..(L + 1) : k = j + 1 /\ s[k].type # "told"
        BY <2>1, <3>1
      <4>2. ~ asked[b] /\ ~ live[b] /\ \A l \in 1..(L + 1) : l # k => s[l].type = "told"
        BY <1>0, <1>2, <4>1 DEF AskedOnce
      <4> QED
        BY <4>1, <4>2
    <3>3. ASSUME NEW l \in 1..L, l # j PROVE t[l].type = "told"
      <4>1. l + 1 # j + 1 /\ l + 1 \in 1..(L + 1)
        BY <3>3
      <4>2. t[l] = s[l + 1]
        BY <1>2
      <4> QED
        BY <3>2, <4>1, <4>2
    <3> QED
      BY <3>2, <3>3
  <2>2. asked'[b] = asked[b] /\ live'[b] = live[b] /\ place'[b] = place[b]
    BY <1>0, <1>6 DEF connVars
  <2> QED
    BY <1>2, <1>7, <1>10, <2>1, <2>2 DEF AskedOnce
<1>12. /\ Stored' = Stored
       /\ \A m \in Message : Early(m)' = Early(m) /\ Needs(m)' = Needs(m)
       /\ post' = post /\ UNCHANGED storeVars
  BY <1>0, SameStore
<1>13. ASSUME NEW n \in Starts(b)', n # 0
       PROVE  n \in 1..L /\ n + 1 \in Starts(b) /\ n + 1 # 0 /\ View(b, n)' = View(b, n + 1)
  <2>1. n \in 1..L /\ t[n].type = "init"
    BY <1>2, <1>13 DEF Starts
  <2>2. t[n] = s[n + 1] /\ n + 1 \in 1..(L + 1) /\ n + 1 \in 0..(L + 1) /\ n + 1 # 0
    BY <1>2, <2>1
  <2> QED
    BY <1>2, <1>13, <2>1, <2>2 DEF Starts, View
<1>14. ASSUME 0 \in Starts(b)'
       PROVE  0 \in Starts(b) /\ live[b] /\ View(b, 0) = chat[b] /\ View(b, 0)' = chat'[b]
  BY <1>2, <1>6, <1>14 DEF Starts, View
<1>15. ToldStored(b)'
  <2>1. \A l \in 1..(L + 1) : s[l].type = "told" => s[l].item \in Stored
    BY <1>0, <1>2 DEF Served, ToldStored
  <2>2. \A l \in 1..L : t[l].type = "told" => t[l].item \in Stored
    <3> TAKE l \in 1..L
    <3>1. t[l] = s[l + 1]
      BY <1>2
    <3>2. l + 1 \in 1..(L + 1)
      BY <1>2
    <3> QED
      BY <2>1, <3>1, <3>2
  <2> QED
    BY <1>2, <1>12, <2>2 DEF ToldStored
<1>16. \A y \in Stored : ToCome(b, y) => ToCome(b, y)'
  BY <1>0 DEF ToCome, storeVars, signalVars
(* What is behind the head of s has moved up by one. *)
<1>17. ASSUME NEW l \in 1..(L + 1), l > 1
       PROVE  l - 1 \in 1..L /\ t[l - 1] = s[l]
  <2>1. l - 1 \in 1..L /\ (l - 1) + 1 = l
    BY <1>17
  <2> QED
    BY <1>2, <2>1
<1>18. Complete(b)'
  <2> SUFFICES ASSUME NEW n \in Starts(b)', NEW y \in Stored
               PROVE  Comes(b, n, y)' \/ (y \in Message /\ Early(y)) \/ (n = 0 /\ y \in cut'[b])
    BY <1>12 DEF Complete
  <2>0. n \in Nat
    BY <1>2 DEF Starts
  <2>1. PICK page : page = View(b, n)'
    OBVIOUS
  <2>2. Comes(b, n, y)' <=> \/ Has(page, y)'
                            \/ \E l \in 1..L : l > n /\ IsTold(t[l], y)
                            \/ ToCome(b, y)'
    BY <1>2, <2>1 DEF Comes, IsTold
  <2>3. Has(page, y)' <=> Has(page, y)
    BY <1>12, HasStays DEF Stored
  <2>4. CASE n = 0
    <3>1. PICK old : old = chat[b]
      OBVIOUS
    <3>2. 0 \in Starts(b) /\ live[b] /\ View(b, 0) = old /\ page = chat'[b]
      BY <1>14, <2>1, <2>4, <3>1
    <3>3. \/ Comes(b, 0, y)
          \/ y \in Message /\ Early(y)
          \/ y \in cut[b]
      BY <1>0, <3>2 DEF Served, Complete
    <3>4. Comes(b, 0, y) <=> \/ Has(old, y)
                             \/ \E l \in 1..(L + 1) : l > 0 /\ IsTold(s[l], y)
                             \/ ToCome(b, y)
      BY <1>2, <3>2 DEF Comes
    <3>5. ChatGrows(b, i)
      BY <1>7, <3>2
    <3>6. CASE Has(old, y)
      <4>1. Has(page, y)
        BY <3>1, <3>2, <3>5, <3>6 DEF ChatGrows
      <4> QED
        BY <2>2, <2>3, <4>1
    <3>7. ASSUME NEW l \in 1..(L + 1), IsTold(s[l], y)
          PROVE  Comes(b, n, y)' \/ (y \in Message /\ Early(y)) \/ y \in cut'[b]
      <4>1. CASE l = 1
        <5>1. y = i
          BY <1>4, <3>7, <4>1 DEF IsTold
        <5>2. CASE Has(page, i)
          BY <2>2, <2>3, <5>1, <5>2
        <5>3. CASE i \in Message /\ ~ Has(old, post[i].channel)
          <6>1. \A h \in 1..(L + 1) : ~ (h > 0 /\ h < 1)
            OBVIOUS
          <6>2. post[i].channel \in Needs(i) /\ IsTold(s[1], i) /\ 1 > 0
            BY <3>7, <4>1, <5>1 DEF Needs
          <6>3. Early(i)
            BY <1>0, <1>2, <1>3, <3>2, <5>3, <6>1, <6>2 DEF Served, Prepared
          <6> QED
            BY <5>1, <5>3, <6>3
        <5>4. CASE i \in cut'[b]
          BY <5>1, <5>4
        <5> QED
          BY <3>1, <3>2, <3>5, <5>2, <5>3, <5>4 DEF ChatGrows
      <4>2. CASE l > 1
        <5>1. l - 1 \in 1..L /\ l - 1 > n /\ IsTold(t[l - 1], y)
          BY <1>17, <2>4, <3>7, <4>2
        <5> QED
          BY <2>2, <5>1
      <4> QED
        BY <4>1, <4>2
    <3>8. CASE ToCome(b, y)
      BY <1>16, <2>2, <3>8
    <3>9. CASE y \in cut[b]
      BY <2>4, <3>5, <3>9 DEF ChatGrows
    <3> QED
      BY <2>4, <3>3, <3>4, <3>6, <3>7, <3>8, <3>9
  <2>5. CASE n # 0
    <3>1. n + 1 \in Starts(b) /\ n + 1 # 0 /\ View(b, n + 1) = page
      BY <1>13, <2>1, <2>5
    <3>2. PICK k : k = n + 1
      OBVIOUS
    <3>3. \/ Comes(b, k, y)
          \/ y \in Message /\ Early(y)
      BY <1>0, <3>1, <3>2 DEF Served, Complete
    <3>4. Comes(b, k, y) <=> \/ Has(page, y)
                             \/ \E l \in 1..(L + 1) : l > k /\ IsTold(s[l], y)
                             \/ ToCome(b, y)
      BY <1>2, <3>1, <3>2 DEF Comes
    <3>5. ASSUME NEW l \in 1..(L + 1), l > k, IsTold(s[l], y)
          PROVE  \E h \in 1..L : h > n /\ IsTold(t[h], y)
      <4>1. l > 1 /\ l - 1 > n
        BY <2>0, <3>2, <3>5
      <4>2. l - 1 \in 1..L /\ IsTold(t[l - 1], y)
        BY <1>17, <3>5, <4>1
      <4> QED
        BY <4>1, <4>2
    <3> QED
      BY <1>16, <2>2, <2>3, <3>3, <3>4, <3>5
  <2> QED
    BY <2>4, <2>5
<1>19. Prepared(b)'
  <2> SUFFICES ASSUME NEW n \in Starts(b)', NEW l \in 1..L, NEW m \in Message,
                      l > n, IsTold(t[l], m), ~ Early(m), NEW y \in Needs(m)
               PROVE  \/ Has(View(b, n), y)'
                      \/ \E h \in 1..L : h > n /\ h < l /\ IsTold(t[h], y)
    <3>1. t = toBrowser'[b] /\ DOMAIN t = 1..L
      BY <1>2
    <3> QED
      BY <1>12, <3>1, PreparedIf
  <2>0. n \in Nat
    BY <1>2 DEF Starts
  <2>1. PICK page : page = View(b, n)'
    OBVIOUS
  <2>2. PICK g \in 1..(L + 1) : g = l + 1
    BY <1>3
  <2>3. IsTold(s[g], m)
    BY <1>2, <2>2
  <2>4. m \in Stored
    BY <1>0, <1>2, <2>3 DEF Served, ToldStored, IsTold
  <2>5. y \in Stored /\ y \in Item /\ y \notin Message
    BY <1>0, <2>4, NeedsAre
  <2>6. Has(View(b, n), y)' <=> Has(page, y)
    <3>1. Has(View(b, n), y)' <=> Has(page, y)'
      BY <2>1
    <3> QED
      BY <1>12, <2>5, <3>1, HasStays
  <2>7. CASE n = 0
    <3>1. PICK old : old = chat[b]
      OBVIOUS
    <3>2. 0 \in Starts(b) /\ live[b] /\ View(b, 0) = old /\ page = chat'[b]
      BY <1>14, <2>1, <2>7, <3>1
    <3>3. ChatGrows(b, i)
      BY <1>7, <3>2
    <3>4. g > 0
      OBVIOUS
    <3>5. \/ Has(old, y)
          \/ \E h \in 1..(L + 1) : h > 0 /\ h < g /\ IsTold(s[h], y)
      BY <1>0, <1>2, <2>3, <3>2, <3>4 DEF Served, Prepared
    <3>6. CASE Has(old, y)
      <4>1. Has(page, y)
        BY <2>5, <3>1, <3>2, <3>3, <3>6 DEF ChatGrows
      <4> QED
        BY <2>6, <4>1
    <3>7. ASSUME NEW h \in 1..(L + 1), h < g, IsTold(s[h], y)
          PROVE  \/ Has(page, y)
                 \/ \E e \in 1..L : e > n /\ e < l /\ IsTold(t[e], y)
      <4>1. CASE h = 1
        <5>1. y = i
          BY <1>4, <3>7, <4>1 DEF IsTold
        <5>2. i \notin cut'[b]
          BY <1>6, <2>5, <5>1
        <5> QED
          BY <2>5, <3>1, <3>2, <3>3, <5>1, <5>2 DEF ChatGrows
      <4>2. CASE h > 1
        <5>1. h - 1 \in 1..L /\ IsTold(t[h - 1], y)
          BY <1>17, <3>7, <4>2
        <5>2. h - 1 > n /\ h - 1 < l
          BY <2>2, <2>7, <3>7, <4>2
        <5> QED
          BY <5>1, <5>2
      <4> QED
        BY <4>1, <4>2
    <3> QED
      BY <2>6, <3>5, <3>6, <3>7
  <2>8. CASE n # 0
    <3>1. n + 1 \in Starts(b) /\ n + 1 # 0 /\ View(b, n + 1) = page
      BY <1>13, <2>1, <2>8
    <3>2. PICK k : k = n + 1
      OBVIOUS
    <3>3. g > k
      BY <2>0, <2>2, <3>2
    <3>4. \/ Has(page, y)
          \/ \E h \in 1..(L + 1) : h > k /\ h < g /\ IsTold(s[h], y)
      BY <1>0, <1>2, <2>3, <3>1, <3>2, <3>3 DEF Served, Prepared
    <3>5. ASSUME NEW h \in 1..(L + 1), h > k, h < g, IsTold(s[h], y)
          PROVE  \E e \in 1..L : e > n /\ e < l /\ IsTold(t[e], y)
      <4>1. h > 1 /\ h - 1 > n /\ h - 1 < l
        BY <2>0, <2>2, <3>2, <3>5
      <4>2. h - 1 \in 1..L /\ IsTold(t[h - 1], y)
        BY <1>17, <3>5, <4>1
      <4> QED
        BY <4>1, <4>2
    <3> QED
      BY <2>6, <3>4, <3>5
  <2> QED
    BY <2>7, <2>8
<1>20. Authored(b)'
  <2> SUFFICES ASSUME NEW n \in Starts(b)', NEW m \in Stored \cap Message, Has(View(b, n), m)'
               PROVE  post[m].author \in View(b, n)'.users \/ Early(m)
    BY <1>12 DEF Authored
  <2>1. PICK page : page = View(b, n)'
    OBVIOUS
  <2>2. Has(page, m)
    <3>1. Has(View(b, n), m)' <=> Has(page, m)'
      BY <2>1
    <3> QED
      BY <1>12, <3>1, HasStays, ItemsDiffer
  <2>3. CASE n = 0
    <3>1. PICK old : old = chat[b]
      OBVIOUS
    <3>2. 0 \in Starts(b) /\ live[b] /\ View(b, 0) = old /\ page = chat'[b]
      BY <1>14, <2>1, <2>3, <3>1
    <3>3. /\ Has(old, m) \/ m = i
          /\ old.users \subseteq page.users
      BY <1>7, <2>2, <3>1, <3>2 DEF ChatGrows
    <3>4. CASE Has(old, m)
      <4>1. post[m].author \in old.users \/ Early(m)
        BY <1>0, <3>2, <3>4 DEF Served, Authored
      <4> QED
        BY <2>1, <3>3, <4>1
    <3>5. CASE m = i
      <4>1. post[m].author \in Needs(m) /\ post[m].author \in User
        BY <1>0, NeedsAre
      <4>2. \A h \in 1..(L + 1) : ~ (h > 0 /\ h < 1)
        OBVIOUS
      <4>3. IsTold(s[1], m) /\ 1 > 0
        BY <1>2, <1>4, <3>5 DEF IsTold
      <4>4. Early(m) \/ Has(old, post[m].author)
        BY <1>0, <1>2, <1>3, <3>2, <4>1, <4>2, <4>3 DEF Served, Prepared
      <4>5. Early(m) \/ post[m].author \in old.users
        BY <4>1, <4>4, HasOne
      <4> QED
        BY <2>1, <3>3, <4>5
    <3> QED
      BY <3>3, <3>4, <3>5
  <2>4. CASE n # 0
    <3>1. n + 1 \in Starts(b) /\ View(b, n + 1) = page
      BY <1>13, <2>1, <2>4
    <3> QED
      BY <1>0, <2>1, <2>2, <3>1 DEF Served, Authored
  <2> QED
    BY <2>3, <2>4
<1>21. HoldsStored(b)'
  <2>1. ASSUME NEW n \in Starts(b)', NEW m \in Message, Holds(View(b, n)', m)
        PROVE  m \in Stored
    <3>1. CASE n = 0
      <4>1. 0 \in Starts(b) /\ live[b] /\ View(b, 0) = chat[b] /\ View(b, n)' = chat'[b]
        BY <1>14, <3>1
      <4>2. Holds(chat[b], m) \/ m = i
        BY <1>7, <2>1, <4>1 DEF ChatGrows
      <4> QED
        BY <1>0, <1>4, <4>1, <4>2 DEF Served, HoldsStored
    <3>2. CASE n # 0
      <4>1. n + 1 \in Starts(b) /\ View(b, n + 1) = View(b, n)'
        BY <1>13, <3>2
      <4> QED
        BY <1>0, <2>1, <4>1 DEF Served, HoldsStored
    <3> QED
      BY <3>1, <3>2
  <2> QED
    BY <1>12, <2>1 DEF HoldsStored, Holds
<1>22. Served(b)'
  BY <1>15, <1>18, <1>19, <1>20, <1>21 DEF Served
<1>23. ASSUME NEW d \in Browser, d # b
       PROVE  /\ toBrowser'[d] = toBrowser[d] /\ chat'[d] = chat[d] /\ live'[d] = live[d]
              /\ cut'[d] = cut[d] /\ place'[d] = place[d] /\ asked'[d] = asked[d]
              /\ \A y \in Stored : ToCome(d, y) => ToCome(d, y)'
  BY <1>0, <1>1, <1>6, <1>23 DEF connVars, storeVars, signalVars, ToCome
<1> QED
  BY <1>0, <1>8, <1>9, <1>11, <1>22, <1>23, PageStep

-----------------------------------------------------------------------------
(* The server dies. *)
(* Statements under way fail and dispatches are forgotten; what is stored  *)
(* stays.                                                                  *)
LEMMA RestartPhases ==
  ASSUME Types, Restart
  PROVE  /\ \A i \in Item :
              /\ phase'[i] \in Phases /\ phase'[i] \notin {"wait", "send"}
              /\ phase[i] = "done" => phase'[i] = "done"
              /\ phase'[i] # "new" => phase[i] # "new"
         /\ Stored' = Stored
<1> USE DEF Restart
<1>1. ASSUME NEW i \in Item
      PROVE  /\ phase'[i] \in Phases /\ phase'[i] \notin {"wait", "send"}
             /\ phase[i] = "done" => phase'[i] = "done"
             /\ phase'[i] # "new" => phase[i] # "new"
             /\ i \in Stored' <=> i \in Stored
  <2>1. phase[i] \in Phases
    BY DEF Types
  <2>2. phase'[i] = CASE i \in Stored -> "done"
                      [] phase[i] = "begun" -> "failed"
                      [] phase[i] \in {"new", "failed"} -> phase[i]
    OBVIOUS
  <2>3. i \in Stored <=> phase[i] \in {"wait", "send", "done"}
    BY DEF Stored
  <2>4. i \in Stored' <=> phase'[i] \in {"wait", "send", "done"}
    BY DEF Stored
  <2>5. CASE i \in Stored
    <3>1. phase'[i] = "done"
      BY <2>2, <2>3, <2>5
    <3> QED
      BY <2>3, <2>4, <2>5, <3>1 DEF Phases
  <2>6. CASE phase[i] = "begun"
    <3>1. phase'[i] = "failed"
      BY <2>2, <2>3, <2>6
    <3> QED
      BY <2>3, <2>4, <2>6, <3>1 DEF Phases
  <2>7. CASE phase[i] \in {"new", "failed"}
    <3>1. phase'[i] = phase[i]
      BY <2>2, <2>3, <2>7
    <3> QED
      BY <2>3, <2>4, <2>7, <3>1 DEF Phases
  <2> QED
    BY <2>1, <2>3, <2>5, <2>6, <2>7 DEF Phases
<1>2. Stored' = Stored
  <2>1. Stored' \subseteq Item /\ Stored \subseteq Item
    BY DEF Stored
  <2> QED
    BY <1>1, <2>1
<1> QED
  BY <1>1, <1>2

LEMMA RestartFits ==
  ASSUME IInv, Restart
  PROVE  IInv'
<1> USE DEF Restart
<1>0. Types /\ StoreFits /\ SignalsFit
  BY DEF IInv
<1>1. /\ \A i \in Item :
           /\ phase'[i] \in Phases /\ phase'[i] \notin {"wait", "send"}
           /\ phase[i] = "done" => phase'[i] = "done"
           /\ phase'[i] # "new" => phase[i] # "new"
      /\ Stored' = Stored
  BY <1>0, RestartPhases
<1>2. Stored' = Stored
  BY <1>1
<1>3. phase' \in [Item -> Phases]
  BY <1>1
<1>4. Types'
  <2>1. toBrowser' \in [Browser -> Seq(Texts)]
    BY EmptySeq
  <2>2. /\ holder' \in [Kind -> Item \cup {None}]
        /\ toServe' \in [Kind -> SUBSET Browser]
        /\ listening' \in [Kind -> SUBSET Browser]
    OBVIOUS
  <2>3. /\ place' \in [Browser -> {"down", "attach", "select"}]
        /\ at' \in [Browser -> 0..3]
        /\ asked' \in [Browser -> BOOLEAN]
        /\ live' \in [Browser -> BOOLEAN]
    OBVIOUS
  <2>4. /\ post' \in [Message -> Posts \cup {None}]
        /\ seen' \in [Message -> SUBSET Item]
        /\ chat' \in [Browser -> Chats \cup {None}]
        /\ former' \in [Browser -> Seq(Chats)]
        /\ cut' \in [Browser -> SUBSET Message]
    BY <1>0 DEF Types
  <2> QED
    BY <1>3, <2>1, <2>2, <2>3, <2>4 DEF Types
<1>5. StoreFits'
  <2>1. \A m \in Message : phase'[m] # "new" =>
          post'[m] \in Posts /\ {post'[m].channel, post'[m].author} \subseteq Stored'
    BY <1>0, <1>1, <1>2, ItemsDiffer DEF StoreFits
  <2>2. \A m \in Message : seen'[m] \subseteq {i \in Item : phase'[i] = "done"}
    BY <1>0, <1>1 DEF StoreFits
  <2> QED
    BY <1>0, <1>2, <2>1, <2>2 DEF StoreFits
<1>6. SignalsFit'
  <2>1. \A b \in Browser : place'[b] = "down" /\ at'[b] = 0
    OBVIOUS
  <2>2. 1..0 = {}
    OBVIOUS
  <2> QED
    BY <1>1, <2>1, <2>2 DEF SignalsFit
<1>7. ASSUME NEW b \in Browser PROVE AskedOnce(b)' /\ Served(b)'
  <2>1. toBrowser'[b] = <<>> /\ ~ asked'[b] /\ ~ live'[b]
    OBVIOUS
  <2>2. DOMAIN <<>> = {} /\ Len(<<>>) = 0 /\ 0..0 = {0}
    OBVIOUS
  <2>3. AskedOnce(b)'
    BY <2>1, <2>2 DEF AskedOnce
  <2>4. ToldStored(b)'
    BY <2>1, <2>2 DEF ToldStored
  <2>5. Starts(b)' = {}
    BY <2>1, <2>2 DEF Starts
  <2> QED
    BY <2>3, <2>4, <2>5 DEF Served, Complete, Prepared, Authored, HoldsStored
<1> QED
  BY <1>4, <1>5, <1>6, <1>7 DEF IInv

LEMMA StutterFits ==
  ASSUME IInv, UNCHANGED vars
  PROVE  IInv'
<1>1. /\ Types' /\ Stored' = Stored /\ SignalsFit'
  BY DEF IInv, vars, storeVars, signalVars, connVars, pageVars, Types, Stored, SignalsFit
<1>2. StoreFits'
  BY <1>1 DEF IInv, vars, storeVars, StoreFits
<1>3. PostsKept
  BY DEF PostsKept, vars, storeVars
<1>4. \A b \in Browser : \A i \in Stored : ToCome(b, i) => ToCome(b, i)'
  BY DEF ToCome, vars, storeVars, signalVars
<1> QED
  BY <1>1, <1>2, <1>3, <1>4, StoreStep DEF vars, connVars, pageVars

-----------------------------------------------------------------------------
(* The theorems. *)

LEMMA InitFits == Init => IInv
<1> SUFFICES ASSUME Init PROVE IInv
  OBVIOUS
<1> USE DEF Init
<1>1. \A i \in Item : phase[i] = IF i \in Old THEN "done" ELSE "new"
  OBVIOUS
<1>2. \A m \in Message : m \notin Old
  BY ItemsAssumption
<1>3. Types
  <2>1. phase \in [Item -> Phases]
    BY DEF Phases
  <2>2. /\ post \in [Message -> Posts \cup {None}]
        /\ seen \in [Message -> SUBSET Item]
        /\ holder \in [Kind -> Item \cup {None}]
        /\ toServe \in [Kind -> SUBSET Browser]
        /\ listening \in [Kind -> SUBSET Browser]
    OBVIOUS
  <2>3. /\ toBrowser \in [Browser -> Seq(Texts)]
        /\ former \in [Browser -> Seq(Chats)]
    BY EmptySeq
  <2>4. /\ place \in [Browser -> {"down", "attach", "select"}]
        /\ at \in [Browser -> 0..3]
        /\ asked \in [Browser -> BOOLEAN]
        /\ chat \in [Browser -> Chats \cup {None}]
        /\ live \in [Browser -> BOOLEAN]
        /\ cut \in [Browser -> SUBSET Message]
    OBVIOUS
  <2> QED
    BY <2>1, <2>2, <2>3, <2>4 DEF Types
<1>4. StoreFits
  <2>1. \A m \in Message : phase[m] = "new"
    BY <1>1, <1>2, ItemsDiffer
  <2>2. Stored \cap Message = {}
    BY <2>1 DEF Stored
  <2>3. \A m \in Message : seen[m] = {}
    OBVIOUS
  <2> QED
    BY <2>1, <2>2, <2>3, FS_EmptySet DEF StoreFits
<1>5. SignalsFit
  <2>1. \A i \in Item : phase[i] # "send"
    BY <1>1
  <2>2. \A b \in Browser : place[b] = "down" /\ at[b] = 0
    OBVIOUS
  <2>3. 1..0 = {}
    OBVIOUS
  <2> QED
    BY <2>1, <2>2, <2>3 DEF SignalsFit
<1>6. ASSUME NEW b \in Browser PROVE AskedOnce(b) /\ Served(b)
  <2>1. toBrowser[b] = <<>> /\ ~ asked[b] /\ ~ live[b]
    OBVIOUS
  <2>2. DOMAIN <<>> = {}
    OBVIOUS
  <2>3. AskedOnce(b)
    BY <2>1, <2>2 DEF AskedOnce
  <2>4. ToldStored(b)
    BY <2>1, <2>2 DEF ToldStored
  <2> QED
    BY <1>3, <2>1, <2>3, <2>4, NoPage, NoStarts
<1> QED
  BY <1>3, <1>4, <1>5, <1>6 DEF IInv

LEMMA Inductive ==
  ASSUME IInv, [Next]_vars
  PROVE  IInv'
<1>1. ASSUME Statement PROVE IInv'
  BY <1>1, CreateFits, BeginPostFits, EndPostFits DEF Statement
<1>2. ASSUME NEW i \in Item, Dispatching(i) PROVE IInv'
  BY <1>2, AcquireFits, DeliverFits, ReleaseFits DEF Dispatching
<1>3. ASSUME NEW b \in Browser, Connect(b) \/ Serving(b) PROVE IInv'
  BY <1>3, ConnectFits, AttachFits, InitChatFits DEF Serving
<1>4. ASSUME NEW b \in Browser, Receive(b) PROVE IInv'
  BY <1>4, ReceiveResumedFits, ReceiveInitFits, ReceiveToldFits DEF Receive
<1> QED
  BY <1>1, <1>2, <1>3, <1>4, RestartFits, StutterFits DEF Next

LEMMA Invariance == SafeSpec => []IInv
BY InitFits, Inductive, PTL DEF SafeSpec

(* A page with a Chat of this connection is where its notifications start. *)
LEMMA LiveStarts ==
  ASSUME Types, NEW b \in Browser, live[b]
  PROVE  0 \in Starts(b) /\ View(b, 0) = chat[b]
<1>1. Len(toBrowser[b]) \in Nat
  BY LenProperties DEF Types
<1> QED
  BY <1>1 DEF Starts, View

LEMMA HasIsKnows ==
  ASSUME IInv, NEW b \in Browser, NEW i \in Stored
  PROVE  Has(chat[b], i) <=> Knows(b, i)
<1>1. i \in Item /\ phase[i] # "new"
  BY DEF Stored
<1>2. i \in Message => post[i] # None
  <2>1. i \in Message => post[i] \in Posts
    BY <1>1 DEF IInv, StoreFits
  <2> QED
    BY <2>1, NoneAssumption DEF Posts
<1>3. CASE i \in User
  BY <1>3, ItemsDiffer DEF Has, Knows
<1>4. CASE i \in Channel
  BY <1>4, ItemsDiffer DEF Has, Knows
<1>5. CASE i \in Message
  BY <1>2, <1>5, ItemsDiffer DEF Has, Knows, Shows, Entries
<1> QED
  BY <1>1, <1>3, <1>4, <1>5, ItemsDiffer

(* Whatever PostMessage, CreateChannel and CreateUser have stored is in    *)
(* the Chat of every connected page, or on its way there: the listeners    *)
(* are added before get_init reads the tables, and what is stored after    *)
(* that is dispatched to them.  Whatever the number of pages, rows and     *)
(* restarts, only early messages and those cut off may be missing.         *)
THEOREM EverythingArrives == SafeSpec => []NothingLost
<1>1. ASSUME IInv PROVE NothingLost
  <2> SUFFICES ASSUME NEW b \in Browser, live[b], NEW i \in Stored \ cut[b]
               PROVE  Arrives(b, i)
    BY DEF NothingLost
  <2>1. Types /\ Served(b)
    BY <1>1 DEF IInv
  <2>2. 0 \in Starts(b) /\ View(b, 0) = chat[b]
    BY <2>1, LiveStarts
  <2>3. Comes(b, 0, i) \/ (i \in Message /\ Early(i))
    BY <2>1, <2>2 DEF Served, Complete
  <2>4. Has(chat[b], i) => Knows(b, i)
    BY <1>1, HasIsKnows
  <2>5. ASSUME NEW l \in DOMAIN toBrowser[b], IsTold(toBrowser[b][l], i)
        PROVE  OnItsWay(b, i)
    <3>1. toBrowser[b] \in Seq(Texts)
      BY <2>1 DEF Types
    <3>2. PICK x \in Texts : x = toBrowser[b][l]
      BY <3>1, ElementOfSeq, LenProperties
    <3>3. x = [type |-> "told", item |-> i]
      <4>1. x.type = "told" /\ x.item = i
        BY <2>5, <3>2 DEF IsTold
      <4>2. x \in [type : {"told"}, item : Item]
        BY <4>1 DEF Texts
      <4> QED
        BY <4>1, <4>2
    <3> QED
      BY <3>2, <3>3 DEF OnItsWay, Range
  <2> QED
    BY <2>2, <2>3, <2>4, <2>5 DEF Comes, Arrives
<1> QED
  BY <1>1, Invariance, PTL

(* A page that shows a message has its author, whom the view of the        *)
(* message looks up: the author was told of before the message, unless     *)
(* their goroutines have overtaken each other.                             *)
THEOREM AuthorsComeFirst == SafeSpec => []AuthorsKnown
<1>1. ASSUME IInv PROVE AuthorsKnown
  <2> SUFFICES ASSUME NEW b \in Browser, live[b], NEW m \in Stored \cap Message, Shows(b, m)
               PROVE  post[m].author \in chat[b].users \/ Early(m)
    BY DEF AuthorsKnown
  <2>1. Types /\ Served(b)
    BY <1>1 DEF IInv
  <2>2. 0 \in Starts(b) /\ View(b, 0) = chat[b]
    BY <2>1, LiveStarts
  <2>3. Has(chat[b], m)
    BY HasOne DEF Shows, Entries
  <2> QED
    BY <2>1, <2>2, <2>3 DEF Served, Authored
<1> QED
  BY <1>1, Invariance, PTL

-----------------------------------------------------------------------------
(* How often a page has a message, and in which order. *)

(* The pages a browser has or will have: the Chat that is shown, of this   *)
(* connection or of an earlier one, at 0, and the answers to init_chat     *)
(* that are on their way.                                                  *)
Versions(b) ==
  {v \in 0..Len(toBrowser[b]) :
     IF v = 0 THEN chat[b] # None ELSE toBrowser[b][v].type = "init"}

(* Where a page has a message: channel, entry, place in its list. *)
Spots(page, m) ==
  {p \in Channel \X Nat \X Nat :
     /\ p[2] \in DOMAIN page.channels[p[1]]
     /\ p[3] \in DOMAIN page.channels[p[1]][p[2]]
     /\ page.channels[p[1]][p[2]][p[3]] = m}

AtMostOne(S) == \A p, q \in S : p = q
AtMostTwo(S) == \E p, q : S \subseteq {p, q}

(* A list that has both has m first. *)
Precedes(s, m, n) ==
  m \in Range(s) => \A j \in DOMAIN s : s[j] = n => \E i \in 1..(j - 1) : s[i] = m

(* There is a latest creation_time. *)
TimeFits ==
  /\ time \in [Message -> Nat]
  /\ \E t \in Range(time) : \A m \in Message : time[m] <= t

(* The dispatch of m had ended, in an earlier second, when n was posted. *)
Before(m, n) == m \in seen[n] /\ time[m] < time[n]

(* No version of the page has what is not stored. *)
Unheard(b) ==
  \A v \in Versions(b), m \in Message : Holds(View(b, v), m) => m \in Stored

(* A browser is told of a message once. *)
ToldOnce(b) ==
  \A m \in Message, l \in DOMAIN toBrowser[b] :
    IsTold(toBrowser[b][l], m) =>
      /\ ~ ToCome(b, m)
      /\ \A h \in DOMAIN toBrowser[b] : IsTold(toBrowser[b][h], m) => h = l

(* The browser will be told of m. *)
Pending(b, m) ==
  ToCome(b, m) \/ \E l \in DOMAIN toBrowser[b] : IsTold(toBrowser[b][l], m)

(* A snapshot has a message once, and so has a page before it is told. *)
Counted(b) ==
  \A v \in Versions(b), m \in Stored \cap Message :
    /\ AtMostTwo(Spots(View(b, v), m))
    /\ v # 0 \/ Pending(b, m) => AtMostOne(Spots(View(b, v), m))

(* Nothing that was posted after the dispatch of m comes before m. *)
Later(b) ==
  \A m, n \in Message, l \in DOMAIN toBrowser[b] :
    m \in seen[n] /\ IsTold(toBrowser[b][l], m) =>
      /\ \A v \in Versions(b) : v < l => ~ Holds(View(b, v), n)
      /\ \A h \in DOMAIN toBrowser[b] : h < l => ~ IsTold(toBrowser[b][h], n)

(* Every list of every version is in order. *)
Ordered(b) ==
  \A v \in Versions(b), c \in Channel :
    \A e \in DOMAIN View(b, v).channels[c] : \A m, n \in Message :
      Before(m, n) => Precedes(View(b, v).channels[c][e], m, n)

Placed(b) == Unheard(b) /\ ToldOnce(b) /\ Counted(b) /\ Later(b) /\ Ordered(b)

Orderly == TimeFits /\ \A b \in Browser : Placed(b)


-----------------------------------------------------------------------------
(* Sets of one or two. *)

LEMMA OneIsFew == ASSUME NEW S, AtMostOne(S) PROVE AtMostTwo(S)
<1>1. CASE S = {}
  BY <1>1 DEF AtMostTwo
<1>2. CASE S # {}
  <2>1. PICK p : p \in S
    BY <1>2
  <2>2. S \subseteq {p, p}
    BY <2>1 DEF AtMostOne
  <2> QED
    BY <2>2 DEF AtMostTwo
<1> QED
  BY <1>1, <1>2

LEMMA FewGrow ==
  ASSUME NEW S, NEW R, NEW z, R \subseteq S \cup {z}, AtMostOne(S)
  PROVE  AtMostTwo(R)
<1>1. CASE S = {}
  <2>1. R \subseteq {z, z}
    BY <1>1
  <2> QED
    BY <2>1 DEF AtMostTwo
<1>2. CASE S # {}
  <2>1. PICK p : p \in S
    BY <1>2
  <2>2. R \subseteq {p, z}
    BY <2>1 DEF AtMostOne
  <2> QED
    BY <2>2 DEF AtMostTwo
<1> QED
  BY <1>1, <1>2

LEMMA FewMove ==
  ASSUME NEW S, NEW R, NEW f, \A q \in R : f[q] \in S,
         \A p, q \in R : f[p] = f[q] => p = q
  PROVE  /\ AtMostOne(S) => AtMostOne(R)
         /\ AtMostTwo(S) => AtMostTwo(R)
<1>1. ASSUME AtMostOne(S) PROVE AtMostOne(R)
  <2> SUFFICES ASSUME NEW p \in R, NEW q \in R PROVE p = q
    BY DEF AtMostOne
  <2>1. f[p] \in S /\ f[q] \in S
    OBVIOUS
  <2>2. f[p] = f[q]
    BY <1>1, <2>1 DEF AtMostOne
  <2> QED
    BY <2>2
<1>2. ASSUME AtMostTwo(S) PROVE AtMostTwo(R)
  <2>1. PICK x, y : S \subseteq {x, y}
    BY <1>2 DEF AtMostTwo
  <2>2. PICK p : p = CHOOSE q \in R : f[q] = x
    OBVIOUS
  <2>3. PICK o : o = CHOOSE q \in R : f[q] = y
    OBVIOUS
  <2>4. ASSUME NEW q \in R PROVE q \in {p, o}
    <3>1. f[q] = x \/ f[q] = y
      BY <2>1
    <3>2. CASE f[q] = x
      <4>1. p \in R /\ f[p] = x
        BY <2>2, <3>2
      <4> QED
        BY <3>2, <4>1
    <3>3. CASE f[q] = y
      <4>1. o \in R /\ f[o] = y
        BY <2>3, <3>3
      <4> QED
        BY <3>3, <4>1
    <3> QED
      BY <3>1, <3>2, <3>3
  <2>5. R \subseteq {p, o}
    BY <2>4
  <2> QED
    BY <2>5 DEF AtMostTwo
<1> QED
  BY <1>1, <1>2

LEMMA FewLess ==
  ASSUME NEW S, NEW R, R \subseteq S
  PROVE  /\ AtMostOne(S) => AtMostOne(R)
         /\ AtMostTwo(S) => AtMostTwo(R)
BY DEF AtMostOne, AtMostTwo


-----------------------------------------------------------------------------
(* What a notification does to the places of a message. *)

LEMMA SpotIs ==
  ASSUME NEW page, NEW m, NEW c, NEW e, NEW j
  PROVE  <<c, e, j>> \in Spots(page, m) <=>
           /\ c \in Channel /\ e \in Nat /\ j \in Nat
           /\ e \in DOMAIN page.channels[c] /\ j \in DOMAIN page.channels[c][e]
           /\ page.channels[c][e][j] = m
BY DEF Spots

LEMMA SpotsAre ==
  ASSUME NEW page, NEW m, NEW p \in Spots(page, m)
  PROVE  \E c \in Channel, e \in Nat, j \in Nat : p = <<c, e, j>>
BY DEF Spots

LEMMA ListsAre ==
  ASSUME NEW page \in Chats, NEW c \in Channel
  PROVE  /\ page.channels[c] \in Seq(Seq(Message))
         /\ Len(page.channels[c]) \in Nat
         /\ DOMAIN page.channels[c] = 1..Len(page.channels[c])
         /\ \A e \in DOMAIN page.channels[c] :
              /\ page.channels[c][e] \in Seq(Message)
              /\ Len(page.channels[c][e]) \in Nat
              /\ DOMAIN page.channels[c][e] = 1..Len(page.channels[c][e])
<1>1. page.channels[c] \in Seq(Seq(Message))
  BY DEF Chats
<1>2. PICK s \in Seq(Seq(Message)) : s = page.channels[c]
  BY <1>1
<1>3. Len(s) \in Nat /\ DOMAIN s = 1..Len(s)
  BY LenProperties
<1>4. ASSUME NEW e \in 1..Len(s)
      PROVE  s[e] \in Seq(Message) /\ Len(s[e]) \in Nat /\ DOMAIN s[e] = 1..Len(s[e])
  <2>1. s[e] \in Seq(Message)
    BY ElementOfSeq
  <2> QED
    BY <2>1, LenProperties
<1> QED
  BY <1>2, <1>3, <1>4

LEMMA HoldsIs ==
  ASSUME NEW page \in Chats, NEW m \in Message
  PROVE  Holds(page, m) <=> \E c \in Channel : \E e \in DOMAIN page.channels[c] :
                              \E j \in DOMAIN page.channels[c][e] : page.channels[c][e][j] = m
BY DEF Holds, Range

LEMMA SpotHeld ==
  ASSUME NEW page \in Chats, NEW m \in Message, ~ Holds(page, m)
  PROVE  Spots(page, m) = {}
BY HoldsIs DEF Spots

(* The places of a message move apart, and the message that is told gets   *)
(* one more.                                                               *)
Moves(page, new, i) ==
  \A m \in Message :
    /\ m # i /\ AtMostOne(Spots(page, m)) => AtMostOne(Spots(new, m))
    /\ m # i /\ AtMostTwo(Spots(page, m)) => AtMostTwo(Spots(new, m))
    /\ AtMostOne(Spots(page, m)) => AtMostTwo(Spots(new, m))

(* A list is new and empty, or it was there, or the message that is told   *)
(* has been appended to it.                                                *)
ListsKeep(page, new, i) ==
  \A c \in Channel : \A e \in DOMAIN new.channels[c] :
    \/ new.channels[c][e] = <<>>
    \/ \E d \in DOMAIN page.channels[c] : new.channels[c][e] = page.channels[c][d]
    \/ /\ i \in Message
       /\ \E d \in DOMAIN page.channels[c] : new.channels[c][e] = Append(page.channels[c][d], i)

LEMMA SameLists ==
  ASSUME NEW page, NEW new, new.channels = page.channels, NEW i
  PROVE  Moves(page, new, i) /\ ListsKeep(page, new, i)
<1>1. \A m \in Message : Spots(new, m) = Spots(page, m)
  BY DEF Spots
<1>2. Moves(page, new, i)
  BY <1>1, OneIsFew DEF Moves
<1>3. ListsKeep(page, new, i)
  BY DEF ListsKeep
<1> QED
  BY <1>2, <1>3

LEMMA ChannelMoves ==
  ASSUME NEW page \in Chats, NEW i \in Channel, NEW new \in Updated(page, i)
  PROVE  Moves(page, new, i) /\ ListsKeep(page, new, i)
<1>1. PICK p \in 1..(Len(page.channels[i]) + 1) :
        new = [page EXCEPT !.channels[i] = InsertAt(page.channels[i], p, <<>>)]
  BY ItemsDiffer DEF Updated, OnChannelCreated
<1>2. page.channels \in [Channel -> Seq(Seq(Message))]
  BY DEF Chats
<1>3. PICK s \in Seq(Seq(Message)) : s = page.channels[i]
  BY <1>2
<1>4. PICK r : r = InsertAt(s, p, <<>>)
  OBVIOUS
<1>5. PICK n \in Nat : n = Len(s)
  BY <1>3, LenProperties
<1>6. /\ DOMAIN s = 1..n /\ p \in 1..(n + 1) /\ p \in Nat
      /\ DOMAIN r = 1..(n + 1)
      /\ \A h \in 1..(p - 1) : r[h] = s[h]
      /\ r[p] = <<>>
      /\ \A h \in (p + 1)..(n + 1) : r[h] = s[h - 1]
  <2>1. PICK T : T = Seq(Message)
    OBVIOUS
  <2>2. PICK e \in T : e = <<>>
    BY <2>1, EmptySeq
  <2>3. s \in Seq(T) /\ p \in 1..(Len(s) + 1)
    BY <1>3, <2>1
  <2>4. /\ Len(s) \in Nat /\ DOMAIN s = 1..Len(s) /\ p \in Nat
        /\ DOMAIN InsertAt(s, p, e) = 1..(Len(s) + 1)
        /\ \A h \in 1..(p - 1) : InsertAt(s, p, e)[h] = s[h]
        /\ InsertAt(s, p, e)[p] = e
        /\ \A h \in (p + 1)..(Len(s) + 1) : InsertAt(s, p, e)[h] = s[h - 1]
    BY <2>3, InsertAtIs
  <2> QED
    BY <1>4, <1>5, <2>2, <2>3, <2>4
<1>7. /\ new.channels[i] = r
      /\ \A c \in Channel : c # i => new.channels[c] = page.channels[c]
  <2>1. new.channels = [page.channels EXCEPT ![i] = r]
    BY <1>1, <1>3, <1>4 DEF Chats
  <2> QED
    BY <1>2, <2>1
<1>8. PICK old : old = [h \in 1..(n + 1) |-> IF h < p THEN h ELSE h - 1]
  OBVIOUS
<1>9. ASSUME NEW h \in 1..(n + 1), h # p PROVE old[h] \in 1..n /\ r[h] = s[old[h]]
  <2>1. CASE h < p
    <3>1. old[h] = h /\ h \in 1..(p - 1) /\ h \in 1..n
      BY <1>6, <1>8, <2>1
    <3> QED
      BY <1>6, <3>1
  <2>2. CASE h > p
    <3>1. old[h] = h - 1 /\ h \in (p + 1)..(n + 1) /\ h - 1 \in 1..n
      BY <1>6, <1>8, <2>2
    <3> QED
      BY <1>6, <3>1
  <2> QED
    BY <1>6, <1>9, <2>1, <2>2
<1>10. ASSUME NEW g \in 1..(n + 1), NEW h \in 1..(n + 1), g # p, h # p, old[g] = old[h]
       PROVE  g = h
  <2>1. old[g] = IF g < p THEN g ELSE g - 1
    BY <1>8
  <2>2. old[h] = IF h < p THEN h ELSE h - 1
    BY <1>8
  <2>3. g \in Int /\ h \in Int /\ p \in Int
    BY <1>6
  <2>4. (IF g < p THEN g ELSE g - 1) = IF h < p THEN h ELSE h - 1
    BY <1>10, <2>1, <2>2
  <2> QED
    BY <1>10, <2>3, <2>4
<1>11. ASSUME NEW m \in Message
       PROVE  /\ AtMostOne(Spots(page, m)) => AtMostOne(Spots(new, m))
              /\ AtMostTwo(Spots(page, m)) => AtMostTwo(Spots(new, m))
  <2>1. PICK R : R = Spots(new, m)
    OBVIOUS
  <2>2. PICK S : S = Spots(page, m)
    OBVIOUS
  <2>3. PICK f : f = [q \in R |-> <<q[1], IF q[1] = i THEN old[q[2]] ELSE q[2], q[3]>>]
    OBVIOUS
  <2>4. ASSUME NEW c \in Channel, NEW e \in Nat, NEW j \in Nat, <<c, e, j>> \in R
        PROVE  /\ f[<<c, e, j>>] = <<c, IF c = i THEN old[e] ELSE e, j>>
               /\ f[<<c, e, j>>] \in S
               /\ c = i => e \in 1..(n + 1) /\ e # p
    <3>1. f[<<c, e, j>>] = <<c, IF c = i THEN old[e] ELSE e, j>>
      BY <2>3, <2>4
    <3>2. e \in DOMAIN new.channels[c] /\ j \in DOMAIN new.channels[c][e] /\ new.channels[c][e][j] = m
      BY <2>1, <2>4, SpotIs
    <3>3. CASE c = i
      <4>1. e \in 1..(n + 1) /\ j \in DOMAIN r[e] /\ r[e][j] = m
        BY <1>6, <1>7, <3>2, <3>3
      <4>2. e # p
        BY <1>6, <4>1
      <4>3. old[e] \in 1..n /\ r[e] = s[old[e]]
        BY <1>9, <4>1, <4>2
      <4>4. old[e] \in Nat
        BY <4>3
      <4>5. <<c, old[e], j>> \in S
        BY <1>3, <1>6, <2>2, <3>3, <4>1, <4>3, <4>4, SpotIs
      <4> QED
        BY <3>1, <3>3, <4>1, <4>2, <4>5
    <3>4. CASE c # i
      <4>1. <<c, e, j>> \in S
        BY <1>7, <2>2, <3>2, <3>4, SpotIs
      <4> QED
        BY <3>1, <3>4, <4>1
    <3> QED
      BY <3>3, <3>4
  <2>5. \A q \in R : f[q] \in S
    <3> TAKE q \in R
    <3>1. PICK c \in Channel, e \in Nat, j \in Nat : q = <<c, e, j>>
      BY <2>1, SpotsAre
    <3> QED
      BY <2>4, <3>1
  <2>6. ASSUME NEW q \in R, NEW o \in R, f[q] = f[o] PROVE q = o
    <3>1. PICK c \in Channel, e \in Nat, j \in Nat : q = <<c, e, j>>
      BY <2>1, SpotsAre
    <3>2. PICK d \in Channel, h \in Nat, l \in Nat : o = <<d, h, l>>
      BY <2>1, SpotsAre
    <3>3. /\ f[q] = <<c, IF c = i THEN old[e] ELSE e, j>>
          /\ c = i => e \in 1..(n + 1) /\ e # p
      BY <2>4, <3>1
    <3>4. /\ f[o] = <<d, IF d = i THEN old[h] ELSE h, l>>
          /\ d = i => h \in 1..(n + 1) /\ h # p
      BY <2>4, <3>2
    <3>5. c = d /\ j = l /\ (IF c = i THEN old[e] ELSE e) = (IF c = i THEN old[h] ELSE h)
      <4>1. PICK x : x = IF c = i THEN old[e] ELSE e
        OBVIOUS
      <4>2. PICK y : y = IF d = i THEN old[h] ELSE h
        OBVIOUS
      <4>3. <<c, x, j>> = <<d, y, l>>
        BY <2>6, <3>3, <3>4, <4>1, <4>2
      <4>4. c = d /\ x = y /\ j = l
        BY <4>3
      <4> QED
        BY <4>1, <4>2, <4>4
    <3>6. e = h
      BY <1>10, <3>3, <3>4, <3>5
    <3> QED
      BY <3>1, <3>2, <3>5, <3>6
  <2> QED
    BY <2>1, <2>2, <2>5, <2>6, FewMove
<1>12. Moves(page, new, i)
  BY <1>11, OneIsFew DEF Moves
<1>13. ListsKeep(page, new, i)
  <2> SUFFICES ASSUME NEW c \in Channel, NEW e \in DOMAIN new.channels[c]
               PROVE  \/ new.channels[c][e] = <<>>
                      \/ \E d \in DOMAIN page.channels[c] : new.channels[c][e] = page.channels[c][d]
    BY DEF ListsKeep
  <2>1. CASE c = i
    <3>1. e \in 1..(n + 1) /\ new.channels[c][e] = r[e]
      BY <1>6, <1>7, <2>1
    <3>2. CASE e = p
      BY <1>6, <3>1, <3>2
    <3>3. CASE e # p
      <4>1. old[e] \in 1..n /\ r[e] = s[old[e]]
        BY <1>9, <3>1, <3>3
      <4> QED
        BY <1>3, <1>6, <2>1, <3>1, <4>1
    <3> QED
      BY <3>2, <3>3
  <2>2. CASE c # i
    BY <1>7, <2>2
  <2> QED
    BY <2>1, <2>2
<1> QED
  BY <1>12, <1>13


LEMMA MessageMoves ==
  ASSUME NEW page \in Chats, NEW i \in Message, post[i] \in Posts,
         NEW new \in Updated(page, i)
  PROVE  Moves(page, new, i) /\ ListsKeep(page, new, i)
<1>1. PICK c \in Channel : c = post[i].channel
  BY DEF Posts
<1>2. page.channels \in [Channel -> Seq(Seq(Message))]
  BY DEF Chats
<1>3. PICK s \in Seq(Seq(Message)) : s = page.channels[c]
  BY <1>2
<1>4. CASE s = <<>>
  <2>1. new = page
    BY <1>1, <1>3, <1>4, ItemsDiffer DEF Updated, OnMessagePosted
  <2> QED
    BY <2>1, SameLists
<1>5. CASE s # <<>>
  <2>1. PICK n \in Nat : n = Len(s) /\ DOMAIN s = 1..n /\ 1 \in 1..n
    <3>1. Len(s) \in Nat /\ Len(s) # 0 /\ DOMAIN s = 1..Len(s)
      BY <1>5, LenProperties, EmptySeq
    <3>2. 1 \in 1..Len(s)
      BY <3>1
    <3> QED
      BY <3>1, <3>2
  <2>2. PICK l \in Seq(Message) : l = s[1]
    BY <2>1, ElementOfSeq
  <2>3. PICK a : a = Append(l, i)
    OBVIOUS
  <2>4. PICK k \in Nat : k = Len(l) /\ DOMAIN l = 1..k
    BY LenProperties
  <2>5. /\ a \in Seq(Message) /\ DOMAIN a = 1..(k + 1)
        /\ \A j \in 1..k : a[j] = l[j]
        /\ a[k + 1] = i
    <3>1. /\ Append(l, i) \in Seq(Message) /\ Len(Append(l, i)) = Len(l) + 1
          /\ \A j \in 1..Len(l) : Append(l, i)[j] = l[j]
          /\ Append(l, i)[Len(l) + 1] = i
      BY AppendProperties
    <3>2. DOMAIN Append(l, i) = 1..(Len(l) + 1)
      BY <3>1, LenProperties
    <3> QED
      BY <2>3, <2>4, <3>1, <3>2
  <2>6. /\ new.channels[c] = [s EXCEPT ![1] = a]
        /\ \A d \in Channel : d # c => new.channels[d] = page.channels[d]
    <3>1. new = [page EXCEPT !.channels[c][1] = Append(page.channels[c][1], i)]
      BY <1>1, <1>3, <1>5, ItemsDiffer DEF Updated, OnMessagePosted
    <3>2. new.channels = [page.channels EXCEPT ![c] = [s EXCEPT ![1] = a]]
      BY <1>3, <2>2, <2>3, <3>1 DEF Chats
    <3> QED
      BY <1>2, <3>2
  <2>7. PICK r : r = [s EXCEPT ![1] = a]
    OBVIOUS
  <2>8. DOMAIN r = 1..n /\ r[1] = a /\ \A e \in 1..n : e # 1 => r[e] = s[e]
    BY <2>1, <2>7
  <2>9. ASSUME NEW m \in Message, NEW q \in Spots(new, m)
        PROVE  q \in Spots(page, m) \/ (m = i /\ q = <<c, 1, k + 1>>)
    <3>1. PICK d \in Channel, e \in Nat, j \in Nat : q = <<d, e, j>>
      BY SpotsAre
    <3>2. e \in DOMAIN new.channels[d] /\ j \in DOMAIN new.channels[d][e] /\ new.channels[d][e][j] = m
      BY <2>9, <3>1, SpotIs
    <3>3. CASE d # c
      BY <2>6, <3>1, <3>2, <3>3, SpotIs
    <3>4. CASE d = c /\ e # 1
      <4>1. e \in 1..n /\ j \in DOMAIN s[e] /\ s[e][j] = m
        BY <2>6, <2>7, <2>8, <3>2, <3>4
      <4> QED
        BY <1>3, <2>1, <3>1, <3>4, <4>1, SpotIs
    <3>5. CASE d = c /\ e = 1
      <4>1. j \in 1..(k + 1) /\ a[j] = m
        BY <2>5, <2>6, <2>7, <2>8, <3>2, <3>5
      <4>2. CASE j = k + 1
        BY <2>5, <3>1, <3>5, <4>1, <4>2
      <4>3. CASE j # k + 1
        <5>1. j \in 1..k /\ l[j] = m
          BY <2>5, <4>1, <4>3
        <5>2. 1 \in DOMAIN page.channels[c] /\ page.channels[c][1] = l /\ j \in DOMAIN l
          BY <1>3, <2>1, <2>2, <2>4, <5>1
        <5>3. <<c, 1, j>> \in Spots(page, m)
          BY <5>1, <5>2, SpotIs
        <5> QED
          BY <3>1, <3>5, <5>3
      <4> QED
        BY <4>2, <4>3
    <3> QED
      BY <3>3, <3>4, <3>5
  <2>10. Moves(page, new, i)
    <3> SUFFICES ASSUME NEW m \in Message
                 PROVE  /\ m # i /\ AtMostOne(Spots(page, m)) => AtMostOne(Spots(new, m))
                        /\ m # i /\ AtMostTwo(Spots(page, m)) => AtMostTwo(Spots(new, m))
                        /\ AtMostOne(Spots(page, m)) => AtMostTwo(Spots(new, m))
      BY DEF Moves
    <3>1. PICK R : R = Spots(new, m)
      OBVIOUS
    <3>2. PICK S : S = Spots(page, m)
      OBVIOUS
    <3>3. m # i => R \subseteq S
      BY <2>9, <3>1, <3>2
    <3>4. PICK z : z = <<c, 1, k + 1>>
      OBVIOUS
    <3>5. R \subseteq S \cup {z}
      BY <2>9, <3>1, <3>2, <3>4
    <3>6. AtMostOne(S) => AtMostTwo(R)
      BY <3>5, FewGrow
    <3>7. m # i => (AtMostOne(S) => AtMostOne(R)) /\ (AtMostTwo(S) => AtMostTwo(R))
      BY <3>3, FewLess
    <3> QED
      BY <3>1, <3>2, <3>6, <3>7
  <2>11. ListsKeep(page, new, i)
    <3> SUFFICES ASSUME NEW d \in Channel, NEW e \in DOMAIN new.channels[d]
                 PROVE  \/ \E h \in DOMAIN page.channels[d] : new.channels[d][e] = page.channels[d][h]
                        \/ \E h \in DOMAIN page.channels[d] :
                             new.channels[d][e] = Append(page.channels[d][h], i)
      BY DEF ListsKeep
    <3>1. CASE d # c
      BY <2>6, <3>1
    <3>2. CASE d = c /\ e # 1
      <4>1. e \in 1..n /\ new.channels[d][e] = s[e]
        BY <2>6, <2>7, <2>8, <3>2
      <4> QED
        BY <1>3, <2>1, <3>2, <4>1
    <3>3. CASE d = c /\ e = 1
      <4>1. new.channels[d][e] = Append(s[1], i)
        BY <2>2, <2>3, <2>6, <2>7, <2>8, <3>3
      <4>2. 1 \in DOMAIN page.channels[d] /\ page.channels[d][1] = s[1]
        BY <1>3, <2>1, <3>3
      <4> QED
        BY <4>1, <4>2
    <3> QED
      BY <3>1, <3>2, <3>3
  <2> QED
    BY <2>10, <2>11
<1> QED
  BY <1>4, <1>5

LEMMA UpdatedMoves ==
  ASSUME NEW page \in Chats, NEW i \in Item, i \in Message => post[i] \in Posts,
         NEW new \in Updated(page, i)
  PROVE  Moves(page, new, i) /\ ListsKeep(page, new, i)
<1>1. CASE i \in User
  <2>1. new = [page EXCEPT !.users = page.users \cup {i}]
    BY <1>1, ItemsDiffer DEF Updated, OnUserCreated
  <2>2. new.channels = page.channels
    BY <2>1 DEF Chats
  <2> QED
    BY <2>2, SameLists
<1>2. CASE i \in Channel
  BY <1>2, ChannelMoves
<1>3. CASE i \in Message
  BY <1>3, MessageMoves
<1> QED
  BY <1>1, <1>2, <1>3, ItemsDiffer

(* What is appended comes last, so order is kept unless it should have     *)
(* come before what is there.                                              *)
LEMMA OrderKept ==
  ASSUME NEW page \in Chats, NEW new, NEW i, ListsKeep(page, new, i),
         NEW m \in Message, NEW n \in Message, m # n,
         i = m => ~ Holds(page, n),
         \A c \in Channel : \A e \in DOMAIN page.channels[c] :
           Precedes(page.channels[c][e], m, n),
         NEW c \in Channel, NEW e \in DOMAIN new.channels[c]
  PROVE  Precedes(new.channels[c][e], m, n)
<1>1. PICK w : w = new.channels[c][e]
  OBVIOUS
<1>2. CASE w = <<>>
  <2>1. Range(<<>>) = {}
    BY DEF Range
  <2> QED
    BY <1>1, <1>2, <2>1 DEF Precedes
<1>3. CASE \E d \in DOMAIN page.channels[c] : w = page.channels[c][d]
  BY <1>1, <1>3
<1>4. CASE i \in Message /\ \E d \in DOMAIN page.channels[c] : w = Append(page.channels[c][d], i)
  <2>1. PICK d \in DOMAIN page.channels[c] : w = Append(page.channels[c][d], i)
    BY <1>4
  <2>2. PICK l \in Seq(Message) : l = page.channels[c][d]
    BY ListsAre
  <2>3. PICK k \in Nat : k = Len(l) /\ DOMAIN l = 1..k
    BY LenProperties
  <2>4. /\ DOMAIN w = 1..(k + 1)
        /\ \A j \in 1..k : w[j] = l[j]
        /\ w[k + 1] = i
    <3>1. /\ Append(l, i) \in Seq(Message) /\ Len(Append(l, i)) = Len(l) + 1
          /\ \A j \in 1..Len(l) : Append(l, i)[j] = l[j]
          /\ Append(l, i)[Len(l) + 1] = i
      BY <1>4, AppendProperties
    <3>2. DOMAIN Append(l, i) = 1..(Len(l) + 1)
      BY <3>1, LenProperties
    <3> QED
      BY <2>1, <2>2, <2>3, <3>1, <3>2
  <2>5. Precedes(l, m, n)
    BY <2>2
  <2> SUFFICES ASSUME m \in Range(w), NEW j \in 1..(k + 1), w[j] = n
               PROVE  \E h \in 1..(j - 1) : w[h] = m
    BY <1>1, <2>4 DEF Precedes
  <2>6. CASE i = m
    <3>1. j \in 1..k /\ l[j] = n
      BY <2>4, <2>6
    <3>2. Holds(page, n)
      BY <2>2, <2>3, <3>1, HoldsIs
    <3> QED
      BY <2>6, <3>2
  <2>7. CASE i # m
    <3>1. PICK g \in 1..(k + 1) : w[g] = m
      BY <2>4 DEF Range
    <3>2. g \in 1..k /\ l[g] = m
      BY <2>4, <2>7, <3>1
    <3>3. CASE j = k + 1
      <4>1. g \in 1..(j - 1)
        BY <3>2, <3>3
      <4> QED
        BY <3>1, <4>1
    <3>4. CASE j # k + 1
      <4>1. j \in 1..k /\ l[j] = n /\ m \in Range(l)
        BY <2>3, <2>4, <3>2, <3>4 DEF Range
      <4>2. PICK h \in 1..(j - 1) : l[h] = m
        BY <2>3, <2>5, <4>1 DEF Precedes
      <4>3. h \in 1..k
        BY <4>1
      <4> QED
        BY <2>4, <4>2, <4>3
    <3> QED
      BY <3>3, <3>4
  <2> QED
    BY <2>6, <2>7
<1> QED
  BY <1>1, <1>2, <1>3, <1>4 DEF ListsKeep


-----------------------------------------------------------------------------
(* What get_init answers has each message once and in order. *)

LEMMA SetToSeqsIsOnce ==
  ASSUME NEW S, IsFiniteSet(S), NEW s \in SetToSeqs(S)
  PROVE  \A i, j \in DOMAIN s : s[i] = s[j] => i = j
BY DEF SetToSeqs

LEMMA SnapshotOrder ==
  ASSUME StoreFits, TimeFits, NEW s \in Snapshots
  PROVE  /\ \A m \in Message : AtMostOne(Spots(s, m))
         /\ \A c \in Channel : \A e \in DOMAIN s.channels[c] : \A m, n \in Message :
              Before(m, n) => Precedes(s.channels[c][e], m, n)
<1> DEFINE Listed(c) == IF c \in Stored THEN {<<l>> : l \in Listings(Posted(c))} ELSE {<<>>}
<1>1. PICK f : /\ f \in [Channel -> UNION {Listed(c) : c \in Channel}]
               /\ \A c \in Channel : f[c] \in Listed(c)
               /\ s = [users |-> Stored \cap User, channels |-> f]
  BY DEF Snapshots
<1>2. s.channels = f
  BY <1>1
<1>3. ASSUME NEW c \in Channel, NEW e \in DOMAIN f[c]
      PROVE  \E l \in Listings(Posted(c)) : e = 1 /\ f[c][e] = l /\ c \in Stored
  <2>1. CASE c \in Stored
    <3>1. PICK l \in Listings(Posted(c)) : f[c] = <<l>>
      BY <1>1, <2>1
    <3> QED
      BY <1>3, <2>1, <3>1
  <2>2. CASE c \notin Stored
    <3>1. f[c] = <<>>
      BY <1>1, <2>2
    <3> QED
      BY <1>3, <3>1
  <2> QED
    BY <2>1, <2>2
<1>4. ASSUME NEW c \in Channel, NEW l \in Listings(Posted(c))
      PROVE  /\ \A i, j \in DOMAIN l : l[i] = l[j] => i = j
             /\ \A x \in Range(l) : x \in Posted(c)
             /\ \A i, j \in DOMAIN l : i < j => time[l[i]] <= time[l[j]]
             /\ l \in Seq(Posted(c))
  <2>1. IsFiniteSet(Posted(c))
    <3>1. IsFiniteSet(Stored \cap Message) /\ Posted(c) \in SUBSET (Stored \cap Message)
      BY DEF StoreFits, Posted
    <3> QED
      BY <3>1, FS_Subset
  <2>2. l \in SetToSeqs(Posted(c)) /\ \A i, j \in DOMAIN l : i < j => time[l[i]] <= time[l[j]]
    BY DEF Listings
  <2>3. l \in Seq(Posted(c)) /\ \A x : x \in Range(l) <=> x \in Posted(c)
    BY <2>1, <2>2, SetToSeqsIsOnto
  <2>4. \A i, j \in DOMAIN l : l[i] = l[j] => i = j
    BY <2>1, <2>2, SetToSeqsIsOnce
  <2> QED
    BY <2>2, <2>3, <2>4
<1>5. \A c \in Channel : \A x \in Posted(c) : x \in Message /\ post[x].channel = c
  BY DEF Posted
<1>6. ASSUME NEW m \in Message PROVE AtMostOne(Spots(s, m))
  <2> SUFFICES ASSUME NEW p \in Spots(s, m), NEW q \in Spots(s, m) PROVE p = q
    BY DEF AtMostOne
  <2>1. PICK c \in Channel, e \in Nat, j \in Nat : p = <<c, e, j>>
    BY SpotsAre
  <2>2. PICK d \in Channel, h \in Nat, i \in Nat : q = <<d, h, i>>
    BY SpotsAre
  <2>3. e \in DOMAIN f[c] /\ j \in DOMAIN f[c][e] /\ f[c][e][j] = m
    BY <1>2, <2>1, SpotIs
  <2>4. h \in DOMAIN f[d] /\ i \in DOMAIN f[d][h] /\ f[d][h][i] = m
    BY <1>2, <2>2, SpotIs
  <2>5. PICK l \in Listings(Posted(c)) : e = 1 /\ f[c][e] = l
    BY <1>3, <2>3
  <2>6. PICK k \in Listings(Posted(d)) : h = 1 /\ f[d][h] = k
    BY <1>3, <2>4
  <2>7. m \in Range(l) /\ m \in Range(k)
    BY <2>3, <2>4, <2>5, <2>6 DEF Range
  <2>8. c = d
    BY <1>4, <1>5, <2>7
  <2>9. l = k
    BY <2>5, <2>6, <2>8
  <2>10. j = i
    BY <1>4, <2>3, <2>4, <2>5, <2>6, <2>9
  <2> QED
    BY <2>1, <2>2, <2>5, <2>6, <2>8, <2>10
<1>7. ASSUME NEW c \in Channel, NEW e \in DOMAIN f[c], NEW m \in Message, NEW n \in Message,
             Before(m, n)
      PROVE  Precedes(f[c][e], m, n)
  <2>1. PICK l \in Listings(Posted(c)) : f[c][e] = l
    BY <1>3
  <2>2. l \in Seq(Posted(c))
    BY <1>4
  <2>3. PICK k \in Nat : k = Len(l) /\ DOMAIN l = 1..k
    BY <2>2, LenProperties
  <2> SUFFICES ASSUME m \in Range(l), NEW j \in 1..k, l[j] = n
               PROVE  \E i \in 1..(j - 1) : l[i] = m
    BY <2>1, <2>3 DEF Precedes
  <2>4. PICK i \in 1..k : l[i] = m
    BY <2>3 DEF Range
  <2>5. time[m] < time[n] /\ time[m] \in Nat /\ time[n] \in Nat
    BY <1>7 DEF TimeFits, Before
  <2>6. ~ (j < i)
    <3> SUFFICES ASSUME j < i PROVE FALSE
      OBVIOUS
    <3>1. time[l[j]] <= time[l[i]]
      BY <1>4, <2>3
    <3> QED
      BY <2>4, <2>5, <3>1
  <2>7. i # j
    BY <2>4, <2>5
  <2>8. i \in 1..(j - 1)
    BY <2>6, <2>7
  <2> QED
    BY <2>4, <2>8
<1> QED
  BY <1>2, <1>6, <1>7


-----------------------------------------------------------------------------
(* Steps of the tables and the signals. *)

LEMMA BeginPostTimes ==
  ASSUME IInv, TimeFits, NEW m \in Message, NEW c \in Channel, NEW u \in User, BeginPost(m, c, u)
  PROVE  TimeFits'
<1> USE DEF BeginPost
<1>1. time \in [Message -> Nat]
  BY DEF TimeFits
<1>2. PICK t \in Nat : t = Max(Range(time)) /\ \A o \in Message : time[o] <= t
  <2>1. PICK x \in Range(time) : \A o \in Message : time[o] <= x
    BY DEF TimeFits
  <2>2. \A y \in Range(time) : y \in Nat /\ y <= x
    BY <1>1, <2>1 DEF Range
  <2>3. PICK S : S = Range(time)
    OBVIOUS
  <2>4. x \in S /\ x \in Nat /\ \A y \in S : x >= y
    BY <2>1, <2>2, <2>3
  <2>5. Max(S) \in S /\ \A y \in S : Max(S) >= y
    BY <2>4 DEF Max
  <2>6. \A o \in Message : time[o] \in S
    BY <1>1, <2>3 DEF Range
  <2>7. Max(S) \in Nat
    BY <2>2, <2>3, <2>5
  <2>8. \A o \in Message : time[o] <= Max(S)
    BY <1>1, <2>5, <2>6, <2>7
  <2> QED
    BY <2>3, <2>7, <2>8
<1>3. PICK r \in {t, t + 1} : time' = [time EXCEPT ![m] = r]
  BY <1>2
<1>4. r \in Nat /\ t <= r
  BY <1>3
<1>5. time' \in [Message -> Nat] /\ time'[m] = r
  BY <1>1, <1>3, <1>4
<1>6. \A o \in Message : time'[o] <= r
  <2> TAKE o \in Message
  <2>1. time[o] \in Nat /\ time[o] <= t
    BY <1>1, <1>2
  <2>2. o = m \/ time'[o] = time[o]
    BY <1>1, <1>3
  <2> QED
    BY <1>4, <1>5, <2>1, <2>2
<1>7. r \in Range(time')
  BY <1>5 DEF Range
<1> QED
  BY <1>5, <1>6, <1>7 DEF TimeFits

LEMMA TimesStay ==
  ASSUME TimeFits, UNCHANGED time
  PROVE  TimeFits'
BY DEF TimeFits

LEMMA VersionsAre ==
  ASSUME Types, NEW b \in Browser, NEW v \in Versions(b)
  PROVE  View(b, v) \in Chats
<1>1. CASE v = 0
  BY <1>1 DEF Types, Versions, View
<1>2. CASE v # 0
  <2>1. PICK s \in Seq(Texts) : s = toBrowser[b]
    BY DEF Types
  <2>2. v \in 1..Len(s) /\ s[v].type = "init"
    BY <1>2, <2>1, LenProperties DEF Versions
  <2>3. PICK x \in Texts : x = s[v]
    BY <2>2, ElementOfSeq
  <2>4. x.data \in Chats
    BY <2>2, <2>3, TextCases
  <2> QED
    BY <1>2, <2>1, <2>3, <2>4 DEF View
<1> QED
  BY <1>1, <1>2

(* What a browser is told of is stored. *)
LEMMA ToldAreStored ==
  ASSUME IInv, NEW b \in Browser, NEW m, NEW l \in DOMAIN toBrowser[b], IsTold(toBrowser[b][l], m)
  PROVE  m \in Stored
BY DEF IInv, Served, ToldStored, IsTold

LEMMA QuietPlaced ==
  ASSUME IInv, NEW b \in Browser, Placed(b),
         toBrowser'[b] = toBrowser[b], chat'[b] = chat[b],
         Stored \subseteq Stored',
         \A m \in Stored : ToCome(b, m)' => ToCome(b, m),
         \A n \in Message : n \in Stored => seen'[n] = seen[n] /\ time'[n] = time[n]
  PROVE  Placed(b)'
<1>1. Versions(b)' = Versions(b) /\ \A v : View(b, v)' = View(b, v)
  BY DEF Versions, View
<1>2. PICK D : D = DOMAIN toBrowser[b]
  OBVIOUS
<1>3. PICK s : s = toBrowser[b]
  OBVIOUS
<1>4. \A l \in D, m \in Message : IsTold(s[l], m) => m \in Stored
  BY <1>2, <1>3, ToldAreStored
<1>5. \A v \in Versions(b), m \in Message : Holds(View(b, v), m) => m \in Stored
  BY DEF Placed, Unheard
<1>6. Unheard(b)'
  <2>1. \A v \in Versions(b), m \in Message : Holds(View(b, v)', m) => m \in Stored'
    BY <1>1, <1>5
  <2> QED
    BY <1>1, <2>1 DEF Unheard, Holds
<1>7. ToldOnce(b)'
  <2>1. ASSUME NEW m \in Message, NEW l \in D, IsTold(s[l], m)
        PROVE  ~ ToCome(b, m)' /\ \A h \in D : IsTold(s[h], m) => h = l
    <3>1. ~ ToCome(b, m) /\ \A h \in D : IsTold(s[h], m) => h = l
      BY <1>2, <1>3, <2>1 DEF Placed, ToldOnce
    <3>2. m \in Stored
      BY <1>4, <2>1
    <3> QED
      BY <3>1, <3>2
  <2> QED
    BY <1>2, <1>3, <2>1 DEF ToldOnce, IsTold
<1>8. Counted(b)'
  <2> SUFFICES ASSUME NEW v \in Versions(b), NEW m \in Message, m \in Stored'
               PROVE  /\ AtMostTwo(Spots(View(b, v), m))
                      /\ v # 0 \/ Pending(b, m)' => AtMostOne(Spots(View(b, v), m))
    BY <1>1 DEF Counted
  <2>1. CASE m \in Stored
    <3>1. Pending(b, m)' => Pending(b, m)
      BY <2>1 DEF Pending, IsTold
    <3> QED
      BY <2>1, <3>1 DEF Placed, Counted
  <2>2. CASE m \notin Stored
    <3>1. View(b, v) \in Chats
      BY VersionsAre DEF IInv
    <3>2. Spots(View(b, v), m) = {}
      BY <1>5, <2>2, <3>1, SpotHeld
    <3>3. AtMostOne(Spots(View(b, v), m))
      BY <3>2 DEF AtMostOne
    <3> QED
      BY <3>3, OneIsFew
  <2> QED
    BY <2>1, <2>2
<1>9. Later(b)'
  <2> SUFFICES ASSUME NEW m \in Message, NEW n \in Message, NEW l \in D,
                      m \in seen'[n], IsTold(s[l], m)
               PROVE  /\ \A v \in Versions(b) : v < l => ~ Holds(View(b, v), n)
                      /\ \A h \in D : h < l => ~ IsTold(s[h], n)
    BY <1>1, <1>2, <1>3 DEF Later, IsTold, Holds
  <2>1. CASE n \in Stored
    <3>1. m \in seen[n]
      BY <2>1
    <3> QED
      BY <1>2, <1>3, <3>1 DEF Placed, Later
  <2>2. CASE n \notin Stored
    BY <1>4, <1>5, <2>2
  <2> QED
    BY <2>1, <2>2
<1>10. Ordered(b)'
  <2> SUFFICES ASSUME NEW v \in Versions(b), NEW c \in Channel, NEW e \in DOMAIN View(b, v).channels[c],
                      NEW m \in Message, NEW n \in Message, Before(m, n)'
               PROVE  Precedes(View(b, v).channels[c][e], m, n)
    BY <1>1 DEF Ordered
  <2>1. CASE n \in Stored
    <3>1. m \in seen[n]
      BY <2>1 DEF Before
    <3>2. m \in Stored
      BY <3>1 DEF IInv, StoreFits, Stored
    <3>3. Before(m, n)
      BY <2>1, <3>1, <3>2 DEF Before
    <3> QED
      BY <3>3 DEF Placed, Ordered
  <2>2. CASE n \notin Stored
    <3>1. PICK page \in Chats : page = View(b, v)
      BY VersionsAre DEF IInv
    <3>2. \A j \in DOMAIN page.channels[c][e] : page.channels[c][e][j] # n
      <4>1. ~ Holds(page, n)
        BY <1>5, <2>2, <3>1
      <4> QED
        BY <3>1, <4>1, HoldsIs
    <3> QED
      BY <3>1, <3>2 DEF Precedes
  <2> QED
    BY <2>1, <2>2
<1> QED
  BY <1>6, <1>7, <1>8, <1>9, <1>10 DEF Placed


-----------------------------------------------------------------------------
(* What is written to a web socket comes last. *)
LEMMA AppendPlaced ==
  ASSUME IInv, TimeFits, NEW b \in Browser, Placed(b), NEW x \in Texts,
         toBrowser'[b] = Append(toBrowser[b], x), UNCHANGED storeVars, chat'[b] = chat[b],
         \A m \in Stored : ToCome(b, m)' => ToCome(b, m),
         x.type = "init" => x.data \in Snapshots,
         x.type = "told" => /\ phase[x.item] = "send"
                            /\ ToCome(b, x.item) /\ ~ ToCome(b, x.item)'
  PROVE  Placed(b)'
<1>1. Types /\ StoreFits
  BY DEF IInv
<1>2. Stored' = Stored /\ seen' = seen /\ time' = time
  BY SameStore DEF storeVars
<1>3. PICK s \in Seq(Texts) : s = toBrowser[b]
  BY <1>1 DEF Types
<1>4. PICK t : t = Append(s, x)
  OBVIOUS
<1>5. PICK L \in Nat : L = Len(s)
  BY <1>3, LenProperties
<1>6. /\ Len(t) = L + 1
      /\ DOMAIN s = 1..L /\ DOMAIN t = 1..(L + 1)
      /\ \A l \in 1..L : t[l] = s[l]
      /\ t[L + 1] = x
  BY <1>4, <1>5, AppendText
<1>7. toBrowser'[b] = t
  BY <1>3, <1>4
<1>8. \A l \in 1..(L + 1) : l \in 1..L \/ l = L + 1
  OBVIOUS
<1>9. ASSUME NEW v \in Versions(b)'
      PROVE  \/ v \in Versions(b) /\ v \in 0..L /\ View(b, v)' = View(b, v)
             \/ v = L + 1 /\ View(b, v)' = x.data /\ x.type = "init" /\ v # 0
  <2>1. v \in 0..(L + 1) /\ IF v = 0 THEN chat[b] # None ELSE t[v].type = "init"
    BY <1>6, <1>7 DEF Versions
  <2>2. CASE v = 0
    <3>1. v \in 0..L
      BY <2>2
    <3> QED
      BY <1>3, <1>5, <2>1, <2>2, <3>1 DEF Versions, View
  <2>3. CASE v \in 1..L
    <3>1. v \in 0..L /\ v # 0
      BY <2>3
    <3> QED
      BY <1>3, <1>5, <1>6, <1>7, <2>1, <2>3, <3>1 DEF Versions, View
  <2>4. CASE v = L + 1
    <3>1. v # 0
      BY <2>4
    <3> QED
      BY <1>6, <1>7, <2>1, <2>4, <3>1 DEF View
  <2> QED
    BY <2>1, <2>2, <2>3, <2>4
<1>10. ASSUME x.type = "init"
       PROVE  /\ \A m \in Message : Holds(x.data, m) => m \in Stored
              /\ \A m \in Message : AtMostOne(Spots(x.data, m))
              /\ \A c \in Channel : \A e \in DOMAIN x.data.channels[c] : \A m, n \in Message :
                   Before(m, n) => Precedes(x.data.channels[c][e], m, n)
  <2>1. PICK page \in Snapshots : page = x.data
    BY <1>10
  <2>2. /\ \A m \in Message : Holds(page, m) => m \in Stored
        /\ \A m \in Message : AtMostOne(Spots(page, m))
        /\ \A c \in Channel : \A e \in DOMAIN page.channels[c] : \A m, n \in Message :
             Before(m, n) => Precedes(page.channels[c][e], m, n)
    BY <1>1, SnapshotFits, SnapshotOrder
  <2> QED
    BY <2>1, <2>2
<1>11. ASSUME NEW m \in Message, NEW l \in 1..L, IsTold(s[l], m)
       PROVE  m \in Stored /\ ~ ToCome(b, m) /\ \A h \in 1..L : IsTold(s[h], m) => h = l
  <2>1. m \in Stored
    BY <1>3, <1>6, <1>11, ToldAreStored
  <2> QED
    BY <1>3, <1>6, <1>11, <2>1 DEF Placed, ToldOnce
<1>12. \A m : IsTold(x, m) => phase[m] = "send" /\ ToCome(b, m) /\ ~ ToCome(b, m)'
  BY DEF IsTold
<1>13. Unheard(b)'
  <2> SUFFICES ASSUME NEW v \in Versions(b)', NEW m \in Message, Holds(View(b, v)', m)
               PROVE  m \in Stored
    BY <1>2 DEF Unheard, Holds
  <2> QED
    BY <1>9, <1>10 DEF Placed, Unheard
<1>14. ToldOnce(b)'
  <2> SUFFICES ASSUME NEW m \in Message, NEW l \in 1..(L + 1), IsTold(t[l], m)
               PROVE  ~ ToCome(b, m)' /\ \A h \in 1..(L + 1) : IsTold(t[h], m) => h = l
    BY <1>6, <1>7 DEF ToldOnce, IsTold
  <2>1. CASE l \in 1..L
    <3>1. m \in Stored /\ ~ ToCome(b, m) /\ \A h \in 1..L : IsTold(s[h], m) => h = l
      BY <1>6, <1>11, <2>1
    <3>2. ~ IsTold(x, m)
      BY <1>12, <3>1
    <3> QED
      BY <1>6, <1>8, <3>1, <3>2
  <2>2. CASE l = L + 1
    <3>1. ToCome(b, m) /\ ~ ToCome(b, m)'
      BY <1>6, <1>12, <2>2
    <3>2. \A h \in 1..L : ~ IsTold(t[h], m)
      BY <1>6, <1>11, <3>1
    <3> QED
      BY <1>8, <2>2, <3>1, <3>2
  <2> QED
    BY <1>8, <2>1, <2>2
<1>15. ASSUME NEW m \in Stored, Pending(b, m)' PROVE Pending(b, m)
  <2>1. CASE ToCome(b, m)'
    BY <2>1 DEF Pending
  <2>2. CASE \E l \in 1..(L + 1) : IsTold(t[l], m)
    <3>1. PICK l \in 1..(L + 1) : IsTold(t[l], m)
      BY <2>2
    <3>2. CASE l \in 1..L
      BY <1>3, <1>6, <3>1, <3>2 DEF Pending
    <3>3. CASE l = L + 1
      BY <1>6, <1>12, <3>1, <3>3 DEF Pending
    <3> QED
      BY <1>8, <3>2, <3>3
  <2> QED
    BY <1>6, <1>7, <1>15, <2>1, <2>2 DEF Pending, IsTold
<1>16. Counted(b)'
  <2> SUFFICES ASSUME NEW v \in Versions(b)', NEW m \in Message, m \in Stored
               PROVE  /\ AtMostTwo(Spots(View(b, v)', m))
                      /\ v # 0 \/ Pending(b, m)' => AtMostOne(Spots(View(b, v)', m))
    BY <1>2 DEF Counted, Spots
  <2>1. CASE v \in Versions(b) /\ View(b, v)' = View(b, v)
    <3>1. /\ AtMostTwo(Spots(View(b, v), m))
          /\ v # 0 \/ Pending(b, m) => AtMostOne(Spots(View(b, v), m))
      BY <2>1 DEF Placed, Counted
    <3> QED
      BY <1>15, <2>1, <3>1
  <2>2. CASE View(b, v)' = x.data /\ x.type = "init"
    <3>1. AtMostOne(Spots(View(b, v)', m))
      BY <1>10, <2>2
    <3> QED
      BY <3>1, OneIsFew
  <2> QED
    BY <1>9, <2>1, <2>2
<1>17. Later(b)'
  <2> SUFFICES ASSUME NEW m \in Message, NEW n \in Message, NEW l \in 1..(L + 1),
                      m \in seen[n], IsTold(t[l], m)
               PROVE  /\ \A v \in Versions(b)' : v < l => ~ Holds(View(b, v)', n)
                      /\ \A h \in 1..(L + 1) : h < l => ~ IsTold(t[h], n)
    BY <1>2, <1>6, <1>7 DEF Later, IsTold, Holds
  <2>1. phase[m] = "done"
    BY <1>1 DEF StoreFits
  <2>2. l \in 1..L
    <3>1. l # L + 1
      BY <1>6, <1>12, <2>1
    <3> QED
      BY <1>8, <3>1
  <2>3. IsTold(s[l], m)
    BY <1>6, <2>2
  <2>4. /\ \A v \in Versions(b) : v < l => ~ Holds(View(b, v), n)
        /\ \A h \in 1..L : h < l => ~ IsTold(s[h], n)
    BY <1>3, <1>6, <2>2, <2>3 DEF Placed, Later
  <2>5. ASSUME NEW v \in Versions(b)', v < l PROVE ~ Holds(View(b, v)', n)
    <3>1. v # L + 1
      BY <2>2, <2>5
    <3> QED
      BY <1>9, <2>4, <2>5, <3>1
  <2>6. ASSUME NEW h \in 1..(L + 1), h < l PROVE ~ IsTold(t[h], n)
    <3>1. h \in 1..L
      BY <2>2, <2>6
    <3> QED
      BY <1>6, <2>4, <2>6, <3>1
  <2> QED
    BY <2>5, <2>6
<1>18. Ordered(b)'
  <2> SUFFICES ASSUME NEW v \in Versions(b)', NEW c \in Channel,
                      NEW e \in DOMAIN View(b, v)'.channels[c],
                      NEW m \in Message, NEW n \in Message, Before(m, n)
               PROVE  Precedes(View(b, v)'.channels[c][e], m, n)
    BY <1>2 DEF Ordered, Precedes, Before
  <2>1. CASE v \in Versions(b) /\ View(b, v)' = View(b, v)
    BY <2>1 DEF Placed, Ordered
  <2>2. CASE View(b, v)' = x.data /\ x.type = "init"
    BY <1>10, <2>2
  <2> QED
    BY <1>9, <2>1, <2>2
<1> QED
  BY <1>13, <1>14, <1>16, <1>17, <1>18 DEF Placed


-----------------------------------------------------------------------------
(* What a page takes becomes its Chat, or is told to it. *)
LEMMA TailPlaced ==
  ASSUME IInv, TimeFits, NEW b \in Browser, Placed(b), UNCHANGED <<storeVars, signalVars>>,
         NEW type, Take(b, type),
         NEW x, x = Head(toBrowser[b]),
         \/ type = "resumed" /\ chat'[b] = chat[b]
         \/ type = "init" /\ chat'[b] = x.data
         \/ /\ type = "told"
            /\ chat'[b] = chat[b] \/ (chat[b] \in Chats /\ chat'[b] \in Updated(chat[b], x.item))
  PROVE  Placed(b)'
<1>1. Types /\ StoreFits
  BY DEF IInv
<1>2. /\ Stored' = Stored /\ seen' = seen /\ time' = time
      /\ \A m : ToCome(b, m)' = ToCome(b, m)
  BY SameStore DEF storeVars, signalVars, ToCome
<1>3. PICK s, t \in Seq(Texts), L \in Nat :
        /\ s = toBrowser[b] /\ t = toBrowser'[b]
        /\ Len(s) = L + 1 /\ DOMAIN s = 1..(L + 1)
        /\ Len(t) = L /\ DOMAIN t = 1..L
        /\ \A l \in 1..L : t[l] = s[l + 1]
        /\ s[1] \in Texts /\ s[1] = Head(toBrowser[b]) /\ s[1].type = type
  BY <1>1, Taken
<1>4. /\ 1 \in 1..(L + 1)
      /\ \A l \in 1..L : l + 1 \in 1..(L + 1) /\ l + 1 # 1 /\ l + 1 > 1
  BY <1>3
<1>5. x = s[1] /\ x \in Texts /\ x.type = type
  BY <1>3
<1>6. ASSUME NEW m \in Message, NEW l \in 1..L, IsTold(t[l], m)
      PROVE  /\ IsTold(s[l + 1], m) /\ m \in Stored /\ ~ ToCome(b, m)
             /\ \A h \in 1..(L + 1) : IsTold(s[h], m) => h = l + 1
  <2>1. PICK k \in 1..(L + 1) : k = l + 1
    BY <1>4
  <2>2. IsTold(s[k], m)
    BY <1>3, <1>6, <2>1
  <2>3. m \in Stored
    BY <1>3, <2>2, ToldAreStored
  <2>4. ~ ToCome(b, m) /\ \A h \in 1..(L + 1) : IsTold(s[h], m) => h = k
    BY <1>3, <2>2 DEF Placed, ToldOnce
  <2> QED
    BY <2>1, <2>2, <2>3, <2>4
<1>7. ASSUME NEW v \in Versions(b)', v # 0
      PROVE  v \in 1..L /\ v + 1 \in Versions(b) /\ View(b, v)' = View(b, v + 1)
  <2>1. v \in 0..L /\ t[v].type = "init"
    BY <1>3, <1>7 DEF Versions
  <2>2. v \in 1..L
    BY <1>7, <2>1
  <2>3. PICK k \in 0..(L + 1) : k = v + 1 /\ k # 0
    BY <2>2
  <2>4. t[v] = s[k] /\ s[k].type = "init"
    BY <1>3, <2>1, <2>2, <2>3
  <2>5. k \in Versions(b)
    BY <1>3, <2>3, <2>4 DEF Versions
  <2>6. View(b, v)' = View(b, k)
    BY <1>3, <1>7, <2>3, <2>4 DEF View
  <2> QED
    BY <2>2, <2>3, <2>5, <2>6
<1>8. ASSUME 0 \in Versions(b)'
      PROVE  \/ 0 \in Versions(b) /\ View(b, 0)' = View(b, 0)
             \/ type = "init" /\ 1 \in Versions(b) /\ View(b, 0)' = View(b, 1)
             \/ /\ type = "told" /\ 0 \in Versions(b)
                /\ View(b, 0)' \in Updated(View(b, 0), x.item)
  <2>1. chat'[b] # None /\ View(b, 0)' = chat'[b] /\ View(b, 0) = chat[b]
    BY <1>8 DEF Versions, View
  <2>2. 0 \in 0..(L + 1) /\ 1 \in 0..(L + 1) /\ 1 # 0
    BY <1>3
  <2>3. 0 \in Versions(b) <=> chat[b] # None
    BY <1>3, <2>2 DEF Versions
  <2>4. CASE type = "init" /\ chat'[b] = x.data
    <3>1. 1 \in Versions(b) /\ View(b, 1) = x.data
      BY <1>3, <1>5, <2>2, <2>4 DEF Versions, View
    <3> QED
      BY <2>1, <2>4, <3>1
  <2>5. CASE chat'[b] = chat[b]
    BY <2>1, <2>3, <2>5
  <2>6. CASE type = "told" /\ chat[b] \in Chats /\ chat'[b] \in Updated(chat[b], x.item)
    BY <2>1, <2>3, <2>6, NoneAssumption
  <2> QED
    BY <2>4, <2>5, <2>6
<1>9. ASSUME type = "told"
      PROVE  /\ IsTold(s[1], x.item) /\ x.item \in Stored /\ x.item \in Item
             /\ x.item \in Message => post[x.item] \in Posts
  <2>1. IsTold(s[1], x.item)
    BY <1>5, <1>9 DEF IsTold
  <2>2. x.item \in Stored
    BY <1>3, <1>4, <2>1, ToldAreStored
  <2>3. x.item \in Item /\ phase[x.item] # "new"
    BY <2>2 DEF Stored
  <2> QED
    BY <1>1, <2>1, <2>2, <2>3 DEF StoreFits
<1>10. ASSUME type = "told", 0 \in Versions(b), View(b, 0)' \in Updated(View(b, 0), x.item)
       PROVE  /\ NotLess(View(b, 0), View(b, 0)', x.item)
              /\ Moves(View(b, 0), View(b, 0)', x.item)
              /\ ListsKeep(View(b, 0), View(b, 0)', x.item)
  <2>1. PICK page \in Chats : page = View(b, 0)
    BY <1>1, <1>10, VersionsAre
  <2>2. PICK i \in Item : i = x.item
    BY <1>9, <1>10
  <2>3. PICK new \in Updated(page, i) : new = View(b, 0)'
    BY <1>10, <2>1, <2>2
  <2>4. i \in Message => post[i] \in Posts
    BY <1>9, <1>10, <2>2
  <2>5. NotLess(page, new, i) /\ Moves(page, new, i) /\ ListsKeep(page, new, i)
    BY <2>4, UpdatedFits, UpdatedMoves
  <2> QED
    BY <2>1, <2>2, <2>3, <2>5 DEF NotLess
<1>11. ASSUME NEW m \in Message, NEW v \in Versions(b)', Holds(View(b, v)', m)
       PROVE  \/ v # 0 /\ v + 1 \in Versions(b) /\ Holds(View(b, v + 1), m)
              \/ v = 0 /\ 0 \in Versions(b) /\ Holds(View(b, 0), m)
              \/ v = 0 /\ 1 \in Versions(b) /\ Holds(View(b, 1), m)
              \/ v = 0 /\ type = "told" /\ m = x.item
  <2>1. CASE v # 0
    BY <1>7, <1>11, <2>1
  <2>2. CASE v = 0
    <3>1. CASE 0 \in Versions(b) /\ View(b, 0)' = View(b, 0)
      BY <1>11, <2>2, <3>1
    <3>2. CASE 1 \in Versions(b) /\ View(b, 0)' = View(b, 1)
      BY <1>11, <2>2, <3>2
    <3>3. CASE type = "told" /\ 0 \in Versions(b) /\ View(b, 0)' \in Updated(View(b, 0), x.item)
      <4>1. Holds(View(b, 0)', m) => Holds(View(b, 0), m) \/ m = x.item
        BY <1>10, <3>3 DEF NotLess
      <4> QED
        BY <1>11, <2>2, <3>3, <4>1
    <3> QED
      BY <1>8, <1>11, <2>2, <3>1, <3>2, <3>3
  <2> QED
    BY <2>1, <2>2
<1>12. Unheard(b)'
  <2> SUFFICES ASSUME NEW v \in Versions(b)', NEW m \in Message, Holds(View(b, v)', m)
               PROVE  m \in Stored
    BY <1>2 DEF Unheard, Holds
  <2>1. \A w \in Versions(b) : Holds(View(b, w), m) => m \in Stored
    BY DEF Placed, Unheard
  <2> QED
    BY <1>9, <1>11, <2>1
<1>13. ToldOnce(b)'
  <2> SUFFICES ASSUME NEW m \in Message, NEW l \in 1..L, IsTold(t[l], m)
               PROVE  ~ ToCome(b, m) /\ \A h \in 1..L : IsTold(t[h], m) => h = l
    BY <1>2, <1>3 DEF ToldOnce, IsTold
  <2>1. ~ ToCome(b, m) /\ \A h \in 1..(L + 1) : IsTold(s[h], m) => h = l + 1
    BY <1>6
  <2>2. ASSUME NEW h \in 1..L, IsTold(t[h], m) PROVE h = l
    <3>1. h + 1 \in 1..(L + 1) /\ IsTold(s[h + 1], m)
      BY <1>4, <1>6, <2>2
    <3>2. h + 1 = l + 1
      BY <2>1, <3>1
    <3> QED
      BY <3>2
  <2> QED
    BY <2>1, <2>2
<1>14. ASSUME NEW m \in Message, Pending(b, m)'
       PROVE  Pending(b, m) /\ ~ (type = "told" /\ m = x.item)
  <2>1. ToCome(b, m) \/ \E l \in 1..L : IsTold(t[l], m)
    BY <1>2, <1>3, <1>14 DEF Pending, IsTold
  <2>2. CASE ToCome(b, m)
    <3>1. \A l \in 1..(L + 1) : ~ IsTold(s[l], m)
      BY <1>3, <2>2 DEF Placed, ToldOnce
    <3> QED
      BY <1>4, <1>9, <2>2, <3>1 DEF Pending
  <2>3. CASE \E l \in 1..L : IsTold(t[l], m)
    <3>1. PICK l \in 1..L : IsTold(t[l], m)
      BY <2>3
    <3>2. /\ IsTold(s[l + 1], m) /\ l + 1 \in 1..(L + 1) /\ l + 1 # 1
          /\ \A h \in 1..(L + 1) : IsTold(s[h], m) => h = l + 1
      BY <1>4, <1>6, <3>1
    <3>3. ~ IsTold(s[1], m)
      BY <1>4, <3>2
    <3> QED
      BY <1>3, <1>9, <3>2, <3>3 DEF Pending
  <2> QED
    BY <2>1, <2>2, <2>3
<1>15. Counted(b)'
  <2> SUFFICES ASSUME NEW v \in Versions(b)', NEW m \in Message, m \in Stored
               PROVE  /\ AtMostTwo(Spots(View(b, v)', m))
                      /\ v # 0 \/ Pending(b, m)' => AtMostOne(Spots(View(b, v)', m))
    BY <1>2 DEF Counted, Spots
  <2>1. \A w \in Versions(b) :
          /\ AtMostTwo(Spots(View(b, w), m))
          /\ w # 0 \/ Pending(b, m) => AtMostOne(Spots(View(b, w), m))
    BY DEF Placed, Counted
  <2>2. CASE v # 0
    <3>1. v \in 1..L /\ v + 1 \in Versions(b) /\ View(b, v)' = View(b, v + 1)
      BY <1>7, <2>2
    <3>2. v + 1 # 0
      BY <3>1
    <3> QED
      BY <2>1, <3>1, <3>2
  <2>3. CASE v = 0
    <3>1. CASE 0 \in Versions(b) /\ View(b, 0)' = View(b, 0)
      BY <1>14, <2>1, <2>3, <3>1
    <3>2. CASE 1 \in Versions(b) /\ View(b, 0)' = View(b, 1)
      BY <2>1, <2>3, <3>2
    <3>3. CASE type = "told" /\ 0 \in Versions(b) /\ View(b, 0)' \in Updated(View(b, 0), x.item)
      <4>1. Moves(View(b, 0), View(b, 0)', x.item)
        BY <1>10, <3>3
      <4>2. CASE m = x.item
        <5>1. Pending(b, m)
          BY <1>3, <1>4, <1>9, <3>3, <4>2 DEF Pending
        <5>2. AtMostTwo(Spots(View(b, 0)', m))
          BY <2>1, <3>3, <4>1, <5>1 DEF Moves
        <5>3. ~ Pending(b, m)'
          BY <1>14, <3>3, <4>2
        <5> QED
          BY <2>3, <5>2, <5>3
      <4>3. CASE m # x.item
        <5>1. /\ AtMostOne(Spots(View(b, 0), m)) => AtMostOne(Spots(View(b, 0)', m))
              /\ AtMostTwo(Spots(View(b, 0), m)) => AtMostTwo(Spots(View(b, 0)', m))
          BY <4>1, <4>3 DEF Moves
        <5> QED
          BY <1>14, <2>1, <2>3, <3>3, <5>1
      <4> QED
        BY <4>2, <4>3
    <3> QED
      BY <1>8, <2>3, <3>1, <3>2, <3>3
  <2> QED
    BY <2>2, <2>3

<1>16. ASSUME NEW m \in Message, NEW n \in Message, NEW l \in 1..(L + 1),
              m \in seen[n], IsTold(s[l], m)
       PROVE  /\ \A v \in Versions(b) : v < l => ~ Holds(View(b, v), n)
              /\ \A h \in 1..(L + 1) : h < l => ~ IsTold(s[h], n)
  BY <1>3, <1>16 DEF Placed, Later
<1>17. Later(b)'
  <2>0. toBrowser'[b] = t /\ DOMAIN t = 1..L /\ seen' = seen
    BY <1>2, <1>3
  <2> SUFFICES ASSUME NEW m \in Message, NEW n \in Message, NEW l \in 1..L,
                      m \in seen[n], IsTold(t[l], m)
               PROVE  /\ \A v \in Versions(b)' : v < l => ~ Holds(View(b, v)', n)
                      /\ \A h \in 1..L : h < l => ~ IsTold(t[h], n)
    BY <2>0 DEF Later, IsTold, Holds
  <2>1. PICK k \in 1..(L + 1) : k = l + 1 /\ 1 < k
    BY <1>4
  <2>2. /\ \A v \in Versions(b) : v < k => ~ Holds(View(b, v), n)
        /\ \A h \in 1..(L + 1) : h < k => ~ IsTold(s[h], n)
    BY <1>6, <1>16, <2>1
  <2>3. ASSUME NEW v \in Versions(b)', v < l PROVE ~ Holds(View(b, v)', n)
    <3>1. v # 0 => v \in 1..L /\ v + 1 < k
      BY <1>7, <2>1, <2>3
    <3>2. 0 < k /\ 1 < k
      BY <2>1
    <3>3. ~ (type = "told" /\ n = x.item)
      BY <1>4, <1>9, <2>2, <3>2
    <3> QED
      BY <1>11, <2>2, <3>1, <3>2, <3>3
  <2>4. ASSUME NEW h \in 1..L, h < l PROVE ~ IsTold(t[h], n)
    <3>1. PICK g \in 1..(L + 1) : g = h + 1 /\ g < k
      BY <1>4, <2>1, <2>4
    <3> QED
      BY <1>3, <2>2, <3>1
  <2> QED
    BY <2>3, <2>4
<1>18. Ordered(b)'
  <2> SUFFICES ASSUME NEW v \in Versions(b)', NEW c \in Channel,
                      NEW e \in DOMAIN View(b, v)'.channels[c],
                      NEW m \in Message, NEW n \in Message, Before(m, n)
               PROVE  Precedes(View(b, v)'.channels[c][e], m, n)
    BY <1>2 DEF Ordered, Precedes, Before
  <2>1. \A w \in Versions(b) : \A d \in Channel : \A g \in DOMAIN View(b, w).channels[d] :
          Precedes(View(b, w).channels[d][g], m, n)
    BY DEF Placed, Ordered
  <2>2. CASE v # 0
    BY <1>7, <2>1, <2>2
  <2>3. CASE v = 0
    <3>1. CASE 0 \in Versions(b) /\ View(b, 0)' = View(b, 0)
      BY <2>1, <2>3, <3>1
    <3>2. CASE 1 \in Versions(b) /\ View(b, 0)' = View(b, 1)
      BY <2>1, <2>3, <3>2
    <3>3. CASE type = "told" /\ 0 \in Versions(b) /\ View(b, 0)' \in Updated(View(b, 0), x.item)
      <4>1. PICK page \in Chats : page = View(b, 0)
        BY <1>1, <3>3, VersionsAre
      <4>2. PICK new : new = View(b, 0)'
        OBVIOUS
      <4>3. PICK i : i = x.item
        OBVIOUS
      <4>4. ListsKeep(page, new, i)
        BY <1>10, <3>3, <4>1, <4>2, <4>3
      <4>5. m # n
        <5>1. time[m] < time[n] /\ time[m] \in Nat
          BY DEF TimeFits, Before
        <5> QED
          BY <5>1
      <4>6. i = m => ~ Holds(page, n)
        <5>1. i = m => IsTold(s[1], m)
          BY <1>9, <3>3, <4>3
        <5>2. 0 < 1
          OBVIOUS
        <5> QED
          BY <1>4, <1>16, <3>3, <4>1, <5>1, <5>2 DEF Before
      <4>7. \A d \in Channel : \A g \in DOMAIN page.channels[d] : Precedes(page.channels[d][g], m, n)
        BY <2>1, <3>3, <4>1
      <4>8. e \in DOMAIN new.channels[c]
        BY <2>3, <4>2
      <4>9. Precedes(new.channels[c][e], m, n)
        BY <4>4, <4>5, <4>6, <4>7, <4>8, OrderKept
      <4> QED
        BY <2>3, <4>2, <4>9
    <3> QED
      BY <1>8, <2>3, <3>1, <3>2, <3>3
  <2> QED
    BY <2>2, <2>3
<1> QED
  BY <1>12, <1>13, <1>15, <1>17, <1>18 DEF Placed


-----------------------------------------------------------------------------
(* Every step keeps the pages in order. *)

LEMMA AcquireNarrows ==
  ASSUME IInv, NEW i \in Item, Acquire(i), NEW b \in Browser, NEW m \in Stored, ToCome(b, m)'
  PROVE  ToCome(b, m)
<1> USE DEF Acquire
<1>0. Types /\ SignalsFit /\ "send" \in Phases
  BY DEF IInv, Phases
<1>1. PICK k \in Kind : k = SignalOf(i)
  BY ThreeSignals
<1>2. /\ phase'[i] = "send" /\ phase[i] = "wait"
      /\ \A j \in Item : j # i => phase'[j] = phase[j]
      /\ m \in Item
  BY <1>0, PhaseChanges
<1>3. CASE m = i
  BY <1>2, <1>3 DEF ToCome
<1>4. CASE m # i /\ phase[m] = "send"
  <2>1. holder[SignalOf(m)] = m /\ holder[k] = None
    BY <1>0, <1>1, <1>2, <1>4 DEF SignalsFit
  <2>2. SignalOf(m) # k
    BY <1>2, <2>1, ItemsDiffer
  <2>3. toServe' = [toServe EXCEPT ![k] = listening[k]]
    BY <1>1
  <2>4. toServe'[SignalOf(m)] = toServe[SignalOf(m)]
    BY <1>0, <1>2, <2>2, <2>3, ThreeSignals DEF Types
  <2> QED
    BY <1>2, <1>4, <2>4 DEF ToCome
<1>5. CASE m # i /\ phase[m] # "send"
  BY <1>2, <1>5 DEF ToCome
<1> QED
  BY <1>3, <1>4, <1>5

LEMMA StatementPlaced ==
  ASSUME IInv, Orderly, Statement
  PROVE  Orderly'
<1>0. Types /\ TimeFits /\ \A b \in Browser : Placed(b)
  BY DEF IInv, Orderly
<1>1. ASSUME NEW i \in Item, Create(i) PROVE Orderly'
  <2>1. /\ \A j \in Item : j # i => phase'[j] = phase[j] /\ (j \in Stored' <=> j \in Stored)
        /\ i \in Stored' /\ i \notin Stored
        /\ \A j \in Stored : j \in Item
    BY <1>0, <1>1, PhaseChanges DEF Create, Phases
  <2>2. TimeFits'
    BY <1>0, <1>1, TimesStay DEF Create
  <2>3. ASSUME NEW b \in Browser PROVE Placed(b)'
    <3>1. Placed(b) /\ toBrowser'[b] = toBrowser[b] /\ chat'[b] = chat[b]
      BY <1>0, <1>1 DEF Create, pageVars
    <3>2. Stored \subseteq Stored'
      BY <2>1
    <3>3. \A m \in Stored : ToCome(b, m)' => ToCome(b, m)
      BY <1>1, <2>1 DEF ToCome, Create, signalVars
    <3>4. \A n \in Message : seen'[n] = seen[n] /\ time'[n] = time[n]
      BY <1>1 DEF Create
    <3> QED
      BY <3>1, <3>2, <3>3, <3>4, QuietPlaced
  <2> QED
    BY <2>2, <2>3 DEF Orderly
<1>2. ASSUME NEW m \in Message, NEW c \in Channel, NEW u \in User, BeginPost(m, c, u)
      PROVE  Orderly'
  <2>1. /\ \A j \in Item : j # m => phase'[j] = phase[j] /\ (j \in Stored' <=> j \in Stored)
        /\ m \notin Stored
        /\ \A j \in Stored : j \in Item
    BY <1>0, <1>2, PhaseChanges, ItemsDiffer DEF BeginPost, Phases
  <2>2. TimeFits'
    BY <1>0, <1>2, BeginPostTimes
  <2>3. ASSUME NEW b \in Browser PROVE Placed(b)'
    <3>1. Placed(b) /\ toBrowser'[b] = toBrowser[b] /\ chat'[b] = chat[b]
      BY <1>0, <1>2 DEF BeginPost, pageVars
    <3>2. Stored \subseteq Stored'
      BY <2>1
    <3>3. \A o \in Stored : ToCome(b, o)' => ToCome(b, o)
      BY <1>2, <2>1 DEF ToCome, BeginPost, signalVars
    <3>4. \A n \in Message : n \in Stored => seen'[n] = seen[n] /\ time'[n] = time[n]
      <4>1. seen \in [Message -> SUBSET Item] /\ time \in [Message -> Nat]
        BY <1>0 DEF Types, TimeFits
      <4>2. \A n \in Message : n # m => seen'[n] = seen[n]
        BY <1>2, <4>1 DEF BeginPost
      <4>3. \E t : time' = [time EXCEPT ![m] = t]
        BY <1>2 DEF BeginPost
      <4> QED
        BY <2>1, <4>1, <4>2, <4>3
    <3> QED
      BY <3>1, <3>2, <3>3, <3>4, QuietPlaced
  <2> QED
    BY <2>2, <2>3 DEF Orderly
<1>3. ASSUME NEW m \in Message, EndPost(m) PROVE Orderly'
  <2>0. PICK p \in {"wait", "failed"} : SetPhase(m, p)
    BY <1>3 DEF EndPost
  <2>1. /\ \A j \in Item : j # m => phase'[j] = phase[j] /\ (j \in Stored' <=> j \in Stored)
        /\ m \notin Stored
        /\ \A j \in Stored : j \in Item
    <3>1. p \in Phases /\ m \in Item /\ phase[m] = "begun"
      BY <1>3, ItemsDiffer DEF EndPost, Phases
    <3> QED
      BY <1>0, <2>0, <3>1, PhaseChanges
  <2>2. TimeFits'
    BY <1>0, <1>3, TimesStay DEF EndPost
  <2>3. ASSUME NEW b \in Browser PROVE Placed(b)'
    <3>1. Placed(b) /\ toBrowser'[b] = toBrowser[b] /\ chat'[b] = chat[b]
      BY <1>0, <1>3 DEF EndPost, pageVars
    <3>2. Stored \subseteq Stored'
      BY <2>1
    <3>3. \A o \in Stored : ToCome(b, o)' => ToCome(b, o)
      BY <1>3, <2>1 DEF ToCome, EndPost, signalVars
    <3>4. \A n \in Message : seen'[n] = seen[n] /\ time'[n] = time[n]
      BY <1>3 DEF EndPost
    <3> QED
      BY <3>1, <3>2, <3>3, <3>4, QuietPlaced
  <2> QED
    BY <2>2, <2>3 DEF Orderly
<1> QED
  BY <1>1, <1>2, <1>3 DEF Statement


LEMMA DispatchPlaced ==
  ASSUME IInv, Orderly, NEW i \in Item, Dispatching(i)
  PROVE  Orderly'
<1>0. Types /\ SignalsFit /\ TimeFits /\ \A b \in Browser : Placed(b)
  BY DEF IInv, Orderly
<1>1. TimeFits'
  BY <1>0, TimesStay DEF Dispatching, Acquire, Deliver, Release, storeVars
<1>2. CASE Acquire(i)
  <2>1. /\ \A j \in Item : j # i => (j \in Stored' <=> j \in Stored)
        /\ i \in Stored'
        /\ \A j \in Stored : j \in Item
    BY <1>0, <1>2, PhaseChanges DEF Acquire, Phases
  <2>2. ASSUME NEW b \in Browser PROVE Placed(b)'
    <3>1. /\ Placed(b) /\ toBrowser'[b] = toBrowser[b] /\ chat'[b] = chat[b] /\ seen' = seen /\ time' = time
          /\ Stored \subseteq Stored'
      BY <1>0, <1>2, <2>1 DEF Acquire, pageVars
    <3>2. \A m \in Stored : ToCome(b, m)' => ToCome(b, m)
      BY <1>2, AcquireNarrows
    <3> QED
      BY <3>1, <3>2, QuietPlaced
  <2> QED
    BY <1>1, <2>2 DEF Orderly
<1>3. CASE Release(i)
  <2>1. /\ \A j \in Item : j # i => phase'[j] = phase[j] /\ (j \in Stored' <=> j \in Stored)
        /\ i \in Stored' /\ phase'[i] = "done"
        /\ \A j \in Stored : j \in Item
    BY <1>0, <1>3, PhaseChanges DEF Release, Phases
  <2>2. ASSUME NEW b \in Browser PROVE Placed(b)'
    <3>1. /\ Placed(b) /\ toBrowser'[b] = toBrowser[b] /\ chat'[b] = chat[b] /\ seen' = seen /\ time' = time
          /\ toServe' = toServe /\ Stored \subseteq Stored'
      BY <1>0, <1>3, <2>1 DEF Release, pageVars
    <3>2. ASSUME NEW m \in Stored, ToCome(b, m)' PROVE ToCome(b, m)
      <4>1. m # i
        BY <2>1, <3>2 DEF ToCome
      <4> QED
        BY <2>1, <3>1, <3>2, <4>1 DEF ToCome
    <3> QED
      BY <3>1, <3>2, QuietPlaced
  <2> QED
    BY <1>1, <2>2 DEF Orderly
<1>4. ASSUME NEW d \in Browser, Deliver(i, d) PROVE Orderly'
  <2>1. PICK k \in Kind : k = SignalOf(i)
    BY ThreeSignals
  <2>2. /\ toServe'[k] = toServe[k] \ {d}
        /\ \A h \in Kind : h # k => toServe'[h] = toServe[h]
    BY <1>0, <1>4, <2>1 DEF Types, Deliver
  <2>3. PICK x \in Texts : x = [type |-> "told", item |-> i]
    BY TextsAre
  <2>4. /\ toBrowser'[d] = Append(toBrowser[d], x)
        /\ \A b \in Browser : b # d => toBrowser'[b] = toBrowser[b]
    BY <1>0, <1>4, <2>3 DEF Types, Deliver, Write
  <2>5. UNCHANGED storeVars /\ chat' = chat /\ phase' = phase /\ seen' = seen /\ time' = time
        /\ Stored' = Stored
    BY <1>4, SameStore DEF Deliver, pageVars, storeVars
  <2>6. ASSUME NEW b \in Browser, NEW m \in Stored, ToCome(b, m)' PROVE ToCome(b, m)
    <3>1. SignalOf(m) \in Kind
      BY ThreeSignals DEF Stored
    <3>2. toServe'[SignalOf(m)] \subseteq toServe[SignalOf(m)]
      BY <2>2, <3>1
    <3> QED
      BY <2>5, <2>6, <3>2 DEF ToCome
  <2>7. phase[i] = "send" /\ ToCome(d, i) /\ ~ ToCome(d, i)'
    BY <1>4, <2>1, <2>2, <2>5 DEF Deliver, ToCome
  <2>8. Placed(d)'
    <3>1. x.type = "told" /\ x.item = i
      BY <2>3
    <3>2. Placed(d) /\ chat'[d] = chat[d] /\ TimeFits
      BY <1>0, <2>5
    <3> QED
      BY <2>4, <2>5, <2>6, <2>7, <3>1, <3>2, AppendPlaced
  <2>9. ASSUME NEW b \in Browser, b # d PROVE Placed(b)'
    <3>1. Placed(b) /\ toBrowser'[b] = toBrowser[b] /\ chat'[b] = chat[b] /\ seen' = seen /\ time' = time
      BY <1>0, <2>4, <2>5, <2>9
    <3> QED
      BY <2>5, <2>6, <3>1, QuietPlaced
  <2> QED
    BY <1>1, <2>8, <2>9 DEF Orderly
<1> QED
  BY <1>2, <1>3, <1>4 DEF Dispatching

(* A step of the server's goroutine for one browser or of its page. *)
LEMMA OthersPlaced ==
  ASSUME IInv, Orderly, UNCHANGED <<storeVars, holder, toServe>>,
         NEW d \in Browser, Placed(d)',
         \A b \in Browser : b # d => toBrowser'[b] = toBrowser[b] /\ chat'[b] = chat[b]
  PROVE  Orderly'
<1>1. TimeFits'
  BY TimesStay DEF Orderly, storeVars
<1>2. Stored' = Stored
  BY SameStore
<1>3. ASSUME NEW b \in Browser, b # d PROVE Placed(b)'
  <2>1. Placed(b) /\ toBrowser'[b] = toBrowser[b] /\ chat'[b] = chat[b] /\ seen' = seen /\ time' = time
    BY <1>3 DEF Orderly, storeVars
  <2>2. \A m \in Stored : ToCome(b, m)' => ToCome(b, m)
    BY DEF ToCome, storeVars
  <2> QED
    BY <1>2, <2>1, <2>2, QuietPlaced
<1> QED
  BY <1>1, <1>3 DEF Orderly

LEMMA ServingPlaced ==
  ASSUME IInv, Orderly, NEW b \in Browser, Connect(b) \/ Serving(b)
  PROVE  Orderly'
<1>0. Types /\ TimeFits /\ Placed(b)
  BY DEF IInv, Orderly
<1>1. UNCHANGED <<storeVars, holder, toServe, chat>>
  BY DEF Connect, Serving, Attach, InitChat, signalVars, pageVars
<1>2. Stored' = Stored /\ seen' = seen /\ time' = time
      /\ \A m \in Stored : ToCome(b, m)' => ToCome(b, m)
  BY <1>1, SameStore DEF storeVars, ToCome
<1>3. CASE toBrowser' = toBrowser
  <2>1. Placed(b)'
    BY <1>0, <1>1, <1>2, <1>3, QuietPlaced
  <2> QED
    BY <1>1, <1>3, <2>1, OthersPlaced
<1>4. ASSUME NEW x \in Texts, Write(b, x), x.type = "init" => x.data \in Snapshots,
             x.type # "told"
      PROVE  Orderly'
  <2>1. /\ toBrowser'[b] = Append(toBrowser[b], x)
        /\ \A d \in Browser : d # b => toBrowser'[d] = toBrowser[d]
    BY <1>0, <1>4 DEF Types, Write
  <2>2. Placed(b)'
    <3>1. UNCHANGED storeVars /\ chat'[b] = chat[b]
      BY <1>1
    <3> QED
      BY <1>0, <1>2, <1>4, <2>1, <3>1, AppendPlaced
  <2> QED
    BY <1>1, <2>1, <2>2, OthersPlaced
<1>5. CASE Connect(b)
  BY <1>3, <1>5 DEF Connect
<1>6. CASE Attach(b)
  <2>1. toBrowser' = toBrowser \/ Write(b, [type |-> "resumed"])
    BY <1>6 DEF Attach
  <2>2. PICK x \in Texts : x = [type |-> "resumed"]
    BY TextsAre
  <2>3. x.type = "resumed"
    BY <2>2
  <2> QED
    BY <1>3, <1>4, <2>1, <2>2, <2>3
<1>7. CASE InitChat(b)
  <2>1. PICK page \in Snapshots : Write(b, [type |-> "init", data |-> page])
    BY <1>7 DEF InitChat
  <2>2. page \in Chats
    BY SnapshotFits DEF IInv
  <2>3. PICK x \in Texts : x = [type |-> "init", data |-> page]
    BY <2>2, TextsAre
  <2>4. x.type = "init" /\ x.data = page
    BY <2>3
  <2> QED
    BY <1>4, <2>1, <2>3, <2>4
<1> QED
  BY <1>5, <1>6, <1>7 DEF Serving

LEMMA ReceivePlaced ==
  ASSUME IInv, Orderly, NEW b \in Browser, Receive(b)
  PROVE  Orderly'
<1>0. Types /\ StoreFits /\ TimeFits /\ Placed(b) /\ UNCHANGED <<storeVars, signalVars>>
  BY DEF IInv, Orderly, Receive, ReceiveResumed, ReceiveInit, ReceiveTold
<1>1. PICK x : x = Head(toBrowser[b])
  OBVIOUS
<1>2. CASE ReceiveResumed(b)
  <2>1. Take(b, "resumed") /\ chat' = chat
    BY <1>2 DEF ReceiveResumed, pageVars
  <2>2. Placed(b)'
    BY <1>0, <1>1, <2>1, TailPlaced
  <2>3. \A d \in Browser : d # b => toBrowser'[d] = toBrowser[d]
    BY <1>0, <2>1, Taken
  <2> QED
    BY <1>0, <2>1, <2>2, <2>3, OthersPlaced DEF signalVars
<1>3. CASE ReceiveInit(b)
  <2>1. /\ Take(b, "init") /\ chat'[b] = x.data
        /\ \A d \in Browser : d # b => chat'[d] = chat[d]
    BY <1>0, <1>1, <1>3 DEF ReceiveInit, Types
  <2>2. Placed(b)'
    BY <1>0, <1>1, <2>1, TailPlaced
  <2>3. \A d \in Browser : d # b => toBrowser'[d] = toBrowser[d]
    BY <1>0, <2>1, Taken
  <2> QED
    BY <1>0, <2>1, <2>2, <2>3, OthersPlaced DEF signalVars
<1>4. CASE ReceiveTold(b)
  <2>1. Take(b, "told")
    BY <1>4 DEF ReceiveTold
  <2>2. PICK s, t \in Seq(Texts), L \in Nat :
          /\ s = toBrowser[b] /\ t = toBrowser'[b]
          /\ Len(s) = L + 1 /\ DOMAIN s = 1..(L + 1)
          /\ Len(t) = L /\ DOMAIN t = 1..L
          /\ \A l \in 1..L : t[l] = s[l + 1]
          /\ s[1] \in Texts /\ s[1] = Head(toBrowser[b]) /\ s[1].type = "told"
    BY <1>0, <2>1, Taken
  <2>3. PICK i \in Item : i = x.item /\ i \in Stored
    <3>1. x.item \in Item
      BY <1>1, <2>2, TextCases
    <3>2. 1 \in DOMAIN toBrowser[b] /\ IsTold(toBrowser[b][1], x.item)
      BY <1>1, <2>2 DEF IsTold
    <3> QED
      BY <3>1, <3>2, ToldAreStored
  <2>4. i \in Message => post[i] \in Posts
    BY <1>0, <2>3 DEF StoreFits, Stored
  <2>5. /\ \A d \in Browser : d # b => chat'[d] = chat[d]
        /\ chat'[b] = chat[b] \/ (chat[b] \in Chats /\ chat'[b] \in Updated(chat[b], i))
    BY <1>0, <1>1, <1>4, <2>3, <2>4, ToldCases
  <2>6. Placed(b)'
    BY <1>0, <1>1, <2>1, <2>3, <2>5, TailPlaced
  <2>7. \A d \in Browser : d # b => toBrowser'[d] = toBrowser[d]
    BY <1>0, <2>1, Taken
  <2> QED
    BY <1>0, <2>5, <2>6, <2>7, OthersPlaced DEF signalVars
<1> QED
  BY <1>2, <1>3, <1>4 DEF Receive


LEMMA RestartPlaced ==
  ASSUME IInv, Orderly, Restart
  PROVE  Orderly'
<1>0. Types /\ TimeFits
  BY DEF IInv, Orderly
<1>1. Stored' = Stored /\ seen' = seen /\ time' = time /\ chat' = chat
  BY <1>0, RestartPhases DEF Restart
<1>2. ASSUME NEW b \in Browser, NEW m \in Message PROVE ~ ToCome(b, m)'
  <2>1. phase'[m] \notin {"wait", "send"}
    BY <1>0, RestartPhases, ItemsDiffer
  <2> QED
    BY <2>1 DEF ToCome
<1>3. TimeFits'
  BY <1>0, TimesStay DEF Restart
<1>4. ASSUME NEW b \in Browser PROVE Placed(b)'
  <2>1. toBrowser'[b] = <<>> /\ DOMAIN <<>> = {} /\ Len(<<>>) = 0 /\ 0..0 = {0}
    BY DEF Restart
  <2>2. PICK L \in Nat : L = Len(toBrowser[b])
    BY <1>0, LenProperties DEF Types
  <2>3. 0 \in 0..L
    OBVIOUS
  <2>4. ASSUME NEW v \in Versions(b)'
        PROVE  v = 0 /\ v \in Versions(b) /\ View(b, v)' = View(b, v)
    <3>1. v = 0
      BY <2>1 DEF Versions
    <3>2. chat[b] # None
      BY <1>1, <3>1 DEF Versions
    <3> QED
      BY <1>1, <2>2, <2>3, <3>1, <3>2 DEF Versions, View
  <2>5. Placed(b)
    BY DEF Orderly
  <2>6. Unheard(b)'
    <3> SUFFICES ASSUME NEW v \in Versions(b)', NEW m \in Message, Holds(View(b, v)', m)
                 PROVE  m \in Stored
      BY <1>1 DEF Unheard, Holds
    <3> QED
      BY <2>4, <2>5 DEF Placed, Unheard
  <2>7. ToldOnce(b)' /\ Later(b)'
    BY <2>1 DEF ToldOnce, Later
  <2>8. Counted(b)'
    <3> SUFFICES ASSUME NEW v \in Versions(b)', NEW m \in Message, m \in Stored
                 PROVE  /\ AtMostTwo(Spots(View(b, v)', m))
                        /\ v # 0 \/ Pending(b, m)' => AtMostOne(Spots(View(b, v)', m))
      BY <1>1 DEF Counted, Spots
    <3>1. ~ Pending(b, m)'
      BY <1>2, <2>1 DEF Pending
    <3>2. AtMostTwo(Spots(View(b, v), m))
      BY <2>4, <2>5 DEF Placed, Counted
    <3> QED
      BY <2>4, <3>1, <3>2
  <2>9. Ordered(b)'
    <3> SUFFICES ASSUME NEW v \in Versions(b)', NEW c \in Channel,
                        NEW e \in DOMAIN View(b, v)'.channels[c],
                        NEW m \in Message, NEW n \in Message, Before(m, n)
                 PROVE  Precedes(View(b, v)'.channels[c][e], m, n)
      BY <1>1 DEF Ordered, Precedes, Before
    <3> QED
      BY <2>4, <2>5 DEF Placed, Ordered
  <2> QED
    BY <2>6, <2>7, <2>8, <2>9 DEF Placed
<1> QED
  BY <1>3, <1>4 DEF Orderly

LEMMA StutterPlaced ==
  ASSUME IInv, Orderly, UNCHANGED vars
  PROVE  Orderly'
<1>1. UNCHANGED <<storeVars, signalVars, toBrowser, chat>>
  BY DEF vars, pageVars
<1>2. Stored' = Stored /\ seen' = seen /\ time' = time /\ TimeFits'
  BY <1>1, SameStore, TimesStay DEF storeVars, Orderly
<1>3. ASSUME NEW b \in Browser PROVE Placed(b)'
  <2>1. Placed(b) /\ toBrowser'[b] = toBrowser[b] /\ chat'[b] = chat[b]
    BY <1>1 DEF Orderly
  <2>2. \A m \in Stored : ToCome(b, m)' => ToCome(b, m)
    BY <1>1 DEF ToCome, storeVars, signalVars
  <2> QED
    BY <1>2, <2>1, <2>2, QuietPlaced
<1> QED
  BY <1>2, <1>3 DEF Orderly

LEMMA InitPlaced == Init => Orderly
<1> SUFFICES ASSUME Init PROVE Orderly
  OBVIOUS
<1> USE DEF Init
<1>1. TimeFits
  <2>1. PICK m \in Message : TRUE
    BY ItemsAssumption
  <2>2. 0 \in Range(time)
    BY <2>1 DEF Range
  <2>3. \A n \in Message : time[n] <= 0
    OBVIOUS
  <2>4. time \in [Message -> Nat]
    OBVIOUS
  <2> QED
    BY <2>2, <2>3, <2>4 DEF TimeFits
<1>2. ASSUME NEW b \in Browser PROVE Placed(b)
  <2>1. toBrowser[b] = <<>> /\ DOMAIN <<>> = {} /\ chat[b] = None /\ Len(<<>>) = 0 /\ 0..0 = {0}
    OBVIOUS
  <2>2. Versions(b) = {}
    BY <2>1 DEF Versions
  <2> QED
    BY <2>1, <2>2 DEF Placed, Unheard, ToldOnce, Counted, Later, Ordered
<1> QED
  BY <1>1, <1>2 DEF Orderly

LEMMA OrderInductive ==
  ASSUME IInv, Orderly, [Next]_vars
  PROVE  Orderly'
<1>1. ASSUME NEW b \in Browser, Connect(b) \/ Serving(b) \/ Receive(b) PROVE Orderly'
  BY <1>1, ServingPlaced, ReceivePlaced
<1> QED
  BY <1>1, StatementPlaced, DispatchPlaced, RestartPlaced, StutterPlaced DEF Next

LEMMA OrderInvariance == SafeSpec => []Orderly
<1>1. IInv /\ Orderly /\ [Next]_vars => Orderly'
  BY OrderInductive
<1> QED
  BY <1>1, InitPlaced, Invariance, PTL DEF SafeSpec

(* The Chat that is shown is a version. *)
LEMMA ShownIsVersion ==
  ASSUME Types, NEW b \in Browser, chat[b] # None
  PROVE  0 \in Versions(b) /\ View(b, 0) = chat[b] /\ chat[b] \in Chats
<1>1. Len(toBrowser[b]) \in Nat
  BY LenProperties DEF Types
<1> QED
  BY <1>1 DEF Versions, View, Types

(* A page shows no message three times, whatever the order of its          *)
(* notification, the snapshot, the notification of its channel, and a      *)
(* restart of the server: get_init lists a message once, Dispatch sends it *)
(* to a listener once, and onMessagePosted puts it into one entry.         *)
THEOREM MessagesAreTwiceAtMost == SafeSpec => []TwiceAtMost
<1>1. ASSUME IInv, Orderly PROVE TwiceAtMost
  <2> SUFFICES ASSUME NEW b \in Browser, NEW m \in Stored \cap Message, chat[b] # None
               PROVE  Cardinality(Copies(b, m)) <= 2
    BY DEF TwiceAtMost
  <2>1. 0 \in Versions(b) /\ View(b, 0) = chat[b]
    BY <1>1, ShownIsVersion DEF IInv
  <2>2. PICK p, q : Spots(chat[b], m) \subseteq {p, q}
    BY <1>1, <2>1 DEF Orderly, Placed, Counted, AtMostTwo
  <2>3. PICK c \in Channel : c = post[m].channel
    <3>1. phase[m] # "new"
      BY DEF Stored
    <3> QED
      BY <1>1, <3>1 DEF IInv, StoreFits, Posts
  <2>4. chat[b] \in Chats
    BY <1>1, <2>1, ShownIsVersion DEF IInv
  <2>5. ASSUME NEW r \in Copies(b, m) PROVE r \in {<<p[2], p[3]>>, <<q[2], q[3]>>}
    <3>1. PICK s : s = chat[b].channels[c]
      OBVIOUS
    <3>2. /\ r \in (DOMAIN s) \X (1..(2 * Cardinality(Message)))
          /\ r[2] \in DOMAIN s[r[1]] /\ s[r[1]][r[2]] = m
      BY <2>3, <2>5, <3>1 DEF Copies, Entries
    <3>3. PICK e, j : r = <<e, j>> /\ e \in DOMAIN s /\ j \in DOMAIN s[e] /\ s[e][j] = m
      BY <3>2
    <3>4. e \in Nat /\ j \in Nat
      BY <2>4, <3>1, <3>3, ListsAre
    <3>5. <<c, e, j>> \in Spots(chat[b], m)
      BY <3>1, <3>3, <3>4, SpotIs
    <3>6. <<c, e, j>> = p \/ <<c, e, j>> = q
      BY <2>2, <3>5
    <3> QED
      BY <3>3, <3>6
  <2>6. PICK y : y = <<p[2], p[3]>>
    OBVIOUS
  <2>7. PICK z : z = <<q[2], q[3]>>
    OBVIOUS
  <2>8. Copies(b, m) \subseteq {y, z}
    BY <2>5, <2>6, <2>7
  <2>9. IsFiniteSet({y, z}) /\ Cardinality({y, z}) \in Nat /\ Cardinality({y, z}) <= 2
    <3>1. PICK S : S = {y} /\ IsFiniteSet(S) /\ Cardinality(S) = 1
      BY FS_Singleton
    <3>2. /\ IsFiniteSet(S \cup {z})
          /\ Cardinality(S \cup {z}) = IF z \in S THEN Cardinality(S) ELSE Cardinality(S) + 1
      BY <3>1, FS_AddElement
    <3>3. S \cup {z} = {y, z}
      BY <3>1
    <3> QED
      BY <3>1, <3>2, <3>3
  <2>10. IsFiniteSet(Copies(b, m)) /\ Cardinality(Copies(b, m)) <= Cardinality({y, z})
    BY <2>8, <2>9, FS_Subset
  <2>11. Cardinality(Copies(b, m)) \in Nat
    BY <2>10, FS_CardinalityType
  <2> QED
    BY <2>9, <2>10, <2>11
<1> QED
  BY <1>1, Invariance, OrderInvariance, PTL

(* A message is shown after those whose dispatch had ended, in an earlier  *)
(* second, when it was posted, on every page and after every restart:      *)
(* get_init orders by the second, and a notification that has not arrived  *)
(* yet is not of a message that something on the page could have answered. *)
THEOREM MessagesAreInOrder == SafeSpec => []ShownInOrder
<1>1. ASSUME IInv, Orderly PROVE ShownInOrder
  <2> SUFFICES ASSUME NEW b \in Browser, NEW m \in Stored \cap Message,
                      NEW n \in Stored \cap Message, chat[b] # None, Before(m, n),
                      NEW e \in DOMAIN Entries(b, n)
               PROVE  Precedes(Entries(b, n)[e], m, n)
    BY DEF ShownInOrder, Precedes, Before
  <2>1. 0 \in Versions(b) /\ View(b, 0) = chat[b]
    BY <1>1, ShownIsVersion DEF IInv
  <2>2. post[n].channel \in Channel
    <3>1. phase[n] # "new"
      BY DEF Stored
    <3> QED
      BY <1>1, <3>1 DEF IInv, StoreFits, Posts
  <2> QED
    BY <1>1, <2>1, <2>2 DEF Orderly, Placed, Ordered, Entries
<1> QED
  BY <1>1, Invariance, OrderInvariance, PTL
=============================================================================
