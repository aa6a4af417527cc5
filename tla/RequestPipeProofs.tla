-------------------------- MODULE RequestPipeProofs --------------------------
(***************************************************************************)
(* Requests are handled once and in order, and a browser that waits for    *)
(* each answer gets its own, for any number of messages, and however       *)
(* reader and main goroutine interleave.                                   *)
(***************************************************************************)
EXTENDS RequestPipe, SequenceTheorems, FiniteSetTheorems, TLAPS

Decoding == reader \in {"decode", "handoff"}
Handling == main \in {"run", "reply"}

(* How many messages the main goroutine has taken, and the reader read. *)
Taken == Len(ran) + Busy(main = "run")
HaveRead == Taken + Busy(Decoding)

(* The messages from the first to the last that was sent are, in this      *)
(* order, those that ran, the one that runs, the one that is decoded and   *)
(* those on their way; the end of these is lost when the browser goes.     *)
InOrder ==
  /\ HandledInOrder
  /\ main = "run" => held = Taken
  /\ Decoding => decoded = HaveRead
  /\ \A i \in DOMAIN up : up[i] = HaveRead + i
  /\ HaveRead + Len(up) <= Len(sent)
  /\ open => HaveRead + Len(up) = Len(sent)

(* Only what was sent is handled and answered. *)
WasSent ==
  /\ Handling => held \in DOMAIN sent
  /\ \A i \in DOMAIN down : down[i][2] \in DOMAIN sent
  /\ \A s \in settled : s[2] \in DOMAIN sent

(* The reader hands a request over with its own id and params. *)
HandedWhole ==
  reader = "handoff" /\ IsRequest(decoded) => cell = sent[decoded] /\ buffer = decoded

(* An id and an array that were there are not taken away. *)
HeldSet ==
  /\ Handling /\ hasID => cell # NoID
  /\ main = "reply" => hasID
  /\ Handling /\ IsRequest(held) => buffer # 0

(* What was handed over stays whole until it is answered, when nothing     *)
(* else is under way.                                                      *)
HeldWhole ==
  Handling /\ IsRequest(held) => hasID /\ cell = sent[held] /\ buffer = held

Owed(n) ==
  \/ \E i \in DOMAIN up : up[i] = n
  \/ Decoding /\ decoded = n
  \/ Handling /\ held = n
  \/ \E i \in DOMAIN down : down[i][2] = n

PendingIsOwed ==
  open => \A id \in pending : \E n \in DOMAIN sent : sent[n] = id /\ Owed(n)

Patience ==
  window = 1 =>
    /\ UnderWay <= 1
    /\ HeldWhole
    /\ PendingIsOwed
    /\ AnswersMatch
    /\ OwnParams

IInv == TypeOK /\ InOrder /\ WasSent /\ HandedWhole /\ HeldSet /\ Patience

-----------------------------------------------------------------------------
(* Lengths are numbers, and indices those of the sequences. *)
LEMMA Lengths ==
  ASSUME TypeOK
  PROVE  /\ Len(sent) \in Nat /\ DOMAIN sent = 1..Len(sent)
         /\ Len(up) \in Nat /\ DOMAIN up = 1..Len(up)
         /\ Len(down) \in Nat /\ DOMAIN down = 1..Len(down)
         /\ Len(ran) \in Nat /\ DOMAIN ran = 1..Len(ran)
BY LenProperties DEF TypeOK

(* The counts of what is under way, before and after a step. *)
Counting ==
  /\ main = "run" => Taken = Len(ran) + 1
  /\ main # "run" => Taken = Len(ran) + 0
  /\ Decoding => HaveRead = Taken + 1
  /\ ~ Decoding => HaveRead = Taken + 0
  /\ Decoding /\ Handling => UnderWay = Len(up) + 1 + 1 + Len(down)
  /\ Decoding /\ ~ Handling => UnderWay = Len(up) + 1 + 0 + Len(down)
  /\ ~ Decoding /\ Handling => UnderWay = Len(up) + 0 + 1 + Len(down)
  /\ ~ Decoding /\ ~ Handling => UnderWay = Len(up) + 0 + 0 + Len(down)

LEMMA Counts == Counting /\ Counting'
<1>1. \A b \in BOOLEAN : (b => Busy(b) = 1) /\ (~ b => Busy(b) = 0)
  BY DEF Busy
<1>2. (main = "run") \in BOOLEAN /\ (main = "run")' \in BOOLEAN
  OBVIOUS
<1>3. (reader \in {"decode", "handoff"}) \in BOOLEAN /\ (reader \in {"decode", "handoff"})' \in BOOLEAN
  OBVIOUS
<1>4. (main \in {"run", "reply"}) \in BOOLEAN /\ (main \in {"run", "reply"})' \in BOOLEAN
  OBVIOUS
<1> QED
  BY <1>1, <1>2, <1>3, <1>4 DEF Counting, Taken, HaveRead, UnderWay, Decoding, Handling

(* Whoever has one message under way has nothing else under way. *)
LEMMA Alone ==
  ASSUME IInv, window = 1
  PROVE  /\ Handling => ~ Decoding /\ up = <<>> /\ down = <<>>
         /\ Decoding => ~ Handling /\ up = <<>> /\ down = <<>>
         /\ down # <<>> => ~ Handling /\ ~ Decoding /\ up = <<>> /\ Len(down) = 1
         /\ up # <<>> => ~ Handling /\ ~ Decoding /\ down = <<>> /\ Len(up) = 1
         /\ UnderWay = 0 => ~ Handling /\ ~ Decoding /\ down = <<>> /\ up = <<>>
<1>1. /\ Len(up) \in Nat /\ (up # <<>> => Len(up) > 0)
      /\ Len(down) \in Nat /\ (down # <<>> => Len(down) > 0)
  BY EmptySeq, LenProperties DEF IInv, TypeOK
<1>2. UnderWay <= 1
  BY DEF IInv, Patience
<1>3. PICK u \in Nat, d \in Nat : u = Len(up) /\ d = Len(down)
  BY <1>1
<1>4. PICK w \in 0..1 : w = UnderWay
  BY <1>2, <1>3, Counts DEF Counting
<1>5. /\ Decoding /\ Handling => w = u + d + 2
      /\ Decoding /\ ~ Handling => w = u + d + 1
      /\ ~ Decoding /\ Handling => w = u + d + 1
      /\ ~ Decoding /\ ~ Handling => w = u + d
  BY <1>3, <1>4, Counts DEF Counting
<1> QED
  BY <1>1, <1>3, <1>4, <1>5

(* nextRequestID is an id, and not NoID. *)
LEMMA IDsFit ==
  ASSUME TypeOK, Len(sent) < MaxMessages
  PROVE  NextID \in IDs /\ NextID # NoID
<1> DEFINE S == {n \in DOMAIN sent : IsRequest(n)}
<1>1. Len(sent) \in Nat /\ S \in SUBSET (1..Len(sent))
  BY Lengths
<1>2. IsFiniteSet(1..Len(sent)) /\ Cardinality(1..Len(sent)) = Len(sent)
  <2>1. \A a, b \in Int : IsFiniteSet(a..b) /\ (a = 1 /\ b >= 0 => Cardinality(a..b) = b)
    BY FS_Interval
  <2> QED
    BY <1>1, <2>1
<1>3. IsFiniteSet(S) /\ Cardinality(S) <= Len(sent)
  BY <1>1, <1>2, FS_Subset
<1>4. Cardinality(S) \in Nat
  BY <1>3, FS_CardinalityType
<1> HIDE DEF S
<1>5. Cardinality(S) \in 0..(MaxMessages - 1)
  BY <1>1, <1>3, <1>4, WindowAssumption
<1> QED
  BY <1>5 DEF NextID, S, IDs, NoID

(* The message that is posted is the next one, and on its way. *)
LEMMA PostKeeps ==
  ASSUME IInv, NEW id \in IDs \cup {NoID}, Post(id),
         pending' = IF id = NoID THEN pending ELSE pending \cup {id}
  PROVE  IInv'
<1>1. PICK n \in Nat : n = Len(sent) /\ DOMAIN sent = 1..n /\ n + 1 \in Messages
  <2>1. Len(sent) \in Nat /\ DOMAIN sent = 1..Len(sent) /\ Len(sent) < MaxMessages
    BY Lengths DEF Post, IInv
  <2>2. Len(sent) + 1 \in Messages
    BY <2>1, WindowAssumption DEF Messages
  <2> QED
    BY <2>1, <2>2
<1>2. /\ sent' \in Seq(IDs \cup {NoID}) /\ Len(sent') = n + 1 /\ DOMAIN sent' = 1..(n + 1)
      /\ sent'[n + 1] = id
      /\ \A i \in 1..n : sent'[i] = sent[i]
  BY <1>1, AppendProperties, LenProperties DEF Post, IInv, TypeOK
<1>3. PICK u \in Nat : u = Len(up) /\ DOMAIN up = 1..u
  BY Lengths DEF IInv
<1>4. /\ up' \in Seq(Messages) /\ Len(up') = u + 1 /\ DOMAIN up' = 1..(u + 1)
      /\ up'[u + 1] = n + 1
      /\ \A i \in 1..u : up'[i] = up[i]
  BY <1>1, <1>3, AppendProperties, LenProperties DEF Post, IInv, TypeOK
<1>5. /\ UNCHANGED <<window, settled, open, down, reader, decoded, cell, buffer,
                     main, held, hasID, ran, shared>>
      /\ open
  BY DEF Post, readerVars, mainVars
<1>6. TypeOK'
  <2>1. pending' \subseteq IDs
    BY DEF IInv, TypeOK
  <2>2. Len(sent') <= MaxMessages
    BY <1>1, <1>2 DEF Messages
  <2> QED
    BY <1>2, <1>4, <1>5, <2>1, <2>2 DEF IInv, TypeOK
<1>7. HaveRead' = HaveRead /\ HaveRead \in Nat
  <2>1. Len(ran) \in Nat
    BY Lengths DEF IInv
  <2> QED
    BY <1>5, <2>1, Counts DEF Counting, Decoding
<1>8. InOrder'
  <2>1. HaveRead + u = n
    BY <1>1, <1>3, <1>5 DEF IInv, InOrder
  <2>2. \A i \in 1..(u + 1) : up'[i] = HaveRead + i
    <3>1. \A i \in 1..u : up[i] = HaveRead + i
      BY <1>3 DEF IInv, InOrder
    <3> QED
      BY <1>4, <1>7, <2>1, <3>1
  <2>3. HandledInOrder' /\ (main' = "run" => held' = Taken') /\ (Decoding' => decoded' = HaveRead')
    BY <1>5, <1>7 DEF IInv, InOrder, HandledInOrder, Taken, Decoding
  <2> QED
    BY <1>2, <1>4, <1>7, <2>1, <2>2, <2>3 DEF InOrder
<1>9. WasSent'
  BY <1>1, <1>2, <1>5 DEF IInv, WasSent, Handling
<1>10. Decoding => decoded \in 1..n
  <2>1. HaveRead <= n
    BY <1>1, <1>3, <1>7 DEF IInv, InOrder
  <2>2. Decoding => HaveRead >= 1
    BY Lengths, Counts DEF Counting, IInv
  <2> QED
    BY <1>7, <2>1, <2>2 DEF IInv, InOrder
<1>11. HandedWhole'
  BY <1>2, <1>5, <1>10 DEF IInv, HandedWhole, IsRequest, Decoding
<1>12. HeldSet'
  <2>1. Handling => IsRequest(held)' = IsRequest(held)
    BY <1>1, <1>2, <1>5 DEF IInv, WasSent, IsRequest
  <2> QED
    BY <1>5, <2>1 DEF IInv, HeldSet, Handling
<1>13. ASSUME window = 1 PROVE Patience'
  <2>1. UnderWay = 0
    <3>1. UnderWay \in Nat
      <4>1. Len(up) \in Nat /\ Len(down) \in Nat
        BY Lengths DEF IInv
      <4> QED
        BY <4>1, Counts DEF Counting
    <3> QED
      BY <1>13, <3>1 DEF Post
  <2>2. ~ Handling /\ ~ Decoding /\ down = <<>> /\ up = <<>> /\ u = 0
    BY <1>3, <1>13, <2>1, Alone
  <2>3. pending = {}
    BY <1>13, <1>5, <2>2 DEF IInv, Patience, PendingIsOwed, Owed
  <2>4. UnderWay' <= 1
    BY <1>4, <1>5, <2>2, Counts, EmptySeq DEF Counting, Handling, Decoding
  <2>5. HeldWhole'
    BY <1>5, <2>2 DEF HeldWhole, Handling
  <2>6. PendingIsOwed'
    <3>1. Owed(n + 1)'
      BY <1>4 DEF Owed
    <3> QED
      BY <1>2, <2>3, <3>1 DEF PendingIsOwed
  <2>7. AnswersMatch'
    <3>1. \A s \in settled : sent[s[2]] = s[1] /\ s[2] \in 1..n
      BY <1>1, <1>13 DEF IInv, Patience, AnswersMatch, WasSent
    <3> QED
      BY <1>2, <1>5, <2>2, <3>1 DEF AnswersMatch
  <2>8. OwnParams'
    BY <1>5, <1>13 DEF OwnParams, IInv, Patience
  <2> QED
    BY <2>4, <2>5, <2>6, <2>7, <2>8 DEF Patience
<1> QED
  BY <1>5, <1>6, <1>8, <1>9, <1>11, <1>13, <1>12 DEF IInv, Patience

LEMMA SendRequestKeeps == ASSUME IInv, SendRequest PROVE IInv'
<1>1. Len(sent) < MaxMessages
  BY DEF SendRequest, Post
<1>2. NextID \in IDs /\ NextID # NoID
  BY <1>1, IDsFit DEF IInv
<1>3. PICK id \in IDs : id = NextID
  BY <1>2
<1> QED
  BY <1>2, <1>3, PostKeeps DEF SendRequest

LEMMA SendNotificationKeeps == ASSUME IInv, SendNotification PROVE IInv'
BY PostKeeps DEF SendNotification

(* Reading an answer settles what it is the answer to. *)
LEMMA OnResponseKeeps == ASSUME IInv, OnResponse PROVE IInv'
<1>1. /\ down # <<>> /\ open
      /\ UNCHANGED <<window, sent, open, up, reader, decoded, cell, buffer,
                     main, held, hasID, ran, shared>>
  BY DEF OnResponse, readerVars, mainVars
<1>2. PICK d \in Nat \ {0} : d = Len(down) /\ DOMAIN down = 1..d
  BY <1>1, Lengths, EmptySeq DEF IInv, TypeOK
<1>3. PICK id \in IDs \cup {Garbled}, m \in Messages :
        down[1] = <<id, m>> /\ Head(down) = <<id, m>> /\ Head(down)[1] = id
  <2>1. down[1] \in (IDs \cup {Garbled}) \X Messages /\ Head(down) = down[1]
    BY <1>1, <1>2, ElementOfSeq DEF IInv, TypeOK
  <2> QED
    BY <2>1
<1>4. /\ settled' = IF id \in pending THEN settled \cup {<<id, m>>} ELSE settled
      /\ pending' = pending \ {id}
      /\ down' = Tail(down)
  BY <1>3 DEF OnResponse
<1>5. /\ down' \in Seq((IDs \cup {Garbled}) \X Messages)
      /\ Len(down') = d - 1 /\ DOMAIN down' = 1..(d - 1)
      /\ \A i \in 1..(d - 1) : down'[i] = down[i + 1]
  BY <1>1, <1>2, <1>4, HeadTailProperties, LenProperties DEF IInv, TypeOK
<1>6. TypeOK'
  <2>1. pending' \subseteq IDs
    BY <1>4 DEF IInv, TypeOK
  <2>2. settled' \subseteq IDs \X Messages
    BY <1>3, <1>4 DEF IInv, TypeOK
  <2> QED
    BY <1>1, <1>5, <2>1, <2>2 DEF IInv, TypeOK
<1>7. InOrder'
  BY <1>1 DEF IInv, InOrder, HandledInOrder, HaveRead, Taken, Decoding
<1>8. WasSent'
  <2>1. m \in DOMAIN sent
    BY <1>2, <1>3 DEF IInv, WasSent
  <2>2. \A s \in settled' : s[2] \in DOMAIN sent
    BY <1>4, <2>1 DEF IInv, WasSent
  <2>3. \A i \in 1..(d - 1) : down'[i][2] \in DOMAIN sent
    <3>1. \A i \in 1..(d - 1) : i + 1 \in 1..d
      OBVIOUS
    <3> QED
      BY <1>2, <1>5, <3>1 DEF IInv, WasSent
  <2> QED
    BY <1>1, <1>5, <2>2, <2>3 DEF IInv, WasSent, Handling
<1>9. HandedWhole' /\ HeldSet'
  BY <1>1 DEF IInv, HandedWhole, HeldSet, Handling, IsRequest
<1>10. ASSUME window = 1 PROVE Patience'
  <2>1. ~ Handling /\ ~ Decoding /\ up = <<>> /\ d = 1
    BY <1>1, <1>2, <1>10, Alone
  <2>2. UnderWay' <= 1
    BY <1>1, <1>5, <2>1, EmptySeq, Counts DEF Counting, Handling, Decoding
  <2>3. HeldWhole'
    BY <1>1, <2>1 DEF HeldWhole, Handling
  <2>4. \A p \in pending : sent[m] = p
    BY <1>1, <1>2, <1>3, <1>10, <2>1 DEF IInv, Patience, PendingIsOwed, Owed
  <2>5. IsRequest(m) => id = sent[m]
    BY <1>2, <1>3, <1>10 DEF IInv, Patience, AnswersMatch
  <2>6. \A p \in pending : p = id
    BY <2>4, <2>5 DEF IsRequest, IInv, TypeOK, IDs, NoID
  <2>7. PendingIsOwed'
    BY <1>4, <2>6 DEF PendingIsOwed
  <2>8. DOMAIN down' = {}
    BY <1>5, <2>1
  <2>9. \A s \in settled' : sent[s[2]] = s[1]
    BY <1>4, <1>10, <2>4 DEF IInv, Patience, AnswersMatch
  <2>10. AnswersMatch'
    BY <1>1, <2>8, <2>9 DEF AnswersMatch
  <2>11. OwnParams'
    BY <1>1, <1>10 DEF OwnParams, IInv, Patience
  <2> QED
    BY <2>2, <2>3, <2>7, <2>10, <2>11 DEF Patience
<1> QED
  BY <1>1, <1>6, <1>7, <1>8, <1>9, <1>10 DEF IInv, Patience

(* What is lost when the browser goes is the end of what was on its way. *)
LEMMA CloseKeeps == ASSUME IInv, Close PROVE IInv'
<1>1. /\ open' = FALSE
      /\ UNCHANGED <<window, sent, pending, settled, down, reader, decoded, cell, buffer,
                     main, held, hasID, ran, shared>>
  BY DEF Close, readerVars, mainVars
<1>2. PICK u \in Nat : u = Len(up) /\ DOMAIN up = 1..u
  BY Lengths DEF IInv
<1>3. PICK n \in 0..u : up' = SubSeq(up, 1, n)
  BY <1>2 DEF Close
<1>4. /\ up' \in Seq(Messages) /\ Len(up') = n /\ DOMAIN up' = 1..n
      /\ \A i \in 1..n : up'[i] = up[i]
  <2>1. \A i \in 1..n : up[i] \in Messages
    BY <1>2, ElementOfSeq DEF IInv, TypeOK
  <2>2. /\ SubSeq(up, 1, n) \in Seq(Messages) /\ Len(SubSeq(up, 1, n)) = n
        /\ \A i \in 1..n : SubSeq(up, 1, n)[i] = up[i]
    BY <2>1, SubSeqProperties
  <2> QED
    BY <1>3, <2>2, LenProperties
<1>5. TypeOK'
  <2>1. TypeOK /\ up' \in Seq(Messages) /\ open' \in BOOLEAN
    BY <1>1, <1>4 DEF IInv
  <2> QED
    BY <1>1, <2>1 DEF TypeOK
<1>6. InOrder'
  <2>1. HaveRead' = HaveRead /\ HaveRead \in Nat
    <3>1. Len(ran) \in Nat
      BY Lengths DEF IInv
    <3> QED
      BY <1>1, <3>1, Counts DEF Counting, Decoding
  <2>2. Len(sent) \in Nat /\ HaveRead + u <= Len(sent)
    BY <1>2, Lengths DEF IInv, InOrder
  <2>3. HaveRead' + Len(up') <= Len(sent')
    BY <1>1, <1>4, <2>1, <2>2
  <2>4. \A i \in DOMAIN up' : up'[i] = HaveRead' + i
    BY <1>2, <1>4, <2>1 DEF IInv, InOrder
  <2> QED
    BY <1>1, <2>1, <2>3, <2>4 DEF IInv, InOrder, HandledInOrder, Taken, Decoding
<1>7. WasSent' /\ HandedWhole' /\ HeldSet'
  BY <1>1 DEF IInv, WasSent, HandedWhole, HeldSet, IsRequest, Handling
<1>8. ASSUME window = 1 PROVE Patience'
  <2>1. UnderWay' <= 1
    <3>1. Len(down) \in Nat
      BY Lengths DEF IInv
    <3>2. UnderWay <= 1
      BY <1>8 DEF IInv, Patience
    <3> QED
      BY <1>1, <1>2, <1>4, <3>1, <3>2, Counts DEF Counting, Handling, Decoding
  <2> QED
    BY <1>1, <1>8, <2>1 DEF IInv, Patience, HeldWhole, Handling, IsRequest, PendingIsOwed,
       AnswersMatch, OwnParams
<1> QED
  BY <1>1, <1>5, <1>6, <1>7, <1>8 DEF IInv, Patience

(* The reader takes the first message on its way. *)
LEMMA ReceiveKeeps == ASSUME IInv, Receive PROVE IInv'
<1>1. /\ reader = "receive" /\ up # <<>> /\ reader' = "decode" /\ decoded' = Head(up)
      /\ UNCHANGED <<window, sent, pending, settled, open, down, cell, buffer,
                     main, held, hasID, ran, shared>>
  BY DEF Receive, browserVars, mainVars
<1>2. PICK u \in Nat \ {0} : u = Len(up) /\ DOMAIN up = 1..u
  BY <1>1, Lengths, EmptySeq DEF IInv, TypeOK
<1>3. /\ up' \in Seq(Messages) /\ Len(up') = u - 1 /\ DOMAIN up' = 1..(u - 1)
      /\ \A i \in 1..(u - 1) : up'[i] = up[i + 1]
      /\ decoded' = up[1] /\ decoded' \in Messages
  BY <1>1, <1>2, HeadTailProperties, LenProperties, ElementOfSeq DEF Receive, IInv, TypeOK
<1>4. TypeOK'
  BY <1>1, <1>3 DEF IInv, TypeOK
<1>5. PICK h \in Nat : h = HaveRead /\ HaveRead' = h + 1
  <2>1. Len(ran) \in Nat
    BY Lengths DEF IInv
  <2> QED
    BY <1>1, <2>1, Counts DEF Counting, Decoding
<1>6. InOrder'
  <2>1. up[1] = h + 1 /\ \A i \in 1..u : up[i] = h + i
    BY <1>2, <1>5 DEF IInv, InOrder
  <2>2. \A i \in 1..(u - 1) : up'[i] = h + 1 + i
    <3> TAKE i \in 1..(u - 1)
    <3>1. PICK j \in 1..u : j = i + 1
      OBVIOUS
    <3>2. up'[i] = up[j] /\ up[j] = h + j
      BY <1>3, <2>1, <3>1
    <3> QED
      BY <3>1, <3>2
  <2>3. HaveRead' + Len(up') = h + u
    BY <1>3, <1>5
  <2>4. h + u <= Len(sent) /\ (open => h + u = Len(sent))
    BY <1>2, <1>5 DEF IInv, InOrder
  <2> QED
    BY <1>1, <1>3, <1>5, <2>1, <2>2, <2>3, <2>4 DEF IInv, InOrder, HandledInOrder, Taken, Decoding
<1>7. WasSent' /\ HandedWhole' /\ HeldSet'
  BY <1>1 DEF IInv, WasSent, HandedWhole, HeldSet, IsRequest, Handling
<1>8. ASSUME window = 1 PROVE Patience'
  <2>1. ~ Handling /\ ~ Decoding /\ down = <<>> /\ u = 1
    BY <1>1, <1>2, <1>8, Alone
  <2>2. UnderWay' <= 1
    BY <1>1, <1>3, <2>1, EmptySeq, Counts DEF Counting, Handling, Decoding
  <2>3. PendingIsOwed'
    <3>1. \A n \in DOMAIN sent : Owed(n) => n = up[1]
      BY <1>2, <2>1 DEF Owed
    <3>2. \A n : n = up[1] => Owed(n)'
      BY <1>1, <1>3 DEF Owed, Decoding
    <3> QED
      BY <1>1, <1>8, <3>1, <3>2 DEF IInv, Patience, PendingIsOwed
  <2> QED
    BY <1>1, <1>8, <2>1, <2>2, <2>3 DEF IInv, Patience, HeldWhole, Handling, IsRequest,
       AnswersMatch, OwnParams
<1> QED
  BY <1>1, <1>4, <1>6, <1>7, <1>8 DEF IInv, Patience

(* Decoding a request fills the cell and the array; decoding anything else *)
(* leaves them alone.                                                      *)
LEMMA DecodeKeeps == ASSUME IInv, Decode PROVE IInv'
<1>1. /\ reader = "decode" /\ reader' = "handoff"
      /\ UNCHANGED <<window, sent, pending, settled, open, up, down, decoded,
                     main, held, hasID, ran>>
  BY DEF Decode, browserVars, mainVars
<1>2. /\ IsRequest(decoded) => cell' = sent[decoded] /\ buffer' = decoded /\ shared' \in {shared, FALSE}
      /\ ~ IsRequest(decoded) => UNCHANGED <<cell, buffer, shared>>
  BY DEF Decode
<1>3. decoded \in DOMAIN sent
  <2>1. PICK r \in Nat, n \in Nat, u \in Nat :
          r = Len(ran) /\ n = Len(sent) /\ u = Len(up) /\ DOMAIN sent = 1..n
    BY Lengths DEF IInv
  <2>2. decoded = HaveRead /\ HaveRead + u <= n
    BY <1>1, <2>1 DEF IInv, InOrder, Decoding
  <2>3. HaveRead \in Nat /\ HaveRead >= 1
    BY <1>1, <2>1, Counts DEF Counting, Decoding
  <2> QED
    BY <2>1, <2>2, <2>3
<1>4. TypeOK'
  <2>1. sent[decoded] \in IDs \cup {NoID}
    BY <1>3, ElementOfSeq, LenProperties DEF IInv, TypeOK
  <2> QED
    BY <1>1, <1>2, <2>1 DEF IInv, TypeOK
<1>5. HaveRead' = HaveRead
  BY <1>1 DEF HaveRead, Taken, Decoding
<1>6. InOrder'
  BY <1>1, <1>5 DEF IInv, InOrder, HandledInOrder, Taken, Decoding
<1>7. WasSent' /\ HandedWhole'
  BY <1>1, <1>2 DEF IInv, WasSent, HandedWhole, IsRequest, Handling
<1>8. HeldSet'
  <2>1. decoded # 0
    BY <1>3, Lengths DEF IInv
  <2> QED
    BY <1>1, <1>2, <2>1 DEF IInv, HeldSet, Handling, IsRequest
<1>9. ASSUME window = 1 PROVE Patience'
  <2>1. ~ Handling
    BY <1>1, <1>9, Alone DEF Decoding
  <2>2. UnderWay' = UnderWay
    BY <1>1 DEF UnderWay
  <2> QED
    BY <1>1, <1>9, <2>1, <2>2 DEF IInv, Patience, HeldWhole, Handling, IsRequest,
       PendingIsOwed, Owed, Decoding, AnswersMatch, OwnParams
<1> QED
  BY <1>1, <1>4, <1>6, <1>7, <1>9, <1>8 DEF IInv, Patience

(* The end of the reader. *)
LEMMA ReadFailsKeeps == ASSUME IInv, ReadFails PROVE IInv'
<1>1. /\ reader = "receive" /\ reader' = "report"
      /\ UNCHANGED <<window, sent, pending, settled, open, up, down, decoded, cell, buffer,
                     main, held, hasID, ran, shared>>
  BY DEF ReadFails, browserVars, mainVars
<1>2. HaveRead' = HaveRead /\ UnderWay' = UnderWay
  <2>1. (reader \in {"decode", "handoff"}) = (reader \in {"decode", "handoff"})'
    BY <1>1
  <2> QED
    BY <1>1, <2>1 DEF HaveRead, Taken, Decoding, UnderWay
<1> QED
  BY <1>1, <1>2 DEF IInv, TypeOK, InOrder, HandledInOrder, Taken, Decoding, WasSent, HandedWhole,
     HeldSet, Patience, HeldWhole, Handling, IsRequest, PendingIsOwed, Owed, AnswersMatch, OwnParams

(* The end of the main goroutine. *)
LEMMA TakeErrorKeeps == ASSUME IInv, TakeError PROVE IInv'
<1>1. /\ reader = "report" /\ reader' = "gone" /\ main = "select" /\ main' = "ended"
      /\ UNCHANGED <<window, sent, pending, settled, open, up, down, decoded, cell, buffer,
                     held, hasID, ran, shared>>
  BY DEF TakeError, browserVars
<1>2. HaveRead' = HaveRead /\ UnderWay' = UnderWay
  <2>1. /\ (reader \in {"decode", "handoff"}) = (reader \in {"decode", "handoff"})'
        /\ (main \in {"run", "reply"}) = (main \in {"run", "reply"})'
        /\ (main = "run") = (main = "run")'
    BY <1>1
  <2> QED
    BY <1>1, <2>1 DEF HaveRead, Taken, Decoding, UnderWay
<1> QED
  BY <1>1, <1>2 DEF IInv, TypeOK, InOrder, HandledInOrder, Taken, Decoding, WasSent, HandedWhole,
     HeldSet, Patience, HeldWhole, Handling, IsRequest, PendingIsOwed, Owed, AnswersMatch, OwnParams

(* The main goroutine takes the message that the reader holds. *)
LEMMA TakeRequestKeeps == ASSUME IInv, TakeRequest PROVE IInv'
<1>1. /\ main = "select" /\ reader = "handoff" /\ main' = "run" /\ reader' = "receive"
      /\ held' = decoded /\ hasID' = (cell # NoID) /\ shared' = TRUE
      /\ UNCHANGED <<window, sent, pending, settled, open, up, down, decoded, cell, buffer, ran>>
  BY DEF TakeRequest, browserVars
<1>2. PICK r \in Nat, n \in Nat, u \in Nat, d \in Nat :
        /\ r = Len(ran) /\ n = Len(sent) /\ u = Len(up) /\ d = Len(down)
        /\ DOMAIN sent = 1..n
  BY Lengths DEF IInv
<1>3. HaveRead = r + 1 /\ HaveRead' = r + 1 /\ Taken' = r + 1
  BY <1>1, <1>2, Counts DEF Counting, Decoding
<1>4. decoded = r + 1 /\ r + 1 + u <= n
  BY <1>1, <1>2, <1>3 DEF IInv, InOrder, Decoding
<1>5. decoded \in DOMAIN sent
  BY <1>2, <1>4
<1>6. TypeOK'
  <2>1. hasID' \in BOOLEAN
    BY <1>1
  <2> QED
    BY <1>1, <2>1 DEF IInv, TypeOK
<1>7. InOrder'
  BY <1>1, <1>2, <1>3, <1>4 DEF IInv, InOrder, HandledInOrder, Decoding
<1>8. WasSent' /\ HandedWhole'
  BY <1>1, <1>5 DEF IInv, WasSent, HandedWhole, Handling
<1>9. HeldSet'
  <2>1. hasID' => cell # NoID
    BY <1>1, Zenon
  <2>2. decoded # 0
    BY <1>2, <1>4
  <2> QED
    BY <1>1, <2>1, <2>2 DEF IInv, HandedWhole, HeldSet, Handling, IsRequest
<1>10. ASSUME window = 1 PROVE Patience'
  <2>1. UnderWay = u + 1 + 0 + d /\ UnderWay' = u + 0 + 1 + d
    BY <1>1, <1>2, Counts DEF Counting, Decoding, Handling
  <2>2. UnderWay' <= 1
    BY <1>10, <2>1 DEF IInv, Patience
  <2>3. HeldWhole'
    BY <1>1 DEF IInv, HandedWhole, HeldWhole, IsRequest
  <2>4. PendingIsOwed'
    BY <1>1, <1>10 DEF IInv, Patience, PendingIsOwed, Owed, Decoding, Handling
  <2> QED
    BY <1>1, <1>10, <2>2, <2>3, <2>4 DEF IInv, Patience, IsRequest, AnswersMatch, OwnParams
<1> QED
  BY <1>1, <1>6, <1>7, <1>8, <1>10, <1>9 DEF IInv, Patience

(* The handler runs; without an id it does not answer. *)
LEMMA RunKeeps == ASSUME IInv, Run PROVE IInv'
<1>1. /\ main = "run" /\ main' = IF hasID THEN "reply" ELSE "select"
      /\ UNCHANGED <<window, sent, pending, settled, open, up, down, reader, decoded,
                     cell, buffer, held, hasID, shared>>
  BY DEF Run, browserVars, readerVars
<1>2. PICK p \in ParamsRead : ran' = Append(ran, <<held, p>>)
  BY DEF Run
<1>3. PICK r \in Nat, n \in Nat, u \in Nat, d \in Nat :
        /\ r = Len(ran) /\ n = Len(sent) /\ u = Len(up) /\ d = Len(down)
        /\ DOMAIN ran = 1..r /\ DOMAIN sent = 1..n
  BY Lengths DEF IInv
<1>4. PICK h \in 1..n : h = held /\ h = r + 1
  <2>1. held \in 1..n
    BY <1>1, <1>3 DEF IInv, WasSent, Handling
  <2>2. held = r + 1
    BY <1>1, <1>3, Counts DEF IInv, InOrder, Counting
  <2> QED
    BY <2>1, <2>2
<1>5. h \in Messages /\ p \in Messages \cup {Garbled}
  <2>1. h \in Messages
    BY <1>3, <1>4, WindowAssumption DEF IInv, TypeOK, Messages
  <2>2. IsRequest(decoded) /\ Decoding => decoded \in Messages
    <3>1. Decoding => decoded = HaveRead /\ HaveRead + u <= n /\ HaveRead = r + 2
      BY <1>1, <1>3, Counts DEF IInv, InOrder, Counting
    <3> QED
      BY <1>3, <3>1, WindowAssumption DEF IInv, TypeOK, Messages
  <2>3. IsRequest(held) => buffer \in Messages
    BY <1>1 DEF IInv, TypeOK, HeldSet, Handling
  <2>4. /\ p \in {held, buffer, decoded, Garbled}
        /\ ~ IsRequest(held) => p = held
        /\ p = held \/ p = buffer \/ p = Garbled \/ (p = decoded /\ Racing)
    BY DEF ParamsRead
  <2> QED
    BY <1>4, <2>1, <2>2, <2>3, <2>4 DEF Racing, Decoding
<1>6. /\ ran' \in Seq(Messages \X (Messages \cup {Garbled}))
      /\ Len(ran') = r + 1 /\ DOMAIN ran' = 1..(r + 1)
      /\ ran'[r + 1] = <<h, p>>
      /\ \A i \in 1..r : ran'[i] = ran[i]
  BY <1>2, <1>3, <1>4, <1>5, AppendProperties, LenProperties DEF IInv, TypeOK
<1>7. TypeOK'
  BY <1>1, <1>6 DEF IInv, TypeOK
<1>8. InOrder'
  <2>1. HandledInOrder'
    BY <1>3, <1>4, <1>6 DEF IInv, InOrder, HandledInOrder
  <2>2. HaveRead' = HaveRead
    BY <1>1, <1>3, <1>6, Counts DEF Counting, Decoding
  <2> QED
    BY <1>1, <2>1, <2>2 DEF IInv, InOrder, Decoding
<1>9. WasSent' /\ HandedWhole' /\ HeldSet'
  BY <1>1 DEF IInv, WasSent, HandedWhole, HeldSet, IsRequest, Handling
<1>10. ASSUME window = 1 PROVE Patience'
  <2>1. ~ Decoding /\ up = <<>> /\ down = <<>>
    BY <1>1, <1>10, Alone DEF Handling
  <2>2. UnderWay' <= 1
    BY <1>1, <1>3, <2>1, EmptySeq, Counts DEF Counting, Decoding, Handling
  <2>3. HeldWhole'
    BY <1>1, <1>10 DEF IInv, Patience, HeldWhole, Handling, IsRequest
  <2>4. PendingIsOwed'
    <3>1. CASE hasID
      BY <1>1, <1>10, <3>1 DEF IInv, Patience, PendingIsOwed, Owed, Decoding, Handling
    <3>2. CASE ~ hasID
      <4>1. ~ IsRequest(held)
        BY <1>1, <1>10, <3>2 DEF IInv, Patience, HeldWhole, Handling
      <4>2. open => \A id \in pending : sent[held] = id
        BY <1>10, <2>1 DEF IInv, Patience, PendingIsOwed, Owed
      <4>3. open => pending = {}
        BY <4>1, <4>2 DEF IsRequest, IInv, TypeOK, IDs, NoID
      <4> QED
        BY <1>1, <4>3 DEF PendingIsOwed
    <3> QED
      BY <3>1, <3>2
  <2>5. OwnParams'
    <3>1. ~ Racing
      BY <2>1 DEF Racing, Decoding
    <3>2. IsRequest(held) => buffer = held
      BY <1>1, <1>10 DEF IInv, Patience, HeldWhole, Handling
    <3>3. p = h
      BY <1>4, <3>1, <3>2 DEF ParamsRead
    <3> QED
      BY <1>3, <1>6, <1>10, <3>3 DEF IInv, Patience, OwnParams
  <2> QED
    BY <1>1, <1>10, <2>2, <2>3, <2>4, <2>5 DEF IInv, Patience, AnswersMatch, IsRequest
<1> QED
  BY <1>1, <1>7, <1>8, <1>9, <1>10 DEF IInv, Patience

(* The answer takes whatever number its ID points to by now. *)
LEMMA ReplyKeeps == ASSUME IInv, Reply PROVE IInv'
<1>1. /\ main = "reply" /\ main' \in {"select", "ended"}
      /\ UNCHANGED <<window, sent, pending, settled, open, up, reader, decoded,
                     cell, buffer, held, hasID, shared, ran>>
  BY DEF Reply, browserVars, readerVars
<1>2. PICK r \in Nat, n \in Nat, u \in Nat, d \in Nat :
        /\ r = Len(ran) /\ n = Len(sent) /\ u = Len(up) /\ d = Len(down)
        /\ DOMAIN sent = 1..n /\ DOMAIN down = 1..d
  BY Lengths DEF IInv
<1>3. PICK h \in 1..n : h = held
  BY <1>1, <1>2 DEF IInv, WasSent, Handling
<1>4. InOrder'
  <2>1. HaveRead' = HaveRead
    BY <1>1, <1>2, Counts DEF Counting, Decoding
  <2> QED
    BY <1>1, <2>1 DEF IInv, InOrder, HandledInOrder, Decoding
<1>5. HandedWhole' /\ HeldSet'
  BY <1>1 DEF IInv, HandedWhole, HeldSet, Handling, IsRequest
<1>6. ~ Handling'
  BY <1>1 DEF Handling
<1>7. CASE ~ open /\ UNCHANGED down
  <2>1. TypeOK'
    BY <1>1, <1>7 DEF IInv, TypeOK
  <2>2. WasSent'
    BY <1>1, <1>6, <1>7 DEF IInv, WasSent
  <2>3. ASSUME window = 1 PROVE Patience'
    <3>1. UnderWay' <= 1
      <4>1. ~ Decoding /\ up = <<>> /\ down = <<>>
        BY <1>1, <2>3, Alone DEF Handling
      <4> QED
        BY <1>1, <1>6, <1>7, <4>1, EmptySeq, Counts DEF Counting, Decoding
    <3> QED
      BY <1>1, <1>6, <1>7, <2>3, <3>1 DEF IInv, Patience, HeldWhole, PendingIsOwed,
         AnswersMatch, OwnParams, IsRequest
  <2> QED
    BY <1>1, <1>4, <1>5, <2>1, <2>2, <2>3 DEF IInv, Patience
<1>8. ASSUME NEW id \in IDRead, down' = Append(down, <<id, held>>)
      PROVE  IInv'
  <2>1. id \in IDs \cup {Garbled}
    <3>1. cell \in IDs
      BY <1>1 DEF IInv, TypeOK, HeldSet, Handling
    <3>2. Racing => sent[decoded] \in IDs
      <4>1. Decoding => decoded = HaveRead /\ HaveRead + u <= n /\ HaveRead = r + 1
        BY <1>1, <1>2, Counts DEF IInv, InOrder, Counting
      <4>2. Decoding => decoded \in DOMAIN sent
        BY <1>2, <4>1
      <4> QED
        BY <4>2, ElementOfSeq, LenProperties DEF Racing, Decoding, IsRequest, IInv, TypeOK
    <3> QED
      BY <3>1, <3>2 DEF IDRead
  <2>2. h \in Messages
    BY <1>2, WindowAssumption DEF IInv, TypeOK, Messages
  <2>3. /\ down' \in Seq((IDs \cup {Garbled}) \X Messages)
        /\ Len(down') = d + 1 /\ DOMAIN down' = 1..(d + 1)
        /\ down'[d + 1] = <<id, h>>
        /\ \A i \in 1..d : down'[i] = down[i]
    BY <1>2, <1>3, <1>8, <2>1, <2>2, AppendProperties, LenProperties DEF IInv, TypeOK
  <2>4. TypeOK'
    BY <1>1, <2>3 DEF IInv, TypeOK
  <2>5. WasSent'
    <3>1. \A i \in 1..d : down'[i][2] \in DOMAIN sent
      BY <1>2, <2>3 DEF IInv, WasSent
    <3>2. down'[d + 1][2] \in DOMAIN sent
      BY <1>2, <2>3
    <3>3. \A i \in 1..(d + 1) : i \in 1..d \/ i = d + 1
      OBVIOUS
    <3> QED
      BY <1>1, <1>6, <2>3, <3>1, <3>2, <3>3 DEF IInv, WasSent
  <2>6. ASSUME window = 1 PROVE Patience'
    <3>1. ~ Decoding /\ up = <<>> /\ down = <<>> /\ d = 0
      BY <1>1, <1>2, <2>6, Alone DEF Handling
    <3>2. UnderWay' <= 1
      BY <1>1, <1>6, <2>3, <3>1, EmptySeq, Counts DEF Counting, Decoding
    <3>3. PendingIsOwed'
      <4>1. \A m \in DOMAIN sent : Owed(m) => m = h
        BY <1>2, <1>3, <3>1 DEF Owed
      <4>2. Owed(h)'
        BY <2>3 DEF Owed
      <4> QED
        BY <1>1, <2>6, <4>1, <4>2 DEF IInv, Patience, PendingIsOwed
    <3>4. IsRequest(h) => id = sent[h]
      <4>1. id = cell
        BY <3>1 DEF IDRead, Racing, Decoding
      <4> QED
        BY <1>1, <1>3, <2>6, <4>1 DEF IInv, Patience, HeldWhole, Handling
    <3>5. AnswersMatch'
      <4>1. \A i \in DOMAIN down' : i = d + 1
        BY <2>3, <3>1
      <4> QED
        BY <1>1, <2>3, <2>6, <3>4, <4>1 DEF IInv, Patience, AnswersMatch, IsRequest
    <3> QED
      BY <1>1, <1>6, <2>6, <3>2, <3>3, <3>5 DEF IInv, Patience, HeldWhole, OwnParams
  <2> QED
    BY <1>1, <1>4, <1>5, <2>4, <2>5, <2>6 DEF IInv, Patience
<1> QED
  BY <1>7, <1>8 DEF Reply

-----------------------------------------------------------------------------
LEMMA Starts == Init => IInv
<1> SUFFICES ASSUME Init PROVE IInv
  OBVIOUS
<1>1. TypeOK
  <2>1. \A S : <<>> \in Seq(S)
    BY EmptySeq
  <2>2. Len(sent) <= MaxMessages
    BY WindowAssumption DEF Init
  <2>3. open \in BOOLEAN /\ hasID \in BOOLEAN /\ shared \in BOOLEAN
    BY DEF Init
  <2>4. ran = <<>> /\ down = <<>> /\ up = <<>> /\ sent = <<>>
    BY DEF Init
  <2>5. /\ pending \subseteq IDs /\ settled \subseteq IDs \X Messages
        /\ cell \in IDs \cup {NoID} /\ decoded \in {0} \cup Messages
        /\ buffer \in {0} \cup Messages /\ held \in {0} \cup Messages
        /\ window \in Windows /\ reader = "receive" /\ main = "select"
    BY DEF Init
  <2> QED
    BY <2>1, <2>2, <2>3, <2>4, <2>5 DEF TypeOK
<1>2. HaveRead = 0
  <2>1. Len(ran) = 0
    BY DEF Init
  <2> QED
    BY <2>1, Counts DEF Init, Counting, Decoding
<1>3. InOrder
  BY <1>2 DEF Init, InOrder, HandledInOrder, Decoding
<1>4. WasSent /\ HandedWhole /\ HeldSet
  BY DEF Init, WasSent, HandedWhole, HeldSet, Handling
<1>5. UnderWay <= 1
  BY Counts DEF Init, Counting, Decoding, Handling
<1>6. Patience
  BY <1>5 DEF Init, Patience, HeldWhole, Handling, PendingIsOwed, AnswersMatch, OwnParams
<1> QED
  BY <1>1, <1>3, <1>4, <1>6 DEF IInv

LEMMA Steps == IInv /\ [Next]_vars => IInv'
<1> SUFFICES ASSUME IInv, [Next]_vars PROVE IInv'
  OBVIOUS
<1>1. CASE SendRequest \/ SendNotification \/ OnResponse \/ Close
  BY <1>1, SendRequestKeeps, SendNotificationKeeps, OnResponseKeeps, CloseKeeps
<1>2. CASE Reader
  BY <1>2, ReceiveKeeps, DecodeKeeps, ReadFailsKeeps DEF Reader
<1>3. CASE Main
  BY <1>3, TakeRequestKeeps, RunKeeps, ReplyKeeps, TakeErrorKeeps DEF Main
<1>4. CASE UNCHANGED vars
  <2>1. UNCHANGED <<window, sent, pending, settled, open, up, down, reader, decoded, cell,
                    buffer, main, held, hasID, shared, ran>>
    BY <1>4 DEF vars, browserVars, readerVars, mainVars
  <2> QED
    BY <2>1 DEF IInv, TypeOK, InOrder, HandledInOrder, HaveRead, Taken, Decoding, WasSent,
       HandedWhole, HeldSet, Patience, HeldWhole, Handling, IsRequest, PendingIsOwed, Owed,
       UnderWay, AnswersMatch, OwnParams
<1> QED
  BY <1>1, <1>2, <1>3, <1>4 DEF Next

LEMMA Invariance == SafeSpec => []IInv
BY Starts, Steps, PTL DEF SafeSpec

(* However far the browser is ahead, its messages are handled one after    *)
(* the other, each once, in the order in which it sent them (ws.go         *)
(* Dispatch).                                                              *)
THEOREM RequestsInOrder == Spec => []HandledInOrder
<1>1. IInv => HandledInOrder
  BY DEF IInv, InOrder
<1> QED
  BY <1>1, Invariance, PTL DEF Spec

(* A browser that has one message under way gets its own answers and has   *)
(* its requests run on their own params, although reader and main          *)
(* goroutine share req: each has it to itself in turn (ws.go Dispatch).    *)
THEOREM PatienceIsServed == Spec => []PatientIsServed
<1>1. IInv => PatientIsServed
  BY DEF IInv, Patience, PatientIsServed
<1> QED
  BY <1>1, Invariance, PTL DEF Spec

-----------------------------------------------------------------------------
(* A request carries the number of requests before it; the reader's cell   *)
(* is the id of the last request it has decoded; what is being answered is *)
(* the last message that ran.                                              *)
Numbered == \A n \in DOMAIN sent : IsRequest(n) => sent[n] = LastID(n)

CellIsLast ==
  /\ reader = "decode" => cell = LastID(Taken)
  /\ reader # "decode" => cell = LastID(HaveRead)

Labelled ==
  /\ Numbered
  /\ CellIsLast
  /\ main = "reply" => held = Taken
  /\ LabelIsNear

(* The requests among the first n messages of s. *)
RequestsTo(s, n) == {i \in DOMAIN s : i <= n /\ s[i] # NoID}

(* Their number grows by one from message to message, and not beyond the   *)
(* last.                                                                   *)
LEMMA CountOfRequests ==
  ASSUME NEW s \in Seq(IDs \cup {NoID}), NEW n \in Nat
  PROVE  /\ Cardinality(RequestsTo(s, n)) \in Nat
         /\ n = 0 => Cardinality(RequestsTo(s, n)) = 0
         /\ \A m \in DOMAIN s : m = n + 1 =>
              /\ s[m] # NoID => Cardinality(RequestsTo(s, m)) = Cardinality(RequestsTo(s, n)) + 1
              /\ s[m] = NoID => RequestsTo(s, m) = RequestsTo(s, n)
         /\ n >= Len(s) => RequestsTo(s, n) = {i \in DOMAIN s : s[i] # NoID}
<1>1. PICK l \in Nat : l = Len(s) /\ DOMAIN s = 1..l
  BY LenProperties
<1>2. IsFiniteSet(1..l)
  BY FS_Interval
<1>3. RequestsTo(s, n) \subseteq 1..l
  BY <1>1 DEF RequestsTo
<1>4. IsFiniteSet(RequestsTo(s, n)) /\ Cardinality(RequestsTo(s, n)) \in Nat
  BY <1>2, <1>3, FS_Subset, FS_CardinalityType
<1>5. n = 0 => Cardinality(RequestsTo(s, n)) = 0
  <2>1. n = 0 => RequestsTo(s, n) = {}
    BY <1>1 DEF RequestsTo
  <2> QED
    BY <2>1, FS_EmptySet
<1>6. ASSUME NEW m \in DOMAIN s, m = n + 1
      PROVE  /\ s[m] # NoID => Cardinality(RequestsTo(s, m)) = Cardinality(RequestsTo(s, n)) + 1
             /\ s[m] = NoID => RequestsTo(s, m) = RequestsTo(s, n)
  <2>1. CASE s[m] # NoID
    <3>1. RequestsTo(s, m) = RequestsTo(s, n) \cup {m} /\ m \notin RequestsTo(s, n)
      BY <1>1, <1>6, <2>1 DEF RequestsTo
    <3> QED
      BY <1>4, <2>1, <3>1, FS_AddElement
  <2>2. CASE s[m] = NoID
    BY <1>1, <1>6, <2>2 DEF RequestsTo
  <2> QED
    BY <2>1, <2>2
<1>7. n >= Len(s) => RequestsTo(s, n) = {i \in DOMAIN s : s[i] # NoID}
  BY <1>1 DEF RequestsTo
<1> QED
  BY <1>4, <1>5, <1>6, <1>7

(* LastID is that number, counted from 0. *)
LEMMA LastIDCounts ==
  ASSUME TypeOK, NEW n \in Nat
  PROVE  /\ LastID(n) \in Int
         /\ n = 0 => LastID(n) = NoID
         /\ \A m \in DOMAIN sent : m = n + 1 =>
              LastID(m) = IF IsRequest(m) THEN LastID(n) + 1 ELSE LastID(n)
         /\ \A m \in Nat : n >= Len(sent) /\ m > n => LastID(m) = LastID(n)
         /\ n >= Len(sent) => NextID = LastID(n) + 1
<1>1. \A k \in Nat : LastID(k) = Cardinality(RequestsTo(sent, k)) - 1
  BY DEF LastID, RequestsTo, IsRequest
<1>2. sent \in Seq(IDs \cup {NoID}) /\ Len(sent) \in Nat
  BY Lengths DEF TypeOK
<1>3. \A k \in Nat : Cardinality(RequestsTo(sent, k)) \in Nat
  BY <1>2, CountOfRequests
<1>4. n = 0 => LastID(n) = NoID
  BY <1>1, <1>2, CountOfRequests DEF NoID
<1>5. ASSUME NEW m \in DOMAIN sent, m = n + 1
      PROVE  LastID(m) = IF IsRequest(m) THEN LastID(n) + 1 ELSE LastID(n)
  <2>1. /\ sent[m] # NoID => Cardinality(RequestsTo(sent, m)) = Cardinality(RequestsTo(sent, n)) + 1
        /\ sent[m] = NoID => RequestsTo(sent, m) = RequestsTo(sent, n)
    BY <1>2, <1>5, CountOfRequests
  <2>2. m \in Nat
    BY <1>5
  <2> QED
    BY <1>1, <1>3, <2>1, <2>2 DEF IsRequest
<1>6. ASSUME NEW m \in Nat, n >= Len(sent), m > n
      PROVE  LastID(m) = LastID(n)
  <2>1. m >= Len(sent)
    BY <1>2, <1>6
  <2>2. RequestsTo(sent, m) = RequestsTo(sent, n)
    BY <1>2, <1>6, <2>1, CountOfRequests
  <2> QED
    BY <1>1, <2>2
<1>7. ASSUME n >= Len(sent) PROVE NextID = LastID(n) + 1
  <2>1. RequestsTo(sent, n) = {i \in DOMAIN sent : sent[i] # NoID}
    BY <1>2, <1>7, CountOfRequests
  <2>2. NextID = Cardinality({i \in DOMAIN sent : sent[i] # NoID})
    BY DEF NextID, IsRequest
  <2>3. LastID(n) = Cardinality(RequestsTo(sent, n)) - 1 /\ Cardinality(RequestsTo(sent, n)) \in Nat
    BY <1>1, <1>3
  <2> QED
    BY <2>1, <2>2, <2>3
<1> QED
  BY <1>1, <1>3, <1>4, <1>5, <1>6, <1>7

(* After a message was posted, its request is the last one. *)
LEMMA LastIDGrows ==
  ASSUME TypeOK, NEW id \in IDs \cup {NoID}, Post(id)
  PROVE  /\ \A n \in 0..Len(sent) : LastID(n)' = LastID(n)
         /\ \A n \in Nat : n = Len(sent) + 1 /\ id # NoID => LastID(n)' = NextID
<1>1. PICK l \in Nat : l = Len(sent) /\ DOMAIN sent = 1..l
  BY Lengths
<1>2. PICK s \in Seq(IDs \cup {NoID}) :
        /\ s = sent' /\ DOMAIN s = 1..(l + 1) /\ s[l + 1] = id
        /\ \A i \in 1..l : s[i] = sent[i]
  <2>1. /\ sent' \in Seq(IDs \cup {NoID}) /\ DOMAIN sent' = 1..(l + 1) /\ sent'[l + 1] = id
        /\ \A i \in 1..l : sent'[i] = sent[i]
    BY <1>1, AppendProperties, LenProperties DEF Post, TypeOK
  <2> QED
    BY <2>1
<1>3. \A k \in Nat : LastID(k)' = Cardinality(RequestsTo(s, k)) - 1
  BY <1>2 DEF LastID, RequestsTo, IsRequest
<1>4. \A k \in Nat : LastID(k) = Cardinality(RequestsTo(sent, k)) - 1
  BY DEF LastID, RequestsTo, IsRequest
<1>5. \A n \in 0..l : RequestsTo(s, n) = RequestsTo(sent, n)
  BY <1>1, <1>2 DEF RequestsTo
<1>6. ASSUME NEW n \in Nat, n = l + 1, id # NoID
      PROVE  LastID(n)' = NextID
  <2>1. n \in DOMAIN s /\ s[n] # NoID
    BY <1>2, <1>6
  <2>2. Cardinality(RequestsTo(s, n)) = Cardinality(RequestsTo(s, l)) + 1
    BY <1>6, <2>1, CountOfRequests
  <2>3. NextID = LastID(l) + 1
    BY <1>1, LastIDCounts
  <2>4. RequestsTo(s, l) = RequestsTo(sent, l)
    BY <1>5
  <2>5. Cardinality(RequestsTo(s, l)) \in Nat
    BY CountOfRequests
  <2> QED
    BY <1>3, <1>4, <2>2, <2>3, <2>4, <2>5
<1>7. \A n \in 0..l : LastID(n)' = LastID(n)
  BY <1>3, <1>4, <1>5
<1> QED
  BY <1>1, <1>6, <1>7

(* A step that leaves sent alone leaves every LastID alone. *)
LEMMA CountStays == ASSUME UNCHANGED sent PROVE \A n : LastID(n)' = LastID(n)
BY DEF LastID, IsRequest

(* How far the two goroutines are. *)
LEMMA Places ==
  ASSUME IInv
  PROVE  /\ Taken \in Nat /\ HaveRead \in Nat /\ HaveRead <= Len(sent)
         /\ Decoding => HaveRead = Taken + 1 /\ decoded = HaveRead /\ decoded \in DOMAIN sent
         /\ ~ Decoding => HaveRead = Taken
         /\ main = "run" => Taken = Len(ran) + 1
         /\ main # "run" => Taken = Len(ran)
<1>1. PICK r \in Nat, n \in Nat, u \in Nat :
        r = Len(ran) /\ n = Len(sent) /\ u = Len(up) /\ DOMAIN sent = 1..n
  BY Lengths DEF IInv
<1>2. /\ main = "run" => Taken = r + 1
      /\ main # "run" => Taken = r
      /\ Decoding => HaveRead = Taken + 1
      /\ ~ Decoding => HaveRead = Taken
  BY <1>1, Counts DEF Counting
<1>3. Taken \in Nat /\ HaveRead \in Nat
  BY <1>2
<1>4. HaveRead <= n
  BY <1>1, <1>3 DEF IInv, InOrder
<1>5. Decoding => decoded = HaveRead
  BY DEF IInv, InOrder
<1> QED
  BY <1>1, <1>2, <1>3, <1>4, <1>5

(* What is posted has its number from the requests before it, and is not   *)
(* decoded yet.                                                            *)
LEMMA PostLabels ==
  ASSUME IInv, IInv', Labelled, NEW id \in IDs \cup {NoID}, Post(id), id \in {NextID, NoID}
  PROVE  Labelled'
<1>1. PICK n \in Nat : n = Len(sent) /\ DOMAIN sent = 1..n
  BY Lengths DEF IInv
<1>2. /\ Len(sent') = n + 1 /\ DOMAIN sent' = 1..(n + 1)
      /\ sent'[n + 1] = id
      /\ \A i \in 1..n : sent'[i] = sent[i]
  BY <1>1, AppendProperties, LenProperties DEF Post, IInv, TypeOK
<1>3. /\ \A i \in 0..n : LastID(i)' = LastID(i)
      /\ \A i \in Nat : i = n + 1 /\ id # NoID => LastID(i)' = NextID
  BY <1>1, LastIDGrows DEF IInv
<1>4. UNCHANGED <<down, reader, decoded, cell, main, held, ran>>
  BY DEF Post, readerVars, mainVars
<1>5. Taken' = Taken /\ HaveRead' = HaveRead /\ Taken \in 0..n /\ HaveRead \in 0..n
  <2>1. Taken' = Taken /\ HaveRead' = HaveRead
    BY <1>4 DEF Taken, HaveRead, Decoding
  <2>2. Taken <= HaveRead
    BY Places
  <2> QED
    BY <1>1, <2>1, <2>2, Places
<1>6. Numbered'
  <2>1. \A i \in 1..n : IsRequest(i)' => sent'[i] = LastID(i)'
    BY <1>1, <1>2, <1>3 DEF Labelled, Numbered, IsRequest
  <2>2. IsRequest(n + 1)' => sent'[n + 1] = LastID(n + 1)'
    <3>1. IsRequest(n + 1)' => id = NextID /\ id # NoID
      BY <1>2 DEF IsRequest
    <3>2. PICK m \in Nat : m = n + 1
      OBVIOUS
    <3>3. id # NoID => LastID(m)' = NextID
      BY <1>3, <3>2
    <3> QED
      BY <1>2, <3>1, <3>2, <3>3
  <2> QED
    BY <1>2, <2>1, <2>2 DEF Numbered
<1>7. CellIsLast'
  BY <1>3, <1>4, <1>5 DEF Labelled, CellIsLast
<1>8. LabelIsNear'
  <2> SUFFICES ASSUME NEW i \in DOMAIN down'
               PROVE  (down[i][1] \in {LastID(down[i][2]), LastID(down[i][2] + 1), Garbled})'
    BY DEF LabelIsNear
  <2>1. PICK m \in 1..n, k \in Nat : m = down[i][2] /\ k = m + 1
    BY <1>1, <1>4 DEF IInv, WasSent
  <2>2. down[i][1] \in {LastID(m), LastID(k), Garbled}
    BY <1>4, <2>1 DEF Labelled, LabelIsNear
  <2>3. m = n => LastID(k) = LastID(m)
    BY <1>1, <2>1, LastIDCounts DEF IInv
  <2>4. LastID(m)' = LastID(m) /\ (m # n => LastID(k)' = LastID(k))
    BY <1>3, <2>1
  <2>5. down[i][1] \in {LastID(m)', LastID(k)', Garbled}
    BY <2>2, <2>3, <2>4
  <2> QED
    BY <1>4, <2>1, <2>5
<1> QED
  BY <1>4, <1>5, <1>6, <1>7, <1>8 DEF Labelled

(* What neither sends nor moves the reader or the main goroutine, and adds *)
(* no answer.                                                              *)
LEMMA SilentLabels ==
  ASSUME Labelled, UNCHANGED <<sent, reader, cell, main, held, ran>>,
         \A i \in DOMAIN down' : \E j \in DOMAIN down : down'[i] = down[j]
  PROVE  Labelled'
<1>1. \A n : LastID(n)' = LastID(n) /\ IsRequest(n)' = IsRequest(n)
  BY CountStays DEF IsRequest
<1>2. Taken' = Taken /\ HaveRead' = HaveRead
  BY DEF Taken, HaveRead, Decoding
<1>3. Numbered' /\ CellIsLast'
  BY <1>1, <1>2 DEF Labelled, Numbered, CellIsLast
<1>4. LabelIsNear'
  <2> SUFFICES ASSUME NEW i \in DOMAIN down'
               PROVE  (down[i][1] \in {LastID(down[i][2]), LastID(down[i][2] + 1), Garbled})'
    BY DEF LabelIsNear
  <2>1. PICK j \in DOMAIN down : down'[i] = down[j]
    OBVIOUS
  <2>2. PICK a : a = down'[i] /\ a = down[j]
    BY <2>1
  <2>3. a[1] \in {LastID(a[2]), LastID(a[2] + 1), Garbled}
    BY <2>2 DEF Labelled, LabelIsNear
  <2>4. a[1] \in {LastID(a[2])', LastID(a[2] + 1)', Garbled}
    BY <1>1, <2>3
  <2> QED
    BY <2>2, <2>4
<1> QED
  BY <1>2, <1>3, <1>4 DEF Labelled

LEMMA OnResponseLabels == ASSUME IInv, Labelled, OnResponse PROVE Labelled'
<1>1. down # <<>> /\ down' = Tail(down) /\ UNCHANGED <<sent, reader, cell, main, held, ran>>
  BY DEF OnResponse, readerVars, mainVars
<1>2. PICK d \in Nat : d = Len(down) /\ DOMAIN down = 1..d
  BY Lengths DEF IInv
<1>3. DOMAIN down' = 1..(d - 1) /\ \A i \in 1..(d - 1) : down'[i] = down[i + 1]
  BY <1>1, <1>2, HeadTailProperties, LenProperties DEF IInv, TypeOK
<1>4. \A i \in 1..(d - 1) : i + 1 \in 1..d
  OBVIOUS
<1>5. \A i \in DOMAIN down' : \E j \in DOMAIN down : down'[i] = down[j]
  BY <1>2, <1>3, <1>4
<1> QED
  BY <1>1, <1>5, SilentLabels

LEMMA CloseLabels == ASSUME Labelled, Close PROVE Labelled'
BY SilentLabels DEF Close, readerVars, mainVars

(* The reader moves: main goroutine, messages and answers stay as they are. *)
LEMMA ReaderLabels == ASSUME IInv, IInv', Labelled, Reader PROVE Labelled'
<1>1. UNCHANGED <<sent, down, main, held, ran>>
  BY DEF Reader, Receive, Decode, ReadFails, browserVars, mainVars
<1>2. \A n : LastID(n)' = LastID(n) /\ IsRequest(n)' = IsRequest(n)
  BY <1>1, CountStays DEF IsRequest
<1>3. PICK t \in Nat : t = Taken /\ t = Taken'
  BY <1>1, Places DEF Taken
<1>4. CellIsLast'
  <2>1. CASE Receive
    <3>1. reader = "receive" /\ reader' = "decode" /\ cell' = cell
      BY <2>1 DEF Receive
    <3>2. HaveRead = t
      BY <1>3, <3>1, Places DEF Decoding
    <3> QED
      BY <1>2, <1>3, <3>1, <3>2 DEF Labelled, CellIsLast
  <2>2. CASE Decode
    <3>1. reader = "decode" /\ reader' = "handoff" /\ cell = LastID(t)
      BY <1>3, <2>2 DEF Decode, Labelled, CellIsLast
    <3>2. PICK h \in DOMAIN sent : h = t + 1 /\ h = HaveRead /\ h = decoded
      BY <1>3, <3>1, Places DEF Decoding
    <3>3. h = HaveRead'
      BY <1>1, <1>3, <3>1, <3>2 DEF HaveRead, Decoding, Busy
    <3>4. cell' = IF IsRequest(h) THEN sent[h] ELSE cell
      BY <2>2, <3>2 DEF Decode
    <3>5. cell' = LastID(h)
      <4>1. IsRequest(h) => sent[h] = LastID(h)
        BY DEF Labelled, Numbered
      <4>2. ~ IsRequest(h) => LastID(h) = LastID(t)
        BY <3>2, LastIDCounts DEF IInv
      <4> QED
        BY <3>1, <3>4, <4>1, <4>2
    <3> QED
      BY <1>2, <3>1, <3>3, <3>5 DEF CellIsLast
  <2>3. CASE ReadFails
    <3>1. reader = "receive" /\ reader' = "report" /\ cell' = cell
      BY <2>3 DEF ReadFails
    <3>2. HaveRead' = HaveRead
      BY <1>3, <3>1 DEF HaveRead, Decoding
    <3> QED
      BY <1>2, <3>1, <3>2 DEF Labelled, CellIsLast
  <2> QED
    BY <2>1, <2>2, <2>3 DEF Reader
<1>5. Numbered'
  BY <1>1, <1>2 DEF Labelled, Numbered
<1>6. LabelIsNear'
  BY <1>1, <1>2 DEF Labelled, LabelIsNear
<1> QED
  BY <1>1, <1>3, <1>4, <1>5, <1>6 DEF Labelled

(* The main goroutine moves: messages and cell stay as they are. *)
LEMMA MainCell == ASSUME IInv, IInv', Labelled, Main PROVE Numbered' /\ CellIsLast'
<1>1. UNCHANGED <<sent, cell>>
  BY DEF Main, TakeRequest, Run, Reply, TakeError, browserVars, readerVars
<1>2. \A n : LastID(n)' = LastID(n) /\ IsRequest(n)' = IsRequest(n)
  BY <1>1, CountStays DEF IsRequest
<1>3. Numbered'
  BY <1>1, <1>2 DEF Labelled, Numbered
<1>4. PICK r \in Nat : r = Len(ran)
  BY Lengths DEF IInv
<1>5. CASE TakeRequest
  <2>1. main = "select" /\ reader = "handoff" /\ main' = "run" /\ reader' = "receive" /\ ran' = ran
    BY <1>5 DEF TakeRequest
  <2>2. HaveRead = r + 1 /\ HaveRead' = r + 1
    BY <1>4, <2>1, Counts DEF Counting, Decoding
  <2> QED
    BY <1>1, <1>2, <1>3, <2>1, <2>2 DEF Labelled, CellIsLast
<1>6. CASE Run
  <2>1. /\ main = "run" /\ main' \in {"reply", "select"} /\ reader' = reader
        /\ \E e : ran' = Append(ran, e)
    BY <1>6 DEF Run, readerVars
  <2>2. Len(ran') = r + 1
    BY <1>4, <2>1, AppendProperties DEF IInv, TypeOK
  <2>3. Taken = r + 1 /\ Taken' = r + 1
    BY <1>4, <2>1, <2>2, Counts DEF Counting
  <2>4. HaveRead' = HaveRead
    BY <2>1, <2>3 DEF HaveRead, Decoding
  <2> QED
    BY <1>1, <1>2, <1>3, <2>1, <2>3, <2>4 DEF Labelled, CellIsLast
<1>7. CASE Reply
  <2>1. main = "reply" /\ main' \in {"select", "ended"} /\ reader' = reader /\ ran' = ran
    BY <1>7 DEF Reply, readerVars
  <2>2. Taken' = Taken /\ HaveRead' = HaveRead
    BY <2>1 DEF HaveRead, Taken, Decoding, Busy
  <2> QED
    BY <1>1, <1>2, <1>3, <2>1, <2>2 DEF Labelled, CellIsLast
<1>8. CASE TakeError
  <2>1. reader = "report" /\ reader' = "gone" /\ main = "select" /\ main' = "ended" /\ ran' = ran
    BY <1>8 DEF TakeError
  <2>2. Taken' = Taken /\ HaveRead' = HaveRead
    BY <2>1 DEF HaveRead, Taken, Decoding, Busy
  <2> QED
    BY <1>1, <1>2, <1>3, <2>1, <2>2 DEF Labelled, CellIsLast
<1> QED
  BY <1>5, <1>6, <1>7, <1>8 DEF Main

(* What an answer may be labelled with. *)
LEMMA IDReadIsNear ==
  ASSUME IInv, Labelled, main = "reply", NEW id \in IDRead
  PROVE  id \in {LastID(held), LastID(held + 1), Garbled}
<1>1. PICK t \in Nat : t = Taken /\ t = held
  BY Places DEF Labelled
<1>2. CASE reader = "decode"
  <2>1. PICK h \in DOMAIN sent : h = t + 1 /\ h = decoded
    BY <1>1, <1>2, Places DEF Decoding
  <2>2. cell = LastID(t)
    BY <1>1, <1>2 DEF Labelled, CellIsLast
  <2>3. IsRequest(h) => sent[h] = LastID(h)
    BY DEF Labelled, Numbered
  <2> QED
    BY <1>1, <2>1, <2>2, <2>3 DEF IDRead, Racing
<1>3. CASE reader # "decode"
  <2>1. id = cell /\ cell = LastID(HaveRead)
    BY <1>3 DEF IDRead, Racing, Labelled, CellIsLast
  <2>2. HaveRead = t \/ HaveRead = t + 1
    BY <1>1, Places
  <2> QED
    BY <1>1, <2>1, <2>2
<1> QED
  BY <1>2, <1>3

LEMMA MainLabels == ASSUME IInv, IInv', Labelled, Main PROVE Labelled'
<1>1. Numbered' /\ CellIsLast'
  BY MainCell
<1>2. UNCHANGED sent
  BY DEF Main, TakeRequest, Run, Reply, TakeError, browserVars
<1>3. \A n : LastID(n)' = LastID(n)
  BY <1>2, CountStays
<1>4. CASE TakeRequest \/ TakeError
  BY <1>1, <1>3, <1>4 DEF TakeRequest, TakeError, browserVars, Labelled, LabelIsNear
<1>5. CASE Run
  <2>1. main = "run" /\ held' = held /\ down' = down /\ \E e : ran' = Append(ran, e)
    BY <1>5 DEF Run
  <2>2. held' = Taken'
    <3>1. PICK r \in Nat : r = Len(ran)
      BY Lengths DEF IInv
    <3>2. Len(ran') = r + 1
      BY <2>1, <3>1, AppendProperties DEF IInv, TypeOK
    <3>3. main' # "run"
      BY <1>5 DEF Run
    <3> QED
      BY <2>1, <3>1, <3>2, <3>3, Counts DEF Counting, IInv, InOrder
  <2> QED
    BY <1>1, <1>3, <2>1, <2>2 DEF Labelled, LabelIsNear
<1>6. CASE Reply
  <2>1. main = "reply" /\ main' # "reply"
    BY <1>6 DEF Reply
  <2>2. LabelIsNear'
    <3>1. CASE UNCHANGED down
      BY <1>3, <3>1 DEF Labelled, LabelIsNear
    <3>2. ASSUME NEW id \in IDRead, down' = Append(down, <<id, held>>)
          PROVE  LabelIsNear'
      <4>1. PICK d \in Nat : d = Len(down) /\ DOMAIN down = 1..d
        BY Lengths DEF IInv
      <4>2. PICK e : e = <<id, held>> /\ down' = Append(down, e)
        BY <3>2
      <4>3. \A i \in DOMAIN down' : down'[i] = e \/ \E j \in DOMAIN down : down'[i] = down[j]
        <5>1. DOMAIN down' = 1..(d + 1) /\ down'[d + 1] = e /\ \A i \in 1..d : down'[i] = down[i]
          <6>1. DOMAIN Append(down, e) = 1..(d + 1)
            BY <4>1
          <6> QED
            BY <4>1, <4>2, <6>1
        <5> QED
          BY <4>1, <5>1
      <4>4. e[1] \in {LastID(e[2]), LastID(e[2] + 1), Garbled}
        BY <2>1, <3>2, <4>2, IDReadIsNear
      <4> SUFFICES ASSUME NEW i \in DOMAIN down'
                   PROVE  (down[i][1] \in {LastID(down[i][2]), LastID(down[i][2] + 1), Garbled})'
        BY DEF LabelIsNear
      <4>5. PICK a : a = down'[i] /\ (a = e \/ \E j \in DOMAIN down : a = down[j])
        BY <4>3
      <4>6. a[1] \in {LastID(a[2]), LastID(a[2] + 1), Garbled}
        BY <4>4, <4>5 DEF Labelled, LabelIsNear
      <4>7. a[1] \in {LastID(a[2])', LastID(a[2] + 1)', Garbled}
        BY <1>3, <4>6
      <4> QED
        BY <4>5, <4>7
    <3> QED
      BY <1>6, <3>1, <3>2 DEF Reply
  <2> QED
    BY <1>1, <2>1, <2>2 DEF Labelled
<1> QED
  BY <1>4, <1>5, <1>6 DEF Main

LEMMA LabelledFirst == Init => Labelled
<1> SUFFICES ASSUME Init PROVE Labelled
  OBVIOUS
<1>1. IInv
  BY Starts
<1>2. HaveRead = 0
  BY <1>1, Places DEF Init, Decoding
<1>3. cell = LastID(HaveRead)
  BY <1>1, <1>2, LastIDCounts DEF Init, IInv
<1> QED
  BY <1>3 DEF Init, Labelled, Numbered, CellIsLast, LabelIsNear

LEMMA LabelledStays == IInv /\ IInv' /\ Labelled /\ [Next]_vars => Labelled'
<1> SUFFICES ASSUME IInv, IInv', Labelled, [Next]_vars PROVE Labelled'
  OBVIOUS
<1>1. CASE SendRequest
  <2>1. Len(sent) < MaxMessages
    BY <1>1 DEF SendRequest, Post
  <2>2. PICK id \in IDs : id = NextID
    BY <2>1, IDsFit DEF IInv
  <2> QED
    BY <1>1, <2>2, PostLabels DEF SendRequest
<1>2. CASE SendNotification
  BY <1>2, PostLabels DEF SendNotification
<1>3. CASE OnResponse \/ Close
  BY <1>3, OnResponseLabels, CloseLabels
<1>4. CASE Reader \/ Main
  BY <1>4, ReaderLabels, MainLabels
<1>5. CASE UNCHANGED vars
  <2>1. UNCHANGED <<sent, reader, cell, main, held, ran, down>>
    BY <1>5 DEF vars, browserVars, readerVars, mainVars
  <2> QED
    BY <2>1, SilentLabels
<1> QED
  BY <1>1, <1>2, <1>3, <1>4, <1>5 DEF Next

(* The label of an answer is the id of the last request up to the message  *)
(* it answers or up to the next one, or what a read during a write gives:  *)
(* however many messages are under way, the reader is one message ahead    *)
(* at most when the main goroutine reads *req.ID (ws.go Dispatch).         *)
THEOREM LabelsAreNear == Spec => []LabelIsNear
<1>1. Labelled => LabelIsNear
  BY DEF Labelled
<1> QED
  BY <1>1, LabelledFirst, LabelledStays, Invariance, PTL DEF Spec, SafeSpec
=============================================================================
