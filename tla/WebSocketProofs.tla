---------------------------- MODULE WebSocketProofs ----------------------------
(***************************************************************************)
(* The frames to the browser proved whole and in order, for every length   *)
(* of the answers and notifications, every kind of frame the browser sends *)
(* and every order of the steps of the two goroutines.  The argument: the  *)
(* mutex leaves one goroutine between its lock and its flush, so the       *)
(* buffer has the header of that one's frame, then the whole frame, and    *)
(* the stream is made of headers, each with its payload behind it.  Every  *)
(* ping and every request is answered in the stream already, or is what    *)
(* its goroutine is about.                                                 *)
(***************************************************************************)
EXTENDS WebSocket, SequenceTheorems, TLAPS

-----------------------------------------------------------------------------
(* The invariant. *)

Written == [op : DOMAIN Op, tag : Nat, len : Lengths]

Items == {Header(f) : f \in Written} \cup {Payload(f) : f \in Written}

Goroutines == {"reader", "main"}

Jobs == {Idle} \cup [step : {"lock", "header", "payload", "flush"}, frame : Written]

Types ==
  /\ inbox \in Seq(BrowserFrames) /\ received \in Seq(BrowserFrames)
  /\ stream \in Seq(Items) /\ broken \in BOOLEAN
  /\ job \in [Goroutines -> Jobs]

(* Who is past the lock holds it. *)
LockFits == \A p \in Goroutines : Busy(p) /\ job[p].step # "lock" => wio = p

Pair(f) == <<Header(f), Payload(f)>>

(* The frame of p has left the buffer in WritePayload. *)
Passed(p) == job[p].step = "flush" /\ buf = <<>>

(* The buffer has what its owner has written so far, or the stream has it  *)
(* already; after an error it is empty.                                    *)
BufferFits ==
  /\ broken \/ ~ (\E p \in Goroutines : Busy(p) /\ job[p].step # "lock") => buf = <<>>
  /\ ~ broken => \A p \in Goroutines : Busy(p) =>
       /\ job[p].step = "header" => buf = <<>>
       /\ job[p].step = "payload" => buf = <<Header(job[p].frame)>>
       /\ job[p].step = "flush" => buf = Pair(job[p].frame) \/ buf = <<>>
       /\ Passed(p) => stream # <<>> /\ stream[Len(stream)] = Payload(job[p].frame)

(* The stream is made of headers, each with its payload behind it. *)
Paired ==
  /\ \A i \in DOMAIN stream :
       IF i % 2 = 1 THEN \E f \in Written : stream[i] = Header(f)
       ELSE \E f \in Written : stream[i] = Payload(f) /\ stream[i - 1] = Header(f)
  /\ ~ broken => Len(stream) % 2 = 0

(* What a goroutine writes answers what was received. *)
JobsFit ==
  /\ Busy("reader") <=> reader \in {"pong", "refuse"}
  /\ reader = "pong" =>
       /\ job["reader"].frame.op = "pong" /\ job["reader"].frame.tag = Len(received)
       /\ Len(received) \in Pings
  /\ reader = "refuse" => job["reader"].frame.op = "close"
  /\ Busy("main") <=> main \in {"send", "sendLast", "closing"}
  /\ Busy("main") => job["main"].frame.op \in {"text", "close"}
  /\ Busy("main") /\ job["main"].frame.op = "text" /\ job["main"].frame.tag # 0 =>
       /\ main = "send" /\ job["main"].frame.tag \in Requests
       /\ reader = "deliver" => job["main"].frame.tag < Len(received)
  /\ reader = "deliver" => Len(received) # 0 /\ received[Len(received)].masked

(* Before the handshake nothing has happened. *)
Begins == status = 0 => received = <<>> /\ reader = "hijacked" /\ main = "hijacked"

Said(op, t) == \E i \in DOMAIN stream : Replies(i, op) /\ stream[i].frame.tag = t

(* The replies of kind op in the stream have smaller tags than t. *)
Newer(op, t) == \A i \in DOMAIN stream : Replies(i, op) => stream[i].frame.tag < t

(* A frame that has not been written is the next of its kind. *)
Fresh ==
  ~ broken =>
    /\ \A p \in Goroutines :
         Busy(p) /\ ~ Passed(p) /\ job[p].frame.op # "close" /\ job[p].frame.tag # 0 =>
           Newer(job[p].frame.op, job[p].frame.tag)
    /\ reader = "deliver" => Newer("text", Len(received))

(* Nothing that was received is passed over. *)
Complete ==
  /\ \A t \in Pings : (reader = "pong" /\ t = Len(received)) \/ Said("pong", t)
  /\ main \in {"select", "send"} =>
       \A t \in Requests :
         \/ reader = "deliver" /\ t = Len(received)
         \/ Busy("main") /\ job["main"].frame.op = "text" /\ job["main"].frame.tag = t
         \/ Said("text", t)
  /\ main \notin {"select", "send", "hijacked"} => reader = "done"

Answered == ~ broken => Complete

IInv ==
  /\ Types /\ LockFits /\ BufferFits /\ Paired /\ JobsFit /\ Begins /\ Fresh
  /\ Answered /\ RepliesInOrder

QuietStep ==
  \/ Handshake \/ BrowserSends \/ BrowserGone \/ Receive \/ ReceiveFails
  \/ TakeRequest \/ Notify \/ TakeError \/ Leave \/ CloseSocket \/ HangUp \/ UNCHANGED vars

FlushReader ==
  /\ Flush("reader")
  /\ reader' = IF reader = "pong" /\ ~ broken' THEN "read" ELSE "failed"
  /\ UNCHANGED <<request, status, inbox, received, gone, closed, main, notices>>

FlushMain ==
  /\ Flush("main")
  /\ main' = IF main = "closing" THEN "hangup" ELSE AfterSend(broken')
  /\ UNCHANGED <<request, status, inbox, received, gone, closed, reader, notices>>

(* The frame of p comes to the stream, the whole of it or its header. *)
Grows(p) ==
  /\ ~ broken /\ Busy(p) /\ ~ Passed(p) /\ wio = p /\ job[p].step # "lock"
  /\ \E n \in 1..2 :
       (n = 1 => broken') /\ stream' = stream \o SubSeq(Pair(job[p].frame), 1, n)

-----------------------------------------------------------------------------
(* Headers. *)

(* A sequence of values that follows the loop of NewFrameReader ends in    *)
(* the number which that loop makes.                                       *)
LEMMA LengthIs ==
  ASSUME NEW h, NEW k \in {2, 8}, NEW g,
         g = [i \in 0..k |-> g[i]],
         g[0] = 0,
         \A i \in 1..k : g[i] = g[i - 1] * 256 + h[i + 2]
  PROVE  ExtendedLength(h, k) = g[k]
<1> DEFINE Step(x, i) == x * 256 + h[i + 2]
           F(v) == [i \in 0..k |-> IF i = 0 THEN 0 ELSE Step(v[i - 1], i)]
           v == CHOOSE w : w = F(w)
<1>1. ExtendedLength(h, k) = v[k]
  BY Zenon DEF ExtendedLength
<1>2. \A i \in 1..k : g[i] = Step(g[i - 1], i)
  OBVIOUS
<1> HIDE DEF Step
<1>3. \A w : F(w)[0] = 0 /\ \A i \in 1..k : F(w)[i] = Step(w[i - 1], i)
  <2> SUFFICES ASSUME NEW w PROVE F(w)[0] = 0 /\ \A i \in 1..k : F(w)[i] = Step(w[i - 1], i)
    OBVIOUS
  <2>1. 0 \in 0..k /\ \A i \in 1..k : i \in 0..k /\ i # 0
    OBVIOUS
  <2> QED
    BY <2>1
<1>4. g = F(g)
  <2>1. \A i \in 0..k : g[i] = IF i = 0 THEN 0 ELSE Step(g[i - 1], i)
    <3>1. \A i \in 0..k : i = 0 \/ i \in 1..k
      OBVIOUS
    <3> QED
      BY <1>2, <3>1
  <2>2. [i \in 0..k |-> g[i]] = F(g)
    BY <2>1
  <2> QED
    BY <2>2
<1> HIDE DEF F
<1>5. v = F(v)
  BY <1>4
<1> HIDE DEF v
<1>6. v[0] = g[0] /\ \A i \in 1..k : v[i] = Step(v[i - 1], i)
  BY <1>3, <1>5
<1>7. \A i \in 1..k : v[i - 1] = g[i - 1] => v[i] = g[i]
  <2> SUFFICES ASSUME NEW i \in 1..k, v[i - 1] = g[i - 1] PROVE v[i] = g[i]
    OBVIOUS
  <2>1. v[i] = Step(v[i - 1], i) /\ g[i] = Step(g[i - 1], i)
    BY <1>2, <1>6
  <2> QED
    BY <2>1
<1>8. v[1] = g[1] /\ v[2] = g[2]
  <2>1. 1 \in 1..k /\ 2 \in 1..k
    OBVIOUS
  <2>2. v[1 - 1] = g[1 - 1]
    BY <1>6
  <2>3. v[1] = g[1]
    BY <1>7, <2>1, <2>2, Zenon
  <2>4. v[2 - 1] = g[2 - 1]
    BY <2>3
  <2> QED
    BY <1>7, <2>1, <2>3, <2>4, Zenon
<1>9. CASE k = 8
  <2>1. \A i \in 1..8 : v[i - 1] = g[i - 1] => v[i] = g[i]
    BY <1>7, <1>9
  <2>2. v[3] = g[3]
    <3>1. 3 \in 1..8 /\ 3 - 1 = 2
      OBVIOUS
    <3> QED
      BY <1>8, <2>1, <3>1
  <2>3. v[4] = g[4]
    <3>1. 4 \in 1..8 /\ 4 - 1 = 3
      OBVIOUS
    <3> QED
      BY <2>1, <2>2, <3>1
  <2>4. v[5] = g[5]
    <3>1. 5 \in 1..8 /\ 5 - 1 = 4
      OBVIOUS
    <3> QED
      BY <2>1, <2>3, <3>1
  <2>5. v[6] = g[6]
    <3>1. 6 \in 1..8 /\ 6 - 1 = 5
      OBVIOUS
    <3> QED
      BY <2>1, <2>4, <3>1
  <2>6. v[7] = g[7]
    <3>1. 7 \in 1..8 /\ 7 - 1 = 6
      OBVIOUS
    <3> QED
      BY <2>1, <2>5, <3>1
  <2>7. v[8] = g[8]
    <3>1. 8 \in 1..8 /\ 8 - 1 = 7
      OBVIOUS
    <3> QED
      BY <2>1, <2>6, <3>1
  <2> QED
    BY <1>1, <1>9, <2>7
<1>10. k = 2 \/ k = 8
  OBVIOUS
<1> QED
  BY <1>1, <1>8, <1>9, <1>10

TwoBytesHold(n) == n < 65536

(* The bytes of a length that fit into two. *)
LEMMA TwoBytes ==
  ASSUME NEW n \in Nat, TwoBytesHold(n), NEW h, h[3] = Byte(n, 1), h[4] = Byte(n, 0)
  PROVE  ExtendedLength(h, 2) = n
<1>1. Byte(n, 1) = (n \div 256) % 256 /\ Byte(n, 0) = (n \div 1) % 256
  BY SMT DEF Byte, Weight
<1>2. PICK q : q = n \div 256
  OBVIOUS
<1>3. q \in 0..255 /\ q % 256 = q /\ (n \div 1) % 256 = n - q * 256
  BY SMT, <1>2 DEF TwoBytesHold
<1>4. h[3] = q /\ q * 256 + h[4] = n
  BY SMT, <1>1, <1>2, <1>3
<1>5. PICK g : g = [i \in 0..2 |-> IF i = 0 THEN 0 ELSE IF i = 1 THEN q ELSE n]
  OBVIOUS
<1>6. g[0] = 0 /\ g[1] = q /\ g[2] = n /\ g = [i \in 0..2 |-> g[i]]
  BY <1>5
<1>7. \A i \in 1..2 : g[i] = g[i - 1] * 256 + h[i + 2]
  <2>1. g[1] = g[0] * 256 + h[3] /\ g[2] = g[1] * 256 + h[4]
    BY SMT, <1>3, <1>4, <1>6
  <2> QED
    BY SMT, <2>1
<1>8. ExtendedLength(h, 2) = g[2]
  BY <1>6, <1>7, LengthIs
<1> QED
  BY <1>6, <1>8

(* The bytes of a length in eight. *)
LEMMA EightBytes ==
  ASSUME NEW n \in Lengths, NEW h, \A i \in 1..8 : h[i + 2] = Byte(n, 8 - i)
  PROVE  ExtendedLength(h, 8) = n
<1>1. n \in Nat /\ n < 2147483647
  BY SMT DEF Lengths
<1>2. /\ h[3] = Byte(n, 7) /\ h[4] = Byte(n, 6) /\ h[5] = Byte(n, 5) /\ h[6] = Byte(n, 4)
      /\ h[7] = Byte(n, 3) /\ h[8] = Byte(n, 2) /\ h[9] = Byte(n, 1) /\ h[10] = Byte(n, 0)
  <2>1. /\ h[1 + 2] = Byte(n, 8 - 1) /\ h[2 + 2] = Byte(n, 8 - 2) /\ h[3 + 2] = Byte(n, 8 - 3)
        /\ h[4 + 2] = Byte(n, 8 - 4) /\ h[5 + 2] = Byte(n, 8 - 5) /\ h[6 + 2] = Byte(n, 8 - 6)
        /\ h[7 + 2] = Byte(n, 8 - 7) /\ h[8 + 2] = Byte(n, 8 - 8)
    BY SMT
  <2> QED
    BY SMT, <2>1
<1>3. /\ Byte(n, 7) = 0 /\ Byte(n, 6) = 0 /\ Byte(n, 5) = 0 /\ Byte(n, 4) = 0
      /\ Byte(n, 3) = (n \div 16777216) % 256 /\ Byte(n, 2) = (n \div 65536) % 256
      /\ Byte(n, 1) = (n \div 256) % 256 /\ Byte(n, 0) = (n \div 1) % 256
  BY SMT DEF Byte, Weight
<1>4. PICK a \in Nat : a = n \div 16777216
  BY SMT, <1>1
<1>5. PICK b \in Nat : b = n \div 65536
  BY SMT, <1>1
<1>6. PICK c \in Nat : c = n \div 256
  BY SMT, <1>1
<1>7. (n \div 1) % 256 = n - c * 256
  BY SMT, <1>1, <1>6
<1>8. (n \div 256) % 256 = c - b * 256
  BY SMT, <1>1, <1>5, <1>6
<1>9. (n \div 65536) % 256 = b - a * 256
  BY SMT, <1>1, <1>4, <1>5
<1>10. (n \div 16777216) % 256 = a
  BY SMT, <1>1, <1>4
<1>11. /\ h[3] = 0 /\ h[4] = 0 /\ h[5] = 0 /\ h[6] = 0
       /\ h[7] = a /\ h[8] = b - a * 256 /\ h[9] = c - b * 256 /\ h[10] = n - c * 256
  BY SMT, <1>2, <1>3, <1>7, <1>8, <1>9, <1>10
<1>12. PICK g : g = [i \in 0..8 |-> IF i <= 4 THEN 0 ELSE IF i = 5 THEN a ELSE IF i = 6 THEN b
                                   ELSE IF i = 7 THEN c ELSE n]
  OBVIOUS
<1>13. /\ g[0] = 0 /\ g[1] = 0 /\ g[2] = 0 /\ g[3] = 0 /\ g[4] = 0
       /\ g[5] = a /\ g[6] = b /\ g[7] = c /\ g[8] = n
  BY SMT, <1>12
<1>14. g = [i \in 0..8 |-> g[i]]
  BY SMT, <1>12
<1>15. \A i \in 1..8 : g[i] = g[i - 1] * 256 + h[i + 2]
  <2>1. /\ g[1] = g[0] * 256 + h[3] /\ g[2] = g[1] * 256 + h[4] /\ g[3] = g[2] * 256 + h[5]
        /\ g[4] = g[3] * 256 + h[6] /\ g[5] = g[4] * 256 + h[7] /\ g[6] = g[5] * 256 + h[8]
        /\ g[7] = g[6] * 256 + h[9] /\ g[8] = g[7] * 256 + h[10]
    BY SMT, <1>1, <1>11, <1>13
  <2> QED
    BY SMT, <2>1
<1>16. ExtendedLength(h, 8) = g[8]
  BY SMT, <1>13, <1>14, <1>15, LengthIs
<1> QED
  BY SMT, <1>13, <1>16

LEMMA OpIs == /\ DOMAIN Op = {"text", "close", "pong"}
              /\ \A o \in DOMAIN Op : Op[o] \in 0..15
<1>1. Op["text"] = 1 /\ Op["close"] = 8 /\ Op["pong"] = 10 /\ DOMAIN Op = {"text", "close", "pong"}
  BY DEF Op
<1> QED
  BY <1>1

(* A header that HeaderOf makes, byte by byte. *)
LEMMA HeaderBytes ==
  ASSUME NEW f \in Written, NEW k, k = LengthFields(f.len), k \in {0, 2, 8}
  PROVE  /\ HeaderOf(f)[1] = 128 + Op[f.op]
         /\ HeaderOf(f)[2] = CASE k = 0 -> f.len [] k = 2 -> 126 [] k = 8 -> 127
         /\ \A i \in 1..k : HeaderOf(f)[i + 2] = Byte(f.len, k - i)
<1>1. PICK b : b = CASE k = 0 -> f.len [] k = 2 -> 126 [] k = 8 -> 127
  OBVIOUS
<1>2. PICK a : a = 128 + Op[f.op]
  OBVIOUS
<1>3. PICK s : s = <<a, b>>
  OBVIOUS
<1>4. PICK z : z = BigEndian(f.len, k)
  OBVIOUS
<1>5. HeaderOf(f) = s \o z
  BY <1>1, <1>2, <1>3, <1>4 DEF HeaderOf
<1>6. z = [i \in 1..k |-> Byte(f.len, k - i)]
  BY <1>4 DEF BigEndian
<1>7. PICK T : T = {a, b} \cup {z[i] : i \in 1..k}
  OBVIOUS
<1>8. k \in Nat
  OBVIOUS
<1>9. s \in Seq(T) /\ Len(s) = 2 /\ s[1] = a /\ s[2] = b
  BY <1>3, <1>7
<1>10. z \in Seq(T) /\ Len(z) = k
  <2>1. z \in [1..k -> T]
    BY <1>6, <1>7
  <2> QED
    BY <1>8, <2>1
<1>11. \A i \in 1..(2 + k) : (s \o z)[i] = IF i <= 2 THEN s[i] ELSE z[i - 2]
  <2>1. \A i \in 1..(Len(s) + Len(z)) : (s \o z)[i] = IF i <= Len(s) THEN s[i] ELSE z[i - Len(s)]
    <3>1. s \in Seq(T) /\ z \in Seq(T)
      BY <1>9, <1>10
    <3> QED
      BY <3>1, ConcatProperties
  <2> QED
    BY <1>8, <1>9, <1>10, <2>1
<1>12. HeaderOf(f)[1] = a /\ HeaderOf(f)[2] = b
  <2>1. 1 \in 1..(2 + k) /\ 2 \in 1..(2 + k)
    BY <1>8
  <2>2. ASSUME NEW i \in 1..2 PROVE (s \o z)[i] = s[i]
    <3>1. i \in 1..(2 + k) /\ i <= 2
      BY <1>8
    <3> QED
      BY <1>11, <3>1
  <2>3. 1 \in 1..2 /\ 2 \in 1..2
    OBVIOUS
  <2>4. (s \o z)[1] = s[1] /\ (s \o z)[2] = s[2]
    BY <2>2, <2>3, Zenon
  <2> QED
    BY <1>5, <1>9, <2>4
<1>13. ASSUME NEW i \in 1..k PROVE HeaderOf(f)[i + 2] = Byte(f.len, k - i)
  <2>1. i + 2 \in 1..(2 + k) /\ ~ (i + 2 <= 2) /\ (i + 2) - 2 = i
    BY <1>8
  <2>2. (s \o z)[i + 2] = z[i]
    BY <1>11, <2>1
  <2> QED
    BY <1>5, <1>6, <2>2
<1> QED
  BY <1>1, <1>2, <1>12, <1>13

(* What NewFrameReader makes of a header that Write made. *)
LEMMA HeaderParses ==
  ASSUME NEW f \in Written
  PROVE  ParseHeader(HeaderOf(f)) = [fin |-> TRUE, op |-> Op[f.op], masked |-> FALSE, len |-> f.len]
<1>1. PICK n : n = f.len
  OBVIOUS
<1>2. n \in Lengths /\ f.op \in DOMAIN Op
  BY <1>1 DEF Written
<1>3. PICK o \in 0..15 : o = Op[f.op]
  BY <1>2, OpIs
<1>4. PICK h : h = HeaderOf(f)
  OBVIOUS
<1>5. n \in Nat
  BY SMT, <1>2 DEF Lengths
<1>6. ASSUME NEW k \in {0, 2, 8}, k = LengthFields(n)
      PROVE  /\ h[1] = 128 + o
             /\ h[2] = CASE k = 0 -> n [] k = 2 -> 126 [] k = 8 -> 127
             /\ \A i \in 1..k : h[i + 2] = Byte(n, k - i)
  BY <1>1, <1>3, <1>4, <1>6, HeaderBytes
<1>7. (128 + o >= 128) = TRUE /\ (128 + o) % 16 = o
  OBVIOUS
<1>8. ASSUME NEW k \in {0, 2, 8}, NEW b \in 0..127, h[1] = 128 + o, h[2] = b,
             k = (CASE b <= 125 -> 0 [] b = 126 -> 2 [] b = 127 -> 8),
             n = IF k = 0 THEN b ELSE ExtendedLength(h, k)
      PROVE  ParseHeader(h) = [fin |-> TRUE, op |-> o, masked |-> FALSE, len |-> n]
  <2>1. b % 128 = b /\ (b >= 128) = FALSE
    OBVIOUS
  <2>2. h[1] >= 128 <=> TRUE
    BY <1>7, <1>8
  <2>3. h[2] >= 128 <=> FALSE
    BY <1>8, <2>1
  <2>4. h[1] % 16 = o /\ h[2] % 128 = b
    BY <1>7, <1>8, <2>1
  <2>5. ParseHeader(h) = [fin |-> h[1] >= 128, op |-> h[1] % 16, masked |-> h[2] >= 128,
                          len |-> IF k = 0 THEN b ELSE ExtendedLength(h, k)]
    <3> DEFINE B == h[2] % 128
               K == CASE B <= 125 -> 0 [] B = 126 -> 2 [] B = 127 -> 8
    <3>1. ParseHeader(h) = [fin |-> h[1] >= 128, op |-> h[1] % 16, masked |-> h[2] >= 128,
                            len |-> IF K = 0 THEN B ELSE ExtendedLength(h, K)]
      BY Zenon DEF ParseHeader
    <3>2. B = b
      BY <2>4
    <3> HIDE DEF B
    <3>3. K = k
      BY <1>8, <3>2
    <3> HIDE DEF K
    <3> QED
      BY <3>1, <3>2, <3>3, Zenon
  <2>6. (h[1] >= 128) = TRUE /\ (h[2] >= 128) = FALSE
    BY <2>2, <2>3
  <2> QED
    BY <1>8, <2>4, <2>5, <2>6, Zenon
<1>9. CASE n <= 125
  <2>1. LengthFields(n) = 0
    BY <1>9 DEF LengthFields
  <2>2. h[1] = 128 + o /\ h[2] = n
    BY <1>6, <2>1
  <2>3. n \in 0..127
    BY <1>5, <1>9
  <2>4. ParseHeader(h) = [fin |-> TRUE, op |-> o, masked |-> FALSE, len |-> n]
    BY <1>8, <1>9, <2>2, <2>3
  <2> QED
    BY <1>1, <1>3, <1>4, <2>4
<1>10. CASE ~ (n <= 125) /\ TwoBytesHold(n)
  <2>1. LengthFields(n) = 2
    BY SMT, <1>10 DEF LengthFields, TwoBytesHold
  <2>2. h[1] = 128 + o /\ h[2] = 126 /\ \A i \in 1..2 : h[i + 2] = Byte(n, 2 - i)
    BY <1>6, <2>1
  <2>3. h[1 + 2] = Byte(n, 2 - 1) /\ h[2 + 2] = Byte(n, 2 - 2)
    BY <2>2
  <2>4. h[3] = Byte(n, 1) /\ h[4] = Byte(n, 0)
    BY <2>3
  <2>5. ExtendedLength(h, 2) = n
    BY <1>5, <1>10, <2>4, TwoBytes
  <2>6. ParseHeader(h) = [fin |-> TRUE, op |-> o, masked |-> FALSE, len |-> n]
    BY <1>8, <2>2, <2>5
  <2> QED
    BY <1>1, <1>3, <1>4, <2>6
<1>11. CASE ~ (n <= 125) /\ ~ TwoBytesHold(n)
  <2>1. LengthFields(n) = 8
    BY SMT, <1>11 DEF LengthFields, TwoBytesHold
  <2>2. h[1] = 128 + o /\ h[2] = 127 /\ \A i \in 1..8 : h[i + 2] = Byte(n, 8 - i)
    BY <1>6, <2>1
  <2>3. ExtendedLength(h, 8) = n
    BY <1>2, <2>2, EightBytes
  <2>4. ParseHeader(h) = [fin |-> TRUE, op |-> o, masked |-> FALSE, len |-> n]
    BY <1>8, <2>2, <2>3
  <2> QED
    BY <1>1, <1>3, <1>4, <2>4
<1> QED
  BY <1>9, <1>10, <1>11

-----------------------------------------------------------------------------
(* What the steps do. *)

LEMMA GoroutinesAre == Goroutines = {"reader", "main"}
  BY DEF Goroutines

LEMMA ItemsAre ==
  ASSUME NEW f \in Written
  PROVE  /\ Header(f) \in Items /\ Header(f).kind = "header" /\ Header(f).bytes = HeaderOf(f)
         /\ Payload(f) \in Items /\ Payload(f).kind = "payload" /\ Payload(f).frame = f
         /\ Header(f) # Payload(f)
<1>1. Header(f).kind = "header" /\ Header(f).bytes = HeaderOf(f)
  BY DEF Header
<1>2. Payload(f).kind = "payload" /\ Payload(f).frame = f
  BY DEF Payload
<1>3. Header(f) \in Items /\ Payload(f) \in Items
  BY Zenon DEF Items
<1>4. "header" # "payload"
  OBVIOUS
<1> QED
  BY <1>1, <1>2, <1>3, <1>4, Zenon

(* The stream grows by what the buffer can have: the first n items of a    *)
(* header and its payload.                                                 *)
LEMMA PairAppended ==
  ASSUME NEW s \in Seq(Items), NEW f \in Written, NEW n \in 0..2
  PROVE  /\ SubSeq(Pair(f), 1, n) \in Seq(Items)
         /\ s \o SubSeq(Pair(f), 1, n) \in Seq(Items)
         /\ Len(s \o SubSeq(Pair(f), 1, n)) = Len(s) + n
         /\ \A i \in 1..Len(s) : (s \o SubSeq(Pair(f), 1, n))[i] = s[i]
         /\ n >= 1 => (s \o SubSeq(Pair(f), 1, n))[Len(s) + 1] = Header(f)
         /\ n = 2 => (s \o SubSeq(Pair(f), 1, n))[Len(s) + 2] = Payload(f)
         /\ Len(s) \in Nat
<1>1. Header(f) \in Items /\ Payload(f) \in Items
  BY ItemsAre
<1>2. PICK a \in Items : a = Header(f)
  BY <1>1
<1>3. PICK b \in Items : b = Payload(f)
  BY <1>1
<1>4. Pair(f) = <<a, b>>
  BY <1>2, <1>3 DEF Pair
<1>5. PICK z : z = SubSeq(<<a, b>>, 1, n)
  OBVIOUS
<1>6. z \in Seq(Items) /\ Len(z) = n /\ (n >= 1 => z[1] = a) /\ (n = 2 => z[2] = b)
  <2>1. PICK w \in Seq(Items) : w = <<a, b>> /\ Len(w) = 2 /\ w[1] = a /\ w[2] = b
    <3>1. <<a, b>> \in Seq(Items) /\ Len(<<a, b>>) = 2 /\ <<a, b>>[1] = a /\ <<a, b>>[2] = b
      OBVIOUS
    <3> QED
      BY <3>1, Zenon
  <2>2. /\ SubSeq(w, 1, n) \in Seq(Items)
        /\ Len(SubSeq(w, 1, n)) = IF 1 <= n THEN n - 1 + 1 ELSE 0
        /\ \A i \in 1..(n - 1 + 1) : SubSeq(w, 1, n)[i] = w[1 + i - 1]
    BY <2>1, SubSeqProperties
  <2>3. z = SubSeq(w, 1, n)
    BY <1>5, <2>1
  <2>4. z \in Seq(Items) /\ Len(z) = n /\ \A i \in 1..n : z[i] = w[i]
    BY <2>2, <2>3
  <2> QED
    BY <2>1, <2>4
<1>7. Len(s) \in Nat
  BY LenProperties
<1>8. /\ s \o z \in Seq(Items) /\ Len(s \o z) = Len(s) + Len(z)
      /\ \A i \in 1..(Len(s) + Len(z)) : (s \o z)[i] = IF i <= Len(s) THEN s[i] ELSE z[i - Len(s)]
  BY <1>6, ConcatProperties
<1>9. \A i \in 1..Len(s) : (s \o z)[i] = s[i]
  BY <1>6, <1>7, <1>8
<1>10. n >= 1 => (s \o z)[Len(s) + 1] = a
  BY <1>6, <1>7, <1>8
<1>11. n = 2 => (s \o z)[Len(s) + 2] = b
  BY <1>6, <1>7, <1>8
<1> QED
  BY <1>2, <1>3, <1>4, <1>5, <1>6, <1>7, <1>8, <1>9, <1>10, <1>11

(* A job of a goroutine is a record with a step and a frame. *)
LEMMA JobsAre ==
  ASSUME NEW j \in Jobs
  PROVE  /\ j = Idle \/ (/\ j = [step |-> j.step, frame |-> j.frame] /\ j.frame \in Written
                         /\ j.step \in {"lock", "header", "payload", "flush"} /\ j # Idle)
         /\ Idle.step = "idle"
<1>1. Idle.step = "idle"
  BY DEF Idle
<1>2. CASE j \in [step : {"lock", "header", "payload", "flush"}, frame : Written]
  <2>1. /\ j = [step |-> j.step, frame |-> j.frame] /\ j.frame \in Written
        /\ j.step \in {"lock", "header", "payload", "flush"}
    BY <1>2
  <2>2. j.step # "idle"
    BY <2>1
  <2> QED
    BY <1>1, <2>1, <2>2
<1> QED
  BY <1>1, <1>2 DEF Jobs

LEMMA JobIs ==
  ASSUME NEW p \in Goroutines, job \in [Goroutines -> Jobs]
  PROVE  /\ Busy(p) <=> job[p] # Idle
         /\ Busy(p) => /\ job[p].frame \in Written
                       /\ job[p].step \in {"lock", "header", "payload", "flush"}
                       /\ job[p] = [step |-> job[p].step, frame |-> job[p].frame]
         /\ job[p] \in Jobs /\ DOMAIN job = Goroutines
<1>1. job[p] \in Jobs
  OBVIOUS
<1> QED
  BY <1>1, JobsAre DEF Busy

(* A job moves on to its next step. *)
LEMMA StepIs ==
  ASSUME NEW p \in Goroutines, job \in [Goroutines -> Jobs], Busy(p),
         NEW x \in {"header", "payload", "flush"}, job' = [job EXCEPT ![p].step = x]
  PROVE  /\ job' \in [Goroutines -> Jobs] /\ Busy(p)'
         /\ job'[p].step = x /\ job'[p].frame = job[p].frame
         /\ \A q \in Goroutines : q # p => job'[q] = job[q]
<1>1. job[p] = [step |-> job[p].step, frame |-> job[p].frame] /\ job[p].frame \in Written
  BY JobIs
<1>2. job'[p] = [job[p] EXCEPT !.step = x]
  BY Zenon
<1>3. job'[p] = [step |-> x, frame |-> job[p].frame]
  BY <1>1, <1>2
<1>4. job'[p] \in Jobs
  BY <1>1, <1>3 DEF Jobs
<1>5. \A q \in Goroutines : q # p => job'[q] = job[q]
  BY Zenon
<1>6. DOMAIN job' = Goroutines /\ job' = [q \in Goroutines |-> job'[q]]
  OBVIOUS
<1>7. \A q \in Goroutines : job'[q] \in Jobs
  BY <1>4, <1>5
<1>8. job' \in [Goroutines -> Jobs]
  BY <1>6, <1>7
<1>9. job'[p].step = x /\ job'[p].frame = job[p].frame
  BY <1>3
<1>10. job'[p] # Idle
  BY <1>9 DEF Idle
<1>11. Busy(p)'
  BY <1>10 DEF Busy
<1> QED
  BY <1>5, <1>8, <1>9, <1>11

(* A job begins. *)
LEMMA BegunIs ==
  ASSUME NEW p \in Goroutines, job \in [Goroutines -> Jobs],
         NEW o \in DOMAIN Op, NEW t \in Nat, NEW n \in Lengths,
         job' = [job EXCEPT ![p] = Job(o, t, n)]
  PROVE  /\ job' \in [Goroutines -> Jobs] /\ Busy(p)'
         /\ job'[p].step = "lock" /\ job'[p].frame \in Written
         /\ job'[p].frame.op = o /\ job'[p].frame.tag = t
         /\ \A q \in Goroutines : q # p => job'[q] = job[q]
<1>1. job'[p] = Job(o, t, n)
  OBVIOUS
<1>2. PICK f : f = [op |-> o, tag |-> t, len |-> n]
  OBVIOUS
<1>3. f \in Written /\ f.op = o /\ f.tag = t
  BY <1>2 DEF Written
<1>4. job'[p] = [step |-> "lock", frame |-> f]
  BY <1>1, <1>2 DEF Job
<1>5. job'[p] \in Jobs
  BY <1>3, <1>4 DEF Jobs
<1>6. \A q \in Goroutines : q # p => job'[q] = job[q]
  BY Zenon
<1>7. job' \in [Goroutines -> Jobs]
  <2>1. DOMAIN job' = Goroutines /\ job' = [q \in Goroutines |-> job'[q]]
    OBVIOUS
  <2> QED
    BY <1>5, <1>6, <2>1
<1>8. job'[p].step = "lock" /\ job'[p].frame = f
  BY <1>4
<1>9. Busy(p)'
  BY <1>8 DEF Busy, Idle
<1> QED
  BY <1>3, <1>6, <1>7, <1>8, <1>9

(* A job ends. *)
LEMMA EndedIs ==
  ASSUME NEW p \in Goroutines, job \in [Goroutines -> Jobs], job' = [job EXCEPT ![p] = Idle]
  PROVE  /\ job' \in [Goroutines -> Jobs] /\ ~ Busy(p)'
         /\ \A q \in Goroutines : q # p => job'[q] = job[q]
<1>1. job'[p] = Idle
  OBVIOUS
<1>2. Idle \in Jobs
  BY DEF Jobs
<1>3. \A q \in Goroutines : q # p => job'[q] = job[q]
  BY Zenon
<1>4. job' \in [Goroutines -> Jobs]
  BY <1>2
<1> QED
  BY <1>1, <1>3, <1>4 DEF Busy

LEMMA Steps ==
  ASSUME [Next]_vars
  PROVE  \/ QuietStep
         \/ \E p \in Goroutines : Lock(p) \/ WriteHeader(p) \/ WritePayload(p)
         \/ FlushReader \/ FlushMain
<1>1. ASSUME ReaderWrites
      PROVE  Lock("reader") \/ WriteHeader("reader") \/ WritePayload("reader") \/ FlushReader
  BY <1>1, Zenon DEF ReaderWrites, FlushReader
<1>2. ASSUME MainWrites
      PROVE  Lock("main") \/ WriteHeader("main") \/ WritePayload("main") \/ FlushMain
  BY <1>2, Zenon DEF MainWrites, FlushMain
<1>3. "reader" \in Goroutines /\ "main" \in Goroutines
  BY DEF Goroutines
<1> QED
  BY <1>1, <1>2, <1>3, Zenon DEF Next, QuietStep

LEMMA ReceivedIs ==
  ASSUME Types
  PROVE  /\ Len(received) \in Nat /\ DOMAIN received = 1..Len(received)
         /\ \A i \in 1..Len(received) : received[i] \in BrowserFrames /\ received[i].len \in Nat
<1>1. received \in Seq(BrowserFrames)
  BY DEF Types
<1>2. /\ Len(received) \in Nat /\ DOMAIN received = 1..Len(received)
      /\ \A i \in 1..Len(received) : received[i] \in BrowserFrames
  BY <1>1, LenProperties, ElementOfSeq
<1> QED
  BY <1>2, LengthsAssumption DEF LengthsAssumption

(* What a step of the browser, or of a goroutine that does not write, does *)
(* to the jobs: it may begin one.                                          *)
LEMMA QuietJobs ==
  ASSUME Types, JobsFit, QuietStep
  PROVE  /\ UNCHANGED <<stream, buf, broken, wio>>
         /\ job' \in [Goroutines -> Jobs]
         /\ \A q \in Goroutines :
              \/ job'[q] = job[q]
              \/ ~ Busy(q) /\ Busy(q)' /\ job'[q].step = "lock"
<1>1. job \in [Goroutines -> Jobs]
  BY DEF Types
<1>2. "reader" \in Goroutines /\ "main" \in Goroutines
  BY DEF Goroutines
<1>3. {"text", "close", "pong"} \subseteq DOMAIN Op
  BY OpIs
<1>4. 2 \in Lengths /\ 1000 \in Nat /\ 1002 \in Nat
  BY SMT DEF Lengths
<1>5. AnswerLength \in Lengths /\ Notices \subseteq Lengths
  BY LengthsAssumption DEF LengthsAssumption
<1>6. ASSUME UNCHANGED job
      PROVE  job' \in [Goroutines -> Jobs] /\ \A q \in Goroutines : job'[q] = job[q]
  BY <1>1, <1>6
<1>7. ASSUME NEW p \in Goroutines, ~ Busy(p),
             NEW o \in DOMAIN Op, NEW t \in Nat, NEW n \in Lengths,
             job' = [job EXCEPT ![p] = Job(o, t, n)]
      PROVE  /\ job' \in [Goroutines -> Jobs]
             /\ \A q \in Goroutines :
                  \/ job'[q] = job[q]
                  \/ ~ Busy(q) /\ Busy(q)' /\ job'[q].step = "lock"
  BY <1>1, <1>7, BegunIs
<1>8. reader \in {"read", "deliver", "failed", "syntax"} => ~ Busy("reader")
  BY DEF JobsFit
<1>9. main \in {"select", "close"} => ~ Busy("main")
  BY DEF JobsFit
<1>10. CASE Handshake \/ BrowserSends \/ BrowserGone \/ ReceiveFails \/ Leave \/ HangUp
            \/ UNCHANGED vars
  <2>1. UNCHANGED <<stream, buf, broken, wio, job>>
    BY <1>10 DEF Handshake, BrowserSends, BrowserGone, ReceiveFails, Leave, HangUp, vars, Reads, Mains
  <2> QED
    BY <1>6, <2>1
<1>11. CASE Receive
  <2>1. UNCHANGED <<stream, buf, broken, wio>> /\ reader = "read"
    BY <1>11 DEF Receive, Reads
  <2>2. inbox # <<>> /\ received' = Append(received, Head(inbox))
    BY <1>11 DEF Receive
  <2>3. Head(inbox) \in BrowserFrames /\ received' \in Seq(BrowserFrames)
    BY <2>2 DEF Types
  <2>4. Len(received') \in Nat
    BY <2>3, LenProperties
  <2>5. PongLength(Head(inbox)) \in Lengths
    <3>1. Head(inbox).len \in Nat
      BY <2>3, LengthsAssumption DEF LengthsAssumption
    <3> QED
      BY SMT, <3>1 DEF PongLength, Lengths
  <2>6. \/ job' = [job EXCEPT !["reader"] = Job("close", 1002, 2)]
        \/ job' = [job EXCEPT !["reader"] = Job("pong", Len(received'), PongLength(Head(inbox)))]
        \/ UNCHANGED job
    BY <1>11 DEF Receive
  <2>7. ~ Busy("reader")
    BY <1>8, <2>1
  <2>8. CASE job' = [job EXCEPT !["reader"] = Job("close", 1002, 2)]
    <3>1. PICK t \in Nat : t = 1002
      BY <1>4
    <3>2. PICK n \in Lengths : n = 2
      BY <1>4
    <3>3. job' = [job EXCEPT !["reader"] = Job("close", t, n)]
      BY <2>8, <3>1, <3>2
    <3> QED
      BY <1>2, <1>3, <1>7, <2>1, <2>7, <3>3
  <2>9. CASE job' = [job EXCEPT !["reader"] = Job("pong", Len(received'), PongLength(Head(inbox)))]
    BY <1>2, <1>3, <1>7, <2>1, <2>4, <2>5, <2>7, <2>9
  <2>10. CASE UNCHANGED job
    BY <1>6, <2>1, <2>10
  <2> QED
    BY <2>6, <2>8, <2>9, <2>10
<1>12. CASE TakeRequest
  <2>1. UNCHANGED <<stream, buf, broken, wio>> /\ main = "select"
    BY <1>12 DEF TakeRequest, Mains
  <2>2. Len(received) \in Nat
    BY ReceivedIs
  <2>3. \/ job' = [job EXCEPT !["main"] = Job("text", Len(received), AnswerLength)]
        \/ UNCHANGED job
    BY <1>12 DEF TakeRequest
  <2>4. ~ Busy("main")
    BY <1>9, <2>1
  <2>5. CASE job' = [job EXCEPT !["main"] = Job("text", Len(received), AnswerLength)]
    BY <1>2, <1>3, <1>5, <1>7, <2>1, <2>2, <2>4, <2>5
  <2> QED
    BY <1>6, <2>1, <2>3, <2>5
<1>13. CASE Notify
  <2>1. UNCHANGED <<stream, buf, broken, wio>> /\ ~ Busy("main")
    BY <1>9, <1>13 DEF Notify, Mains
  <2>2. PICK n \in Notices : job' = [job EXCEPT !["main"] = Job("text", 0, n)]
    BY <1>13 DEF Notify
  <2>3. n \in Lengths /\ 0 \in Nat
    BY <1>5
  <2> QED
    BY <1>2, <1>3, <1>7, <2>1, <2>2, <2>3
<1>14. CASE TakeError
  <2>1. UNCHANGED <<stream, buf, broken, wio>> /\ ~ Busy("main")
    BY <1>9, <1>14 DEF TakeError, Mains
  <2>2. \/ job' = [job EXCEPT !["main"] = Job("text", 0, AnswerLength)]
        \/ UNCHANGED job
    BY <1>14 DEF TakeError
  <2>3. CASE job' = [job EXCEPT !["main"] = Job("text", 0, AnswerLength)]
    <3>1. 0 \in Nat
      OBVIOUS
    <3> QED
      BY <1>2, <1>3, <1>5, <1>7, <2>1, <2>3, <3>1
  <2> QED
    BY <1>6, <2>1, <2>2, <2>3
<1>15. CASE CloseSocket
  <2>1. UNCHANGED <<stream, buf, broken, wio>> /\ ~ Busy("main")
    BY <1>9, <1>15 DEF CloseSocket, Mains
  <2>2. job' = [job EXCEPT !["main"] = Job("close", 1000, 2)]
    BY <1>15 DEF CloseSocket
  <2>3. PICK t \in Nat : t = 1000
    BY <1>4
  <2>4. PICK n \in Lengths : n = 2
    BY <1>4
  <2>5. job' = [job EXCEPT !["main"] = Job("close", t, n)]
    BY <2>2, <2>3, <2>4
  <2> QED
    BY <1>2, <1>3, <1>7, <2>1, <2>5
<1> QED
  BY <1>10, <1>11, <1>12, <1>13, <1>14, <1>15, Zenon DEF QuietStep

(* A goroutine that has the lock, and the other one. *)
LEMMA OneWriter ==
  ASSUME Types, LockFits, NEW p \in Goroutines, Busy(p), job[p].step # "lock"
  PROVE  /\ wio = p
         /\ \A q \in Goroutines : q # p /\ Busy(q) => job[q].step = "lock"
BY DEF LockFits

(* What the three writes and the flush do. *)
LEMMA LockSteps ==
  ASSUME Types, LockFits, BufferFits, NEW p \in Goroutines, Lock(p)
  PROVE  /\ UNCHANGED <<bodyVars, stream, buf, broken>> /\ wio' = p
         /\ Busy(p) /\ job' = [job EXCEPT ![p].step = "header"]
         /\ \A q \in Goroutines : Busy(q) => job[q].step = "lock"
         /\ buf = <<>>
<1>1. /\ UNCHANGED <<bodyVars, stream, buf, broken>> /\ wio' = p
      /\ Busy(p) /\ job' = [job EXCEPT ![p].step = "header"]
      /\ wio = "nobody"
  BY DEF Lock, WioFree
<1>2. \A q \in Goroutines : Busy(q) => job[q].step = "lock"
  BY <1>1 DEF LockFits, Goroutines
<1>3. buf = <<>>
  BY <1>2 DEF BufferFits
<1> QED
  BY <1>1, <1>2, <1>3

LEMMA PairIs ==
  ASSUME NEW f \in Written
  PROVE  /\ Append(<<>>, Header(f)) = <<Header(f)>>
         /\ Append(<<Header(f)>>, Payload(f)) = Pair(f)
         /\ Pair(f) \in Seq(Items) /\ Len(Pair(f)) = 2 /\ Pair(f) # <<>>
         /\ SubSeq(Pair(f), 1, 2) = Pair(f)
<1>1. PICK a \in Items : a = Header(f)
  BY ItemsAre
<1>2. PICK b \in Items : b = Payload(f)
  BY ItemsAre
<1>3. <<a, b>> \in Seq(Items) /\ Len(<<a, b>>) = 2 /\ <<a, b>> # <<>>
  OBVIOUS
<1>4. Append(<<>>, a) = <<a>>
  OBVIOUS
<1>5. Append(<<a>>, b) = <<a, b>>
  <2>1. PICK s \in Seq(Items) : s = <<a>> /\ Len(s) = 1 /\ s[1] = a
    <3>1. <<a>> \in Seq(Items) /\ Len(<<a>>) = 1 /\ <<a>>[1] = a
      OBVIOUS
    <3> QED
      BY <3>1, Zenon
  <2>2. /\ Append(s, b) \in Seq(Items) /\ Len(Append(s, b)) = 2
        /\ Append(s, b)[1] = a /\ Append(s, b)[2] = b
    BY <2>1, AppendProperties
  <2>3. \A i \in 1..2 : Append(s, b)[i] = <<a, b>>[i]
    BY <2>2
  <2>4. Append(s, b) = <<a, b>>
    BY <1>3, <2>2, <2>3, SeqEqual
  <2> QED
    BY <2>1, <2>4
<1>6. SubSeq(<<a, b>>, 1, 2) = <<a, b>>
  BY <1>3, SubSeqFull
<1> QED
  BY <1>1, <1>2, <1>3, <1>4, <1>5, <1>6 DEF Pair

LEMMA HeaderSteps ==
  ASSUME Types, BufferFits, NEW p \in Goroutines, WriteHeader(p)
  PROVE  /\ UNCHANGED <<bodyVars, stream, broken, wio>>
         /\ Busy(p) /\ job[p].step = "header" /\ job' = [job EXCEPT ![p].step = "payload"]
         /\ broken => UNCHANGED buf
         /\ ~ broken => buf' = <<Header(job[p].frame)>>
<1>1. /\ UNCHANGED <<bodyVars, stream, broken, wio>>
      /\ Busy(p) /\ job[p].step = "header" /\ job' = [job EXCEPT ![p].step = "payload"]
      /\ buf' = IF broken THEN buf ELSE Append(buf, Header(job[p].frame))
  BY DEF WriteHeader
<1>2. ~ broken => buf = <<>>
  BY <1>1 DEF BufferFits
<1>3. job[p].frame \in Written
  BY <1>1, JobIs DEF Types
<1>4. Append(<<>>, Header(job[p].frame)) = <<Header(job[p].frame)>>
  BY <1>3, PairIs
<1> QED
  BY <1>1, <1>2, <1>4

LEMMA PayloadSteps ==
  ASSUME Types, LockFits, BufferFits, NEW p \in Goroutines, WritePayload(p)
  PROVE  /\ UNCHANGED <<bodyVars, broken, wio>>
         /\ Busy(p) /\ job[p].step = "payload" /\ job' = [job EXCEPT ![p].step = "flush"]
         /\ \/ broken /\ UNCHANGED <<stream, buf>>
            \/ ~ broken /\ UNCHANGED stream /\ buf' = Pair(job[p].frame)
            \/ /\ ~ broken /\ stream' = stream \o Pair(job[p].frame) /\ buf' = <<>>
               /\ Grows(p)
<1>1. /\ UNCHANGED <<bodyVars, broken, wio>>
      /\ Busy(p) /\ job[p].step = "payload" /\ job' = [job EXCEPT ![p].step = "flush"]
      /\ Buffered(Payload(job[p].frame))
  BY DEF WritePayload
<1>2. PICK f \in Written : f = job[p].frame
  BY <1>1, JobIs DEF Types
<1>3. Append(<<Header(f)>>, Payload(f)) = Pair(f) /\ SubSeq(Pair(f), 1, 2) = Pair(f)
  BY PairIs
<1>4. ~ broken => buf = <<Header(f)>>
  BY <1>1, <1>2 DEF BufferFits
<1>5. \/ broken /\ UNCHANGED <<stream, buf>>
      \/ ~ broken /\ UNCHANGED stream /\ buf' = Pair(f)
      \/ ~ broken /\ stream' = stream \o Pair(f) /\ buf' = <<>>
  BY <1>1, <1>2, <1>3, <1>4 DEF Buffered
<1>6. ASSUME ~ broken, stream' = stream \o Pair(f) PROVE Grows(p)
  <2>1. wio = p /\ job[p].step # "lock" /\ ~ Passed(p)
    BY <1>1, OneWriter DEF Passed
  <2>2. 2 \in 1..2 /\ 2 # 1
    OBVIOUS
  <2>3. stream' = stream \o SubSeq(Pair(job[p].frame), 1, 2)
    BY <1>2, <1>3, <1>6
  <2> QED
    BY <1>1, <1>6, <2>1, <2>2, <2>3, Zenon DEF Grows
<1> QED
  BY <1>1, <1>2, <1>5, <1>6

LEMMA FlushSteps ==
  ASSUME Types, LockFits, BufferFits, NEW p \in Goroutines, Flush(p)
  PROVE  /\ buf' = <<>> /\ job' = [job EXCEPT ![p] = Idle] /\ wio' = "nobody"
         /\ Busy(p) /\ job[p].step = "flush" /\ wio = p
         /\ broken' \in BOOLEAN /\ (broken => broken')
         /\ stream' = stream \/ Grows(p)
         /\ ~ broken' => \/ Passed(p) /\ UNCHANGED stream
                         \/ Grows(p)
<1>1. /\ buf' = <<>> /\ job' = [job EXCEPT ![p] = Idle] /\ wio' = "nobody"
      /\ Busy(p) /\ job[p].step = "flush"
      /\ \/ /\ ~ broken /\ stream' = stream \o buf
            /\ UNCHANGED broken
         \/ /\ broken' = TRUE
            /\ \E n \in 0..Len(buf) : stream' = stream \o SubSeq(buf, 1, n)
  BY DEF Flush
<1>2. wio = p
  BY <1>1, OneWriter
<1>3. PICK f \in Written : f = job[p].frame
  BY <1>1, JobIs DEF Types
<1>4. /\ Pair(f) \in Seq(Items) /\ Len(Pair(f)) = 2 /\ Pair(f) # <<>>
      /\ SubSeq(Pair(f), 1, 2) = Pair(f)
  BY PairIs
<1>5. stream \in Seq(Items)
  BY DEF Types
<1>6. stream \o <<>> = stream
  BY <1>5, ConcatEmptySeq
<1>7. broken' \in BOOLEAN /\ (broken => broken')
  BY <1>1 DEF Types
<1>8. CASE buf = <<>>
  <2>1. \A n \in 0..Len(buf) : stream \o SubSeq(buf, 1, n) = stream
    <3> SUFFICES ASSUME NEW n \in 0..0 PROVE stream \o SubSeq(<<>>, 1, n) = stream
      BY <1>8, EmptySeq
    <3>1. SubSeq(<<>>, 1, n) = <<>>
      BY SubSeqEmpty
    <3> QED
      BY <1>6, <3>1
  <2>2. stream' = stream
    BY <1>1, <1>6, <1>8, <2>1
  <2>3. Passed(p)
    BY <1>1, <1>8 DEF Passed
  <2> QED
    BY <1>1, <1>2, <1>7, <2>2, <2>3
<1>9. CASE buf # <<>>
  <2>1. ~ broken /\ buf = Pair(f)
    BY <1>1, <1>3, <1>9 DEF BufferFits
  <2>2. ~ Passed(p)
    BY <1>9 DEF Passed
  <2>3. ASSUME NEW n \in 1..2, n = 1 => broken', stream' = stream \o SubSeq(Pair(f), 1, n)
        PROVE  Grows(p)
    <3>1. stream' = stream \o SubSeq(Pair(job[p].frame), 1, n)
      BY <1>3, <2>3
    <3>2. job[p].step # "lock"
      BY <1>1
    <3> QED
      BY <1>1, <1>2, <2>1, <2>2, <2>3, <3>1, <3>2, Zenon DEF Grows
  <2>4. CASE UNCHANGED broken /\ stream' = stream \o buf
    <3>1. stream' = stream \o SubSeq(Pair(f), 1, 2)
      BY <1>4, <2>1, <2>4
    <3>2. 2 \in 1..2 /\ 2 # 1
      OBVIOUS
    <3>3. Grows(p)
      BY <2>3, <3>1, <3>2
    <3> QED
      BY <1>1, <1>2, <1>7, <3>3
  <2>5. CASE broken' = TRUE /\ \E n \in 0..Len(buf) : stream' = stream \o SubSeq(buf, 1, n)
    <3>1. PICK n \in 0..2 : stream' = stream \o SubSeq(Pair(f), 1, n)
      BY <1>4, <2>1, <2>5
    <3>2. CASE n = 0
      <4>1. SubSeq(Pair(f), 1, 0) = <<>>
        BY SubSeqEmpty
      <4>2. stream' = stream
        BY <1>6, <3>1, <3>2, <4>1
      <4> QED
        BY <1>1, <1>2, <1>7, <2>5, <4>2
    <3>3. CASE n # 0
      <4>1. n \in 1..2
        BY <3>3
      <4>2. Grows(p)
        BY <2>3, <2>5, <3>1, <4>1
      <4> QED
        BY <1>1, <1>2, <1>7, <2>5, <4>2
    <3> QED
      BY <3>2, <3>3
  <2> QED
    BY <1>1, <2>4, <2>5
<1> QED
  BY <1>8, <1>9

LEMMA Growth ==
  ASSUME Types, LockFits, BufferFits, JobsFit, [Next]_vars
  PROVE  \/ UNCHANGED <<stream, broken>>
         \/ UNCHANGED <<stream, received>> /\ broken' \in BOOLEAN /\ (broken => broken')
         \/ /\ UNCHANGED received /\ broken' \in BOOLEAN
            /\ \E p \in Goroutines : Grows(p)
<1>1. CASE QuietStep
  BY <1>1, QuietJobs
<1>2. ASSUME NEW p \in Goroutines, Lock(p) \/ WriteHeader(p)
      PROVE  UNCHANGED <<stream, broken>>
  BY <1>2, LockSteps, HeaderSteps
<1>3. ASSUME NEW p \in Goroutines, WritePayload(p)
      PROVE  \/ UNCHANGED <<stream, broken>>
             \/ UNCHANGED received /\ broken' \in BOOLEAN /\ Grows(p)
  <2>1. UNCHANGED <<received, broken>> /\ broken \in BOOLEAN
    BY <1>3, PayloadSteps DEF bodyVars, Types
  <2>2. UNCHANGED stream \/ Grows(p)
    BY <1>3, PayloadSteps
  <2> QED
    BY <2>1, <2>2
<1>4. ASSUME NEW p \in Goroutines, Flush(p), UNCHANGED received
      PROVE  \/ UNCHANGED <<stream, received>> /\ broken' \in BOOLEAN /\ (broken => broken')
             \/ UNCHANGED received /\ broken' \in BOOLEAN /\ Grows(p)
  BY <1>4, FlushSteps
<1>5. CASE FlushReader
  BY <1>4, <1>5, GoroutinesAre DEF FlushReader
<1>6. CASE FlushMain
  BY <1>4, <1>6, GoroutinesAre DEF FlushMain
<1> QED
  BY <1>1, <1>2, <1>3, <1>5, <1>6, Steps

LEMMA TypesStep ==
  ASSUME Types, LockFits, BufferFits, JobsFit, [Next]_vars
  PROVE  Types'
<1> USE DEF Types
<1>1. stream' \in Seq(Items) /\ broken' \in BOOLEAN
  <2>1. ASSUME NEW p \in Goroutines, Grows(p) PROVE stream' \in Seq(Items)
    <3>1. job[p].frame \in Written
      BY <2>1, JobIs DEF Grows
    <3>2. PICK n \in 1..2 : stream' = stream \o SubSeq(Pair(job[p].frame), 1, n)
      BY <2>1 DEF Grows
    <3>3. n \in 0..2
      OBVIOUS
    <3> QED
      BY <3>1, <3>2, <3>3, PairAppended
  <2> QED
    BY <2>1, Growth
<1>2. CASE QuietStep
  <2>1. job' \in [Goroutines -> Jobs]
    BY <1>2, QuietJobs
  <2>2. inbox' \in Seq(BrowserFrames) /\ received' \in Seq(BrowserFrames)
    <3>1. CASE BrowserSends
      <4>1. PICK f \in BrowserFrames : inbox' = Append(inbox, f)
        BY <3>1 DEF BrowserSends
      <4> QED
        BY <3>1, <4>1 DEF BrowserSends
    <3>2. CASE Receive
      <4>1. inbox # <<>> /\ inbox' = Tail(inbox) /\ received' = Append(received, Head(inbox))
        BY <3>2 DEF Receive
      <4> QED
        BY <4>1
    <3>3. CASE ReceiveFails
      BY <3>3 DEF ReceiveFails
    <3>4. CASE \/ Handshake \/ BrowserGone \/ TakeRequest \/ Notify \/ TakeError \/ Leave \/ CloseSocket
               \/ HangUp \/ UNCHANGED vars
      <4>1. UNCHANGED <<inbox, received>>
        BY <3>4 DEF Handshake, BrowserGone, TakeRequest, Notify, TakeError, Leave, CloseSocket, HangUp,
                    vars, Mains
      <4> QED
        BY <4>1
    <3> QED
      BY <1>2, <3>1, <3>2, <3>3, <3>4, Zenon DEF QuietStep
  <2> QED
    BY <1>1, <2>1, <2>2
<1>3. ASSUME NEW p \in Goroutines, Lock(p) \/ WriteHeader(p) \/ WritePayload(p) PROVE Types'
  <2>1. UNCHANGED bodyVars /\ Busy(p)
    BY <1>3, LockSteps, HeaderSteps, PayloadSteps
  <2>2. PICK x \in {"header", "payload", "flush"} : job' = [job EXCEPT ![p].step = x]
    BY <1>3, LockSteps, HeaderSteps, PayloadSteps
  <2>3. job' \in [Goroutines -> Jobs]
    BY <2>1, <2>2, StepIs
  <2> QED
    BY <1>1, <2>1, <2>3 DEF bodyVars
<1>4. ASSUME NEW p \in Goroutines, Flush(p), UNCHANGED <<inbox, received>> PROVE Types'
  <2>1. job' \in [Goroutines -> Jobs]
    BY <1>4, FlushSteps, EndedIs
  <2> QED
    BY <1>1, <1>4, <2>1
<1>5. CASE FlushReader
  BY <1>4, <1>5, GoroutinesAre DEF FlushReader
<1>6. CASE FlushMain
  BY <1>4, <1>6, GoroutinesAre DEF FlushMain
<1> QED
  BY <1>2, <1>3, <1>5, <1>6, Steps

LEMMA LockStep ==
  ASSUME Types, LockFits, BufferFits, JobsFit, [Next]_vars
  PROVE  LockFits'
<1> SUFFICES ASSUME NEW q \in Goroutines, Busy(q)', job'[q].step # "lock" PROVE wio' = q
  BY DEF LockFits
<1>0. job \in [Goroutines -> Jobs]
  BY DEF Types
<1>1. CASE QuietStep
  <2>1. job'[q] = job[q] /\ UNCHANGED wio
    BY <1>1, QuietJobs
  <2> QED
    BY <2>1 DEF LockFits, Busy
<1>2. ASSUME NEW p \in Goroutines, Lock(p) PROVE wio' = q
  <2>1. wio' = p /\ Busy(p) /\ job' = [job EXCEPT ![p].step = "header"]
    BY <1>2, LockSteps
  <2>2. q # p => job'[q] = job[q]
    BY <1>0, <2>1, StepIs
  <2>3. q # p => job[q].step = "lock"
    <3>1. ASSUME q # p PROVE job[q].step = "lock"
      <4>1. Busy(q)
        BY <2>2, <3>1 DEF Busy
      <4> QED
        BY <1>2, <4>1, LockSteps
    <3> QED
      BY <3>1
  <2> QED
    BY <2>1, <2>2, <2>3
<1>3. ASSUME NEW p \in Goroutines, WriteHeader(p) \/ WritePayload(p) PROVE wio' = q
  <2>1. UNCHANGED wio /\ Busy(p) /\ job[p].step # "lock"
    BY <1>3, HeaderSteps, PayloadSteps
  <2>2. PICK x \in {"payload", "flush"} : job' = [job EXCEPT ![p].step = x]
    BY <1>3, HeaderSteps, PayloadSteps
  <2>3. q # p => job'[q] = job[q]
    BY <1>0, <2>1, <2>2, StepIs
  <2>4. Busy(q) /\ job[q].step # "lock"
    BY <2>1, <2>3 DEF Busy
  <2> QED
    BY <2>1, <2>4 DEF LockFits
<1>4. ASSUME NEW p \in Goroutines, Flush(p) PROVE FALSE
  <2>1. Busy(p) /\ job[p].step # "lock" /\ job' = [job EXCEPT ![p] = Idle]
    BY <1>4, FlushSteps
  <2>2. q # p
    BY <1>0, <2>1, EndedIs
  <2>3. job'[q] = job[q]
    BY <1>0, <2>1, <2>2, EndedIs
  <2>4. Busy(q) /\ job[q].step # "lock"
    BY <2>3 DEF Busy
  <2> QED
    BY <2>1, <2>2, <2>4 DEF LockFits
<1> QED
  BY <1>1, <1>2, <1>3, <1>4, Steps, GoroutinesAre DEF FlushReader, FlushMain

(* The last item of what has grown by a pair. *)
LEMMA LastOfPair ==
  ASSUME NEW s \in Seq(Items), NEW f \in Written, NEW r, r = s \o Pair(f)
  PROVE  r # <<>> /\ r[Len(r)] = Payload(f)
<1>1. PICK n \in 0..2 : n = 2
  OBVIOUS
<1>2. SubSeq(Pair(f), 1, n) = Pair(f)
  BY <1>1, PairIs
<1>3. /\ s \o SubSeq(Pair(f), 1, n) \in Seq(Items)
      /\ Len(s \o SubSeq(Pair(f), 1, n)) = Len(s) + n
      /\ n = 2 => (s \o SubSeq(Pair(f), 1, n))[Len(s) + 2] = Payload(f)
      /\ Len(s) \in Nat
  BY PairAppended
<1>4. r \in Seq(Items) /\ Len(r) = Len(s) + 2 /\ r[Len(s) + 2] = Payload(f) /\ Len(s) \in Nat
  BY <1>1, <1>2, <1>3
<1> QED
  BY <1>4, EmptySeq

LEMMA BufferStep ==
  ASSUME Types, LockFits, BufferFits, JobsFit, [Next]_vars
  PROVE  BufferFits'
<1>0. job \in [Goroutines -> Jobs]
  BY DEF Types
<1>1. CASE QuietStep
  <2>1. /\ UNCHANGED <<stream, buf, broken, wio>>
        /\ \A q \in Goroutines : job'[q] = job[q] \/ (~ Busy(q) /\ job'[q].step = "lock")
    BY <1>1, QuietJobs
  <2>2. ASSUME NEW q \in Goroutines, Busy(q)', job'[q].step # "lock" PROVE Busy(q) /\ job'[q] = job[q]
    BY <2>1, <2>2 DEF Busy
  <2>3. ASSUME NEW q \in Goroutines, Busy(q), job[q].step # "lock" PROVE Busy(q)' /\ job'[q] = job[q]
    BY <2>1, <2>3 DEF Busy
  <2>4. ASSUME broken' \/ ~ \E q \in Goroutines : Busy(q)' /\ job'[q].step # "lock" PROVE buf' = <<>>
    BY <2>1, <2>3, <2>4 DEF BufferFits
  <2>5. ASSUME ~ broken', NEW q \in Goroutines, Busy(q)', job'[q].step # "lock"
        PROVE  /\ job'[q].step = "header" => buf' = <<>>
               /\ job'[q].step = "payload" => buf' = <<Header(job'[q].frame)>>
               /\ job'[q].step = "flush" => buf' = Pair(job'[q].frame) \/ buf' = <<>>
               /\ Passed(q)' => stream' # <<>> /\ stream'[Len(stream')] = Payload(job'[q].frame)
    <3>1. ~ broken /\ Busy(q) /\ job'[q] = job[q]
      BY <2>1, <2>2, <2>5
    <3>2. Passed(q)' => Passed(q)
      BY <2>1, <3>1 DEF Passed
    <3> QED
      BY <2>1, <3>1, <3>2 DEF BufferFits
  <2>6. ASSUME NEW q \in Goroutines, job'[q].step = "lock" PROVE ~ Passed(q)'
    BY <2>6 DEF Passed
  <2> QED
    BY <2>4, <2>5, <2>6 DEF BufferFits
<1>2. ASSUME NEW p \in Goroutines, Busy(p), NEW x \in {"header", "payload", "flush"},
             job' = [job EXCEPT ![p].step = x],
             \A q \in Goroutines : q # p /\ Busy(q) => job[q].step = "lock",
             broken' => buf' = <<>>,
             ~ broken' /\ x = "header" => buf' = <<>>,
             ~ broken' /\ x = "payload" => buf' = <<Header(job[p].frame)>>,
             ~ broken' /\ x = "flush" =>
               \/ buf' = Pair(job[p].frame)
               \/ buf' = <<>> /\ stream' = stream \o Pair(job[p].frame)
      PROVE  BufferFits'
  <2>1. /\ Busy(p)' /\ job'[p].step = x /\ job'[p].frame = job[p].frame
        /\ \A q \in Goroutines : q # p => job'[q] = job[q]
    BY <1>0, <1>2, StepIs
  <2>2. PICK f \in Written : f = job[p].frame
    BY <1>0, <1>2, JobIs
  <2>3. \E q \in Goroutines : Busy(q)' /\ job'[q].step # "lock"
    BY <2>1
  <2>4. ASSUME NEW q \in Goroutines, q # p, Busy(q)' PROVE job'[q].step = "lock"
    <3>1. job'[q] = job[q]
      BY <2>1, <2>4
    <3>2. Busy(q)
      BY <2>4, <3>1 DEF Busy
    <3> QED
      BY <1>2, <2>4, <3>1, <3>2
  <2>5. ASSUME ~ broken', Passed(p)' PROVE stream' # <<>> /\ stream'[Len(stream')] = Payload(f)
    <3>1. x = "flush" /\ buf' = <<>>
      BY <2>1, <2>5 DEF Passed
    <3>2. buf' # Pair(f)
      BY <3>1, PairIs
    <3>3. stream' = stream \o Pair(f)
      BY <1>2, <2>2, <2>5, <3>1, <3>2
    <3>4. stream \in Seq(Items)
      BY DEF Types
    <3> QED
      BY <3>3, <3>4, LastOfPair
  <2>6. ASSUME NEW q \in Goroutines, job'[q].step = "lock" PROVE ~ Passed(q)'
    BY <2>6 DEF Passed
  <2>7. ASSUME broken' \/ ~ \E q \in Goroutines : Busy(q)' /\ job'[q].step # "lock" PROVE buf' = <<>>
    BY <1>2, <2>3, <2>7
  <2>8. ASSUME ~ broken', NEW q \in Goroutines, Busy(q)'
        PROVE  /\ job'[q].step = "header" => buf' = <<>>
               /\ job'[q].step = "payload" => buf' = <<Header(job'[q].frame)>>
               /\ job'[q].step = "flush" => buf' = Pair(job'[q].frame) \/ buf' = <<>>
               /\ Passed(q)' => stream' # <<>> /\ stream'[Len(stream')] = Payload(job'[q].frame)
    <3>1. CASE q = p
      BY <1>2, <2>1, <2>2, <2>5, <2>8, <3>1
    <3>2. CASE q # p
      BY <2>4, <2>6, <2>8, <3>2
    <3> QED
      BY <3>1, <3>2
  <2> QED
    BY <2>7, <2>8 DEF BufferFits
<1>3. ASSUME NEW p \in Goroutines, Lock(p) PROVE BufferFits'
  <2>1. /\ UNCHANGED broken /\ Busy(p) /\ job' = [job EXCEPT ![p].step = "header"] /\ buf' = <<>>
        /\ \A q \in Goroutines : Busy(q) => job[q].step = "lock"
    BY <1>3, LockSteps
  <2> QED
    BY <1>2, <2>1
<1>4. ASSUME NEW p \in Goroutines, WriteHeader(p) PROVE BufferFits'
  <2>1. /\ UNCHANGED broken /\ Busy(p) /\ job[p].step = "header"
        /\ job' = [job EXCEPT ![p].step = "payload"]
        /\ broken => UNCHANGED buf
        /\ ~ broken => buf' = <<Header(job[p].frame)>>
    BY <1>4, HeaderSteps
  <2>2. broken => buf = <<>>
    BY DEF BufferFits
  <2>3. \A q \in Goroutines : q # p /\ Busy(q) => job[q].step = "lock"
    BY <2>1, OneWriter
  <2> QED
    BY <1>2, <2>1, <2>2, <2>3
<1>5. ASSUME NEW p \in Goroutines, WritePayload(p) PROVE BufferFits'
  <2>1. /\ UNCHANGED broken /\ Busy(p) /\ job[p].step = "payload"
        /\ job' = [job EXCEPT ![p].step = "flush"]
    BY <1>5, PayloadSteps
  <2>2. \/ broken /\ UNCHANGED buf
        \/ ~ broken /\ buf' = Pair(job[p].frame)
        \/ ~ broken /\ buf' = <<>> /\ stream' = stream \o Pair(job[p].frame)
    BY <1>5, PayloadSteps
  <2>3. broken => buf = <<>>
    BY DEF BufferFits
  <2>4. \A q \in Goroutines : q # p /\ Busy(q) => job[q].step = "lock"
    BY <2>1, OneWriter
  <2> QED
    BY <1>2, <2>1, <2>2, <2>3, <2>4
<1>6. ASSUME NEW p \in Goroutines, Flush(p) PROVE BufferFits'
  <2>1. /\ buf' = <<>> /\ job' = [job EXCEPT ![p] = Idle] /\ Busy(p) /\ job[p].step # "lock"
    BY <1>6, FlushSteps
  <2>2. ~ Busy(p)' /\ \A q \in Goroutines : q # p => job'[q] = job[q]
    BY <1>0, <2>1, EndedIs
  <2>3. ASSUME NEW q \in Goroutines, Busy(q)' PROVE job'[q].step = "lock"
    <3>1. q # p /\ job'[q] = job[q]
      BY <2>2, <2>3
    <3>2. Busy(q)
      BY <2>3, <3>1 DEF Busy
    <3> QED
      BY <2>1, <3>1, <3>2, OneWriter
  <2>4. ASSUME NEW q \in Goroutines, job'[q].step = "lock" PROVE ~ Passed(q)'
    BY <2>4 DEF Passed
  <2> QED
    BY <2>1, <2>3, <2>4 DEF BufferFits
<1> QED
  BY <1>1, <1>3, <1>4, <1>5, <1>6, Steps, GoroutinesAre DEF FlushReader, FlushMain

LEMMA StreamIs ==
  ASSUME NEW s \in Seq(Items)
  PROVE  Len(s) \in Nat /\ DOMAIN s = 1..Len(s)
BY LenProperties

(* What has grown, item by item. *)
LEMMA Grown ==
  ASSUME Types, NEW p \in Goroutines, Grows(p)
  PROVE  \E n \in 1..2, f \in Written :
           /\ f = job[p].frame /\ (n = 1 => broken')
           /\ stream' \in Seq(Items) /\ Len(stream') = Len(stream) + n /\ Len(stream) \in Nat
           /\ DOMAIN stream = 1..Len(stream) /\ DOMAIN stream' = 1..(Len(stream) + n)
           /\ \A i \in 1..Len(stream) : stream'[i] = stream[i]
           /\ stream'[Len(stream) + 1] = Header(f)
           /\ n = 2 => stream'[Len(stream) + 2] = Payload(f)
<1>1. PICK f \in Written : f = job[p].frame
  BY JobIs DEF Grows, Types
<1>2. PICK n \in 1..2 : (n = 1 => broken') /\ stream' = stream \o SubSeq(Pair(f), 1, n)
  BY <1>1 DEF Grows
<1>3. n \in 0..2 /\ n >= 1
  OBVIOUS
<1>4. stream \in Seq(Items)
  BY DEF Types
<1>5. /\ stream' \in Seq(Items) /\ Len(stream') = Len(stream) + n /\ Len(stream) \in Nat
      /\ \A i \in 1..Len(stream) : stream'[i] = stream[i]
      /\ stream'[Len(stream) + 1] = Header(f)
      /\ n = 2 => stream'[Len(stream) + 2] = Payload(f)
  BY <1>2, <1>3, <1>4, PairAppended
<1>6. DOMAIN stream = 1..Len(stream) /\ DOMAIN stream' = 1..(Len(stream) + n)
  BY <1>4, <1>5, StreamIs
<1> QED
  BY <1>1, <1>2, <1>5, <1>6, Zenon

LEMMA PairedStep ==
  ASSUME Types, LockFits, BufferFits, JobsFit, Paired, [Next]_vars
  PROVE  Paired'
<1>1. CASE UNCHANGED stream /\ (broken => broken')
  BY <1>1 DEF Paired
<1>2. ASSUME NEW p \in Goroutines, Grows(p), broken' \in BOOLEAN PROVE Paired'
  <2>1. PICK n \in 1..2, f \in Written :
           /\ (n = 1 => broken')
           /\ Len(stream') = Len(stream) + n /\ Len(stream) \in Nat
           /\ DOMAIN stream = 1..Len(stream) /\ DOMAIN stream' = 1..(Len(stream) + n)
           /\ \A i \in 1..Len(stream) : stream'[i] = stream[i]
           /\ stream'[Len(stream) + 1] = Header(f)
           /\ n = 2 => stream'[Len(stream) + 2] = Payload(f)
    BY <1>2, Grown
  <2>2. PICK l \in Nat : l = Len(stream)
    BY <2>1
  <2>3. l % 2 = 0
    BY <1>2, <2>2 DEF Paired, Grows
  <2>4. ~ broken' => Len(stream') % 2 = 0
    <3>1. ASSUME ~ broken' PROVE Len(stream') % 2 = 0
      <4>1. Len(stream') = l + 2
        BY <2>1, <2>2, <3>1
      <4> QED
        BY <2>3, <4>1
    <3> QED
      BY <3>1
  <2>5. ASSUME NEW i \in 1..l
        PROVE  IF i % 2 = 1 THEN \E g \in Written : stream'[i] = Header(g)
               ELSE \E g \in Written : stream'[i] = Payload(g) /\ stream'[i - 1] = Header(g)
    <3>1. stream'[i] = stream[i] /\ i \in DOMAIN stream
      BY <2>1, <2>2
    <3>2. CASE i % 2 = 1
      BY <3>1, <3>2 DEF Paired
    <3>3. CASE ~ (i % 2 = 1)
      <4>1. i - 1 \in 1..l
        BY <3>3
      <4>2. stream'[i - 1] = stream[i - 1]
        BY <2>1, <2>2, <4>1
      <4> QED
        BY <3>1, <3>3, <4>2 DEF Paired
    <3> QED
      BY <3>2, <3>3
  <2>6. (l + 1) % 2 = 1 /\ ~ ((l + 2) % 2 = 1) /\ (l + 2) - 1 = l + 1
    BY <2>3
  <2>7. ASSUME NEW i \in DOMAIN stream'
        PROVE  IF i % 2 = 1 THEN \E g \in Written : stream'[i] = Header(g)
               ELSE \E g \in Written : stream'[i] = Payload(g) /\ stream'[i - 1] = Header(g)
    <3>1. i \in 1..l \/ i = l + 1 \/ (i = l + 2 /\ n = 2)
      BY <2>1, <2>2
    <3>2. CASE i = l + 1
      BY <2>1, <2>2, <2>6, <3>2
    <3>3. CASE i = l + 2 /\ n = 2
      <4>1. stream'[i] = Payload(f) /\ stream'[i - 1] = Header(f)
        BY <2>1, <2>2, <2>6, <3>3
      <4>2. ~ (i % 2 = 1)
        BY <2>6, <3>3
      <4> QED
        BY <4>1, <4>2
    <3> QED
      BY <2>5, <3>1, <3>2, <3>3
  <2> QED
    BY <2>4, <2>7 DEF Paired
<1> QED
  BY <1>1, <1>2, Growth

LEMMA PairedIsWhole ==
  ASSUME Types, Paired
  PROVE  FramesWhole
<1>1. PICK l \in Nat : l = Len(stream) /\ DOMAIN stream = 1..l
  BY StreamIs DEF Types
<1>2. ASSUME NEW i \in 1..(l \div 2)
      PROVE  /\ stream[2 * i - 1].kind = "header" /\ stream[2 * i].kind = "payload"
             /\ ParseHeader(stream[2 * i - 1].bytes) =
                  [fin |-> TRUE, op |-> Op[stream[2 * i].frame.op], masked |-> FALSE,
                   len |-> stream[2 * i].frame.len]
  <2>1. 2 * i \in 1..l /\ ~ ((2 * i) % 2 = 1)
    BY <1>1
  <2>2. PICK f \in Written : stream[2 * i] = Payload(f) /\ stream[2 * i - 1] = Header(f)
    BY <1>1, <2>1 DEF Paired
  <2>3. /\ Header(f).kind = "header" /\ Header(f).bytes = HeaderOf(f)
        /\ Payload(f).kind = "payload" /\ Payload(f).frame = f
    BY ItemsAre
  <2>4. ParseHeader(HeaderOf(f)) = [fin |-> TRUE, op |-> Op[f.op], masked |-> FALSE, len |-> f.len]
    BY HeaderParses
  <2> QED
    BY <2>2, <2>3, <2>4
<1>3. l % 2 = 1 => broken
  BY <1>1 DEF Paired, Types
<1> QED
  BY <1>1, <1>2, <1>3 DEF FramesWhole

LEMMA BeginsStep ==
  ASSUME Begins, JobsFit, [Next]_vars
  PROVE  Begins'
<1> SUFFICES ASSUME status' = 0 PROVE (received = <<>> /\ reader = "hijacked" /\ main = "hijacked")'
  BY DEF Begins
<1>1. CASE status # 0
  <2>1. status' = status \/ Handshake
    <3>1. CASE QuietStep
      BY <3>1 DEF QuietStep, BrowserSends, BrowserGone, Receive, ReceiveFails,
                  TakeRequest, Notify, TakeError, Leave, CloseSocket, HangUp, vars, Reads, Mains
    <3>2. ASSUME NEW p \in Goroutines, Lock(p) \/ WriteHeader(p) \/ WritePayload(p)
          PROVE  status' = status
      BY <3>2 DEF Lock, WriteHeader, WritePayload, bodyVars
    <3> QED
      BY <3>1, <3>2, Steps DEF FlushReader, FlushMain
  <2> QED
    BY <1>1, <2>1 DEF Handshake
<1>2. CASE status = 0
  <2>1. received = <<>> /\ reader = "hijacked" /\ main = "hijacked"
    BY <1>2 DEF Begins
  <2>2. ~ Busy("reader") /\ ~ Busy("main")
    BY <2>1 DEF JobsFit
  <2>3. ~ Handshake
    <3>1. \A r : StatusOf(r) # 0
      BY DEF StatusOf
    <3> QED
      BY <3>1 DEF Handshake
  <2>4. QuietStep
    BY <2>2, Steps, GoroutinesAre DEF Lock, WriteHeader, WritePayload, FlushReader, FlushMain, Flush
  <2>5. UNCHANGED vars
    BY <1>2, <2>1, <2>3, <2>4 DEF QuietStep, BrowserSends, BrowserGone, Receive, ReceiveFails,
                  TakeRequest, Notify, TakeError, Leave, CloseSocket, HangUp
  <2> QED
    BY <2>1, <2>5 DEF vars
<1> QED
  BY <1>1, <1>2

LEMMA OutcomeIs ==
  ASSUME NEW f
  PROVE  /\ Outcome(f) = "pong" <=> f.masked /\ f.op = "ping" /\ f.len > 0
         /\ Outcome(f) = "deliver" <=> f.masked /\ f.op \in {"request", "notification"}
         /\ Outcome(f) = "refuse" <=> ~ f.masked
         /\ Outcome(f) \in {"refuse", "pong", "deliver", "syntax", "failed"}
BY DEF Outcome

LEMMA PlacesAre ==
  ASSUME Types
  PROVE  /\ Pings \subseteq 1..Len(received) /\ Requests \subseteq 1..Len(received)
         /\ Len(received) \in Nat
BY ReceivedIs DEF Pings, Requests

(* What Receive adds to what was received. *)
LEMMA ReceiveAdds ==
  ASSUME Types, Receive
  PROVE  \E h \in BrowserFrames :
           /\ Len(received') = Len(received) + 1 /\ received'[Len(received) + 1] = h
           /\ \A i \in 1..Len(received) : received'[i] = received[i]
           /\ reader = "read" /\ reader' = Outcome(h) /\ UNCHANGED <<main, stream, broken>>
           /\ Pings' = Pings \cup (IF reader' = "pong" THEN {Len(received) + 1} ELSE {})
           /\ reader' # "deliver" => Requests' = Requests
           /\ Requests' \subseteq Requests \cup {Len(received) + 1}
           /\ Requests \subseteq Requests'
           /\ reader' = "refuse" => job' = [job EXCEPT !["reader"] = Job("close", 1002, 2)]
           /\ reader' = "pong" =>
                job' = [job EXCEPT !["reader"] = Job("pong", Len(received) + 1, PongLength(h))]
           /\ reader' \notin {"refuse", "pong"} => UNCHANGED job
<1>1. inbox # <<>> /\ inbox \in Seq(BrowserFrames)
  BY DEF Receive, Types
<1>2. PICK h \in BrowserFrames : h = Head(inbox)
  BY <1>1
<1>3. received' = Append(received, h) /\ received \in Seq(BrowserFrames)
  BY <1>2 DEF Receive, Types
<1>4. PICK l \in Nat : l = Len(received) /\ DOMAIN received = 1..l
  BY ReceivedIs
<1>5. /\ received' \in Seq(BrowserFrames) /\ Len(received') = l + 1 /\ received'[l + 1] = h
      /\ \A i \in 1..l : received'[i] = received[i]
  BY <1>3, <1>4, AppendProperties
<1>6. DOMAIN received' = 1..(l + 1)
  BY <1>5, LenProperties
<1>7. reader = "read" /\ reader' = Outcome(h) /\ UNCHANGED <<main, stream, broken>>
  BY <1>2 DEF Receive, Reads
<1>8. /\ reader' = "refuse" => job' = [job EXCEPT !["reader"] = Job("close", 1002, 2)]
      /\ reader' = "pong" =>
           job' = [job EXCEPT !["reader"] = Job("pong", Len(received'), PongLength(h))]
      /\ reader' \notin {"refuse", "pong"} => UNCHANGED job
  BY <1>2 DEF Receive
<1>9. \A i \in 1..(l + 1) : i \in 1..l \/ i = l + 1
  OBVIOUS
<1>10. Pings' = Pings \cup (IF reader' = "pong" THEN {l + 1} ELSE {})
  <2>1. \A i : i \in Pings' <=> i \in 1..(l + 1) /\ received'[i].masked /\ received'[i].op = "ping"
                              /\ received'[i].len > 0
    BY <1>6 DEF Pings
  <2>2. \A i : i \in Pings <=> i \in 1..l /\ received[i].masked /\ received[i].op = "ping"
                              /\ received[i].len > 0
    BY <1>4 DEF Pings
  <2>3. l + 1 \in Pings' <=> reader' = "pong"
    BY <1>5, <1>7, <2>1, OutcomeIs
  <2>4. \A i \in 1..l : i \in Pings' <=> i \in Pings
    BY <1>5, <1>9, <2>1, <2>2
  <2>5. l + 1 \notin 1..l
    OBVIOUS
  <2> QED
    BY <1>9, <2>1, <2>2, <2>3, <2>4, <2>5
<1>11. /\ reader' # "deliver" => Requests' = Requests
       /\ Requests' \subseteq Requests \cup {l + 1}
       /\ Requests \subseteq Requests'
  <2>1. \A i : i \in Requests' <=> i \in 1..(l + 1) /\ received'[i].masked /\ received'[i].op = "request"
    BY <1>6 DEF Requests
  <2>2. \A i : i \in Requests <=> i \in 1..l /\ received[i].masked /\ received[i].op = "request"
    BY <1>4 DEF Requests
  <2>3. l + 1 \in Requests' => reader' = "deliver"
    BY <1>5, <1>7, <2>1, OutcomeIs
  <2>4. \A i \in 1..l : i \in Requests' <=> i \in Requests
    BY <1>5, <1>9, <2>1, <2>2
  <2> QED
    BY <1>9, <2>1, <2>2, <2>3, <2>4
<1> QED
  BY <1>4, <1>5, <1>7, <1>8, <1>10, <1>11

LEMMA JobsFitStep ==
  ASSUME Types, LockFits, BufferFits, JobsFit, Begins, [Next]_vars
  PROVE  JobsFit'
<1>0. job \in [Goroutines -> Jobs] /\ "reader" \in Goroutines /\ "main" \in Goroutines
  BY DEF Types, Goroutines
<1>a. ASSUME UNCHANGED received PROVE Pings' = Pings /\ Requests' = Requests /\ Len(received') = Len(received)
  BY <1>a DEF Pings, Requests
<1>b. ASSUME UNCHANGED <<received, job, reader, main>> PROVE JobsFit'
  BY <1>a, <1>b DEF JobsFit, Busy
<1>c. {"text", "close", "pong"} \subseteq DOMAIN Op /\ 2 \in Lengths /\ 1000 \in Nat /\ 1002 \in Nat
  BY OpIs, SMT DEF Lengths
<1>e. ASSUME NEW p \in Goroutines, NEW o \in {"text", "close", "pong"}, NEW t \in Nat, NEW n \in Lengths,
             job' = [job EXCEPT ![p] = Job(o, t, n)]
      PROVE  /\ Busy(p)' /\ job'[p].frame.op = o /\ job'[p].frame.tag = t
             /\ \A q \in Goroutines : q # p => job'[q] = job[q]
  <2>1. o \in DOMAIN Op
    BY <1>c
  <2> QED
    BY <1>0, <1>e, <2>1, BegunIs, ZenonT(30)
<1>d. AnswerLength \in Lengths /\ Notices \subseteq Lengths
  BY LengthsAssumption DEF LengthsAssumption
<1>1. CASE BrowserSends \/ BrowserGone \/ UNCHANGED vars
  BY <1>1, <1>b DEF BrowserSends, BrowserGone, vars
<1>2. CASE Handshake
  <2>1. UNCHANGED <<received, job>> /\ reader' \in {"read", "done"} /\ main' \in {"select", "done"}
    BY <1>2 DEF Handshake
  <2>2. ~ Busy("reader") /\ ~ Busy("main")
    BY <1>2 DEF Handshake, Begins, JobsFit
  <2> QED
    BY <1>a, <2>1, <2>2 DEF JobsFit, Busy
<1>3. CASE Receive
  <2>1. PICK h \in BrowserFrames :
          /\ Len(received') = Len(received) + 1 /\ received'[Len(received) + 1] = h
          /\ reader = "read" /\ reader' = Outcome(h) /\ UNCHANGED main
          /\ Pings' = Pings \cup (IF reader' = "pong" THEN {Len(received) + 1} ELSE {})
          /\ Requests \subseteq Requests'
          /\ reader' = "refuse" => job' = [job EXCEPT !["reader"] = Job("close", 1002, 2)]
          /\ reader' = "pong" =>
               job' = [job EXCEPT !["reader"] = Job("pong", Len(received) + 1, PongLength(h))]
          /\ reader' \notin {"refuse", "pong"} => UNCHANGED job
    BY <1>3, ReceiveAdds
  <2>2. PICK l \in Nat : l = Len(received) /\ Requests \subseteq 1..l
    BY PlacesAre
  <2>3. ~ Busy("reader")
    BY <2>1 DEF JobsFit
  <2>4. /\ Busy("reader")' <=> reader' \in {"pong", "refuse"}
        /\ reader' = "pong" => job'["reader"].frame.op = "pong" /\ job'["reader"].frame.tag = l + 1
        /\ reader' = "refuse" => job'["reader"].frame.op = "close"
        /\ job'["main"] = job["main"]
    <3>1. CASE reader' = "pong"
      <4>1. PongLength(h) \in Lengths
        <5>1. h.len \in Nat
          BY LengthsAssumption DEF LengthsAssumption
        <5> QED
          BY SMT, <5>1 DEF PongLength, Lengths
      <4>2. PICK t \in Nat : t = l + 1
        OBVIOUS
      <4>3. job' = [job EXCEPT !["reader"] = Job("pong", t, PongLength(h))]
        BY <2>1, <2>2, <3>1, <4>2
      <4>4. /\ Busy("reader")' /\ job'["reader"].frame.op = "pong" /\ job'["reader"].frame.tag = t
            /\ \A q \in Goroutines : q # "reader" => job'[q] = job[q]
        BY <1>0, <1>e, <4>1, <4>3
      <4> QED
        BY <1>0, <3>1, <4>2, <4>4
    <3>2. CASE reader' = "refuse"
      <4>1. PICK t \in Nat : t = 1002
        BY <1>c
      <4>2. PICK n \in Lengths : n = 2
        BY <1>c
      <4>3. job' = [job EXCEPT !["reader"] = Job("close", t, n)]
        BY <2>1, <3>2, <4>1, <4>2
      <4>4. /\ Busy("reader")' /\ job'["reader"].frame.op = "close"
            /\ \A q \in Goroutines : q # "reader" => job'[q] = job[q]
        BY <1>0, <1>e, <4>3
      <4> QED
        BY <1>0, <3>2, <4>4
    <3>3. CASE reader' \notin {"pong", "refuse"}
      <4>1. UNCHANGED job
        BY <2>1, <3>3
      <4> QED
        BY <2>3, <3>3, <4>1 DEF Busy
    <3> QED
      BY <3>1, <3>2, <3>3
  <2>5. reader' = "deliver" => received'[l + 1].masked
    <3>1. received'[l + 1] = h
      BY <2>1, <2>2
    <3>2. Outcome(h) = "deliver" => h.masked
      BY OutcomeIs
    <3> QED
      BY <2>1, <3>1, <3>2
  <2>6. l + 1 # 0 /\ \A t \in Requests : t < l + 1
    BY <2>2
  <2>7. Busy("main")' <=> Busy("main")
    BY <2>4 DEF Busy
  <2>8. (reader = "deliver" => Len(received) # 0 /\ received[Len(received)].masked)'
    BY <2>1, <2>2, <2>5, <2>6
  <2>9. Busy("main")' /\ job'["main"].frame.op = "text" /\ job'["main"].frame.tag # 0 =>
          /\ main' = "send" /\ job'["main"].frame.tag \in Requests'
          /\ reader' = "deliver" => job'["main"].frame.tag < Len(received')
    <3>1. ASSUME Busy("main")', job'["main"].frame.op = "text", job'["main"].frame.tag # 0
          PROVE  main = "send" /\ job["main"].frame.tag \in Requests
      BY <2>4, <2>7, <3>1 DEF JobsFit
    <3>2. \A t \in Requests : t \in Requests' /\ t < Len(received')
      BY <2>1, <2>2, <2>6
    <3> QED
      BY <2>1, <2>4, <3>1, <3>2
  <2>10. /\ Busy("main")' <=> main' \in {"send", "sendLast", "closing"}
         /\ Busy("main")' => job'["main"].frame.op \in {"text", "close"}
    BY <2>1, <2>4, <2>7 DEF JobsFit
  <2>11. reader' = "pong" =>
           /\ job'["reader"].frame.op = "pong" /\ job'["reader"].frame.tag = Len(received')
           /\ Len(received') \in Pings'
    BY <2>1, <2>2, <2>4
  <2> QED
    BY <2>4, <2>8, <2>9, <2>10, <2>11 DEF JobsFit
<1>4. CASE ReceiveFails
  <2>1. UNCHANGED <<received, job, main>> /\ reader = "read" /\ reader' = "failed"
    BY <1>4 DEF ReceiveFails, Reads
  <2> QED
    BY <1>a, <2>1 DEF JobsFit, Busy
<1>5. ASSUME UNCHANGED received, ~ Busy("main"),
             NEW o \in {"text", "close"}, NEW t \in Nat, NEW n \in Lengths,
             job' = [job EXCEPT !["main"] = Job(o, t, n)],
             main' \in {"send", "sendLast", "closing"},
             o = "text" /\ t # 0 => main' = "send" /\ t \in Requests /\ reader' # "deliver",
             UNCHANGED reader \/ (reader \notin {"pong", "refuse"} /\ reader' \in {"read", "done"})
      PROVE  JobsFit'
  <2>1. /\ Busy("main")' /\ job'["main"].frame.op = o /\ job'["main"].frame.tag = t
        /\ \A q \in Goroutines : q # "main" => job'[q] = job[q]
    <3>1. o \in {"text", "close", "pong"} /\ "main" \in Goroutines
      BY <1>0, <1>5
    <3>2. job' = [job EXCEPT !["main"] = Job(o, t, n)]
      BY <1>5
    <3> QED
      BY <1>e, <3>1, <3>2
  <2>2. job'["reader"] = job["reader"]
    BY <1>0, <2>1
  <2>3. Busy("reader")' <=> Busy("reader")
    BY <2>2 DEF Busy
  <2>4. /\ Busy("reader")' <=> reader' \in {"pong", "refuse"}
        /\ reader' = "pong" =>
             /\ job'["reader"].frame.op = "pong" /\ job'["reader"].frame.tag = Len(received')
             /\ Len(received') \in Pings'
        /\ reader' = "refuse" => job'["reader"].frame.op = "close"
        /\ reader' = "deliver" => Len(received') # 0 /\ received'[Len(received')].masked
    BY <1>a, <1>5, <2>2, <2>3 DEF JobsFit
  <2>5. Busy("main")' /\ job'["main"].frame.op = "text" /\ job'["main"].frame.tag # 0 =>
          /\ main' = "send" /\ job'["main"].frame.tag \in Requests'
          /\ reader' = "deliver" => job'["main"].frame.tag < Len(received')
    BY <1>a, <1>5, <2>1
  <2>6. /\ Busy("main")' <=> main' \in {"send", "sendLast", "closing"}
        /\ Busy("main")' => job'["main"].frame.op \in {"text", "close"}
    BY <1>5, <2>1
  <2> QED
    BY <2>4, <2>5, <2>6 DEF JobsFit
<1>6. CASE TakeRequest
  <2>1. /\ main = "select" /\ reader = "deliver" /\ reader' = "read" /\ UNCHANGED received
        /\ \/ /\ received[Len(received)].op = "request"
              /\ job' = [job EXCEPT !["main"] = Job("text", Len(received), AnswerLength)]
              /\ main' = "send"
           \/ UNCHANGED <<job, main>>
    BY <1>6 DEF TakeRequest, Mains, Last
  <2>2. CASE UNCHANGED <<job, main>>
    BY <1>a, <2>1, <2>2 DEF JobsFit, Busy
  <2>3. CASE /\ received[Len(received)].op = "request"
             /\ job' = [job EXCEPT !["main"] = Job("text", Len(received), AnswerLength)]
             /\ main' = "send"
    <3>1. Len(received) \in Nat /\ Len(received) # 0 /\ received[Len(received)].masked
      BY <2>1, PlacesAre DEF JobsFit
    <3>2. Len(received) \in Requests
      BY <2>3, <3>1, ReceivedIs DEF Requests
    <3>3. ~ Busy("main")
      BY <2>1 DEF JobsFit
    <3> QED
      BY <1>5, <1>d, <2>1, <2>3, <3>1, <3>2, <3>3
  <2> QED
    BY <2>1, <2>2, <2>3
<1>7. CASE Notify
  <2>1. PICK n \in Lengths :
          /\ main = "select" /\ UNCHANGED <<received, reader>> /\ main' = "send"
          /\ job' = [job EXCEPT !["main"] = Job("text", 0, n)]
    BY <1>7, <1>d DEF Notify, Mains
  <2>2. ~ Busy("main")
    BY <2>1 DEF JobsFit
  <2>3. 0 \in Nat /\ main' \in {"send", "sendLast", "closing"} /\ "text" \in {"text", "close"}
    BY <2>1
  <2> QED
    BY <1>5, <2>1, <2>2, <2>3
<1>8. CASE TakeError
  <2>1. /\ main = "select" /\ reader \in {"failed", "syntax"} /\ reader' = "done" /\ UNCHANGED received
        /\ \/ /\ job' = [job EXCEPT !["main"] = Job("text", 0, AnswerLength)]
              /\ main' = "sendLast"
           \/ main' = "leave" /\ UNCHANGED job
    BY <1>8 DEF TakeError, Mains
  <2>2. ~ Busy("main") /\ 0 \in Nat
    BY <2>1 DEF JobsFit
  <2>3. CASE main' = "leave" /\ UNCHANGED job
    BY <1>a, <2>1, <2>2, <2>3 DEF JobsFit, Busy
  <2>4. CASE job' = [job EXCEPT !["main"] = Job("text", 0, AnswerLength)] /\ main' = "sendLast"
    BY <1>5, <1>d, <2>1, <2>2, <2>4
  <2> QED
    BY <2>1, <2>3, <2>4
<1>9. CASE CloseSocket
  <2>1. /\ main = "close" /\ UNCHANGED <<received, reader>> /\ main' = "closing"
        /\ job' = [job EXCEPT !["main"] = Job("close", 1000, 2)]
    BY <1>9 DEF CloseSocket, Mains
  <2>2. ~ Busy("main")
    BY <2>1 DEF JobsFit
  <2>3. PICK t \in Nat : t = 1000
    BY <1>c
  <2>4. PICK n \in Lengths : n = 2
    BY <1>c
  <2>5. PICK o \in {"text", "close"} : o = "close"
    OBVIOUS
  <2>6. /\ job' = [job EXCEPT !["main"] = Job(o, t, n)] /\ o # "text"
        /\ UNCHANGED <<received, reader>> /\ main' \in {"send", "sendLast", "closing"}
    BY <2>1, <2>3, <2>4, <2>5
  <2> QED
    BY <1>5, <2>2, <2>6
<1>10. CASE HangUp
  <2>1. UNCHANGED <<received, job, reader>> /\ main = "hangup" /\ main' = "done"
    BY <1>10 DEF HangUp
  <2> QED
    BY <1>a, <2>1 DEF JobsFit, Busy
<1>11. ASSUME NEW p \in Goroutines, Lock(p) \/ WriteHeader(p) \/ WritePayload(p) PROVE JobsFit'
  <2>1. UNCHANGED bodyVars /\ Busy(p)
    BY <1>11, LockSteps, HeaderSteps, PayloadSteps
  <2>2. PICK x \in {"header", "payload", "flush"} : job' = [job EXCEPT ![p].step = x]
    BY <1>11, LockSteps, HeaderSteps, PayloadSteps
  <2>3. /\ Busy(p)' /\ job'[p].frame = job[p].frame
        /\ \A q \in Goroutines : q # p => job'[q] = job[q]
    BY <1>0, <2>1, <2>2, StepIs
  <2>4. \A q \in Goroutines : (Busy(q)' <=> Busy(q)) /\ job'[q].frame = job[q].frame
    BY <2>1, <2>3 DEF Busy
  <2>5. UNCHANGED <<reader, main, received>> /\ Pings' = Pings /\ Requests' = Requests
    BY <1>a, <2>1 DEF bodyVars
  <2> QED
    BY <1>0, <2>4, <2>5 DEF JobsFit
<1>12. CASE FlushReader
  <2>1. /\ UNCHANGED <<received, main>> /\ reader' \in {"read", "failed"}
        /\ job' = [job EXCEPT !["reader"] = Idle]
    BY <1>0, <1>12, FlushSteps DEF FlushReader
  <2>2. ~ Busy("reader")' /\ job'["main"] = job["main"]
    BY <1>0, <2>1, EndedIs
  <2>3. Busy("main")' <=> Busy("main")
    BY <2>2 DEF Busy
  <2> QED
    BY <1>a, <2>1, <2>2, <2>3 DEF JobsFit
<1>13. CASE FlushMain
  <2>1. /\ UNCHANGED <<received, reader>> /\ main' \in {"hangup", "select", "leave"}
        /\ job' = [job EXCEPT !["main"] = Idle]
    BY <1>0, <1>13, FlushSteps DEF FlushMain, AfterSend
  <2>2. ~ Busy("main")' /\ job'["reader"] = job["reader"]
    BY <1>0, <2>1, EndedIs
  <2>3. Busy("reader")' <=> Busy("reader")
    BY <2>2 DEF Busy
  <2> QED
    BY <1>a, <2>1, <2>2, <2>3 DEF JobsFit
<1>14. CASE Leave
  <2>1. UNCHANGED <<received, job, reader>> /\ main = "leave" /\ main' = "close"
    BY <1>14 DEF Leave, Mains
  <2> QED
    BY <1>a, <2>1 DEF JobsFit, Busy
<1> QED
  BY <1>1, <1>2, <1>3, <1>4, <1>6, <1>7, <1>8, <1>9, <1>10, <1>11, <1>12, <1>13, <1>14, Steps
     DEF QuietStep

-----------------------------------------------------------------------------
(* The replies. *)

(* The replies in a stream that has grown: those it had, ...               *)
LEMMA RepliesStay ==
  ASSUME Types, NEW p \in Goroutines, Grows(p), NEW op, NEW i \in DOMAIN stream
  PROVE  /\ i \in DOMAIN stream' /\ stream'[i] = stream[i]
         /\ Replies(i, op)' <=> Replies(i, op)
<1>1. i \in DOMAIN stream' /\ stream'[i] = stream[i]
  BY Grown
<1> QED
  BY <1>1 DEF Replies

(* ... and the frame of p, if it is one and came whole.                    *)
LEMMA NewReply ==
  ASSUME Types, NEW p \in Goroutines, Grows(p), NEW op, NEW f \in Written, f = job[p].frame,
         NEW i \in DOMAIN stream', i \notin DOMAIN stream, Replies(i, op)'
  PROVE  /\ f.op = op /\ f.tag # 0 /\ stream'[i].frame.tag = f.tag
         /\ DOMAIN stream \subseteq 1..(i - 1)
         /\ \A j \in 1..(i - 1) : j \notin DOMAIN stream => ~ Replies(j, op)'
<1>1. PICK n \in 1..2 :
        /\ Len(stream) \in Nat
        /\ DOMAIN stream = 1..Len(stream) /\ DOMAIN stream' = 1..(Len(stream) + n)
        /\ stream'[Len(stream) + 1] = Header(f)
        /\ n = 2 => stream'[Len(stream) + 2] = Payload(f)
  BY Grown
<1>2. PICK l \in Nat : l = Len(stream)
  BY <1>1
<1>3. Header(f).kind = "header" /\ Payload(f).kind = "payload" /\ Payload(f).frame = f
  BY ItemsAre
<1>4. ~ Replies(l + 1, op)'
  BY <1>1, <1>2, <1>3 DEF Replies
<1>5. i = l + 2 /\ n = 2
  <2>1. i = l + 1 \/ (i = l + 2 /\ n = 2)
    BY <1>1, <1>2
  <2> QED
    BY <1>4, <2>1
<1>6. f.op = op /\ f.tag # 0 /\ stream'[i].frame.tag = f.tag
  <2>1. stream'[i].frame = f
    BY <1>1, <1>2, <1>3, <1>5
  <2> QED
    BY <2>1 DEF Replies
<1>7. \A j \in 1..(i - 1) : j \in 1..l \/ j = l + 1
  BY <1>5
<1>8. 1..l \subseteq 1..(i - 1)
  BY <1>5
<1> QED
  BY <1>1, <1>2, <1>4, <1>6, <1>7, <1>8

LEMMA GrowthSays ==
  ASSUME Types, NEW p \in Goroutines, Grows(p), NEW op, NEW f \in Written, f = job[p].frame,
         ~ broken', f.op = op, f.tag # 0
  PROVE  Said(op, f.tag)'
<1>1. PICK n \in 1..2 :
        /\ n = 1 => broken'
        /\ Len(stream) \in Nat /\ DOMAIN stream' = 1..(Len(stream) + n)
        /\ n = 2 => stream'[Len(stream) + 2] = Payload(f)
  BY Grown
<1>2. PICK i : i = Len(stream) + 2
  OBVIOUS
<1>3. i \in DOMAIN stream' /\ stream'[i] = Payload(f)
  BY <1>1, <1>2
<1>4. stream'[i].kind = "payload" /\ stream'[i].frame = f
  BY <1>3, ItemsAre
<1> QED
  BY <1>3, <1>4 DEF Said, Replies

LEMMA SaidStays ==
  ASSUME Types, NEW p \in Goroutines, Grows(p), NEW op, NEW t, Said(op, t)
  PROVE  Said(op, t)'
<1>1. PICK i \in DOMAIN stream : Replies(i, op) /\ stream[i].frame.tag = t
  BY DEF Said
<1>2. i \in DOMAIN stream' /\ stream'[i] = stream[i] /\ (Replies(i, op)' <=> Replies(i, op))
  BY RepliesStay
<1> QED
  BY <1>1, <1>2 DEF Said

(* A frame that is the next of its kind may be appended. *)
LEMMA AnswersKept ==
  ASSUME Types, NEW p \in Goroutines, Grows(p), NEW op, NEW S, AnswersOneByOne(op, S),
         job[p].frame.op = op /\ job[p].frame.tag # 0 =>
           /\ job[p].frame.tag \in S
           /\ \A i \in DOMAIN stream : Replies(i, op) => stream[i].frame.tag < job[p].frame.tag
           /\ \A u \in S : u < job[p].frame.tag => Said(op, u)
  PROVE  AnswersOneByOne(op, S)'
<1>a. PICK f \in Written : f = job[p].frame
  <2>1. Busy(p)
    BY DEF Grows
  <2> QED
    BY <2>1, JobIs DEF Types
<1>b. ASSUME NEW i \in DOMAIN stream', i \notin DOMAIN stream, Replies(i, op)'
      PROVE  /\ f.op = op /\ f.tag # 0 /\ stream'[i].frame.tag = f.tag
             /\ DOMAIN stream \subseteq 1..(i - 1)
             /\ \A j \in 1..(i - 1) : j \notin DOMAIN stream => ~ Replies(j, op)'
  BY <1>a, <1>b, NewReply DEF Replies
<1>1. /\ f = job[p].frame
      /\ \A i \in DOMAIN stream :
           /\ i \in DOMAIN stream' /\ stream'[i] = stream[i]
           /\ Replies(i, op)' <=> Replies(i, op)
      /\ \A i \in DOMAIN stream' : i \notin DOMAIN stream /\ Replies(i, op)' =>
           /\ f.op = op /\ f.tag # 0 /\ stream'[i].frame.tag = f.tag
           /\ DOMAIN stream \subseteq 1..(i - 1)
           /\ \A j \in 1..(i - 1) : j \notin DOMAIN stream => ~ Replies(j, op)'
  <2>1. ASSUME NEW i \in DOMAIN stream
        PROVE  /\ i \in DOMAIN stream' /\ stream'[i] = stream[i]
               /\ Replies(i, op)' <=> Replies(i, op)
    BY RepliesStay
  <2> QED
    BY <1>a, <1>b, <2>1, Zenon
<1>2. DOMAIN stream = 1..Len(stream) /\ Len(stream) \in Nat
  BY StreamIs DEF Types
<1>3. ASSUME NEW i \in DOMAIN stream, Replies(i, op)
      PROVE  /\ stream[i].frame.tag \in S
             /\ \A j \in 1..(i - 1) : Replies(j, op) => stream[j].frame.tag < stream[i].frame.tag
             /\ \A u \in S : u < stream[i].frame.tag =>
                  \E j \in 1..(i - 1) : Replies(j, op) /\ stream[j].frame.tag = u
  BY <1>3 DEF AnswersOneByOne
<1>4. ASSUME NEW i \in DOMAIN stream', Replies(i, op)'
      PROVE  /\ stream'[i].frame.tag \in S
             /\ \A j \in 1..(i - 1) : Replies(j, op)' => stream'[j].frame.tag < stream'[i].frame.tag
             /\ \A u \in S : u < stream'[i].frame.tag =>
                  \E j \in 1..(i - 1) : Replies(j, op)' /\ stream'[j].frame.tag = u
  <2>1. CASE i \in DOMAIN stream
    <3>1. \A j \in 1..(i - 1) : j \in DOMAIN stream
      BY <1>2, <2>1
    <3>2. \A j \in 1..(i - 1) : stream'[j] = stream[j] /\ (Replies(j, op)' <=> Replies(j, op))
      BY <1>1, <3>1
    <3>3. stream'[i] = stream[i] /\ Replies(i, op)
      BY <1>1, <1>4, <2>1
    <3>4. /\ stream[i].frame.tag \in S
          /\ \A j \in 1..(i - 1) : Replies(j, op) => stream[j].frame.tag < stream[i].frame.tag
          /\ \A u \in S : u < stream[i].frame.tag =>
               \E j \in 1..(i - 1) : Replies(j, op) /\ stream[j].frame.tag = u
      BY <1>3, <2>1, <3>3
    <3>5. \A j \in 1..(i - 1) : Replies(j, op)' => stream'[j].frame.tag < stream'[i].frame.tag
      BY <3>2, <3>3, <3>4
    <3>6. ASSUME NEW u \in S, u < stream'[i].frame.tag
          PROVE  \E j \in 1..(i - 1) : Replies(j, op)' /\ stream'[j].frame.tag = u
      BY <3>2, <3>3, <3>4, <3>6
    <3> QED
      BY <3>3, <3>4, <3>5, <3>6
  <2>2. CASE i \notin DOMAIN stream
    <3>1. /\ f.op = op /\ f.tag # 0 /\ stream'[i].frame.tag = f.tag
          /\ DOMAIN stream \subseteq 1..(i - 1)
          /\ \A j \in 1..(i - 1) : j \notin DOMAIN stream => ~ Replies(j, op)'
      BY <1>1, <1>4, <2>2
    <3>2. /\ f.tag \in S
          /\ \A j \in DOMAIN stream : Replies(j, op) => stream[j].frame.tag < f.tag
          /\ \A u \in S : u < f.tag => Said(op, u)
      BY <1>1, <3>1
    <3>3. ASSUME NEW j \in 1..(i - 1), Replies(j, op)'
          PROVE  stream'[j].frame.tag < stream'[i].frame.tag
      <4>1. j \in DOMAIN stream
        BY <3>1, <3>3
      <4> QED
        BY <1>1, <3>1, <3>2, <3>3, <4>1
    <3>4. ASSUME NEW u \in S, u < stream'[i].frame.tag
          PROVE  \E j \in 1..(i - 1) : Replies(j, op)' /\ stream'[j].frame.tag = u
      <4>1. Said(op, u)
        BY <3>1, <3>2, <3>4
      <4>2. PICK j \in DOMAIN stream : Replies(j, op) /\ stream[j].frame.tag = u
        BY <4>1 DEF Said
      <4> QED
        BY <1>1, <3>1, <4>2
    <3> QED
      BY <3>1, <3>2, <3>3, <3>4
  <2> QED
    BY <2>1, <2>2
<1> QED
  BY <1>4 DEF AnswersOneByOne

(* More may be received: what comes later is answered later. *)
LEMMA MoreToAnswer ==
  ASSUME NEW op, NEW S, NEW T, S \subseteq T, NEW l \in Nat, S \subseteq 1..l, T \subseteq 1..(l + 1),
         T \ S \subseteq {l + 1}, AnswersOneByOne(op, S)
  PROVE  AnswersOneByOne(op, T)
<1> SUFFICES ASSUME NEW i \in DOMAIN stream, Replies(i, op)
             PROVE  /\ stream[i].frame.tag \in T
                    /\ \A j \in 1..(i - 1) : Replies(j, op) => stream[j].frame.tag < stream[i].frame.tag
                    /\ \A u \in T : u < stream[i].frame.tag =>
                         \E j \in 1..(i - 1) : Replies(j, op) /\ stream[j].frame.tag = u
  BY DEF AnswersOneByOne
<1>1. /\ stream[i].frame.tag \in S
      /\ \A j \in 1..(i - 1) : Replies(j, op) => stream[j].frame.tag < stream[i].frame.tag
      /\ \A u \in S : u < stream[i].frame.tag =>
           \E j \in 1..(i - 1) : Replies(j, op) /\ stream[j].frame.tag = u
  BY DEF AnswersOneByOne
<1>2. ~ (l + 1 < stream[i].frame.tag)
  <2>1. stream[i].frame.tag \in 1..l
    BY <1>1
  <2> QED
    BY <2>1
<1>3. ASSUME NEW u \in T, u < stream[i].frame.tag PROVE u \in S
  BY <1>2, <1>3
<1> QED
  BY <1>1, <1>3

LEMMA ReceivedStep ==
  ASSUME Types, JobsFit, [Next]_vars, ~ Receive
  PROVE  UNCHANGED received
<1>1. CASE QuietStep
  BY <1>1 DEF QuietStep, Handshake, BrowserSends, BrowserGone, ReceiveFails,
              TakeRequest, Notify, TakeError, Leave, CloseSocket, HangUp, vars, Reads, Mains
<1>2. ASSUME NEW p \in Goroutines, Lock(p) \/ WriteHeader(p) \/ WritePayload(p)
      PROVE  UNCHANGED received
  BY <1>2 DEF Lock, WriteHeader, WritePayload, bodyVars
<1> QED
  BY <1>1, <1>2, Steps DEF FlushReader, FlushMain

(* A frame that comes to the stream is the next of its kind. *)
LEMMA NextOfItsKind ==
  ASSUME Types, JobsFit, Fresh, Answered, NEW p \in Goroutines, Grows(p),
         job[p].frame.op # "close", job[p].frame.tag # 0
  PROVE  \/ /\ p = "reader" /\ job[p].frame.op = "pong" /\ job[p].frame.tag \in Pings
            /\ \A i \in DOMAIN stream : Replies(i, "pong") => stream[i].frame.tag < job[p].frame.tag
            /\ \A u \in Pings : u < job[p].frame.tag => Said("pong", u)
         \/ /\ p = "main" /\ job[p].frame.op = "text" /\ job[p].frame.tag \in Requests
            /\ \A i \in DOMAIN stream : Replies(i, "text") => stream[i].frame.tag < job[p].frame.tag
            /\ \A u \in Requests : u < job[p].frame.tag => Said("text", u)
            /\ reader = "deliver" => job[p].frame.tag < Len(received)
<1>1. ~ broken /\ Busy(p) /\ ~ Passed(p)
  BY DEF Grows
<1>2. \A i \in DOMAIN stream : Replies(i, job[p].frame.op) => stream[i].frame.tag < job[p].frame.tag
  BY <1>1 DEF Fresh, Newer
<1>3. /\ \A t \in Pings : (reader = "pong" /\ t = Len(received)) \/ Said("pong", t)
      /\ main \in {"select", "send"} =>
           \A t \in Requests :
             \/ reader = "deliver" /\ t = Len(received)
             \/ Busy("main") /\ job["main"].frame.op = "text" /\ job["main"].frame.tag = t
             \/ Said("text", t)
  BY <1>1 DEF Answered, Complete
<1>4. Pings \subseteq 1..Len(received) /\ Requests \subseteq 1..Len(received) /\ Len(received) \in Nat
  BY PlacesAre
<1>5. CASE p = "reader"
  <2>1. reader = "pong"
    BY <1>1, <1>5 DEF JobsFit
  <2>2. job[p].frame.op = "pong" /\ job[p].frame.tag = Len(received) /\ Len(received) \in Pings
    BY <1>5, <2>1 DEF JobsFit
  <2>3. \A u \in Pings : u < job[p].frame.tag => Said("pong", u)
    BY <1>3, <1>4, <2>2
  <2> QED
    BY <1>2, <1>5, <2>2, <2>3
<1>6. CASE p = "main"
  <2>1. job[p].frame.op = "text"
    BY <1>1, <1>6 DEF JobsFit
  <2>2. /\ main = "send" /\ job[p].frame.tag \in Requests
        /\ reader = "deliver" => job[p].frame.tag < Len(received)
    BY <1>1, <1>6, <2>1 DEF JobsFit
  <2>3. ASSUME NEW u \in Requests, u < job[p].frame.tag PROVE Said("text", u)
    <3>1. ~ (reader = "deliver" /\ u = Len(received))
      BY <1>4, <2>2, <2>3
    <3>2. job["main"].frame.tag # u
      BY <1>4, <1>6, <2>2, <2>3
    <3> QED
      BY <1>3, <2>2, <3>1, <3>2
  <2> QED
    BY <1>2, <1>6, <2>1, <2>2, <2>3
<1> QED
  BY <1>5, <1>6, GoroutinesAre

LEMMA RepliesStep ==
  ASSUME Types, LockFits, BufferFits, JobsFit, Fresh, Answered, RepliesInOrder, [Next]_vars
  PROVE  RepliesInOrder'
<1>1. PICK S : S = Pings /\ AnswersOneByOne("pong", S)
  BY DEF RepliesInOrder
<1>2. PICK T : T = Requests /\ AnswersOneByOne("text", T)
  BY DEF RepliesInOrder
<1>3. CASE Receive
  <2>1. PICK l \in Nat : l = Len(received)
    BY PlacesAre
  <2>2. /\ UNCHANGED stream
        /\ Pings' = S \cup (IF reader' = "pong" THEN {l + 1} ELSE {})
        /\ Requests' \subseteq T \cup {l + 1} /\ T \subseteq Requests'
    BY <1>1, <1>2, <1>3, <2>1, ReceiveAdds
  <2>3. S \subseteq 1..l /\ T \subseteq 1..l
    BY <1>1, <1>2, <2>1, PlacesAre
  <2>4. PICK S2 : S2 = Pings'
    OBVIOUS
  <2>5. PICK T2 : T2 = Requests'
    OBVIOUS
  <2>6. /\ S \subseteq S2 /\ S2 \subseteq 1..(l + 1) /\ S2 \ S \subseteq {l + 1}
        /\ T \subseteq T2 /\ T2 \subseteq 1..(l + 1) /\ T2 \ T \subseteq {l + 1}
    BY <2>2, <2>3, <2>4, <2>5
  <2>7. AnswersOneByOne("pong", S2)
    BY <1>1, <2>3, <2>6, MoreToAnswer
  <2>8. AnswersOneByOne("text", T2)
    BY <1>2, <2>3, <2>6, MoreToAnswer
  <2>9. AnswersOneByOne("pong", S2)' /\ AnswersOneByOne("text", T2)'
    BY <2>2, <2>7, <2>8 DEF AnswersOneByOne, Replies
  <2> QED
    BY <2>4, <2>5, <2>9 DEF RepliesInOrder
<1>4. CASE ~ Receive
  <2>1. UNCHANGED received
    BY <1>4, ReceivedStep
  <2>2. S = Pings' /\ T = Requests'
    BY <1>1, <1>2, <2>1 DEF Pings, Requests
  <2>3. CASE UNCHANGED stream
    <3>1. AnswersOneByOne("pong", S)' /\ AnswersOneByOne("text", T)'
      BY <1>1, <1>2, <2>3 DEF AnswersOneByOne, Replies
    <3> QED
      BY <2>2, <3>1 DEF RepliesInOrder
  <2>4. ASSUME NEW p \in Goroutines, Grows(p) PROVE RepliesInOrder'
    <3>1. job[p].frame.op = "pong" /\ job[p].frame.tag # 0 =>
            /\ job[p].frame.tag \in S
            /\ \A i \in DOMAIN stream : Replies(i, "pong") => stream[i].frame.tag < job[p].frame.tag
            /\ \A u \in S : u < job[p].frame.tag => Said("pong", u)
      BY <1>1, <2>4, NextOfItsKind
    <3>2. job[p].frame.op = "text" /\ job[p].frame.tag # 0 =>
            /\ job[p].frame.tag \in T
            /\ \A i \in DOMAIN stream : Replies(i, "text") => stream[i].frame.tag < job[p].frame.tag
            /\ \A u \in T : u < job[p].frame.tag => Said("text", u)
      BY <1>2, <2>4, NextOfItsKind
    <3>3. AnswersOneByOne("pong", S)'
      BY <1>1, <2>4, <3>1, AnswersKept
    <3>4. AnswersOneByOne("text", T)'
      BY <1>2, <2>4, <3>2, AnswersKept
    <3> QED
      BY <2>2, <3>3, <3>4 DEF RepliesInOrder
  <2> QED
    BY <2>3, <2>4, Growth
<1> QED
  BY <1>3, <1>4

(* The tags in the stream are places of what was received. *)
LEMMA TagsAre ==
  ASSUME Types, RepliesInOrder, NEW op \in {"pong", "text"}, NEW t, t = Len(received) + 1
  PROVE  Newer(op, t)
<1> SUFFICES ASSUME NEW i \in DOMAIN stream, Replies(i, op) PROVE stream[i].frame.tag < t
  BY DEF Newer
<1>1. op = "pong" => stream[i].frame.tag \in Pings
  BY DEF RepliesInOrder, AnswersOneByOne
<1>2. op = "text" => stream[i].frame.tag \in Requests
  BY DEF RepliesInOrder, AnswersOneByOne
<1>3. stream[i].frame.tag \in 1..Len(received) /\ Len(received) \in Nat
  BY <1>1, <1>2, PlacesAre
<1> QED
  BY <1>3

(* Each goroutine writes its own kinds of frames. *)
LEMMA Kinds ==
  ASSUME JobsFit, NEW q \in Goroutines, Busy(q)
  PROVE  IF q = "reader" THEN job[q].frame.op \in {"pong", "close"}
         ELSE q = "main" /\ job[q].frame.op \in {"text", "close"}
<1>1. CASE q = "reader"
  <2>1. reader \in {"pong", "refuse"}
    BY <1>1 DEF JobsFit
  <2> QED
    BY <1>1, <2>1 DEF JobsFit
<1>2. CASE q = "main"
  BY <1>2 DEF JobsFit
<1> QED
  BY <1>1, <1>2, GoroutinesAre

LEMMA NewerStays ==
  ASSUME UNCHANGED stream, NEW op, NEW t, Newer(op, t)
  PROVE  Newer(op, t)'
BY DEF Newer, Replies

(* What must be shown of a step. *)
LEMMA FreshFits ==
  ASSUME ~ broken' =>
           /\ \A q \in Goroutines : \A op, t :
                /\ Busy(q)' /\ ~ Passed(q)' /\ op = job'[q].frame.op /\ t = job'[q].frame.tag
                /\ op # "close" /\ t # 0
                => Newer(op, t)'
           /\ \A t : reader' = "deliver" /\ t = Len(received') => Newer("text", t)'
  PROVE  Fresh'
BY DEF Fresh, Newer, Replies

(* A step that leaves the stream as it is, and the jobs but for what is    *)
(* newer than the stream.                                                  *)
LEMMA FreshKept ==
  ASSUME UNCHANGED <<stream, broken, buf, received>>, Fresh,
         reader' = "deliver" => reader = "deliver",
         \A q \in Goroutines :
           \/ job'[q] = job[q] \/ job'[q].frame.op = "close" \/ job'[q].frame.tag = 0
           \/ \A op, t : op = job'[q].frame.op /\ t = job'[q].frame.tag => broken \/ Newer(op, t)
  PROVE  Fresh'
<1> SUFFICES ASSUME ~ broken'
             PROVE  /\ \A q \in Goroutines : \A op, t :
                         /\ Busy(q)' /\ ~ Passed(q)' /\ op = job'[q].frame.op /\ t = job'[q].frame.tag
                         /\ op # "close" /\ t # 0
                         => Newer(op, t)'
                    /\ \A t : reader' = "deliver" /\ t = Len(received') => Newer("text", t)'
  BY FreshFits
<1>1. ~ broken
  OBVIOUS
<1>2. ASSUME NEW q \in Goroutines, NEW op, NEW t, Busy(q)', ~ Passed(q)',
             op = job'[q].frame.op, t = job'[q].frame.tag, op # "close", t # 0
      PROVE  Newer(op, t)
  <2>1. CASE job'[q] = job[q]
    <3>1. Busy(q) /\ ~ Passed(q) /\ op = job[q].frame.op /\ t = job[q].frame.tag
      BY <1>2, <2>1 DEF Busy, Passed
    <3> QED
      BY <1>1, <1>2, <3>1 DEF Fresh
  <2>2. CASE job'[q] # job[q]
    BY <1>1, <1>2, <2>2
  <2> QED
    BY <2>1, <2>2
<1>3. ASSUME NEW t, reader' = "deliver", t = Len(received')
      PROVE  Newer("text", t)
  BY <1>1, <1>3 DEF Fresh
<1> QED
  BY <1>2, <1>3, NewerStays

LEMMA FreshReceive ==
  ASSUME Types, JobsFit, JobsFit', Fresh, RepliesInOrder, Receive
  PROVE  Fresh'
<1>0. job \in [Goroutines -> Jobs] /\ "reader" \in Goroutines /\ "main" \in Goroutines
  BY DEF Types, Goroutines
<1>1. PICK h \in BrowserFrames :
        /\ Len(received') = Len(received) + 1
        /\ UNCHANGED <<main, stream, broken>>
        /\ reader' = "refuse" => job' = [job EXCEPT !["reader"] = Job("close", 1002, 2)]
        /\ reader' = "pong" =>
             job' = [job EXCEPT !["reader"] = Job("pong", Len(received) + 1, PongLength(h))]
        /\ reader' \notin {"refuse", "pong"} => UNCHANGED job
  BY ReceiveAdds
<1>2. UNCHANGED buf
  BY DEF Receive, Reads
<1>3. job'["main"] = job["main"]
  BY <1>0, <1>1
<1> SUFFICES ASSUME ~ broken'
             PROVE  /\ \A q \in Goroutines : \A op, t :
                         /\ Busy(q)' /\ ~ Passed(q)' /\ op = job'[q].frame.op /\ t = job'[q].frame.tag
                         /\ op # "close" /\ t # 0
                         => Newer(op, t)'
                    /\ \A t : reader' = "deliver" /\ t = Len(received') => Newer("text", t)'
  BY FreshFits
<1>4. ~ broken
  BY <1>1
<1>5. ASSUME NEW q \in Goroutines, NEW op, NEW t, Busy(q)', ~ Passed(q)',
             op = job'[q].frame.op, t = job'[q].frame.tag, op # "close", t # 0
      PROVE  Newer(op, t)
  <2>1. CASE q = "main"
    <3>1. Busy(q) /\ ~ Passed(q) /\ op = job[q].frame.op /\ t = job[q].frame.tag
      BY <1>2, <1>3, <1>5, <2>1 DEF Busy, Passed
    <3> QED
      BY <1>4, <1>5, <3>1 DEF Fresh
  <2>2. CASE q = "reader"
    <3>1. reader' = "pong"
      <4>1. Busy("reader")' /\ job'["reader"].frame.op # "close"
        BY <1>5, <2>2
      <4>2. reader' \in {"pong", "refuse"}
        BY <4>1 DEF JobsFit
      <4>3. reader' = "refuse" => job'["reader"].frame.op = "close"
        BY DEF JobsFit
      <4> QED
        BY <4>1, <4>2, <4>3
    <3>2. op = "pong" /\ t = Len(received')
      <4>1. job'["reader"].frame.op = "pong" /\ job'["reader"].frame.tag = Len(received')
        BY <3>1 DEF JobsFit
      <4> QED
        BY <1>5, <2>2, <4>1
    <3> QED
      BY <1>1, <3>2, TagsAre
  <2> QED
    BY <2>1, <2>2, GoroutinesAre
<1>6. ASSUME NEW t, reader' = "deliver", t = Len(received') PROVE Newer("text", t)
  BY <1>1, <1>6, TagsAre
<1>7. UNCHANGED stream
  BY <1>1
<1> QED
  BY <1>5, <1>6, <1>7, NewerStays

LEMMA FreshQuiet ==
  ASSUME Types, JobsFit, Fresh, QuietStep, ~ Receive, [Next]_vars
  PROVE  Fresh'
<1>0. job \in [Goroutines -> Jobs] /\ "reader" \in Goroutines /\ "main" \in Goroutines
  BY DEF Types, Goroutines
<1>1. UNCHANGED <<stream, broken, buf, received>>
  BY QuietJobs, ReceivedStep
<1>2. reader' = "deliver" => reader = "deliver"
  BY DEF QuietStep, Handshake, BrowserSends, BrowserGone, ReceiveFails, Reads, Mains,
         TakeRequest, Notify, TakeError, Leave, CloseSocket, HangUp, vars
<1>3. {"text", "close", "pong"} \subseteq DOMAIN Op /\ 2 \in Lengths /\ 1000 \in Nat
  BY OpIs, SMT DEF Lengths
<1>4. AnswerLength \in Lengths /\ Notices \subseteq Lengths
  BY LengthsAssumption DEF LengthsAssumption
<1>5. ASSUME NEW o \in {"text", "close"}, NEW t \in Nat, NEW n \in Lengths,
             job' = [job EXCEPT !["main"] = Job(o, t, n)],
             o # "close" /\ t # 0 => broken \/ Newer(o, t)
      PROVE  Fresh'
  <2>1. /\ job'["main"].frame.op = o /\ job'["main"].frame.tag = t
        /\ \A q \in Goroutines : q # "main" => job'[q] = job[q]
    <3>1. o \in DOMAIN Op
      BY <1>3
    <3>2. PICK p \in Goroutines : p = "main"
      BY <1>0
    <3>3. job' = [job EXCEPT ![p] = Job(o, t, n)]
      BY <1>5, <3>2
    <3>4. /\ job'[p].frame.op = o /\ job'[p].frame.tag = t
          /\ \A q \in Goroutines : q # p => job'[q] = job[q]
      BY <1>0, <3>1, <3>3, BegunIs, ZenonT(30)
    <3> QED
      BY <3>2, <3>4
  <2>2. ASSUME NEW q \in Goroutines
        PROVE  \/ job'[q] = job[q] \/ job'[q].frame.op = "close" \/ job'[q].frame.tag = 0
               \/ \A op, u : op = job'[q].frame.op /\ u = job'[q].frame.tag => broken \/ Newer(op, u)
    <3>1. CASE q = "main"
      <4>1. o = "close" \/ t = 0 \/ broken \/ Newer(o, t)
        BY <1>5
      <4>2. \A op, u : op = job'[q].frame.op /\ u = job'[q].frame.tag => op = o /\ u = t
        BY <2>1, <3>1
      <4> QED
        BY <2>1, <3>1, <4>1, <4>2, Zenon
    <3>2. CASE q # "main"
      BY <2>1, <3>2
    <3> QED
      BY <3>1, <3>2
  <2> QED
    BY <1>1, <1>2, <2>2, FreshKept
<1>6. CASE UNCHANGED job
  <2>1. \A q \in Goroutines : job'[q] = job[q]
    BY <1>6
  <2> QED
    BY <1>1, <1>2, <2>1, FreshKept
<1>7. CASE TakeRequest /\ job' = [job EXCEPT !["main"] = Job("text", Len(received), AnswerLength)]
  <2>1. reader = "deliver"
    BY <1>7 DEF TakeRequest
  <2>2. PICK t \in Nat : t = Len(received)
    BY PlacesAre
  <2>3. broken \/ Newer("text", t)
    BY <2>1, <2>2 DEF Fresh
  <2>4. job' = [job EXCEPT !["main"] = Job("text", t, AnswerLength)]
    BY <1>7, <2>2
  <2>5. PICK o \in {"text", "close"} : o = "text"
    OBVIOUS
  <2>6. (broken \/ Newer(o, t)) /\ job' = [job EXCEPT !["main"] = Job(o, t, AnswerLength)]
    BY <2>3, <2>4, <2>5
  <2> QED
    BY <1>4, <1>5, <2>6
<1>8. ASSUME NEW n \in Lengths, job' = [job EXCEPT !["main"] = Job("text", 0, n)] PROVE Fresh'
  <2>1. 0 \in Nat /\ "text" \in {"text", "close"}
    OBVIOUS
  <2> QED
    BY <1>5, <1>8, <2>1
<1>9. ASSUME NEW t \in Nat, NEW n \in Lengths, job' = [job EXCEPT !["main"] = Job("close", t, n)]
      PROVE  Fresh'
  <2>1. PICK o \in {"text", "close"} : o = "close"
    OBVIOUS
  <2>2. job' = [job EXCEPT !["main"] = Job(o, t, n)]
    BY <1>9, <2>1
  <2> QED
    BY <1>5, <2>1, <2>2
<1>10. \/ UNCHANGED job
       \/ TakeRequest /\ job' = [job EXCEPT !["main"] = Job("text", Len(received), AnswerLength)]
       \/ \E n \in Lengths : job' = [job EXCEPT !["main"] = Job("text", 0, n)]
       \/ \E t \in Nat, n \in Lengths : job' = [job EXCEPT !["main"] = Job("close", t, n)]
  <2>1. CASE Handshake \/ BrowserSends \/ BrowserGone \/ ReceiveFails \/ Leave \/ HangUp
            \/ UNCHANGED vars
    BY <2>1 DEF Handshake, BrowserSends, BrowserGone, ReceiveFails, Leave, HangUp, vars, Reads
  <2>2. CASE TakeRequest
    BY <2>2 DEF TakeRequest
  <2>3. CASE Notify
    <3>1. PICK n \in Notices : job' = [job EXCEPT !["main"] = Job("text", 0, n)]
      BY <2>3 DEF Notify
    <3>2. n \in Lengths
      BY <1>4
    <3> QED
      BY <3>1, <3>2, Zenon
  <2>4. CASE TakeError
    BY <1>4, <2>4 DEF TakeError
  <2>5. CASE CloseSocket
    <3>1. PICK t \in Nat : t = 1000
      BY <1>3
    <3>2. PICK n \in Lengths : n = 2
      BY <1>3
    <3>3. job' = [job EXCEPT !["main"] = Job("close", t, n)]
      BY <2>5, <3>1, <3>2 DEF CloseSocket
    <3> QED
      BY <3>3
  <2> QED
    BY <2>1, <2>2, <2>3, <2>4, <2>5 DEF QuietStep
<1> QED
  BY <1>6, <1>7, <1>8, <1>9, <1>10

(* A step in which the frame of p comes to the stream. *)
LEMMA FreshGrows ==
  ASSUME Types, LockFits, JobsFit, Fresh,
         NEW p \in Goroutines, Grows(p), UNCHANGED received,
         reader' = "deliver" => reader = "deliver",
         ~ Busy(p)' \/ Passed(p)' \/ broken',
         \A q \in Goroutines : q # p => job'[q] = job[q]
  PROVE  Fresh'
<1>1. ~ broken /\ Busy(p) /\ job[p].step # "lock"
  BY DEF Grows
<1>2. \A q \in Goroutines : q # p /\ Busy(q) => job[q].step = "lock"
  BY <1>1, OneWriter
<1>3. PICK f \in Written : f = job[p].frame
  BY <1>1, JobIs DEF Types
<1>4. ASSUME NEW op, NEW t, Newer(op, t), f.op = op /\ f.tag # 0 => f.tag < t
      PROVE  Newer(op, t)'
  <2>1. /\ \A i \in DOMAIN stream :
             stream'[i] = stream[i] /\ (Replies(i, op)' <=> Replies(i, op))
        /\ \A i \in DOMAIN stream' : i \notin DOMAIN stream /\ Replies(i, op)' =>
             f.op = op /\ f.tag # 0 /\ stream'[i].frame.tag = f.tag
    BY <1>3, RepliesStay, NewReply DEF Replies
  <2>2. ASSUME NEW i \in DOMAIN stream', Replies(i, op)' PROVE stream'[i].frame.tag < t
    <3>1. CASE i \in DOMAIN stream
      <4>1. stream'[i] = stream[i] /\ Replies(i, op)
        BY <2>1, <2>2, <3>1
      <4> QED
        BY <1>4, <3>1, <4>1 DEF Newer
    <3>2. CASE i \notin DOMAIN stream
      <4>1. f.op = op /\ f.tag # 0 /\ stream'[i].frame.tag = f.tag
        BY <2>1, <2>2, <3>2
      <4> QED
        BY <1>4, <4>1
    <3> QED
      BY <3>1, <3>2
  <2> QED
    BY <2>2 DEF Newer
<1>5. ASSUME ~ broken', NEW q \in Goroutines, NEW op, NEW t, Busy(q)', ~ Passed(q)',
             op = job'[q].frame.op, t = job'[q].frame.tag, op # "close", t # 0
      PROVE  Newer(op, t)'
  <2>1. q # p /\ job'[q] = job[q]
    BY <1>5
  <2>2. Busy(q)
    BY <1>5, <2>1 DEF Busy
  <2>3. ~ Passed(q)
    BY <1>2, <2>1, <2>2 DEF Passed
  <2>4. Newer(op, t)
    BY <1>1, <1>5, <2>1, <2>2, <2>3 DEF Fresh
  <2>5. f.op # op
    <3>1. op = job[q].frame.op
      BY <1>5, <2>1
    <3>2. IF q = "reader" THEN job[q].frame.op \in {"pong", "close"}
          ELSE q = "main" /\ job[q].frame.op \in {"text", "close"}
      BY <2>2, Kinds
    <3>3. IF p = "reader" THEN job[p].frame.op \in {"pong", "close"}
          ELSE p = "main" /\ job[p].frame.op \in {"text", "close"}
      BY <1>1, Kinds
    <3> QED
      BY <1>3, <1>5, <2>1, <3>1, <3>2, <3>3
  <2> QED
    BY <1>4, <2>4, <2>5
<1>6. ASSUME ~ broken', NEW t, reader' = "deliver", t = Len(received') PROVE Newer("text", t)'
  <2>1. reader = "deliver" /\ t = Len(received)
    BY <1>6
  <2>2. Newer("text", t)
    BY <1>1, <2>1 DEF Fresh
  <2>3. ASSUME f.op = "text", f.tag # 0 PROVE f.tag < t
    <3>1. p = "main"
      BY <1>1, <1>3, <2>3, Kinds
    <3> QED
      BY <1>1, <1>3, <2>1, <2>3, <3>1 DEF JobsFit
  <2> QED
    BY <1>4, <2>2, <2>3
<1> QED
  BY <1>5, <1>6, FreshFits

(* A step that leaves the stream as it is; what is written is not passed. *)
LEMMA FreshStays ==
  ASSUME Fresh, UNCHANGED <<stream, broken, received>>, reader' = "deliver" => reader = "deliver",
         \A q \in Goroutines : Busy(q)' =>
           /\ job'[q].frame = job[q].frame
           /\ Passed(q)' \/ (Busy(q) /\ ~ Passed(q))
  PROVE  Fresh'
<1> SUFFICES ASSUME ~ broken'
             PROVE  /\ \A q \in Goroutines : \A op, t :
                         /\ Busy(q)' /\ ~ Passed(q)' /\ op = job'[q].frame.op /\ t = job'[q].frame.tag
                         /\ op # "close" /\ t # 0
                         => Newer(op, t)'
                    /\ \A t : reader' = "deliver" /\ t = Len(received') => Newer("text", t)'
  BY FreshFits
<1>1. ~ broken
  OBVIOUS
<1>2. ASSUME NEW q \in Goroutines, NEW op, NEW t, Busy(q)', ~ Passed(q)',
             op = job'[q].frame.op, t = job'[q].frame.tag, op # "close", t # 0
      PROVE  Newer(op, t)
  <2>1. Busy(q) /\ ~ Passed(q) /\ job'[q].frame = job[q].frame
    BY <1>2
  <2>2. op = job[q].frame.op /\ t = job[q].frame.tag
    BY <1>2, <2>1
  <2> QED
    BY <1>1, <1>2, <2>1, <2>2 DEF Fresh
<1>3. ASSUME NEW t, reader' = "deliver", t = Len(received') PROVE Newer("text", t)
  BY <1>1, <1>3 DEF Fresh
<1> QED
  BY <1>2, <1>3, NewerStays

LEMMA FreshStep ==
  ASSUME Types, LockFits, BufferFits, JobsFit, Begins, Fresh, RepliesInOrder, [Next]_vars
  PROVE  Fresh'
<1>0. job \in [Goroutines -> Jobs] /\ "reader" \in Goroutines /\ "main" \in Goroutines
  BY DEF Types, Goroutines
<1>1. CASE Receive
  <2>1. JobsFit'
    BY JobsFitStep
  <2> QED
    BY <1>1, <2>1, FreshReceive
<1>2. CASE QuietStep /\ ~ Receive
  BY <1>2, FreshQuiet
<1>3. ASSUME NEW p \in Goroutines, Lock(p) \/ WriteHeader(p) PROVE Fresh'
  <2>1. /\ UNCHANGED <<bodyVars, stream, broken>> /\ Busy(p) /\ job[p].step # "flush"
    BY <1>3, LockSteps, HeaderSteps
  <2>2. PICK x \in {"header", "payload", "flush"} : job' = [job EXCEPT ![p].step = x]
    BY <1>3, LockSteps, HeaderSteps
  <2>3. /\ job'[p].frame = job[p].frame
        /\ \A q \in Goroutines : q # p => job'[q] = job[q]
    BY <1>0, <2>1, <2>2, StepIs
  <2>4. \A q \in Goroutines : Busy(q) => job[q].step # "flush"
    <3>1. CASE Lock(p)
      BY <3>1, LockSteps
    <3>2. CASE WriteHeader(p)
      <4>1. job[p].step = "header" /\ Busy(p)
        BY <3>2, HeaderSteps
      <4>2. \A q \in Goroutines : q # p /\ Busy(q) => job[q].step = "lock"
        BY <4>1, OneWriter
      <4> QED
        BY <4>1, <4>2
    <3> QED
      BY <1>3, <3>1, <3>2
  <2>5. \A q \in Goroutines : Busy(q)' => Busy(q) /\ ~ Passed(q) /\ job'[q].frame = job[q].frame
    BY <2>1, <2>3, <2>4 DEF Busy, Passed
  <2>6. UNCHANGED <<received, reader>>
    BY <2>1 DEF bodyVars
  <2> QED
    BY <2>1, <2>5, <2>6, FreshStays
<1>4. ASSUME NEW p \in Goroutines, WritePayload(p) PROVE Fresh'
  <2>1. /\ UNCHANGED bodyVars /\ UNCHANGED broken /\ Busy(p) /\ job[p].step = "payload"
        /\ job' = [job EXCEPT ![p].step = "flush"]
    BY <1>4, PayloadSteps
  <2>2. PICK x \in {"header", "payload", "flush"} : x = "flush"
    OBVIOUS
  <2>3. /\ job'[p].frame = job[p].frame /\ job'[p].step = x
        /\ \A q \in Goroutines : q # p => job'[q] = job[q]
    BY <1>0, <2>1, <2>2, StepIs
  <2>4. \A q \in Goroutines : q # p /\ Busy(q) => job[q].step = "lock"
    BY <2>1, OneWriter
  <2>5. \A q \in Goroutines : Busy(q)' => Busy(q) /\ ~ Passed(q) /\ job'[q].frame = job[q].frame
    BY <2>1, <2>3, <2>4 DEF Busy, Passed
  <2>6. UNCHANGED <<received, reader>>
    BY <2>1 DEF bodyVars
  <2>7. CASE UNCHANGED stream
    BY <2>1, <2>5, <2>6, <2>7, FreshStays
  <2>8. CASE buf' = <<>> /\ Grows(p)
    <3>1. Passed(p)'
      BY <2>2, <2>3, <2>8 DEF Passed
    <3> QED
      BY <2>3, <2>6, <2>8, <3>1, FreshGrows
  <2> QED
    BY <1>4, <2>7, <2>8, PayloadSteps
<1>5. ASSUME NEW p \in Goroutines, Flush(p), UNCHANGED received,
             reader' = "deliver" => reader = "deliver"
      PROVE  Fresh'
  <2>1. /\ job' = [job EXCEPT ![p] = Idle] /\ Busy(p) /\ job[p].step # "lock"
        /\ (broken => broken') /\ broken' \in BOOLEAN
        /\ ~ broken' => (Passed(p) /\ UNCHANGED stream) \/ Grows(p)
    BY <1>5, FlushSteps
  <2>2. ~ Busy(p)' /\ \A q \in Goroutines : q # p => job'[q] = job[q]
    BY <1>0, <2>1, EndedIs
  <2>3. \A q \in Goroutines : q # p /\ Busy(q) => job[q].step = "lock"
    BY <2>1, OneWriter
  <2>4. \A q \in Goroutines : Busy(q)' => Busy(q) /\ ~ Passed(q) /\ job'[q].frame = job[q].frame
    BY <2>2, <2>3 DEF Busy, Passed
  <2>5. CASE broken'
    BY <2>5 DEF Fresh
  <2>6. CASE ~ broken' /\ UNCHANGED stream
    <3>1. UNCHANGED broken
      BY <2>1, <2>6 DEF Types
    <3> QED
      BY <1>5, <2>4, <2>6, <3>1, FreshStays
  <2>7. CASE Grows(p)
    BY <1>5, <2>2, <2>7, FreshGrows
  <2> QED
    BY <2>1, <2>5, <2>6, <2>7
<1>6. CASE FlushReader
  <2>1. Flush("reader") /\ UNCHANGED received /\ reader' # "deliver"
    BY <1>6 DEF FlushReader
  <2> QED
    BY <1>0, <1>5, <2>1
<1>7. CASE FlushMain
  <2>1. Flush("main") /\ UNCHANGED <<received, reader>>
    BY <1>7 DEF FlushMain
  <2> QED
    BY <1>0, <1>5, <2>1
<1> QED
  BY <1>1, <1>2, <1>3, <1>4, <1>6, <1>7, Steps

-----------------------------------------------------------------------------
(* Nothing is passed over. *)

LEMMA SaidKept ==
  ASSUME Types, LockFits, BufferFits, JobsFit, [Next]_vars, ~ broken', NEW op, NEW t, Said(op, t)
  PROVE  Said(op, t)'
<1>1. CASE UNCHANGED stream
  BY <1>1 DEF Said, Replies
<1>2. ASSUME NEW p \in Goroutines, Grows(p) PROVE Said(op, t)'
  BY <1>2, SaidStays
<1> QED
  BY <1>1, <1>2, Growth

LEMMA Unbroken ==
  ASSUME Types, LockFits, BufferFits, JobsFit, [Next]_vars, ~ broken'
  PROVE  ~ broken
BY Growth DEF Grows

LEMMA SamePlaces ==
  ASSUME UNCHANGED received
  PROVE  Pings' = Pings /\ Requests' = Requests /\ Len(received') = Len(received)
BY DEF Pings, Requests

(* A frame whose flush succeeds is in the stream. *)
LEMMA FlushSays ==
  ASSUME Types, LockFits, BufferFits, NEW p \in Goroutines, Flush(p), ~ broken',
         NEW op, NEW t, op = job[p].frame.op, t = job[p].frame.tag, t # 0
  PROVE  Said(op, t)'
<1>1. /\ Busy(p) /\ job[p].step = "flush" /\ (broken => broken')
      /\ (Passed(p) /\ UNCHANGED stream) \/ Grows(p)
  BY FlushSteps
<1>2. PICK f \in Written : f = job[p].frame
  BY <1>1, JobIs DEF Types
<1>3. CASE Passed(p) /\ UNCHANGED stream
  <2>1. stream # <<>> /\ stream[Len(stream)] = Payload(f)
    BY <1>1, <1>2, <1>3 DEF BufferFits
  <2>2. PICK i : i = Len(stream)
    OBVIOUS
  <2>3. i \in DOMAIN stream
    <3>1. stream \in Seq(Items)
      BY DEF Types
    <3>2. Len(stream) \in Nat /\ DOMAIN stream = 1..Len(stream) /\ Len(stream) # 0
      BY <2>1, <3>1, StreamIs, EmptySeq
    <3> QED
      BY <2>2, <3>2
  <2>4. stream[i].kind = "payload" /\ stream[i].frame = f
    BY <2>1, <2>2, ItemsAre
  <2>5. stream[i].frame.op = op /\ stream[i].frame.tag = t
    BY <1>2, <2>4
  <2>6. Said(op, t)
    BY <2>3, <2>4, <2>5 DEF Said, Replies
  <2> QED
    BY <1>3, <2>6 DEF Said, Replies
<1>4. CASE Grows(p)
  <2>1. f.op = op /\ f.tag = t
    BY <1>2
  <2>2. Said(op, f.tag)'
    BY <1>2, <1>4, <2>1, GrowthSays
  <2> QED
    BY <2>1, <2>2
<1> QED
  BY <1>1, <1>3, <1>4

(* A step after which the goroutines are where they were. *)
LEMMA AnsweredKept ==
  ASSUME Types, LockFits, BufferFits, JobsFit, [Next]_vars, Answered,
         UNCHANGED <<received, reader, main>>,
         Busy("main") => Busy("main")' /\ job'["main"].frame = job["main"].frame
  PROVE  Answered'
<1> SUFFICES ASSUME ~ broken' PROVE Complete'
  BY DEF Answered
<1>1. ~ broken
  BY Unbroken
<1>2. Pings' = Pings /\ Requests' = Requests /\ Len(received') = Len(received)
  BY SamePlaces
<1>3. ASSUME NEW t \in Pings' PROVE (reader' = "pong" /\ t = Len(received')) \/ Said("pong", t)'
  <2>1. (reader = "pong" /\ t = Len(received)) \/ Said("pong", t)
    BY <1>1, <1>2 DEF Answered, Complete
  <2> QED
    BY <1>2, <2>1, SaidKept
<1>4. ASSUME main' \in {"select", "send"}, NEW t \in Requests'
      PROVE  \/ reader' = "deliver" /\ t = Len(received')
             \/ Busy("main")' /\ job'["main"].frame.op = "text" /\ job'["main"].frame.tag = t
             \/ Said("text", t)'
  <2>1. main \in {"select", "send"} /\ t \in Requests
    BY <1>2, <1>4
  <2>2. \/ reader = "deliver" /\ t = Len(received)
        \/ Busy("main") /\ job["main"].frame.op = "text" /\ job["main"].frame.tag = t
        \/ Said("text", t)
    BY <1>1, <2>1 DEF Answered, Complete
  <2>3. Said("text", t) => Said("text", t)'
    BY SaidKept
  <2> QED
    BY <1>2, <2>2, <2>3
<1>5. main' \notin {"select", "send", "hijacked"} => reader' = "done"
  BY <1>1 DEF Answered, Complete
<1> QED
  BY <1>3, <1>4, <1>5 DEF Complete

LEMMA AnsweredReceive ==
  ASSUME Types, LockFits, BufferFits, JobsFit, [Next]_vars, Answered, Receive
  PROVE  Answered'
<1> SUFFICES ASSUME ~ broken' PROVE Complete'
  BY DEF Answered
<1>1. ~ broken
  BY Unbroken
<1>2. PICK h \in BrowserFrames :
        /\ Len(received') = Len(received) + 1
        /\ reader = "read" /\ UNCHANGED main
        /\ Pings' = Pings \cup (IF reader' = "pong" THEN {Len(received) + 1} ELSE {})
        /\ reader' # "deliver" => Requests' = Requests
        /\ Requests' \subseteq Requests \cup {Len(received) + 1}
        /\ reader' = "refuse" => job' = [job EXCEPT !["reader"] = Job("close", 1002, 2)]
        /\ reader' = "pong" =>
             job' = [job EXCEPT !["reader"] = Job("pong", Len(received) + 1, PongLength(h))]
        /\ reader' \notin {"refuse", "pong"} => UNCHANGED job
  BY ReceiveAdds
<1>3. job'["main"] = job["main"]
  <2>1. job \in [Goroutines -> Jobs] /\ "main" \in Goroutines
    BY DEF Types, Goroutines
  <2> QED
    BY <1>2, <2>1
<1>4. ASSUME NEW t \in Pings' PROVE (reader' = "pong" /\ t = Len(received')) \/ Said("pong", t)'
  <2>1. t \in Pings => Said("pong", t)
    BY <1>1, <1>2 DEF Answered, Complete
  <2>2. Said("pong", t) => Said("pong", t)'
    BY SaidKept
  <2> QED
    BY <1>2, <2>1, <2>2
<1>5. ASSUME main' \in {"select", "send"}, NEW t \in Requests'
      PROVE  \/ reader' = "deliver" /\ t = Len(received')
             \/ Busy("main")' /\ job'["main"].frame.op = "text" /\ job'["main"].frame.tag = t
             \/ Said("text", t)'
  <2>1. CASE t \in Requests
    <3>1. \/ Busy("main") /\ job["main"].frame.op = "text" /\ job["main"].frame.tag = t
          \/ Said("text", t)
      BY <1>1, <1>2, <1>5, <2>1 DEF Answered, Complete
    <3>2. Said("text", t) => Said("text", t)'
      BY SaidKept
    <3> QED
      BY <1>3, <3>1, <3>2 DEF Busy
  <2>2. CASE t \notin Requests
    BY <1>2, <1>5, <2>2
  <2> QED
    BY <2>1, <2>2
<1>6. main' \notin {"select", "send", "hijacked"} => reader' = "done"
  BY <1>1, <1>2 DEF Answered, Complete
<1> QED
  BY <1>4, <1>5, <1>6 DEF Complete

(* A step of a goroutine that does not write.                              *)
LEMMA AnsweredQuiet ==
  ASSUME Types, LockFits, BufferFits, JobsFit, Begins, [Next]_vars, Answered,
         QuietStep, ~ Receive
  PROVE  Answered'
<1>0. job \in [Goroutines -> Jobs] /\ "reader" \in Goroutines /\ "main" \in Goroutines
  BY DEF Types, Goroutines
<1>1. UNCHANGED <<stream, broken, received>>
  BY QuietJobs, ReceivedStep
<1>2. Pings' = Pings /\ Requests' = Requests /\ Len(received') = Len(received)
  BY <1>1, SamePlaces
<1>3. ASSUME NEW op, NEW t, Said(op, t) PROVE Said(op, t)'
  BY <1>1, <1>3 DEF Said, Replies
<1>4. CASE BrowserSends \/ BrowserGone \/ UNCHANGED vars
  <2>1. UNCHANGED <<received, reader, main, job>>
    BY <1>4 DEF BrowserSends, BrowserGone, vars
  <2> QED
    BY <2>1, AnsweredKept DEF Busy
<1> SUFFICES ASSUME ~ broken', ~ (BrowserSends \/ BrowserGone \/ UNCHANGED vars)
             PROVE  Complete'
  BY <1>4 DEF Answered
<1> USE DEF Complete
<1>5. ~ broken
  BY <1>1
<1>6. /\ \A t \in Pings : (reader = "pong" /\ t = Len(received)) \/ Said("pong", t)
      /\ main \in {"select", "send"} =>
           \A t \in Requests :
             \/ reader = "deliver" /\ t = Len(received)
             \/ Busy("main") /\ job["main"].frame.op = "text" /\ job["main"].frame.tag = t
             \/ Said("text", t)
      /\ main \notin {"select", "send", "hijacked"} => reader = "done"
  BY <1>5 DEF Answered
<1>7. ASSUME reader = reader' \/ reader # "pong", NEW t \in Pings'
      PROVE  (reader' = "pong" /\ t = Len(received')) \/ Said("pong", t)'
  BY <1>2, <1>3, <1>6, <1>7
<1>8. CASE Handshake
  <2>1. received = <<>> /\ main' \in {"select", "done"} /\ (main' = "done" => reader' = "done")
    BY <1>8 DEF Handshake, Begins
  <2>2. Pings = {} /\ Requests = {}
    <3>1. Len(received) = 0
      BY <2>1
    <3>2. 1..0 = {}
      OBVIOUS
    <3> QED
      BY <3>1, <3>2, PlacesAre
  <2> QED
    BY <1>2, <2>1, <2>2
<1>9. CASE ReceiveFails
  <2>1. reader = "read" /\ UNCHANGED <<main, job>>
    BY <1>9 DEF ReceiveFails, Reads
  <2>2. main' \in {"select", "send", "hijacked"}
    BY <1>6, <2>1
  <2>3. Busy("main")' <=> Busy("main")
    BY <2>1 DEF Busy
  <2> QED
    BY <1>2, <1>3, <1>6, <1>7, <2>1, <2>2, <2>3
<1>10. CASE TakeRequest
  <2>1. /\ main = "select" /\ reader = "deliver" /\ main' \in {"select", "send"}
        /\ \/ job' = [job EXCEPT !["main"] = Job("text", Len(received), AnswerLength)]
           \/ received[Len(received)].op # "request" /\ UNCHANGED job
    BY <1>10 DEF TakeRequest, Last
  <2>2. ~ Busy("main")
    BY <2>1 DEF JobsFit
  <2>3. ASSUME NEW t \in Requests'
        PROVE  \/ Busy("main")' /\ job'["main"].frame.op = "text" /\ job'["main"].frame.tag = t
               \/ Said("text", t)'
    <3>1. t = Len(received) \/ Said("text", t)
      BY <1>2, <1>6, <2>1, <2>2
    <3>2. CASE t = Len(received)
      <4>1. t \in Nat /\ received[t].op = "request"
        BY <1>2, <3>2, PlacesAre DEF Requests
      <4>2. job' = [job EXCEPT !["main"] = Job("text", t, AnswerLength)]
        BY <2>1, <3>2, <4>1
      <4>3. PICK p \in Goroutines : p = "main"
        BY <1>0
      <4>4. PICK o \in DOMAIN Op : o = "text"
        BY OpIs
      <4>5. PICK n \in Lengths : n = AnswerLength
        BY LengthsAssumption DEF LengthsAssumption
      <4>6. t \in Nat /\ job' = [job EXCEPT ![p] = Job(o, t, n)]
        BY <4>1, <4>2, <4>3, <4>4, <4>5
      <4>7. Busy(p)' /\ job'[p].frame.op = o /\ job'[p].frame.tag = t
        BY <1>0, <4>6, BegunIs, ZenonT(30)
      <4> QED
        BY <4>3, <4>4, <4>7
    <3> QED
      BY <1>3, <3>1, <3>2
  <2> QED
    BY <1>7, <2>1, <2>3
<1>11. CASE Notify
  <2>1. main = "select" /\ main' = "send" /\ UNCHANGED reader
    BY <1>11 DEF Notify, Mains
  <2>2. ~ Busy("main")
    BY <2>1 DEF JobsFit
  <2>3. ASSUME NEW t \in Requests' PROVE (reader' = "deliver" /\ t = Len(received')) \/ Said("text", t)'
    BY <1>2, <1>3, <1>6, <2>1, <2>2
  <2> QED
    BY <1>7, <2>1, <2>3
<1>12. CASE TakeError
  <2>1. reader # "pong" /\ reader' = "done" /\ main' \in {"sendLast", "leave"}
    BY <1>12 DEF TakeError
  <2> QED
    BY <1>7, <2>1
<1>13. CASE CloseSocket
  <2>1. main = "close" /\ main' = "closing" /\ UNCHANGED reader
    BY <1>13 DEF CloseSocket, Mains
  <2> QED
    BY <1>6, <1>7, <2>1
<1>14. CASE HangUp
  <2>1. main = "hangup" /\ main' = "done" /\ UNCHANGED reader
    BY <1>14 DEF HangUp
  <2> QED
    BY <1>6, <1>7, <2>1
<1>15. CASE Leave
  <2>1. main = "leave" /\ main' = "close" /\ UNCHANGED reader
    BY <1>15 DEF Leave, Mains
  <2> QED
    BY <1>6, <1>7, <2>1
<1> QED
  BY <1>8, <1>9, <1>10, <1>11, <1>12, <1>13, <1>14, <1>15 DEF QuietStep

LEMMA AnsweredFlush ==
  ASSUME Types, LockFits, BufferFits, JobsFit, [Next]_vars, Answered, FlushReader \/ FlushMain
  PROVE  Answered'
<1>0. job \in [Goroutines -> Jobs] /\ "reader" \in Goroutines /\ "main" \in Goroutines
  BY DEF Types, Goroutines
<1> SUFFICES ASSUME ~ broken' PROVE Complete'
  BY DEF Answered
<1> USE DEF Complete
<1>1. ~ broken
  BY Unbroken
<1>2. /\ \A t \in Pings : (reader = "pong" /\ t = Len(received)) \/ Said("pong", t)
      /\ main \in {"select", "send"} =>
           \A t \in Requests :
             \/ reader = "deliver" /\ t = Len(received)
             \/ Busy("main") /\ job["main"].frame.op = "text" /\ job["main"].frame.tag = t
             \/ Said("text", t)
      /\ main \notin {"select", "send", "hijacked"} => reader = "done"
  BY <1>1 DEF Answered
<1>3. /\ UNCHANGED received /\ Pings' = Pings /\ Requests' = Requests /\ Len(received') = Len(received)
      /\ \A t \in Pings \cup Requests : t # 0
  <2>1. UNCHANGED received
    BY DEF FlushReader, FlushMain
  <2>2. \A t \in Pings \cup Requests : t # 0
    BY PlacesAre
  <2> QED
    BY <2>1, <2>2, SamePlaces
<1>4. ASSUME NEW op, NEW t, Said(op, t) PROVE Said(op, t)'
  BY <1>4, SaidKept
<1>5. CASE FlushReader
  <2>1. Flush("reader") /\ UNCHANGED main /\ reader' \in {"read", "failed"}
    BY <1>5 DEF FlushReader
  <2>2. Busy("reader") /\ job' = [job EXCEPT !["reader"] = Idle]
    BY <1>0, <2>1, FlushSteps
  <2>3. reader \in {"pong", "refuse"}
    BY <2>2 DEF JobsFit
  <2>4. job'["main"] = job["main"]
    BY <1>0, <2>2
  <2>5. ASSUME NEW t \in Pings' PROVE Said("pong", t)'
    <3>1. CASE reader = "pong" /\ t = Len(received)
      <4>1. "pong" = job["reader"].frame.op /\ t = job["reader"].frame.tag
        BY <3>1 DEF JobsFit
      <4>2. t # 0
        BY <1>3
      <4> QED
        BY <1>0, <2>1, <4>1, <4>2, FlushSays
    <3>2. CASE Said("pong", t)
      BY <1>4, <3>2
    <3> QED
      BY <1>2, <1>3, <3>1, <3>2
  <2>6. ASSUME main' \in {"select", "send"}, NEW t \in Requests'
        PROVE  \/ Busy("main")' /\ job'["main"].frame.op = "text" /\ job'["main"].frame.tag = t
               \/ Said("text", t)'
    <3>1. main \in {"select", "send"} /\ t \in Requests /\ reader # "deliver"
      BY <1>3, <2>1, <2>3, <2>6
    <3>2. \/ Busy("main") /\ job["main"].frame.op = "text" /\ job["main"].frame.tag = t
          \/ Said("text", t)
      BY <1>2, <3>1
    <3>3. Said("text", t) => Said("text", t)'
      BY <1>4
    <3> QED
      BY <2>4, <3>2, <3>3 DEF Busy
  <2>7. main' \in {"select", "send", "hijacked"}
    BY <1>2, <2>1, <2>3
  <2> QED
    BY <2>5, <2>6, <2>7
<1>6. CASE FlushMain
  <2>1. Flush("main") /\ UNCHANGED reader
    BY <1>6 DEF FlushMain
  <2>2. Busy("main")
    BY <1>0, <2>1, FlushSteps
  <2>3. main \in {"send", "sendLast", "closing"}
    BY <2>2 DEF JobsFit
  <2>4. /\ main' = "select" => main = "send"
        /\ main' \in {"select", "leave", "hangup"}
        /\ main = "send" => main' = "select"
    BY <1>6, <2>3 DEF FlushMain, AfterSend
  <2>5. ASSUME NEW t \in Pings' PROVE (reader' = "pong" /\ t = Len(received')) \/ Said("pong", t)'
    BY <1>2, <1>3, <1>4, <2>1
  <2>6. ASSUME main' \in {"select", "send"}, NEW t \in Requests'
        PROVE  (reader' = "deliver" /\ t = Len(received')) \/ Said("text", t)'
    <3>1. \/ reader = "deliver" /\ t = Len(received)
          \/ job["main"].frame.op = "text" /\ job["main"].frame.tag = t
          \/ Said("text", t)
      BY <1>2, <1>3, <2>4, <2>6
    <3>2. CASE job["main"].frame.op = "text" /\ job["main"].frame.tag = t
      <4>1. t # 0
        BY <1>3
      <4>2. "text" = job["main"].frame.op /\ t = job["main"].frame.tag
        BY <3>2
      <4> QED
        BY <1>0, <2>1, <4>1, <4>2, FlushSays
    <3> QED
      BY <1>3, <1>4, <2>1, <3>1, <3>2
  <2>7. main' \notin {"select", "send", "hijacked"} => reader' = "done"
    BY <1>2, <2>1, <2>3, <2>4
  <2> QED
    BY <2>5, <2>6, <2>7
<1> QED
  BY <1>5, <1>6

LEMMA AnsweredStep ==
  ASSUME Types, LockFits, BufferFits, JobsFit, Begins, Answered, [Next]_vars
  PROVE  Answered'
<1>1. CASE Receive
  BY <1>1, AnsweredReceive
<1>2. CASE QuietStep /\ ~ Receive
  BY <1>2, AnsweredQuiet
<1>3. ASSUME NEW p \in Goroutines, Lock(p) \/ WriteHeader(p) \/ WritePayload(p) PROVE Answered'
  <2>1. UNCHANGED bodyVars /\ Busy(p)
    BY <1>3, LockSteps, HeaderSteps, PayloadSteps
  <2>2. PICK x \in {"header", "payload", "flush"} : job' = [job EXCEPT ![p].step = x]
    BY <1>3, LockSteps, HeaderSteps, PayloadSteps
  <2>3. job \in [Goroutines -> Jobs] /\ "main" \in Goroutines
    BY DEF Types, Goroutines
  <2>4. /\ Busy(p)' /\ job'[p].frame = job[p].frame
        /\ \A q \in Goroutines : q # p => job'[q] = job[q]
    BY <2>1, <2>2, <2>3, StepIs
  <2>5. Busy("main") => Busy("main")' /\ job'["main"].frame = job["main"].frame
    <3>1. CASE p = "main"
      BY <2>4, <3>1
    <3>2. CASE p # "main"
      BY <2>3, <2>4, <3>2 DEF Busy
    <3> QED
      BY <3>1, <3>2
  <2>6. UNCHANGED <<received, reader, main>>
    BY <2>1 DEF bodyVars
  <2> QED
    BY <2>5, <2>6, AnsweredKept
<1> QED
  BY <1>1, <1>2, <1>3, AnsweredFlush, Steps

-----------------------------------------------------------------------------
(* The invariant and what it shows. *)

LEMMA Starts == Init => IInv
<1> SUFFICES ASSUME Init PROVE IInv
  OBVIOUS
<1>1. job = [p \in Goroutines |-> Idle] /\ \A p \in Goroutines : ~ Busy(p)
  BY DEF Init, Goroutines, Busy
<1>2. inbox = <<>> /\ received = <<>> /\ stream = <<>> /\ buf = <<>> /\ broken = FALSE
  BY DEF Init
<1>3. \A S : <<>> \in Seq(S)
  OBVIOUS
<1>4. Types
  BY <1>1, <1>2, <1>3 DEF Types, Jobs
<1>5. LockFits /\ BufferFits
  BY <1>1, <1>2 DEF LockFits, BufferFits
<1>6. DOMAIN stream = {} /\ Len(stream) = 0 /\ DOMAIN received = {}
  BY <1>2
<1>7. Paired
  BY <1>6 DEF Paired
<1>8. Pings = {} /\ Requests = {}
  BY <1>6 DEF Pings, Requests
<1>9. reader = "hijacked" /\ main = "hijacked" /\ "reader" \in Goroutines /\ "main" \in Goroutines
  BY DEF Init, Goroutines
<1>10. JobsFit /\ Begins
  BY <1>1, <1>2, <1>9 DEF JobsFit, Begins
<1>11. Fresh /\ Answered /\ RepliesInOrder
  BY <1>1, <1>6, <1>8, <1>9 DEF Fresh, Answered, Complete, RepliesInOrder, AnswersOneByOne
<1> QED
  BY <1>4, <1>5, <1>7, <1>10, <1>11 DEF IInv

LEMMA Invariance == Spec => []IInv
<1>1. Init => IInv
  BY Starts
<1>2. IInv /\ [Next]_vars => IInv'
  <2> SUFFICES ASSUME IInv, [Next]_vars PROVE IInv'
    OBVIOUS
  <2>1. /\ Types /\ LockFits /\ BufferFits /\ Paired /\ JobsFit /\ Begins /\ Fresh
        /\ Answered /\ RepliesInOrder
    BY DEF IInv
  <2>2. Types' /\ LockFits' /\ BufferFits' /\ Paired'
    BY <2>1, TypesStep, LockStep, BufferStep, PairedStep
  <2>3. JobsFit' /\ Begins'
    BY <2>1, JobsFitStep, BeginsStep
  <2>4. Fresh' /\ Answered' /\ RepliesInOrder'
    BY <2>1, FreshStep, AnsweredStep, RepliesStep
  <2> QED
    BY <2>2, <2>3, <2>4 DEF IInv
<1> QED
  BY <1>1, <1>2, PTL DEF Spec

(* FramesWhole, of websocket/hybi.go's hybiFrameWriter.Write and its mutex *)
(* wio: whatever the lengths of the answers and the notifications, and     *)
(* however the two goroutines take turns, the browser gets whole frames,   *)
(* each with a header that, parsed by NewFrameReader's rules, announces    *)
(* the opcode and the length of what follows; only a failed write leaves a *)
(* part of a frame, and nothing comes after it.                            *)
THEOREM FramesAreWhole == Spec => []FramesWhole
<1>1. IInv => FramesWhole
  BY PairedIsWhole DEF IInv
<1> QED
  BY <1>1, Invariance, PTL

(* RepliesInOrder, of hybi.go's HandleFrame and ws.go's Dispatch: the      *)
(* pongs answer the pings one by one in the order in which those were      *)
(* received, and the answers the requests, none twice and none passed over *)
(* before a later one, for every order of the steps of the two goroutines. *)
THEOREM AnswersAreInOrder == Spec => []RepliesInOrder
<1>1. IInv => RepliesInOrder
  BY DEF IInv
<1> QED
  BY <1>1, Invariance, PTL
=============================================================================
