------------------------------- MODULE WebSocket -------------------------------
(***************************************************************************)
(* The server side of one web socket (golang.org/x/net/websocket: server.go, *)
(* hybi.go, websocket.go) as backend/ws.go uses it: one goroutine that     *)
(* receives, and writes pongs and one kind of close frame on its way, and  *)
(* one that sends answers and notifications and closes the socket.  Both   *)
(* write through one buffer, a frame in several calls, under the mutex wio. *)
(*                                                                         *)
(* What a request asks for is left to ClientConn and RequestPipe: here it  *)
(* is answered or, for a notification of the browser, not.                 *)
(***************************************************************************)
EXTENDS Integers, SequencesExt

CONSTANTS
  BrowserFrames,  \* the frames the browser may send
  Notices,        \* the lengths of the notifications the server may send
  AnswerLength,   \* the length of an answer
  MaxFrames,      \* bound: frames from the browser
  MaxNotices      \* bound: notifications

(* The lengths of the frames the server writes. *)
Lengths == {n \in Nat : n < 2147483647}

ASSUME LengthsAssumption ==
  /\ AnswerLength \in Lengths /\ Notices \subseteq Lengths
  /\ \A f \in BrowserFrames : f.len \in Nat

VARIABLES
  request,   \* the HTTP request
  status,    \* the status of the response to it, 0 before it
  inbox,     \* frames on their way to the server
  received,  \* history: the frames that were read
  stream,    \* what was written to the browser: headers and payloads
  buf,       \* what is in the buffer of the writer
  broken,    \* the writer had an error: all its writes fail from now on
  gone,      \* the TCP connection is lost
  closed,    \* rwc was closed
  wio,       \* the holder of the mutex
  job,       \* for each goroutine, the frame it writes and how far it is
  reader,    \* where the goroutine of Receive is
  main,      \* where the goroutine of Dispatch is
  notices    \* counter, for the bound

vars == <<request, status, inbox, received, stream, buf, broken, gone, closed, wio, job,
          reader, main, notices>>

-----------------------------------------------------------------------------
(* The frame header: a sequence of bytes. *)

Op == [text |-> 1, close |-> 8, pong |-> 10]

Weight == <<1, 256, 65536, 16777216>>

(* Byte j of a length; the four upper bytes of one below 2^31 are zero.    *)
Byte(n, j) == IF j > 3 THEN 0 ELSE (n \div Weight[j + 1]) % 256

BigEndian(n, k) == [i \in 1..k |-> Byte(n, k - i)]

LengthFields(n) == IF n <= 125 THEN 0 ELSE IF n < 65536 THEN 2 ELSE 8

(* hybiFrameWriter.Write: FIN and the opcode, then the length in one of    *)
(* its three forms; the server does not mask.                              *)
HeaderOf(frame) ==
  LET k == LengthFields(frame.len)
      b == CASE k = 0 -> frame.len [] k = 2 -> 126 [] k = 8 -> 127
  IN <<128 + Op[frame.op], b>> \o BigEndian(frame.len, k)

(* The number that the k bytes after the second one make. *)
ExtendedLength(h, k) ==
  LET n[i \in 0..k] == IF i = 0 THEN 0 ELSE n[i - 1] * 256 + h[i + 2]
  IN n[k]

(* NewFrameReader: the fields of a header. *)
ParseHeader(h) ==
  LET b == h[2] % 128
      k == CASE b <= 125 -> 0 [] b = 126 -> 2 [] b = 127 -> 8
  IN [fin |-> h[1] >= 128, op |-> h[1] % 16, masked |-> h[2] >= 128,
      len |-> IF k = 0 THEN b ELSE ExtendedLength(h, k)]

-----------------------------------------------------------------------------
(* The handshake. *)

(* What the code looks at in the request. *)
HTTPRequests ==
  [get : BOOLEAN, upgrade : BOOLEAN, key : BOOLEAN, version : {"13", "other"},
   uri : BOOLEAN, origin : {"url", "null", "none"}, manyProtocols : BOOLEAN]

(* ReadHandshake, checkOrigin, AcceptHandshake: the first objection counts. *)
StatusOf(r) ==
  IF ~ r.get THEN 405
  ELSE IF ~ r.upgrade \/ ~ r.key \/ r.version # "13" \/ ~ r.uri THEN 400
  ELSE IF r.origin # "url" THEN 403
  ELSE IF r.manyProtocols THEN 400
  ELSE 101

(* newServerConn; serveWebSocket closes the connection after an objection. *)
Handshake ==
  /\ status = 0
  /\ status' = StatusOf(request)
  /\ closed' = (status' # 101)
  /\ reader' = IF status' = 101 THEN "read" ELSE "done"
  /\ main' = IF status' = 101 THEN "select" ELSE "done"
  /\ UNCHANGED <<request, inbox, received, stream, buf, broken, gone, wio, job, notices>>

-----------------------------------------------------------------------------
(* The browser and the network. *)

BrowserSends ==
  /\ status = 101 /\ ~ gone
  /\ Len(received) + Len(inbox) < MaxFrames
  /\ \E f \in BrowserFrames : inbox' = Append(inbox, f)
  /\ UNCHANGED <<request, status, received, stream, buf, broken, gone, closed, wio, job,
                 reader, main, notices>>

BrowserGone ==
  /\ status = 101 /\ ~ gone
  /\ gone' = TRUE
  /\ UNCHANGED <<request, status, inbox, received, stream, buf, broken, closed, wio, job,
                 reader, main, notices>>

-----------------------------------------------------------------------------
(* Writing a frame: lock, header, payload, flush, unlock. *)

Idle == [step |-> "idle"]

Busy(p) == job[p] # Idle

Job(op, tag, len) == [step |-> "lock", frame |-> [op |-> op, tag |-> tag, len |-> len]]

Header(frame) == [kind |-> "header", bytes |-> HeaderOf(frame)]

Payload(frame) == [kind |-> "payload", frame |-> frame]

bodyVars == <<request, status, inbox, received, gone, closed, reader, main, notices>>

(* Mutant: the writer does not wait for the mutex. *)
WioAlways == TRUE

WioFree == wio = "nobody"

Lock(p) ==
  /\ Busy(p) /\ job[p].step = "lock"
  /\ WioFree
  /\ wio' = p
  /\ job' = [job EXCEPT ![p].step = "header"]
  /\ UNCHANGED <<bodyVars, stream, buf, broken>>

(* bufio.Writer.Write with an item that fits into the buffer, or not. *)
Buffered(item) ==
  \/ broken /\ UNCHANGED <<stream, buf>>
  \/ ~ broken /\ buf' = Append(buf, item) /\ UNCHANGED stream
  \/ /\ ~ broken /\ ~ gone /\ ~ closed
     /\ stream' = stream \o Append(buf, item) /\ buf' = <<>>

WriteHeader(p) ==
  /\ Busy(p) /\ job[p].step = "header"
  /\ buf' = IF broken THEN buf ELSE Append(buf, Header(job[p].frame))
  /\ job' = [job EXCEPT ![p].step = "payload"]
  /\ UNCHANGED <<bodyVars, stream, broken, wio>>

WritePayload(p) ==
  /\ Busy(p) /\ job[p].step = "payload"
  /\ Buffered(Payload(job[p].frame))
  /\ job' = [job EXCEPT ![p].step = "flush"]
  /\ UNCHANGED <<bodyVars, broken, wio>>

(* Flush and Unlock: everything was written, or a part of it and no more.  *)
Flush(p) ==
  /\ Busy(p) /\ job[p].step = "flush"
  /\ \/ /\ ~ broken /\ ~ gone /\ ~ closed
        /\ stream' = stream \o buf
        /\ UNCHANGED broken
     \/ /\ broken \/ gone \/ closed
        /\ broken' = TRUE
        /\ \E n \in 0..Len(buf) : stream' = stream \o SubSeq(buf, 1, n)
  /\ buf' = <<>>
  /\ job' = [job EXCEPT ![p] = Idle]
  /\ wio' = "nobody"

-----------------------------------------------------------------------------
(* The goroutine that receives. *)

Reads == <<request, status, stream, buf, broken, gone, closed, wio, main, notices>>

(* Mutant: a ping that fills the buffer is read and not answered. *)
OutcomeFullPing(f) ==
  CASE ~ f.masked -> "refuse"
    [] f.masked /\ f.op = "ping" /\ f.len \in 1..124 -> "pong"
    [] f.masked /\ f.op = "ping" /\ f.len = 125 -> "read"
    [] f.masked /\ f.op \in {"request", "notification"} -> "deliver"
    [] f.masked /\ f.op = "badJSON" -> "syntax"
    [] OTHER -> "failed"

(* Mutant: a close frame is passed over. *)
OutcomeNoClose(f) ==
  CASE ~ f.masked -> "refuse"
    [] f.masked /\ f.op = "close" -> "read"
    [] f.masked /\ f.op \in {"request", "notification"} -> "deliver"
    [] f.masked /\ f.op = "badJSON" -> "syntax"
    [] OTHER -> "failed"

(* HandleFrame, then Unmarshal.  A part of a message, and one whose length *)
(* is negative as an int64, are bad JSON; an empty ping makes ReadFull     *)
(* return EOF, a close frame is EOF, a pong not implemented: they end      *)
(* Receive, as JSON of another type than Request does.                     *)
Outcome(f) ==
  CASE ~ f.masked -> "refuse"
    [] f.masked /\ f.op = "ping" /\ f.len > 0 -> "pong"
    [] f.masked /\ f.op \in {"request", "notification"} -> "deliver"
    [] f.masked /\ f.op = "badJSON" -> "syntax"
    [] OTHER -> "failed"

(* A pong returns what of the ping fits into a control frame. *)
PongLength(f) == IF f.len > 125 THEN 125 ELSE f.len

Receive ==
  /\ reader = "read" /\ inbox # <<>>
  /\ inbox' = Tail(inbox) /\ received' = Append(received, Head(inbox))
  /\ reader' = Outcome(Head(inbox))
  /\ \/ /\ reader' = "refuse"
        /\ job' = [job EXCEPT !["reader"] = Job("close", 1002, 2)]
     \/ /\ reader' = "pong"
        /\ job' = [job EXCEPT !["reader"] = Job("pong", Len(received'), PongLength(Head(inbox)))]
     \/ /\ reader' \notin {"refuse", "pong"}
        /\ UNCHANGED job
  /\ UNCHANGED Reads

(* What had not arrived is lost with the connection. *)
ReceiveFails ==
  /\ reader = "read" /\ (gone \/ closed)
  /\ reader' = "failed" /\ inbox' = <<>>
  /\ UNCHANGED <<Reads, received, job>>

(* After a pong the next frame is read; after a close frame Receive fails. *)
ReaderWrites ==
  \/ Lock("reader") \/ WriteHeader("reader") \/ WritePayload("reader")
  \/ /\ Flush("reader")
     /\ reader' = IF reader = "pong" /\ ~ broken' THEN "read" ELSE "failed"
     /\ UNCHANGED <<request, status, inbox, received, gone, closed, main, notices>>

-----------------------------------------------------------------------------
(* The goroutine of Dispatch. *)

Mains == <<request, status, inbox, received, stream, buf, broken, gone, closed, wio>>

(* The request comes over reqChan; tag: its place among the frames. *)
TakeRequest ==
  /\ main = "select" /\ reader = "deliver"
  /\ reader' = "read"
  /\ \/ /\ Last(received).op = "request"
        /\ job' = [job EXCEPT !["main"] = Job("text", Len(received), AnswerLength)]
        /\ main' = "send"
     \/ /\ Last(received).op # "request"
        /\ UNCHANGED <<job, main>>
  /\ UNCHANGED <<Mains, notices>>

Notify ==
  /\ main = "select" /\ notices < MaxNotices
  /\ notices' = notices + 1
  /\ \E n \in Notices : job' = [job EXCEPT !["main"] = Job("text", 0, n)]
  /\ main' = "send"
  /\ UNCHANGED <<Mains, reader>>

(* The error comes over errChan; a syntax error is answered before the end. *)
TakeError ==
  /\ main = "select" /\ reader \in {"failed", "syntax"}
  /\ reader' = "done"
  /\ \/ /\ reader = "syntax"
        /\ job' = [job EXCEPT !["main"] = Job("text", 0, AnswerLength)]
        /\ main' = "sendLast"
     \/ reader = "failed" /\ main' = "leave" /\ UNCHANGED job
  /\ UNCHANGED <<Mains, notices>>

AfterSend(failed) == IF main = "send" /\ ~ failed THEN "select" ELSE "leave"

(* removeRepositoryListeners, deferred by Dispatch.  It may wait for ever, *)
(* for a signal whose dispatch waits for this goroutine (ClientConn).      *)
Leave ==
  /\ main = "leave"
  /\ main' = "close"
  /\ UNCHANGED <<Mains, reader, job, notices>>

(* Conn.Close: WriteClose, ... *)
CloseSocket ==
  /\ main = "close"
  /\ job' = [job EXCEPT !["main"] = Job("close", 1000, 2)]
  /\ main' = "closing"
  /\ UNCHANGED <<Mains, reader, notices>>

(* ... and rwc.Close, here or, after an error, in serveWebSocket. *)
MainWrites ==
  \/ Lock("main") \/ WriteHeader("main") \/ WritePayload("main")
  \/ /\ Flush("main")
     /\ main' = IF main = "closing" THEN "hangup" ELSE AfterSend(broken')
     /\ UNCHANGED <<request, status, inbox, received, gone, closed, reader, notices>>

HangUp ==
  /\ main = "hangup"
  /\ closed' = TRUE /\ main' = "done"
  /\ UNCHANGED <<request, status, inbox, received, stream, buf, broken, gone, wio, job,
                 reader, notices>>

-----------------------------------------------------------------------------

Init ==
  /\ request \in HTTPRequests
  /\ status = 0 /\ inbox = <<>> /\ received = <<>> /\ stream = <<>> /\ buf = <<>>
  /\ broken = FALSE /\ gone = FALSE /\ closed = FALSE /\ wio = "nobody"
  /\ job = [p \in {"reader", "main"} |-> Idle]
  /\ reader = "hijacked" /\ main = "hijacked"
  /\ notices = 0

Next ==
  \/ Handshake \/ BrowserSends \/ BrowserGone
  \/ Receive \/ ReceiveFails \/ ReaderWrites
  \/ TakeRequest \/ Notify \/ TakeError \/ Leave \/ CloseSocket \/ MainWrites \/ HangUp

(* The goroutines run, and a write ends one way or the other; that the     *)
(* listeners are removed is not promised.                                  *)
Fairness ==
  /\ WF_vars(Receive) /\ WF_vars(ReceiveFails) /\ WF_vars(ReaderWrites)
  /\ WF_vars(TakeRequest) /\ WF_vars(TakeError)
  /\ WF_vars(CloseSocket) /\ WF_vars(MainWrites) /\ WF_vars(HangUp)

Spec == Init /\ [][Next]_vars /\ Fairness

-----------------------------------------------------------------------------
(* The properties. *)

TypeOK ==
  /\ status \in {0, 101, 400, 403, 405}
  /\ inbox \in Seq(BrowserFrames) /\ received \in Seq(BrowserFrames)
  /\ wio \in {"nobody", "reader", "main"}
  /\ \A p \in {"reader", "main"} : Busy(p) /\ job[p].step # "lock" => wio = p
  /\ reader \in {"hijacked", "read", "deliver", "pong", "refuse", "failed", "syntax", "done"}
  /\ main \in {"hijacked", "select", "send", "sendLast", "leave", "close", "closing", "hangup",
              "done"}
  /\ notices \in 0..MaxNotices

(* What the browser gets is a sequence of whole frames, whose headers, read *)
(* the way NewFrameReader reads them, announce what follows; only a failed *)
(* write leaves a part of a frame, and nothing after it.                   *)
FramesWhole ==
  /\ \A i \in 1..(Len(stream) \div 2) :
       LET h == stream[2 * i - 1]
           b == stream[2 * i]
       IN /\ h.kind = "header" /\ b.kind = "payload"
          /\ ParseHeader(h.bytes) = [fin |-> TRUE, op |-> Op[b.frame.op], masked |-> FALSE,
                                     len |-> b.frame.len]
  /\ Len(stream) % 2 = 1 => broken

(* Item i of the stream answers a frame of the browser, that of its tag.   *)
Replies(i, op) ==
  stream[i].kind = "payload" /\ stream[i].frame.op = op /\ stream[i].frame.tag # 0

(* The frames of kind op answer those at the places S, each once and one   *)
(* by one in their order.                                                  *)
AnswersOneByOne(op, S) ==
  \A i \in DOMAIN stream : Replies(i, op) =>
    LET t == stream[i].frame.tag
    IN /\ t \in S
       /\ \A j \in 1..(i - 1) : Replies(j, op) => stream[j].frame.tag < t
       /\ \A u \in S : u < t => \E j \in 1..(i - 1) : Replies(j, op) /\ stream[j].frame.tag = u

Pings ==
  {i \in DOMAIN received : received[i].masked /\ received[i].op = "ping" /\ received[i].len > 0}

Requests == {i \in DOMAIN received : received[i].masked /\ received[i].op = "request"}

(* The pongs answer the pings one by one in their order, and the answers   *)
(* the requests, however the two goroutines take turns at the writer       *)
(* (hybi.go HandleFrame, ws.go Dispatch).                                  *)
RepliesInOrder == AnswersOneByOne("pong", Pings) /\ AnswersOneByOne("text", Requests)

(* Each frame that Receive does not take, and the end of the TCP           *)
(* connection, ends in the end of Dispatch and in a closed socket; only    *)
(* the removal of the listeners on the way may never end.                  *)
ConnectionEnds ==
  /\ status = 101
  /\ \/ gone
     \/ \E i \in DOMAIN received :
          ~ received[i].masked \/ received[i].op \in {"close", "pong", "badJSON", "mistypedJSON"}
  ~> (closed /\ main = "done") \/ [](main = "leave")
=============================================================================
