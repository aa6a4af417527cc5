------------------------------ MODULE RequestPipe ------------------------------
(***************************************************************************)
(* One web socket, from a call of sendRequest in the browser               *)
(* (frontend/source/js/connection.js) to the callback of its answer, and   *)
(* the two goroutines that serve it (ClientConn.Dispatch, backend/ws.go):  *)
(* the reader decodes one JSON message after another into one variable     *)
(* `req` and hands a copy to the main goroutine over an unbuffered         *)
(* channel; the main goroutine handles the copy and answers.               *)
(*                                                                         *)
(* The copy is shallow.  Its ID points to a number that belongs to the     *)
(* reader's variable, and its Params share the array of the reader's       *)
(* Params; the next message is decoded into both while the main goroutine  *)
(* still uses them.  That is a data race: what it reads meanwhile is the   *)
(* old value, the new one or a mixture of them.                            *)
(*                                                                         *)
(* A message is its place in the order in which the browser sends.         *)
(***************************************************************************)
EXTENDS Integers, Sequences, FiniteSets

CONSTANTS MaxMessages,  \* bound: messages the browser sends
          Windows       \* how many messages a browser has under way at once

ASSUME WindowAssumption == MaxMessages \in Nat /\ Windows \subseteq Nat \ {0}

NoID == -1      \* a message without an id; also a nil req.ID
Garbled == -2   \* what a read that overlaps a write may give

VARIABLES
  window,   \* how many messages this browser has under way at most
  sent,     \* sent[n]: the id of the n-th message, or NoID
  pending,  \* pendingRequests: the ids that wait for an answer
  settled,  \* the answers that were used: <<id, the message answered>>
  open,     \* the browser has not closed the socket
  up,       \* the messages on their way to the server
  down,     \* the answers on their way back: <<id, the message answered>>
  reader,   \* what the reader goroutine does
  decoded,  \* the message it decodes or holds
  cell,     \* the number its req.ID points to, or NoID for nil
  buffer,   \* the message whose params are in the array of its req.Params
  main,     \* what the main goroutine does
  held,     \* the message of its copy of req
  hasID,    \* its copy's ID is not nil
  shared,   \* its copy's Params still share the reader's array
  ran       \* what was handled: <<message, the message of the params it read>>

browserVars == <<window, sent, pending, settled, open>>
readerVars == <<reader, decoded, cell, buffer>>
mainVars == <<main, held, hasID, ran>>
vars == <<browserVars, up, down, readerVars, mainVars, shared>>

Messages == 1..MaxMessages
IDs == 0..(MaxMessages - 1)

TypeOK ==
  /\ window \in Windows
  /\ sent \in Seq(IDs \cup {NoID}) /\ Len(sent) <= MaxMessages
  /\ pending \subseteq IDs
  /\ settled \subseteq IDs \X Messages
  /\ open \in BOOLEAN
  /\ up \in Seq(Messages)
  /\ down \in Seq((IDs \cup {Garbled}) \X Messages)
  /\ reader \in {"receive", "decode", "handoff", "report", "gone"}
  /\ decoded \in {0} \cup Messages
  /\ cell \in IDs \cup {NoID}
  /\ buffer \in {0} \cup Messages
  /\ main \in {"select", "run", "reply", "ended"}
  /\ held \in {0} \cup Messages
  /\ hasID \in BOOLEAN
  /\ shared \in BOOLEAN
  /\ ran \in Seq(Messages \X (Messages \cup {Garbled}))

Init ==
  /\ window \in Windows
  /\ sent = <<>> /\ pending = {} /\ settled = {} /\ open = TRUE
  /\ up = <<>> /\ down = <<>>
  /\ reader = "receive" /\ decoded = 0 /\ cell = NoID /\ buffer = 0
  /\ main = "select" /\ held = 0 /\ hasID = FALSE /\ shared = FALSE
  /\ ran = <<>>

-----------------------------------------------------------------------------
(* The browser. *)

IsRequest(n) == sent[n] # NoID

(* nextRequestID: requests are numbered from 0; notifications are not. *)
NextID == Cardinality({n \in DOMAIN sent : IsRequest(n)})

Busy(b) == IF b THEN 1 ELSE 0

UnderWay ==
  Len(up) + Busy(reader \in {"decode", "handoff"}) + Busy(main \in {"run", "reply"}) + Len(down)

Post(id) ==
  /\ open
  /\ Len(sent) < MaxMessages
  /\ UnderWay < window
  /\ sent' = Append(sent, id)
  /\ up' = Append(up, Len(sent) + 1)
  /\ UNCHANGED <<window, settled, open, down, readerVars, mainVars, shared>>

SendRequest == Post(NextID) /\ pending' = pending \cup {NextID}

(* logout has no id and no params. *)
SendNotification == Post(NoID) /\ UNCHANGED pending

(* An answer whose id nothing waits for is dropped. *)
OnResponse ==
  /\ open
  /\ down # <<>>
  /\ LET id == Head(down)[1] IN
       /\ settled' = IF id \in pending THEN settled \cup {Head(down)} ELSE settled
       /\ pending' = pending \ {id}
  /\ down' = Tail(down)
  /\ UNCHANGED <<window, sent, open, up, readerVars, mainVars, shared>>

(* What is on its way may be lost. *)
Close ==
  /\ open
  /\ open' = FALSE
  /\ \E n \in 0..Len(up) : up' = SubSeq(up, 1, n)
  /\ UNCHANGED <<window, sent, pending, settled, down, readerVars, mainVars, shared>>

-----------------------------------------------------------------------------
(* The reader goroutine. *)

(* Mutant: the reader does not wait until its message has been taken. *)
ReceiveHasty ==
  /\ reader \in {"receive", "handoff"}
  /\ up # <<>>
  /\ reader' = "decode"
  /\ decoded' = Head(up)
  /\ up' = Tail(up)
  /\ UNCHANGED <<browserVars, down, cell, buffer, mainVars, shared>>

Receive ==
  /\ reader = "receive"
  /\ up # <<>>
  /\ reader' = "decode"
  /\ decoded' = Head(up)
  /\ up' = Tail(up)
  /\ UNCHANGED <<browserVars, down, cell, buffer, mainVars, shared>>

(* Mutant: an id that was set once is never set again. *)
DecodeKeepsID ==
  /\ reader = "decode"
  /\ reader' = "handoff"
  /\ \/ /\ IsRequest(decoded)
        /\ cell' = IF cell = NoID THEN sent[decoded] ELSE cell
        /\ buffer' = decoded
        /\ shared' \in {shared, FALSE}
     \/ /\ ~ IsRequest(decoded)
        /\ UNCHANGED <<cell, buffer, shared>>
  /\ UNCHANGED <<browserVars, up, down, decoded, mainVars>>

(* The decoder writes the id into the number that req.ID points to, and    *)
(* leaves both alone when there is none; it reuses the array of req.Params *)
(* if the new params fit, and takes another if they do not.                *)
Decode ==
  /\ reader = "decode"
  /\ reader' = "handoff"
  /\ \/ /\ IsRequest(decoded)
        /\ cell' = sent[decoded]
        /\ buffer' = decoded
        /\ shared' \in {shared, FALSE}
     \/ /\ ~ IsRequest(decoded)
        /\ UNCHANGED <<cell, buffer, shared>>
  /\ UNCHANGED <<browserVars, up, down, decoded, mainVars>>

(* The socket is closed: by the browser, once everything it sent has been  *)
(* read, or by the server when the main goroutine has ended.               *)
ReadFails ==
  /\ reader = "receive"
  /\ (~ open /\ up = <<>>) \/ main = "ended"
  /\ reader' = "report"
  /\ UNCHANGED <<browserVars, up, down, decoded, cell, buffer, mainVars, shared>>

-----------------------------------------------------------------------------
(* The main goroutine. *)

(* reqChan: reader and main goroutine meet. *)
TakeRequest ==
  /\ main = "select"
  /\ reader = "handoff"
  /\ main' = "run"
  /\ reader' = "receive"
  /\ held' = decoded
  /\ hasID' = (cell # NoID)
  /\ shared' = TRUE
  /\ UNCHANGED <<browserVars, up, down, decoded, cell, buffer, ran>>

(* Something is being written that this goroutine reads. *)
Racing == reader = "decode" /\ IsRequest(decoded)

ParamsRead ==
  IF ~ shared \/ ~ IsRequest(held) THEN {held}
  ELSE IF Racing THEN {buffer, decoded, Garbled}
  ELSE {buffer}

(* The handler of the method, which was copied and is the message's own. *)
Run ==
  /\ main = "run"
  /\ \E p \in ParamsRead : ran' = Append(ran, <<held, p>>)
  /\ main' = IF hasID THEN "reply" ELSE "select"
  /\ UNCHANGED <<browserVars, up, down, readerVars, held, hasID, shared>>

IDRead == IF Racing THEN {cell, sent[decoded], Garbled} ELSE {cell}

(* response.ID = *req.ID, and Send, which fails only on a closed socket. *)
Reply ==
  /\ main = "reply"
  /\ \/ /\ open
        /\ \E id \in IDRead : down' = Append(down, <<id, held>>)
        /\ main' = "select"
     \/ /\ ~ open
        /\ main' \in {"select", "ended"}
        /\ UNCHANGED down
  /\ UNCHANGED <<browserVars, up, readerVars, held, hasID, shared, ran>>

(* Mutant: the main goroutine goes back to its select after an error. *)
TakeErrorGoesOn ==
  /\ main = "select"
  /\ reader = "report"
  /\ reader' = "gone"
  /\ UNCHANGED <<browserVars, up, down, main, decoded, cell, buffer, held, hasID, shared, ran>>

(* errChan: the main goroutine ends, whatever the error. *)
TakeError ==
  /\ main = "select"
  /\ reader = "report"
  /\ main' = "ended"
  /\ reader' = "gone"
  /\ UNCHANGED <<browserVars, up, down, decoded, cell, buffer, held, hasID, shared, ran>>

-----------------------------------------------------------------------------
Reader == Receive \/ Decode \/ ReadFails
Main == TakeRequest \/ Run \/ Reply \/ TakeError

Next == SendRequest \/ SendNotification \/ OnResponse \/ Close \/ Reader \/ Main

SafeSpec == Init /\ [][Next]_vars

(* Both goroutines run, and an answer that arrives is taken. *)
Fairness == WF_vars(Reader) /\ WF_vars(Main) /\ WF_vars(OnResponse)

Spec == SafeSpec /\ Fairness

-----------------------------------------------------------------------------
(* Properties. *)

(* Every message is handled once, in the order in which it was sent. *)
HandledInOrder == \A i \in DOMAIN ran : ran[i][1] = i

(* The answer to a request carries the id of that request, so that the     *)
(* callback it settles is the right one.                                   *)
AnswersMatch ==
  /\ \A i \in DOMAIN down : IsRequest(down[i][2]) => down[i][1] = sent[down[i][2]]
  /\ \A s \in settled : sent[s[2]] = s[1]

(* A handler reads the params of its own message. *)
OwnParams == \A i \in DOMAIN ran : ran[i][2] = ran[i][1]

(* A browser that sends nothing before the answer to its last request is   *)
(* in gets its own answers, and its requests are run on their own params:  *)
(* nothing of one message is left in req for the next (ws.go Dispatch).    *)
PatientIsServed == window = 1 => AnswersMatch /\ OwnParams

(* The id of the last request among the first n messages, or NoID. *)
LastID(n) == Cardinality({i \in DOMAIN sent : i <= n /\ IsRequest(i)}) - 1

(* The label of an answer is off by one message at most: the reader cannot *)
(* be further ahead than the one message it holds.                         *)
LabelIsNear ==
  \A i \in DOMAIN down :
    down[i][1] \in {LastID(down[i][2]), LastID(down[i][2] + 1), Garbled}

(* Every request of such a browser is answered, unless it goes away.       *)
RequestsSettle ==
  \A id \in IDs :
    (window = 1 /\ id \in pending) ~> ((\E s \in settled : s[1] = id) \/ ~ open)

(* When the browser goes away, the main goroutine ends, after it has       *)
(* handled what was sent before.                                           *)
MainEnds == (~ open) ~> (main = "ended")
=============================================================================
