---------------------------- MODULE ChatDelivery ----------------------------
(***************************************************************************)
(* From the tables to the page: users, channels and messages are stored    *)
(* (backend/pgx_repository.go), dispatched to the browsers that listen,    *)
(* and put into the Chat object that the page shows                        *)
(* (frontend/source/js/models/chat.js).  A browser that connects, or       *)
(* connects again, first gets listeners and then asks for a snapshot of    *)
(* the tables, so that the two overlap; every dispatch runs in a goroutine *)
(* of its own, so that they overtake each other.                           *)
(*                                                                         *)
(* A signal is used through what Broadcast.tla promises of it: one         *)
(* dispatch at a time, the receivers fixed when it begins.  A connection   *)
(* resumes its session once; ClientConn.tla has the rest of its life.      *)
(***************************************************************************)
EXTENDS Integers, SequencesExt

CONSTANTS Browser,
          User, Channel, Message,  \* the rows that may be stored
          Old,                     \* the users and channels stored from the start
          None,                    \* no item; no Chat object yet; no post
          MaxRestarts,             \* bound: restarts of the server
          MaxSeconds               \* bound: seconds in which messages are posted

Item == User \cup Channel \cup Message

ASSUME ItemsAssumption ==
  /\ User \cap Channel = {} /\ User \cap Message = {} /\ Channel \cap Message = {}
  /\ Old \subseteq User \cup Channel
  /\ None \notin Item
  /\ Message # {}
  /\ MaxRestarts \in Nat
  /\ MaxSeconds \in Nat \ {0}

VARIABLES
  phase,      \* phase[i]: how far item i is, from the statement to the dispatch
  time,       \* time[m]: the second of creation_time of m, 0 before its statement
  post,       \* post[m]: the channel and the author of message m
  holder,     \* holder[k]: the item being dispatched on signal k, or None
  toServe,    \* toServe[k]: the browsers that dispatch has yet to send to
  listening,  \* listening[k]: the browsers with a listener on signal k
  place,      \* place[b]: where the server's goroutine for b is
  at,         \* at[b]: the number of signals it has added its channels to
  toBrowser,  \* toBrowser[b]: what was written to the web socket of b
  asked,      \* asked[b]: the init_chat request of b is on its way
  chat,       \* chat[b]: window.chat, or None
  former,     \* former[b]: the Chats made before it, which still subscribe
  live,       \* live[b]: chat[b] was made from an answer on this connection
  restarts,
  seen,       \* history: the items whose dispatch had ended when m was begun
  cut         \* history: the messages that did not get as far as chat[b]

storeVars == <<phase, time, post, seen>>
signalVars == <<holder, toServe, listening>>
connVars == <<place, at, asked>>
pageVars == <<chat, former, live, cut>>
vars == <<storeVars, signalVars, connVars, toBrowser, pageVars, restarts>>

(* The signals, in the order of addRepositoryListeners.  channelRenamed is *)
(* left out: the browser has no handler for it.                            *)
SignalOrder == <<"channelCreated", "messagePosted", "userCreated">>
Kind == Range(SignalOrder)

SignalOf(i) ==
  CASE i \in Channel -> "channelCreated"
    [] i \in Message -> "messagePosted"
    [] i \in User -> "userCreated"

(* "begun": the statement has its timestamp and has not committed; "wait": *)
(* stored, its dispatch waits for the mutex; "send": being dispatched;     *)
(* "done": the dispatch has ended; "failed": the statement has failed.     *)
Phases == {"new", "begun", "wait", "send", "done", "failed"}

Stored == {i \in Item : phase[i] \in {"wait", "send", "done"}}

(* What the page keeps: users, and for every channel id the entries of     *)
(* that id in the order of chat.channels, each with its messages.          *)
Chats == [users : SUBSET User, channels : [Channel -> Seq(Seq(Message))]]

(* What post and chat say of nothing is not a post or a Chat. *)
ASSUME NoneAssumption ==
  None \notin [channel : Channel, author : User] /\ None \notin Chats

(* What goes down the web socket: the answer to resume_session, the answer *)
(* to init_chat, a notification.                                           *)
Texts ==
  [type : {"resumed"}] \cup [type : {"init"}, data : Chats] \cup [type : {"told"}, item : Item]

TypeOK ==
  /\ phase \in [Item -> Phases]
  /\ time \in [Message -> 0..MaxSeconds]
  /\ post \in [Message -> [channel : Channel, author : User] \cup {None}]
  /\ holder \in [Kind -> Item \cup {None}]
  /\ toServe \in [Kind -> SUBSET Browser]
  /\ listening \in [Kind -> SUBSET Browser]
  /\ place \in [Browser -> {"down", "attach", "select"}]
  /\ at \in [Browser -> 0..Len(SignalOrder)]
  /\ \A b \in Browser : \A i \in DOMAIN toBrowser[b] : toBrowser[b][i] \in Texts
  /\ asked \in [Browser -> BOOLEAN]
  /\ chat \in [Browser -> Chats \cup {None}]
  /\ former \in [Browser -> Seq(Chats)]
  /\ live \in [Browser -> BOOLEAN]
  /\ cut \in [Browser -> SUBSET Message]
  /\ restarts \in 0..MaxRestarts
  /\ seen \in [Message -> SUBSET Item]

Init ==
  /\ phase = [i \in Item |-> IF i \in Old THEN "done" ELSE "new"]
  /\ time = [m \in Message |-> 0]
  /\ post = [m \in Message |-> None]
  /\ holder = [k \in Kind |-> None]
  /\ toServe = [k \in Kind |-> {}]
  /\ listening = [k \in Kind |-> {}]
  /\ place = [b \in Browser |-> "down"]
  /\ at = [b \in Browser |-> 0]
  /\ toBrowser = [b \in Browser |-> <<>>]
  /\ asked = [b \in Browser |-> FALSE]
  /\ chat = [b \in Browser |-> None]
  /\ former = [b \in Browser |-> <<>>]
  /\ live = [b \in Browser |-> FALSE]
  /\ cut = [b \in Browser |-> {}]
  /\ restarts = 0
  /\ seen = [m \in Message |-> {}]

-----------------------------------------------------------------------------
(* The statements of the repository. *)

SetPhase(i, p) == phase' = [phase EXCEPT ![i] = p]

(* CreateUser, CreateChannel: stored, and a goroutine dispatches it. *)
Create(i) ==
  /\ i \in User \cup Channel
  /\ phase[i] = "new"
  /\ SetPhase(i, "wait")
  /\ UNCHANGED <<time, post, seen, signalVars, connVars, toBrowser, pageVars, restarts>>

(* PostMessage: now() is the time at which the statement begins, in the    *)
(* same second as the last one or in a later one; author and channel are   *)
(* foreign keys.                                                           *)
BeginPost(m, c, u) ==
  /\ phase[m] = "new"
  /\ {c, u} \subseteq Stored
  /\ SetPhase(m, "begun")
  /\ LET latest == Max(Range(time)) IN
       \E t \in {latest, latest + 1} \cap (1..MaxSeconds) : time' = [time EXCEPT ![m] = t]
  /\ post' = [post EXCEPT ![m] = [channel |-> c, author |-> u]]
  /\ seen' = [seen EXCEPT ![m] = {i \in Item : phase[i] = "done"}]
  /\ UNCHANGED <<signalVars, connVars, toBrowser, pageVars, restarts>>

(* Mutant: a message is not dispatched if another one is just being.       *)
EndPostCoalesced(m) ==
  /\ phase[m] = "begun"
  /\ SetPhase(m, IF holder["messagePosted"] = None THEN "wait" ELSE "done")
  /\ UNCHANGED <<time, post, seen, signalVars, connVars, toBrowser, pageVars, restarts>>

(* The statement commits and a goroutine dispatches the message, or it     *)
(* fails and PostMessage returns early.                                    *)
EndPost(m) ==
  /\ phase[m] = "begun"
  /\ SetPhase(m, "wait") \/ SetPhase(m, "failed")
  /\ UNCHANGED <<time, post, seen, signalVars, connVars, toBrowser, pageVars, restarts>>

-----------------------------------------------------------------------------
(* The dispatches. *)

Acquire(i) ==
  LET k == SignalOf(i) IN
  /\ phase[i] = "wait"
  /\ holder[k] = None
  /\ holder' = [holder EXCEPT ![k] = i]
  /\ toServe' = [toServe EXCEPT ![k] = listening[k]]
  /\ SetPhase(i, "send")
  /\ UNCHANGED <<time, post, seen, listening, connVars, toBrowser, pageVars, restarts>>

Write(b, text) == toBrowser' = [toBrowser EXCEPT ![b] = Append(@, text)]

(* A send meets the select of the connection, which writes a notification. *)
Deliver(i, b) ==
  LET k == SignalOf(i) IN
  /\ phase[i] = "send"
  /\ b \in toServe[k]
  /\ place[b] = "select"
  /\ toServe' = [toServe EXCEPT ![k] = @ \ {b}]
  /\ Write(b, [type |-> "told", item |-> i])
  /\ UNCHANGED <<storeVars, holder, listening, connVars, pageVars, restarts>>

(* Mutant: the mutex is not unlocked. *)
ReleaseNoUnlock(i) ==
  /\ phase[i] = "send"
  /\ toServe[SignalOf(i)] = {}
  /\ SetPhase(i, "done")
  /\ UNCHANGED <<time, post, seen, signalVars, connVars, toBrowser, pageVars, restarts>>

Release(i) ==
  /\ phase[i] = "send"
  /\ toServe[SignalOf(i)] = {}
  /\ holder' = [holder EXCEPT ![SignalOf(i)] = None]
  /\ SetPhase(i, "done")
  /\ UNCHANGED <<time, post, seen, toServe, listening, connVars, toBrowser, pageVars, restarts>>

-----------------------------------------------------------------------------
(* The connection of a browser. *)

(* The browser has opened a web socket and its resume_session (or login,   *)
(* or register) has succeeded so far that the listeners are added next.    *)
Connect(b) ==
  /\ place[b] = "down"
  /\ place' = [place EXCEPT ![b] = "attach"]
  /\ UNCHANGED <<storeVars, signalVars, at, asked, toBrowser, pageVars, restarts>>

(* One Add of addRepositoryListeners; after the last one the answer. *)
Attach(b) ==
  /\ place[b] = "attach"
  /\ LET n == at[b] + 1
         k == SignalOrder[n]
     IN /\ holder[k] = None
        /\ listening' = [listening EXCEPT ![k] = @ \cup {b}]
        /\ at' = [at EXCEPT ![b] = n]
        /\ \/ n < Len(SignalOrder) /\ UNCHANGED <<place, toBrowser>>
           \/ /\ n = Len(SignalOrder)
              /\ place' = [place EXCEPT ![b] = "select"]
              /\ Write(b, [type |-> "resumed"])
  /\ UNCHANGED <<storeVars, holder, toServe, asked, pageVars, restarts>>

(* Mutant: the messages of a channel, the newest first. *)
ListingsDescending(S) ==
  {s \in SetToSeqs(S) : \A i, j \in DOMAIN s : i < j => time[s[i]] >= time[s[j]]}

(* order by creation_time asc: the name is that of the output column,      *)
(* extract(epoch from creation_time::timestamptz(0)), and not that of the  *)
(* table's column, so messages of one second come in any order.            *)
Listings(S) ==
  {s \in SetToSeqs(S) : \A i, j \in DOMAIN s : i < j => time[s[i]] <= time[s[j]]}

Posted(c) == {m \in Stored \cap Message : post[m].channel = c}

(* get_init: one statement, so one snapshot of the tables. *)
Snapshots ==
  LET Lists(c) == IF c \in Stored THEN {<<s>> : s \in Listings(Posted(c))} ELSE {<<>>}
  IN {[users |-> Stored \cap User, channels |-> f] :
        f \in {g \in [Channel -> UNION {Lists(c) : c \in Channel}] :
                 \A c \in Channel : g[c] \in Lists(c)}}

InitChat(b) ==
  /\ place[b] = "select"
  /\ asked[b]
  /\ asked' = [asked EXCEPT ![b] = FALSE]
  /\ \E s \in Snapshots : Write(b, [type |-> "init", data |-> s])
  /\ UNCHANGED <<storeVars, signalVars, place, at, pageVars, restarts>>

-----------------------------------------------------------------------------
(* The page. *)

(* Mutant: onUserCreated assigns.                                          *)
OnUserCreatedReplaces(page, u) == {[page EXCEPT !.users = {u}]}

(* onUserCreated pushes. *)
OnUserCreated(page, u) == {[page EXCEPT !.users = @ \cup {u}]}

(* onChannelCreated pushes an entry without messages and sorts by name; a  *)
(* channel that is already there gets a second entry, before or after the  *)
(* first, as its name may have changed meanwhile.                          *)
OnChannelCreated(page, c) ==
  {[page EXCEPT !.channels[c] = InsertAt(@, p, <<>>)] : p \in 1..(Len(page.channels[c]) + 1)}

(* Mutant: the loop goes on after the first entry with the id. *)
OnMessagePostedAll(page, m) ==
  {[page EXCEPT !.channels[post[m].channel] = [n \in DOMAIN @ |-> Append(@[n], m)]]}

(* onMessagePosted puts the message into the first entry with the id of    *)
(* its channel; if there is none, the message is dropped.                  *)
OnMessagePosted(page, m) ==
  {IF page.channels[post[m].channel] = <<>> THEN page
   ELSE [page EXCEPT !.channels[post[m].channel][1] = Append(@, m)]}

Updated(page, i) ==
  CASE i \in User -> OnUserCreated(page, i)
    [] i \in Channel -> OnChannelCreated(page, i)
    [] i \in Message -> OnMessagePosted(page, i)

(* A view of the channel of m cannot be rendered: it has a message whose   *)
(* author the Chat does not know.                                          *)
Unrenderable(page, m) ==
  LET entries == page.channels[post[m].channel]
  IN entries # <<>> /\ \E o \in Range(entries[1]) : post[o].author \notin page.users

(* All the Chats of a page, in the order in which a notification goes      *)
(* through them.                                                           *)
Pages(b) == IF chat[b] = None THEN <<>> ELSE Append(former[b], chat[b])

Take(b, type) ==
  /\ toBrowser[b] # <<>>
  /\ Head(toBrowser[b]).type = type
  /\ toBrowser' = [toBrowser EXCEPT ![b] = Tail(@)]

(* The callback of resume_session asks for the chat. *)
ReceiveResumed(b) ==
  /\ Take(b, "resumed")
  /\ asked' = [asked EXCEPT ![b] = TRUE]
  /\ UNCHANGED <<storeVars, signalVars, place, at, pageVars, restarts>>

(* Mutant: a page that has a Chat keeps it.                                *)
ReceiveInitOnce(b) ==
  /\ Take(b, "init")
  /\ chat' = [chat EXCEPT ![b] = IF @ = None THEN Head(toBrowser[b]).data ELSE @]
  /\ former' = [former EXCEPT ![b] = Pages(b)]
  /\ live' = [live EXCEPT ![b] = TRUE]
  /\ cut' = [cut EXCEPT ![b] = {}]
  /\ UNCHANGED <<storeVars, signalVars, connVars, restarts>>

(* The callback of init_chat makes a Chat, which subscribes and is shown   *)
(* from now on.                                                            *)
ReceiveInit(b) ==
  /\ Take(b, "init")
  /\ chat' = [chat EXCEPT ![b] = Head(toBrowser[b]).data]
  /\ former' = [former EXCEPT ![b] = Pages(b)]
  /\ live' = [live EXCEPT ![b] = TRUE]
  /\ cut' = [cut EXCEPT ![b] = {}]
  /\ UNCHANGED <<storeVars, signalVars, connVars, restarts>>

(* onNotification: with no Chat made yet nobody has subscribed.  The Chats *)
(* of earlier connections and their views still do, before the one that is *)
(* shown; when one of their views fails to render, the exception ends the  *)
(* notification there.  Not every channel has a view.                      *)
ReceiveTold(b) ==
  LET i == Head(toBrowser[b]).item
      pages == Pages(b)
  IN /\ Take(b, "told")
     /\ \/ pages = <<>> /\ UNCHANGED pageVars
        \/ \E reached \in DOMAIN pages :
             \E new \in [1..reached -> UNION {Updated(pages[n], i) : n \in 1..reached}] :
               /\ \A n \in 1..reached : new[n] \in Updated(pages[n], i)
               /\ \/ /\ reached = Len(pages)
                     /\ former' = [former EXCEPT ![b] = Front(new)]
                     /\ chat' = [chat EXCEPT ![b] = Last(new)]
                     /\ UNCHANGED cut
                  \/ /\ reached < Len(pages)
                     /\ i \in Message /\ Unrenderable(new[reached], i)
                     /\ former' = [former EXCEPT ![b] = new \o SubSeq(@, reached + 1, Len(@))]
                     /\ cut' = [cut EXCEPT ![b] = @ \cup {i}]
                     /\ UNCHANGED chat
               /\ UNCHANGED live
  /\ UNCHANGED <<storeVars, signalVars, connVars, restarts>>

-----------------------------------------------------------------------------
(* The server process dies and starts again: statements under way fail,    *)
(* dispatches are forgotten, web sockets close; the pages stay.            *)
Restart ==
  /\ restarts < MaxRestarts
  /\ restarts' = restarts + 1
  /\ phase' = [i \in Item |-> CASE i \in Stored -> "done"
                                [] phase[i] = "begun" -> "failed"
                                [] phase[i] \in {"new", "failed"} -> phase[i]]
  /\ holder' = [k \in Kind |-> None]
  /\ toServe' = [k \in Kind |-> {}]
  /\ listening' = [k \in Kind |-> {}]
  /\ place' = [b \in Browser |-> "down"]
  /\ at' = [b \in Browser |-> 0]
  /\ toBrowser' = [b \in Browser |-> <<>>]
  /\ asked' = [b \in Browser |-> FALSE]
  /\ live' = [b \in Browser |-> FALSE]
  /\ UNCHANGED <<time, post, seen, chat, former, cut>>

-----------------------------------------------------------------------------
Statement ==
  \/ \E i \in Item : Create(i)
  \/ \E m \in Message, c \in Channel, u \in User : BeginPost(m, c, u)
  \/ \E m \in Message : EndPost(m)

Dispatching(i) == Acquire(i) \/ (\E b \in Browser : Deliver(i, b)) \/ Release(i)

Serving(b) == Attach(b) \/ InitChat(b)

Receive(b) == ReceiveResumed(b) \/ ReceiveInit(b) \/ ReceiveTold(b)

Next ==
  \/ Statement
  \/ \E i \in Item : Dispatching(i)
  \/ \E b \in Browser : Connect(b) \/ Serving(b) \/ Receive(b)
  \/ Restart

SafeSpec == Init /\ [][Next]_vars

(* Goroutines run and a page takes what arrives.  Nothing obliges anyone   *)
(* to post or to connect.                                                  *)
Fairness ==
  /\ \A i \in Item : WF_vars(Dispatching(i))
  /\ \A b \in Browser : WF_vars(Serving(b)) /\ WF_vars(Receive(b))

Spec == SafeSpec /\ Fairness

-----------------------------------------------------------------------------
(* Properties. *)

(* The message was posted before everyone had been told of its channel and *)
(* of its author: their dispatches and its own may overtake each other.    *)
Early(m) == ~ ({post[m].channel, post[m].author} \subseteq seen[m])

Entries(b, m) == chat[b].channels[post[m].channel]

Shows(b, m) == post[m] # None /\ \E n \in DOMAIN Entries(b, m) : m \in Range(Entries(b, m)[n])

Knows(b, i) ==
  CASE i \in User -> i \in chat[b].users
    [] i \in Channel -> chat[b].channels[i] # <<>>
    [] i \in Message -> Shows(b, i)

OnItsWay(b, i) == [type |-> "told", item |-> i] \in Range(toBrowser[b])

ToCome(b, i) == phase[i] = "wait" \/ (phase[i] = "send" /\ b \in toServe[SignalOf(i)])

Arrives(b, i) ==
  Knows(b, i) \/ OnItsWay(b, i) \/ ToCome(b, i) \/ (i \in Message /\ Early(i))

(* Whatever is stored is on the page, or on its way to it, or yet to be    *)
(* sent: nothing falls between the snapshot and the listeners, nor between *)
(* two connections.  Only an early message may be missing, because its     *)
(* notification came before that of its channel and was dropped, and one   *)
(* that a Chat of an earlier connection has cut off.                       *)
NothingLost ==
  \A b \in Browser : live[b] => \A i \in Stored \ cut[b] : Arrives(b, i)

(* A page knows the author of every message it shows, without whom it      *)
(* cannot render the message; again, unless the message is early.          *)
AuthorsKnown ==
  \A b \in Browser : live[b] =>
    \A m \in Stored \cap Message :
      Shows(b, m) => post[m].author \in chat[b].users \/ Early(m)

Copies(b, m) ==
  {p \in (DOMAIN Entries(b, m)) \X (1..(2 * Cardinality(Message))) :
     p[2] \in DOMAIN Entries(b, m)[p[1]] /\ Entries(b, m)[p[1]][p[2]] = m}

(* A message is on a page twice at most, once from the snapshot and once   *)
(* from its notification, even if its channel is there twice.              *)
TwiceAtMost ==
  \A b \in Browser, m \in Stored \cap Message :
    chat[b] # None => Cardinality(Copies(b, m)) <= 2

(* A message that was posted after the dispatch of another one had ended,  *)
(* and in a later second, is not shown before it, whether they come from   *)
(* the snapshot, whose order is that of the second of creation_time, from  *)
(* notifications, or one from each.  Within a second a snapshot may turn   *)
(* them round.                                                             *)
ShownInOrder ==
  \A b \in Browser, m, n \in Stored \cap Message :
    (chat[b] # None /\ m \in seen[n] /\ time[m] < time[n]) =>
      \A e \in DOMAIN Entries(b, n) :
        LET s == Entries(b, n)[e]
        IN m \in Range(s) =>
             \A j \in DOMAIN s : s[j] = n => \E i \in 1..(j - 1) : s[i] = m

(* Everything that is stored is on every page in the end, unless the       *)
(* connection of the page is lost.                                         *)
AllAreTold ==
  \A b \in Browser, i \in Item :
    (live[b] /\ i \in Stored /\ ~ (i \in Message /\ Early(i)))
      ~> (~ live[b] \/ Knows(b, i) \/ i \in cut[b])
=============================================================================
