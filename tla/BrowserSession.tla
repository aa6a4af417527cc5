---------------------------- MODULE BrowserSession ----------------------------
(***************************************************************************)
(* One browser page over any number of connections: the Connection object  *)
(* with its pending requests (frontend/source/js/connection.js), what it   *)
(* does when a socket opens (initialize.js), the routers (router.js), the  *)
(* pages that send requests (views/) and the working notice.               *)
(*                                                                         *)
(* The server answers in the order of the requests; an answer is a result  *)
(* or an error.  JavaScript runs one callback at a time, so each of them   *)
(* is one step; an exception ends it where it is thrown.                   *)
(***************************************************************************)
EXTENDS Integers, Sequences, FiniteSets

CONSTANTS MaxOpenings, MaxClicks  \* bounds: sockets that open, acts of the user

ASSUME BoundsAssumption == MaxOpenings \in Nat /\ MaxClicks \in Nat

VARIABLES
  ws,       \* the state of this.ws; "closed": the timer for connect() runs
  pending,  \* pendingRequests
  stuck,    \* the requests there that will not be deleted from it
  wire,     \* the requests that the server has not answered
  nextID,   \* nextRequestID
  notice,   \* the working notice is shown
  session,  \* localStorage has a sessionID
  hash,     \* window.location.hash
  events,   \* hashchange events that were not handled yet
  routers,  \* the routers that listen to hashchange
  chats,    \* the Chat objects made; window.chat is the last one
  bare,     \* those that were made without a channel: the first ones
  populated,  \* the database has a channel
  resumed,  \* window.chat when a router was last started for it
  shown,    \* the page in #view
  openings, clicks  \* counters, for the bounds

requestVars == <<pending, stuck, wire, nextID, notice>>
pageVars == <<hash, events, routers, chats, bare, populated, resumed, shown>>
vars == <<ws, requestVars, session, pageVars, openings, clicks>>

Pages == {"login", "register", "lostPassword", "resetPassword", "home", "channels"}

(* The hashes, with one that no route has (the empty one, to begin with).  *)
Hashes == Pages \cup {"unrouted"}

(* Each opening and each act of the user leads to two requests at most.    *)
MaxRequests == 2 * (MaxOpenings + MaxClicks)

(* initStart, initGo: init_chat, after resume_session and after a login.   *)
Methods == {"resume", "initStart", "initGo", "login", "register", "forgot", "reset",
            "post", "channel"}

Requests == [id : 0..(MaxRequests - 1), method : Methods]

Blank == [page |-> "blank", chat |-> 0]

TypeOK ==
  /\ ws \in {"connecting", "open", "closed"}
  /\ pending \subseteq Requests /\ stuck \subseteq pending
  /\ wire \in Seq(Requests)
  /\ nextID \in 0..MaxRequests
  /\ notice \in BOOLEAN /\ session \in BOOLEAN
  /\ hash \in Hashes
  /\ events \in Nat /\ routers \in 0..openings
  /\ chats \in 0..MaxRequests /\ bare \in 0..chats /\ resumed \in 0..chats
  /\ populated \in BOOLEAN
  /\ shown \in [page : Pages \cup {"blank"}, chat : 0..chats]
  /\ openings \in 0..MaxOpenings /\ clicks \in 0..MaxClicks

Init ==
  /\ ws = "connecting"
  /\ pending = {} /\ stuck = {} /\ wire = <<>> /\ nextID = 0 /\ notice = FALSE
  /\ session \in BOOLEAN
  /\ hash \in Hashes
  /\ events = 0 /\ routers = 0 /\ shown = Blank
  /\ chats = 0 /\ bare = 0 /\ resumed = 0
  /\ populated \in BOOLEAN
  /\ openings = 0 /\ clicks = 0

-----------------------------------------------------------------------------
(* The requests. *)

(* Mutant: the request is added before pendingRequests is looked at. *)
FirstStartedLate(p) == FALSE

FirstStarted(p) == p = {}

(* sendRequest on a socket in state w, with p the pending requests and in  *)
(* front of it the messages q: send throws on a socket that is connecting  *)
(* and drops the message on a closed one.                                  *)
SendRequest(method, w, p, q) ==
  LET r == [id |-> nextID, method |-> method] IN
    /\ nextID' = nextID + 1
    /\ pending' = p \cup {r}
    /\ stuck' = IF w = "connecting" THEN stuck \cup {r} ELSE stuck
    /\ wire' = IF w = "open" THEN Append(q, r) ELSE q
    /\ notice' = (notice \/ FirstStarted(p))

(* Answer r is handled, by a callback that sends nothing. *)
Settle(r) ==
  /\ pending' = pending \ {r}
  /\ notice' = (notice /\ pending' # {})
  /\ wire' = Tail(wire)
  /\ UNCHANGED <<stuck, nextID>>

(* Its callback throws: the rest of onResponse does not happen. *)
Throw(r) ==
  /\ stuck' = stuck \cup {r}
  /\ wire' = Tail(wire)
  /\ UNCHANGED <<pending, nextID, notice>>

(* Its callback sends a request, whose own entry is added before that of   *)
(* r is deleted: the notice stays.                                         *)
Follow(r, method) ==
  LET n == [id |-> nextID, method |-> method] IN
    /\ nextID' = nextID + 1
    /\ pending' = (pending \cup {n}) \ {r}
    /\ wire' = Append(Tail(wire), n)
    /\ UNCHANGED <<stuck, notice>>

-----------------------------------------------------------------------------
(* The routers. *)

(* A Chat is made of what init_chat brought.  No migration creates a       *)
(* channel, so it may bring none; another user may have created one.       *)
MakeChat ==
  /\ populated' \in {populated, TRUE}
  /\ chats' = chats + 1
  /\ bare' = IF populated' THEN bare ELSE chats'

(* The channel that the home page opens is selected when its Chat is made. *)
(* Without one the constructor throws, and so it does without a Chat.      *)
CanMake(h, n, b) == h = "home" => n > b

PageOf(h, n) == [page |-> h, chat |-> IF h \in {"home", "channels"} THEN n ELSE 0]

(* navigate: an event comes only if the hash is another one. *)
Navigate(h) ==
  /\ hash' = h
  /\ events' = IF h = hash THEN events ELSE events + 1

(* Mutant: start() waits for the next hashchange. *)
StartLate(h) ==
  /\ Navigate(h)
  /\ routers' = routers + 1
  /\ UNCHANGED shown

(* new Router, navigate, start, when window.chat is chats'.  A page that   *)
(* cannot be made leaves #view to the routers that came before.            *)
Start(h) ==
  /\ Navigate(h)
  /\ routers' = routers + 1
  /\ shown' = IF CanMake(h, chats', bare') THEN PageOf(h, chats') ELSE shown

GotoLogin == UNCHANGED <<chats, bare, populated, resumed>> /\ Start("login")

Stay == UNCHANGED pageVars

Go(h) == Navigate(h) /\ UNCHANGED <<routers, chats, bare, populated, resumed, shown>>

ChannelSaved ==
  /\ populated' = TRUE
  /\ Navigate("home")
  /\ UNCHANGED <<routers, chats, bare, resumed, shown>>

(* What the views do when a chat has come. *)
GoHome == MakeChat /\ Navigate("home") /\ UNCHANGED <<routers, resumed, shown>>

(* All the routers remove their page and make another, the newest one is   *)
(* the last to put its page into #view.  A home page may also fail on a    *)
(* message whose author the Chat does not know yet.  On an unrouted hash   *)
(* the first router goes to login and the others, if any, already show it. *)
HashChange ==
  /\ events > 0
  /\ \/ /\ routers > 0 /\ hash = "unrouted"
        /\ hash' = "login" /\ events' = events
        /\ shown' = IF routers > 1 THEN PageOf("login", chats) ELSE shown
     \/ /\ routers > 0 /\ hash # "unrouted"
        /\ events' = events - 1
        /\ \/ CanMake(hash, chats, bare) /\ shown' = PageOf(hash, chats)
           \/ hash = "home" /\ shown' = [page |-> "blank", chat |-> chats]
        /\ UNCHANGED hash
     \/ /\ routers = 0
        /\ events' = events - 1
        /\ UNCHANGED <<hash, shown>>
  /\ UNCHANGED <<ws, requestVars, session, routers, chats, bare, populated, resumed>>
  /\ UNCHANGED <<openings, clicks>>

-----------------------------------------------------------------------------
(* The socket. *)

(* wsOnOpen, and the handler of opened in initialize.js. *)
Open ==
  /\ ws = "connecting"
  /\ openings < MaxOpenings
  /\ openings' = openings + 1
  /\ ws' = "open"
  /\ \/ session /\ SendRequest("resume", "open", pending, <<>>) /\ Stay
     \/ ~ session /\ GotoLogin /\ UNCHANGED requestVars
  /\ UNCHANGED <<session, clicks>>

(* wsOnClose; the bound leaves an opening for the next connection. *)
Close ==
  /\ ws # "closed"
  /\ openings < MaxOpenings
  /\ ws' = "closed"
  /\ wire' = <<>>
  /\ UNCHANGED <<pending, stuck, nextID, notice, session, pageVars, openings, clicks>>

(* Mutant: the pending requests of the last connection are kept. *)
ForgetNone == UNCHANGED <<pending, stuck>>

(* connect() forgets the callbacks of the connection that was lost. *)
Forget == pending' = {} /\ stuck' = {}

Connect ==
  /\ ws = "closed"
  /\ ws' = "connecting"
  /\ Forget
  /\ UNCHANGED <<wire, nextID, notice, session, pageVars, openings, clicks>>

-----------------------------------------------------------------------------
(* The answers. *)

Succeed(r) ==
  \/ r.method = "resume" /\ Follow(r, "initStart") /\ Stay /\ UNCHANGED session
  \/ /\ r.method \in {"login", "register"}
     /\ session' = TRUE
     /\ Follow(r, "initGo") /\ Stay
  \/ /\ r.method = "initStart"
     /\ MakeChat /\ resumed' = chats'
     /\ Start("home")
     /\ IF CanMake("home", chats', bare') THEN Settle(r) ELSE Throw(r)
     /\ UNCHANGED session
  \/ /\ r.method = "initGo"
     /\ GoHome
     /\ Settle(r) /\ UNCHANGED session
  \/ r.method = "reset" /\ Go("login") /\ Settle(r) /\ UNCHANGED session
  \/ r.method = "channel" /\ ChannelSaved /\ Settle(r) /\ UNCHANGED session
  \/ r.method \in {"forgot", "post"} /\ Stay /\ Settle(r) /\ UNCHANGED session

(* failed is called with the error only; these callbacks want a response   *)
(* as their second argument.                                               *)
Throws == {"register", "forgot", "reset"}

Fail(r) ==
  /\ UNCHANGED session
  /\ \/ r.method = "resume" /\ GotoLogin /\ Settle(r)
     \/ r.method \in Throws /\ Throw(r) /\ Stay
     \/ r.method \notin Throws \cup {"resume"} /\ Settle(r) /\ Stay

Answer ==
  /\ ws = "open" /\ wire # <<>>
  /\ Succeed(Head(wire)) \/ Fail(Head(wire))
  /\ UNCHANGED <<ws, openings, clicks>>

-----------------------------------------------------------------------------
(* The user. *)

(* The request that the form of a page sends. *)
FormOf == [login |-> "login", register |-> "register", lostPassword |-> "forgot",
           resetPassword |-> "reset", home |-> "post", channels |-> "channel"]

Act == clicks < MaxClicks /\ clicks' = clicks + 1

(* The form of a channels page without a chat throws and sends nothing. *)
Submit ==
  /\ Act
  /\ shown.page \in Pages
  /\ shown.page = "channels" => shown.chat > 0
  /\ SendRequest(FormOf[shown.page], ws, pending, wire)
  /\ UNCHANGED <<ws, session, pageVars, openings>>

(* The session is gone from the browser before the notification is sent,   *)
(* and a send that throws ends the handler before it leaves the page.      *)
Logout ==
  /\ Act
  /\ shown.page \in {"home", "channels"}
  /\ session' = FALSE
  /\ IF ws = "connecting" THEN Stay ELSE Go("login")
  /\ UNCHANGED <<ws, requestVars, openings>>

(* A link, the history or the address bar. *)
Visit ==
  /\ Act
  /\ \E h \in Hashes \ {hash} : Go(h)
  /\ UNCHANGED <<ws, requestVars, session, openings>>

Next == HashChange \/ Open \/ Close \/ Connect \/ Answer \/ Submit \/ Logout \/ Visit

(* The event loop runs what is queued, the timer fires, the server answers *)
(* what it gets, and of endless attempts to connect one succeeds.          *)
Fairness ==
  /\ WF_vars(HashChange) /\ WF_vars(Connect) /\ WF_vars(Answer)
  /\ SF_vars(Open)

Spec == Init /\ [][Next]_vars /\ Fairness

-----------------------------------------------------------------------------
(* The properties. *)

(* The working notice is shown as long as pendingRequests has an entry     *)
(* (sendRequest and onResponse compare the table with the empty one at     *)
(* different times, with callbacks and other sends in between).            *)
NoticeWhilePending == pending # {} => notice

(* On an open connection, the requests that wait for their callbacks are   *)
(* those that the server still has to answer, plus the stuck ones: those   *)
(* sent too early and those whose callback threw (a failure callback that  *)
(* wants its response, or that of init_chat when there is no channel for   *)
(* the home page).  No answer to a request of an earlier connection is     *)
(* expected.                                                               *)
PendingIsOwed ==
  ws = "open" => pending \ stuck = {wire[i] : i \in DOMAIN wire}

(* When every hashchange was handled the page in #view is that of the      *)
(* hash, made by the newest router, and it shows no chat older than the    *)
(* one of the last session resumed (router.js start, change).  Only at     *)
(* #home #view may be blank, and only while the last session resumed has   *)
(* no chat with a channel, or after a home page made for a later hashchange *)
(* threw: a login that is answered at #home brings a chat and shows        *)
(* nothing, since navigate("home") is no change.                           *)
ShownMatchesHash ==
  events = 0 /\ routers > 0 =>
    /\ shown.page = hash \/ (hash = "home" /\ shown.page = "blank")
    /\ hash = "home" => shown.chat >= resumed \/ resumed <= bare

(* Every request is answered or forgotten with its connection, but for     *)
(* the stuck ones (onResponse, connect).                                   *)
RequestsSettle ==
  \A i \in 0..(MaxRequests - 1) :
    (\E r \in pending : r.id = i) ~> (\A r \in pending : r.id = i => r \in stuck)

(* The mail with a reset token says "Click the following link to reset     *)
(* password" (smtp_mailer.go:10): the first page that a router shows for   *)
(* that link is the one with the form.                                     *)
LinkShowsReset ==
  [][hash = "resetPassword" /\ routers = 0 /\ routers' > 0 => shown'.page = "resetPassword"]_vars
=============================================================================
