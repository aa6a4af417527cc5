------------------------------ MODULE ClientConn ------------------------------
(***************************************************************************)
(* The goroutines that serve the browsers' web sockets                     *)
(* (ClientConn.Dispatch, backend/ws.go) together with the four signals of  *)
(* the repository they listen to.  A connection is one goroutine: it waits *)
(* in a select for a request or a notification and handles one at a time;  *)
(* a successful register, login or resume_session removes its four         *)
(* listener channels from the signals and adds four new ones, one signal   *)
(* after another; when it ends it removes them.  A request that publishes  *)
(* something starts a goroutine that dispatches it.                        *)
(*                                                                         *)
(* Requests are taken from the reader goroutine one by one; what they say  *)
(* matters only for the handler they select and for its outcome.  Of       *)
(* conn.user only "is its ID 0" is kept; the tables of the database show   *)
(* only in the outcomes of the calls to the repository, any of which may   *)
(* fail.                                                                   *)
(***************************************************************************)
EXTENDS SignalOps, SequencesExt

CONSTANTS Conn,          \* the connections
          SignalOrder,   \* the signals, in the order in which add- and
                         \* removeRepositoryListeners go through them
          MaxLogins,     \* bound: successful logins per connection
          MaxDispatches  \* bound: calls of Dispatch in a behaviour

ASSUME BoundsAssumption == MaxLogins \in Nat /\ MaxDispatches \in Nat

ASSUME SignalsAssumption ==
  /\ SignalOrder \in Seq(STRING)
  /\ Len(SignalOrder) >= 2
  /\ IsInjective(SignalOrder)

Kind == Range(SignalOrder)

Unlocked == 0

VARIABLES
  authed,     \* authed[c]: conn.user.ID # 0
  pc,         \* pc[c]: where the goroutine of c is
  at,         \* at[c]: the signal it has reached in a walk over SignalOrder
  field,      \* field[c][k]: the channel in c's field for k: its n-th, 0 for nil
  listeners,  \* listeners[k]: the slice of signal k
  mutex,      \* mutex[k]: the dispatch that holds the lock of k, or Unlocked
  pos,        \* pos[k]: the loop index of that dispatch
  dispatch,   \* dispatch[e]: the signal and the progress of the e-th dispatch
  heard       \* heard[k][l]: the dispatches that were received from the
              \* channel l of signal k, in order

connVars == <<authed, pc, at, field>>
signalVars == <<listeners, mutex, pos>>
vars == <<connVars, signalVars, dispatch, heard>>

(* "select": waiting; "handle": in a request handler; "session": the user  *)
(* is known, CreateSession is next; "detach", "attach": the two halves of  *)
(* addRepositoryListeners; "reply", "notify": writing to the web socket;   *)
(* "leave": the deferred removeRepositoryListeners; "ended": returned.     *)
Places == {"select", "handle", "session", "detach", "attach",
           "reply", "notify", "leave", "ended"}

Dispatches == [kind : Kind, phase : {"wait", "send", "done"}]

(* A channel <<c, n>> is the n-th that c makes for a signal. *)
Channels == Conn \X (1..MaxLogins)

TypeOK ==
  /\ authed \in [Conn -> BOOLEAN]
  /\ pc \in [Conn -> Places]
  /\ at \in [Conn -> 0..Len(SignalOrder)]
  /\ field \in [Conn -> [Kind -> 0..MaxLogins]]
  /\ listeners \in [Kind -> Seq(Channels)]
  /\ mutex \in [Kind -> 0..MaxDispatches]
  /\ pos \in [Kind -> Nat]
  /\ dispatch \in Seq(Dispatches)
  /\ heard \in [Kind -> [Channels -> Seq(1..MaxDispatches)]]

Init ==
  /\ authed = [c \in Conn |-> FALSE]
  /\ pc = [c \in Conn |-> "select"]
  /\ at = [c \in Conn |-> 0]
  /\ field = [c \in Conn |-> [k \in Kind |-> 0]]
  /\ listeners = [k \in Kind |-> <<>>]
  /\ mutex = [k \in Kind |-> Unlocked]
  /\ pos = [k \in Kind |-> 0]
  /\ dispatch = <<>>
  /\ heard = [k \in Kind |-> [l \in Channels |-> <<>>]]

-----------------------------------------------------------------------------
(* The goroutine of a connection: a request is taken from the select and   *)
(* handled.  A handler reads and writes only its own connection until it   *)
(* publishes something or starts to walk over the signals, so all of it up *)
(* to there is one step, its calls to the repository included.             *)

Goto(c, place) == pc' = [pc EXCEPT ![c] = place]

(* A walk over the signals starts at the first one. *)
StartWalk(c, place) == Goto(c, place) /\ at' = [at EXCEPT ![c] = 1]

SetUser(c, known) == authed' = [authed EXCEPT ![c] = known]

(* go repo.kSignal.Dispatch(...) *)
Publish(k) ==
  /\ k \in Kind
  /\ Len(dispatch) < MaxDispatches
  /\ dispatch' = Append(dispatch, [kind |-> k, phase |-> "wait"])

(* Every handler may answer with an error, or, as init_chat and the two of *)
(* the password reset do, with a result, and change nothing here.          *)
Answer(c) ==
  /\ Goto(c, "reply")
  /\ UNCHANGED <<authed, at, dispatch>>

(* addRepositoryListeners, up to its first Remove. *)
ReplaceListeners(c) ==
  /\ \A k \in Kind : field[c][k] < MaxLogins
  /\ StartWalk(c, "detach")

(* CreateUser: on an error it returns the zero user, which is assigned to  *)
(* conn.user all the same.                                                 *)
Register(c) ==
  \/ /\ SetUser(c, FALSE)
     /\ Goto(c, "reply")
     /\ UNCHANGED <<at, dispatch>>
  \/ /\ SetUser(c, TRUE)
     /\ Publish("userCreated")
     /\ Goto(c, "session")
     /\ UNCHANGED at

(* repo.Login returns the zero user for an unknown e-mail address, and the *)
(* user it found for a wrong password; both are assigned to conn.user.     *)
Login(c) ==
  \/ /\ \E found \in BOOLEAN : SetUser(c, found)
     /\ Goto(c, "reply")
     /\ UNCHANGED <<at, dispatch>>
  \/ /\ SetUser(c, TRUE)
     /\ Goto(c, "session")
     /\ UNCHANGED <<at, dispatch>>

(* The error of GetUser is overwritten unread: the zero user then, and the *)
(* listeners are added regardless.                                         *)
ResumeSession(c) ==
  /\ \E found \in BOOLEAN : SetUser(c, found)
  /\ ReplaceListeners(c)
  /\ UNCHANGED dispatch

(* PostMessage, CreateChannel and RenameChannel refuse the zero user. *)
PublishRequest(c, k) ==
  /\ authed[c]
  /\ Publish(k)
  /\ Goto(c, "reply")
  /\ UNCHANGED <<authed, at>>

PostMessage(c) == PublishRequest(c, "messagePosted")
CreateChannel(c) == PublishRequest(c, "channelCreated")
RenameChannel(c) == PublishRequest(c, "channelRenamed")

(* Logout forgets the user and nothing else. *)
Logout(c) ==
  /\ SetUser(c, FALSE)
  /\ Goto(c, "reply")
  /\ UNCHANGED <<at, dispatch>>

TakeRequest(c) ==
  /\ pc[c] = "select"
  /\ Goto(c, "handle")
  /\ UNCHANGED <<authed, at, field, signalVars, dispatch, heard>>

Handle(c) ==
  /\ pc[c] = "handle"
  /\ \/ Answer(c)
     \/ Register(c)
     \/ Login(c)
     \/ ResumeSession(c)
     \/ PostMessage(c)
     \/ CreateChannel(c)
     \/ RenameChannel(c)
     \/ Logout(c)
  /\ UNCHANGED <<field, signalVars, heard>>

(* CreateSession comes before the listeners: when it fails, the user is    *)
(* set and they are not touched.                                           *)
OpenSession(c) ==
  /\ pc[c] = "session"
  /\ \/ ReplaceListeners(c)
     \/ Goto(c, "reply") /\ UNCHANGED at
  /\ UNCHANGED <<authed, field, signalVars, dispatch, heard>>

(* websocket.JSON.Send of a response or of a notification: when it fails,  *)
(* the goroutine runs its deferred call and ends.                          *)
Write(c) ==
  /\ pc[c] \in {"reply", "notify"}
  /\ \/ Goto(c, "select") /\ UNCHANGED at
     \/ StartWalk(c, "leave")
  /\ UNCHANGED <<authed, field, signalVars, dispatch, heard>>

(* Mutant: the goroutine ends and leaves its channels in the signals. *)
ReadErrorNoCleanup(c) ==
  /\ pc[c] = "select"
  /\ Goto(c, "ended")
  /\ UNCHANGED <<authed, at, field, signalVars, dispatch, heard>>

(* The reader reports an error: the browser is gone, or sent nonsense. *)
ReadError(c) ==
  /\ pc[c] = "select"
  /\ StartWalk(c, "leave")
  /\ UNCHANGED <<authed, field, signalVars, dispatch, heard>>

-----------------------------------------------------------------------------
(* Mutant: Add and Remove do not take the mutex. *)
LockAlwaysFree(k) == TRUE

(* Lock() of the signal's mutex returns. *)
LockFree(k) == mutex[k] = Unlocked

(* The walks over the four signals.  After the last signal comes the place *)
(* that follows the walk.                                                  *)

Reaches(c, k) == at[c] \in DOMAIN SignalOrder /\ SignalOrder[at[c]] = k

AfterWalk == [detach |-> "attach", attach |-> "reply", leave |-> "ended"]

(* Mutant: the walk goes on past the last signal. *)
NextSignalAlways(c) ==
  /\ at' = [at EXCEPT ![c] = @ + 1]
  /\ UNCHANGED pc

NextSignal(c) ==
  \/ /\ at[c] < Len(SignalOrder)
     /\ at' = [at EXCEPT ![c] = @ + 1]
     /\ UNCHANGED pc
  \/ /\ at[c] = Len(SignalOrder)
     /\ at' = [at EXCEPT ![c] = IF pc[c] = "detach" THEN 1 ELSE 0]
     /\ Goto(c, AfterWalk[pc[c]])

(* One `if` of removeRepositoryListeners: nil is skipped, and Remove waits *)
(* for the lock of the signal.                                             *)
RemoveListenerOf(c, k) ==
  /\ pc[c] \in {"detach", "leave"}
  /\ Reaches(c, k)
  /\ \/ field[c][k] = 0 /\ UNCHANGED listeners
     \/ /\ field[c][k] # 0
        /\ LockFree(k)
        /\ listeners' = [listeners EXCEPT ![k] = RemoveListener(@, <<c, field[c][k]>>)]
  /\ NextSignal(c)
  /\ UNCHANGED <<authed, field, mutex, pos, dispatch, heard>>

(* Mutant: Add does not take the mutex. *)
AddListenerUnlocked(c, k) ==
  /\ pc[c] = "attach"
  /\ Reaches(c, k)
  /\ field' = [field EXCEPT ![c][k] = @ + 1]
  /\ listeners' = [listeners EXCEPT ![k] = AddListener(@, <<c, field[c][k] + 1>>)]
  /\ NextSignal(c)
  /\ UNCHANGED <<authed, mutex, pos, dispatch, heard>>

(* One make and Add of addRepositoryListeners. *)
AddListenerOf(c, k) ==
  /\ pc[c] = "attach"
  /\ Reaches(c, k)
  /\ LockFree(k)
  /\ field' = [field EXCEPT ![c][k] = @ + 1]
  /\ listeners' = [listeners EXCEPT ![k] = AddListener(@, <<c, field[c][k] + 1>>)]
  /\ NextSignal(c)
  /\ UNCHANGED <<authed, mutex, pos, dispatch, heard>>

-----------------------------------------------------------------------------
(* The goroutines that run Dispatch. *)

Acquire(e) ==
  LET k == dispatch[e].kind IN
  /\ dispatch[e].phase = "wait"
  /\ LockFree(k)
  /\ mutex' = [mutex EXCEPT ![k] = e]
  /\ pos' = [pos EXCEPT ![k] = 1]
  /\ dispatch' = [dispatch EXCEPT ![e].phase = "send"]
  /\ UNCHANGED <<connVars, listeners, heard>>

(* l <- msg meets the select of the connection whose field holds l. *)
Send(e) ==
  LET k == dispatch[e].kind IN
  /\ dispatch[e].phase = "send"
  /\ pos[k] \in DOMAIN listeners[k]
  /\ LET c == listeners[k][pos[k]][1]
         n == listeners[k][pos[k]][2] IN
       /\ pc[c] = "select"
       /\ field[c][k] = n
       /\ Goto(c, "notify")
       /\ heard' = [heard EXCEPT ![k][<<c, n>>] = Append(@, e)]
  /\ pos' = [pos EXCEPT ![k] = @ + 1]
  /\ UNCHANGED <<authed, at, field, listeners, mutex, dispatch>>

(* Mutant: Dispatch returns without Unlock. *)
ReleaseNoUnlock(e) ==
  LET k == dispatch[e].kind IN
  /\ dispatch[e].phase = "send"
  /\ pos[k] \notin DOMAIN listeners[k]
  /\ dispatch' = [dispatch EXCEPT ![e].phase = "done"]
  /\ UNCHANGED <<connVars, signalVars, heard>>

Release(e) ==
  LET k == dispatch[e].kind IN
  /\ dispatch[e].phase = "send"
  /\ pos[k] \notin DOMAIN listeners[k]
  /\ mutex' = [mutex EXCEPT ![k] = Unlocked]
  /\ pos' = [pos EXCEPT ![k] = 0]
  /\ dispatch' = [dispatch EXCEPT ![e].phase = "done"]
  /\ UNCHANGED <<connVars, listeners, heard>>

-----------------------------------------------------------------------------
Walk(c) == \E k \in Kind : RemoveListenerOf(c, k) \/ AddListenerOf(c, k)

(* What a connection does between its select and its next wait. *)
Work(c) == Handle(c) \/ OpenSession(c) \/ Write(c)

Next ==
  \/ \E c \in Conn : TakeRequest(c) \/ ReadError(c) \/ Work(c) \/ Walk(c)
  \/ \E e \in DOMAIN dispatch : Acquire(e) \/ Send(e) \/ Release(e)

SafeSpec == Init /\ [][Next]_vars

(* Goroutines that can run do run; calls to the database return, and a     *)
(* write to a web socket ends, one way or the other; a select in which a   *)
(* sender is found waiting again and again chooses it in the end.  No      *)
(* browser is obliged to send a request or to go away.                     *)
DispatchStep(e, A(_)) == e \in DOMAIN dispatch /\ A(e)

Fairness ==
  /\ \A c \in Conn : WF_vars(Work(c)) /\ WF_vars(Walk(c))
  /\ \A e \in 1..MaxDispatches :
       /\ WF_vars(DispatchStep(e, Acquire))
       /\ SF_vars(DispatchStep(e, Send))
       /\ WF_vars(DispatchStep(e, Release))

Spec == SafeSpec /\ Fairness

-----------------------------------------------------------------------------
(* Properties. *)

ListedOn(c) == {k \in Kind : \E n \in 1..MaxLogins : <<c, n>> \in Range(listeners[k])}

(* Outside the walks a connection listens to all four signals, with the    *)
(* channels its select receives from, or to none; and when its goroutine   *)
(* has ended, to none: a channel left behind would block every later       *)
(* dispatch of its signal for ever.                                        *)
ListensToAllOrNone ==
  \A c \in Conn :
    /\ pc[c] \in {"select", "handle", "session", "reply", "notify"} =>
         /\ ListedOn(c) \in {{}, Kind}
         /\ \A k \in ListedOn(c), n \in 1..MaxLogins :
              <<c, n>> \in Range(listeners[k]) => n = field[c][k]
    /\ pc[c] = "ended" => ListedOn(c) = {}

(* A connection is told of a message, channel or user at most once, over   *)
(* all its logins, although each of them lists new channels.               *)
ToldOnce ==
  \A c \in Conn, k, l \in Kind, m, n \in 1..MaxLogins :
    \A i \in DOMAIN heard[k][<<c, m>>], j \in DOMAIN heard[l][<<c, n>>] :
      heard[k][<<c, m>>][i] = heard[l][<<c, n>>][j] => <<k, m, i>> = <<l, n, j>>

(* c waits for the lock of a signal whose dispatch waits for d. *)
WaitsFor(c, d) ==
  \E k \in Kind :
    /\ Reaches(c, k)
    /\ pc[c] = "attach" \/ field[c][k] # 0
    /\ mutex[k] # Unlocked
    /\ pos[k] \in DOMAIN listeners[k]
    /\ listeners[k][pos[k]][1] = d

(* Connections that wait for each other in a circle, through the locks of  *)
(* one or of several signals.                                              *)
CircularWait ==
  \E S \in SUBSET Conn \ {{}} : \A c \in S : \E d \in S : WaitsFor(c, d)

(* No step of anyone, not even a browser that goes away, breaks a circle.  *)
CircularWaitIsForever == [][CircularWait => CircularWait']_vars

(* Every dispatch that was called returns, unless a circle arises. *)
DispatchEnds ==
  \A e \in 1..MaxDispatches :
    (e \in DOMAIN dispatch)
      ~> (CircularWait \/ (e \in DOMAIN dispatch /\ dispatch[e].phase = "done"))

(* A connection that left its select comes back to it or ends, unless a    *)
(* circle arises.                                                          *)
ConnectionReturns ==
  \A c \in Conn : (pc[c] # "select") ~> (pc[c] \in {"select", "ended"} \/ CircularWait)

-----------------------------------------------------------------------------
(* Each of the four signals, with the connections as the owners of its     *)
(* channels, behaves as Signal.tla says.                                   *)

(* c's place in its walk, seen from k: before it, at it or behind it. *)
Before(c, k) == \E i \in DOMAIN SignalOrder : i > at[c] /\ SignalOrder[i] = k

CurrentOwner(c, k) ==
  CASE pc[c] = "select" -> "recv"
    [] pc[c] \in {"handle", "session", "reply", "notify"} -> "busy"
    [] pc[c] \in {"detach", "leave"} ->
         IF Reaches(c, k) THEN "removing" ELSE IF Before(c, k) THEN "busy" ELSE "gone"
    [] pc[c] = "attach" -> IF Reaches(c, k) \/ Before(c, k) THEN "gone" ELSE "busy"
    [] pc[c] = "ended" -> "gone"

OwnerOf(k, l) ==
  LET c == l[1]
      n == l[2]
  IN CASE n < field[c][k] -> "gone"
       [] n = field[c][k] -> CurrentOwner(c, k)
       [] n > field[c][k] -> IF pc[c] = "attach" /\ Reaches(c, k) /\ n = field[c][k] + 1
                               THEN "adding" ELSE "new"

PhaseOn(k, e) ==
  IF e \in DOMAIN dispatch /\ dispatch[e].kind = k THEN dispatch[e].phase ELSE "new"

Sig(k) == INSTANCE Signal WITH
  Chan      <- Channels,
  Msg       <- 1..MaxDispatches,
  listeners <- listeners[k],
  mutex     <- mutex[k],
  pos       <- pos[k],
  phase     <- [e \in 1..MaxDispatches |-> PhaseOn(k, e)],
  owner     <- [l \in Channels |-> OwnerOf(k, l)],
  heard     <- heard[k]

(* Every step of the connections and the dispatches is, for each signal, a *)
(* step of that signal alone or none.                                      *)
ImplementsSignals ==
  /\ \A k \in Kind : Sig(k)!Init
  /\ [][\A k \in Kind : [Sig(k)!Next]_(Sig(k)!vars)]_vars
=============================================================================
