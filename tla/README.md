# jchat in TLA+

jchat is a chat server in Go and its browser client in JavaScript. A browser
talks JSON-RPC over one web socket; the server keeps everything durable in
PostgreSQL, through a pool of connections, and tells the connected browsers what
happened over in-memory signals. This directory models the parts in which the
order of events matters, and the two vendored libraries on which a request
depends, checks the models with TLC and proves the central results with TLAPS.

Source paths are relative to `src/`; `pgx` and `websocket` are the vendored
packages under `backend/Godeps/_workspace/src/`.

## 1. Inventory

### The parts, their state and their operations

| part | state | operations |
|---|---|---|
| **Signals** `backend/message_signal.go` (`channel_signal.go` and `user_signal.go` are the same program for other element types) | a slice of channels, a mutex | `Add`, `Remove`, `Dispatch` |
| **Repository** `backend/pgx_repository.go`, `db/` | the tables `users`, `sessions`, `password_resets`, `channels`, `messages`; four signals; a connection pool | one statement per method; `CreateUser`, `CreateChannel`, `RenameChannel`, `PostMessage` then start a goroutine that dispatches |
| **Web socket connection**, `ClientConn` in `backend/ws.go` | `user`, four listener channels; locals `req`, `reqChan`, `errChan` | a reader goroutine; a main goroutine that selects among requests, four kinds of notifications and read errors; ten request handlers; `addRepositoryListeners`, `removeRepositoryListeners` |
| **Mailer** `backend/smtp_mailer.go` | none | one mail per reset token |
| **Web socket protocol** `websocket/hybi.go`, `websocket.go`, `server.go` | the reader and writer of a connection, the mutexes `rio` and `wio` | the handshake, `Receive`, `Send`, `HandleFrame`, `WriteClose`, `Close` |
| **Database pool and driver** `pgx/conn_pool.go`, `conn.go`, `query.go`, `msg_reader.go`, `values.go` | all and available connections, a condition variable; per connection the reader of messages and whether it is alive | `Acquire`, `Release`, `Exec`, `QueryRow`, `Query`; encoding of arguments, decoding of columns |
| **Browser connection** `frontend/source/js/connection.js` | `ws`, `pendingRequests`, `nextRequestID`, `connectAttemptCount`, `sessionID` in `localStorage` | `connect`, `sendRequest`, `sendNotification`, the socket's callbacks, answer and notification fan-out |
| **Browser pages** `initialize.js`, `router.js`, `views/` | the hash, the routers, the page in `#view`, the working notice | start after each opening, navigation, the forms |
| **Browser model** `models/chat.js` | channels with messages, users | build from `init_chat`, apply notifications |
| **Start-up** `backend/main.go` | none after it has started | options, static files, HTTP routes |

### How they interact

* The browser's `sendRequest` stores callbacks under a number and writes a
  message. The reader goroutine decodes it into `req` and hands a copy to the
  main goroutine over `reqChan` (unbuffered). The main goroutine handles it,
  sends the answer with `*req.ID`, and the browser looks the callbacks up.
* Both goroutines of a connection write to its socket: answers and notifications
  the one, pongs and a close frame the other, on one buffer under `wio`.
* Handlers call the repository. Each method is one statement on a connection that
  it acquires from the pool and releases after it has read the answer. Those that
  publish do `go signal.Dispatch(x)` after the statement has committed.
* `Dispatch` holds the mutex of the signal while it sends to each listener
  channel in turn. The channels are unbuffered: a send needs the main goroutine
  of that connection to be in its select.
* A successful `register`, `login` or `resume_session` first removes the
  connection's old channels from the four signals, then makes and adds new ones.
  This runs in the main goroutine, which is not in its select meanwhile. The end
  of the main goroutine removes them too (`defer`).
* The browser applies answers and notifications in the order in which they
  arrive. Each time its socket opens, it makes a new router and resumes its
  session, which makes a new chat; the old ones stay subscribed.

### What is hard, and what makes each part correct

* **Signals.** Concurrent `Dispatch`es, `Add`s and `Remove`s. `Remove` overwrites
  an element with the last one; a loop over the slice must not see that happen.
  `Dispatch` blocks with the mutex held. *Correct when* every channel is listed
  exactly between its `Add` and its `Remove`, a dispatch serves exactly the
  listed channels, all listeners hear messages in one order, and a dispatch ends.
* **Connections.** A walk over four signals that takes four mutexes one at a time,
  while dispatches hold some and wait for connections that are in their own
  walks: circular waits. Partial failures leave `user` and the listeners out of
  step. *Correct when* a connection listens to all signals or to none, is told of
  each thing once, and comes back to its select.
* **Request pipe.** The copy of `req` is shallow, so the next message is decoded
  into memory the handler of the last one still reads. *Correct when* requests are
  handled once, in order, with their own params, and answers carry their own id.
* **Delivery to the browser.** The snapshot of `init_chat` and the notifications
  overlap; dispatching goroutines overtake each other; the server may die between
  a commit and its dispatch; the objects of an earlier connection stay subscribed.
  *Correct when* the page misses nothing, knows the authors of what it shows, and
  shows a message after those that everybody had been told of in an earlier second.
* **Accounts.** Handlers are several statements long, any of which may fail before
  or after it is carried out; the table of sessions is unlogged. *Correct when* a
  session belongs to a user whose password was presented, a token changes one
  password once and reaches its owner only, and an answer names the user the
  connection acts for.
* **Pool and driver.** Waiters must be woken; a connection must not be shared, lost
  or handed out dead; what is left of one answer must not be read as the next.
  *Correct when* each call returns what its own statement did.
* **Browser session.** Requests that no one will answer, callbacks that throw,
  objects of earlier connections. *Correct when* each pending request is owed an
  answer, and the page shown is that of the hash.
* **Web socket.** Two writers; frames `Receive` does not take. *Correct when* the
  stream is a sequence of whole frames and the connection ends when it must.

The full list of hazards, each at its line and with the properties that cover it,
is in `PROJECT.json`.

## 2. The modules

```
SignalOps ── Signal ── MCSignal                Broadcast
    │          │  └────────── implements ─────────┘
    │          └── SignalProofs
    └── ClientConn ── MCClientConn             each of its signals implements Signal
            └── ClientConnProofs
RequestPipe    ── MCRequestPipe, RequestPipeProofs
ChatDelivery   ── MCChatDelivery, ChatDeliveryProofs
                                               uses a signal as Broadcast promises it
Accounts       ── MCAccounts, AccountsProofs
BrowserSession ── MCBrowserSession, BrowserSessionProofs
ConnPool ── PgPool ─┬─ MCPgPool                PgPool implements ConnPool
PgValues ───────────┴─ PgxProofs
WebSocket      ── MCWebSocket, WebSocketProofs
```

In each module the operators that end in a name of a fault, and are preceded by a
comment that begins with *Mutant*, are changes that a bug could make. Nothing uses
them; each is the counterpart of an operator and breaks one of the properties.

### Signal, SignalOps, Broadcast

`SignalOps` is the slice: `Add` appends, `Remove` moves the last element into the
hole. `Signal` is one signal with any number of listener channels (`Chan`) and
calls of `Dispatch` (`Msg`). `listeners` and `mutex` are the fields of
`MessageSignal`; `pos` and `phase` are the loop index and the program counter of
the dispatching goroutines; `owner` is what the goroutine that receives from a
channel does; `heard` is a history of what it received. `Dispatch` is three kinds
of steps (`Acquire`, `Send` per listener, `Release`) because it blocks between
them. `Add` and `Remove` block on nothing once they have the mutex, so each is one
step. A channel is used by one goroutine and is removed at most once, as `ws.go`
does; a goroutine that is not in its select is `busy`.

`Broadcast` is what users of a signal may rely on: one broadcast at a time, its
receivers fixed when it begins, each served exactly once before it ends.

### ClientConn

All connections and their signals, four in the code; the order in which a walk goes
through them is a constant. `pc` is the place of a connection's main goroutine: its
select, a handler, the call of `CreateSession`, the two halves of
`addRepositoryListeners` (`detach`, `attach`), writing an answer or a notification,
and the deferred `removeRepositoryListeners` (`leave`). `field[c][k]` is the
`…Chan` field of the connection: the channel made by its n-th successful login.
`heard[k][l]` is a history: the dispatches that were received from channel `l` of
signal `k`, as `Signal` has it for one signal.
Of `conn.user` the model keeps whether its ID is 0. Calls to the repository are
part of the step of their handler and may fail; what they return shows in which
disjunct is taken. `Logout`, a failed `Login` and a failed `GetUser` assign
`conn.user` exactly as the code does, without touching the listeners.

### RequestPipe

One web socket with a browser, the reader goroutine and the main goroutine. A
message is its place in the order of sending. `cell` is the number `req.ID` points
to, `buffer` the array of `req.Params`. A read by the main goroutine that overlaps
the decoding of the next message is a data race; it may give the old value, the
new one or `Garbled`. Close may lose what is on its way. How many messages a browser
has under way at once (`window`) is fixed when it starts.

### ChatDelivery

Rows, dispatches, connections and pages. `phase` follows an item (a user, a
channel or a message) from its statement over the commit to the end of its
dispatch; `time` is `creation_time`, which PostgreSQL takes when the statement
begins, as `get_init` sorts by it: in whole seconds, so that several messages may
share one and are then listed in any order; `holder`, `toServe`, `listening` are the signals, as `Broadcast` has them;
`toBrowser` is the web socket; `chat` is `window.chat` and `former` are the Chat
objects of earlier connections, through which every notification goes first.
A page keeps, per channel id, the list of the entries with that id, because a
channel that is in the snapshot and is told of as well is on the page twice.
`seen` and `cut` are history variables for the properties. `Restart` is the death
of the server process.

### Accounts

The tables `users`, `sessions` and `password_resets` and the handlers that use them.
A handler is a chain of places in `pc`, one per statement (`CheckPassword`,
`CreateSession`, `GetUser`, `CreatePasswordReset`, `SendMail` follow on another);
`row` is what it has read, `user` is `conn.user.ID`, `answer` the last response, with
the address for which it was given where a mail was asked for. There may be no mailer:
`SendMail` may be refused without a mail, as when it fails. A statement may fail before it is carried out, or after it, which its handler cannot
tell apart. A password is its own digest. Session ids and tokens are numbered as
they are made, which stands for random values that nobody guesses. `had` is a
history: the passwords a user has had. `Restart` is the death of the server in the
middle of anything, `CrashDatabase` empties the unlogged table `sessions`. That the
e-mail index is on `lower(email)` while the lookup compares letter for letter is
`Taken` against `HasEmail`.

### BrowserSession

One page and its sockets, one after another. `pending` is `pendingRequests`; `stuck`
are the entries that nothing will ever delete (a request sent while the socket is
connecting; a callback that throws before `delete`); `wire` are the requests
the server has to answer. A callback of JavaScript is one step, with all it sends
and all pages it changes. `hash`, `events`, `routers`, `chats`, `shown` are the
hash, its events not yet handled, the routers (each opening adds one), the Chat
objects and the page in `#view`. No migration creates a channel, so the database may
have none (`populated`), and `bare` counts the Chats made from it: the home page of
such a Chat throws (`home.js:166` reads `messageReceived` of no channel), in `start`
inside the callback of `init_chat`, whose entry then is never deleted, and at a later
hashchange, which leaves `#view` blank. A home page may also throw at a message whose
author the Chat does not know, at any hashchange. The delay before a reconnection is left out: its
timer is a step that happens in the end.

### ConnPool, PgPool

`ConnPool` is the pool as its callers may see it: who holds which connection, who
waits, who was woken; between `Acquire` and `Release` a connection may die, and
nothing else is said of it. `lock` is `cond.L` where it is kept over a blocking
operation (`createConnection` runs under it). `cond.Signal` comes after the unlock,
so it is a step of its own.

`PgPool` extends it with what a caller does meanwhile: send a prepared statement,
read messages up to `ReadyForQuery`, drain what it does not want. `in[x]` are the
messages on their way on connection `x`, each marked as the answer to the current
statement or a stale one, and as whole or torn. `poisoned[x]` is `msgReader.err`,
after which `rxMsg` returns type 0 and no error for ever; `early[x]` is a history of
drains that ended at an error instead of at `ReadyForQuery`; a torn message poisons
where its body is read (`Poisons`). `carried` is whether
the server has really carried out the statement. `Break` loses the connection with a
suffix of what was on its way.

### PgValues

Pure definitions: what each Go type becomes as an argument of each column type
(`Encode`), what PostgreSQL stores (`Stored`, external), and what `Scan` makes of a
column (`Decode…`). A word of k bytes is a number below `Card[k]`, so overflow and
sign are kept, for bytes of any size. An array whose value is shorter than its
elements say is refused, as a read past its end is (`ReadPastEnd`).

### WebSocket

One server-side socket from its handshake. Both goroutines write a frame in the
steps of the code: lock `wio`, header, payload, flush, unlock; a header is the
sequence of its bytes, in its three forms. The reader takes each kind of frame as
`HandleFrame` and `Receive` do: a ping becomes a pong, an empty ping, a pong, a
close frame or text that is not JSON ends it, an unmasked frame makes it write a
close frame. Between its loop and `Close` the main goroutine removes its listeners
(`Leave`), which may take for ever when a dispatch sends to it. The TCP connection may
be lost at any time. A frame of the server
carries the place of the frame it answers, so `RepliesInOrder` can say of the pongs
that they answer the pings one by one, and of the answers that they do the requests.
The frames that the server writes are taken to be shorter than 2 GiB.

## 3. What the runs check

| run | bounds | shows |
|---|---|---|
| `signal` | 3 channels, 2 dispatches | `ListenersMatchOwners`: the swap in `Remove` loses and duplicates nobody. `SameOrder`: any two listeners hear their common messages in one order. `DispatchReachesAll`: a dispatch returns when exactly the listed channels have its message. `MutualWaitIsForever`: a listener that waits in `Remove` for the dispatch that waits for it is never freed. `ImplementsBroadcast` |
| `conn_relogin` | 2 connections, 3 signals, 2 logins each, 1 dispatch | `ListensToAllOrNone` and `ToldOnce` while channels are replaced and connections end; `ImplementsSignals`: each signal, seen alone, takes only steps of `Signal` |
| `conn_circles` | 2 connections, 2 signals, 1 login each, 2 dispatches | `CircularWaitIsForever`, through one mutex or two; `DispatchEnds` and `ConnectionReturns`: that circle is the only thing that keeps a dispatch from returning or a connection from coming back to its select |
| `pipe` | 4 messages, 1 or up to 4 under way | `PatientIsServed`: a browser that waits for each answer gets its own, and its handlers read their own params. `HandledInOrder` for both. `LabelIsNear`: an answer carries the id of its own request, of the next, or garbage. `RequestsSettle`, `MainEnds` |
| `pipe_mismatch` (violation) | 2 messages | `AnswersMatch` fails with two requests under way |
| `chat_overtake` | 2 users, 2 channels, 2 messages, 1 page, 2 seconds | `NothingLost`, `AuthorsKnown`, `TwiceAtMost`, and `ShownInOrder` for messages of different seconds, for every order of dispatches around the snapshot |
| `chat_restart` | 2 users, 1 channel, 2 messages, 1 page, 1 second, 1 restart | `NothingLost` when the server dies between any two steps, and `AllAreTold`: what is stored reaches every connected page |
| `accounts` | 2 connections, 3 e-mail addresses of which 2 differ in case only, a long and a short password, 2 users, 1 session, 1 token | `SessionsJustified`, `MailsReachOwner`, `AnswerNamesUser`, `AskedIsMailed`: who has an account and is told that a reset was requested was mailed a token for it. `PasswordChangesByToken`. All under failing statements, lost answers, restarts and database crashes |
| `pool` | 3 callers, 2 connections, 4 calls, 2 faults | `PoolSound`: connections are neither shared nor lost nor handed out dead. `WaitersAreServed`: no wake-up is lost. `AnswersAreOwn`, `SuccessIsReal`: what a call returns was done by its own statement, unless an earlier drain ended too early. It also evaluates the assumptions of `MCPgPool`, which compare what `PgValues` decodes with what it encoded |
| `browser` | 2 openings, 3 acts of the user | `NoticeWhilePending`, `PendingIsOwed`, `ShownMatchesHash`, `RequestsSettle`, for any acts at any time, with channels in the database or none |
| `browser_link` (violation) | 2 openings, 1 act | `LinkShowsReset` fails: the link of a reset mail never shows its form |
| `socket` | 3 frames of 10 kinds, 1 notification of 2 lengths | `FramesWhole`: the stream is whole frames with right headers. `RepliesInOrder`. `ConnectionEnds`: after a frame that is not taken, or a lost connection, the goroutine ends and the socket is closed, or it waits for ever to remove its listeners. `HeadersRoundTrip` of `MCWebSocket` compares headers at all boundaries of the three forms |

Why the bounds are enough. Three listeners is the least with which the element
that `Remove` moves is neither the removed one nor next to it, and an order is a
matter of two dispatches; the theorems of section 4 cover any number of both. A
circle needs two connections and, through two mutexes, two signals and two
dispatches; two logins are the least with which old channels are replaced, and three
signals the least with one that is neither first nor last in a walk. The reader
is at most one message ahead of the main goroutine, so four messages contain every
overlap, with one message before it and one after. A message can be overtaken by its
channel, its author and another message, and there is one of each; a restart gives
the page a former Chat. Two connections race for one token and one address; the
theorems lift the bounds of `accounts`. Three callers for two connections make one
wait; two faults kill both connections, which is the case in which a waiter is
alone. The second opening of a page is the first reconnection, and what an act
leaves behind is met by the next two. In `socket` there are a ping, a request and
one more frame beside a notification, so that both goroutines want to write at once,
and one of the three can be one that ends the connection.

Properties that excuse something do so for a reason that TLC has shown. In
`chat_overtake` and `chat_restart` they excuse an *early* message, one posted before
everybody had been told of its channel and its author: without the excuse TLC finds a
message that is told before its channel and dropped by `onMessagePosted`. `cut`
excuses what an exception in a former Chat keeps from the new one. `SuccessIsReal`
and `AnswersAreOwn` excuse connections that a drain has left too early,
`WaitsForSomeone` a pool whose connections have all died, `PendingIsOwed` and `RequestsSettle` the
stuck requests, `ShownMatchesHash` a blank page at `#home`, `ShownInOrder` messages of
one second, `ConnectionEnds` a goroutine that cannot get at its listeners; each excuse
is one of the defects below. `CHECK_DEADLOCK FALSE` is set
where the system may stop: everything there was to do is done, or a circle has
formed.

### Disagreements between the code and what the repository says of it

| run | what TLC finds |
|---|---|
| `pipe_mismatch` | Two requests in a row: the first answer carries the id of the second, because the second was decoded into the number that the first `req.ID` points to (`ws.go:94`). `ws_test.go:67` demands equal ids |
| `browser_link` | The socket opens, `initialize.js:6` goes to the login page, or after a resumed session to the home page, and the hash with the reset token is gone before a router has looked at it. `smtp_mailer.go:10` tells the user to click that link to reset the password |

### Other defects that the models contain

They are in the models as they are in the code; where a property would fail because
of one, it says so by an excuse.

* A connection that ends, or logs in again, while a dispatch is sending to it waits
  in `Remove` for the mutex that the dispatch holds, and the dispatch waits for it:
  the signal is dead for everyone (`MutualWaitIsForever`, `CircularWaitIsForever`).
  Nobody who ends there closes its socket: the deferred removal comes before `Close`.
* Messages of one second may come in any order after a reload: `get_init.sql:20` sorts
  by `creation_time`, and that name is the output column, rounded to whole seconds.
* On a database without a channel, which no migration creates, the home page throws
  (`home.js:166`, `chat.js:47`): the entry of `init_chat` stays in `pendingRequests`,
  the working notice stays on and `#view` stays blank or as it was. A channel created then
  is not selected; the home page works again with the next Chat.
* Without a mailer (`ws.go:454`), or when it fails, asking for a reset gives an error
  for an address that has an account and true for one that has none, although the
  comments at `ws.go:445` and `465` say that the answer does not reveal which. The
  model has both answers; no run is about that comparison.
* After `logout`, or a failed `login`, the listeners of the connection stay
  (`ws.go:130`), so notifications go on.
* `resume_session` overwrites the error of `GetUser` and answers for the zero user
  (`ws.go:411`).
* Chats and routers of earlier connections stay subscribed; an exception in one keeps
  a notification from the next (`home.js:174` notes that its destructor is not
  called).
* `register.js:39` and others read a property of a second argument that `failed` is
  called without: the exception leaves the request in `pendingRequests` and the
  working notice on.
* The driver's drain ends at an error (`query.go:100`), so the next statement on that
  connection reads what is left; `QueryRow` reports success although the commit
  failed.
* After an error in the body of a message `rxMsg` returns type 0 for ever, and
  `Exec`, `Prepare` and the rollback of `Release` never return (`msg_reader.go:31`).
* A woken waiter looks only for an available connection: when all have died it waits
  although it might make one (`conn_pool.go:96`).
* An integer below the range of its column is sent as another number
  (`values.go:811`); a timestamp without time zone changes its instant unless it was
  in local time (`values.go:1176`). jchat sends no such value.
* An empty ping, and any pong, ends the connection (`hybi.go:293`, `303`).

### Fairness

* `ClientConn`: weak fairness for everything a goroutine does without waiting for
  another, since the Go scheduler runs every runnable goroutine; weak fairness for
  taking a mutex, which in the run with liveness each dispatch takes once, so that it
  cannot be taken away for ever; strong fairness for a send, because a select that has
  several ready cases chooses among them at random and so takes a blocked sender in
  the end if it finds it there again and again. Nobody is obliged to log in, to send a
  request or to leave. A write to a web socket is assumed to end, one way or the
  other: the code sets no deadline, so this is an assumption about TCP.
* `RequestPipe`: both goroutines run, and an answer that has arrived is taken. Handlers
  and the deferred removal of listeners are assumed to return; where they may not is
  in `ClientConn`, and, for the statements, in `PgPool`.
* `ChatDelivery`: dispatches, the server's goroutines and the pages go on. The
  circles of `ClientConn` cannot arise here: nobody calls `Remove` in this module.
* `BrowserSession`: events and timers fire, the server answers; strong fairness for
  the opening of a socket, because attempts go on until one succeeds, and a server
  that is never there again is not what the property is about.
* `WebSocket`: both goroutines run, and reads and writes end. The removal of listeners
  has no fairness, because a dispatch may hold the mutex for ever.
* `Signal` states the same fairness as `ClientConn`; its run checks safety and
  action properties.
* `Accounts`, `PgPool` are safety only: every statement may fail and every
  connection break, so there is nothing that must happen.

## 4. What is proved

For every value of the constants. `PROJECT.json` lists the theorems.

| module | theorems | assumed of the constants |
|---|---|---|
| `SignalProofs` | `TypeCorrect`, `ListingCorrect`, `OneOrder`, `DispatchDelivers`, `DeadlockIsForever`, `Refinement` (of `Broadcast`) | the value of a free mutex is not a dispatch |
| `ClientConnProofs` | `TypeCorrect`, `ListensToAll`, `ToldAtMostOnce`, `CirclesStay` (`CircularWaitIsForever`), `SignalsAreImplemented` (each signal refines `Signal`) | at least two signals, all different; the bounds are numbers |
| `RequestPipeProofs` | `RequestsInOrder`, `PatienceIsServed`, `LabelsAreNear` | the bounds are numbers |
| `ChatDeliveryProofs` | `EverythingArrives` (`NothingLost`), `AuthorsComeFirst` (`AuthorsKnown`), `MessagesAreTwiceAtMost`, `MessagesAreInOrder` (`ShownInOrder`) | rows are of one kind, old rows are no messages, there is a second to post in, `None` is neither row, post nor Chat |
| `AccountsProofs` | `TypeCorrect`, `SessionsAreJustified`, `TokensGoToOwners`, `AnswersNameUsers`, `TokensAreUsedUp`, `AskedAreMailed` (`AskedIsMailed`) | addresses and passwords exist, `Lower` is defined on the addresses |
| `PgxProofs` | of the pool: `ConnectionsAreShared`, `WakeUpsAreNotLost`; of its callers: `QueriesUseThePool` (`PgPool` refines `ConnPool`), `QueriesAreTyped`, `QueriesShareConnections`, `QueriesAreServed`, `OnlyEarlyDrainsMixAnswers` (`AnswersAreOwn`), `ReportedSuccessIsReal`; of values: `Int4Returns`, `SmallIntegersWrap`, `InstantsReturn` | at least two connections; the value of a free lock is not a caller; the bounds are numbers; `Card[k]` is even; microseconds and days are positive |
| `BrowserSessionProofs` | `NoticeIsShown`, `RequestsAreOwed`, `HashIsShown` | the bounds are numbers |
| `WebSocketProofs` | `FramesAreWhole`, `AnswersAreInOrder` | lengths are numbers, those of the server's frames below 2^31 - 1 |

Every invariant and every safety property of steps that a passing run checks is
among them; what is left to TLC is named at the end of this section.

Few of these are inductive as they stand. The arguments:

*Signal.* That a new message cannot end up before an old one in some listener's
history depends on who holds the mutex and how far its loop is, so the inductive
invariant says, besides the types: only the holder of the mutex is in the loop
(`HolderSends`); the index is within the slice or one past it (`LoopIndex`); exactly
the listeners before the index have heard the message under way (`Delivered`); what
was heard is being sent or was (`HeardIsSent`); the message under way is the last
thing its hearers have heard (`CurrentIsLast`). A send then appends a message nobody
behind the index has heard, to a listener whose every earlier message is finished,
which gives `SameOrder`; and when the index has passed the slice, `Delivered` is
`DispatchReachesAll`. The proof rests on two lemmas about the slice: appending a new
channel, and removing one with the swap, keep the slice injective and change its range
by that channel alone. `ClientConnProofs` has them too, for the slices of all signals.

*ClientConn.* `WalkFits` says how far a walk has come shows in each signal: in
`detach` and `leave` the connection is listed exactly on the signals from `at` on
where it has a channel, in `attach` exactly on those before `at`; outside it is
listed where its field is not nil, and the fields are nil together. `ListsFit` adds
that only channels of the fields are listed, each once. `ListensToAllOrNone` follows.
For `ToldOnce`, `LogsFit` says that a dispatch a connection has heard, on whichever of
its channels, is done or past one of its channels in the slice: the loop index would
have to meet the same channel again, which an injective slice excludes, and no slice
changes while a dispatch sends on it (`LocksFit`). `CirclesStay` is about steps: each
member of a circle waits for a lock that a dispatch holds, and that dispatch for a
member; no step of anything else touches either, which `AtRest` (who is not in a walk
waits at no signal) excludes for the remaining places.

`SignalsAreImplemented` maps a connection and a channel to the owner that `Signal`
knows: `OwnerIs` computes from the place, the station of the walk and the field what
the owner of the n-th channel does. A step of a connection then changes one owner of
one signal, the one its walk is at, or takes all its owners from `recv` to `busy` or
back; since at most one channel of a connection is current on a signal, that is one
step of `Signal` or none. `WalkFits` gives what is listed when `Add` and `Remove` are
called; `Begun` (the loop of a dispatch that has the lock has an index) is all that
must be added. With it the theorems of `SignalProofs` hold for each signal of
the running server.

*RequestPipe.* `InOrder` places every message: those that ran, the one that runs, the
one that is decoded and those on their way are the messages sent, in this order. For
a patient browser, at most one message is under way (`UnderWay`), and what was handed
over stays whole while it is handled (`HeldWhole`), because nothing else is there to
be decoded into it; an id in `pending` belongs to a message that is still owed its
answer (`PendingIsOwed`), so that the next may be sent only when nothing is. Without
patience, `Labelled` says what the shared number holds: outside the decoding it is the
id of the last request among the messages read (`CellIsLast`), and those are the ones
handled and at most one more. Hence `LabelIsNear`. The lemma `CountOfRequests` is why
ids tell requests apart: the number of requests before a message grows by one at each.

*ChatDelivery.* `NothingLost` speaks of the Chat that is shown, but whether something
is lost is decided earlier: when `get_init` reads the tables, and when a dispatch
fixes its receivers. `Complete` therefore says the same of an answer to `init_chat`
that is still on the web socket: what is stored is in it, or told behind it, or yet to
be dispatched to this connection. It holds when the answer is written, because the
snapshot has every stored row, and `SignalsFit` keeps it: a connection that can have
such an answer has added itself to all signals, so a dispatch that begins includes it.
A notification that `onMessagePosted` drops would break it; `Prepared` excludes that
for messages that are not early: their channel and their author are in the Chat, or
are told before them. It follows from `Complete` at the moment the message is sent,
when both of their dispatches have ended (`StoreFits`) and so nothing of them is yet
to come. `AskedOnce` says that a connection has one Chat: the answer to
`resume_session`, the request, its answer and the Chat follow one another. `Authored`
and `HoldsStored` carry the author along.

How often and in which order a page has a message is a second invariant, `Orderly`, on
top of that one. It speaks of all the *versions* of a page, the Chat that is shown and
the answers to `init_chat` that are on their way: none has a message that is not stored
(`Unheard`); a browser is told of a message once, and not while its dispatch has yet to
serve it (`ToldOnce`); so a version that will still be told of a message has it once at
most (`Counted`), and the one that is shown twice, which is `TwiceAtMost`. For the order,
`Before(m, n)` says that the dispatch of `m` had ended, in an earlier second, when the
statement of `n` began. A snapshot lists by seconds, so it has such a pair in order
whatever it does within a second; that some second is the latest of all (`TimeFits`)
lets a new message only be after the others. `Later` says that a
notification still on its way is not overtaken: no version before it, and no
notification before it, has a message that was posted after its dispatch had ended.
`Ordered` is then kept by appending, and gives `ShownInOrder`.

*Accounts.* `RowFits` says what a handler at each place knows: the digest it read
belonged to the user it names, the session it read is that user's, the token it made
goes to the address it was asked for. It stays true while other handlers run because
of `Grow`: rows are only added, their owners and addresses never change, and the
passwords a user has had stay known. Hence a password that was correct when it was
read justifies a session even if it has been reset meanwhile. For
`AskedIsMailed` it says that a handler about to send has a token of the only user with
that address, since `Taken` makes addresses unique, even up to case; and the answer to
a stranger is gone by the step in which somebody registers that address.

*ConnPool.* `PoolInv` adds to `PoolSound` that who waits is in the list once, and that
the room found by `Acquire` is there until the connection is made, since that happens
under the lock. `QueriesUseThePool` then shows that each step of `PgPool`, whatever is
read or breaks, is a step of the pool or leaves it alone, and the soundness of the
pool carries over. That no wake-up is lost is a matter of counting: `WakeInv` says that
while somebody waits, those who are woken or about to signal are at least as many as
the available connections, for each connection that comes back brings one signal with
it and each that is taken used one up. A waiter next to an available connection
therefore has somebody on the way to it.

*PgPool.* What a call returns depends on what lies on its connection, so `QueryInv`
follows the connections that are *tidy*: in the pool, alive, with no error kept by the
reader and not left early by a drain. On such a connection there is at most the answer
to one statement, of the caller that is reading it, and nothing at rest
(`AnswersAlone`, `OneAnswer`); so what is read is one's own (`GotFits`), and the drain
that ends at `ReadyForQuery` leaves nothing. `FailuresTold` says that while a call
on it has met no error, the server has carried out the statement or the answer
still says that it did not, by an error or by lacking its end; when the
answer is used up, only the first is left, which is `SuccessIsReal`. `GoodFor` states
this for one caller and its connection, and `Others` that a step leaves the rest alone.

*PgValues.* An integer taken modulo the number of words and read back as signed is
the same integer if it was in range, and another one if it was below it; the division
of an instant into microseconds is undone up to the remainder.

*BrowserSession.* `RequestInv` numbers the requests: ids in use are below the next one
(`Numbered`), so a new request is none of the old, and an answer takes exactly one out
of what is owed (`OwedOnce`). A socket that is not open owes nothing, and while it is
connecting whatever is pending is stuck (`ClosedFits`), which is what makes
`PendingIsOwed` true at the moment it opens. `PageInv` has the order of Chats and
routers: `resumed`, the Chat for which a router was last started, is never newer than
the newest Chat, and the Chats without a channel are the first `bare` of them. A
`start` whose home page throws leaves `#view` as it was; that is still right, because
the hash was then `#home` already, with a home page or a blank one, or has just changed
and its event is to come. Before the first router `#view` is blank.

*WebSocket.* Who is past the lock has it (`LockFits`), so of the two goroutines one at
most has begun a frame, and the buffer is what it has written of it (`BufferFits`):
nothing, the header, or both. A flush appends all of that to the stream, or, when the
connection breaks, a part; so the odd places of the stream have headers and the even
ones the payloads that belong to them (`Paired`). That a header says what the frame is
is the lemma `HeaderParses`: in each of the three forms, the bytes parsed give the
opcode and the length back. For the answers, `Fresh` says that a frame
that is about to be written is newer than those of its kind in the stream, and
`Answered` that each ping and each request has its reply in the stream, or is what one of the
goroutines is about; together the replies are those of the pings, and of the requests,
one by one and in order.

Only model-checked: all liveness (`DispatchEnds`, `ConnectionReturns`, `RequestsSettle`,
`MainEnds`, `AllAreTold`, `ConnectionEnds`), because fairness and `ENABLED` are out of
the prover's reach; and, since induction over data is too, what the definitions of
`PgValues` do to every value of every type, beyond the three theorems about integers
and instants, which the assumptions of `MCPgPool` compare on bounded inputs.

## 5. What is not modelled

* **Start-up, configuration, static files** (`main.go`): sequential set-up and I/O.
* **Views and dates**: rendering. What a view sends, throws or keeps subscribed is in
  `BrowserSession` and `ChatDelivery`.
* **Logging** (vendored `log15`): jchat writes lines with it and reads none of its
  state.
* **Renaming a channel** in `ChatDelivery`: the browser has no handler for
  `channel_renamed`. Its dispatch is in `ClientConn`.
* **A commit whose answer is lost** in `ChatDelivery`: `PostMessage` returns an error,
  the row is there, nothing is dispatched. `PgPool` has the driver's side of it,
  `Accounts` the same case for its tables.
* **`SetPassword` and `DeleteSession`**: no handler calls them.
* **The back-off of a reconnection**: only its delay depends on it.
* **The driver's** transactions, `LISTEN`, TLS, `Null` types, `Hstore`, the `stdlib`
  adapter and `Close` of the pool: jchat uses none of them.
* **The client side of the web socket package**, its `Codec.Message` and fragments
  beyond the fact that each is unmarshalled by itself, for the same reason.
* **A write that never ends**: a browser that stops reading blocks its goroutine, then
  the dispatches that send to it. It is excluded by the fairness of `ClientConn`; no
  deadline in the code would end it.

## 6. Further work

* A composition of `RequestPipe` and `BrowserSession`, in which an answer may carry
  the id of the next request while the page goes on.
