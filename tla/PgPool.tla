-------------------------------- MODULE PgPool --------------------------------
(***************************************************************************)
(* The pool together with what its connections carry: a caller acquires a  *)
(* connection, sends one prepared statement (Exec, QueryRow or Query of    *)
(* pgx), reads the messages of the answer up to ReadyForQuery and releases *)
(* the connection (conn_pool.go, conn.go, query.go, msg_reader.go).        *)
(*                                                                         *)
(* A message is its kind; whether it answers the statement that was sent   *)
(* last; and whether it is torn: its header came, its body did not.  Only  *)
(* a body that is read shows that: the error sticks to the reader of the   *)
(* connection, which is then "poisoned": each later rxMsg returns message  *)
(* type 0 and no error.                                                    *)
(***************************************************************************)
EXTENDS ConnPool

CONSTANTS MaxCalls, MaxFaults  \* bounds

ASSUME PgPoolAssumption == MaxCalls \in Nat /\ MaxFaults \in Nat

VARIABLES
  in,        \* in[x]: the messages of connection x that were not read yet
  cut,       \* cut[x]: nothing comes after them
  poisoned,  \* poisoned[x]: msgReader.err of x is set
  early,     \* early[x]: a drain of x ended before ReadyForQuery
  phase,     \* phase[k]: what caller k does with its connection
  op,        \* op[k]: its call: "exec", "row" or "rows"
  err,       \* err[k]: softErr or rows.err is set
  got,       \* got[k]: the tag or row it has: of its own statement or a stale one
  carried,   \* carried[k]: the server has carried out its statement
  calls, faults  \* counters, for the bounds

connVars == <<in, cut, poisoned, early>>
callVars == <<op, err, got, carried>>
vars == <<poolVars, connVars, phase, callVars, calls, faults>>

Ops == {"exec", "row", "rows"}
Kinds == {"row", "complete", "error", "fatal", "ready"}
Messages == [kind : Kinds, own : BOOLEAN, torn : BOOLEAN]

(* "read": Exec's loop or rows.Next; "drain": readUntilReadyForQuery;      *)
(* "rollback": Release, with a TxStatus that is not 'I'; "spin": a loop    *)
(* that does not end.                                                      *)
Phases == {"none", "send", "read", "drain", "rollback", "release", "spin"}

TypeOK ==
  /\ PoolTypeOK
  /\ in \in [Connection -> Seq(Messages)]
  /\ cut \in [Connection -> BOOLEAN]
  /\ poisoned \in [Connection -> BOOLEAN]
  /\ early \in [Connection -> BOOLEAN]
  /\ phase \in [Caller -> Phases]
  /\ op \in [Caller -> Ops]
  /\ err \in [Caller -> BOOLEAN]
  /\ got \in [Caller -> {"none", "own", "stale"}]
  /\ carried \in [Caller -> BOOLEAN]
  /\ calls \in 0..MaxCalls /\ faults \in 0..MaxFaults
  /\ \A k \in Caller : pc[k] = "hold" <=> phase[k] \in Phases \ {"none"} /\ lock # k

Init ==
  /\ PoolInit
  /\ in = [x \in Connection |-> <<>>]
  /\ cut = [x \in Connection |-> FALSE]
  /\ poisoned = [x \in Connection |-> FALSE]
  /\ early = [x \in Connection |-> FALSE]
  /\ phase = [k \in Caller |-> "none"]
  /\ op = [k \in Caller |-> "exec"]
  /\ err = [k \in Caller |-> FALSE]
  /\ got = [k \in Caller |-> "none"]
  /\ carried = [k \in Caller |-> FALSE]
  /\ calls = 0 /\ faults = 0

Enter(k, p) == phase' = [phase EXCEPT ![k] = p]

(* Having got hold of a connection, or not. *)
Arrive(k) == Enter(k, IF pc'[k] = "hold" THEN "send" ELSE "none")

Fault == faults < MaxFaults /\ faults' = faults + 1

-----------------------------------------------------------------------------
(* The pool. *)

Call(k, o) ==
  /\ calls < MaxCalls
  /\ calls' = calls + 1
  /\ Acquire(k)
  /\ Arrive(k)
  /\ op' = [op EXCEPT ![k] = o]
  /\ UNCHANGED <<connVars, err, got, carried, faults>>

(* Connect, and Prepare for each statement (afterConnect). *)
Connect(k) ==
  /\ phase[k] # "spin"
  /\ Created(k)
  /\ Arrive(k)
  /\ in' = [x \in Connection |-> IF x \in all THEN in[x] ELSE <<>>]
  /\ cut' = [x \in Connection |-> x \in all /\ cut[x]]
  /\ poisoned' = [x \in Connection |-> x \in all /\ poisoned[x]]
  /\ early' = [x \in Connection |-> x \in all /\ early[x]]
  /\ UNCHANGED <<callVars, calls, faults>>

(* Prepare reads a torn message: it goes round for ever, under the lock. *)
ConnectSpins(k) ==
  /\ pc[k] = "create" /\ phase[k] = "none"
  /\ Fault
  /\ Enter(k, "spin")
  /\ UNCHANGED <<poolVars, connVars, callVars, calls>>

WakeUp(k) == Wake(k) /\ Arrive(k) /\ UNCHANGED <<connVars, callVars, calls, faults>>

GiveBack(k) ==
  /\ phase[k] = "release"
  /\ Release(k)
  /\ Enter(k, "none")
  /\ err' = [err EXCEPT ![k] = FALSE]
  /\ got' = [got EXCEPT ![k] = "none"]
  /\ carried' = [carried EXCEPT ![k] = FALSE]
  /\ op' = [op EXCEPT ![k] = "exec"]
  /\ UNCHANGED <<connVars, calls, faults>>

Notify(k) == Signal(k) /\ UNCHANGED <<connVars, phase, callVars, calls, faults>>

-----------------------------------------------------------------------------
(* The server and the network. *)

Message(kind) == [kind |-> kind, own |-> TRUE, torn |-> FALSE]

(* What the server sends for a statement that returns a row, that returns  *)
(* none, and that is refused.                                              *)
Answers == {<<"row", "complete", "ready">>, <<"complete", "ready">>, <<"error", "ready">>}

(* A statement that is cancelled after its first row, or fails to commit;  *)
(* a server that shuts down.                                               *)
LateAnswers == {<<"row", "error", "ready">>, <<"row", "complete", "error", "ready">>,
                <<"fatal">>, <<"row", "fatal">>}

Stale(s) == [i \in DOMAIN s |-> [s[i] EXCEPT !.own = FALSE]]

Serve(k, answer) ==
  /\ in' = [in EXCEPT ![conn[k]] =
              Stale(@) \o [i \in DOMAIN answer |-> Message(answer[i])]]
  /\ cut' = [cut EXCEPT ![conn[k]] = "fatal" \in Range(answer)]
  /\ carried' = [carried EXCEPT ![k] = Range(answer) \cap {"error", "fatal"} = {}]

(* sendPreparedQuery.  A write to a connection that is cut may fail.       *)
Send(k) ==
  /\ phase[k] = "send"
  /\ \/ /\ ~ cut[conn[k]]
        /\ \/ \E answer \in Answers : Serve(k, answer) /\ UNCHANGED faults
           \/ Fault /\ \E answer \in LateAnswers : Serve(k, answer)
        /\ Enter(k, "read")
        /\ UNCHANGED <<poolVars, err>>
     \/ /\ cut[conn[k]]
        /\ \/ Enter(k, "read") /\ UNCHANGED <<poolVars, err>>
           \/ Die(k) /\ Enter(k, "release") /\ err' = [err EXCEPT ![k] = TRUE]
        /\ UNCHANGED <<in, cut, carried, faults>>
  /\ UNCHANGED <<poisoned, early, op, got, calls>>

Torn(s) == [s EXCEPT ![Len(s)].torn = TRUE]

(* The transaction ends just before the server is ready again. *)
Unanswered(x, n) == \E i \in (n + 1)..Len(in[x]) : in[x][i].kind = "ready" /\ in[x][i].own

(* The connection is lost, with all but a prefix of what was on its way;   *)
(* a server that crashes has perhaps not carried out what it answers.      *)
Break(x) ==
  /\ x \in all /\ ~ cut[x]
  /\ Fault
  /\ cut' = [cut EXCEPT ![x] = TRUE]
  /\ \E n \in 0..Len(in[x]) :
       LET rest == SubSeq(in[x], 1, n) IN
         /\ in' = [in EXCEPT ![x] = rest] \/ (n > 0 /\ in' = [in EXCEPT ![x] = Torn(rest)])
         /\ carried' \in {carried, [k \in Caller |-> carried[k] /\ ~ (conn[k] = x /\ Unanswered(x, n))]}
  /\ UNCHANGED <<poolVars, poisoned, early, phase, op, err, got, calls>>

-----------------------------------------------------------------------------
(* The loops that read. *)

(* rxMsg returns an error: the connection is dead, or dies of it. *)
Fails(x) == ~ alive[x] \/ (~ poisoned[x] /\ in[x] = <<>> /\ cut[x])

(* The kinds of messages whose bodies a loop reads. *)
BodiesRead(k) ==
  {"error", "fatal", "ready"} \cup
    (CASE phase[k] = "drain" -> {} [] op[k] = "exec" -> {"complete"} [] OTHER -> {"row"})

(* The read of such a body fails, and so do all later reads.               *)
Poisons(k, m) == m.torn /\ m.kind \in BodiesRead(k)

Rx(k, m) ==
  /\ in[conn[k]] # <<>> /\ alive[conn[k]] /\ ~ poisoned[conn[k]]
  /\ m = Head(in[conn[k]])
  /\ in' = [in EXCEPT ![conn[k]] = Tail(@)]
  /\ poisoned' = [poisoned EXCEPT ![conn[k]] = Poisons(k, m)]

Fresh(m) == IF m.own THEN "own" ELSE "stale"

(* Mutant: errors are dropped. *)
SetErrNever(k, b) == UNCHANGED err

SetErr(k, b) == err' = [err EXCEPT ![k] = b]

(* A FATAL error. *)
DieOf(k, m) == IF m.kind = "fatal" THEN Die(k) ELSE UNCHANGED poolVars

(* ReadyForQuery; without its body TxStatus is 0. *)
Ready(k, m) == Enter(k, IF m.torn THEN "rollback" ELSE "release")

Exec(k) ==
  /\ phase[k] = "read" /\ op[k] = "exec"
  /\ \E m \in Messages :
       /\ Rx(k, m)
       /\ DieOf(k, m)
       /\ SetErr(k, err[k] \/ m.kind \in {"error", "fatal"})
       /\ got' = IF m.kind = "complete" /\ ~ m.torn THEN [got EXCEPT ![k] = Fresh(m)] ELSE got
       /\ IF m.kind = "ready" THEN Ready(k, m) ELSE UNCHANGED phase
  /\ UNCHANGED <<cut, early, op, carried, calls, faults>>

(* rows.Next and, when there is a row, Scan; a Row is closed after its     *)
(* first row.  A row of another statement, or a torn one, may be refused,  *)
(* or be taken for a row of zeros.                                         *)
NextRow(k) ==
  /\ phase[k] = "read" /\ op[k] # "exec"
  /\ \E m \in Messages :
       /\ Rx(k, m)
       /\ DieOf(k, m)
       /\ \/ m.kind = "ready" /\ Ready(k, m) /\ UNCHANGED <<err, got>>
          \/ m.kind = "complete" /\ UNCHANGED <<phase, err, got>>
          \/ m.kind \in {"error", "fatal"} /\ SetErr(k, TRUE) /\ Enter(k, "drain") /\ UNCHANGED got
          \/ /\ m.kind = "row"
             /\ got' = [got EXCEPT ![k] = Fresh(m)]
             /\ Enter(k, IF op[k] = "row" THEN "drain" ELSE "read")
             /\ UNCHANGED err
          \/ /\ m.kind = "row" /\ (m.torn \/ ~ m.own)
             /\ SetErr(k, TRUE) /\ Enter(k, "drain") /\ UNCHANGED got
  /\ UNCHANGED <<cut, early, op, carried, calls, faults>>

(* Mutant: as if everything had been read after the first message. *)
EndsDrainAtOnce(m) == TRUE

EndsDrain(m) == m.kind \in {"ready", "error", "fatal"}

(* readUntilReadyForQuery: it ends at an error as well, and says nothing   *)
(* of it.                                                                  *)
Drain(k) ==
  /\ phase[k] = "drain"
  /\ \E m \in Messages :
       /\ Rx(k, m)
       /\ DieOf(k, m)
       /\ early' = [early EXCEPT ![conn[k]] = @ \/ m.kind = "error"]
       /\ IF EndsDrain(m) THEN Ready(k, [m EXCEPT !.torn = @ /\ m.kind = "ready"]) ELSE UNCHANGED phase
  /\ UNCHANGED <<cut, op, err, got, carried, calls, faults>>

(* Nothing more can be read: every loop ends. *)
ReadFails(k) ==
  /\ phase[k] \in {"read", "drain"}
  /\ Fails(conn[k])
  /\ Die(k)
  /\ SetErr(k, err[k] \/ phase[k] = "read")
  /\ Enter(k, "release")
  /\ UNCHANGED <<connVars, op, got, carried, calls, faults>>

(* The message of type 0 of a poisoned reader: Exec notes an error and     *)
(* reads on; Next fails; the drain ends.                                   *)
ReadNothing(k) ==
  /\ phase[k] \in {"read", "drain"}
  /\ alive[conn[k]] /\ poisoned[conn[k]]
  /\ \/ phase[k] = "read" /\ op[k] = "exec" /\ Enter(k, "spin") /\ UNCHANGED err
     \/ phase[k] = "read" /\ op[k] # "exec" /\ Enter(k, "drain") /\ SetErr(k, TRUE)
     \/ phase[k] = "drain" /\ Enter(k, "release") /\ UNCHANGED err
  /\ UNCHANGED <<poolVars, connVars, op, got, carried, calls, faults>>

(* conn.Exec("rollback") of Release, on a connection that is cut and       *)
(* poisoned, if it is alive: the write fails, or the loop does not end.    *)
Rollback(k) ==
  /\ phase[k] = "rollback"
  /\ \/ Die(k) /\ Enter(k, "release")
     \/ Enter(k, "spin") /\ UNCHANGED poolVars
  /\ UNCHANGED <<connVars, callVars, calls, faults>>

-----------------------------------------------------------------------------
Pool(k) ==
  (\E o \in Ops : Call(k, o)) \/ Connect(k) \/ WakeUp(k) \/ GiveBack(k) \/ Notify(k)

Use(k) ==
  Send(k) \/ Exec(k) \/ NextRow(k) \/ Drain(k) \/ ReadFails(k) \/ ReadNothing(k) \/ Rollback(k)

Next ==
  \/ \E k \in Caller : Pool(k) \/ Use(k) \/ ConnectSpins(k)
  \/ \E x \in Connection : Break(x)

Spec == Init /\ [][Next]_vars

-----------------------------------------------------------------------------
(* Properties. *)

Returning == {k \in Caller : phase[k] = "release"}

(* A tag or a row that a call returns belongs to the statement of that     *)
(* call, unless a drain of the connection has ended early.                 *)
AnswersAreOwn == \A k \in Returning : got[k] = "stale" => early[conn[k]]

Succeeded(k) == ~ err[k] /\ (op[k] = "row" => got[k] # "none")

(* What a call reports as done has been done, if the connection is in good *)
(* order afterwards: alive, not poisoned, and never drained too early.     *)
SuccessIsReal ==
  \A k \in Returning : Succeeded(k) =>
    carried[k] \/ ~ alive[conn[k]] \/ poisoned[conn[k]] \/ early[conn[k]]

=============================================================================
