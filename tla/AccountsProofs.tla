----------------------------- MODULE AccountsProofs -----------------------------
(***************************************************************************)
(* The invariants of Accounts, for any numbers of connections, users,      *)
(* sessions and tokens.  What a handler has read stays true of the tables  *)
(* until its next statement, because rows are only added, and their owners *)
(* and addresses never change: that is Grow.                               *)
(***************************************************************************)
EXTENDS Accounts, SequenceTheorems, TLAPS

TablesTyped ==
  /\ users \in Seq(Users) /\ Len(users) <= MaxUsers
  /\ sessions \in Seq(Sessions) /\ Len(sessions) <= MaxSessions
  /\ resets \in Seq(Resets) /\ Len(resets) <= MaxResets
  /\ mails \subseteq [to : Email, token : 1..MaxResets]
  /\ had \in [DOMAIN users -> SUBSET Password]

HandlersTyped ==
  /\ pc \in [Conn -> {"idle", "match", "session", "user", "token", "mail"}]
  /\ user \in [Conn -> 0..Len(users)]
  /\ row \in [Conn -> Rows]
  /\ answer \in Answers

(* The rows refer to users that exist, and an address has one of them.    *)
TablesFit ==
  /\ \A u \in DOMAIN users : users[u].password \in had[u]
  /\ \A u, v \in DOMAIN users : users[u].email = users[v].email => u = v
  /\ SessionsJustified
  /\ \A t \in DOMAIN resets : resets[t].user \in DOMAIN users
  /\ MailsReachOwner

(* What a handler at a place has in r and in conn.user fits the tables. *)
RowFits(place, r, u) ==
  /\ place = "match" => r.user \in DOMAIN users /\ r.digest \in had[r.user]
  /\ place = "session" => u \in DOMAIN users /\ r.given \in had[u]
  /\ place = "user" => r.token \in DOMAIN sessions /\ sessions[r.token].user = r.user
  /\ place = "token" => r.user \in DOMAIN users /\ users[r.user].email = r.email
  /\ place = "mail" => r.token \in DOMAIN resets /\ users[resets[r.token].user].email = r.email

RowsFit == \A c \in Conn : RowFits(pc[c], row[c], user[c])

(* What was answered last is true of the tables. *)
AnswerFits == AnswerNamesUser /\ AskedIsMailed

IInv == TablesTyped /\ HandlersTyped /\ TablesFit /\ RowsFit /\ AnswerFits

(* A step of the tables that takes nothing back. *)
Grow ==
  /\ Len(users) <= Len(users')
  /\ \A u \in DOMAIN users :
       u \in DOMAIN users' /\ users'[u].email = users[u].email /\ had[u] \subseteq had'[u]
  /\ \A s \in DOMAIN sessions :
       s \in DOMAIN sessions' /\ sessions'[s].user = sessions[s].user
  /\ \A t \in DOMAIN resets :
       t \in DOMAIN resets' /\ resets'[t].user = resets[t].user

TablesKept == TablesTyped' /\ TablesFit' /\ Grow

-----------------------------------------------------------------------------
(* The statements. *)

LEMMA TypeOKSplit == TypeOK <=> TablesTyped /\ HandlersTyped
BY DEF TypeOK, TablesTyped, HandlersTyped

LEMMA Bounds == MaxUsers \in Nat /\ MaxSessions \in Nat /\ MaxResets \in Nat
BY AccountsAssumption

LEMMA DomainOfSeq ==
  ASSUME NEW S, NEW s \in Seq(S)
  PROVE  DOMAIN s = 1..Len(s) /\ Len(s) \in Nat /\ \A i \in DOMAIN s : s[i] \in S
OBVIOUS

LEMMA SeqOfFunction ==
  ASSUME NEW S, NEW n \in Nat, NEW f \in [1..n -> S]
  PROVE  f \in Seq(S) /\ Len(f) = n
OBVIOUS

LEMMA DomainOfAppend ==
  ASSUME NEW S, NEW s \in Seq(S), NEW e \in S
  PROVE  /\ Append(s, e) \in Seq(S)
         /\ Len(Append(s, e)) = Len(s) + 1
         /\ DOMAIN Append(s, e) = DOMAIN s \cup {Len(s) + 1}
         /\ \A i \in DOMAIN s : Append(s, e)[i] = s[i] /\ i # Len(s) + 1
         /\ Append(s, e)[Len(s) + 1] = e
<1>1. /\ Append(s, e) \in Seq(S) /\ Len(Append(s, e)) = Len(s) + 1
      /\ \A i \in 1..Len(s) : Append(s, e)[i] = s[i]
      /\ Append(s, e)[Len(s) + 1] = e
  BY AppendProperties
<1>2. DOMAIN s = 1..Len(s) /\ Len(s) \in Nat
  OBVIOUS
<1>3. DOMAIN Append(s, e) = 1..(Len(s) + 1)
  BY <1>1
<1> QED
  BY <1>1, <1>2, <1>3

LEMMA NothingStored ==
  ASSUME TablesTyped, TablesFit, UNCHANGED tables
  PROVE  TablesKept
<1>1. Len(users) \in Nat
  BY DEF TablesTyped
<1> QED
  BY <1>1 DEF TablesTyped, TablesFit, SessionsJustified, MailsReachOwner, Grow, TablesKept, tables

(* create_user. *)
LEMMA UserInserted ==
  ASSUME TablesTyped, TablesFit, NEW e \in Email, NEW p \in Password, InsertUser(e, p)
  PROVE  TablesKept /\ Len(users) + 1 \in DOMAIN users' /\ p \in had'[Len(users) + 1]
<1> DEFINE n == Len(users) + 1
           r == [email |-> e, password |-> p]
<1>1. r \in Users
  BY DEF Users
<1>2. /\ users' \in Seq(Users) /\ Len(users') = n /\ DOMAIN users' = DOMAIN users \cup {n}
      /\ \A u \in DOMAIN users : users'[u] = users[u] /\ u # n
      /\ users'[n] = r
  BY <1>1, DomainOfAppend DEF InsertUser, TablesTyped
<1>3. Len(users) \in Nat /\ n <= MaxUsers
  BY Bounds DEF InsertUser, TablesTyped
<1>4. had \in Seq(SUBSET Password) /\ Len(had) = Len(users)
  <2>1. DOMAIN users = 1..Len(users)
    BY DEF TablesTyped
  <2> QED
    BY <1>3, <2>1 DEF TablesTyped
<1>5. /\ had' \in Seq(SUBSET Password) /\ Len(had') = n
      /\ \A u \in DOMAIN users : had'[u] = had[u]
      /\ had'[n] = {p}
  <2>1. {p} \in SUBSET Password /\ DOMAIN had = DOMAIN users
    BY DEF TablesTyped
  <2> QED
    BY <1>4, <2>1, DomainOfAppend DEF InsertUser
<1>6. DOMAIN users' = 1..n
  BY <1>2
<1>7. had' \in [DOMAIN users' -> SUBSET Password]
  BY <1>5, <1>6
<1>8. TablesTyped'
  BY <1>2, <1>3, <1>7 DEF TablesTyped, InsertUser
<1>9. Grow
  BY <1>2, <1>3, <1>5 DEF Grow, InsertUser
<1>10. /\ \A u \in DOMAIN users' : users'[u].password \in had'[u]
       /\ \A u, v \in DOMAIN users' : users'[u].email = users'[v].email => u = v
  <2>1. \A u \in DOMAIN users : users[u].email # e
    BY DEF InsertUser, Taken
  <2> QED
    BY <1>2, <1>5, <2>1 DEF TablesFit
<1>11. SessionsJustified'
  BY <1>2, <1>5 DEF TablesFit, SessionsJustified, InsertUser
<1>12. \A t \in DOMAIN resets' : resets'[t].user \in DOMAIN users'
  BY <1>2 DEF TablesFit, InsertUser
<1>13. MailsReachOwner'
  BY <1>2 DEF TablesFit, MailsReachOwner, InsertUser
<1> QED
  BY <1>2, <1>5, <1>8, <1>9, <1>10, <1>11, <1>12, <1>13 DEF TablesKept, TablesFit

(* create_session. *)
LEMMA SessionInserted ==
  ASSUME TablesTyped, TablesFit, NEW u \in DOMAIN users, NEW p \in had[u], InsertSession(u, p)
  PROVE  /\ TablesKept
         /\ Len(sessions) + 1 \in DOMAIN sessions' /\ Len(sessions) + 1 \in 0..MaxSessions
         /\ sessions'[Len(sessions) + 1].user = u
<1> DEFINE n == Len(sessions) + 1
           r == [user |-> u, password |-> p, live |-> TRUE]
<1>1. r \in Sessions
  <2>1. u \in UserIDs
    BY Bounds DEF TablesTyped, UserIDs
  <2>2. p \in Password
    BY DEF TablesTyped
  <2> QED
    BY <2>1, <2>2 DEF Sessions
<1>2. /\ sessions' \in Seq(Sessions) /\ Len(sessions') = n
      /\ DOMAIN sessions' = DOMAIN sessions \cup {n}
      /\ \A s \in DOMAIN sessions : sessions'[s] = sessions[s] /\ s # n
      /\ sessions'[n] = r
  BY <1>1, DomainOfAppend DEF InsertSession, TablesTyped
<1>3. n \in 0..MaxSessions /\ Len(users) \in Nat
  BY Bounds DEF InsertSession, TablesTyped
<1>4. TablesTyped'
  BY <1>2, <1>3 DEF TablesTyped, InsertSession
<1>5. Grow
  BY <1>2, <1>3 DEF Grow, InsertSession
<1>6. SessionsJustified'
  BY <1>2 DEF TablesFit, SessionsJustified, InsertSession
<1>7. TablesFit'
  BY <1>6 DEF TablesFit, MailsReachOwner, InsertSession
<1> QED
  BY <1>2, <1>3, <1>4, <1>5, <1>7 DEF TablesKept

(* create_password_reset. *)
LEMMA ResetInserted ==
  ASSUME TablesTyped, TablesFit, NEW u \in DOMAIN users,
         Len(resets) < MaxResets,
         resets' = Append(resets, [user |-> u, done |-> FALSE]),
         UNCHANGED <<users, sessions, mails, had>>
  PROVE  /\ TablesKept
         /\ Len(resets) + 1 \in DOMAIN resets' /\ Len(resets) + 1 \in 0..MaxResets
         /\ resets'[Len(resets) + 1].user = u
<1> DEFINE n == Len(resets) + 1
           r == [user |-> u, done |-> FALSE]
<1>1. r \in Resets
  <2>1. u \in UserIDs
    BY Bounds DEF TablesTyped, UserIDs
  <2> QED
    BY <2>1 DEF Resets
<1>2. /\ resets' \in Seq(Resets) /\ Len(resets') = n
      /\ DOMAIN resets' = DOMAIN resets \cup {n}
      /\ \A t \in DOMAIN resets : resets'[t] = resets[t] /\ t # n
      /\ resets'[n] = r
  BY <1>1, DomainOfAppend DEF TablesTyped
<1>3. n \in 0..MaxResets /\ Len(users) \in Nat
  BY Bounds DEF TablesTyped
<1>4. TablesTyped'
  BY <1>2, <1>3 DEF TablesTyped
<1>5. Grow
  BY <1>2, <1>3 DEF Grow
<1>6. \A t \in DOMAIN resets' : resets'[t].user \in DOMAIN users'
  BY <1>2 DEF TablesFit
<1>7. MailsReachOwner'
  BY <1>2 DEF TablesFit, MailsReachOwner
<1>8. TablesFit'
  BY <1>6, <1>7 DEF TablesFit, SessionsJustified
<1> QED
  BY <1>2, <1>3, <1>4, <1>5, <1>8 DEF TablesKept

(* set_password_from_password_reset. *)
LEMMA PasswordSet ==
  ASSUME TablesTyped, TablesFit, NEW t \in DOMAIN resets, NEW p \in Password,
         SetPasswordByToken(t, p)
  PROVE  TablesKept
<1> DEFINE o == resets[t].user
<1>1. o \in DOMAIN users
  BY DEF TablesFit
<1>2. /\ users \in [1..Len(users) -> Users] /\ Len(users) \in Nat
      /\ resets \in [1..Len(resets) -> Resets] /\ Len(resets) \in Nat
  BY DEF TablesTyped
<1>3. resets' = [resets EXCEPT ![t] = [@ EXCEPT !.done = TRUE]]
  BY DEF SetPasswordByToken
<1>4. users' = [users EXCEPT ![o] = [@ EXCEPT !.password = p]]
  BY DEF SetPasswordByToken
<1>5. had' = [had EXCEPT ![o] = @ \cup {p}]
  BY DEF SetPasswordByToken
<1> HIDE DEF o
<1>6. /\ DOMAIN resets' = DOMAIN resets /\ resets' \in [1..Len(resets) -> Resets]
      /\ \A x \in DOMAIN resets : resets'[x].user = resets[x].user
  BY <1>2, <1>3 DEF Resets
<1>7. /\ DOMAIN users' = DOMAIN users /\ users' \in [1..Len(users) -> Users]
      /\ \A u \in DOMAIN users : users'[u].email = users[u].email
      /\ \A u \in DOMAIN users : u # o => users'[u] = users[u]
      /\ users'[o].password = p
  BY <1>1, <1>2, <1>4 DEF Users
<1>8. /\ had' \in [DOMAIN users' -> SUBSET Password]
      /\ \A u \in DOMAIN users : had[u] \subseteq had'[u]
      /\ p \in had'[o]
  BY <1>1, <1>5, <1>7 DEF TablesTyped
<1>9. /\ users' \in Seq(Users) /\ Len(users') = Len(users)
      /\ resets' \in Seq(Resets) /\ Len(resets') = Len(resets)
  BY <1>2, <1>6, <1>7, SeqOfFunction
<1>10. TablesTyped'
  BY <1>8, <1>9 DEF TablesTyped, SetPasswordByToken
<1>11. Grow
  BY <1>2, <1>6, <1>7, <1>8, <1>9 DEF Grow, SetPasswordByToken
<1>12. /\ \A u \in DOMAIN users' : users'[u].password \in had'[u]
       /\ \A u, v \in DOMAIN users' : users'[u].email = users'[v].email => u = v
  BY <1>7, <1>8 DEF TablesFit
<1>13. SessionsJustified'
  BY <1>7, <1>8 DEF TablesFit, SessionsJustified, SetPasswordByToken
<1>14. \A x \in DOMAIN resets' : resets'[x].user \in DOMAIN users'
  BY <1>6, <1>7 DEF TablesFit
<1>15. MailsReachOwner'
  BY <1>6, <1>7 DEF TablesFit, MailsReachOwner, SetPasswordByToken
<1> QED
  BY <1>10, <1>11, <1>12, <1>13, <1>14, <1>15 DEF TablesKept, TablesFit

(* The mail to the address that the token was asked for. *)
LEMMA MailSent ==
  ASSUME TablesTyped, TablesFit, NEW a \in Email, NEW t \in DOMAIN resets,
         users[resets[t].user].email = a,
         mails' = mails \cup {[to |-> a, token |-> t]},
         UNCHANGED <<users, sessions, resets, had>>
  PROVE  TablesKept
<1>1. t \in 1..MaxResets /\ Len(users) \in Nat
  BY Bounds DEF TablesTyped
<1>2. TablesTyped'
  BY <1>1 DEF TablesTyped
<1>3. TablesFit'
  BY DEF TablesFit, SessionsJustified, MailsReachOwner
<1>4. Grow
  BY <1>1 DEF Grow
<1> QED
  BY <1>2, <1>3, <1>4 DEF TablesKept

(* The unlogged table after a crash. *)
LEMMA SessionsLost ==
  ASSUME TablesTyped, TablesFit, CrashDatabase
  PROVE  TablesKept
<1>1. sessions \in [1..Len(sessions) -> Sessions] /\ Len(sessions) \in Nat /\ Len(users) \in Nat
  BY DEF TablesTyped
<1>2. /\ DOMAIN sessions' = DOMAIN sessions /\ sessions' \in [1..Len(sessions) -> Sessions]
      /\ \A s \in DOMAIN sessions : /\ sessions'[s].user = sessions[s].user
                                    /\ sessions'[s].password = sessions[s].password
  BY <1>1 DEF CrashDatabase, Sessions
<1>3. sessions' \in Seq(Sessions) /\ Len(sessions') = Len(sessions)
  BY <1>1, <1>2
<1>4. TablesTyped'
  BY <1>3 DEF TablesTyped, CrashDatabase
<1>5. SessionsJustified'
  BY <1>2 DEF TablesFit, SessionsJustified, CrashDatabase
<1>6. TablesFit'
  BY <1>5 DEF TablesFit, MailsReachOwner, CrashDatabase
<1>7. Grow
  BY <1>1, <1>2 DEF Grow, CrashDatabase
<1> QED
  BY <1>4, <1>6, <1>7 DEF TablesKept

-----------------------------------------------------------------------------
(* The handlers. *)

(* What a handler has found stays true. *)
LEMMA FitsStill ==
  ASSUME TablesTyped, TablesFit, TablesKept, NEW place, NEW r, NEW u, RowFits(place, r, u)
  PROVE  RowFits(place, r, u)'
BY DEF RowFits, TablesKept, Grow, TablesFit

LEMMA BlankFits ==
  ASSUME NEW u
  PROVE  Blank \in Rows /\ RowFits("idle", Blank, u)'
<1>1. Blank \in Rows
  BY AccountsAssumption, Bounds DEF Blank, Rows, UserIDs, None
<1> QED
  BY <1>1 DEF RowFits

(* A step of the handler of c, and of no other one. *)
LEMMA HandlerStep ==
  ASSUME IInv, TablesKept, NEW c \in Conn,
         NEW place \in {"idle", "match", "session", "user", "token", "mail"},
         NEW r \in Rows, NEW u \in 0..Len(users'), NEW a \in Answers,
         pc' = [pc EXCEPT ![c] = place],
         row' = [row EXCEPT ![c] = r],
         user' = [user EXCEPT ![c] = u],
         answer' = a,
         RowFits(place, r, u)',
         AnswerFits'
  PROVE  IInv'
<1>1. Len(users) \in Nat /\ Len(users') \in Nat /\ Len(users) <= Len(users')
  BY DEF IInv, TablesTyped, TablesKept, Grow
<1>2. user' \in [Conn -> 0..Len(users')]
  BY <1>1 DEF IInv, HandlersTyped
<1>3. HandlersTyped'
  BY <1>2 DEF IInv, HandlersTyped
<1>4. ASSUME NEW d \in Conn PROVE RowFits(pc[d], row[d], user[d])'
  <2>1. CASE d = c
    <3>1. pc'[d] = place /\ row'[d] = r /\ user'[d] = u
      BY <2>1 DEF IInv, HandlersTyped
    <3> QED
      BY <3>1 DEF RowFits
  <2>2. CASE d # c
    <3>1. pc'[d] = pc[d] /\ row'[d] = row[d] /\ user'[d] = user[d]
      BY <2>2 DEF IInv, HandlersTyped
    <3>2. RowFits(pc[d], row[d], user[d])
      BY DEF IInv, RowsFit
    <3> QED
      BY <3>1, <3>2 DEF RowFits, TablesKept, Grow, TablesFit, IInv
  <2> QED
    BY <2>1, <2>2
<1> QED
  BY <1>3, <1>4 DEF IInv, TablesKept, RowsFit

LEMMA NoAnswerNames ==
  /\ NoAnswer \in Answers /\ NoAnswer.method = "none" /\ NoAnswer.ok = FALSE
  /\ {"login", "resume", "forgot", "reset"} \subseteq Methods
  /\ None \in UserIDs /\ 0 \in 0..MaxSessions
BY Bounds, AccountsAssumption DEF NoAnswer, Answers, None, Methods, UserIDs, Blank

(* A handler goes on to its next statement. *)
LEMMA Went ==
  ASSUME IInv, TablesKept, NEW c \in Conn,
         NEW place \in {"match", "session", "user", "token", "mail"},
         NEW r \in Rows, NEW u \in 0..Len(users'),
         Goto(c, place, r), user' = [user EXCEPT ![c] = u], RowFits(place, r, u)'
  PROVE  IInv'
<1>1. answer' = NoAnswer /\ AnswerFits'
  BY NoAnswerNames DEF Goto, AnswerFits, AnswerNamesUser, AskedIsMailed
<1>2. place \in {"idle", "match", "session", "user", "token", "mail"}
  OBVIOUS
<1>3. /\ pc' = [pc EXCEPT ![c] = place]
      /\ row' = [row EXCEPT ![c] = r]
  BY DEF Goto
<1>4. NoAnswer \in Answers
  BY NoAnswerNames
<1> QED
  BY <1>1, <1>2, <1>3, <1>4, HandlerStep

(* A handler answers. *)
LEMMA Replied ==
  ASSUME IInv, TablesKept, NEW c \in Conn, NEW a \in Answers, NEW u \in 0..Len(users'),
         Reply(c, a), user' = [user EXCEPT ![c] = u], (answer' = a => AnswerFits')
  PROVE  IInv'
<1>1. answer' = a /\ AnswerFits'
  BY DEF Reply
<1>2. Blank \in Rows /\ RowFits("idle", Blank, u)'
  BY BlankFits
<1> QED
  BY <1>1, <1>2, HandlerStep DEF Reply

LEMMA Refused ==
  ASSUME IInv, TablesKept, NEW c \in Conn, NEW method \in Methods,
         NEW u \in 0..Len(users'), Refuse(c, method), user' = [user EXCEPT ![c] = u]
  PROVE  IInv'
<1>0. PICK a : a = [NoAnswer EXCEPT !.conn = c, !.method = method]
  OBVIOUS
<1>1. a \in Answers /\ a.ok = FALSE
  BY <1>0, NoAnswerNames DEF Answers
<1>2. Reply(c, a)
  BY <1>0 DEF Refuse
<1>3. answer' = a => AnswerFits'
  BY <1>1 DEF AnswerFits, AnswerNamesUser, AskedIsMailed
<1> QED
  BY <1>1, <1>2, <1>3, Replied

(* A session that is there, of the user that conn.user becomes, or after a *)
(* resumption of nobody.                                                   *)
LEMMA SessionReplied ==
  ASSUME IInv, TablesKept, NEW c \in Conn, NEW method \in {"login", "resume"},
         NEW v \in UserIDs, NEW s \in 0..MaxSessions, v \in 0..Len(users'),
         ReplySession(c, method, v, s), user' = [user EXCEPT ![c] = v],
         s \in DOMAIN sessions',
         v = sessions'[s].user \/ (method = "resume" /\ v = None)
  PROVE  IInv'
<1>0. PICK a : a = [NoAnswer EXCEPT !.conn = c, !.method = method, !.ok = TRUE,
                                     !.user = v, !.session = s]
  OBVIOUS
<1>1. a \in Answers /\ a.conn = c /\ a.method = method /\ a.user = v /\ a.session = s
  BY <1>0, NoAnswerNames DEF Answers
<1>2. Reply(c, a)
  BY <1>0 DEF ReplySession
<1>3. user'[c] = v
  BY DEF IInv, HandlersTyped
<1>4. answer' = a => AnswerFits'
  BY <1>1, <1>3 DEF AnswerFits, AnswerNamesUser, AskedIsMailed
<1> QED
  BY <1>1, <1>2, <1>4, Replied

(* An address that nobody has, or whose owner was sent a mail. *)
LEMMA AskedReplied ==
  ASSUME IInv, TablesKept, NEW c \in Conn, NEW e \in Email, NEW u \in 0..Len(users'),
         ReplyAsked(c, e), user' = [user EXCEPT ![c] = u],
         \A v \in DOMAIN users' : users'[v].email = e =>
           \E m \in mails' : m.to = e /\ resets'[m.token].user = v
  PROVE  IInv'
<1>0. PICK a : a = [NoAnswer EXCEPT !.conn = c, !.method = "forgot", !.ok = TRUE, !.email = e]
  OBVIOUS
<1>1. a \in Answers /\ a.method = "forgot" /\ a.email = e
  BY <1>0, NoAnswerNames DEF Answers
<1>2. Reply(c, a)
  BY <1>0 DEF ReplyAsked
<1>3. answer' = a => AnswerFits'
  BY <1>1 DEF AnswerFits, AnswerNamesUser, AskedIsMailed
<1> QED
  BY <1>1, <1>2, <1>3, Replied

(* conn.user is what it was. *)
LEMMA UserKept ==
  ASSUME IInv, TablesKept, NEW c \in Conn, UNCHANGED user
  PROVE  user' = [user EXCEPT ![c] = user[c]] /\ user[c] \in 0..Len(users')
<1>1. Len(users) \in Nat /\ Len(users') \in Nat /\ Len(users) <= Len(users')
  BY DEF IInv, TablesTyped, TablesKept, Grow
<1> QED
  BY <1>1 DEF IInv, HandlersTyped

LEMMA NobodyIsUser ==
  ASSUME TablesKept
  PROVE  None \in 0..Len(users')
BY DEF None, TablesKept, TablesTyped

LEMMA MethodNames == {"login", "resume", "forgot", "reset"} \subseteq Methods
BY NoAnswerNames

LEMMA UserInRange ==
  ASSUME TablesTyped, NEW u \in DOMAIN users
  PROVE  u \in UserIDs /\ u \in 0..Len(users) /\ users[u] \in Users
BY Bounds DEF TablesTyped, UserIDs

-----------------------------------------------------------------------------
(* One lemma for each action. *)

LEMMA RegisterKeeps ==
  ASSUME IInv, NEW c \in Conn, NEW e \in Email, NEW p \in Password, Register(c, e, p)
  PROVE  IInv'
<1>1. CASE p \in Short /\ Refuse(c, "login") /\ UNCHANGED <<tables, user>>
  <2>1. TablesKept
    BY <1>1, NothingStored DEF IInv
  <2> QED
    BY <1>1, <2>1, UserKept, Refused, MethodNames
<1>2. CASE InsertUser(e, p) /\ SetUser(c, Len(users) + 1)
           /\ Goto(c, "session", [Blank EXCEPT !.given = p])
  <2>1. TablesKept /\ Len(users) + 1 \in DOMAIN users' /\ p \in had'[Len(users) + 1]
    BY <1>2, UserInserted DEF IInv
  <2>2. PICK n \in Nat : n = Len(users) + 1
    BY DEF IInv, TablesTyped
  <2>3. n \in DOMAIN users' /\ n \in 0..Len(users') /\ p \in had'[n]
    BY <2>1, <2>2 DEF TablesKept, TablesTyped
  <2> DEFINE r == [Blank EXCEPT !.given = p]
  <2>4. r \in Rows /\ r.given = p
    BY BlankFits DEF Rows
  <2> HIDE DEF r
  <2>5. RowFits("session", r, n)'
    BY <2>3, <2>4 DEF RowFits
  <2>6. Goto(c, "session", r) /\ user' = [user EXCEPT ![c] = n]
    BY <1>2, <2>2 DEF r, SetUser
  <2> QED
    BY <2>1, <2>3, <2>4, <2>5, <2>6, Went
<1>3. CASE InsertUser(e, p) /\ SetUser(c, FailedUser) /\ Refuse(c, "login")
  <2>1. TablesKept
    BY <1>3, UserInserted DEF IInv
  <2> QED
    BY <1>3, <2>1, NobodyIsUser, Refused, MethodNames DEF SetUser, FailedUser
<1>4. CASE UNCHANGED tables /\ SetUser(c, FailedUser) /\ Refuse(c, "login")
  <2>1. TablesKept
    BY <1>4, NothingStored DEF IInv
  <2> QED
    BY <1>4, <2>1, NobodyIsUser, Refused, MethodNames DEF SetUser, FailedUser
<1> QED
  BY <1>1, <1>2, <1>3, <1>4 DEF Register

LEMMA LoginKeeps ==
  ASSUME IInv, NEW c \in Conn, NEW e \in Email, NEW p \in Password, Login(c, e, p)
  PROVE  IInv'
<1>1. TablesKept
  BY NothingStored DEF IInv, Login
<1>2. ASSUME NEW u \in DOMAIN users, HasEmail(u, e), UNCHANGED user,
             Goto(c, "match", [Blank EXCEPT !.user = u, !.given = p,
                                            !.digest = users[u].password])
      PROVE  IInv'
  <2>1. PICK d \in Password : d = users[u].password /\ d \in had[u]
    BY <1>2, UserInRange DEF IInv, Users, TablesFit
  <2> DEFINE r == [Blank EXCEPT !.user = u, !.given = p, !.digest = d]
  <2>2. r \in Rows /\ r.user = u /\ r.digest = d
    BY BlankFits, UserInRange DEF Rows, IInv
  <2> HIDE DEF r
  <2>3. PICK w : w = user[c]
    OBVIOUS
  <2>4. RowFits("match", r, w)
    BY <2>1, <2>2 DEF RowFits
  <2>5. RowFits("match", r, w)'
    BY <1>1, <2>4, FitsStill DEF IInv
  <2>6. Goto(c, "match", r)
    BY <1>2, <2>1 DEF r
  <2>7. user' = [user EXCEPT ![c] = w] /\ w \in 0..Len(users')
    BY <1>1, <1>2, <2>3, UserKept
  <2> QED
    BY <1>1, <2>2, <2>5, <2>6, <2>7, Went
<1>3. CASE SetUser(c, FailedUser) /\ Refuse(c, "login")
  <2> QED
    BY <1>1, <1>3, NobodyIsUser, Refused, MethodNames DEF SetUser, FailedUser
<1> QED
  BY <1>2, <1>3 DEF Login

LEMMA CheckPasswordKeeps ==
  ASSUME IInv, NEW c \in Conn, CheckPassword(c)
  PROVE  IInv'
<1>1. TablesKept
  BY NothingStored DEF IInv, CheckPassword
<1>2. PICK r \in Rows : r = row[c]
  BY DEF IInv, HandlersTyped
<1>3. r.user \in DOMAIN users /\ r.digest \in had[r.user]
  BY <1>2 DEF IInv, RowsFit, RowFits, CheckPassword
<1>4. PICK u \in 0..Len(users') : u = r.user /\ u \in DOMAIN users
  BY <1>1, <1>3, UserInRange DEF IInv, TablesKept, Grow, TablesTyped
<1>5. user' = [user EXCEPT ![c] = u]
  BY <1>2, <1>4 DEF CheckPassword, Match, SetUser
<1>6. CASE r.given = r.digest /\ Goto(c, "session", r)
  <2>1. RowFits("session", r, u)
    BY <1>3, <1>4, <1>6 DEF RowFits
  <2>2. RowFits("session", r, u)'
    BY <1>1, <2>1, FitsStill DEF IInv
  <2> QED
    BY <1>1, <1>5, <1>6, <2>2, Went
<1>7. CASE Refuse(c, "login")
  BY <1>1, <1>5, <1>7, Refused, MethodNames
<1> QED
  BY <1>2, <1>6, <1>7 DEF CheckPassword, Match

LEMMA CreateSessionKeeps ==
  ASSUME IInv, NEW c \in Conn, CreateSession(c)
  PROVE  IInv'
<1>1. user[c] \in DOMAIN users /\ row[c].given \in had[user[c]]
  BY DEF IInv, RowsFit, RowFits, CreateSession
<1>2. PICK u \in DOMAIN users : u = user[c]
  BY <1>1
<1>3. PICK p \in had[u] : p = row[c].given
  BY <1>1, <1>2
<1>4. UNCHANGED user
  BY DEF CreateSession
<1>5. CASE /\ InsertSession(u, p)
           /\ \/ ReplySession(c, "login", u, Len(sessions) + 1)
              \/ Refuse(c, "login")
  <2>1. PICK n \in Nat : n = Len(sessions) + 1
    BY DEF IInv, TablesTyped
  <2>2. TablesKept /\ n \in 0..MaxSessions /\ n \in DOMAIN sessions' /\ sessions'[n].user = u
    BY <1>5, <2>1, SessionInserted DEF IInv
  <2>3. user' = [user EXCEPT ![c] = u] /\ u \in 0..Len(users') /\ u \in UserIDs
    BY <1>2, <1>4, <2>2, UserKept, UserInRange DEF IInv
  <2>4. CASE ReplySession(c, "login", u, n)
    BY <2>2, <2>3, <2>4, SessionReplied
  <2>5. CASE Refuse(c, "login")
    BY <2>2, <2>3, <2>5, Refused, MethodNames
  <2> QED
    BY <1>5, <2>1, <2>4, <2>5
<1>6. CASE UNCHANGED tables /\ Refuse(c, "login")
  <2>1. TablesKept
    BY <1>6, NothingStored DEF IInv
  <2> QED
    BY <1>2, <1>4, <1>6, <2>1, UserKept, Refused, MethodNames
<1> QED
  BY <1>2, <1>3, <1>5, <1>6 DEF CreateSession

LEMMA ResumeSessionKeeps ==
  ASSUME IInv, NEW c \in Conn, ResumeSession(c)
  PROVE  IInv'
<1>1. TablesKept
  BY NothingStored DEF IInv, ResumeSession
<1>2. PICK w \in 0..Len(users') : user' = [user EXCEPT ![c] = w]
  BY <1>1, UserKept DEF ResumeSession
<1>3. ASSUME NEW s \in DOMAIN sessions,
             Goto(c, "user", [Blank EXCEPT !.user = sessions[s].user, !.token = s])
      PROVE  IInv'
  <2>1. PICK u \in DOMAIN users : u = sessions[s].user
    BY DEF IInv, TablesFit, SessionsJustified
  <2> DEFINE r == [Blank EXCEPT !.user = u, !.token = s]
  <2>2. r \in Rows /\ r.user = u /\ r.token = s
    <3>1. s \in 0..MaxSessions
      BY Bounds DEF IInv, TablesTyped
    <3> QED
      BY <3>1, BlankFits, UserInRange DEF Rows, IInv
  <2> HIDE DEF r
  <2>3. RowFits("user", r, w)
    BY <2>1, <2>2 DEF RowFits
  <2>4. RowFits("user", r, w)'
    BY <1>1, <2>3, FitsStill DEF IInv
  <2>5. Goto(c, "user", r)
    BY <1>3, <2>1 DEF r
  <2> QED
    BY <1>1, <1>2, <2>2, <2>4, <2>5, Went
<1>4. CASE Refuse(c, "resume")
  BY <1>1, <1>2, <1>4, Refused, MethodNames
<1> QED
  BY <1>3, <1>4 DEF ResumeSession

LEMMA GetUserKeeps ==
  ASSUME IInv, NEW c \in Conn, GetUser(c)
  PROVE  IInv'
<1>1. TablesKept
  BY NothingStored DEF IInv, GetUser
<1>2. PICK r \in Rows : r = row[c]
  BY DEF IInv, HandlersTyped
<1>3. r.token \in DOMAIN sessions /\ sessions[r.token].user = r.user
  BY <1>2 DEF IInv, RowsFit, RowFits, GetUser
<1>4. PICK s \in 0..MaxSessions : s = r.token
  BY <1>3, Bounds DEF IInv, TablesTyped
<1>5. PICK o \in DOMAIN users : o = r.user
  BY <1>3 DEF IInv, TablesFit, SessionsJustified
<1>6. s \in DOMAIN sessions' /\ sessions'[s].user = o
  BY <1>1, <1>3, <1>4, <1>5 DEF TablesKept, Grow
<1>7. PICK u \in {o, None} :
        user' = [user EXCEPT ![c] = u] /\ ReplySession(c, "resume", u, s)
  BY <1>2, <1>4, <1>5 DEF GetUser, SetUser
<1>8. u \in UserIDs /\ u \in 0..Len(users')
  <2>1. o \in UserIDs /\ o \in 0..Len(users')
    BY <1>1, UserInRange DEF IInv, TablesKept, Grow, TablesTyped
  <2>2. None \in UserIDs /\ None \in 0..Len(users')
    BY <1>1, NobodyIsUser, NoAnswerNames
  <2> QED
    BY <2>1, <2>2
<1>9. u = sessions'[s].user \/ u = None
  BY <1>6, <1>7
<1> QED
  BY <1>1, <1>4, <1>6, <1>7, <1>8, <1>9, SessionReplied

LEMMA LogoutKeeps ==
  ASSUME IInv, NEW c \in Conn, Logout(c)
  PROVE  IInv'
<1>1. TablesKept
  BY NothingStored DEF IInv, Logout
<1>2. /\ pc' = [pc EXCEPT ![c] = "idle"]
      /\ row' = [row EXCEPT ![c] = row[c]]
      /\ user' = [user EXCEPT ![c] = None]
      /\ answer' = NoAnswer
  BY DEF IInv, HandlersTyped, Logout, SetUser
<1>3. PICK r \in Rows : r = row[c]
  BY DEF IInv, HandlersTyped
<1>4. AnswerFits'
  BY <1>2, NoAnswerNames DEF AnswerFits, AnswerNamesUser, AskedIsMailed
<1>5. RowFits("idle", r, None)'
  BY DEF RowFits
<1> QED
  BY <1>1, <1>2, <1>3, <1>4, <1>5, NoAnswerNames, NobodyIsUser, HandlerStep

LEMMA RequestPasswordResetKeeps ==
  ASSUME IInv, NEW c \in Conn, NEW e \in Email, RequestPasswordReset(c, e)
  PROVE  IInv'
<1>1. TablesKept
  BY NothingStored DEF IInv, RequestPasswordReset
<1>2. PICK w \in 0..Len(users') : user' = [user EXCEPT ![c] = w]
  BY <1>1, UserKept DEF RequestPasswordReset
<1>3. ASSUME NEW u \in DOMAIN users, HasEmail(u, e),
             Goto(c, "token", [Blank EXCEPT !.user = u, !.email = e])
      PROVE  IInv'
  <2> DEFINE r == [Blank EXCEPT !.user = u, !.email = e]
  <2>1. r \in Rows /\ r.user = u /\ r.email = e
    BY BlankFits, UserInRange DEF Rows, IInv
  <2> HIDE DEF r
  <2>2. RowFits("token", r, w)
    BY <1>3, <2>1 DEF RowFits, HasEmail
  <2>3. RowFits("token", r, w)'
    BY <1>1, <2>2, FitsStill DEF IInv
  <2>4. Goto(c, "token", r)
    BY <1>3 DEF r
  <2> QED
    BY <1>1, <1>2, <2>1, <2>3, <2>4, Went
<1>4. CASE (\A u \in DOMAIN users : ~ HasEmail(u, e)) /\ ReplyAsked(c, e)
  <2>1. users' = users
    BY DEF RequestPasswordReset, tables
  <2>2. \A u \in DOMAIN users' : users'[u].email # e
    BY <1>4, <2>1 DEF HasEmail
  <2> QED
    BY <1>1, <1>2, <1>4, <2>2, AskedReplied
<1>5. CASE Refuse(c, "forgot")
  BY <1>1, <1>2, <1>5, Refused, MethodNames
<1> QED
  BY <1>3, <1>4, <1>5 DEF RequestPasswordReset

LEMMA CreatePasswordResetKeeps ==
  ASSUME IInv, NEW c \in Conn, CreatePasswordReset(c)
  PROVE  IInv'
<1>1. PICK r \in Rows : r = row[c]
  BY DEF IInv, HandlersTyped
<1>2. r.user \in DOMAIN users /\ users[r.user].email = r.email
  BY <1>1 DEF IInv, RowsFit, RowFits, CreatePasswordReset
<1>3. PICK o \in DOMAIN users : o = r.user
  BY <1>2
<1>4. UNCHANGED user
  BY DEF CreatePasswordReset
<1>5. CASE /\ Len(resets) < MaxResets
           /\ resets' = Append(resets, [user |-> o, done |-> FALSE])
           /\ UNCHANGED <<users, sessions, mails, had>>
           /\ \/ Goto(c, "mail", [r EXCEPT !.token = Len(resets) + 1])
              \/ Refuse(c, "forgot")
  <2>1. PICK n \in Nat : n = Len(resets) + 1
    BY DEF IInv, TablesTyped
  <2>2. TablesKept /\ n \in DOMAIN resets' /\ n \in 0..MaxResets /\ resets'[n].user = o
    BY <1>5, <2>1, ResetInserted DEF IInv
  <2>3. PICK w \in 0..Len(users') : user' = [user EXCEPT ![c] = w]
    BY <1>4, <2>2, UserKept
  <2>4. CASE Goto(c, "mail", [r EXCEPT !.token = n])
    <3> DEFINE q == [r EXCEPT !.token = n]
    <3>1. q \in Rows /\ q.token = n /\ q.email = r.email
      BY <2>2 DEF Rows
    <3> HIDE DEF q
    <3>2. users'[o].email = r.email
      BY <1>2, <1>3, <2>2 DEF TablesKept, Grow
    <3>3. RowFits("mail", q, w)'
      BY <2>2, <3>1, <3>2 DEF RowFits
    <3>4. Goto(c, "mail", q)
      BY <2>4 DEF q
    <3> QED
      BY <2>2, <2>3, <3>1, <3>3, <3>4, Went
  <2>5. CASE Refuse(c, "forgot")
    BY <2>2, <2>3, <2>5, Refused, MethodNames
  <2> QED
    BY <1>5, <2>1, <2>4, <2>5
<1>6. CASE UNCHANGED tables /\ Refuse(c, "forgot")
  <2>1. TablesKept
    BY <1>6, NothingStored DEF IInv
  <2>2. PICK w \in 0..Len(users') : user' = [user EXCEPT ![c] = w]
    BY <1>4, <2>1, UserKept
  <2> QED
    BY <1>6, <2>1, <2>2, Refused, MethodNames
<1> QED
  BY <1>1, <1>3, <1>5, <1>6 DEF CreatePasswordReset, Owner

LEMMA SendMailKeeps ==
  ASSUME IInv, NEW c \in Conn, SendMail(c)
  PROVE  IInv'
<1>1. PICK r \in Rows : r = row[c]
  BY DEF IInv, HandlersTyped
<1>2. r.token \in DOMAIN resets /\ users[resets[r.token].user].email = r.email
  BY <1>1 DEF IInv, RowsFit, RowFits, SendMail
<1>3. PICK t \in DOMAIN resets, a \in Email : t = r.token /\ a = r.email
  BY <1>2 DEF Rows
<1>4. TablesKept
  <2>1. CASE mails' = mails \cup {[to |-> a, token |-> t]}
    BY <1>2, <1>3, <2>1, MailSent DEF IInv, SendMail
  <2>2. CASE UNCHANGED mails
    BY <2>2, NothingStored DEF IInv, SendMail, tables
  <2> QED
    BY <1>1, <1>3, <2>1, <2>2 DEF SendMail
<1>5. PICK w \in 0..Len(users') : user' = [user EXCEPT ![c] = w]
  BY <1>4, UserKept DEF SendMail
<1>6. CASE /\ mails' = mails \cup {[to |-> a, token |-> t]}
           /\ ReplyAsked(c, a)
  <2>1. UNCHANGED <<users, resets>>
    BY DEF SendMail
  <2>2. ASSUME NEW v \in DOMAIN users, users[v].email = a PROVE resets[t].user = v
    BY <1>2, <1>3, <2>2 DEF IInv, TablesFit
  <2>3. [to |-> a, token |-> t] \in mails'
    BY <1>6
  <2>4. \A v \in DOMAIN users' : users'[v].email = a =>
          \E m \in mails' : m.to = a /\ resets'[m.token].user = v
    BY <2>1, <2>2, <2>3
  <2> QED
    BY <1>4, <1>5, <1>6, <2>4, AskedReplied
<1>7. CASE Refuse(c, "forgot")
  BY <1>4, <1>5, <1>7, Refused, MethodNames
<1> QED
  BY <1>1, <1>3, <1>6, <1>7 DEF SendMail

LEMMA ResetPasswordKeeps ==
  ASSUME IInv, NEW c \in Conn, NEW p \in Password, ResetPassword(c, p)
  PROVE  IInv'
<1>1. TablesKept
  BY NothingStored, PasswordSet DEF IInv, ResetPassword
<1>2. PICK w \in 0..Len(users') : user' = [user EXCEPT ![c] = w]
  BY <1>1, UserKept DEF ResetPassword
<1>3. ASSUME NEW ok \in BOOLEAN,
             Reply(c, [NoAnswer EXCEPT !.conn = c, !.method = "reset", !.ok = ok])
      PROVE  IInv'
  <2>0. PICK a : a = [NoAnswer EXCEPT !.conn = c, !.method = "reset", !.ok = ok]
    OBVIOUS
  <2>1. a \in Answers /\ a.method = "reset"
    BY <2>0, NoAnswerNames DEF Answers
  <2>2. answer' = a => AnswerFits'
    BY <2>1 DEF AnswerFits, AnswerNamesUser, AskedIsMailed
  <2> QED
    BY <1>1, <1>2, <1>3, <2>0, <2>1, <2>2, Replied
<1>4. CASE Refuse(c, "reset")
  BY <1>1, <1>2, <1>4, Refused, MethodNames
<1> QED
  BY <1>3, <1>4 DEF ResetPassword

(* A reconnection or a restart: the handlers of C are gone. *)
LEMMA ResetKeeps ==
  ASSUME IInv, NEW C \in SUBSET Conn, Reset(C)
  PROVE  IInv'
<1>1. TablesKept
  BY NothingStored DEF IInv, Reset
<1>2. Len(users) \in Nat /\ Len(users') = Len(users)
  BY DEF IInv, TablesTyped, Reset, tables
<1>3. /\ pc' \in [Conn -> {"idle", "match", "session", "user", "token", "mail"}]
      /\ user' \in [Conn -> 0..Len(users')]
      /\ row' \in [Conn -> Rows]
  BY <1>2, BlankFits DEF IInv, HandlersTyped, Reset, None
<1>4. answer' \in Answers /\ AnswerFits'
  BY NoAnswerNames DEF Reset, AnswerFits, AnswerNamesUser, AskedIsMailed
<1>5. ASSUME NEW d \in Conn PROVE RowFits(pc[d], row[d], user[d])'
  <2>1. CASE d \in C
    <3>1. pc'[d] = "idle"
      BY <2>1 DEF Reset
    <3> QED
      BY <3>1 DEF RowFits
  <2>2. CASE d \notin C
    <3>1. pc'[d] = pc[d] /\ row'[d] = row[d] /\ user'[d] = user[d]
      BY <2>2 DEF Reset
    <3>2. RowFits(pc[d], row[d], user[d])
      BY DEF IInv, RowsFit
    <3> QED
      BY <3>1, <3>2 DEF RowFits, Reset, tables
  <2> QED
    BY <2>1, <2>2
<1> QED
  BY <1>1, <1>3, <1>4, <1>5 DEF IInv, TablesKept, HandlersTyped, RowsFit

LEMMA CrashDatabaseKeeps ==
  ASSUME IInv, CrashDatabase
  PROVE  IInv'
<1>1. TablesKept
  BY SessionsLost DEF IInv
<1>2. HandlersTyped'
  BY DEF IInv, HandlersTyped, CrashDatabase
<1>3. \A s \in DOMAIN sessions : sessions'[s].user = sessions[s].user
  BY <1>1 DEF TablesKept, Grow
<1>4. AnswerFits'
  <2>1. AnswerNamesUser'
    BY <1>1, <1>3 DEF IInv, AnswerFits, AnswerNamesUser, CrashDatabase, TablesKept, Grow
  <2>2. AskedIsMailed'
    BY DEF IInv, AnswerFits, AskedIsMailed, CrashDatabase
  <2> QED
    BY <2>1, <2>2 DEF AnswerFits
<1>5. RowsFit'
  <2> SUFFICES ASSUME NEW d \in Conn PROVE RowFits(pc[d], row[d], user[d])'
    BY DEF RowsFit
  <2>1. RowFits(pc[d], row[d], user[d])
    BY DEF IInv, RowsFit
  <2> QED
    BY <1>3, <2>1 DEF RowFits, CrashDatabase
<1> QED
  BY <1>1, <1>2, <1>4, <1>5 DEF IInv, TablesKept

-----------------------------------------------------------------------------
(* The invariant, and the properties that follow from it. *)

LEMMA InitHolds == Init => IInv
<1> SUFFICES ASSUME Init PROVE IInv
  OBVIOUS
<1>1. TablesTyped
  BY Bounds DEF Init, TablesTyped
<1>2. HandlersTyped
  BY NoAnswerNames, BlankFits DEF Init, HandlersTyped, None
<1>3. TablesFit
  BY DEF Init, TablesFit, SessionsJustified, MailsReachOwner
<1>4. RowsFit
  BY DEF Init, RowsFit, RowFits
<1>5. AnswerFits
  BY NoAnswerNames DEF Init, AnswerFits, AnswerNamesUser, AskedIsMailed
<1> QED
  BY <1>1, <1>2, <1>3, <1>4, <1>5 DEF IInv

LEMMA NextKeeps == IInv /\ [Next]_vars => IInv'
<1> SUFFICES ASSUME IInv, [Next]_vars PROVE IInv'
  OBVIOUS
<1>1. ASSUME NEW c \in Conn, Handle(c) PROVE IInv'
  <2>1. Reconnect(c) => IInv'
    BY ResetKeeps DEF Reconnect
  <2> QED
    BY <1>1, <2>1, RegisterKeeps, LoginKeeps, CheckPasswordKeeps, CreateSessionKeeps,
       ResumeSessionKeeps, GetUserKeeps, LogoutKeeps, RequestPasswordResetKeeps,
       CreatePasswordResetKeeps, SendMailKeeps, ResetPasswordKeeps DEF Handle
<1>2. CASE Restart
  BY <1>2, ResetKeeps DEF Restart
<1>3. CASE CrashDatabase
  BY <1>3, CrashDatabaseKeeps
<1>4. CASE UNCHANGED vars
  BY <1>4 DEF IInv, vars, tables, TablesTyped, HandlersTyped, TablesFit, SessionsJustified,
     MailsReachOwner, RowsFit, RowFits, AnswerFits, AnswerNamesUser, AskedIsMailed
<1> QED
  BY <1>1, <1>2, <1>3, <1>4 DEF Next

LEMMA Invariance == Spec => []IInv
BY InitHolds, NextKeeps, PTL DEF Spec

(* Every variable keeps its type. *)
THEOREM TypeCorrect == Spec => []TypeOK
<1>1. IInv => TypeOK
  BY TypeOKSplit DEF IInv
<1> QED
  BY <1>1, Invariance, PTL

(* A session is made only for a password that its user had (ws.go Login,   *)
(* Register).                                                              *)
THEOREM SessionsAreJustified == Spec => []SessionsJustified
<1>1. IInv => SessionsJustified
  BY DEF IInv, TablesFit
<1> QED
  BY <1>1, Invariance, PTL

(* The token in a mail sets the password of the user the mail goes to      *)
(* (ws.go RequestPasswordReset).                                           *)
THEOREM TokensGoToOwners == Spec => []MailsReachOwner
<1>1. IInv => MailsReachOwner
  BY DEF IInv, TablesFit
<1> QED
  BY <1>1, Invariance, PTL

(* A successful answer names the user that the connection acts for (ws.go  *)
(* Login, Register, ResumeSession).                                        *)
THEOREM AnswersNameUsers == Spec => []AnswerNamesUser
<1>1. IInv => AnswerNamesUser
  BY DEF IInv, AnswerFits
<1> QED
  BY <1>1, Invariance, PTL

(* No interleaving of resets, and no lost answer, changes a password       *)
(* without using up a token of its user (pgx_repository.go                 *)
(* SetPasswordByToken).                                                    *)
THEOREM TokensAreUsedUp == Spec => PasswordChangesByToken
<1> DEFINE P == \A u \in DOMAIN users :
                  users'[u].password # users[u].password =>
                    \E t \in DOMAIN resets :
                      resets[t].user = u /\ ~ resets[t].done /\ resets'[t].done
<1>1. ASSUME IInv, [Next]_vars PROVE P
  <2>1. CASE UNCHANGED users
    BY <2>1
  <2>2. ASSUME NEW e \in Email, NEW p \in Password, InsertUser(e, p) PROVE P
    <3>1. [email |-> e, password |-> p] \in Users /\ users \in Seq(Users)
      BY <1>1 DEF Users, IInv, TablesTyped
    <3>2. \A u \in DOMAIN users : users'[u] = users[u]
      BY <2>2, <3>1, DomainOfAppend DEF InsertUser
    <3> QED
      BY <3>2
  <2>3. ASSUME NEW t \in DOMAIN resets, NEW p \in Password, SetPasswordByToken(t, p) PROVE P
    <3>1. /\ users \in [1..Len(users) -> Users] /\ resets \in [1..Len(resets) -> Resets]
      BY <1>1 DEF IInv, TablesTyped
    <3>2. ~ resets[t].done /\ resets'[t].done
      BY <2>3, <3>1 DEF SetPasswordByToken, IsOpen, Resets
    <3>3. \A u \in DOMAIN users : u # resets[t].user => users'[u] = users[u]
      BY <2>3, <3>1 DEF SetPasswordByToken
    <3> QED
      BY <3>2, <3>3
  <2>4. ASSUME NEW c \in Conn, Handle(c) PROVE P
    <3>1. CASE \E e \in Email, p \in Password : Register(c, e, p)
      BY <2>1, <2>2, <3>1 DEF Register, tables
    <3>2. CASE \E p \in Password : ResetPassword(c, p)
      BY <2>1, <2>3, <3>2 DEF ResetPassword, tables
    <3>3. CASE UNCHANGED users
      BY <2>1, <3>3
    <3> QED
      BY <2>4, <3>1, <3>2, <3>3 DEF Handle, Login, CheckPassword, CreateSession, InsertSession,
         ResumeSession, GetUser, Logout, RequestPasswordReset, CreatePasswordReset, SendMail,
         Reconnect, Reset, tables
  <2> QED
    BY <1>1, <2>1, <2>4 DEF Next, Restart, Reset, CrashDatabase, tables, vars
<1>2. ASSUME IInv, [Next]_vars PROVE [P]_vars
  BY <1>1, <1>2
<1> QED
  BY <1>2, Invariance, PTL DEF Spec, PasswordChangesByToken

(* Whoever has an account and is told that the request was met has been    *)
(* sent a mail with a token of that account, whatever statement, answer or *)
(* mailer fails meanwhile (ws.go RequestPasswordReset).                    *)
THEOREM AskedAreMailed == Spec => []AskedIsMailed
<1>1. IInv => AskedIsMailed
  BY DEF IInv, AnswerFits
<1> QED
  BY <1>1, Invariance, PTL
=============================================================================
