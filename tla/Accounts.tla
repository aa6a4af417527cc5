------------------------------- MODULE Accounts -------------------------------
(***************************************************************************)
(* Users, sessions and password resets: the handlers of backend/ws.go that *)
(* register, log in, resume a session and reset a password, over the       *)
(* tables of backend/pgx_repository.go and db/.  A handler is a sequence   *)
(* of statements, each a transaction of its own on a connection of the     *)
(* pool; the handlers of several web sockets interleave between them.      *)
(*                                                                         *)
(* A statement may fail before it is carried out, or be carried out while  *)
(* its answer is lost; both look alike to the handler.  sessions is an     *)
(* unlogged table, which a crash of the database empties.                  *)
(*                                                                         *)
(* The digest of a password is the password it was made from.  Session ids *)
(* and tokens are random: they are numbered as they are made.              *)
(***************************************************************************)
EXTENDS Integers, Sequences

CONSTANTS Conn,         \* the web sockets
          Email,        \* what a browser may send as one, not empty
          Password,
          Short,        \* the passwords of less than 8 characters
          Lower,        \* Lower[e]: what lower(e) is in the database
          MaxUsers, MaxSessions, MaxResets  \* bounds

ASSUME AccountsAssumption ==
  /\ Short \subseteq Password
  /\ Email # {} /\ Password # {}
  /\ Email \subseteq DOMAIN Lower
  /\ MaxUsers \in Nat /\ MaxSessions \in Nat /\ MaxResets \in Nat

VARIABLES
  users,     \* the table users; the id of a user is its index
  sessions,  \* the sessions made: whose, for which password, and if it is there
  resets,    \* the table password_resets: whose, and completion_time is set
  mails,     \* the mails sent
  pc,        \* pc[c]: the statement that the handler of c comes to next
  user,      \* user[c]: conn.user.ID
  row,       \* row[c]: what the handler has read or was sent
  answer,    \* the response, when one was sent last
  had        \* had[u]: the passwords that the user u has had

tables == <<users, sessions, resets, mails, had>>
vars == <<tables, pc, user, row, answer>>

None == 0
UserIDs == 0..MaxUsers
Methods == {"none", "login", "resume", "forgot", "reset"}

Users == [email : Email, password : Password]
Sessions == [user : UserIDs, password : Password, live : BOOLEAN]
Resets == [user : UserIDs, done : BOOLEAN]
Rows == [user : UserIDs, email : Email, given : Password,
         digest : Password, token : 0..MaxSessions \cup 0..MaxResets]
Answers == [conn : Conn \cup {None}, method : Methods, ok : BOOLEAN,
            user : UserIDs, session : 0..MaxSessions, email : Email]

TypeOK ==
  /\ users \in Seq(Users) /\ Len(users) <= MaxUsers
  /\ sessions \in Seq(Sessions) /\ Len(sessions) <= MaxSessions
  /\ resets \in Seq(Resets) /\ Len(resets) <= MaxResets
  /\ mails \subseteq [to : Email, token : 1..MaxResets]
  /\ pc \in [Conn -> {"idle", "match", "session", "user", "token", "mail"}]
  /\ user \in [Conn -> 0..Len(users)]
  /\ row \in [Conn -> Rows]
  /\ answer \in Answers
  /\ had \in [DOMAIN users -> SUBSET Password]

Blank == [user |-> None, token |-> 0, email |-> CHOOSE e \in Email : TRUE,
          given |-> CHOOSE p \in Password : TRUE,
          digest |-> CHOOSE p \in Password : TRUE]

NoAnswer == [conn |-> None, method |-> "none", ok |-> FALSE,
             user |-> None, session |-> 0, email |-> Blank.email]

Init ==
  /\ users = <<>> /\ sessions = <<>> /\ resets = <<>> /\ mails = {} /\ had = <<>>
  /\ pc = [c \in Conn |-> "idle"]
  /\ user = [c \in Conn |-> None]
  /\ row = [c \in Conn |-> Blank]
  /\ answer = NoAnswer

-----------------------------------------------------------------------------
(* How a handler goes on: to its next statement with what it has found, or *)
(* to its response, after which nothing of it is left but conn.user.       *)

Goto(c, place, r) ==
  /\ pc' = [pc EXCEPT ![c] = place]
  /\ row' = [row EXCEPT ![c] = r]
  /\ answer' = NoAnswer

Reply(c, response) ==
  /\ pc' = [pc EXCEPT ![c] = "idle"]
  /\ row' = [row EXCEPT ![c] = Blank]
  /\ answer' = response

Refuse(c, method) == Reply(c, [NoAnswer EXCEPT !.conn = c, !.method = method])

(* A session is answered with the user whom the connection acts for now.   *)
ReplySession(c, method, u, s) ==
  Reply(c, [NoAnswer EXCEPT !.conn = c, !.method = method, !.ok = TRUE,
                            !.user = u, !.session = s])

(* What is answered when an address asks for a mail, be it known or not.   *)
ReplyAsked(c, e) ==
  Reply(c, [NoAnswer EXCEPT !.conn = c, !.method = "forgot", !.ok = TRUE, !.email = e])

SetUser(c, u) == user' = [user EXCEPT ![c] = u]

-----------------------------------------------------------------------------
(* Register and Login. *)

(* The unique index on lower(email).  The one on lower(name), and the      *)
(* check of the letters of a name, are among the failures of the insert.   *)
Taken(e) == \E u \in DOMAIN users : Lower[users[u].email] = Lower[e]

InsertUser(e, p) ==
  /\ ~ Taken(e)
  /\ Len(users) < MaxUsers
  /\ users' = Append(users, [email |-> e, password |-> p])
  /\ had' = Append(had, {p})
  /\ UNCHANGED <<sessions, resets, mails>>

(* What CreateUser and repo.Login return with an error of the database. *)
FailedUser == None

(* CreateUser gives the zero user when it fails, be the row there or not;  *)
(* a name or an e-mail that is taken is a failure like any other.          *)
Register(c, e, p) ==
  /\ pc[c] = "idle"
  /\ \/ p \in Short /\ Refuse(c, "login") /\ UNCHANGED <<tables, user>>
     \/ /\ p \notin Short
        /\ \/ /\ InsertUser(e, p)
              /\ \/ /\ SetUser(c, Len(users) + 1)
                    /\ Goto(c, "session", [Blank EXCEPT !.given = p])
                 \/ SetUser(c, FailedUser) /\ Refuse(c, "login")
           \/ UNCHANGED tables /\ SetUser(c, FailedUser) /\ Refuse(c, "login")

HasEmail(u, e) == users[u].email = e

(* The row is found by the e-mail as it was registered, letter for letter; *)
(* without one, or when the statement fails, conn.user is zero.            *)
Login(c, e, p) ==
  /\ pc[c] = "idle"
  /\ UNCHANGED tables
  /\ \/ \E u \in DOMAIN users :
          /\ HasEmail(u, e)
          /\ Goto(c, "match", [Blank EXCEPT !.user = u, !.given = p,
                                        !.digest = users[u].password])
          /\ UNCHANGED user
     \/ SetUser(c, FailedUser) /\ Refuse(c, "login")

(* Mutant: the handler goes on after a wrong password. *)
MatchAll(c) == SetUser(c, row[c].user) /\ Goto(c, "session", row[c])

(* PasswordMatch, with the digest that was read: a wrong password leaves   *)
(* the user that was found in conn.user.                                   *)
Match(c) ==
  /\ SetUser(c, row[c].user)
  /\ \/ row[c].given = row[c].digest /\ Goto(c, "session", row[c])
     \/ row[c].given # row[c].digest /\ Refuse(c, "login")

CheckPassword(c) == pc[c] = "match" /\ Match(c) /\ UNCHANGED tables

InsertSession(u, p) ==
  /\ Len(sessions) < MaxSessions
  /\ sessions' = Append(sessions, [user |-> u, password |-> p, live |-> TRUE])
  /\ UNCHANGED <<users, resets, mails, had>>

(* CreateSession; when it fails, conn.user stays. *)
CreateSession(c) ==
  /\ pc[c] = "session"
  /\ UNCHANGED user
  /\ \/ /\ InsertSession(user[c], row[c].given)
        /\ \/ ReplySession(c, "login", user[c], Len(sessions) + 1)
           \/ Refuse(c, "login")
     \/ UNCHANGED tables /\ Refuse(c, "login")

-----------------------------------------------------------------------------
(* ResumeSession: two statements; the error of the second is not looked    *)
(* at, and the response then names the zero user.                          *)

IsLive(s) == sessions[s].live

ResumeSession(c) ==
  /\ pc[c] = "idle"
  /\ UNCHANGED <<tables, user>>
  /\ \/ \E s \in DOMAIN sessions :
          IsLive(s) /\ Goto(c, "user", [Blank EXCEPT !.user = sessions[s].user, !.token = s])
     \/ Refuse(c, "resume")

(* Mutant: the user is assigned to a variable of the handler. *)
GetUserShadowed(c) ==
  /\ pc[c] = "user"
  /\ UNCHANGED <<tables, user>>
  /\ ReplySession(c, "resume", row[c].user, row[c].token)

GetUser(c) ==
  /\ pc[c] = "user"
  /\ UNCHANGED tables
  /\ \E u \in {row[c].user, None} :
       SetUser(c, u) /\ ReplySession(c, "resume", u, row[c].token)

Logout(c) ==
  /\ pc[c] = "idle"
  /\ SetUser(c, None)
  /\ answer' = NoAnswer
  /\ UNCHANGED <<tables, pc, row>>

-----------------------------------------------------------------------------
(* RequestPasswordReset: the user is looked up, a token stored, a mail     *)
(* sent.                                                                   *)

(* An address that nobody has is ErrNotFound: the answer is true all the   *)
(* same.                                                                   *)
RequestPasswordReset(c, e) ==
  /\ pc[c] = "idle"
  /\ UNCHANGED <<tables, user>>
  /\ \/ \E u \in DOMAIN users :
          HasEmail(u, e) /\ Goto(c, "token", [Blank EXCEPT !.user = u, !.email = e])
     \/ (\A u \in DOMAIN users : ~ HasEmail(u, e)) /\ ReplyAsked(c, e)
     \/ Refuse(c, "forgot")

(* Mutant: a connection that is logged in resets its own password. *)
OwnerLoggedIn(c) == IF user[c] = None THEN row[c].user ELSE user[c]

Owner(c) == row[c].user

CreatePasswordReset(c) ==
  /\ pc[c] = "token"
  /\ UNCHANGED user
  /\ \/ /\ Len(resets) < MaxResets
        /\ resets' = Append(resets, [user |-> Owner(c), done |-> FALSE])
        /\ UNCHANGED <<users, sessions, mails, had>>
        /\ \/ Goto(c, "mail", [row[c] EXCEPT !.token = Len(resets) + 1])
           \/ Refuse(c, "forgot")
     \/ UNCHANGED tables /\ Refuse(c, "forgot")

(* Mutant: the error of the mailer is not looked at.                       *)
SendMailUnsure(c) ==
  /\ pc[c] = "mail"
  /\ UNCHANGED <<users, sessions, resets, had, user>>
  /\ mails' \in {mails, mails \cup {[to |-> row[c].email, token |-> row[c].token]}}
  /\ ReplyAsked(c, row[c].email)

(* There may be no mailer, or it may fail, before or after the mail has    *)
(* gone: the answer is then an error.  Only somebody who has an account    *)
(* can get it, although the comments at both answers of true say that they *)
(* do not reveal whether an address is taken.                              *)
SendMail(c) ==
  /\ pc[c] = "mail"
  /\ UNCHANGED <<users, sessions, resets, had, user>>
  /\ \/ /\ mails' = mails \cup {[to |-> row[c].email, token |-> row[c].token]}
        /\ ReplyAsked(c, row[c].email) \/ Refuse(c, "forgot")
     \/ UNCHANGED mails /\ Refuse(c, "forgot")

(* Mutant: completion_time is not looked at. *)
IsOpenAlways(t) == TRUE

IsOpen(t) == ~ resets[t].done

(* One statement: it marks the token, if that is still open, and sets the  *)
(* password of its user, of any length.                                    *)
SetPasswordByToken(t, p) ==
  /\ IsOpen(t)
  /\ resets' = [resets EXCEPT ![t].done = TRUE]
  /\ users' = [users EXCEPT ![resets[t].user].password = p]
  /\ had' = [had EXCEPT ![resets[t].user] = @ \cup {p}]
  /\ UNCHANGED <<sessions, mails>>

(* The token may be one that does not exist. *)
ResetPassword(c, p) ==
  /\ pc[c] = "idle"
  /\ UNCHANGED user
  /\ \/ \E t \in DOMAIN resets :
          /\ SetPasswordByToken(t, p)
          /\ \E ok \in BOOLEAN :
               Reply(c, [NoAnswer EXCEPT !.conn = c, !.method = "reset", !.ok = ok])
     \/ UNCHANGED tables /\ Refuse(c, "reset")

-----------------------------------------------------------------------------
(* A browser connects again, the server restarts in the middle of anything, *)
(* or the database crashes.                                                *)

Reset(C) ==
  /\ pc' = [c \in Conn |-> IF c \in C THEN "idle" ELSE pc[c]]
  /\ user' = [c \in Conn |-> IF c \in C THEN None ELSE user[c]]
  /\ row' = [c \in Conn |-> IF c \in C THEN Blank ELSE row[c]]
  /\ answer' = NoAnswer
  /\ UNCHANGED tables

Reconnect(c) == pc[c] = "idle" /\ Reset({c})

Restart == Reset(Conn)

CrashDatabase ==
  /\ sessions' = [s \in DOMAIN sessions |-> [sessions[s] EXCEPT !.live = FALSE]]
  /\ UNCHANGED <<users, resets, mails, had, pc, user, row, answer>>

Handle(c) ==
  \/ \E e \in Email, p \in Password : Register(c, e, p) \/ Login(c, e, p)
  \/ \E p \in Password : ResetPassword(c, p)
  \/ CheckPassword(c)
  \/ CreateSession(c)
  \/ ResumeSession(c)
  \/ GetUser(c)
  \/ Logout(c)
  \/ \E e \in Email : RequestPasswordReset(c, e)
  \/ CreatePasswordReset(c)
  \/ SendMail(c)
  \/ Reconnect(c)

Next == (\E c \in Conn : Handle(c)) \/ Restart \/ CrashDatabase

Spec == Init /\ [][Next]_vars

-----------------------------------------------------------------------------
(* Properties. *)

(* A session is made only for a user whose password was presented: one the *)
(* user had when it was read, although not always when the session is made. *)
SessionsJustified ==
  \A s \in DOMAIN sessions :
    /\ sessions[s].user \in DOMAIN users
    /\ sessions[s].password \in had[sessions[s].user]

(* The password of a user changes only in a step that uses up one open     *)
(* token of that user; two presentations of one token change it once.      *)
PasswordChangesByToken ==
  [][\A u \in DOMAIN users :
       users'[u].password # users[u].password =>
         \E t \in DOMAIN resets :
           resets[t].user = u /\ ~ resets[t].done /\ resets'[t].done]_vars

(* A mail goes to the address of the user whose password its token sets.   *)
MailsReachOwner ==
  \A m \in mails :
    /\ m.token \in DOMAIN resets
    /\ users[resets[m.token].user].email = m.to

(* After a successful login, registration or resumption the connection    *)
(* acts for the user whose session the response names, or, after a failure *)
(* that resume_session does not report, for nobody.                        *)
AnswerNamesUser ==
  answer.method \in {"login", "resume"} /\ answer.ok =>
    /\ user[answer.conn] = answer.user
    /\ answer.session \in DOMAIN sessions
    /\ \/ answer.user = sessions[answer.session].user
       \/ answer.method = "resume" /\ answer.user = None

(* Whoever has an account and is told that the request was met has been    *)
(* sent a mail, with a token that sets the password of that account and no *)
(* other: two requests at once, an answer of the database that is lost or  *)
(* a mailer that fails must not make it true of a mail that nobody sent.   *)
AskedIsMailed ==
  answer.method = "forgot" /\ answer.ok =>
    \A u \in DOMAIN users : users[u].email = answer.email =>
      \E m \in mails : m.to = answer.email /\ resets[m.token].user = u
=============================================================================
