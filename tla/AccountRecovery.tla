--------------------------- MODULE AccountRecovery ---------------------------
(***************************************************************************)
(* The codes that the account service mails out and what they change: the  *)
(* reset codes of a password and the codes that confirm a new email        *)
(* (AccountService, PasswordService, PendingEmailChangeProcessService),    *)
(* with the two ways of changing a password without a code.                *)
(*                                                                         *)
(* A request is cut at its database calls; any step may fail (Fail), and a *)
(* failed request keeps what it has written.  A code is the id of its row: *)
(* two codes are never alike, and to have one is to have been mailed it.   *)
(***************************************************************************)
EXTENDS Integers, FiniteSets

CONSTANTS
  Users,      \* ids of users, each used once
  Emails,
  Requests,
  NoUser, NoEmail,
  MaxCode     \* bound on the codes ever made

ASSUME CodeBounds == MaxCode \in Nat
ASSUME CodeNames == NoUser \notin Users /\ NoEmail \notin Emails

VARIABLES
  users,    \* rows of User
  resets,   \* rows of PasswordReset
  pending,  \* rows of PendingEMailChangeProcess
  created,  \* the ids of all users ever
  minted,   \* ids handed out to codes: 1..minted, in the order of createdAt
  asked,    \* history: every pending change ever, as <<id, user>>
  done,     \* history: codes whose use has been answered with success
  overlap,  \* history: users for whom two reset codes were made at once
  req

recoveryVars == <<users, resets, pending, created, minted, asked, done, overlap, req>>

-----------------------------------------------------------------------------

Ids == 1..MaxCode

\* by: how the password was last set: not at all, at registration, with a
\* reset code, by POST /account/set-password, or by /account/reset-password
\* with the right old password or with a wrong one.
By == {"none", "register", "code", "set", "proved", "unproved"}

User == [id : Users, email : Emails, by : By]
UserRow(u, e, by) == [id |-> u, email |-> e, by |-> by]

\* What GET /account/security/status answers: hasPassword, unlike setPassword, has
\* the hash in what it reads.
CanSetPassword(x) == x.by = "none"

\* fresh: its 30 minutes are not over.
Reset == [id : Ids, user : Users, used : BOOLEAN, fresh : BOOLEAN]
ResetRow(i, u, used, fresh) == [id |-> i, user |-> u, used |-> used, fresh |-> fresh]

Pending == [id : Ids, user : Users, email : Emails, used : BOOLEAN, fresh : BOOLEAN]
PendingRow(i, u, e, used, fresh) ==
  [id |-> i, user |-> u, email |-> e, used |-> used, fresh |-> fresh]

PC == {"idle", "forgot", "confirm", "mark", "ask", "change", "markChange", "delete"}

\* code: the id of the row it has read; early: nobody had used that code.
Task(pc, code, u, e, early) ==
  [pc |-> pc, code |-> code, user |-> u, email |-> e, early |-> early]

Idle == Task("idle", 0, NoUser, NoEmail, FALSE)

Continue(r, q) == req' = [req EXCEPT ![r] = q]
Finish(r) == Continue(r, Idle)
\* The same request, at its next step.
Step(r, pc) == Continue(r, [req[r] EXCEPT !.pc = pc])

Known(u) == \E x \in users : x.id = u
EmailTaken(e) == \E x \in users : x.email = e

\* updateUserPassword
SetBy(u, by) ==
  \E x \in users :
    x.id = u /\ users' = (users \ {x}) \cup {UserRow(u, x.email, by)}

-----------------------------------------------------------------------------
(* POST /account/forgot-password *)

\* Mutant of ForgotClear: the codes deleted are the used ones.
ForgotClearUsed(r, u) ==
  /\ req[r].pc = "idle" /\ Known(u)
  /\ resets' = {x \in resets : ~(x.user = u /\ x.used)}
  /\ overlap' = IF \E p \in Requests : req[p].pc = "forgot" /\ req[p].user = u
                THEN overlap \cup {u} ELSE overlap
  /\ Continue(r, Task("forgot", 0, u, NoEmail, FALSE))
  /\ UNCHANGED <<users, pending, created, minted, asked, done>>

\* createPasswordReset deletes the user's unused codes; the hash of the new one
\* is awaited before it is written.
ForgotClear(r, u) ==
  /\ req[r].pc = "idle" /\ Known(u)
  /\ resets' = {x \in resets : ~(x.user = u /\ ~x.used)}
  /\ overlap' = IF \E p \in Requests : req[p].pc = "forgot" /\ req[p].user = u
                THEN overlap \cup {u} ELSE overlap
  /\ Continue(r, Task("forgot", 0, u, NoEmail, FALSE))
  /\ UNCHANGED <<users, pending, created, minted, asked, done>>

ForgotCreate(r) ==
  /\ req[r].pc = "forgot"
  /\ Known(req[r].user) /\ minted < MaxCode
  /\ resets' = resets \cup {ResetRow(minted + 1, req[r].user, FALSE, TRUE)}
  /\ minted' = minted + 1
  /\ Finish(r)
  /\ UNCHANGED <<users, pending, created, asked, done, overlap>>

ResetExpires(x) ==
  /\ x.fresh
  /\ resets' = (resets \ {x}) \cup {ResetRow(x.id, x.user, x.used, FALSE)}
  /\ UNCHANGED <<users, pending, created, minted, asked, done, overlap, req>>

-----------------------------------------------------------------------------
(* POST /account/confirm-reset *)

\* findValidPasswordReset
Confirm(r, x) ==
  /\ req[r].pc = "idle"
  /\ ~x.used /\ x.fresh
  /\ Continue(r, Task("confirm", x.id, x.user, NoEmail, x.id \notin done))
  /\ UNCHANGED <<users, resets, pending, created, minted, asked, done, overlap>>

ConfirmUpdate(r) ==
  /\ req[r].pc = "confirm"
  /\ SetBy(req[r].user, "code")
  /\ Step(r, "mark")
  /\ UNCHANGED <<resets, pending, created, minted, asked, done, overlap>>

\* Mutant of ConfirmMark: the code is looked up again and left unused.
ConfirmMarkNot(r) ==
  /\ req[r].pc = "mark"
  /\ \E x \in resets : x.id = req[r].code
  /\ done' = done \cup {req[r].code}
  /\ Finish(r)
  /\ UNCHANGED <<users, resets, pending, created, minted, asked, overlap>>

\* markPasswordResetAsUsed, an error if the row is gone: the password is then
\* changed and the answer says it is not.
ConfirmMark(r) ==
  /\ req[r].pc = "mark"
  /\ \E x \in resets :
       /\ x.id = req[r].code
       /\ resets' = (resets \ {x}) \cup {ResetRow(x.id, x.user, TRUE, x.fresh)}
  /\ done' = done \cup {req[r].code}
  /\ Finish(r)
  /\ UNCHANGED <<users, pending, created, minted, asked, overlap>>

-----------------------------------------------------------------------------
(* POST /account/email/change and /account/email/change/verify *)

\* The new email may be the user's own.
EmailAsk(r, u, e) ==
  /\ req[r].pc = "idle" /\ Known(u)
  /\ \A x \in users : x.email = e => x.id = u
  /\ Continue(r, Task("ask", 0, u, e, FALSE))
  /\ UNCHANGED <<users, resets, pending, created, minted, asked, done, overlap>>

EmailPend(r) ==
  LET q == req[r] IN
  /\ q.pc = "ask"
  /\ Known(q.user) /\ minted < MaxCode
  /\ pending' = pending \cup {PendingRow(minted + 1, q.user, q.email, FALSE, TRUE)}
  /\ asked' = asked \cup {<<minted + 1, q.user>>}
  /\ minted' = minted + 1
  /\ Finish(r)
  /\ UNCHANGED <<users, resets, created, done, overlap>>

PendingExpires(x) ==
  /\ x.fresh
  /\ pending' = (pending \ {x}) \cup {PendingRow(x.id, x.user, x.email, x.used, FALSE)}
  /\ UNCHANGED <<users, resets, created, minted, asked, done, overlap, req>>

\* Mutant of Newest: any row of the user will do.
AnyOfUser(x) == x \in pending

\* findFirst by createdAt takes the latest row, even if it is used or expired.
Newest(x) == \A y \in pending : y.user = x.user => y.id <= x.id

\* findPendingByCode: the code has to be that of the user's newest row.
EmailVerify(r, x) ==
  /\ req[r].pc = "idle"
  /\ Newest(x) /\ ~x.used /\ x.fresh
  /\ Continue(r, Task("change", x.id, x.user, x.email, x.id \notin done))
  /\ UNCHANGED <<users, resets, pending, created, minted, asked, done, overlap>>

\* updateUser: the email of a row is unique.
EmailUpdate(r) ==
  LET q == req[r] IN
  /\ q.pc = "change"
  /\ \A x \in users : x.email = q.email => x.id = q.user
  /\ \E x \in users :
       x.id = q.user /\ users' = (users \ {x}) \cup {UserRow(q.user, q.email, x.by)}
  /\ Step(r, "markChange")
  /\ UNCHANGED <<resets, pending, created, minted, asked, done, overlap>>

EmailMark(r) ==
  /\ req[r].pc = "markChange"
  /\ \E x \in pending :
       /\ x.id = req[r].code
       /\ pending' = (pending \ {x}) \cup {PendingRow(x.id, x.user, x.email, TRUE, x.fresh)}
  /\ Step(r, "delete")
  /\ UNCHANGED <<users, resets, created, minted, asked, done, overlap>>

\* deletePendingById; that it fails is no error.
EmailDelete(r) ==
  /\ req[r].pc = "delete"
  /\ \/ pending' = {x \in pending : x.id # req[r].code}
     \/ UNCHANGED pending
  /\ done' = done \cup {req[r].code}
  /\ Finish(r)
  /\ UNCHANGED <<users, resets, created, minted, asked, overlap>>

-----------------------------------------------------------------------------
(* The rest of the system *)

\* POST /account/set-password and /account/reset-password read the user with
\* omit: {passwordHash: true}, so that neither sees a hash: the first never
\* finds that there is one, the second never compares the old password.
SetPassword(u) ==
  /\ SetBy(u, "set")
  /\ UNCHANGED <<resets, pending, created, minted, asked, done, overlap, req>>

ResetPassword(u, right) ==
  /\ SetBy(u, IF right THEN "proved" ELSE "unproved")
  /\ UNCHANGED <<resets, pending, created, minted, asked, done, overlap, req>>

\* POST /auth/register, or a first login through an external provider
Register(u, e, by) ==
  /\ u \notin created /\ ~EmailTaken(e)
  /\ users' = users \cup {UserRow(u, e, by)}
  /\ created' = created \cup {u}
  /\ UNCHANGED <<resets, pending, minted, asked, done, overlap, req>>

\* Mutant of DeleteUser: the foreign key of PasswordReset has no cascade.
DeleteUserKeepsResets(x) ==
  /\ users' = users \ {x}
  /\ pending' = {y \in pending : y.user # x.id}
  /\ UNCHANGED <<resets, created, minted, asked, done, overlap, req>>

DeleteUser(x) ==
  /\ users' = users \ {x}
  /\ resets' = {y \in resets : y.user # x.id}
  /\ pending' = {y \in pending : y.user # x.id}
  /\ UNCHANGED <<created, minted, asked, done, overlap, req>>

Fail(r) ==
  /\ req[r].pc # "idle"
  /\ Finish(r)
  /\ UNCHANGED <<users, resets, pending, created, minted, asked, done, overlap>>

-----------------------------------------------------------------------------

Init ==
  /\ users = {} /\ resets = {} /\ pending = {} /\ created = {}
  /\ minted = 0 /\ asked = {} /\ done = {} /\ overlap = {}
  /\ req = [r \in Requests |-> Idle]

Handler(r) ==
  \/ \E u \in Users : ForgotClear(r, u)
  \/ ForgotCreate(r)
  \/ \E x \in resets : Confirm(r, x)
  \/ ConfirmUpdate(r) \/ ConfirmMark(r)
  \/ \E u \in Users, e \in Emails : EmailAsk(r, u, e)
  \/ EmailPend(r)
  \/ \E x \in pending : EmailVerify(r, x)
  \/ EmailUpdate(r) \/ EmailMark(r) \/ EmailDelete(r)
  \/ Fail(r)

Next ==
  \/ \E r \in Requests : Handler(r)
  \/ \E x \in resets : ResetExpires(x)
  \/ \E x \in pending : PendingExpires(x)
  \/ \E u \in Users : SetPassword(u) \/ \E right \in BOOLEAN : ResetPassword(u, right)
  \/ \E u \in Users, e \in Emails, by \in {"none", "register"} : Register(u, e, by)
  \/ \E x \in users : DeleteUser(x)

Spec == Init /\ [][Next]_recoveryVars

-----------------------------------------------------------------------------
(* Properties *)

\* Every row has its shape, emails are unique although they were free only when
\* they were asked for, and the users that rows refer to exist.
TypeOK ==
  /\ users \subseteq User
  /\ \A x, y \in users : x.id = y.id \/ x.email = y.email => x = y
  /\ resets \subseteq Reset /\ pending \subseteq Pending
  /\ \A x \in resets \cup pending : Known(x.user)
  /\ created \subseteq Users
  /\ minted \in 0..MaxCode
  /\ asked \subseteq Ids \X Users
  /\ done \subseteq Ids /\ overlap \subseteq Users
  /\ req \in [Requests -> [pc : PC, code : 0..MaxCode, user : Users \cup {NoUser},
                           email : Emails \cup {NoEmail}, early : BOOLEAN]]

\* Once the use of a code has been answered with success, it gets no request in
\* any more: only one that had read its row before can still go on.
RepeatedCodeRefused ==
  \A r \in Requests : req[r].pc \in {"confirm", "change"} => req[r].early

\* A user has at most one reset code that can still be used, unless two requests
\* for one were under way at once: createPasswordReset deletes the others first,
\* and nothing but that order keeps them from being two.
OneOpenReset ==
  \A u \in Users \ overlap :
    Cardinality({x \in resets : x.user = u /\ ~x.used}) <= 1

\* A code of an email change is let in only after every later one of its user
\* has been used with success: a later request supersedes it, even one whose
\* code has expired, but does not end it.
SupersededUntilUsed ==
  [][\A r \in Requests :
       req[r].pc = "idle" /\ req'[r].pc = "change" =>
         \A a \in asked : a[2] = req'[r].user /\ a[1] > req'[r].code => a[1] \in done]_recoveryVars

\* What AccountService says of its two ways to change a password without a
\* code, "old password needed" and "only for users whose password hash is
\* null": a password that is there changes with a code or with the old one.
PasswordKept ==
  [][\A x \in users, y \in users' :
       x.id = y.id /\ x.by # y.by /\ ~CanSetPassword(x) =>
         y.by \in {"code", "proved"}]_recoveryVars

=============================================================================
