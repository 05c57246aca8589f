------------------------------ MODULE MfaSetup ------------------------------
(***************************************************************************)
(* Setting up, verifying, renewing and disabling multi-factor              *)
(* authentication: the tables UserOTP and OTPBackupCode (MfaService,       *)
(* MfaController), behind the ConcurrentRequestInterceptor that is to keep *)
(* a user's requests to one path apart.  JwtSession takes each of these    *)
(* handlers as one step and keeps only who has MFA on.                     *)
(*                                                                         *)
(* A request is cut at its calls to the cache and the database.  Any call  *)
(* may fail (Fail); the request then answers with an error and keeps what  *)
(* it has written.  The answer comes with the last call of the handler;    *)
(* the lock is removed after it, by a call that nobody waits for.          *)
(***************************************************************************)
EXTENDS Integers

CONSTANTS
  Users,      \* ids of the users who make requests
  Issuer,     \* what the environment calls TOTP_ISSUER, which the rows of UserOTP
              \* hold as the id of a user
  Requests,
  NoUser,
  MaxId       \* bound on the rows of UserOTP and the sets of codes ever made

ASSUME MfaBounds == MaxId \in Nat
ASSUME MfaNames == NoUser \notin Users

VARIABLES
  users,   \* ids in the table User
  otps,    \* rows of UserOTP
  codes,   \* rows of OTPBackupCode, eight at a time: <<set, row of UserOTP>>
  locks,   \* keys in the cache
  minted,  \* ids handed out to rows and sets: 1..minted
  told,    \* rows whose secret the user has been told
  off,     \* history: users to whom disabling has been answered last, at a time
           \* when none of their setups was under way
  stuck,   \* history: keys whose removal has failed
  req

mfaVars == <<users, otps, codes, locks, minted, told, off, stuck, req>>

-----------------------------------------------------------------------------

Ids == 1..MaxId

Everybody == Users \cup {Issuer}

\* Row i of user u; done: setupCompleted.  user_id is unique.
Otp == [id : Ids, user : Users, done : BOOLEAN]
OtpRow(i, u, done) == [id |-> i, user |-> u, done |-> done]

\* POST /auth/mfa/setup, POST /auth/mfa/verify, GET /auth/mfa/backup-codes
\* and DELETE /auth/mfa
Paths == {"setup", "verify", "codes", "disable"}

PC == {"idle", "asked", "begin", "clear", "drop", "create", "fill", "complete",
       "stamp", "enable", "wipe", "refill", "unfill", "remove", "answered"}

\* otp: the row of UserOTP it has read or made; set: the codes it has made;
\* beaten: history, another setup of the user has succeeded while this one was
\* under way.
Task(pc, path, u, otp, beaten) ==
  [pc |-> pc, path |-> path, user |-> u, otp |-> otp, beaten |-> beaten]

Idle == Task("idle", "setup", NoUser, 0, FALSE)

Continue(r, q) == req' = [req EXCEPT ![r] = q]
Step(r, pc, otp) == Continue(r, [req[r] EXCEPT !.pc = pc, !.otp = otp])
Answer(r) == Step(r, "answered", 0)

Key(q) == <<q.user, q.path>>

\* Setups of user u between the interceptor and their answer
SettingUp(u) ==
  {r \in Requests : /\ req[r].user = u /\ req[r].path = "setup"
                    /\ req[r].pc \notin {"idle", "answered"}}

-----------------------------------------------------------------------------
(* ConcurrentRequestInterceptor *)

\* Guards come before interceptors: the user is there and has a session.
\* The cache has no such key.  (A query string would make another key; what that
\* lets in, the expiry of the lock does too.)
Ask(r, u, path) ==
  /\ req[r].pc = "idle" /\ u \in users
  /\ <<u, path>> \notin locks
  /\ Continue(r, Task("asked", path, u, 0, FALSE))
  /\ off' = IF path = "setup" THEN off \ {u} ELSE off
  /\ UNCHANGED <<users, otps, codes, locks, minted, told, stuck>>

SetLock(r) ==
  /\ req[r].pc = "asked"
  /\ locks' = locks \cup {Key(req[r])}
  /\ Step(r, "begin", 0)
  /\ UNCHANGED <<users, otps, codes, minted, told, off, stuck>>

\* finalize: the key is removed, whoever has set it; or the call fails, which is
\* ignored.
Unlock(r) ==
  /\ req[r].pc = "answered"
  /\ \/ locks' = locks \ {Key(req[r])} /\ UNCHANGED stuck
     \/ stuck' = stuck \cup {Key(req[r])} /\ UNCHANGED locks
  /\ Continue(r, Idle)
  /\ UNCHANGED <<users, otps, codes, minted, told, off>>

\* The lock lives for 15 of the cache's units, however long the handler takes.
LockExpires(k) ==
  /\ locks' = locks \ {k}
  /\ stuck' = stuck \ {k}
  /\ UNCHANGED <<users, otps, codes, minted, told, off, req>>

\* Mutant of Fail: tap in place of finalize.
FailLocked(r) ==
  /\ req[r].pc \notin {"idle", "answered"}
  /\ Continue(r, Idle)
  /\ UNCHANGED <<users, otps, codes, locks, minted, told, off, stuck>>

\* An error before the handler removes no lock, one in it does.
Fail(r) ==
  /\ req[r].pc \notin {"idle", "answered"}
  /\ IF req[r].pc = "asked" THEN Continue(r, Idle) ELSE Answer(r)
  /\ UNCHANGED <<users, otps, codes, locks, minted, told, off, stuck>>

-----------------------------------------------------------------------------
(* setupTotpForUser *)

\* Mutant of SetupFind: setupCompleted is not looked at.
SetupFindAny(r) ==
  LET mine == {x \in otps : x.user = req[r].user} IN
  /\ req[r].pc = "begin" /\ req[r].path = "setup"
  /\ \/ mine = {} /\ Step(r, "create", 0)
     \/ \E x \in mine : Step(r, "clear", x.id)
  /\ UNCHANGED <<users, otps, codes, locks, minted, told, off, stuck>>

\* getUserOtpByUserId.  A completed row is left to fail the create.
SetupFind(r) ==
  LET mine == {x \in otps : x.user = req[r].user /\ ~x.done} IN
  /\ req[r].pc = "begin" /\ req[r].path = "setup"
  /\ \/ mine = {} /\ Step(r, "create", 0)
     \/ \E x \in mine : Step(r, "clear", x.id)
  /\ UNCHANGED <<users, otps, codes, locks, minted, told, off, stuck>>

SetupClear(r) ==
  /\ req[r].pc = "clear"
  /\ codes' = {c \in codes : c[2] # req[r].otp}
  /\ Step(r, "drop", req[r].otp)
  /\ UNCHANGED <<users, otps, locks, minted, told, off, stuck>>

\* deleteUserOtpById, which takes the backup codes along.
SetupDrop(r) ==
  LET i == req[r].otp IN
  /\ req[r].pc = "drop"
  /\ \E x \in otps : x.id = i /\ otps' = otps \ {x}
  /\ codes' = {c \in codes : c[2] # i}
  /\ Step(r, "create", 0)
  /\ UNCHANGED <<users, locks, minted, told, off, stuck>>

\* createUserOtp.  Both the user and the issuer have to be there: the error of the
\* foreign key is one of Fail's.
SetupCreate(r) ==
  LET u == req[r].user IN
  /\ req[r].pc = "create"
  /\ {u, Issuer} \subseteq users
  /\ \A x \in otps : x.user # u
  /\ minted < MaxId
  /\ otps' = otps \cup {OtpRow(minted + 1, u, FALSE)}
  /\ minted' = minted + 1
  /\ Step(r, "fill", minted + 1)
  /\ UNCHANGED <<users, codes, locks, told, off, stuck>>

\* createBackupCodes for row i
NewCodes(i) ==
  /\ \E x \in otps : x.id = i
  /\ minted < MaxId
  /\ codes' = codes \cup {<<minted + 1, i>>}
  /\ minted' = minted + 1

SetupFill(r) ==
  /\ req[r].pc = "fill"
  /\ NewCodes(req[r].otp)
  /\ Step(r, "complete", req[r].otp)
  /\ UNCHANGED <<users, otps, locks, told, off, stuck>>

\* setSetupCompleted of row i
Complete(i) ==
  \E x \in otps : x.id = i /\ otps' = (otps \ {x}) \cup {OtpRow(i, x.user, TRUE)}

\* The answer tells the secret.
SetupDone(r) ==
  LET q == req[r] IN
  /\ q.pc = "complete"
  /\ Complete(q.otp)
  /\ told' = told \cup {q.otp}
  /\ req' = [p \in Requests |->
               IF p = r THEN [q EXCEPT !.pc = "answered", !.otp = 0]
               ELSE [req[p] EXCEPT !.beaten = @ \/ p \in SettingUp(q.user)]]
  /\ UNCHANGED <<users, codes, locks, minted, off, stuck>>

-----------------------------------------------------------------------------
(* verifyToken *)

\* Mutant of VerifyFind: isValid returns FALSE for a wrong code and is not heeded.
VerifyFindAnyCode(r) ==
  /\ req[r].pc = "begin" /\ req[r].path = "verify"
  /\ \E x \in otps : Step(r, "stamp", x.id)
  /\ UNCHANGED <<users, otps, codes, locks, minted, told, off, stuck>>

\* The row is that of the mfaToken's user, who need not be the caller.  The code
\* is right only if that user knows the secret; a wrong one, and every backup
\* code, ends in isValid's exception.
VerifyFind(r) ==
  /\ req[r].pc = "begin" /\ req[r].path = "verify"
  /\ \E x \in otps : x.id \in told /\ Step(r, "stamp", x.id)
  /\ UNCHANGED <<users, otps, codes, locks, minted, told, off, stuck>>

\* setLastAuthenticatedAt
VerifyStamp(r) ==
  /\ req[r].pc = "stamp"
  /\ \E x \in otps : x.id = req[r].otp
  /\ Step(r, "enable", req[r].otp)
  /\ UNCHANGED <<users, otps, codes, locks, minted, told, off, stuck>>

VerifyEnable(r) ==
  /\ req[r].pc = "enable"
  /\ Complete(req[r].otp)
  /\ Answer(r)
  /\ UNCHANGED <<users, codes, locks, minted, told, off, stuck>>

-----------------------------------------------------------------------------
(* regenerateBackupCodesForUser *)

CodesFind(r) ==
  /\ req[r].pc = "begin" /\ req[r].path = "codes"
  /\ \E x \in otps : x.user = req[r].user /\ Step(r, "wipe", x.id)
  /\ UNCHANGED <<users, otps, codes, locks, minted, told, off, stuck>>

CodesWipe(r) ==
  /\ req[r].pc = "wipe"
  /\ codes' = {c \in codes : c[2] # req[r].otp}
  /\ Step(r, "refill", req[r].otp)
  /\ UNCHANGED <<users, otps, locks, minted, told, off, stuck>>

CodesRefill(r) ==
  /\ req[r].pc = "refill"
  /\ NewCodes(req[r].otp)
  /\ Answer(r)
  /\ UNCHANGED <<users, otps, locks, told, off, stuck>>

-----------------------------------------------------------------------------
(* disableMfaForUser *)

\* Disabling user u has been answered with success.
Disabled(u) == off' = IF SettingUp(u) = {} THEN off \cup {u} ELSE off

DisableFind(r) ==
  LET mine == {x \in otps : x.user = req[r].user} IN
  /\ req[r].pc = "begin" /\ req[r].path = "disable"
  /\ \/ mine = {} /\ Disabled(req[r].user) /\ Answer(r)
     \/ /\ \E x \in mine : Step(r, "unfill", x.id)
        /\ UNCHANGED off
  /\ UNCHANGED <<users, otps, codes, locks, minted, told, stuck>>

DisableClear(r) ==
  /\ req[r].pc = "unfill"
  /\ codes' = {c \in codes : c[2] # req[r].otp}
  /\ Step(r, "remove", req[r].otp)
  /\ UNCHANGED <<users, otps, locks, minted, told, off, stuck>>

\* Mutant of DisableDrop: deleteMany in place of delete, so that it is no error
\* if another request has replaced the row.
DisableDropMany(r) ==
  LET i == req[r].otp IN
  /\ req[r].pc = "remove"
  /\ otps' = {x \in otps : x.id # i}
  /\ codes' = {c \in codes : c[2] # i}
  /\ Disabled(req[r].user) /\ Answer(r)
  /\ UNCHANGED <<users, locks, minted, told, stuck>>

DisableDrop(r) ==
  LET i == req[r].otp IN
  /\ req[r].pc = "remove"
  /\ \E x \in otps : x.id = i /\ otps' = otps \ {x}
  /\ codes' = {c \in codes : c[2] # i}
  /\ Disabled(req[r].user) /\ Answer(r)
  /\ UNCHANGED <<users, locks, minted, told, stuck>>

\* Mutant of DeleteUser: no cascade from the issuer.
DeleteUserKeepsIssued(u) ==
  LET theirs == {x \in otps : x.user = u} IN
  /\ users' = users \ {u}
  /\ otps' = otps \ theirs
  /\ codes' = {c \in codes : \A x \in theirs : c[2] # x.id}
  /\ UNCHANGED <<locks, minted, told, off, stuck, req>>

\* With a user go its row and the rows that name it as their issuer: all of them.
DeleteUser(u) ==
  LET theirs == {x \in otps : u \in {x.user, Issuer}} IN
  /\ users' = users \ {u}
  /\ otps' = otps \ theirs
  /\ codes' = {c \in codes : \A x \in theirs : c[2] # x.id}
  /\ UNCHANGED <<locks, minted, told, off, stuck, req>>

-----------------------------------------------------------------------------

\* TOTP_ISSUER is the id of one more user, or of none, as it is by default.
Init ==
  /\ users \in {Users, Everybody}
  /\ otps = {} /\ codes = {} /\ locks = {} /\ minted = 0
  /\ told = {} /\ off = {} /\ stuck = {}
  /\ req = [r \in Requests |-> Idle]

Handler(r) ==
  \/ \E u \in Users, path \in Paths : Ask(r, u, path)
  \/ SetLock(r) \/ Unlock(r) \/ Fail(r)
  \/ SetupFind(r) \/ SetupClear(r) \/ SetupDrop(r) \/ SetupCreate(r)
  \/ SetupFill(r) \/ SetupDone(r)
  \/ VerifyFind(r) \/ VerifyStamp(r) \/ VerifyEnable(r)
  \/ CodesFind(r) \/ CodesWipe(r) \/ CodesRefill(r)
  \/ DisableFind(r) \/ DisableClear(r) \/ DisableDrop(r)

Next ==
  \/ \E r \in Requests : Handler(r)
  \/ \E k \in locks : LockExpires(k)
  \/ \E u \in users : DeleteUser(u)

Spec == Init /\ [][Next]_mfaVars

-----------------------------------------------------------------------------
(* Properties *)

\* The tables have their shapes and keep their keys: one row of UserOTP per
\* user, backup codes only of rows that are there.  No row is there without the
\* user that TOTP_ISSUER names, so that nobody can set up MFA if it names none.
TypeOK ==
  /\ users \subseteq Everybody
  /\ otps \subseteq Otp
  /\ \A x, y \in otps : x.user = y.user \/ x.id = y.id => x = y
  /\ \A x \in otps : {x.user, Issuer} \subseteq users
  /\ codes \subseteq Ids \X Ids
  /\ \A c \in codes : \E x \in otps : x.id = c[2]
  /\ locks \subseteq Users \X Paths
  /\ minted \in 0..MaxId
  /\ told \subseteq Ids /\ off \subseteq Users /\ stuck \subseteq Users \X Paths
  /\ req \in [Requests -> [pc : PC, path : Paths, user : Users \cup {NoUser},
                           otp : 0..MaxId, beaten : BOOLEAN]]

\* Once disabling has been answered and the user has asked for no setup since,
\* MFA is off: no verification, renewal or setup that was under way brings a row
\* back.
DisabledIsOff == \A x \in otps : x.user \notin off

\* MFA is on only for users who can pass it: completing a setup tells the secret,
\* and what interrupted setups leave behind is never completed.
EnabledWasTold == \A x \in otps : x.done => x.id \in told

\* A lock is there only while some request for its key is in flight, or if its
\* removal has failed: no way out of a handler leaves one behind, though requests
\* remove each other's.
LockHasRequest ==
  \A k \in locks : k \in stuck \/ \E r \in Requests : req[r].pc # "idle" /\ Key(req[r]) = k

\* A setup replaces a secret that is in force only if it was under way when that
\* secret's setup was answered: two setups that overlap may both succeed, the
\* first with a secret that is gone, but none begun later undoes one.
OnlyOverlapReplaces ==
  [][\A r \in Requests :
       SetupDrop(r) /\ (\E x \in otps : x.id = req[r].otp /\ x.done) => req[r].beaten]_mfaVars

=============================================================================
