----------------------------- MODULE JwtSession -----------------------------
(***************************************************************************)
(* Bearer authentication of the backend: the JWTState and Session tables,  *)
(* the signed tokens that clients hold, and the request handlers that      *)
(* issue, check, refresh and withdraw them (auth.controller, JwtAuthGuard, *)
(* JwtTokenService, JwtstateService, SessionService, MfaController, the    *)
(* jwt-state and sessions controllers, the hourly cleanup cron).           *)
(*                                                                         *)
(* A handler is cut into steps at the awaits where another request can     *)
(* change what it has read.  Any step may instead fail (Fail): a rejected  *)
(* database call, a wrong password or code, a row that is gone.  Signing   *)
(* is modelled by its result: a token is the record of its payload.        *)
(***************************************************************************)
EXTENDS Integers

CONSTANTS
  Users,        \* ids of the User table
                \* (but that of the user TOTP_ISSUER names: see MfaSetup)
  Admins,       \* the users with the admin role
  Requests,     \* request handlers that can be in flight at once
  NoUser,       \* "no user": the sub of an idle request
  NoToken,      \* "no token"
  TempLife,     \* lifetime of the token of an MFA challenge (10 minutes)
  AccessLife,   \* lifetime of an access token (1 hour)
  RefreshLife,  \* lifetime of a refresh token (30 days)
  MaxTime,      \* bound on the clock
  MaxJti,       \* bound on the JWTState rows ever created
  MaxSession,   \* bound on the Session rows ever created
  MaxEdits      \* bound on the PUT and DELETE requests to /jwt-state

ASSUME BoundsAssumption ==
  /\ TempLife \in Nat /\ AccessLife \in Nat /\ RefreshLife \in Nat
  /\ MaxTime \in Nat /\ MaxJti \in Nat
  /\ MaxSession \in Nat /\ MaxEdits \in Nat

ASSUME NamesAssumption == Admins \subseteq Users /\ NoUser \notin Users

VARIABLES
  now,       \* the clock
  users,     \* rows of User
  mfaOn,     \* users with a UserOTP row whose setup is completed
  states,    \* rows of JWTState
  sessions,  \* rows of Session
  minted,    \* ids handed out to JWTState rows: 1..minted (cuids are never reused)
  opened,    \* ids handed out to Session rows: 1..opened
  edits,     \* how many JWTState rows requests have changed or removed so far
  sent,      \* tokens that have reached a client
  dropped,   \* history: JWTState ids withdrawn by a request, not by the cron
  req        \* the request handlers in flight

vars ==
  <<now, users, mfaOn, states, sessions, minted, opened, edits, sent, dropped, req>>

-----------------------------------------------------------------------------
(* Rows, tokens and requests.  Id 0 stands for null or an absent claim.    *)

\* How a token came to be: by password login, by SNS verification (with a
\* JWTState of its own, or over one the client names), as the token of an MFA
\* challenge, by completing one, from /auth/refresh, from /jwt-state/create,
\* or as a refresh token.
Uses == {"login", "sns", "reuse", "temp", "mfa", "refreshed", "created", "refresh"}

\* The tokens whose handler also opens a session.
SessionUses == {"login", "sns", "reuse", "mfa"}

\* The tokens whose JWTState row is created together with them.
OwnStateUses == {"login", "sns", "temp", "refreshed"}

Token == [jti : 0..MaxJti, id : 0..MaxJti, sub : Users, exp : Nat, use : Uses]

JWTState == [id : 1..MaxJti, userId : Users, revoked : BOOLEAN,
             sessionId : 0..MaxSession, expiresAt : Nat]

Session == [id : 1..MaxSession, userId : Users, jti : 0..MaxJti]

PC == {"idle", "challenge", "issue", "verified", "session", "refresh",
       "guard", "auth", "mfa"}

\* sub: the user it works for; tok, ref: the tokens it has read or signed;
\* held: history, MFA has been on for sub ever since the request began.
Request == [pc : PC, sub : Users \cup {NoUser}, tok : Token \cup {NoToken},
            ref : Token \cup {NoToken}, held : BOOLEAN]

Task(pc, u, tok, ref, held) ==
  [pc |-> pc, sub |-> u, tok |-> tok, ref |-> ref, held |-> held]

Idle == Task("idle", NoUser, NoToken, NoToken, FALSE)

\* Request r goes on with the record q; it has answered.
Continue(r, q) == req' = [req EXCEPT ![r] = q]
Finish(r) == Continue(r, Idle)

Row(i, u, revoked, s, exp) ==
  [id |-> i, userId |-> u, revoked |-> revoked, sessionId |-> s, expiresAt |-> exp]

StateRow(i, u, life) == Row(i, u, FALSE, 0, now + life)

\* The payload of an access token carries jti; the one of a refresh token
\* carries its state's id in the claim "id" and has no jti.
AccessToken(j, u, use, life) ==
  [jti |-> j, id |-> 0, sub |-> u, exp |-> now + life, use |-> use]

RefreshToken(i, u) ==
  [jti |-> 0, id |-> i, sub |-> u, exp |-> now + RefreshLife, use |-> "refresh"]

HasSession(j) == \E s \in sessions : s.jti = j

\* verifyJWTToken: signature and expiry, then the JWTState, which is looked up
\* only when the payload has a jti.
VerifiesToken(t) ==
  /\ now < t.exp
  /\ t.jti # 0 => \E s \in states : s.id = t.jti /\ ~s.revoked

-----------------------------------------------------------------------------
(* generateJWTToken *)

\* Without jwtStateId: a row for the access token and one for the refresh
\* token that is always made with it.
InsertBoth(u, life) ==
  /\ u \in users
  /\ minted + 2 <= MaxJti
  /\ states' = states \cup {StateRow(minted + 1, u, life),
                            StateRow(minted + 2, u, RefreshLife)}
  /\ minted' = minted + 2

\* With jwtStateId j: the row must exist; its owner, its revocation and its
\* expiry are not looked at.
InsertRefresh(u, j) ==
  /\ u \in users
  /\ \E s \in states : s.id = j
  /\ minted + 1 <= MaxJti
  /\ states' = states \cup {StateRow(minted + 1, u, RefreshLife)}
  /\ minted' = minted + 1

\* The row of the access token is written and the insert of the other fails,
\* in any of the handlers that sign a token for u with a row of its own.
GenerateHalf(r, u) ==
  /\ \/ req[r].pc = "idle"
     \/ req[r].pc \in {"challenge", "issue", "refresh", "auth"} /\ u = req[r].sub
     \/ req[r].pc = "mfa" /\ u = req[r].sub /\ req[r].tok.jti = 0
  /\ u \in users
  /\ minted + 1 <= MaxJti
  /\ states' = states \cup
       {StateRow(minted + 1, u,
                 IF req[r].pc = "challenge" THEN TempLife ELSE AccessLife)}
  /\ minted' = minted + 1
  /\ Finish(r)
  /\ UNCHANGED <<now, users, mfaOn, sessions, opened, edits, sent, dropped>>

-----------------------------------------------------------------------------
(* Login by password and by SNS verification *)

\* POST /auth/login: the password is right; checkMfaRequired is read here.
Login(r, u) ==
  /\ req[r].pc = "idle"
  /\ u \in users
  /\ Continue(r, Task(IF u \in mfaOn THEN "challenge" ELSE "issue", u,
                      NoToken, NoToken, u \in mfaOn))
  /\ UNCHANGED <<now, users, mfaOn, states, sessions, minted, opened, edits, sent, dropped>>

\* login, after checkForMfa has let it pass: both tokens are signed.
LoginIssue(r) ==
  LET u == req[r].sub IN
  /\ req[r].pc = "issue"
  /\ InsertBoth(u, AccessLife)
  /\ Continue(r, Task("session", u, AccessToken(minted + 1, u, "login", AccessLife),
                      RefreshToken(minted + 2, u), req[r].held))
  /\ UNCHANGED <<now, users, mfaOn, sessions, opened, edits, sent, dropped>>

\* POST /auth/verify for the user of a completed provider callback:
\* verifyAndCreateToken signs before MFA is looked at.  The client may name any
\* JWTState there is (jwtStateId): whose row it is is not compared.
SnsVerify(r, u) ==
  /\ req[r].pc = "idle"
  /\ \/ /\ InsertBoth(u, AccessLife)
        /\ Continue(r, Task("verified", u, AccessToken(minted + 1, u, "sns", AccessLife),
                            RefreshToken(minted + 2, u), u \in mfaOn))
     \/ \E x \in states :
          /\ InsertRefresh(u, x.id)
          /\ Continue(r, Task("verified", u, AccessToken(x.id, u, "reuse", AccessLife),
                              RefreshToken(minted + 1, u), u \in mfaOn))
  /\ UNCHANGED <<now, users, mfaOn, sessions, opened, edits, sent, dropped>>

\* Mutant of SnsCheckMfa: verifyToken without its checkForMfa.
SnsCheckMfaSkipped(r) ==
  /\ req[r].pc = "verified"
  /\ Continue(r, Task("session", req[r].sub, req[r].tok, req[r].ref, req[r].held))
  /\ UNCHANGED <<now, users, mfaOn, states, sessions, minted, opened, edits, sent, dropped>>

\* verifyToken's checkForMfa: the tokens just signed are withheld, or kept for
\* the session.
SnsCheckMfa(r) ==
  LET q == req[r] IN
  /\ q.pc = "verified"
  /\ Continue(r, IF q.sub \in mfaOn
                 THEN Task("challenge", q.sub, NoToken, NoToken, q.held)
                 ELSE Task("session", q.sub, q.tok, q.ref, q.held))
  /\ UNCHANGED <<now, users, mfaOn, states, sessions, minted, opened, edits, sent, dropped>>

\* checkForMfa answers with a temporary token; its refresh token stays unsent.
ChallengeIssue(r) ==
  LET u == req[r].sub IN
  /\ req[r].pc = "challenge"
  /\ InsertBoth(u, TempLife)
  /\ sent' = sent \cup {AccessToken(minted + 1, u, "temp", TempLife)}
  /\ Finish(r)
  /\ UNCHANGED <<now, users, mfaOn, sessions, opened, edits, dropped>>

\* sessionService.create and the response, the last step of login, verifyToken
\* and MfaController.verify.  The foreign key refuses a user that is gone.
SessionCreate(r) ==
  LET t == req[r].tok IN
  /\ req[r].pc = "session"
  /\ t.sub \in users
  /\ opened < MaxSession
  /\ sessions' = sessions \cup {[id |-> opened + 1, userId |-> t.sub, jti |-> t.jti]}
  /\ opened' = opened + 1
  /\ sent' = sent \cup {t, req[r].ref}
  /\ Finish(r)
  /\ UNCHANGED <<now, users, mfaOn, states, minted, dropped, edits>>

-----------------------------------------------------------------------------
(* POST /auth/refresh: any token that verifies will do; no session is made. *)

Refresh(r, t) ==
  /\ req[r].pc = "idle"
  /\ VerifiesToken(t)
  /\ Continue(r, Task("refresh", t.sub, NoToken, NoToken, FALSE))
  /\ UNCHANGED <<now, users, mfaOn, states, sessions, minted, opened, edits, sent, dropped>>

\* Mutant of RefreshIssue: it opens a session for the token it signs, as login
\* does.
RefreshIssueWithSession(r) ==
  LET u == req[r].sub IN
  /\ req[r].pc = "refresh"
  /\ InsertBoth(u, AccessLife)
  /\ opened < MaxSession
  /\ sessions' = sessions \cup {[id |-> opened + 1, userId |-> u, jti |-> minted + 1]}
  /\ opened' = opened + 1
  /\ sent' = sent \cup {AccessToken(minted + 1, u, "refreshed", AccessLife)}
  /\ Finish(r)
  /\ UNCHANGED <<now, users, mfaOn, edits, dropped>>

RefreshIssue(r) ==
  LET u == req[r].sub IN
  /\ req[r].pc = "refresh"
  /\ InsertBoth(u, AccessLife)
  /\ sent' = sent \cup {AccessToken(minted + 1, u, "refreshed", AccessLife)}
  /\ Finish(r)
  /\ UNCHANGED <<now, users, mfaOn, sessions, opened, edits, dropped>>

-----------------------------------------------------------------------------
(* JwtAuthGuard.canActivate.  users.exists compares with undefined and so   *)
(* holds of every id: it guards nothing and has no counterpart here.        *)

GuardVerify(r, t) ==
  /\ req[r].pc = "idle"
  /\ VerifiesToken(t)
  /\ t.jti # 0
  /\ Continue(r, Task("guard", t.sub, t, NoToken, FALSE))
  /\ UNCHANGED <<now, users, mfaOn, states, sessions, minted, opened, edits, sent, dropped>>

GuardSession(r) ==
  /\ req[r].pc = "guard"
  /\ HasSession(req[r].tok.jti)
  /\ Continue(r, Task("auth", req[r].sub, NoToken, NoToken, FALSE))
  /\ UNCHANGED <<now, users, mfaOn, states, sessions, minted, opened, edits, sent, dropped>>

\* The @AuthUser parameter: the user is read again before the handler runs.
Authenticated(r) == req[r].pc = "auth" /\ req[r].sub \in users

-----------------------------------------------------------------------------
(* Handlers behind the guard *)

\* The request answers, and the rows in gone are withdrawn from JWTState.
Withdraw(r, gone) ==
  /\ states' = states \ gone
  /\ dropped' = dropped \cup {s.id : s \in gone}
  /\ Finish(r)

\* DELETE /sessions: the row must be the caller's; JWTState rows that refer to
\* it go with it.
SessionDelete(r, s) ==
  /\ Authenticated(r)
  /\ s.userId = req[r].sub
  /\ sessions' = sessions \ {s}
  /\ Withdraw(r, {x \in states : x.sessionId = s.id})
  /\ UNCHANGED <<now, users, mfaOn, minted, opened, edits, sent>>

\* POST /jwt-state/create: a row, a token over it and the row of the refresh
\* token that comes with it; no session.
JwtCreate(r) ==
  LET u == req[r].sub IN
  /\ Authenticated(r)
  /\ InsertBoth(u, AccessLife)
  /\ sent' = sent \cup {AccessToken(minted + 1, u, "created", AccessLife)}
  /\ Finish(r)
  /\ UNCHANGED <<now, users, mfaOn, sessions, opened, edits, dropped>>

MayEdit(u, x) == x.userId = u \/ u \in Admins

\* PUT /jwt-state/:id, one field of the DTO at a time: revoke or restore, hand
\* over, tie to a session (foreign key).
JwtUpdate(r, x) ==
  /\ Authenticated(r)
  /\ MayEdit(req[r].sub, x)
  /\ edits < MaxEdits /\ edits' = edits + 1
  /\ \E y \in {Row(x.id, x.userId, ~x.revoked, x.sessionId, x.expiresAt)}
              \cup {Row(x.id, u, x.revoked, x.sessionId, x.expiresAt) : u \in users}
              \cup {Row(x.id, x.userId, x.revoked, s.id, x.expiresAt) : s \in sessions} :
       states' = (states \ {x}) \cup {y}
  /\ Finish(r)
  /\ UNCHANGED <<now, users, mfaOn, sessions, minted, opened, sent, dropped>>

\* PUT /jwt-state/:id with an id in the body: the row moves to an id that no
\* row has.
JwtRename(r, x, i) ==
  /\ Authenticated(r)
  /\ MayEdit(req[r].sub, x)
  /\ edits < MaxEdits /\ edits' = edits + 1
  /\ \A y \in states : y.id # i
  /\ states' = (states \ {x}) \cup {Row(i, x.userId, x.revoked, x.sessionId, x.expiresAt)}
  /\ dropped' = dropped \cup {x.id}
  /\ Finish(r)
  /\ UNCHANGED <<now, users, mfaOn, sessions, minted, opened, sent>>

\* DELETE /jwt-state/:id
JwtRemove(r, x) ==
  /\ Authenticated(r)
  /\ MayEdit(req[r].sub, x)
  /\ edits < MaxEdits /\ edits' = edits + 1
  /\ Withdraw(r, {x})
  /\ UNCHANGED <<now, users, mfaOn, sessions, minted, opened, sent>>

\* POST /auth/mfa/setup: UserOTP.userId is unique.
MfaSetup(r) ==
  /\ Authenticated(r)
  /\ req[r].sub \notin mfaOn
  /\ mfaOn' = mfaOn \cup {req[r].sub}
  /\ Finish(r)
  /\ UNCHANGED <<now, users, states, sessions, minted, opened, edits, sent, dropped>>

\* Requests of u no longer run entirely under MFA.
Release(u, f) ==
  [r \in Requests |-> Task(f[r].pc, f[r].sub, f[r].tok, f[r].ref, f[r].held /\ f[r].sub # u)]

\* DELETE /auth/mfa
MfaDisable(r) ==
  /\ Authenticated(r)
  /\ mfaOn' = mfaOn \ {req[r].sub}
  /\ req' = Release(req[r].sub, [req EXCEPT ![r] = Idle])
  /\ UNCHANGED <<now, users, states, sessions, minted, opened, edits, sent, dropped>>

\* Mutant of MfaVerify: it completes the login for the caller of the endpoint,
\* not for the user of the token in the body.
MfaVerifyForCaller(r, t) ==
  /\ req[r].pc = "auth"
  /\ VerifiesToken(t)
  /\ t.sub \in mfaOn
  /\ Continue(r, Task("mfa", req[r].sub, t, NoToken, FALSE))
  /\ UNCHANGED <<now, users, mfaOn, states, sessions, minted, opened, edits, sent, dropped>>

\* POST /auth/mfa/verify: the token in the body verifies and its user's
\* one-time code is right.
MfaVerify(r, t) ==
  /\ req[r].pc = "auth"
  /\ VerifiesToken(t)
  /\ t.sub \in mfaOn
  /\ Continue(r, Task("mfa", t.sub, t, NoToken, FALSE))
  /\ UNCHANGED <<now, users, mfaOn, states, sessions, minted, opened, edits, sent, dropped>>

\* Its tokens: signed over the challenge's JWTState when the token names one.
MfaIssue(r) ==
  LET u == req[r].sub
      j == req[r].tok.jti
  IN
  /\ req[r].pc = "mfa"
  /\ \/ /\ j # 0
        /\ InsertRefresh(u, j)
        /\ Continue(r, Task("session", u, AccessToken(j, u, "mfa", AccessLife),
                            RefreshToken(minted + 1, u), FALSE))
     \/ /\ j = 0
        /\ InsertBoth(u, AccessLife)
        /\ Continue(r, Task("session", u, AccessToken(minted + 1, u, "mfa", AccessLife),
                            RefreshToken(minted + 2, u), FALSE))
  /\ UNCHANGED <<now, users, mfaOn, sessions, opened, edits, sent, dropped>>

-----------------------------------------------------------------------------
(* The rest of the system *)

\* A handler throws: the response is an error, what it wrote stays.
Fail(r) ==
  /\ req[r].pc # "idle"
  /\ Finish(r)
  /\ UNCHANGED <<now, users, mfaOn, states, sessions, minted, opened, edits, sent, dropped>>

\* Mutant of DeleteUser: the session table has no cascade.
DeleteUserKeepsSessions(u) ==
  LET gone == {x \in states : x.userId = u} IN
  /\ u \in users
  /\ users' = users \ {u}
  /\ mfaOn' = mfaOn \ {u}
  /\ states' = states \ gone
  /\ dropped' = dropped \cup {x.id : x \in gone}
  /\ req' = Release(u, req)
  /\ UNCHANGED <<now, sessions, minted, opened, edits, sent>>

\* Mutant of DeleteUser: the UserOTP table has no cascade.
DeleteUserKeepsOtp(u) ==
  LET closed == {s \in sessions : s.userId = u}
      gone   == {x \in states : x.userId = u}
  IN
  /\ u \in users
  /\ users' = users \ {u}
  /\ sessions' = sessions \ closed
  /\ states' = states \ gone
  /\ dropped' = dropped \cup {x.id : x \in gone}
  /\ req' = Release(u, req)
  /\ UNCHANGED <<now, mfaOn, minted, opened, edits, sent>>

\* AuthService.remove: every row of the user goes with it, and the JWTState
\* rows tied to its sessions.
DeleteUser(u) ==
  LET closed == {s \in sessions : s.userId = u}
      gone   == {x \in states : \/ x.userId = u
                                \/ \E s \in closed : x.sessionId = s.id}
  IN
  /\ u \in users
  /\ users' = users \ {u}
  /\ mfaOn' = mfaOn \ {u}
  /\ sessions' = sessions \ closed
  /\ states' = states \ gone
  /\ dropped' = dropped \cup {x.id : x \in gone}
  /\ req' = Release(u, req)
  /\ UNCHANGED <<now, minted, opened, edits, sent>>

\* Mutant of Cron: the comparison in the cleanup's where clause is reversed.
CronReversed ==
  /\ \E x \in states : x.expiresAt > now
  /\ states' = {x \in states : x.expiresAt <= now}
  /\ UNCHANGED <<now, users, mfaOn, sessions, minted, opened, edits, sent, dropped, req>>

\* handleCleanupExpiredJWTStates, every hour
Cron ==
  /\ \E x \in states : x.expiresAt < now
  /\ states' = {x \in states : x.expiresAt >= now}
  /\ UNCHANGED <<now, users, mfaOn, sessions, minted, opened, edits, sent, dropped, req>>

Tick ==
  /\ now < MaxTime
  /\ now' = now + 1
  /\ UNCHANGED <<users, mfaOn, states, sessions, minted, opened, edits, sent, dropped, req>>

-----------------------------------------------------------------------------

Init ==
  /\ now = 0
  /\ users = Users
  /\ mfaOn \in SUBSET Users
  /\ states = {}
  /\ sessions = {}
  /\ minted = 0
  /\ opened = 0
  /\ edits = 0
  /\ sent = {}
  /\ dropped = {}
  /\ req = [r \in Requests |-> Idle]

Handler(r) ==
  \/ \E u \in Users : Login(r, u) \/ SnsVerify(r, u) \/ GenerateHalf(r, u)
  \/ LoginIssue(r) \/ SnsCheckMfa(r) \/ ChallengeIssue(r) \/ SessionCreate(r)
  \/ \E t \in sent : Refresh(r, t) \/ GuardVerify(r, t) \/ MfaVerify(r, t)
  \/ RefreshIssue(r) \/ GuardSession(r) \/ MfaIssue(r)
  \/ \E s \in sessions : SessionDelete(r, s)
  \/ JwtCreate(r)
  \/ \E x \in states : JwtUpdate(r, x) \/ JwtRemove(r, x)
  \/ \E x \in states, i \in 1..minted : JwtRename(r, x, i)
  \/ MfaSetup(r) \/ MfaDisable(r)
  \/ Fail(r)

Next ==
  \/ \E r \in Requests : Handler(r)
  \/ \E u \in Users : DeleteUser(u)
  \/ Cron
  \/ Tick

Spec == Init /\ [][Next]_vars

-----------------------------------------------------------------------------
(* Properties *)

\* The tables, the tokens and the requests in flight have the shapes above.
TypeOK ==
  /\ now \in Nat
  /\ users \subseteq Users
  /\ mfaOn \subseteq users
  /\ states \subseteq JWTState
  /\ sessions \subseteq Session
  /\ minted \in 0..MaxJti
  /\ opened \in 0..MaxSession
  /\ edits \in 0..MaxEdits
  /\ sent \subseteq Token
  /\ dropped \subseteq 1..MaxJti
  /\ req \in [Requests -> Request]

\* An SNS verification of one of the users us has named the JWTState j and
\* has answered.
Named(j, us) == \E n \in sent : n.jti = j /\ n.use = "reuse" /\ n.sub \in us

\* The token of an MFA challenge, a refreshed access token and one from
\* /jwt-state/create come without a session, and no interleaving of handlers
\* gives them one: a session under their jti is there only once a full login
\* of the session's own user, over that same JWTState, has answered.  That is
\* an MFA verification, or an SNS verification that named the row; findByJti
\* does not ask whether that user is the token's (SessionOwnsToken does).
BareTokenRefused ==
  \A t \in sent, s \in sessions :
    t.use \in {"temp", "refreshed", "created"} /\ s.jti = t.jti
      => \E full \in sent :
           full.jti = s.jti /\ full.sub = s.userId /\ full.use \in {"mfa", "reuse"}

\* generateJWTToken does not compare the owner of the row it signs over with
\* the user it signs for, and findByJti knows only the jti.  Still the session
\* it finds is one of the token's own user, unless an SNS verification of one
\* of the two has named the row: nothing else, not the MFA verification that
\* signs over the challenge's row for the user of a token in the body, brings
\* two users under one jti.
SessionOwnsToken ==
  \A s \in sessions : \A t \in sent :
    t.jti = s.jti => t.sub = s.userId \/ Named(s.jti, {t.sub, s.userId})

\* A login that ran entirely while its user had MFA on does not get as far as
\* a session of its own, whichever order its handler signs and checks MFA in.
\* (Under which other tokens' jtis sessions come to be is BareTokenRefused.)
MfaNotBypassed ==
  \A r \in Requests :
    req[r].pc = "session" /\ req[r].tok.use \in SessionUses \ {"mfa"} => ~req[r].held

\* The hourly cleanup never cuts short a token signed with a JWTState of its
\* own: until the token expires its row is there, unless a request withdrew it.
CronSparesLiveTokens ==
  \A t \in sent :
    t.use \in OwnStateUses /\ now < t.exp /\ t.jti \notin dropped
      => \E x \in states : x.id = t.jti

\* What lets a request past the guard is a session of a user who is still
\* there: the token's own, or one whose jti that user or the token's has come
\* to share by an SNS verification that named the row.  A deleted user's token
\* has no other way in, although the guard's existence check always passes and
\* the user may go between the guard's steps.
AdmittedByLiveSession ==
  [][\A r \in Requests :
       req[r].pc = "guard" /\ req'[r].pc = "auth"
         => \E s \in sessions :
              /\ s.jti = req[r].tok.jti /\ s.userId \in users
              /\ s.userId = req[r].sub \/ Named(s.jti, {s.userId, req[r].sub})]_vars

\* What JwtTokenService says of verifyJWTToken, "check that the JWT State is
\* not revoked", asked of POST /auth/refresh: a refresh token whose JWTState
\* has been revoked starts no refresh.
RefreshHonoursRevocation ==
  [][\A r \in Requests, t \in sent :
       Refresh(r, t) => ~\E x \in states : x.id = t.id /\ x.revoked]_vars

=============================================================================
