-------------------------- MODULE JwtSessionProofs --------------------------
(* Proofs about JwtSession for every set of users and requests, every      *)
(* lifetime and every bound.                                               *)
EXTENDS JwtSession, TLAPS

USE BoundsAssumption

-----------------------------------------------------------------------------
(* What a request record may become *)

\* Records of in-flight requests are built by the handlers from these parts.
LEMMA IdleIsRequest == Idle \in Request
  BY DEF Idle, Task, Request, PC

LEMMA InitTypeOK == Init => TypeOK
  BY IdleIsRequest DEF Init, TypeOK

LEMMA RowTypes ==
  ASSUME TypeOK, NEW u \in Users, NEW i \in 1..MaxJti, NEW life \in Nat
  PROVE  StateRow(i, u, life) \in JWTState
  BY DEF TypeOK, StateRow, Row, JWTState

LEMMA TokenTypes ==
  ASSUME TypeOK, NEW u \in Users, NEW i \in 0..MaxJti, NEW life \in Nat,
         NEW use \in Uses
  PROVE  /\ AccessToken(i, u, use, life) \in Token
         /\ RefreshToken(i, u) \in Token
  BY DEF TypeOK, AccessToken, RefreshToken, Token, Uses

\* The insertions of generateJWTToken keep the table and its id counter typed.
LEMMA InsertBothType ==
  ASSUME TypeOK, NEW u \in Users, NEW life \in Nat, InsertBoth(u, life)
  PROVE  /\ states' \subseteq JWTState /\ minted' \in 0..MaxJti
         /\ minted + 1 \in 0..MaxJti /\ minted + 2 \in 0..MaxJti
  <1>1. minted \in 0..MaxJti /\ minted + 2 <= MaxJti
    BY DEF TypeOK, InsertBoth
  <1>2. minted + 1 \in 1..MaxJti /\ minted + 2 \in 1..MaxJti
    BY <1>1
  <1>3. /\ StateRow(minted + 1, u, life) \in JWTState
        /\ StateRow(minted + 2, u, RefreshLife) \in JWTState
    BY <1>2, RowTypes
  <1> QED
    BY <1>1, <1>2, <1>3 DEF TypeOK, InsertBoth

LEMMA InsertRefreshType ==
  ASSUME TypeOK, NEW u \in Users, NEW j, InsertRefresh(u, j)
  PROVE  /\ states' \subseteq JWTState /\ minted' \in 0..MaxJti
         /\ minted + 1 \in 0..MaxJti
  <1>1. minted \in 0..MaxJti /\ minted + 1 <= MaxJti
    BY DEF TypeOK, InsertRefresh
  <1>2. minted + 1 \in 1..MaxJti
    BY <1>1
  <1>3. StateRow(minted + 1, u, RefreshLife) \in JWTState
    BY <1>2, RowTypes
  <1> QED
    BY <1>1, <1>2, <1>3 DEF TypeOK, InsertRefresh

-----------------------------------------------------------------------------
(* The requests in flight *)

\* What a handler may rely on in its own record q, S being the tokens that
\* clients hold: the token pair it has signed for its user, ready for the
\* session, or the token it has read from a client.
RequestOK(q, S) ==
  /\ q \in Request
  /\ q.pc # "idle" => q.sub \in Users
  /\ q.pc \in {"verified", "session"} =>
       /\ q.tok \in Token /\ q.ref \in Token
       /\ q.tok.sub = q.sub
       /\ q.tok.jti # 0 /\ q.tok.use \in SessionUses
       /\ q.ref.jti = 0 /\ q.ref.use = "refresh"
  /\ q.pc \in {"guard", "mfa"} => q.tok \in S /\ q.tok.sub = q.sub

RequestInv == \A r \in Requests : RequestOK(req[r], sent)

LEMMA IdleOK == ASSUME NEW S PROVE RequestOK(Idle, S)
  BY IdleIsRequest DEF RequestOK, Idle, Task

\* A request that holds no token.
LEMMA PlainOK ==
  ASSUME NEW S, NEW u \in Users, NEW held \in BOOLEAN,
         NEW pc \in {"challenge", "issue", "refresh", "auth"}
  PROVE  RequestOK(Task(pc, u, NoToken, NoToken, held), S)
  BY DEF RequestOK, Task, Request, PC

\* A request that has read the token t of a client.
LEMMA ReaderOK ==
  ASSUME TypeOK, NEW t \in sent, NEW pc \in {"guard", "mfa"}
  PROVE  RequestOK(Task(pc, t.sub, t, NoToken, FALSE), sent)
  <1>1. t \in Token /\ t.sub \in Users
    BY DEF TypeOK, Token
  <1> QED
    BY <1>1 DEF RequestOK, Task, Request, PC

\* A request that has signed a pair of tokens for u.
LEMMA SignerOK ==
  ASSUME TypeOK, NEW S, NEW u \in Users, NEW held \in BOOLEAN,
         NEW pc \in {"verified", "session"}, NEW use \in SessionUses,
         NEW j \in 1..MaxJti, NEW i \in 0..MaxJti
  PROVE  RequestOK(Task(pc, u, AccessToken(j, u, use, AccessLife),
                        RefreshToken(i, u), held), S)
  <1>1. /\ AccessToken(j, u, use, AccessLife) \in Token
        /\ RefreshToken(i, u) \in Token
    BY TokenTypes DEF Uses, SessionUses
  <1> QED
    BY <1>1 DEF RequestOK, Task, Request, PC, AccessToken, RefreshToken

\* A step that replaces the record of one request by a good one and takes no
\* token away from the clients keeps all the others good.
LEMMA OneRequest ==
  ASSUME TypeOK, RequestInv, sent \subseteq sent',
         NEW r \in Requests, NEW q, RequestOK(q, sent'), Continue(r, q)
  PROVE  req' \in [Requests -> Request] /\ RequestInv'
  <1>1. q \in Request
    BY DEF RequestOK
  <1>2. req' \in [Requests -> Request]
    BY <1>1 DEF TypeOK, Continue
  <1>3. ASSUME NEW p \in Requests PROVE RequestOK(req[p], sent')
    BY DEF RequestInv, RequestOK
  <1>4. ASSUME NEW p \in Requests PROVE RequestOK(req'[p], sent')
    BY <1>3 DEF TypeOK, Continue
  <1> QED
    BY <1>2, <1>4 DEF RequestInv

LEMMA FinishOK ==
  ASSUME TypeOK, RequestInv, sent \subseteq sent', NEW r \in Requests, Finish(r)
  PROVE  req' \in [Requests -> Request] /\ RequestInv'
  BY IdleOK, OneRequest DEF Finish

\* MFA of a user is switched off for the history of the requests.
LEMMA ReleaseOK ==
  ASSUME NEW u, NEW f \in [Requests -> Request], NEW S,
         \A r \in Requests : RequestOK(f[r], S)
  PROVE  /\ Release(u, f) \in [Requests -> Request]
         /\ \A r \in Requests : RequestOK(Release(u, f)[r], S)
  <1>1. ASSUME NEW r \in Requests
        PROVE  RequestOK(Task(f[r].pc, f[r].sub, f[r].tok, f[r].ref,
                              f[r].held /\ f[r].sub # u), S)
    <2> DEFINE q == f[r]
               h == q.held /\ q.sub # u
    <2>1. RequestOK(q, S)
      OBVIOUS
    <2>2. h \in BOOLEAN
      OBVIOUS
    <2> HIDE DEF q, h
    <2>3. RequestOK(Task(q.pc, q.sub, q.tok, q.ref, h), S)
      BY <2>1, <2>2 DEF RequestOK, Request, Task
    <2> QED
      BY <2>3 DEF q, h
  <1> QED
    BY <1>1 DEF Release, RequestOK

-----------------------------------------------------------------------------
(* Type correctness *)

TypeInv == TypeOK /\ RequestInv

\* No step leads outside the types: in particular no handler leaves a record
\* that the next step of its request could not read.
LEMMA StepTypeInv == TypeInv /\ [Next]_vars => TypeInv'
<1> SUFFICES ASSUME TypeOK, RequestInv, [Next]_vars PROVE TypeOK' /\ RequestInv'
  BY DEF TypeInv
<1>0. now \in Nat /\ minted \in 0..MaxJti /\ req \in [Requests -> Request]
  BY DEF TypeOK
<1>s. ASSUME NEW r \in Requests, req[r].pc # "idle" PROVE req[r].sub \in Users
  BY <1>s DEF RequestInv, RequestOK
<1>1. ASSUME NEW r \in Requests, NEW u \in Users, Login(r, u)
      PROVE  TypeOK' /\ RequestInv'
  <2> DEFINE h == u \in mfaOn
             pc == IF h THEN "challenge" ELSE "issue"
             q == Task(pc, u, NoToken, NoToken, h)
  <2>1. h \in BOOLEAN /\ pc \in {"challenge", "issue"}
    OBVIOUS
  <2>2. Continue(r, q) /\ sent' = sent
    BY <1>1 DEF Login
  <2> HIDE DEF h, pc
  <2>3. RequestOK(q, sent')
    BY <2>1, PlainOK
  <2>4. req' \in [Requests -> Request] /\ RequestInv'
    <3> HIDE DEF q
    <3> QED BY <2>2, <2>3, OneRequest
  <2> QED
    BY <1>1, <2>4 DEF Login, TypeOK
<1>2. ASSUME NEW r \in Requests, NEW u \in Users, SnsVerify(r, u)
      PROVE  TypeOK' /\ RequestInv'
  <2> DEFINE h == u \in mfaOn
             own == Task("verified", u, AccessToken(minted + 1, u, "sns", AccessLife),
                         RefreshToken(minted + 2, u), h)
             over(x) == Task("verified", u, AccessToken(x.id, u, "reuse", AccessLife),
                             RefreshToken(minted + 1, u), h)
  <2>1. \/ InsertBoth(u, AccessLife) /\ Continue(r, own)
        \/ \E x \in states : InsertRefresh(u, x.id) /\ Continue(r, over(x))
    BY <1>2 DEF SnsVerify
  <2>2. h \in BOOLEAN
    OBVIOUS
  <2> HIDE DEF h
  <2>3. ASSUME InsertBoth(u, AccessLife), Continue(r, own)
        PROVE  TypeOK' /\ RequestInv'
    <3>1. /\ states' \subseteq JWTState /\ minted' \in 0..MaxJti
          /\ minted + 1 \in 1..MaxJti /\ minted + 2 \in 0..MaxJti
      BY <1>0, <2>3, InsertBothType
    <3>2. RequestOK(own, sent')
      BY <2>2, <3>1, SignerOK DEF SessionUses
    <3> HIDE DEF own
    <3> QED
      BY <1>2, <2>3, <3>1, <3>2, OneRequest DEF SnsVerify, TypeOK
  <2>4. ASSUME NEW x \in states, InsertRefresh(u, x.id), Continue(r, over(x))
        PROVE  TypeOK' /\ RequestInv'
    <3>1. /\ states' \subseteq JWTState /\ minted' \in 0..MaxJti
          /\ minted + 1 \in 0..MaxJti /\ x.id \in 1..MaxJti
      BY <2>4, InsertRefreshType DEF TypeOK, JWTState
    <3>2. RequestOK(over(x), sent')
      BY <2>2, <3>1, SignerOK DEF SessionUses
    <3> HIDE DEF over
    <3> QED
      BY <1>2, <2>4, <3>1, <3>2, OneRequest DEF SnsVerify, TypeOK
  <2> HIDE DEF own, over
  <2> QED
    BY <2>1, <2>3, <2>4
<1>3. ASSUME NEW r \in Requests, NEW u \in Users, GenerateHalf(r, u)
      PROVE  TypeOK' /\ RequestInv'
  <2>1. minted + 1 \in 1..MaxJti /\ minted' = minted + 1
    BY <1>0, <1>3 DEF GenerateHalf
  <2>2. StateRow(minted + 1, u, IF req[r].pc = "challenge" THEN TempLife ELSE AccessLife)
          \in JWTState
    BY <2>1, RowTypes
  <2> QED
    BY <1>3, <2>1, <2>2, FinishOK DEF GenerateHalf, TypeOK
<1>4. ASSUME NEW r \in Requests, LoginIssue(r)
      PROVE  TypeOK' /\ RequestInv'
  <2>1. /\ req[r].sub \in Users /\ req[r].held \in BOOLEAN
        /\ InsertBoth(req[r].sub, AccessLife)
    BY <1>0, <1>s, <1>4 DEF LoginIssue, Request
  <2>2. /\ states' \subseteq JWTState /\ minted' \in 0..MaxJti
        /\ minted + 1 \in 1..MaxJti /\ minted + 2 \in 0..MaxJti
    BY <1>0, <2>1, InsertBothType
  <2>3. RequestOK(Task("session", req[r].sub,
                       AccessToken(minted + 1, req[r].sub, "login", AccessLife),
                       RefreshToken(minted + 2, req[r].sub), req[r].held), sent')
    BY <2>1, <2>2, SignerOK DEF SessionUses
  <2> QED
    BY <1>4, <2>2, <2>3, OneRequest DEF LoginIssue, TypeOK
<1>5. ASSUME NEW r \in Requests, SnsCheckMfa(r)
      PROVE  TypeOK' /\ RequestInv'
  <2> DEFINE q == req[r]
             n == IF q.sub \in mfaOn
                  THEN Task("challenge", q.sub, NoToken, NoToken, q.held)
                  ELSE Task("session", q.sub, q.tok, q.ref, q.held)
  <2>1. q.pc = "verified" /\ RequestOK(q, sent) /\ q.held \in BOOLEAN /\ q.sub \in Users
    BY <1>0, <1>s, <1>5 DEF SnsCheckMfa, RequestInv, Request
  <2>2. RequestOK(Task("challenge", q.sub, NoToken, NoToken, q.held), sent)
    BY <2>1, PlainOK
  <2>3. RequestOK(Task("session", q.sub, q.tok, q.ref, q.held), sent)
    <3> HIDE DEF q
    <3> QED BY <2>1 DEF RequestOK, Task, Request, PC
  <2>4. sent' = sent /\ Continue(r, n)
    BY <1>5 DEF SnsCheckMfa
  <2>5. RequestOK(n, sent')
    BY <2>2, <2>3, <2>4
  <2> QED
    BY <1>5, <2>4, <2>5, OneRequest DEF SnsCheckMfa, TypeOK
<1>6. ASSUME NEW r \in Requests, ChallengeIssue(r)
      PROVE  TypeOK' /\ RequestInv'
  <2>1. req[r].sub \in Users /\ InsertBoth(req[r].sub, TempLife)
    BY <1>s, <1>6 DEF ChallengeIssue
  <2>2. /\ states' \subseteq JWTState /\ minted' \in 0..MaxJti
        /\ AccessToken(minted + 1, req[r].sub, "temp", TempLife) \in Token
    BY <2>1, InsertBothType, TokenTypes DEF Uses
  <2> QED
    BY <1>6, <2>2, FinishOK DEF ChallengeIssue, TypeOK
<1>7. ASSUME NEW r \in Requests, SessionCreate(r)
      PROVE  TypeOK' /\ RequestInv'
  <2>1. req[r].tok \in Token /\ req[r].ref \in Token
    BY <1>7 DEF SessionCreate, RequestInv, RequestOK
  <2>2. /\ opened + 1 \in 1..MaxSession
        /\ [id |-> opened + 1, userId |-> req[r].tok.sub, jti |-> req[r].tok.jti] \in Session
    BY <1>7, <2>1 DEF SessionCreate, TypeOK, Session, Token
  <2> QED
    BY <1>7, <2>1, <2>2, FinishOK DEF SessionCreate, TypeOK
<1>8. ASSUME NEW r \in Requests, NEW t \in sent, Refresh(r, t)
      PROVE  TypeOK' /\ RequestInv'
  <2>1. RequestOK(Task("refresh", t.sub, NoToken, NoToken, FALSE), sent')
    BY PlainOK DEF TypeOK, Token
  <2> QED
    BY <1>8, <2>1, OneRequest DEF Refresh, TypeOK
<1>9. ASSUME NEW r \in Requests, RefreshIssue(r)
      PROVE  TypeOK' /\ RequestInv'
  <2>1. req[r].sub \in Users /\ InsertBoth(req[r].sub, AccessLife)
    BY <1>s, <1>9 DEF RefreshIssue
  <2>2. /\ states' \subseteq JWTState /\ minted' \in 0..MaxJti
        /\ AccessToken(minted + 1, req[r].sub, "refreshed", AccessLife) \in Token
    BY <2>1, InsertBothType, TokenTypes DEF Uses
  <2> QED
    BY <1>9, <2>2, FinishOK DEF RefreshIssue, TypeOK
<1>10. ASSUME NEW r \in Requests, NEW t \in sent, GuardVerify(r, t)
       PROVE  TypeOK' /\ RequestInv'
  BY <1>10, ReaderOK, OneRequest DEF GuardVerify, TypeOK
<1>11. ASSUME NEW r \in Requests, GuardSession(r)
       PROVE  TypeOK' /\ RequestInv'
  BY <1>s, <1>11, PlainOK, OneRequest DEF GuardSession, TypeOK
<1>12. ASSUME NEW r \in Requests, NEW s \in sessions, SessionDelete(r, s)
       PROVE  TypeOK' /\ RequestInv'
  BY <1>12, FinishOK DEF SessionDelete, Withdraw, TypeOK, JWTState
<1>13. ASSUME NEW r \in Requests, JwtCreate(r)
       PROVE  TypeOK' /\ RequestInv'
  <2>1. req[r].sub \in Users /\ InsertBoth(req[r].sub, AccessLife)
    BY <1>s, <1>13 DEF JwtCreate, Authenticated
  <2>2. /\ states' \subseteq JWTState /\ minted' \in 0..MaxJti
        /\ AccessToken(minted + 1, req[r].sub, "created", AccessLife) \in Token
    BY <2>1, InsertBothType, TokenTypes DEF Uses
  <2> QED
    BY <1>13, <2>2, FinishOK DEF JwtCreate, TypeOK
<1>14. ASSUME NEW r \in Requests, NEW x \in states, JwtUpdate(r, x)
       PROVE  TypeOK' /\ RequestInv'
  <2>1. edits' \in 0..MaxEdits
    BY <1>14 DEF JwtUpdate, TypeOK
  <2>2. x \in JWTState
    BY DEF TypeOK
  <2>3. /\ Row(x.id, x.userId, ~x.revoked, x.sessionId, x.expiresAt) \in JWTState
        /\ \A u \in users : Row(x.id, u, x.revoked, x.sessionId, x.expiresAt) \in JWTState
        /\ \A s \in sessions :
             Row(x.id, x.userId, x.revoked, s.id, x.expiresAt) \in JWTState
    BY <2>2 DEF TypeOK, JWTState, Row, Session
  <2>4. states' \subseteq JWTState
    BY <1>14, <2>3 DEF JwtUpdate, TypeOK
  <2> QED
    BY <1>14, <2>1, <2>4, FinishOK DEF JwtUpdate, TypeOK
<1>15. ASSUME NEW r \in Requests, NEW x \in states, NEW i \in 1..minted,
              JwtRename(r, x, i)
       PROVE  TypeOK' /\ RequestInv'
  <2>1. edits' \in 0..MaxEdits
    BY <1>15 DEF JwtRename, TypeOK
  <2>2. x \in JWTState /\ i \in 1..MaxJti
    BY <1>0 DEF TypeOK
  <2>3. /\ Row(i, x.userId, x.revoked, x.sessionId, x.expiresAt) \in JWTState
        /\ x.id \in 1..MaxJti
    BY <2>2 DEF JWTState, Row
  <2> QED
    BY <1>15, <2>1, <2>3, FinishOK DEF JwtRename, TypeOK
<1>16. ASSUME NEW r \in Requests, NEW x \in states, JwtRemove(r, x)
       PROVE  TypeOK' /\ RequestInv'
  <2>1. edits' \in 0..MaxEdits
    BY <1>16 DEF JwtRemove, TypeOK
  <2> QED
    BY <1>16, <2>1, FinishOK DEF JwtRemove, Withdraw, TypeOK, JWTState
<1>17. ASSUME NEW r \in Requests, MfaSetup(r)
       PROVE  TypeOK' /\ RequestInv'
  BY <1>17, FinishOK DEF MfaSetup, Authenticated, TypeOK
<1>18. ASSUME NEW r \in Requests, MfaDisable(r)
       PROVE  TypeOK' /\ RequestInv'
  <2> DEFINE f == [req EXCEPT ![r] = Idle]
  <2>1. f \in [Requests -> Request] /\ \A p \in Requests : RequestOK(f[p], sent)
    BY <1>0, IdleIsRequest, IdleOK DEF RequestInv
  <2>2. /\ Release(req[r].sub, f) \in [Requests -> Request]
        /\ \A p \in Requests : RequestOK(Release(req[r].sub, f)[p], sent)
    BY <2>1, ReleaseOK
  <2> QED
    BY <1>18, <2>2 DEF MfaDisable, TypeOK, RequestInv
<1>19. ASSUME NEW r \in Requests, NEW t \in sent, MfaVerify(r, t)
       PROVE  TypeOK' /\ RequestInv'
  BY <1>19, ReaderOK, OneRequest DEF MfaVerify, TypeOK
<1>20. ASSUME NEW r \in Requests, MfaIssue(r)
       PROVE  TypeOK' /\ RequestInv'
  <2>1. req[r].sub \in Users /\ req[r].tok \in Token
    BY <1>s, <1>20 DEF MfaIssue, RequestInv, RequestOK, TypeOK
  <2>2. CASE /\ req[r].tok.jti # 0
             /\ InsertRefresh(req[r].sub, req[r].tok.jti)
             /\ Continue(r, Task("session", req[r].sub,
                  AccessToken(req[r].tok.jti, req[r].sub, "mfa", AccessLife),
                  RefreshToken(minted + 1, req[r].sub), FALSE))
    <3>1. /\ states' \subseteq JWTState /\ minted' \in 0..MaxJti
          /\ minted + 1 \in 0..MaxJti /\ req[r].tok.jti \in 1..MaxJti
      BY <2>1, <2>2, InsertRefreshType DEF Token
    <3>2. RequestOK(Task("session", req[r].sub,
                         AccessToken(req[r].tok.jti, req[r].sub, "mfa", AccessLife),
                         RefreshToken(minted + 1, req[r].sub), FALSE), sent')
      BY <2>1, <3>1, SignerOK DEF SessionUses
    <3> QED
      BY <1>20, <2>2, <3>1, <3>2, OneRequest DEF MfaIssue, TypeOK
  <2>3. CASE /\ InsertBoth(req[r].sub, AccessLife)
             /\ Continue(r, Task("session", req[r].sub,
                  AccessToken(minted + 1, req[r].sub, "mfa", AccessLife),
                  RefreshToken(minted + 2, req[r].sub), FALSE))
    <3>1. /\ states' \subseteq JWTState /\ minted' \in 0..MaxJti
          /\ minted + 1 \in 1..MaxJti /\ minted + 2 \in 0..MaxJti
      BY <1>0, <2>1, <2>3, InsertBothType
    <3>2. RequestOK(Task("session", req[r].sub,
                         AccessToken(minted + 1, req[r].sub, "mfa", AccessLife),
                         RefreshToken(minted + 2, req[r].sub), FALSE), sent')
      BY <2>1, <3>1, SignerOK DEF SessionUses
    <3> QED
      BY <1>20, <2>3, <3>1, <3>2, OneRequest DEF MfaIssue, TypeOK
  <2> QED
    BY <1>20, <2>2, <2>3 DEF MfaIssue
<1>21. ASSUME NEW r \in Requests, Fail(r)
       PROVE  TypeOK' /\ RequestInv'
  BY <1>21, FinishOK DEF Fail, TypeOK
<1>22. ASSUME NEW u \in Users, DeleteUser(u)
       PROVE  TypeOK' /\ RequestInv'
  <2>1. /\ Release(u, req) \in [Requests -> Request]
        /\ \A p \in Requests : RequestOK(Release(u, req)[p], sent)
    BY <1>0, ReleaseOK DEF RequestInv
  <2>2. dropped' \subseteq 1..MaxJti
    BY <1>22 DEF DeleteUser, TypeOK, JWTState
  <2> QED
    BY <1>22, <2>1, <2>2 DEF DeleteUser, TypeOK, RequestInv
<1>23. ASSUME Cron PROVE TypeOK' /\ RequestInv'
  BY <1>23 DEF Cron, TypeOK, RequestInv
<1>24. ASSUME Tick PROVE TypeOK' /\ RequestInv'
  BY <1>24 DEF Tick, TypeOK, RequestInv
<1>25. ASSUME UNCHANGED vars PROVE TypeOK' /\ RequestInv'
  BY <1>25 DEF vars, TypeOK, RequestInv
<1>26. ASSUME NEW r \in Requests, Handler(r) PROVE TypeOK' /\ RequestInv'
  BY <1>26, <1>1, <1>2, <1>3, <1>4, <1>5, <1>6, <1>7, <1>8, <1>9, <1>10, <1>11,
     <1>12, <1>13, <1>14, <1>15, <1>16, <1>17, <1>18, <1>19, <1>20, <1>21
     DEF Handler
<1> QED
  BY <1>22, <1>23, <1>24, <1>25, <1>26 DEF Next

THEOREM SpecTypeInv == Spec => []TypeInv
  <1>1. Init => TypeInv
    <2> SUFFICES ASSUME Init PROVE RequestInv
      BY InitTypeOK DEF TypeInv
    <2> QED
      BY IdleOK DEF Init, RequestInv
  <1> QED
    BY <1>1, StepTypeInv, PTL DEF Spec

\* Type correctness: no handler of auth.controller, MfaController or the
\* jwt-state and sessions controllers writes a row or keeps a record outside
\* the shapes of the schema.
THEOREM TypeCorrect == Spec => []TypeOK
  BY SpecTypeInv, PTL DEF TypeInv

-----------------------------------------------------------------------------
(* The inductive invariant                                                 *)
(*                                                                         *)
(* A property of the tokens that clients hold is not inductive: the token  *)
(* a handler has signed and not yet sent is about to become one of them.   *)
(* The invariant speaks of both.                                           *)

\* The access tokens signed so far: those that clients hold and those that a
\* handler is about to hand out with a session.
Signed ==
  sent \cup {req[r].tok : r \in {p \in Requests : req[p].pc \in {"verified", "session"}}}

\* The uses of a token under whose jti nothing was signed before.
FirstUses == {"login", "sns", "temp", "refreshed", "created"}

\* No row has an id that is still to be handed out: the jti a client names is
\* not the one that generateJWTToken mints next.
StatesInv == \A x \in states : x.id <= minted

\* Two tokens under one jti speak for one user, unless one of the two was
\* signed over a row that the client named, or such a token of one of the two
\* users has been sent.
Together(t1, t2) ==
  \/ t1.sub = t2.sub
  \/ "reuse" \in {t1.use, t2.use}
  \/ Named(t1.jti, {t1.sub, t2.sub})

\* A refresh token is the only one with no jti, a jti has been minted, at most
\* one token was the first to be signed under it, and two users meet under it
\* only through a token over a named row.
TokenInv ==
  /\ \A t \in Signed : t.jti <= minted /\ (t.jti = 0 => t.use = "refresh")
  /\ \A t1, t2 \in Signed :
       t1.jti # 0 /\ t1.jti = t2.jti =>
         /\ Together(t1, t2)
         /\ {t1.use, t2.use} \subseteq FirstUses => t1.use = t2.use

\* Every session was opened for a full login that the client has received,
\* and its user exists.
SessionInv ==
  \A s \in sessions :
    /\ s.userId \in users /\ s.jti # 0
    /\ \E t \in sent : t.jti = s.jti /\ t.sub = s.userId /\ t.use \in SessionUses

\* The JWTState row signed together with t outlives t unless a request
\* withdraws it.
RowOutlives(t) ==
  t.use \in OwnStateUses /\ now < t.exp /\ t.jti \notin dropped
    => \E x \in states : x.id = t.jti /\ x.expiresAt >= t.exp

RowInv == \A t \in Signed : RowOutlives(t)

\* A request that has been under MFA all along is not on the way to a session.
HeldOK(q) ==
  q.held => /\ q.sub \in mfaOn
            /\ q.pc # "issue"
            /\ q.pc = "session" => q.tok.use = "mfa"

HeldInv == \A r \in Requests : HeldOK(req[r])

IInv == TypeInv /\ StatesInv /\ TokenInv /\ SessionInv /\ RowInv /\ HeldInv

-----------------------------------------------------------------------------
(* What a step signs *)

\* Nothing but refresh tokens is new among the tokens.
SignsNothing ==
  \A t \in Signed' : t \in Signed \/ (t.jti = 0 /\ t.use = "refresh")

\* Besides refresh tokens only a is new: the first token under a fresh jti, a
\* token over a row that a client has named, or one that completes MFA under
\* the jti of a token which its user has sent.
Signs(a) ==
  /\ \A t \in Signed' : t \in Signed \/ t = a \/ (t.jti = 0 /\ t.use = "refresh")
  /\ \/ /\ a.jti = minted + 1 /\ a.jti <= minted'
        /\ RowOutlives(a)'
     \/ a.use = "reuse" /\ a.jti # 0 /\ \E x \in states : x.id = a.jti
     \/ /\ a.use = "mfa" /\ a.jti # 0
        /\ \E t \in sent : t.jti = a.jti /\ t.sub = a.sub

Signing == {"verified", "session"}

\* Where the tokens of the next state come from when one request moves on.
LEMMA SignedAfter ==
  ASSUME TypeOK, NEW r \in Requests, NEW q, Continue(r, q), NEW t \in Signed'
  PROVE  t \in sent' \/ t \in Signed \/ (q.pc \in Signing /\ t = q.tok)
  BY DEF TypeOK, Continue, Signed, Signing

LEMMA SignedAfterPlain ==
  ASSUME TypeOK, NEW r \in Requests, NEW pc, NEW u, NEW tok, NEW ref, NEW held,
         pc \notin Signing, Continue(r, Task(pc, u, tok, ref, held)),
         NEW t \in Signed'
  PROVE  t \in sent' \/ t \in Signed
  BY SignedAfter DEF Task

LEMMA SignedAfterFinish ==
  ASSUME TypeOK, NEW r \in Requests, Finish(r), NEW t \in Signed'
  PROVE  t \in sent' \/ t \in Signed
  <1>1. Continue(r, Task("idle", NoUser, NoToken, NoToken, FALSE))
    BY DEF Finish, Idle
  <1>2. "idle" \notin Signing
    BY DEF Signing
  <1> QED
    BY <1>1, <1>2, SignedAfterPlain

LEMMA SignedAfterRelease ==
  ASSUME NEW u, NEW f, req' = Release(u, f), NEW t \in Signed',
         \A r \in Requests : f[r].pc \in Signing => f[r] = req[r]
  PROVE  t \in sent' \/ t \in Signed
  BY DEF Release, Task, Signed, Signing

\* The row that comes with a fresh access token a.
LEMMA FreshRow ==
  ASSUME TypeOK, NEW u \in Users, NEW life \in Nat, NEW use,
         InsertBoth(u, life), now' = now,
         NEW a, a = AccessToken(minted + 1, u, use, life)
  PROVE  a.jti = minted + 1 /\ a.jti <= minted' /\ RowOutlives(a)'
  <1>1. /\ StateRow(minted + 1, u, life) \in states'
        /\ minted + 1 <= minted'
    BY DEF InsertBoth, TypeOK
  <1>2. /\ StateRow(minted + 1, u, life).id = minted + 1
        /\ StateRow(minted + 1, u, life).expiresAt = now + life
    BY DEF StateRow, Row
  <1>3. a.jti = minted + 1 /\ a.exp = now + life
    BY DEF AccessToken
  <1>4. \E x \in states' : x.id = a.jti /\ x.expiresAt >= a.exp
    <2>1. now + life \in Nat
      BY DEF TypeOK
    <2> QED
      BY <1>1, <1>2, <1>3, <2>1
  <1> QED
    BY <1>1, <1>3, <1>4 DEF RowOutlives

\* Every step signs nothing or one access token.
LEMMA StepSigns ==
  ASSUME TypeInv, [Next]_vars
  PROVE  SignsNothing \/ \E a : Signs(a)
<1>0. TypeOK /\ RequestInv
  BY DEF TypeInv
<1>s. ASSUME NEW r \in Requests, req[r].pc # "idle" PROVE req[r].sub \in Users
  BY <1>0, <1>s DEF RequestInv, RequestOK
<1>n. ASSUME NEW r \in Requests, Finish(r), sent' = sent PROVE SignsNothing
  BY <1>0, <1>n, SignedAfterFinish DEF SignsNothing, Signed
\* A request that has the user, or reads a token, and goes on with neither signed.
<1>p. ASSUME NEW r \in Requests, NEW pc, NEW u, NEW tok, NEW ref, NEW held,
             pc \notin Signing, Continue(r, Task(pc, u, tok, ref, held)),
             sent' = sent
      PROVE  SignsNothing
  BY <1>0, <1>p, SignedAfterPlain DEF SignsNothing, Signed
\* A fresh pair signed for u, the access token sent at once.
<1>f. ASSUME NEW r \in Requests, NEW u \in Users, NEW life \in Nat, NEW use,
             InsertBoth(u, life), now' = now, Finish(r),
             sent' = sent \cup {AccessToken(minted + 1, u, use, life)}
      PROVE  \E a : Signs(a)
  <2>1. PICK a : a = AccessToken(minted + 1, u, use, life)
    OBVIOUS
  <2>2. a.jti = minted + 1 /\ a.jti <= minted' /\ RowOutlives(a)'
    BY <1>0, <1>f, <2>1, FreshRow
  <2>3. \A t \in Signed' : t \in Signed \/ t = a
    BY <1>0, <1>f, <2>1, SignedAfterFinish DEF Signed
  <2> QED
    BY <2>2, <2>3 DEF Signs
\* A fresh pair signed for u and kept for the session.
<1>k. ASSUME NEW r \in Requests, NEW u \in Users, NEW use, NEW pc, NEW ref, NEW held,
             InsertBoth(u, AccessLife), now' = now, sent' = sent,
             Continue(r, Task(pc, u, AccessToken(minted + 1, u, use, AccessLife),
                              ref, held))
      PROVE  \E a : Signs(a)
  <2>1. PICK a : a = AccessToken(minted + 1, u, use, AccessLife)
    OBVIOUS
  <2>2. a.jti = minted + 1 /\ a.jti <= minted' /\ RowOutlives(a)'
    BY <1>0, <1>k, <2>1, FreshRow
  <2>3. Continue(r, Task(pc, u, a, ref, held)) /\ Task(pc, u, a, ref, held).tok = a
    BY <1>k, <2>1 DEF Task
  <2>4. \A t \in Signed' : t \in Signed \/ t = a
    BY <1>0, <1>k, <2>3, SignedAfter DEF Signed
  <2> QED
    BY <2>2, <2>4 DEF Signs
\* A token signed over a jti that is not fresh, kept for the session.
<1>o. ASSUME NEW r \in Requests, NEW u, NEW j, NEW use, NEW pc, NEW ref, NEW held,
             j # 0, sent' = sent,
             Continue(r, Task(pc, u, AccessToken(j, u, use, AccessLife), ref, held)),
             \/ use = "reuse" /\ \E x \in states : x.id = j
             \/ use = "mfa" /\ \E t \in sent : t.jti = j /\ t.sub = u
      PROVE  \E a : Signs(a)
  <2>1. PICK a : a = AccessToken(j, u, use, AccessLife)
    OBVIOUS
  <2>2. a.jti = j /\ a.sub = u /\ a.use = use
    BY <2>1 DEF AccessToken
  <2>3. Continue(r, Task(pc, u, a, ref, held)) /\ Task(pc, u, a, ref, held).tok = a
    BY <1>o, <2>1 DEF Task
  <2>4. \A x \in Signed' : x \in Signed \/ x = a
    BY <1>0, <1>o, <2>3, SignedAfter DEF Signed
  <2> QED
    BY <1>o, <2>2, <2>4 DEF Signs
<1>1. ASSUME NEW r \in Requests, NEW u \in Users, Login(r, u) PROVE SignsNothing
  <2> DEFINE h == u \in mfaOn
             pc == IF h THEN "challenge" ELSE "issue"
  <2>1. pc \notin Signing
    BY DEF Signing
  <2>2. Continue(r, Task(pc, u, NoToken, NoToken, h)) /\ sent' = sent
    BY <1>1 DEF Login
  <2> HIDE DEF h, pc
  <2> QED
    BY <2>1, <2>2, <1>p
<1>2. ASSUME NEW r \in Requests, NEW u \in Users, SnsVerify(r, u)
      PROVE  \E a : Signs(a)
  <2> DEFINE h == u \in mfaOn
  <2>1. \/ /\ InsertBoth(u, AccessLife)
           /\ Continue(r, Task("verified", u, AccessToken(minted + 1, u, "sns", AccessLife),
                               RefreshToken(minted + 2, u), h))
        \/ \E x \in states :
             Continue(r, Task("verified", u, AccessToken(x.id, u, "reuse", AccessLife),
                              RefreshToken(minted + 1, u), h))
    BY <1>2 DEF SnsVerify
  <2>2. now' = now /\ sent' = sent /\ \A x \in states : x.id # 0
    BY <1>0, <1>2 DEF SnsVerify, TypeOK, JWTState
  <2> HIDE DEF h
  <2> QED
    BY <2>1, <2>2, <1>k, <1>o
<1>3. ASSUME NEW r \in Requests, NEW u \in Users, GenerateHalf(r, u) PROVE SignsNothing
  BY <1>3, <1>n DEF GenerateHalf
<1>4. ASSUME NEW r \in Requests, LoginIssue(r) PROVE \E a : Signs(a)
  BY <1>s, <1>k, <1>4 DEF LoginIssue
<1>5. ASSUME NEW r \in Requests, SnsCheckMfa(r) PROVE SignsNothing
  <2> DEFINE n == IF req[r].sub \in mfaOn
                  THEN Task("challenge", req[r].sub, NoToken, NoToken, req[r].held)
                  ELSE Task("session", req[r].sub, req[r].tok, req[r].ref, req[r].held)
  <2>1. Continue(r, n) /\ sent' = sent /\ req[r].tok \in Signed
    BY <1>5 DEF SnsCheckMfa, Signed
  <2>2. n.pc \in Signing => n.tok = req[r].tok
    BY DEF Task, Signing
  <2> HIDE DEF n
  <2> QED
    BY <1>0, <2>1, <2>2, SignedAfter DEF SignsNothing, Signed
<1>6. ASSUME NEW r \in Requests, ChallengeIssue(r) PROVE \E a : Signs(a)
  BY <1>s, <1>f, <1>6 DEF ChallengeIssue
<1>7. ASSUME NEW r \in Requests, SessionCreate(r) PROVE SignsNothing
  <2>1. /\ req[r].tok \in Signed
        /\ req[r].ref.jti = 0 /\ req[r].ref.use = "refresh"
    BY <1>0, <1>7 DEF SessionCreate, Signed, RequestInv, RequestOK
  <2>2. Finish(r) /\ sent' = sent \cup {req[r].tok, req[r].ref}
    BY <1>7 DEF SessionCreate
  <2>3. ASSUME NEW t \in Signed'
        PROVE  t \in Signed \/ t = req[r].ref
    <3>1. t \in sent' \/ t \in Signed
      BY <1>0, <2>2, SignedAfterFinish
    <3> QED
      BY <2>1, <2>2, <3>1 DEF Signed
  <2> QED
    BY <2>1, <2>3 DEF SignsNothing
<1>8. ASSUME NEW r \in Requests, NEW t \in sent, Refresh(r, t) PROVE SignsNothing
  <2>1. Continue(r, Task("refresh", t.sub, NoToken, NoToken, FALSE)) /\ sent' = sent
    BY <1>8 DEF Refresh
  <2>2. "refresh" \notin Signing
    BY DEF Signing
  <2> QED
    BY <2>1, <2>2, <1>p
<1>9. ASSUME NEW r \in Requests, RefreshIssue(r) PROVE \E a : Signs(a)
  BY <1>s, <1>f, <1>9 DEF RefreshIssue
<1>10. ASSUME NEW r \in Requests, NEW t \in sent, GuardVerify(r, t) PROVE SignsNothing
  <2>1. Continue(r, Task("guard", t.sub, t, NoToken, FALSE)) /\ sent' = sent
    BY <1>10 DEF GuardVerify
  <2>2. "guard" \notin Signing
    BY DEF Signing
  <2> QED
    BY <2>1, <2>2, <1>p
<1>11. ASSUME NEW r \in Requests, GuardSession(r) PROVE SignsNothing
  <2>1. Continue(r, Task("auth", req[r].sub, NoToken, NoToken, FALSE)) /\ sent' = sent
    BY <1>11 DEF GuardSession
  <2>2. "auth" \notin Signing
    BY DEF Signing
  <2> QED
    BY <2>1, <2>2, <1>p
<1>12. ASSUME NEW r \in Requests, NEW s \in sessions, SessionDelete(r, s) PROVE SignsNothing
  BY <1>12, <1>n DEF SessionDelete, Withdraw
<1>13. ASSUME NEW r \in Requests, JwtCreate(r) PROVE \E a : Signs(a)
  BY <1>s, <1>f, <1>13 DEF JwtCreate, Authenticated
<1>14. ASSUME NEW r \in Requests, NEW x \in states, JwtUpdate(r, x) PROVE SignsNothing
  BY <1>14, <1>n DEF JwtUpdate
<1>15. ASSUME NEW r \in Requests, NEW x, NEW i, JwtRename(r, x, i) PROVE SignsNothing
  BY <1>15, <1>n DEF JwtRename
<1>16. ASSUME NEW r \in Requests, NEW x, JwtRemove(r, x) PROVE SignsNothing
  BY <1>16, <1>n DEF JwtRemove, Withdraw
<1>17. ASSUME NEW r \in Requests, MfaSetup(r) PROVE SignsNothing
  BY <1>17, <1>n DEF MfaSetup
<1>18. ASSUME NEW r \in Requests, MfaDisable(r) PROVE SignsNothing
  <2>1. \A p \in Requests : [req EXCEPT ![r] = Idle][p].pc \in Signing
                              => [req EXCEPT ![r] = Idle][p] = req[p]
    BY <1>0 DEF TypeOK, Idle, Task, Signing
  <2> QED
    BY <1>18, <2>1, SignedAfterRelease DEF MfaDisable, SignsNothing, Signed
<1>19. ASSUME NEW r \in Requests, NEW t \in sent, MfaVerify(r, t) PROVE SignsNothing
  <2>1. Continue(r, Task("mfa", t.sub, t, NoToken, FALSE)) /\ sent' = sent
    BY <1>19 DEF MfaVerify
  <2>2. "mfa" \notin Signing
    BY DEF Signing
  <2> QED
    BY <2>1, <2>2, <1>p
<1>20. ASSUME NEW r \in Requests, MfaIssue(r) PROVE \E a : Signs(a)
  <2>1. /\ req[r].sub \in Users /\ req[r].tok \in sent /\ req[r].tok.sub = req[r].sub
        /\ now' = now /\ sent' = sent
    BY <1>0, <1>s, <1>20 DEF MfaIssue, RequestInv, RequestOK
  <2> QED
    BY <2>1, <1>20, <1>k, <1>o DEF MfaIssue
<1>21. ASSUME NEW r \in Requests, Fail(r) PROVE SignsNothing
  BY <1>21, <1>n DEF Fail
<1>22. ASSUME NEW u \in Users, DeleteUser(u) PROVE SignsNothing
  BY <1>22, SignedAfterRelease DEF DeleteUser, SignsNothing, Signed
<1>23. ASSUME sent' = sent, req' = req PROVE SignsNothing
  BY <1>23 DEF SignsNothing, Signed
<1>24. ASSUME NEW r \in Requests, Handler(r) PROVE SignsNothing \/ \E a : Signs(a)
  BY <1>24, <1>1, <1>2, <1>3, <1>4, <1>5, <1>6, <1>7, <1>8, <1>9, <1>10, <1>11,
     <1>12, <1>13, <1>14, <1>15, <1>16, <1>17, <1>18, <1>19, <1>20, <1>21
     DEF Handler
<1> QED
  BY <1>22, <1>23, <1>24 DEF Next, Cron, Tick, vars

LEMMA SignedType == TypeInv => Signed \subseteq Token
  BY DEF TypeInv, TypeOK, RequestInv, RequestOK, Signed

\* Ids are only ever minted upwards.
LEMMA MintedGrows == TypeInv /\ [Next]_vars => minted \in Nat /\ minted' \in Nat /\ minted <= minted'
<1> SUFFICES ASSUME TypeInv, [Next]_vars PROVE minted \in Nat /\ minted' \in Nat /\ minted <= minted'
  OBVIOUS
<1>1. minted \in Nat /\ minted' \in Nat
  BY StepTypeInv DEF TypeInv, TypeOK
<1>2. CASE minted' = minted
  BY <1>1, <1>2
<1>3. CASE minted' = minted + 1 \/ minted' = minted + 2
  BY <1>1, <1>3
<1>4. ASSUME NEW r \in Requests, Handler(r)
      PROVE  minted' = minted \/ minted' = minted + 1 \/ minted' = minted + 2
  <2>1. CASE UNCHANGED minted
    BY <2>1
  <2>2. CASE \/ \E u, life : InsertBoth(u, life)
             \/ \E u, j : InsertRefresh(u, j)
             \/ \E u \in Users : GenerateHalf(r, u)
    BY <2>2 DEF InsertBoth, InsertRefresh, GenerateHalf
  <2>3. ASSUME NEW u \in Users, SnsVerify(r, u)
        PROVE  (\E v, life : InsertBoth(v, life)) \/ (\E v, j : InsertRefresh(v, j))
    BY <2>3 DEF SnsVerify
  <2>4. ASSUME MfaIssue(r)
        PROVE  (\E v, life : InsertBoth(v, life)) \/ (\E v, j : InsertRefresh(v, j))
    BY <2>4 DEF MfaIssue
  <2>5. ASSUME LoginIssue(r) \/ ChallengeIssue(r) \/ RefreshIssue(r) \/ JwtCreate(r)
        PROVE  \E v, life : InsertBoth(v, life)
    BY <2>5 DEF LoginIssue, ChallengeIssue, RefreshIssue, JwtCreate
  <2> QED
    BY <1>4, <2>1, <2>2, <2>3, <2>4, <2>5
       DEF Handler, Login, SnsCheckMfa, SessionCreate, Refresh, GuardVerify, MfaVerify,
       GuardSession, SessionDelete, JwtUpdate, JwtRemove, JwtRename, MfaSetup,
       MfaDisable, Fail
<1> QED
  BY <1>2, <1>3, <1>4 DEF Next, vars, DeleteUser, Cron, Tick

\* A token that has reached a client stays there.
LEMMA SentGrows == [Next]_vars => sent \subseteq sent'
  BY DEF Next, vars, Handler, Login, SnsVerify, GenerateHalf, LoginIssue, SnsCheckMfa,
     ChallengeIssue, SessionCreate, Refresh, GuardVerify, MfaVerify, RefreshIssue,
     GuardSession, MfaIssue, SessionDelete, JwtCreate, JwtUpdate, JwtRemove, JwtRename,
     MfaSetup, MfaDisable, Fail, DeleteUser, Cron, Tick

\* Rows come under the ids minted for them, and a PUT moves one only to an id
\* handed out before.
LEMMA StepStatesInv == TypeInv /\ StatesInv /\ [Next]_vars => StatesInv'
<1> SUFFICES ASSUME TypeInv, StatesInv, [Next]_vars PROVE StatesInv'
  OBVIOUS
<1>1. minted \in Nat /\ minted' \in Nat /\ minted <= minted'
  BY MintedGrows
<1>2. \A x \in states : x.id <= minted'
  <2>1. \A x \in states : x.id \in Nat /\ x.id <= minted
    BY DEF StatesInv, TypeInv, TypeOK, JWTState
  <2> QED
    BY <1>1, <2>1
<1>3. CASE states' \subseteq states
  BY <1>2, <1>3 DEF StatesInv
<1>4. ASSUME NEW u, NEW life, InsertBoth(u, life) PROVE StatesInv'
  <2>1. states' = states \cup {StateRow(minted + 1, u, life),
                               StateRow(minted + 2, u, RefreshLife)}
        /\ minted' = minted + 2
    BY <1>4 DEF InsertBoth
  <2>2. /\ StateRow(minted + 1, u, life).id = minted + 1
        /\ StateRow(minted + 2, u, RefreshLife).id = minted + 2
    BY DEF StateRow, Row
  <2>3. minted + 1 <= minted' /\ minted + 2 <= minted'
    BY <1>1, <2>1
  <2> QED
    BY <1>2, <2>1, <2>2, <2>3 DEF StatesInv
<1>5. ASSUME NEW u, NEW life, minted' = minted + 1,
             states' = states \cup {StateRow(minted + 1, u, life)}
      PROVE  StatesInv'
  <2>1. StateRow(minted + 1, u, life).id = minted'
    BY <1>5 DEF StateRow, Row
  <2> QED
    BY <1>1, <1>2, <1>5, <2>1 DEF StatesInv
<1>6. ASSUME NEW u, NEW j, InsertRefresh(u, j) PROVE StatesInv'
  BY <1>5, <1>6 DEF InsertRefresh
<1>7. ASSUME NEW r \in Requests, NEW u \in Users, GenerateHalf(r, u) PROVE StatesInv'
  BY <1>5, <1>7 DEF GenerateHalf
<1>8. ASSUME NEW r \in Requests, NEW x \in states, JwtUpdate(r, x) PROVE StatesInv'
  <2>1. PICK y : states' = (states \ {x}) \cup {y} /\ y.id = x.id
    BY <1>8 DEF JwtUpdate, Row
  <2> QED
    BY <1>2, <2>1 DEF StatesInv
<1>9. ASSUME NEW r \in Requests, NEW x \in states, NEW i \in 1..minted, JwtRename(r, x, i)
      PROVE  StatesInv'
  <2>0. Row(i, x.userId, x.revoked, x.sessionId, x.expiresAt).id = i
    BY DEF Row
  <2>1. PICK y : states' = (states \ {x}) \cup {y} /\ y.id = i
    BY <1>9, <2>0 DEF JwtRename
  <2>2. i <= minted'
    BY <1>1
  <2> QED
    BY <1>2, <2>1, <2>2 DEF StatesInv
<1>10. ASSUME NEW r \in Requests, NEW u \in Users, SnsVerify(r, u) PROVE StatesInv'
  BY <1>4, <1>6, <1>10 DEF SnsVerify
<1>11. ASSUME NEW r \in Requests, MfaIssue(r) PROVE StatesInv'
  BY <1>4, <1>6, <1>11 DEF MfaIssue
<1>12. ASSUME NEW r \in Requests,
              LoginIssue(r) \/ ChallengeIssue(r) \/ RefreshIssue(r) \/ JwtCreate(r)
       PROVE  StatesInv'
  BY <1>4, <1>12 DEF LoginIssue, ChallengeIssue, RefreshIssue, JwtCreate
<1>13. ASSUME NEW r \in Requests, Handler(r) PROVE StatesInv'
  BY <1>13, <1>3, <1>7, <1>8, <1>9, <1>10, <1>11, <1>12
     DEF Handler, Login, SnsCheckMfa, SessionCreate, Refresh, GuardVerify, MfaVerify,
     GuardSession, SessionDelete, Withdraw, JwtRemove, MfaSetup, MfaDisable, Fail
<1> QED
  BY <1>3, <1>13 DEF Next, vars, DeleteUser, Cron, Tick

\* Tokens sent since then only add to the names given.
LEMMA TogetherStays ==
  ASSUME NEW t1, NEW t2, Together(t1, t2), sent \subseteq sent'
  PROVE  Together(t1, t2)'
  BY DEF Together, Named

\* A new token has a fresh jti, is the one that shares a row its client named,
\* or has the jti and the user of an older token.
LEMMA StepTokenInv == TypeInv /\ StatesInv /\ TokenInv /\ [Next]_vars => TokenInv'
<1> SUFFICES ASSUME TypeInv, StatesInv, TokenInv, [Next]_vars PROVE TokenInv'
  OBVIOUS
<1>1. minted \in Nat /\ minted' \in Nat /\ minted <= minted' /\ sent \subseteq sent'
  BY MintedGrows, SentGrows
<1>2. Signed \subseteq Token
  BY SignedType
<1>3. \A t \in Signed : t.jti \in Nat /\ t.jti <= minted /\ t.jti <= minted'
  BY <1>1, <1>2 DEF TokenInv, Token
\* What the invariant says of a pair, of two tokens that are not new.
<1>p. ASSUME NEW t1 \in Signed, NEW t2 \in Signed, t1.jti # 0, t1.jti = t2.jti
      PROVE  /\ Together(t1, t2)'
             /\ {t1.use, t2.use} \subseteq FirstUses => t1.use = t2.use
  <2>1. /\ Together(t1, t2)
        /\ {t1.use, t2.use} \subseteq FirstUses => t1.use = t2.use
    BY <1>p DEF TokenInv
  <2> QED
    BY <1>1, <2>1, TogetherStays
<1>4. CASE SignsNothing
  <2>1. \A t \in Signed' : t \in Signed \/ (t.jti = 0 /\ t.use = "refresh")
    BY <1>4 DEF SignsNothing
  <2>2. \A t \in Signed' : t.jti <= minted' /\ (t.jti = 0 => t.use = "refresh")
    BY <2>1, <1>1, <1>3 DEF TokenInv
  <2>3. ASSUME NEW t1 \in Signed', NEW t2 \in Signed', t1.jti # 0, t1.jti = t2.jti
        PROVE  /\ Together(t1, t2)'
               /\ {t1.use, t2.use} \subseteq FirstUses => t1.use = t2.use
    BY <1>p, <2>1, <2>3
  <2> QED
    BY <2>2, <2>3 DEF TokenInv
<1>5. ASSUME NEW a, Signs(a) PROVE TokenInv'
  <2>1. \A t \in Signed' : t \in Signed \/ t = a \/ (t.jti = 0 /\ t.use = "refresh")
    BY <1>5 DEF Signs
  \* It is enough to look at the new token beside an old one.
  <2>2. ASSUME a.jti # 0, a.jti <= minted',
               \A t \in Signed : t.jti = a.jti =>
                 /\ Together(a, t)' /\ Together(t, a)'
                 /\ {a.use, t.use} \subseteq FirstUses => a.use = t.use
        PROVE  TokenInv'
    <3>1. \A t \in Signed' : t.jti <= minted' /\ (t.jti = 0 => t.use = "refresh")
      BY <2>1, <2>2, <1>1, <1>3 DEF TokenInv
    <3>2. Together(a, a)'
      BY DEF Together
    <3>3. ASSUME NEW t1 \in Signed', NEW t2 \in Signed', t1.jti # 0, t1.jti = t2.jti
          PROVE  /\ Together(t1, t2)'
                 /\ {t1.use, t2.use} \subseteq FirstUses => t1.use = t2.use
      <4>1. t1 \in Signed \/ t1 = a
        BY <2>1, <3>3
      <4>2. t2 \in Signed \/ t2 = a
        BY <2>1, <3>3
      <4>3. CASE t1 \in Signed /\ t2 \in Signed
        BY <1>p, <3>3, <4>3
      <4>4. CASE t1 = a /\ t2 = a
        BY <3>2, <4>4
      <4>5. CASE t1 = a /\ t2 \in Signed
        BY <2>2, <3>3, <4>5
      <4>6. CASE t1 \in Signed /\ t2 = a
        BY <2>2, <3>3, <4>6
      <4> QED
        BY <4>1, <4>2, <4>3, <4>4, <4>5, <4>6
    <3> QED
      BY <3>1, <3>3 DEF TokenInv
  <2>3. CASE a.jti = minted + 1 /\ a.jti <= minted'
    <3>1. \A t \in Signed : t.jti # a.jti
      BY <2>3, <1>1, <1>3
    <3>2. a.jti # 0
      BY <2>3, <1>1
    <3> QED
      BY <2>2, <2>3, <3>1, <3>2
  <2>4. ASSUME a.use = "reuse", a.jti # 0, NEW x \in states, x.id = a.jti
        PROVE  TokenInv'
    <3>1. a.jti <= minted'
      <4>1. x.id \in Nat /\ x.id <= minted
        BY DEF StatesInv, TypeInv, TypeOK, JWTState
      <4> QED
        BY <1>1, <2>4, <4>1
    <3>2. ASSUME NEW t \in Signed, t.jti = a.jti
          PROVE  /\ Together(a, t)' /\ Together(t, a)'
                 /\ {a.use, t.use} \subseteq FirstUses => a.use = t.use
      BY <2>4 DEF Together, FirstUses
    <3> QED
      BY <2>2, <2>4, <3>1, <3>2
  <2>5. ASSUME a.use = "mfa", a.jti # 0, NEW o \in sent, o.jti = a.jti, o.sub = a.sub
        PROVE  TokenInv'
    <3>1. o \in Signed
      BY DEF Signed
    <3>2. a.jti <= minted'
      BY <1>3, <2>5, <3>1
    <3>3. ASSUME NEW t \in Signed, t.jti = a.jti
          PROVE  /\ Together(a, t)' /\ Together(t, a)'
                 /\ {a.use, t.use} \subseteq FirstUses => a.use = t.use
      <4>1. Together(o, t)
        BY <2>5, <3>1, <3>3 DEF TokenInv
      <4>2. o.use = "reuse" => Named(a.jti, {a.sub, t.sub})
        BY <2>5 DEF Named
      <4>3. Named(o.jti, {o.sub, t.sub}) => Named(a.jti, {a.sub, t.sub})
        BY <2>5 DEF Named
      <4>4. Named(a.jti, {a.sub, t.sub}) => Named(a.jti, {a.sub, t.sub})'
        BY <1>1 DEF Named
      <4>5. Named(a.jti, {a.sub, t.sub})' => Named(t.jti, {t.sub, a.sub})'
        BY <3>3 DEF Named
      <4>6. Together(a, t)' /\ Together(t, a)'
        BY <2>5, <4>1, <4>2, <4>3, <4>4, <4>5 DEF Together
      <4> QED
        BY <2>5, <4>6 DEF FirstUses
    <3> QED
      BY <2>2, <2>5, <3>2, <3>3
  <2> QED
    BY <1>5, <2>3, <2>4, <2>5 DEF Signs
<1> QED
  BY <1>4, <1>5, StepSigns

\* A session is opened for a token that the same step sends; a user leaves
\* together with its sessions.
LEMMA StepSessionInv ==
  TypeInv /\ TokenInv /\ SessionInv /\ [Next]_vars => SessionInv'
<1> SUFFICES ASSUME TypeInv, TokenInv, SessionInv, [Next]_vars PROVE SessionInv'
  OBVIOUS
<1>1. ASSUME sessions' \subseteq sessions, users' = users, sent \subseteq sent'
      PROVE  SessionInv'
  BY <1>1 DEF SessionInv
<1>2. ASSUME NEW r \in Requests, SessionCreate(r) PROVE SessionInv'
  <2> DEFINE t == req[r].tok
             n == [id |-> opened + 1, userId |-> t.sub, jti |-> t.jti]
  <2>1. t.jti # 0 /\ t.use \in SessionUses
    BY <1>2 DEF SessionCreate, TypeInv, RequestInv, RequestOK
  <2>2. /\ sessions' = sessions \cup {n} /\ users' = users /\ t.sub \in users
        /\ sent \subseteq sent' /\ t \in sent'
    BY <1>2 DEF SessionCreate
  <2>3. n.userId = t.sub /\ n.jti = t.jti
    OBVIOUS
  <2> HIDE DEF t, n
  <2> QED
    BY <2>1, <2>2, <2>3 DEF SessionInv
<1>3. ASSUME NEW u \in Users, DeleteUser(u) PROVE SessionInv'
  BY <1>3 DEF DeleteUser, SessionInv
<1>4. ASSUME NEW r \in Requests, Handler(r) PROVE SessionInv'
  <2>1. CASE SessionCreate(r)
    BY <2>1, <1>2
  <2>2. CASE \E s \in sessions : SessionDelete(r, s)
    BY <2>2, <1>1 DEF SessionDelete
  <2>3. CASE UNCHANGED <<sessions, users>> /\ sent \subseteq sent'
    BY <2>3, <1>1
  <2> QED
    BY <1>4, <2>1, <2>2, <2>3
       DEF Handler, Login, SnsVerify, GenerateHalf, LoginIssue, SnsCheckMfa,
       ChallengeIssue, Refresh, GuardVerify, MfaVerify, RefreshIssue, GuardSession,
       MfaIssue, JwtCreate, JwtUpdate, JwtRemove, JwtRename, MfaSetup, MfaDisable, Fail
<1> QED
  BY <1>1, <1>3, <1>4 DEF Next, Cron, Tick, vars

\* The row of a token stays for as long as the token lives, or its id is
\* entered among the withdrawn ones.
LEMMA RowStays ==
  ASSUME TypeInv, [Next]_vars, NEW t \in Token, RowOutlives(t)
  PROVE  RowOutlives(t)'
<1>1. ASSUME states \subseteq states', now' = now, dropped \subseteq dropped'
      PROVE  RowOutlives(t)'
  BY <1>1 DEF RowOutlives
\* Rows go, and their ids are entered.
<1>2. ASSUME NEW gone, states' = states \ gone, now' = now,
             dropped' = dropped \cup {x.id : x \in gone}
      PROVE  RowOutlives(t)'
  BY <1>2 DEF RowOutlives
<1>3. ASSUME NEW r \in Requests, NEW x \in states, JwtUpdate(r, x)
      PROVE  RowOutlives(t)'
  <2>1. PICK y : states' = (states \ {x}) \cup {y} /\ y.id = x.id /\ y.expiresAt = x.expiresAt
    BY <1>3 DEF JwtUpdate, Row
  <2>2. now' = now /\ dropped' = dropped
    BY <1>3 DEF JwtUpdate
  <2> QED
    BY <2>1, <2>2 DEF RowOutlives
<1>4. ASSUME NEW r \in Requests, NEW x \in states, NEW i, JwtRename(r, x, i)
      PROVE  RowOutlives(t)'
  <2>1. /\ states \ {x} \subseteq states' /\ now' = now
        /\ dropped' = dropped \cup {x.id}
    BY <1>4 DEF JwtRename
  <2> QED
    BY <2>1 DEF RowOutlives
<1>5. ASSUME Cron PROVE RowOutlives(t)'
  <2>1. /\ states' = {x \in states : x.expiresAt >= now}
        /\ now' = now /\ dropped' = dropped
    BY <1>5 DEF Cron
  <2>2. ASSUME NEW x \in states, now < t.exp, x.expiresAt >= t.exp PROVE x.expiresAt >= now
    BY <2>2 DEF TypeInv, TypeOK, JWTState, Token
  <2> QED
    BY <2>1, <2>2 DEF RowOutlives
<1>6. ASSUME Tick PROVE RowOutlives(t)'
  <2>1. now' = now + 1 /\ states' = states /\ dropped' = dropped
    BY <1>6 DEF Tick
  <2>2. now' < t.exp => now < t.exp
    BY <2>1 DEF TypeInv, TypeOK, Token
  <2> QED
    BY <2>1, <2>2 DEF RowOutlives
<1>7. ASSUME NEW u \in Users, DeleteUser(u) PROVE RowOutlives(t)'
  BY <1>7, <1>2 DEF DeleteUser
<1>8. ASSUME NEW r \in Requests, NEW s \in sessions, SessionDelete(r, s)
      PROVE  RowOutlives(t)'
  BY <1>8, <1>2 DEF SessionDelete, Withdraw
<1>9. ASSUME NEW r \in Requests, NEW x \in states, JwtRemove(r, x)
      PROVE  RowOutlives(t)'
  BY <1>9, <1>2 DEF JwtRemove, Withdraw
<1>10. ASSUME NEW r \in Requests, NEW u \in Users, SnsVerify(r, u) \/ GenerateHalf(r, u)
       PROVE  RowOutlives(t)'
  <2>1. states \subseteq states' /\ now' = now /\ dropped' = dropped
    BY <1>10 DEF SnsVerify, GenerateHalf, InsertBoth, InsertRefresh
  <2> QED
    BY <2>1, <1>1
<1>11. ASSUME NEW r \in Requests,
              LoginIssue(r) \/ ChallengeIssue(r) \/ RefreshIssue(r) \/ JwtCreate(r) \/ MfaIssue(r)
       PROVE  RowOutlives(t)'
  <2>1. states \subseteq states' /\ now' = now /\ dropped' = dropped
    BY <1>11 DEF LoginIssue, ChallengeIssue, RefreshIssue, JwtCreate, MfaIssue,
       InsertBoth, InsertRefresh
  <2> QED
    BY <2>1, <1>1
<1>12. ASSUME NEW r \in Requests, Handler(r) PROVE RowOutlives(t)'
  <2>1. CASE UNCHANGED <<states, now, dropped>>
    BY <2>1, <1>1
  <2> QED
    BY <1>12, <2>1, <1>3, <1>4, <1>8, <1>9, <1>10, <1>11
       DEF Handler, Login, SnsCheckMfa, SessionCreate, Refresh, GuardVerify, MfaVerify,
       GuardSession, MfaSetup, MfaDisable, Fail
<1> QED
  BY <1>1, <1>5, <1>6, <1>7, <1>12 DEF Next, vars

LEMMA StepRowInv == TypeInv /\ RowInv /\ [Next]_vars => RowInv'
<1> SUFFICES ASSUME TypeInv, RowInv, [Next]_vars, NEW t \in Signed' PROVE RowOutlives(t)'
  BY DEF RowInv
<1>1. CASE t \in Signed
  BY <1>1, RowStays, SignedType DEF RowInv
<1>2. CASE t.use \notin OwnStateUses
  BY <1>2 DEF RowOutlives
<1>3. ASSUME NEW a, Signs(a), t = a, t.use \in OwnStateUses PROVE RowOutlives(t)'
  BY <1>3 DEF Signs, OwnStateUses
<1> QED
  BY <1>1, <1>2, <1>3, StepSigns DEF SignsNothing, Signs, OwnStateUses

\* A request forgets that it has been under MFA all along when it goes idle or
\* when MFA is switched off for its user.
LEMMA StepHeldInv == TypeInv /\ HeldInv /\ [Next]_vars => HeldInv'
<1> SUFFICES ASSUME TypeInv, HeldInv, [Next]_vars PROVE HeldInv'
  OBVIOUS
<1>0. req \in [Requests -> Request]
  BY DEF TypeInv, TypeOK
<1>c. ASSUME NEW r \in Requests, NEW q, Continue(r, q), mfaOn \subseteq mfaOn', HeldOK(q)'
      PROVE  HeldInv'
  BY <1>0, <1>c DEF HeldInv, HeldOK, Continue
<1>q. ASSUME NEW r \in Requests, NEW pc, NEW u, NEW tok, NEW ref,
             Continue(r, Task(pc, u, tok, ref, FALSE)), mfaOn \subseteq mfaOn'
      PROVE  HeldInv'
  <2>1. HeldOK(Task(pc, u, tok, ref, FALSE))'
    BY DEF HeldOK, Task
  <2> QED
    BY <2>1, <1>0, <1>q DEF HeldInv, HeldOK, Continue
<1>f. ASSUME NEW r \in Requests, Finish(r), mfaOn \subseteq mfaOn'
      PROVE  HeldInv'
  BY <1>f, <1>q DEF Finish, Idle
<1>r. ASSUME NEW u, NEW f, \A p \in Requests : HeldOK(f[p]),
             mfaOn' = mfaOn \ {u}, req' = Release(u, f)
      PROVE  HeldInv'
  BY <1>r DEF HeldInv, HeldOK, Release, Task
<1>1. ASSUME NEW r \in Requests, NEW u \in Users, Login(r, u) PROVE HeldInv'
  <2> DEFINE q == Task(IF u \in mfaOn THEN "challenge" ELSE "issue", u,
                       NoToken, NoToken, u \in mfaOn)
  <2>1. Continue(r, q) /\ mfaOn' = mfaOn
    BY <1>1 DEF Login
  <2>2. PICK c : c = q
    OBVIOUS
  <2>3. c.held <=> u \in mfaOn
    BY <2>2 DEF Task
  <2>4. c.sub = u /\ c.pc = IF u \in mfaOn THEN "challenge" ELSE "issue"
    BY <2>2 DEF Task
  <2>5. HeldOK(c)'
    BY <2>1, <2>3, <2>4 DEF HeldOK
  <2> HIDE DEF q
  <2> QED
    BY <2>1, <2>2, <2>5, <1>c
<1>2. ASSUME NEW r \in Requests, NEW u \in Users, SnsVerify(r, u) PROVE HeldInv'
  <2> DEFINE h == u \in mfaOn
  <2>1. \E tok, ref : Continue(r, Task("verified", u, tok, ref, h))
    BY <1>2 DEF SnsVerify
  <2>2. PICK tok, ref : Continue(r, Task("verified", u, tok, ref, h))
    BY <2>1
  <2>3. mfaOn' = mfaOn
    BY <1>2 DEF SnsVerify
  <2>4. h \in BOOLEAN /\ (h => u \in mfaOn)
    OBVIOUS
  <2> HIDE DEF h
  <2>5. PICK c : c = Task("verified", u, tok, ref, h)
    OBVIOUS
  <2>6. c.held = h /\ c.sub = u /\ c.pc = "verified"
    BY <2>5 DEF Task
  <2>7. HeldOK(c)'
    BY <2>3, <2>4, <2>6 DEF HeldOK
  <2> QED
    BY <2>2, <2>3, <2>5, <2>7, <1>c
<1>4. ASSUME NEW r \in Requests, LoginIssue(r) PROVE HeldInv'
  <2>1. ~req[r].held /\ req[r].held \in BOOLEAN
    BY <1>0, <1>4 DEF LoginIssue, HeldInv, HeldOK, Request
  <2>2. req[r].held = FALSE
    BY <2>1
  <2> QED
    BY <2>2, <1>4, <1>q DEF LoginIssue
<1>5. ASSUME NEW r \in Requests, SnsCheckMfa(r) PROVE HeldInv'
  <2> DEFINE q == req[r]
  <2>1. q \in Request /\ HeldOK(q) /\ q.pc = "verified"
    BY <1>0, <1>5 DEF HeldInv, SnsCheckMfa
  <2>2. /\ mfaOn' = mfaOn
        /\ Continue(r, IF q.sub \in mfaOn
                       THEN Task("challenge", q.sub, NoToken, NoToken, q.held)
                       ELSE Task("session", q.sub, q.tok, q.ref, q.held))
    BY <1>5 DEF SnsCheckMfa
  <2> HIDE DEF q
  <2>3. PICK c : c = IF q.sub \in mfaOn
                     THEN Task("challenge", q.sub, NoToken, NoToken, q.held)
                     ELSE Task("session", q.sub, q.tok, q.ref, q.held)
    OBVIOUS
  <2>4. c.held => q.sub \in mfaOn /\ c.sub = q.sub /\ c.pc = "challenge"
    <3>1. CASE q.sub \in mfaOn
      BY <2>3, <3>1 DEF Task
    <3>2. CASE q.sub \notin mfaOn
      <4>1. ~q.held
        BY <2>1, <3>2 DEF HeldOK
      <4> QED
        BY <2>3, <3>2, <4>1 DEF Task
    <3> QED
      BY <3>1, <3>2
  <2>5. HeldOK(c)'
    BY <2>2, <2>4 DEF HeldOK
  <2> QED
    BY <2>2, <2>3, <2>5, <1>c
<1>18. ASSUME NEW r \in Requests, MfaDisable(r) PROVE HeldInv'
  <2>1. \A p \in Requests : HeldOK([req EXCEPT ![r] = Idle][p])
    BY <1>0 DEF HeldInv, HeldOK, Idle, Task
  <2> QED
    BY <1>18, <2>1, <1>r DEF MfaDisable
<1>20. ASSUME NEW r \in Requests, MfaIssue(r) PROVE HeldInv'
  BY <1>20, <1>q DEF MfaIssue
<1>21. ASSUME NEW r \in Requests, NEW t \in sent, Refresh(r, t) \/ GuardVerify(r, t) \/ MfaVerify(r, t)
       PROVE  HeldInv'
  BY <1>21, <1>q DEF Refresh, GuardVerify, MfaVerify
<1>22. ASSUME NEW r \in Requests, GuardSession(r) PROVE HeldInv'
  BY <1>22, <1>q DEF GuardSession
<1>23. ASSUME NEW u \in Users, DeleteUser(u) PROVE HeldInv'
  BY <1>23, <1>r DEF DeleteUser, HeldInv
<1>24. ASSUME NEW r \in Requests, Handler(r) PROVE HeldInv'
  <2>1. CASE Finish(r) /\ mfaOn \subseteq mfaOn'
    BY <2>1, <1>f
  <2> QED
    BY <1>24, <2>1, <1>1, <1>2, <1>4, <1>5, <1>18, <1>20, <1>21, <1>22
       DEF Handler, GenerateHalf, ChallengeIssue, SessionCreate, RefreshIssue,
       SessionDelete, JwtCreate, JwtUpdate, JwtRemove, JwtRename, Withdraw, MfaSetup, Fail
<1>25. ASSUME UNCHANGED <<req, mfaOn>> PROVE HeldInv'
  BY <1>25 DEF HeldInv, HeldOK
<1> QED
  BY <1>23, <1>24, <1>25 DEF Next, Cron, Tick, vars

-----------------------------------------------------------------------------
(* The theorems *)

LEMMA InitIInv == Init => IInv
<1> SUFFICES ASSUME Init PROVE IInv
  OBVIOUS
<1>1. TypeInv
  BY InitTypeOK, IdleOK DEF Init, TypeInv, RequestInv
<1>2. Signed = {} /\ sessions = {}
  BY DEF Init, Signed, Idle, Task
<1>3. HeldInv
  BY DEF Init, HeldInv, HeldOK, Idle, Task
<1> QED
  BY <1>1, <1>2, <1>3 DEF Init, IInv, StatesInv, TokenInv, SessionInv, RowInv

THEOREM SpecIInv == Spec => []IInv
  <1>1. IInv /\ [Next]_vars => IInv'
    BY StepTypeInv, StepStatesInv, StepTokenInv, StepSessionInv, StepRowInv, StepHeldInv DEF IInv
  <1> QED
    BY <1>1, InitIInv, PTL DEF Spec

\* Two tokens with one jti that clients hold.
LEMMA MeetByName ==
  ASSUME TokenInv, NEW t1 \in sent, NEW t2 \in sent, t1.jti # 0, t1.jti = t2.jti
  PROVE  t1.sub = t2.sub \/ Named(t1.jti, {t1.sub, t2.sub})
  <1>1. t1 \in Signed /\ t2 \in Signed
    BY DEF Signed
  <1>2. Together(t1, t2)
    BY <1>1 DEF TokenInv
  <1> QED
    BY <1>2 DEF Together, Named

\* Whatever handlers interleave, only an SNS verification that named the row,
\* of one of the two users, has the guard find the session of somebody else
\* under a token's jti.
THEOREM SessionsOwnTheirTokens == Spec => []SessionOwnsToken
  <1>1. IInv => SessionOwnsToken
    <2> SUFFICES ASSUME IInv, NEW s \in sessions, NEW t \in sent, t.jti = s.jti
                 PROVE  t.sub = s.userId \/ Named(s.jti, {t.sub, s.userId})
      BY DEF SessionOwnsToken
    <2>1. s.jti # 0 /\ \E o \in sent : o.jti = s.jti /\ o.sub = s.userId
      BY DEF IInv, SessionInv
    <2> QED
      BY <2>1, MeetByName DEF IInv
  <1> QED
    BY <1>1, SpecIInv, PTL

\* The token of an MFA challenge, a refreshed token and one made by
\* /jwt-state/create have no session under their jti before a full login of
\* the session's user over that row: an MFA verification, or an SNS
\* verification that named it.
THEOREM BareTokensAreRefused == Spec => []BareTokenRefused
  <1>1. IInv => BareTokenRefused
    <2> SUFFICES ASSUME IInv, NEW t \in sent, t.use \in {"temp", "refreshed", "created"},
                        NEW s \in sessions, s.jti = t.jti
                 PROVE  \E full \in sent : /\ full.jti = s.jti /\ full.sub = s.userId
                                           /\ full.use \in {"mfa", "reuse"}
      BY DEF BareTokenRefused
    <2>1. PICK full \in sent : /\ full.jti = s.jti /\ full.sub = s.userId
                               /\ full.use \in SessionUses
      BY DEF IInv, SessionInv
    <2>2. t.jti # 0
      BY DEF IInv, SessionInv
    <2>3. {t.use, full.use} \subseteq FirstUses => t.use = full.use
      BY <2>1, <2>2 DEF IInv, TokenInv, Signed
    <2> QED
      BY <2>1, <2>3 DEF SessionUses, FirstUses
  <1> QED
    BY <1>1, SpecIInv, PTL

\* No order in which login and SNS verification sign and check MFA opens a
\* session for a user whose login ran under MFA from end to end.
THEOREM MfaIsNotBypassed == Spec => []MfaNotBypassed
  <1>1. IInv => MfaNotBypassed
    BY DEF IInv, HeldInv, HeldOK, MfaNotBypassed
  <1> QED
    BY <1>1, SpecIInv, PTL

\* The hourly cleanup cuts no token short that was signed with a row of its own.
THEOREM CronSparesTokens == Spec => []CronSparesLiveTokens
  <1>1. IInv => CronSparesLiveTokens
    BY DEF IInv, RowInv, RowOutlives, Signed, CronSparesLiveTokens
  <1> QED
    BY <1>1, SpecIInv, PTL

\* A request gets past the guard by a session of a user who is still there,
\* its own or one that an SNS verification has brought under the same jti.
THEOREM GuardAdmitsByLiveSession == Spec => AdmittedByLiveSession
  <1> DEFINE Behind(r) == \E s \in sessions :
                            /\ s.jti = req[r].tok.jti /\ s.userId \in users
                            /\ s.userId = req[r].sub \/ Named(s.jti, {s.userId, req[r].sub})
             A == \A r \in Requests : req[r].pc = "guard" /\ req'[r].pc = "auth" => Behind(r)
  <1>1. IInv /\ [Next]_vars => [A]_vars
    <2> SUFFICES ASSUME IInv, Next, NEW r \in Requests,
                        req[r].pc = "guard", req'[r].pc = "auth"
                 PROVE  Behind(r)
      BY DEF A
    <2>0. req \in [Requests -> Request]
      BY DEF IInv, TypeInv, TypeOK
    <2>1. ASSUME NEW s \in sessions, s.jti = req[r].tok.jti
          PROVE  Behind(r)
      <3>1. req[r].tok \in sent /\ req[r].tok.sub = req[r].sub
        BY DEF IInv, TypeInv, RequestInv, RequestOK
      <3>2. s.userId \in users /\ s.jti # 0
        BY DEF IInv, SessionInv
      <3>3. PICK o \in sent : o.jti = s.jti /\ o.sub = s.userId
        BY DEF IInv, SessionInv
      <3>4. s.userId = req[r].sub \/ Named(s.jti, {s.userId, req[r].sub})
        BY <2>1, <3>1, <3>2, <3>3, MeetByName DEF IInv
      <3> QED
        BY <2>1, <3>2, <3>4
    <2> HIDE DEF Behind
    \* The only step from the guard to the handler is GuardSession.
    <2>2. ASSUME NEW p \in Requests, NEW pc, NEW u, NEW tok, NEW ref, NEW held,
                 pc # "auth", Continue(p, Task(pc, u, tok, ref, held))
          PROVE  FALSE
      BY <2>0, <2>2 DEF Continue, Task
    <2>3. ASSUME NEW p \in Requests, Finish(p) PROVE FALSE
      BY <2>3, <2>2 DEF Finish, Idle
    <2>4. ASSUME NEW u, req' = Release(u, req) PROVE FALSE
      BY <2>4 DEF Release, Task
    <2>5. ASSUME NEW p \in Requests, MfaDisable(p) PROVE FALSE
      BY <2>0, <2>5 DEF MfaDisable, Release, Task, Idle
    <2>6. ASSUME NEW p \in Requests, GuardSession(p) PROVE Behind(r)
      <3>1. CASE p = r
        BY <2>1, <2>6, <3>1 DEF GuardSession, HasSession
      <3>2. CASE p # r
        BY <2>0, <2>6, <3>2 DEF GuardSession, Continue
      <3> QED
        BY <3>1, <3>2
    <2>7. ASSUME NEW p \in Requests, NEW u \in Users, Login(p, u) \/ SnsVerify(p, u)
          PROVE  FALSE
      BY <2>0, <2>7 DEF Login, SnsVerify, Continue, Task
    <2>8. ASSUME NEW p \in Requests, LoginIssue(p) \/ MfaIssue(p) PROVE FALSE
      BY <2>8, <2>2 DEF LoginIssue, MfaIssue
    <2>9. ASSUME NEW p \in Requests, SnsCheckMfa(p) PROVE FALSE
      BY <2>0, <2>9 DEF SnsCheckMfa, Continue, Task
    <2>10. ASSUME NEW p \in Requests, NEW t \in sent,
                  Refresh(p, t) \/ GuardVerify(p, t) \/ MfaVerify(p, t)
           PROVE  FALSE
      BY <2>10, <2>2 DEF Refresh, GuardVerify, MfaVerify
    <2>11. ASSUME NEW p \in Requests, Handler(p) PROVE Behind(r)
      BY <2>11, <2>3, <2>5, <2>6, <2>7, <2>8, <2>9, <2>10
         DEF Handler, GenerateHalf, ChallengeIssue, SessionCreate, RefreshIssue,
         SessionDelete, JwtCreate, JwtUpdate, JwtRemove, JwtRename, Withdraw, MfaSetup, Fail
    <2> QED
      BY <2>4, <2>11 DEF Next, DeleteUser, Cron, Tick
  <1> QED
    BY <1>1, SpecIInv, PTL DEF Spec, AdmittedByLiveSession

=============================================================================
