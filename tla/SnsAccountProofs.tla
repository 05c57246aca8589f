-------------------------- MODULE SnsAccountProofs --------------------------
(***************************************************************************)
(* Proofs about SnsAccount for every set of users, accounts, providers,    *)
(* emails and requests, whichever accounts share a provider or an email.   *)
(***************************************************************************)
EXTENDS SnsAccount, FiniteSetTheorems, TLAPS

USE SnsBounds, SnsNames

-----------------------------------------------------------------------------
(* The inductive invariant *)

\* The records of req.
Request ==
  [pc : PC, row : AuthState \cup {NoState},
   item : Accounts \cup Providers \cup LinkRow \cup {None},
   user : Users \cup {NoUser}, early : BOOLEAN]

\* A callback under way, and those of its steps that have a user.
CallbackPC == {"found", "link", "known", "new", "made", "profiled", "attach", "token", "stored"}
VerifyPC == {"verify", "consumed"}
UnlinkPC == {"unlink", "unlisted", "unlinked"}
UserPC == {"link", "known", "made", "profiled", "attach", "token", "stored",
           "verify", "consumed", "unlink", "unlisted", "unlinked"}

\* What a handler may rely on in its record q, given the users C ever created
\* and the ids handed out to states (1..m).
TaskOK(q, C, m) ==
  /\ q.pc \in CallbackPC => q.item \in Accounts
  /\ q.pc \in UnlinkPC => q.item \in Providers
  /\ q.pc = "linking" => q.item \in LinkRow
  /\ q.pc \in CallbackPC \cup VerifyPC => q.row \in AuthState /\ q.row.id \in 1..m
  /\ q.pc \in UserPC => q.user \in C
  /\ q.pc = "found" /\ q.row.user # NoUser => q.row.user \in C

TaskInv == \A r \in Requests : TaskOK(req[r], created, minted)

\* Ids name one row, and a user is created once.
IdsInv ==
  /\ \A s \in states : s.id \in 1..minted
  /\ \A s, t \in states : s.id = t.id => s = t
  /\ logins \subseteq 1..minted
  /\ \A x \in users : x.id \in created

TypeInv == TypeOK /\ TaskInv /\ IdsInv

\* A state that has logged somebody in is marked, and so is one about to.
LoginInv ==
  /\ \A s \in states : s.id \in logins => s.used
  /\ \A r \in Requests : req[r].pc = "consumed" =>
       \A s \in states : s.id = req[r].row.id => s.used

\* No access token has the id of a link verification, of the table or in hand.
LinkInv ==
  /\ \A t \in tokens \cup verifies : t.id \in 1..rows
  /\ \A r \in Requests : req[r].pc = "linking" =>
       req[r].item.id \in 1..rows /\ \A t \in tokens : t.id # req[r].item.id
  /\ \A t \in tokens, v \in verifies : t.id # v.id

\* A user without a password lists the one provider it was made with, and no
\* unlink is under way for it.
SoleInv ==
  \A x \in users : ~ x.password =>
    /\ \E p \in Providers : x.providers = {p}
    /\ \A r \in Requests : req[r].user = x.id =>
         /\ req[r].pc # "unlink"
         /\ req[r].pc \in {"made", "profiled"} => x.providers = {ProviderOf[req[r].item]}

IInv == TypeInv /\ LoginInv /\ LoginEndsState /\ LinkInv /\ SoleInv

-----------------------------------------------------------------------------
(* What each step does to req *)

OthersStay(r) == \A p \in Requests : p # r => req'[p] = req[p]

LEMMA Moves ==
  ASSUME TypeOK, NEW r \in Requests, NEW q, Continue(r, q)
  PROVE  req'[r] = q /\ OthersStay(r)
  BY DEF TypeOK, Continue, OthersStay

LEMMA Ends ==
  ASSUME TypeOK, NEW r \in Requests, Finish(r)
  PROVE  req'[r] = Idle /\ req'[r].pc = "idle" /\ req'[r].row = NoState /\ OthersStay(r)
  BY Moves DEF Finish, Idle, Task

LEMMA Steps ==
  ASSUME TypeOK, NEW r \in Requests, NEW pc, NEW u, Step(r, pc, u)
  PROVE  /\ req'[r] = Task(pc, req[r].row, req[r].item, u, req[r].early)
         /\ req'[r].pc = pc /\ req'[r].user = u
         /\ req'[r].row = req[r].row /\ req'[r].item = req[r].item
         /\ req'[r].early = req[r].early
         /\ OthersStay(r)
  BY Moves DEF Step, Task

\* One request goes on with a record of the right shape, the others stay.
LEMMA ContinueOK ==
  ASSUME TypeOK, TaskInv, NEW r \in Requests, NEW q \in Request,
         created \subseteq created', 1..minted \subseteq 1..minted',
         TaskOK(q, created', minted'), Continue(r, q)
  PROVE  req' \in [Requests -> Request] /\ TaskInv'
  <1>1. req' \in [Requests -> Request]
    BY DEF TypeOK, Request, Continue
  <1>2. req'[r] = q /\ OthersStay(r)
    BY Moves
  <1>3. ASSUME NEW p \in Requests PROVE TaskOK(req'[p], created', minted')
    <2>1. CASE p = r
      BY <1>2, <2>1
    <2>2. CASE p # r
      <3>1. TaskOK(req[p], created, minted) /\ req'[p] = req[p]
        BY <1>2, <2>2 DEF TaskInv, OthersStay
      <3> QED BY <3>1 DEF TaskOK
    <2> QED BY <2>1, <2>2
  <1> QED BY <1>1, <1>3 DEF TaskInv

LEMMA FinishOK ==
  ASSUME TypeOK, TaskInv, NEW r \in Requests, Finish(r),
         created \subseteq created', 1..minted \subseteq 1..minted'
  PROVE  req' \in [Requests -> Request] /\ TaskInv'
  <1>1. Idle \in Request /\ TaskOK(Idle, created', minted')
    BY DEF Idle, Task, Request, TaskOK, PC, CallbackPC, VerifyPC, UnlinkPC, UserPC
  <1> QED BY <1>1, ContinueOK DEF Finish

\* The next step of the same request, for user u.
LEMMA StepOK ==
  ASSUME TypeOK, TaskInv, NEW r \in Requests, NEW pc \in PC, NEW u \in Users \cup {NoUser},
         created \subseteq created', 1..minted \subseteq 1..minted', Step(r, pc, u),
         TaskOK(Task(pc, req[r].row, req[r].item, u, req[r].early), created', minted')
  PROVE  req' \in [Requests -> Request] /\ TaskInv'
  <1> DEFINE q == Task(pc, req[r].row, req[r].item, u, req[r].early)
  <1>1. req[r] \in Request
    BY DEF TypeOK, Request
  <1>2. q \in Request
    BY <1>1 DEF Request, Task
  <1>3. Continue(r, q) /\ TaskOK(q, created', minted')
    BY DEF Step
  <1> HIDE DEF q
  <1> QED BY <1>2, <1>3, ContinueOK

LEMMA ReqKept ==
  ASSUME TypeOK, TaskInv, req' = req, created \subseteq created', 1..minted \subseteq 1..minted'
  PROVE  req' \in [Requests -> Request] /\ TaskInv'
  <1>1. req' \in [Requests -> Request]
    BY DEF TypeOK, Request
  <1>2. ASSUME NEW p \in Requests PROVE TaskOK(req'[p], created', minted')
    <2>1. TaskOK(req[p], created, minted)
      BY DEF TaskInv
    <2> QED BY <2>1 DEF TaskOK
  <1> QED BY <1>1, <1>2 DEF TaskInv

-----------------------------------------------------------------------------
(* The tables *)

\* The table of users: unique ids and emails, nobody in it who was not created.
UsersOK ==
  /\ users \subseteq User
  /\ \A x, y \in users : x.id = y.id \/ x.email = y.email => x = y
  /\ \A x \in users : x.id \in created

\* The other tables, the ids and the histories.
TablesOK ==
  /\ profiles \subseteq Profile
  /\ \A x, y \in profiles : x.account = y.account => x = y
  /\ states \subseteq AuthState
  /\ \A s \in states : s.id \in 1..minted
  /\ \A s, t \in states : s.id = t.id => s = t
  /\ tokens \subseteq LinkRow /\ verifies \subseteq LinkRow
  /\ created \subseteq Users
  /\ minted \in 0..MaxState /\ rows \in 0..MaxRow
  /\ out \subseteq Ids
  /\ logins \subseteq 1..minted /\ signed \subseteq created

\* The users that rows refer to exist.
RowsKnown ==
  /\ \A x \in profiles : Known(x.user)
  /\ \A s \in states : s.user # NoUser => Known(s.user)
  /\ \A x \in tokens \cup verifies : Known(x.user)

LEMMA TypeParts ==
  ASSUME TypeInv
  PROVE  /\ UsersOK /\ TablesOK /\ RowsKnown /\ TypeOK /\ TaskInv
         /\ req \in [Requests -> Request]
  BY DEF TypeInv, TypeOK, IdsInv, UsersOK, TablesOK, RowsKnown, Request

LEMMA TypeWhole ==
  ASSUME UsersOK, TablesOK, RowsKnown, req \in [Requests -> Request], TaskInv
  PROVE  TypeInv
  <1>1. logins \subseteq Ids
    BY DEF TablesOK, Ids
  <1> QED BY <1>1 DEF TypeInv, TypeOK, IdsInv, UsersOK, TablesOK, RowsKnown, Request

LEMMA TypeWholeNext ==
  ASSUME UsersOK', TablesOK', RowsKnown', req' \in [Requests -> Request], TaskInv'
  PROVE  TypeInv'
  <1>1. logins' \subseteq Ids
    BY DEF TablesOK, Ids
  <1> QED BY <1>1 DEF TypeInv, TypeOK, IdsInv, UsersOK, TablesOK, RowsKnown, Request

SameIds == {x.id : x \in users'} = {x.id : x \in users}

\* A row of users is replaced by one of the same user.
LEMMA UserReplaced ==
  ASSUME UsersOK, NEW x \in users, NEW y \in User, y.id = x.id,
         \A z \in users : z.email = y.email => z.id = x.id,
         users' = (users \ {x}) \cup {y}, created' = created
  PROVE  UsersOK' /\ SameIds
  <1>1. \A z \in users : z.id = x.id => z = x
    BY DEF UsersOK
  <1>2. users' \subseteq User /\ \A z \in users' : z.id \in created'
    BY DEF UsersOK
  <1>3. ASSUME NEW a \in users', NEW b \in users', a.id = b.id \/ a.email = b.email
        PROVE  a = b
    <2>1. CASE a = y /\ b # y
      BY <1>1, <1>3, <2>1
    <2>2. CASE a # y /\ b = y
      BY <1>1, <1>3, <2>2
    <2>3. CASE a # y /\ b # y
      BY <1>3, <2>3 DEF UsersOK
    <2> QED BY <2>1, <2>2, <2>3
  <1>4. SameIds
    BY DEF SameIds
  <1> QED BY <1>2, <1>3, <1>4 DEF UsersOK

\* A new row for somebody who was never created before.
LEMMA UserAdded ==
  ASSUME UsersOK, NEW y \in User, y.id \notin created, ~ EmailTaken(y.email),
         users' = users \cup {y}, created' = created \cup {y.id}
  PROVE  UsersOK'
  BY DEF UsersOK, EmailTaken

LEMMA KnownById ==
  /\ \A u : Known(u) <=> u \in {x.id : x \in users}
  /\ \A u : Known(u)' <=> u \in {x.id : x \in users'}
  BY DEF Known

LEMMA SameKnown ==
  ASSUME SameIds
  PROVE  \A u : Known(u)' <=> Known(u)
  BY KnownById DEF SameIds

\* Somebody who is there was created, and is in Users.
LEMMA KnownCreated ==
  ASSUME UsersOK, TablesOK, NEW u, Known(u)
  PROVE  u \in created /\ u \in Users
  BY DEF UsersOK, TablesOK, Known

\* addUserProvider
LEMMA ListedOK ==
  ASSUME UsersOK, NEW u, NEW p \in Providers, Listed(u, p), created' = created
  PROVE  UsersOK' /\ SameIds
  <1>1. PICK x \in users :
          /\ x.id = u
          /\ users' = (users \ {x}) \cup {UserRow(u, x.email, x.password, x.providers \cup {p})}
    BY DEF Listed
  <1> DEFINE y == UserRow(u, x.email, x.password, x.providers \cup {p})
  <1>2. y \in User /\ y.id = x.id /\ y.email = x.email
    BY <1>1 DEF UsersOK, User, UserRow
  <1>3. \A z \in users : z.email = y.email => z.id = x.id
    BY <1>2 DEF UsersOK
  <1>4. users' = (users \ {x}) \cup {y}
    BY <1>1
  <1> HIDE DEF y
  <1> QED BY <1>2, <1>3, <1>4, UserReplaced

\* Steps that leave the users alone.
LEMMA UsersKept ==
  ASSUME UsersOK, users' = users, created' = created
  PROVE  UsersOK' /\ SameIds
  BY DEF UsersOK, SameIds

\* Only req changes, and perhaps out.
LEMMA TablesKept ==
  ASSUME TablesOK, RowsKnown, SameIds,
         UNCHANGED <<profiles, states, tokens, verifies, created, minted, rows, logins, signed>>,
         out' \subseteq Ids
  PROVE  TablesOK' /\ RowsKnown'
  <1>1. TablesOK'
    BY DEF TablesOK
  <1>2. RowsKnown'
    BY SameKnown DEF RowsKnown
  <1> QED BY <1>1, <1>2

-----------------------------------------------------------------------------
(* TypeInv, action by action *)

LEMMA CreateStateType ==
  ASSUME TypeInv, NEW p \in Providers, NEW u \in Users \cup {NoUser}, CreateState(p, u)
  PROVE  TypeInv'
  <1>1. /\ UsersOK /\ TablesOK /\ RowsKnown /\ TypeOK /\ TaskInv
    BY TypeParts
  <1> DEFINE y == StateRow(minted + 1, p, u, FALSE, TRUE)
  <1>2. /\ minted < MaxState /\ (u = NoUser \/ Known(u))
        /\ states' = states \cup {y} /\ minted' = minted + 1
        /\ UNCHANGED <<users, profiles, tokens, verifies, created, rows, out, logins, signed, req>>
    BY DEF CreateState
  <1>3. minted \in Nat
    BY <1>1 DEF TablesOK
  <1>4. /\ minted + 1 \in Ids /\ minted' \in 0..MaxState
        /\ minted + 1 \in 1..minted' /\ 1..minted \subseteq 1..minted'
        /\ minted + 1 \notin 1..minted
    BY <1>2, <1>3 DEF Ids
  <1>5. y \in AuthState /\ y.id = minted + 1 /\ y.user = u
    BY <1>4 DEF AuthState, StateRow
  <1> HIDE DEF y
  <1>6. /\ states' \subseteq AuthState
        /\ \A s \in states' : s.id \in 1..minted'
        /\ \A s, t \in states' : s.id = t.id => s = t
        /\ logins' \subseteq 1..minted'
    BY <1>1, <1>2, <1>4, <1>5 DEF TablesOK
  <1>7. TablesOK'
    BY <1>1, <1>2, <1>4, <1>6 DEF TablesOK
  <1>8. UsersOK'
    BY <1>1, <1>2, UsersKept
  <1>9. RowsKnown'
    BY <1>1, <1>2, <1>5 DEF RowsKnown, Known
  <1>10. req' \in [Requests -> Request] /\ TaskInv'
    BY <1>1, <1>2, <1>4, ReqKept
  <1> QED BY <1>7, <1>8, <1>9, <1>10, TypeWholeNext

\* The row of a state is replaced by one of the same id.
LEMMA StateReplaced ==
  ASSUME UsersOK, TablesOK, RowsKnown, NEW s \in states, NEW y \in AuthState, y.id = s.id,
         y.user # NoUser => Known(y.user),
         states' = (states \ {s}) \cup {y},
         UNCHANGED <<users, profiles, tokens, verifies, created, minted, rows, out, logins, signed>>
  PROVE  UsersOK' /\ TablesOK' /\ RowsKnown'
  <1>1. UsersOK'
    BY UsersKept
  <1>2. \A z \in states : z.id = s.id => z = s
    BY DEF TablesOK
  <1>3. ASSUME NEW a \in states', NEW b \in states', a.id = b.id PROVE a = b
    <2>1. CASE a = y /\ b # y
      BY <1>2, <1>3, <2>1
    <2>2. CASE a # y /\ b = y
      BY <1>2, <1>3, <2>2
    <2>3. CASE a # y /\ b # y
      BY <1>3, <2>3 DEF TablesOK
    <2> QED BY <2>1, <2>2, <2>3
  <1>4. states' \subseteq AuthState /\ \A z \in states' : z.id \in 1..minted'
    BY DEF TablesOK
  <1>5. TablesOK'
    BY <1>3, <1>4 DEF TablesOK
  <1>6. RowsKnown'
    BY DEF RowsKnown, Known
  <1> QED BY <1>1, <1>5, <1>6

LEMMA StateExpiresType ==
  ASSUME TypeInv, NEW s \in states, StateExpires(s)
  PROVE  TypeInv'
  <1>1. /\ UsersOK /\ TablesOK /\ RowsKnown /\ TypeOK /\ TaskInv
    BY TypeParts
  <1> DEFINE y == StateRow(s.id, s.provider, s.user, s.used, FALSE)
  <1>2. y \in AuthState /\ y.id = s.id /\ y.user = s.user
    BY <1>1 DEF TablesOK, AuthState, StateRow
  <1>3. /\ states' = (states \ {s}) \cup {y}
        /\ UNCHANGED <<users, profiles, tokens, verifies, created, minted, rows, out, logins, signed, req>>
    BY DEF StateExpires
  <1> HIDE DEF y
  <1>4. y.user # NoUser => Known(y.user)
    BY <1>1, <1>2 DEF RowsKnown
  <1>5. UsersOK' /\ TablesOK' /\ RowsKnown'
    BY <1>1, <1>2, <1>3, <1>4, StateReplaced
  <1> QED BY <1>1, <1>3, <1>5, ReqKept, TypeWholeNext

\* A step of request r that leaves the tables alone.
LEMMA OnlyReq ==
  ASSUME TypeInv, req' \in [Requests -> Request], TaskInv',
         UNCHANGED <<users, profiles, states, tokens, verifies, created, minted, rows, out,
                     logins, signed>>
  PROVE  TypeInv'
  <1>1. UsersOK /\ TablesOK /\ RowsKnown
    BY TypeParts
  <1>2. out' \subseteq Ids
    BY <1>1 DEF TablesOK
  <1>3. UsersOK' /\ SameIds
    BY <1>1, UsersKept
  <1>4. TablesOK' /\ RowsKnown'
    BY <1>1, <1>2, <1>3, TablesKept
  <1> QED BY <1>3, <1>4, TypeWholeNext

\* A state read by a request.
LEMMA ReadState ==
  ASSUME TypeInv, NEW s \in states
  PROVE  /\ s \in AuthState /\ s.id \in 1..minted /\ s.id \in Ids /\ s.id # 0
         /\ s.user # NoUser => s.user \in created /\ s.user \in Users
  <1>1. UsersOK /\ TablesOK /\ RowsKnown
    BY TypeParts
  <1>2. s \in AuthState /\ s.id \in 1..minted /\ s.id \in Ids
    BY <1>1 DEF TablesOK, AuthState
  <1>3. s.user # NoUser => Known(s.user)
    BY <1>1 DEF RowsKnown
  <1> QED BY <1>1, <1>2, <1>3, KnownCreated DEF Ids

LEMMA CallbackType ==
  ASSUME TypeInv, NEW r \in Requests, NEW s \in states, NEW a \in Accounts, Callback(r, s, a)
  PROVE  TypeInv'
  <1>1. TypeOK /\ TaskInv
    BY DEF TypeInv
  <1> DEFINE q == Task("found", s, a, NoUser, s.id \notin logins)
  <1>2. q \in Request /\ TaskOK(q, created, minted)
    BY ReadState DEF Task, Request, TaskOK, PC, CallbackPC, VerifyPC, UnlinkPC, UserPC
  <1>3. /\ Continue(r, q)
        /\ UNCHANGED <<users, profiles, states, tokens, verifies, created, minted, rows, out,
                       logins, signed>>
    BY DEF Callback
  <1> HIDE DEF q
  <1>4. req' \in [Requests -> Request] /\ TaskInv'
    BY <1>1, <1>2, <1>3, ContinueOK
  <1> QED BY <1>3, <1>4, OnlyReq

\* The steps of a callback, without a change of the tables.
LEMMA MatchType ==
  ASSUME TypeInv, NEW r \in Requests, Match(r)
  PROVE  TypeInv'
  <1>1. UsersOK /\ TablesOK /\ RowsKnown /\ TypeOK /\ TaskInv
    BY TypeParts
  <1>2. /\ req[r].pc = "found"
        /\ UNCHANGED <<users, profiles, states, tokens, verifies, created, minted, rows, out,
                       logins, signed>>
    BY DEF Match
  <1>3. /\ req[r].item \in Accounts /\ req[r].row \in AuthState /\ req[r].row.id \in 1..minted
        /\ req[r].row.user # NoUser => req[r].row.user \in created
    BY <1>1, <1>2 DEF TaskInv, TaskOK, CallbackPC
  <1>4. created \subseteq Users
    BY <1>1 DEF TablesOK
  <1>5. ASSUME NEW pc \in {"link", "known"}, NEW u \in created, Step(r, pc, u)
        PROVE  req' \in [Requests -> Request] /\ TaskInv'
    <2>1. pc \in PC /\ u \in Users \cup {NoUser}
      BY <1>4 DEF PC
    <2>2. TaskOK(Task(pc, req[r].row, req[r].item, u, req[r].early), created', minted')
      BY <1>2, <1>3 DEF TaskOK, Task, CallbackPC, VerifyPC, UnlinkPC, UserPC
    <2> QED BY <1>1, <1>2, <1>5, <2>1, <2>2, StepOK
  <1>6. ASSUME Step(r, "new", NoUser)
        PROVE  req' \in [Requests -> Request] /\ TaskInv'
    <2>1. "new" \in PC
      BY DEF PC
    <2>2. TaskOK(Task("new", req[r].row, req[r].item, NoUser, req[r].early), created', minted')
      BY <1>2, <1>3 DEF TaskOK, Task, CallbackPC, VerifyPC, UnlinkPC, UserPC
    <2> QED BY <1>1, <1>2, <1>6, <2>1, <2>2, StepOK
  <1>7. \A x \in Tied(req[r].item) : x.user \in created
    BY <1>1, KnownCreated DEF Tied, RowsKnown
  <1>8. req' \in [Requests -> Request] /\ TaskInv'
    <2>1. CASE Finish(r)
      BY <1>1, <1>2, <2>1, FinishOK
    <2>2. CASE req[r].row.user # NoUser /\ Step(r, "link", req[r].row.user)
      BY <1>3, <1>5, <2>2
    <2>3. CASE \E x \in Tied(req[r].item) : Step(r, "known", x.user)
      BY <1>5, <1>7, <2>3
    <2>4. CASE Step(r, "new", NoUser)
      BY <1>6, <2>4
    <2> QED BY <2>1, <2>2, <2>3, <2>4 DEF Match
  <1> QED BY <1>2, <1>8, OnlyReq

\* Later steps of a callback keep its account, its state and its user.
LEMMA CallbackStep ==
  ASSUME TypeInv, NEW r \in Requests, NEW pc \in CallbackPC \ {"found", "new"},
         req[r].pc \in CallbackPC \cap UserPC, Step(r, pc, req[r].user),
         created \subseteq created', 1..minted \subseteq 1..minted'
  PROVE  req' \in [Requests -> Request] /\ TaskInv'
  <1>1. TypeOK /\ TaskInv /\ TablesOK
    BY TypeParts
  <1>2. TaskOK(req[r], created, minted)
    BY <1>1 DEF TaskInv
  <1>3. req[r].user \in created /\ req[r].user \in Users \cup {NoUser}
    BY <1>1, <1>2 DEF TaskOK, TablesOK
  <1>4. pc \in PC
    BY DEF CallbackPC, PC
  <1>5. TaskOK(Task(pc, req[r].row, req[r].item, req[r].user, req[r].early), created', minted')
    BY <1>2, <1>3 DEF TaskOK, Task, CallbackPC, VerifyPC, UnlinkPC, UserPC
  <1> QED BY <1>1, <1>3, <1>4, <1>5, StepOK

\* The upsert of a profile ties an account to somebody only if it is nobody's.
LEMMA UpsertOK ==
  ASSUME UsersOK, TablesOK, RowsKnown, NEW a \in Accounts, NEW u, UpsertProfile(a, u),
         UNCHANGED <<users, states, tokens, verifies, created, minted, rows, out, logins, signed>>
  PROVE  UsersOK' /\ TablesOK' /\ RowsKnown'
  <1>1. UsersOK'
    BY UsersKept
  <1>2. CASE profiles' = profiles
    BY <1>1, <1>2 DEF TablesOK, RowsKnown, Known
  <1>3. CASE /\ Tied(a) = {} /\ Known(u)
             /\ profiles' = profiles \cup {[account |-> a, user |-> u]}
    <2> DEFINE y == [account |-> a, user |-> u]
    <2>1. y \in Profile /\ y.account = a /\ y.user = u
      BY <1>3, KnownCreated DEF Profile
    <2>2. profiles' = profiles \cup {y} /\ \A x \in profiles : x.account # a
      BY <1>3 DEF Tied
    <2> HIDE DEF y
    <2>3. TablesOK'
      BY <2>1, <2>2 DEF TablesOK
    <2>4. RowsKnown'
      BY <1>3, <2>1, <2>2 DEF RowsKnown, Known
    <2> QED BY <1>1, <2>3, <2>4
  <1> QED BY <1>2, <1>3 DEF UpsertProfile

LEMMA SaveProfileType ==
  ASSUME TypeInv, NEW r \in Requests, SaveProfile(r)
  PROVE  TypeInv'
  <1>1. UsersOK /\ TablesOK /\ RowsKnown /\ TypeOK /\ TaskInv
    BY TypeParts
  <1>2. /\ req[r].pc \in {"link", "known"}
        /\ UpsertProfile(req[r].item, req[r].user) /\ Step(r, "attach", req[r].user)
        /\ UNCHANGED <<users, states, tokens, verifies, created, minted, rows, out, logins, signed>>
    BY DEF SaveProfile
  <1>3. req[r].item \in Accounts
    BY <1>1, <1>2 DEF TaskInv, TaskOK, CallbackPC
  <1>4. UsersOK' /\ TablesOK' /\ RowsKnown'
    BY <1>1, <1>2, <1>3, UpsertOK
  <1>5. req' \in [Requests -> Request] /\ TaskInv'
    BY <1>2, CallbackStep DEF CallbackPC, UserPC
  <1> QED BY <1>4, <1>5, TypeWholeNext

LEMMA NewProfileType ==
  ASSUME TypeInv, NEW r \in Requests, NewProfile(r)
  PROVE  TypeInv'
  <1>1. UsersOK /\ TablesOK /\ RowsKnown /\ TypeOK /\ TaskInv
    BY TypeParts
  <1>2. /\ req[r].pc = "made"
        /\ UpsertProfile(req[r].item, req[r].user) /\ Step(r, "profiled", req[r].user)
        /\ UNCHANGED <<users, states, tokens, verifies, created, minted, rows, out, logins, signed>>
    BY DEF NewProfile
  <1>3. req[r].item \in Accounts
    BY <1>1, <1>2 DEF TaskInv, TaskOK, CallbackPC
  <1>4. UsersOK' /\ TablesOK' /\ RowsKnown'
    BY <1>1, <1>2, <1>3, UpsertOK
  <1>5. req' \in [Requests -> Request] /\ TaskInv'
    BY <1>2, CallbackStep DEF CallbackPC, UserPC
  <1> QED BY <1>4, <1>5, TypeWholeNext

LEMMA MakeUserType ==
  ASSUME TypeInv, NEW r \in Requests, NEW u \in Users, MakeUser(r, u)
  PROVE  TypeInv'
  <1>1. UsersOK /\ TablesOK /\ RowsKnown /\ TypeOK /\ TaskInv
    BY TypeParts
  <1> DEFINE a == req[r].item
             y == UserRow(u, EmailOf[a], FALSE, {ProviderOf[a]})
  <1>2. /\ req[r].pc = "new" /\ u \notin created /\ ~ EmailTaken(EmailOf[a])
        /\ users' = users \cup {y} /\ created' = created \cup {u}
        /\ Step(r, "made", u)
        /\ UNCHANGED <<profiles, states, tokens, verifies, minted, rows, out, logins, signed>>
    BY DEF MakeUser
  <1>3. a \in Accounts /\ req[r].row \in AuthState /\ req[r].row.id \in 1..minted
    BY <1>1, <1>2 DEF TaskInv, TaskOK, CallbackPC
  <1>4. y \in User /\ y.id = u /\ y.email = EmailOf[a]
    BY <1>3 DEF User, UserRow
  <1>5. UsersOK'
    <2> HIDE DEF y, a
    <2> QED BY <1>1, <1>2, <1>4, UserAdded
  <1>6. TablesOK'
    BY <1>1, <1>2 DEF TablesOK
  <1>7. RowsKnown'
    <2>1. \A v : Known(v) => Known(v)'
      BY <1>2 DEF Known
    <2> QED BY <1>1, <1>2, <2>1 DEF RowsKnown
  <1>8. req' \in [Requests -> Request] /\ TaskInv'
    <2>1. "made" \in PC
      BY DEF PC
    <2>2. TaskOK(Task("made", req[r].row, req[r].item, u, req[r].early), created', minted')
      BY <1>2, <1>3 DEF TaskOK, Task, CallbackPC, VerifyPC, UnlinkPC, UserPC
    <2>3. created \subseteq created' /\ 1..minted \subseteq 1..minted'
      BY <1>2
    <2> QED BY <1>1, <1>2, <2>1, <2>2, <2>3, StepOK
  <1> QED BY <1>5, <1>6, <1>7, <1>8, TypeWholeNext

LEMMA AddProviderType ==
  ASSUME TypeInv, NEW r \in Requests, AddProvider(r)
  PROVE  TypeInv' /\ SameIds
  <1>1. UsersOK /\ TablesOK /\ RowsKnown /\ TypeOK /\ TaskInv
    BY TypeParts
  <1>2. /\ req[r].pc = "profiled" /\ Listed(req[r].user, ProviderOf[req[r].item])
        /\ Step(r, "attach", req[r].user)
        /\ UNCHANGED <<profiles, states, tokens, verifies, created, minted, rows, out, logins, signed>>
    BY DEF AddProvider
  <1>3. req[r].item \in Accounts
    BY <1>1, <1>2 DEF TaskInv, TaskOK, CallbackPC
  <1>4. ProviderOf[req[r].item] \in Providers
    BY <1>3
  <1>5. UsersOK' /\ SameIds
    BY <1>1, <1>2, <1>4, ListedOK
  <1>6. out' \subseteq Ids
    BY <1>1, <1>2 DEF TablesOK
  <1>7. TablesOK' /\ RowsKnown'
    BY <1>1, <1>2, <1>5, <1>6, TablesKept
  <1>8. req' \in [Requests -> Request] /\ TaskInv'
    BY <1>2, CallbackStep DEF CallbackPC, UserPC
  <1> QED BY <1>5, <1>7, <1>8, TypeWholeNext

LEMMA AttachType ==
  ASSUME TypeInv, NEW r \in Requests, Attach(r)
  PROVE  TypeInv'
  <1>1. UsersOK /\ TablesOK /\ RowsKnown /\ TypeOK /\ TaskInv
    BY TypeParts
  <1>2. PICK s \in Found(req[r].row.id) :
          states' = (states \ {s}) \cup {StateRow(s.id, s.provider, req[r].user, s.used, s.fresh)}
    BY DEF Attach
  <1>3. /\ req[r].pc = "attach" /\ Known(req[r].user) /\ Step(r, "token", req[r].user)
        /\ UNCHANGED <<users, profiles, tokens, verifies, created, minted, rows, out, logins, signed>>
    BY DEF Attach
  <1>4. PICK u : u = req[r].user
    OBVIOUS
  <1> DEFINE y == StateRow(s.id, s.provider, u, s.used, s.fresh)
  <1>5. s \in states /\ u \in Users /\ Known(u)
    BY <1>1, <1>3, <1>4, KnownCreated DEF Found
  <1>6. y \in AuthState /\ y.id = s.id /\ y.user = u
    BY <1>1, <1>5 DEF TablesOK, AuthState, StateRow
  <1>7. states' = (states \ {s}) \cup {y}
    BY <1>2, <1>4
  <1> HIDE DEF y
  <1>8. UsersOK' /\ TablesOK' /\ RowsKnown'
    BY <1>1, <1>3, <1>5, <1>6, <1>7, StateReplaced
  <1>9. req' \in [Requests -> Request] /\ TaskInv'
    BY <1>3, CallbackStep DEF CallbackPC, UserPC
  <1> QED BY <1>8, <1>9, TypeWholeNext

\* A row that the counter of rows names.
LEMMA NextRow ==
  ASSUME TablesOK, rows < MaxRow, rows' = rows + 1, NEW u \in Users, NEW p \in Providers
  PROVE  /\ rows' \in 0..MaxRow
         /\ NewRow(rows + 1, u, p) \in LinkRow
         /\ NewRow(rows + 1, u, p).id = rows + 1 /\ NewRow(rows + 1, u, p).user = u
         /\ NewRow(rows + 1, u, p).provider = p
         /\ rows + 1 \in 1..rows' /\ 1..rows \subseteq 1..rows' /\ rows + 1 \notin 1..rows
  <1>1. rows \in 0..MaxRow /\ rows \in Nat
    BY DEF TablesOK
  <1>2. /\ rows' \in 0..MaxRow /\ rows + 1 \in RowIds
        /\ rows + 1 \in 1..rows' /\ 1..rows \subseteq 1..rows' /\ rows + 1 \notin 1..rows
    BY <1>1 DEF RowIds
  <1> QED BY <1>2 DEF NewRow, LinkRow

LEMMA StoreTokenType ==
  ASSUME TypeInv, NEW r \in Requests, StoreToken(r)
  PROVE  TypeInv'
  <1>1. UsersOK /\ TablesOK /\ RowsKnown /\ TypeOK /\ TaskInv
    BY TypeParts
  <1>2. /\ req[r].pc = "token" /\ Step(r, "stored", req[r].user)
        /\ UNCHANGED <<users, profiles, states, verifies, created, minted, out, logins, signed>>
    BY DEF StoreToken
  <1>3. req' \in [Requests -> Request] /\ TaskInv'
    BY <1>2, CallbackStep DEF CallbackPC, UserPC
  <1>4. UsersOK'
    BY <1>1, <1>2, UsersKept
  <1>5. CASE UNCHANGED <<tokens, rows>>
    <2>1. TablesOK' /\ RowsKnown'
      BY <1>1, <1>2, <1>5 DEF TablesOK, RowsKnown, Known
    <2> QED BY <1>3, <1>4, <2>1, TypeWholeNext
  <1>6. CASE /\ Known(req[r].user) /\ rows < MaxRow
             /\ tokens' = tokens \cup {NewRow(rows + 1, req[r].user, req[r].row.provider)}
             /\ rows' = rows + 1
    <2>1. req[r].user \in Users /\ req[r].row.provider \in Providers
      BY <1>1, <1>2, <1>6, KnownCreated DEF TaskInv, TaskOK, CallbackPC, AuthState
    <2> DEFINE y == NewRow(rows + 1, req[r].user, req[r].row.provider)
    <2>2. rows' \in 0..MaxRow /\ y \in LinkRow /\ y.user = req[r].user
      BY <1>1, <1>6, <2>1, NextRow
    <2>3. tokens' = tokens \cup {y}
      BY <1>6
    <2> HIDE DEF y
    <2>4. TablesOK'
      BY <1>1, <1>2, <2>2, <2>3 DEF TablesOK
    <2>5. RowsKnown'
      BY <1>1, <1>2, <1>6, <2>2, <2>3 DEF RowsKnown, Known
    <2> QED BY <1>3, <1>4, <2>4, <2>5, TypeWholeNext
  <1> QED BY <1>5, <1>6 DEF StoreToken

LEMMA RedirectType ==
  ASSUME TypeInv, NEW r \in Requests, Redirect(r)
  PROVE  TypeInv'
  <1>1. UsersOK /\ TablesOK /\ RowsKnown /\ TypeOK /\ TaskInv
    BY TypeParts
  <1>2. /\ req[r].pc = "stored" /\ Finish(r) /\ out' = out \cup {req[r].row.id}
        /\ UNCHANGED <<users, profiles, states, tokens, created, minted, logins, signed>>
        /\ Known(req[r].user)
    BY DEF Redirect, Known
  <1>3. req' \in [Requests -> Request] /\ TaskInv'
    BY <1>1, <1>2, FinishOK
  <1>4. UsersOK' /\ SameIds
    BY <1>1, <1>2, UsersKept
  <1>5. req[r].row.id \in Ids /\ req[r].row.provider \in Providers /\ req[r].user \in Users
    BY <1>1, <1>2, KnownCreated DEF TaskInv, TaskOK, CallbackPC, AuthState
  <1>6. out' \subseteq Ids
    BY <1>1, <1>2, <1>5 DEF TablesOK
  <1>7. CASE UNCHANGED <<verifies, rows>>
    <2>1. TablesOK' /\ RowsKnown'
      BY <1>1, <1>2, <1>4, <1>6, <1>7, TablesKept
    <2> QED BY <1>3, <1>4, <2>1, TypeWholeNext
  <1>8. CASE NewLink(req[r].user, req[r].row.provider)
    <2> DEFINE y == NewRow(rows + 1, req[r].user, req[r].row.provider)
    <2>1. /\ rows < MaxRow /\ rows' = rows + 1
          /\ verifies' \subseteq verifies \cup {y}
      BY <1>8 DEF NewLink
    <2>2. rows' \in 0..MaxRow /\ y \in LinkRow /\ y.user = req[r].user
      BY <1>1, <1>5, <2>1, NextRow
    <2> HIDE DEF y
    <2>3. TablesOK'
      BY <1>1, <1>2, <1>6, <2>1, <2>2 DEF TablesOK
    <2>4. RowsKnown'
      BY <1>1, <1>2, <2>1, <2>2 DEF RowsKnown, Known
    <2> QED BY <1>3, <1>4, <2>3, <2>4, TypeWholeNext
  <1> QED BY <1>7, <1>8 DEF Redirect

LEMMA VerifyType ==
  ASSUME TypeInv, NEW r \in Requests, NEW s \in states, Verify(r, s)
  PROVE  TypeInv'
  <1>1. TypeOK /\ TaskInv
    BY DEF TypeInv
  <1> DEFINE q == Task("verify", s, None, s.user, s.id \notin logins)
  <1>2. q \in Request /\ TaskOK(q, created, minted)
    BY ReadState DEF Verify, Task, Request, TaskOK, PC, CallbackPC, VerifyPC, UnlinkPC, UserPC
  <1>3. /\ Continue(r, q)
        /\ UNCHANGED <<users, profiles, states, tokens, verifies, created, minted, rows, out,
                       logins, signed>>
    BY DEF Verify
  <1> HIDE DEF q
  <1>4. req' \in [Requests -> Request] /\ TaskInv'
    BY <1>1, <1>2, <1>3, ContinueOK
  <1> QED BY <1>3, <1>4, OnlyReq

LEMMA ConsumeStateType ==
  ASSUME TypeInv, NEW r \in Requests, ConsumeState(r)
  PROVE  TypeInv'
  <1>1. UsersOK /\ TablesOK /\ RowsKnown /\ TypeOK /\ TaskInv
    BY TypeParts
  <1>2. PICK s \in Found(req[r].row.id) :
          states' = (states \ {s}) \cup {StateRow(s.id, s.provider, s.user, TRUE, s.fresh)}
    BY DEF ConsumeState
  <1>3. /\ req[r].pc = "verify" /\ Step(r, "consumed", req[r].user)
        /\ UNCHANGED <<users, profiles, tokens, verifies, created, minted, rows, out, logins, signed>>
    BY DEF ConsumeState
  <1> DEFINE y == StateRow(s.id, s.provider, s.user, TRUE, s.fresh)
  <1>4. s \in states
    BY DEF Found
  <1>5. y \in AuthState /\ y.id = s.id /\ (y.user # NoUser => Known(y.user))
    BY <1>1, <1>4 DEF TablesOK, RowsKnown, AuthState, StateRow
  <1>6. states' = (states \ {s}) \cup {y}
    BY <1>2
  <1> HIDE DEF y
  <1>7. UsersOK' /\ TablesOK' /\ RowsKnown'
    BY <1>1, <1>3, <1>4, <1>5, <1>6, StateReplaced
  <1>8. TaskOK(req[r], created, minted)
    BY <1>1 DEF TaskInv
  <1>9. req[r].user \in Users \cup {NoUser} /\ "consumed" \in PC
    BY <1>1, <1>3, <1>8 DEF TaskOK, UserPC, PC, TablesOK
  <1>10. TaskOK(Task("consumed", req[r].row, req[r].item, req[r].user, req[r].early), created', minted')
    BY <1>3, <1>8 DEF TaskOK, Task, CallbackPC, VerifyPC, UnlinkPC, UserPC
  <1>11. req' \in [Requests -> Request] /\ TaskInv'
    BY <1>1, <1>3, <1>9, <1>10, StepOK
  <1> QED BY <1>7, <1>11, TypeWholeNext

LEMMA LogInType ==
  ASSUME TypeInv, NEW r \in Requests, LogIn(r)
  PROVE  TypeInv'
  <1>1. UsersOK /\ TablesOK /\ RowsKnown /\ TypeOK /\ TaskInv
    BY TypeParts
  <1>2. /\ req[r].pc = "consumed" /\ Known(req[r].user) /\ Finish(r)
        /\ logins' = logins \cup {req[r].row.id} /\ signed' = signed \cup {req[r].user}
        /\ UNCHANGED <<users, profiles, states, tokens, verifies, created, minted, rows, out>>
    BY DEF LogIn
  <1>3. req' \in [Requests -> Request] /\ TaskInv'
    BY <1>1, <1>2, FinishOK
  <1>4. req[r].row.id \in 1..minted /\ req[r].user \in created
    BY <1>1, <1>2 DEF TaskInv, TaskOK, VerifyPC, UserPC
  <1>5. UsersOK'
    BY <1>1, <1>2, UsersKept
  <1>6. TablesOK'
    BY <1>1, <1>2, <1>4 DEF TablesOK
  <1>7. RowsKnown'
    BY <1>1, <1>2 DEF RowsKnown, Known
  <1> QED BY <1>3, <1>5, <1>6, <1>7, TypeWholeNext

LEMMA LinkVerifyType ==
  ASSUME TypeInv, NEW r \in Requests, NEW v \in verifies, LinkVerify(r, v)
  PROVE  TypeInv'
  <1>1. UsersOK /\ TablesOK /\ RowsKnown /\ TypeOK /\ TaskInv
    BY TypeParts
  <1> DEFINE q == Task("linking", NoState, v, v.user, FALSE)
  <1>2. v \in LinkRow /\ v.user \in Users
    BY <1>1 DEF TablesOK, LinkRow
  <1>3. q \in Request /\ TaskOK(q, created, minted)
    BY <1>2 DEF Task, Request, TaskOK, PC, CallbackPC, VerifyPC, UnlinkPC, UserPC
  <1>4. /\ Continue(r, q)
        /\ UNCHANGED <<users, profiles, states, tokens, verifies, created, minted, rows, out,
                       logins, signed>>
    BY DEF LinkVerify
  <1> HIDE DEF q
  <1>5. req' \in [Requests -> Request] /\ TaskInv'
    BY <1>1, <1>3, <1>4, ContinueOK
  <1> QED BY <1>4, <1>5, OnlyReq

LEMMA MarkLinkedType ==
  ASSUME TypeInv, NEW r \in Requests, MarkLinked(r)
  PROVE  TypeInv'
  <1>1. UsersOK /\ TablesOK /\ RowsKnown /\ TypeOK /\ TaskInv
    BY TypeParts
  <1>2. /\ req[r].pc = "linking" /\ Finish(r)
        /\ UNCHANGED <<profiles, states, tokens, created, minted, rows, out, logins, signed>>
    BY DEF MarkLinked
  <1>3. req' \in [Requests -> Request] /\ TaskInv'
    BY <1>1, <1>2, FinishOK
  <1>4. CASE UNCHANGED <<users, verifies>>
    BY <1>2, <1>3, <1>4, OnlyReq
  <1>5. CASE Finalize(req[r].item)
    <2>1. req[r].item.provider \in Providers
      BY <1>1, <1>2 DEF TaskInv, TaskOK, LinkRow
    <2>2. UsersOK' /\ SameIds
      BY <1>1, <1>2, <1>5, <2>1, ListedOK DEF Finalize
    <2>3. verifies' \subseteq verifies
      BY <1>5 DEF Finalize
    <2>4. TablesOK'
      BY <1>1, <1>2, <2>3 DEF TablesOK
    <2>5. RowsKnown'
      BY <1>1, <1>2, <2>2, <2>3, SameKnown DEF RowsKnown
    <2> QED BY <1>3, <2>2, <2>4, <2>5, TypeWholeNext
  <1> QED BY <1>4, <1>5 DEF MarkLinked

LEMMA UnlinkType ==
  ASSUME TypeInv, NEW r \in Requests, NEW x \in users, NEW p \in Providers, Unlink(r, x, p)
  PROVE  TypeInv'
  <1>1. UsersOK /\ TablesOK /\ TypeOK /\ TaskInv
    BY TypeParts
  <1> DEFINE q == Task("unlink", NoState, p, x.id, FALSE)
  <1>2. x.id \in Users /\ x.id \in created
    BY <1>1 DEF UsersOK, User
  <1>3. q \in Request /\ TaskOK(q, created, minted)
    BY <1>2 DEF Task, Request, TaskOK, PC, CallbackPC, VerifyPC, UnlinkPC, UserPC
  <1>4. /\ Continue(r, q)
        /\ UNCHANGED <<users, profiles, states, tokens, verifies, created, minted, rows, out,
                       logins, signed>>
    BY DEF Unlink
  <1> HIDE DEF q
  <1>5. req' \in [Requests -> Request] /\ TaskInv'
    BY <1>1, <1>3, <1>4, ContinueOK
  <1> QED BY <1>4, <1>5, OnlyReq

\* The next step of an unlink.
LEMMA UnlinkStep ==
  ASSUME TypeInv, NEW r \in Requests, NEW pc \in {"unlisted", "unlinked"},
         req[r].pc \in UnlinkPC, Step(r, pc, req[r].user),
         created' = created, minted' = minted
  PROVE  req' \in [Requests -> Request] /\ TaskInv'
  <1>1. TypeOK /\ TaskInv /\ TablesOK
    BY TypeParts
  <1>2. TaskOK(req[r], created, minted)
    BY <1>1 DEF TaskInv
  <1>3. req[r].user \in Users \cup {NoUser} /\ pc \in PC
    BY <1>1, <1>2 DEF TaskOK, UnlinkPC, UserPC, TablesOK, PC
  <1>4. TaskOK(Task(pc, req[r].row, req[r].item, req[r].user, req[r].early), created', minted')
    BY <1>2 DEF TaskOK, Task, CallbackPC, VerifyPC, UnlinkPC, UserPC
  <1> QED BY <1>1, <1>3, <1>4, StepOK

LEMMA UnlistType ==
  ASSUME TypeInv, NEW r \in Requests, Unlist(r)
  PROVE  TypeInv' /\ SameIds
  <1>1. UsersOK /\ TablesOK /\ RowsKnown /\ TypeOK /\ TaskInv
    BY TypeParts
  <1>2. /\ req[r].pc = "unlink" /\ Step(r, "unlisted", req[r].user)
        /\ UNCHANGED <<profiles, states, tokens, verifies, created, minted, rows, out, logins, signed>>
    BY DEF Unlist
  <1>3. PICK x \in users :
          /\ x.id = req[r].user
          /\ users' = (users \ {x}) \cup
               {UserRow(req[r].user, x.email, x.password, x.providers \ {req[r].item})}
    BY DEF Unlist
  <1> DEFINE y == UserRow(req[r].user, x.email, x.password, x.providers \ {req[r].item})
  <1>4. y \in User /\ y.id = x.id /\ y.email = x.email
    BY <1>1, <1>3 DEF UsersOK, User, UserRow
  <1>5. \A z \in users : z.email = y.email => z.id = x.id
    BY <1>1, <1>4 DEF UsersOK
  <1>6. users' = (users \ {x}) \cup {y}
    BY <1>3
  <1>7. UsersOK' /\ SameIds
    <2> HIDE DEF y
    <2> QED BY <1>1, <1>2, <1>4, <1>5, <1>6, UserReplaced
  <1>8. out' \subseteq Ids
    BY <1>1, <1>2 DEF TablesOK
  <1>9. TablesOK' /\ RowsKnown'
    BY <1>1, <1>2, <1>7, <1>8, TablesKept
  <1>10. req' \in [Requests -> Request] /\ TaskInv'
    BY <1>2, UnlinkStep DEF UnlinkPC
  <1> QED BY <1>7, <1>9, <1>10, TypeWholeNext

LEMMA RemoveProfileType ==
  ASSUME TypeInv, NEW r \in Requests, RemoveProfile(r)
  PROVE  TypeInv'
  <1>1. UsersOK /\ TablesOK /\ RowsKnown /\ TypeOK /\ TaskInv
    BY TypeParts
  <1>2. /\ req[r].pc = "unlisted" /\ Step(r, "unlinked", req[r].user)
        /\ profiles' \subseteq profiles
        /\ UNCHANGED <<users, states, tokens, verifies, created, minted, rows, out, logins, signed>>
    BY DEF RemoveProfile
  <1>3. UsersOK' /\ TablesOK' /\ RowsKnown'
    BY <1>1, <1>2 DEF UsersOK, TablesOK, RowsKnown, Known
  <1>4. req' \in [Requests -> Request] /\ TaskInv'
    BY <1>2, UnlinkStep DEF UnlinkPC
  <1> QED BY <1>3, <1>4, TypeWholeNext

LEMMA RemoveTokensType ==
  ASSUME TypeInv, NEW r \in Requests, RemoveTokens(r)
  PROVE  TypeInv'
  <1>1. UsersOK /\ TablesOK /\ RowsKnown /\ TypeOK /\ TaskInv
    BY TypeParts
  <1>2. /\ Finish(r) /\ tokens' \subseteq tokens
        /\ UNCHANGED <<users, profiles, states, verifies, created, minted, rows, out, logins, signed>>
    BY DEF RemoveTokens
  <1>3. UsersOK' /\ TablesOK' /\ RowsKnown'
    BY <1>1, <1>2 DEF UsersOK, TablesOK, RowsKnown, Known
  <1>4. req' \in [Requests -> Request] /\ TaskInv'
    BY <1>1, <1>2, FinishOK
  <1> QED BY <1>3, <1>4, TypeWholeNext

LEMMA FailType ==
  ASSUME TypeInv, NEW r \in Requests, Fail(r)
  PROVE  TypeInv'
  <1>1. TypeOK /\ TaskInv
    BY TypeParts
  <1>2. req' \in [Requests -> Request] /\ TaskInv'
    BY <1>1, FinishOK DEF Fail
  <1> QED BY <1>2, OnlyReq DEF Fail

LEMMA RegisterType ==
  ASSUME TypeInv, NEW u \in Users, NEW e \in Emails, Register(u, e)
  PROVE  TypeInv'
  <1>1. UsersOK /\ TablesOK /\ RowsKnown /\ TypeOK /\ TaskInv
    BY TypeParts
  <1> DEFINE y == UserRow(u, e, TRUE, {})
  <1>2. /\ u \notin created /\ ~ EmailTaken(e)
        /\ users' = users \cup {y} /\ created' = created \cup {u}
        /\ UNCHANGED <<profiles, states, tokens, verifies, minted, rows, out, logins, signed, req>>
    BY DEF Register
  <1>3. y \in User /\ y.id = u /\ y.email = e
    BY DEF User, UserRow
  <1> HIDE DEF y
  <1>4. UsersOK'
    BY <1>1, <1>2, <1>3, UserAdded
  <1>5. TablesOK'
    BY <1>1, <1>2 DEF TablesOK
  <1>6. RowsKnown'
    <2>1. \A v : Known(v) => Known(v)'
      BY <1>2 DEF Known
    <2> QED BY <1>1, <1>2, <2>1 DEF RowsKnown
  <1>7. req' \in [Requests -> Request] /\ TaskInv'
    BY <1>1, <1>2, ReqKept
  <1> QED BY <1>4, <1>5, <1>6, <1>7, TypeWholeNext

\* The row of a user is rewritten and nothing else.
LEMMA UserRewritten ==
  ASSUME TypeInv, NEW x \in users, NEW y \in User, y.id = x.id,
         \A z \in users : z.email = y.email => z.id = x.id,
         users' = (users \ {x}) \cup {y},
         UNCHANGED <<profiles, states, tokens, verifies, created, minted, rows, out, logins,
                     signed, req>>
  PROVE  TypeInv'
  <1>1. UsersOK /\ TablesOK /\ RowsKnown /\ TypeOK /\ TaskInv
    BY TypeParts
  <1>2. UsersOK' /\ SameIds
    BY <1>1, UserReplaced
  <1>3. out' \subseteq Ids
    BY <1>1 DEF TablesOK
  <1>4. TablesOK' /\ RowsKnown'
    BY <1>1, <1>2, <1>3, TablesKept
  <1>5. req' \in [Requests -> Request] /\ TaskInv'
    BY <1>1, ReqKept
  <1> QED BY <1>2, <1>4, <1>5, TypeWholeNext

LEMMA SetPasswordType ==
  ASSUME TypeInv, NEW x \in users, SetPassword(x)
  PROVE  TypeInv'
  <1>1. UsersOK
    BY TypeParts
  <1> DEFINE y == UserRow(x.id, x.email, TRUE, x.providers)
  <1>2. y \in User /\ y.id = x.id /\ y.email = x.email
    BY <1>1 DEF UsersOK, User, UserRow
  <1>3. /\ users' = (users \ {x}) \cup {y}
        /\ UNCHANGED <<profiles, states, tokens, verifies, created, minted, rows, out, logins, signed, req>>
    BY DEF SetPassword
  <1> HIDE DEF y
  <1>4. \A z \in users : z.email = y.email => z.id = x.id
    BY <1>1, <1>2 DEF UsersOK
  <1> QED BY <1>2, <1>3, <1>4, UserRewritten

LEMMA ChangeEmailType ==
  ASSUME TypeInv, NEW x \in users, NEW e \in Emails, ChangeEmail(x, e)
  PROVE  TypeInv'
  <1>1. UsersOK
    BY TypeParts
  <1> DEFINE y == UserRow(x.id, e, x.password, x.providers)
  <1>2. y \in User /\ y.id = x.id /\ y.email = e
    BY <1>1 DEF UsersOK, User, UserRow
  <1>3. /\ users' = (users \ {x}) \cup {y} /\ ~ EmailTaken(e)
        /\ UNCHANGED <<profiles, states, tokens, verifies, created, minted, rows, out, logins, signed, req>>
    BY DEF ChangeEmail
  <1> HIDE DEF y
  <1>4. \A z \in users : z.email = y.email => z.id = x.id
    BY <1>2, <1>3 DEF EmailTaken
  <1> QED BY <1>2, <1>3, <1>4, UserRewritten

LEMMA DeleteUserType ==
  ASSUME TypeInv, NEW x \in users, DeleteUser(x)
  PROVE  TypeInv'
  <1>1. UsersOK /\ TablesOK /\ RowsKnown /\ TypeOK /\ TaskInv
    BY TypeParts
  <1>2. /\ \A v \in verifies : v.user # x.id
        /\ users' = users \ {x}
        /\ profiles' = {y \in profiles : y.user # x.id}
        /\ states' = {s \in states : s.user # x.id}
        /\ tokens' = {t \in tokens : t.user # x.id}
        /\ UNCHANGED <<verifies, created, minted, rows, out, logins, signed, req>>
    BY DEF DeleteUser
  <1>3. UsersOK' /\ TablesOK'
    BY <1>1, <1>2 DEF UsersOK, TablesOK
  <1>4. \A u : u # x.id /\ Known(u) => Known(u)'
    BY <1>2 DEF Known
  <1>5. RowsKnown'
    BY <1>1, <1>2, <1>4 DEF RowsKnown
  <1>6. req' \in [Requests -> Request] /\ TaskInv'
    BY <1>1, <1>2, ReqKept
  <1> QED BY <1>3, <1>5, <1>6, TypeWholeNext

LEMMA HandlerType ==
  ASSUME TypeInv, NEW r \in Requests, Handler(r)
  PROVE  TypeInv'
  <1>1. CASE LinkHandler(r)
    BY <1>1, LinkVerifyType, MarkLinkedType DEF LinkHandler
  <1>2. CASE UnlinkHandler(r)
    BY <1>2, UnlinkType, UnlistType, RemoveProfileType, RemoveTokensType DEF UnlinkHandler
  <1> QED BY <1>1, <1>2, CallbackType, MatchType, SaveProfileType, MakeUserType, NewProfileType,
    AddProviderType, AttachType, StoreTokenType, RedirectType, VerifyType, ConsumeStateType,
    LogInType, FailType DEF Handler

LEMMA NextType ==
  ASSUME TypeInv, Next
  PROVE  TypeInv'
  BY CreateStateType, StateExpiresType, HandlerType, RegisterType, SetPasswordType,
     DeleteUserType, ChangeEmailType DEF Next

LEMMA InitType ==
  ASSUME Init
  PROVE  TypeInv
  <1>1. Idle \in Request /\ TaskOK(Idle, {}, 0)
    BY DEF Idle, Task, Request, TaskOK, PC, CallbackPC, VerifyPC, UnlinkPC, UserPC
  <1>2. req \in [Requests -> Request] /\ TaskInv
    BY <1>1 DEF Init, TaskInv
  <1>3. UsersOK /\ TablesOK /\ RowsKnown
    BY DEF Init, UsersOK, TablesOK, RowsKnown
  <1> QED BY <1>2, <1>3, TypeWhole

-----------------------------------------------------------------------------
(* LoginInv *)

\* States come from states and stay marked, or have the next id; no request
\* gets ready to log in.
LEMMA LoginKept ==
  ASSUME TypeInv, LoginInv, logins' = logins,
         \A y \in states' :
           y.id = minted + 1 \/ \E s \in states : s.id = y.id /\ (s.used => y.used),
         \A r \in Requests : req'[r].pc = "consumed" => req'[r] = req[r]
  PROVE  LoginInv'
  <1>1. TablesOK /\ TaskInv
    BY TypeParts
  <1>2. minted + 1 \notin 1..minted
    BY <1>1 DEF TablesOK
  <1>3. ASSUME NEW y \in states', y.id \in logins' PROVE y.used
    <2>1. y.id \in 1..minted
      BY <1>1, <1>3 DEF TablesOK
    <2>2. PICK s \in states : s.id = y.id /\ (s.used => y.used)
      BY <1>2, <2>1
    <2> QED BY <1>3, <2>2 DEF LoginInv
  <1>4. ASSUME NEW r \in Requests, req'[r].pc = "consumed",
               NEW y \in states', y.id = req'[r].row.id
        PROVE  y.used
    <2>1. req'[r] = req[r]
      BY <1>4
    <2>2. req[r].row.id \in 1..minted
      BY <1>1, <1>4, <2>1 DEF TaskInv, TaskOK, VerifyPC
    <2>3. PICK s \in states : s.id = y.id /\ (s.used => y.used)
      BY <1>2, <1>4, <2>1, <2>2
    <2> QED BY <1>4, <2>1, <2>3 DEF LoginInv
  <1> QED BY <1>3, <1>4 DEF LoginInv

\* The same, of a step of one request.
LEMMA LoginKeptBy ==
  ASSUME TypeInv, LoginInv, logins' = logins,
         \A y \in states' :
           y.id = minted + 1 \/ \E s \in states : s.id = y.id /\ (s.used => y.used),
         NEW r \in Requests, OthersStay(r), req'[r].pc # "consumed"
  PROVE  LoginInv'
  BY LoginKept DEF OthersStay

LEMMA ConsumeStateLogin ==
  ASSUME TypeInv, LoginInv, NEW r \in Requests, ConsumeState(r)
  PROVE  LoginInv'
  <1>1. TablesOK /\ TypeOK
    BY TypeParts
  <1>2. PICK s \in states :
          /\ s.id = req[r].row.id
          /\ states' = (states \ {s}) \cup {StateRow(s.id, s.provider, s.user, TRUE, s.fresh)}
    BY DEF ConsumeState, Found
  <1>3. logins' = logins /\ Step(r, "consumed", req[r].user)
    BY DEF ConsumeState
  <1>4. req'[r].row = req[r].row /\ OthersStay(r)
    BY <1>1, <1>3, Steps
  <1>5. \A y \in states' : y.id \in logins' => y.used
    BY <1>2, <1>3 DEF LoginInv, StateRow
  <1>6. \A y \in states' : y.id = req'[r].row.id => y.used
    BY <1>1, <1>2, <1>4 DEF TablesOK, StateRow
  <1>7. \A p \in Requests : p # r /\ req'[p].pc = "consumed" =>
          \A y \in states' : y.id = req'[p].row.id => y.used
    BY <1>2, <1>4 DEF LoginInv, OthersStay, StateRow
  <1> QED BY <1>5, <1>6, <1>7 DEF LoginInv

LEMMA LogInLogin ==
  ASSUME TypeInv, LoginInv, NEW r \in Requests, LogIn(r)
  PROVE  LoginInv'
  <1>1. /\ logins' = logins \cup {req[r].row.id} /\ states' = states
        /\ req[r].pc = "consumed" /\ Finish(r)
    BY DEF LogIn
  <1>2. req'[r].pc = "idle" /\ OthersStay(r)
    BY <1>1, Ends DEF TypeInv
  <1> QED BY <1>1, <1>2 DEF LoginInv, OthersStay

\* Every step of a request.
LEMMA HandlerLogin ==
  ASSUME TypeInv, LoginInv, NEW r \in Requests, Handler(r)
  PROVE  LoginInv'
  <1>0. TypeOK
    BY DEF TypeInv
  <1>1. CASE \E s \in states, a \in Accounts : Callback(r, s, a)
    <2>1. req'[r].pc = "found" /\ OthersStay(r)
      BY <1>0, <1>1, Moves DEF Callback, Task
    <2> QED BY <1>1, <2>1, LoginKeptBy DEF Callback
  <1>2. CASE Match(r)
    <2>1. req'[r].pc # "consumed" /\ OthersStay(r)
      BY <1>0, <1>2, Steps, Ends DEF Match
    <2> QED BY <1>2, <2>1, LoginKeptBy DEF Match
  <1>3. CASE SaveProfile(r)
    <2>1. req'[r].pc = "attach" /\ OthersStay(r)
      BY <1>0, <1>3, Steps DEF SaveProfile
    <2> QED BY <1>3, <2>1, LoginKeptBy DEF SaveProfile
  <1>4. CASE \E u \in Users : MakeUser(r, u)
    <2>1. req'[r].pc = "made" /\ OthersStay(r)
      BY <1>0, <1>4, Steps DEF MakeUser
    <2> QED BY <1>4, <2>1, LoginKeptBy DEF MakeUser
  <1>5. CASE NewProfile(r)
    <2>1. req'[r].pc = "profiled" /\ OthersStay(r)
      BY <1>0, <1>5, Steps DEF NewProfile
    <2> QED BY <1>5, <2>1, LoginKeptBy DEF NewProfile
  <1>6. CASE AddProvider(r)
    <2>1. req'[r].pc = "attach" /\ OthersStay(r)
      BY <1>0, <1>6, Steps DEF AddProvider
    <2> QED BY <1>6, <2>1, LoginKeptBy DEF AddProvider
  <1>7. CASE Attach(r)
    <2>1. req'[r].pc = "token" /\ OthersStay(r)
      BY <1>0, <1>7, Steps DEF Attach
    <2>2. \A y \in states' : \E s \in states : s.id = y.id /\ (s.used => y.used)
      BY <1>7 DEF Attach, Found, StateRow
    <2> QED BY <1>7, <2>1, <2>2, LoginKeptBy DEF Attach
  <1>8. CASE StoreToken(r)
    <2>1. req'[r].pc = "stored" /\ OthersStay(r)
      BY <1>0, <1>8, Steps DEF StoreToken
    <2> QED BY <1>8, <2>1, LoginKeptBy DEF StoreToken
  <1>9. CASE Redirect(r)
    <2>1. req'[r].pc = "idle" /\ OthersStay(r)
      BY <1>0, <1>9, Ends DEF Redirect
    <2> QED BY <1>9, <2>1, LoginKeptBy DEF Redirect
  <1>10. CASE \E s \in states : Verify(r, s)
    <2>1. req'[r].pc = "verify" /\ OthersStay(r)
      BY <1>0, <1>10, Moves DEF Verify, Task
    <2> QED BY <1>10, <2>1, LoginKeptBy DEF Verify
  <1>11. CASE ConsumeState(r)
    BY <1>11, ConsumeStateLogin
  <1>12. CASE LogIn(r)
    BY <1>12, LogInLogin
  <1>13. CASE LinkHandler(r)
    <2>1. req'[r].pc # "consumed" /\ OthersStay(r)
      <3>1. ASSUME NEW v \in verifies, LinkVerify(r, v)
            PROVE  req'[r].pc # "consumed" /\ OthersStay(r)
        BY <1>0, <3>1, Moves DEF LinkVerify, Task
      <3>2. CASE MarkLinked(r)
        BY <1>0, <3>2, Ends DEF MarkLinked
      <3> QED BY <1>13, <3>1, <3>2 DEF LinkHandler
    <2> QED BY <1>13, <2>1, LoginKeptBy DEF LinkHandler, LinkVerify, MarkLinked
  <1>14. CASE UnlinkHandler(r)
    <2>1. req'[r].pc # "consumed" /\ OthersStay(r)
      <3>1. ASSUME NEW x \in users, NEW p \in Providers, Unlink(r, x, p)
            PROVE  req'[r].pc # "consumed" /\ OthersStay(r)
        BY <1>0, <3>1, Moves DEF Unlink, Task
      <3>2. CASE Unlist(r) \/ RemoveProfile(r)
        BY <1>0, <3>2, Steps DEF Unlist, RemoveProfile
      <3>3. CASE RemoveTokens(r)
        BY <1>0, <3>3, Ends DEF RemoveTokens
      <3> QED BY <1>14, <3>1, <3>2, <3>3 DEF UnlinkHandler
    <2>2. states' = states /\ logins' = logins
      BY <1>14 DEF UnlinkHandler, Unlink, Unlist, RemoveProfile, RemoveTokens
    <2> QED BY <2>1, <2>2, LoginKeptBy
  <1>15. CASE Fail(r)
    <2>1. req'[r].pc = "idle" /\ OthersStay(r)
      BY <1>0, <1>15, Ends DEF Fail
    <2> QED BY <1>15, <2>1, LoginKeptBy DEF Fail
  <1> QED BY <1>1, <1>2, <1>3, <1>4, <1>5, <1>6, <1>7, <1>8, <1>9, <1>10, <1>11, <1>12,
             <1>13, <1>14, <1>15 DEF Handler

LEMMA NextLogin ==
  ASSUME TypeInv, LoginInv, Next
  PROVE  LoginInv'
  <1>1. CASE \E p \in Providers, u \in Users \cup {NoUser} : CreateState(p, u)
    BY <1>1, LoginKept DEF CreateState, StateRow
  <1>2. CASE \E s \in states : StateExpires(s)
    <2>1. PICK s \in states : StateExpires(s)
      BY <1>2
    <2> QED BY <2>1, LoginKept DEF StateExpires, StateRow
  <1>3. CASE \E r \in Requests : Handler(r)
    BY <1>3, HandlerLogin
  <1>4. CASE \E u \in Users, e \in Emails : Register(u, e)
    BY <1>4, LoginKept DEF Register
  <1>5. CASE \E x \in users : SetPassword(x) \/ DeleteUser(x)
    BY <1>5, LoginKept DEF SetPassword, DeleteUser
  <1>6. CASE \E x \in users, e \in Emails : ChangeEmail(x, e)
    BY <1>6, LoginKept DEF ChangeEmail
  <1> QED BY <1>1, <1>2, <1>3, <1>4, <1>5, <1>6 DEF Next

-----------------------------------------------------------------------------
(* LoginEndsState *)

LEMMA EarlyKept ==
  ASSUME LoginEndsState, NEW r \in Requests, OthersStay(r),
         req'[r].row # NoState => req'[r].early
  PROVE  LoginEndsState'
  BY DEF LoginEndsState, OthersStay

\* The next step of a request has the state it had.
LEMMA EarlyStep ==
  ASSUME TypeInv, LoginEndsState, NEW r \in Requests, NEW pc, NEW u, Step(r, pc, u)
  PROVE  LoginEndsState'
  <1>1. req'[r].row = req[r].row /\ req'[r].early = req[r].early /\ OthersStay(r)
    BY Steps DEF TypeInv
  <1> QED BY <1>1, EarlyKept DEF LoginEndsState

LEMMA EarlyFinish ==
  ASSUME TypeInv, LoginEndsState, NEW r \in Requests, Finish(r)
  PROVE  LoginEndsState'
  BY Ends, EarlyKept DEF TypeInv

\* A state gets in while it is unused, and by LoginInv nobody has logged in
\* with it.
LEMMA HandlerEarly ==
  ASSUME TypeInv, LoginInv, LoginEndsState, NEW r \in Requests, Handler(r)
  PROVE  LoginEndsState'
  <1>0. TypeOK
    BY DEF TypeInv
  <1>1. CASE \E s \in states, a \in Accounts : Callback(r, s, a)
    <2>1. PICK s \in states, a \in Accounts : Callback(r, s, a)
      BY <1>1
    <2>2. s.id \notin logins
      BY <2>1 DEF Callback, LoginInv
    <2>3. req'[r].early = (s.id \notin logins) /\ OthersStay(r)
      BY <1>0, <2>1, Moves DEF Callback, Task
    <2> QED BY <2>2, <2>3, EarlyKept
  <1>2. CASE Match(r)
    BY <1>2, EarlyStep, EarlyFinish DEF Match
  <1>3. CASE SaveProfile(r) \/ (\E u \in Users : MakeUser(r, u)) \/ NewProfile(r)
             \/ AddProvider(r) \/ Attach(r) \/ StoreToken(r) \/ ConsumeState(r)
    BY <1>3, EarlyStep
    DEF SaveProfile, MakeUser, NewProfile, AddProvider, Attach, StoreToken, ConsumeState
  <1>4. CASE Redirect(r) \/ LogIn(r) \/ Fail(r)
    BY <1>4, EarlyFinish DEF Redirect, LogIn, Fail
  <1>5. CASE \E s \in states : Verify(r, s)
    <2>1. PICK s \in states : Verify(r, s)
      BY <1>5
    <2>2. s.id \notin logins
      BY <2>1 DEF Verify, LoginInv
    <2>3. req'[r].early = (s.id \notin logins) /\ OthersStay(r)
      BY <1>0, <2>1, Moves DEF Verify, Task
    <2> QED BY <2>2, <2>3, EarlyKept
  <1>6. CASE LinkHandler(r)
    <2>1. ASSUME NEW v \in verifies, LinkVerify(r, v) PROVE LoginEndsState'
      <3>1. req'[r].row = NoState /\ OthersStay(r)
        BY <1>0, <2>1, Moves DEF LinkVerify, Task
      <3> QED BY <3>1, EarlyKept
    <2>2. CASE MarkLinked(r)
      BY <2>2, EarlyFinish DEF MarkLinked
    <2> QED BY <1>6, <2>1, <2>2 DEF LinkHandler
  <1>7. CASE UnlinkHandler(r)
    <2>1. ASSUME NEW x \in users, NEW p \in Providers, Unlink(r, x, p) PROVE LoginEndsState'
      <3>1. req'[r].row = NoState /\ OthersStay(r)
        BY <1>0, <2>1, Moves DEF Unlink, Task
      <3> QED BY <3>1, EarlyKept
    <2>2. CASE Unlist(r) \/ RemoveProfile(r)
      BY <2>2, EarlyStep DEF Unlist, RemoveProfile
    <2>3. CASE RemoveTokens(r)
      BY <2>3, EarlyFinish DEF RemoveTokens
    <2> QED BY <1>7, <2>1, <2>2, <2>3 DEF UnlinkHandler
  <1> QED BY <1>1, <1>2, <1>3, <1>4, <1>5, <1>6, <1>7 DEF Handler

\* Every step is one of a request or leaves req alone.
LEMMA HandlerOrNot ==
  ASSUME Next
  PROVE  (\E r \in Requests : Handler(r)) \/ req' = req
  BY DEF Next, CreateState, StateExpires, Register, SetPassword, DeleteUser, ChangeEmail

LEMMA NextEarly ==
  ASSUME TypeInv, LoginInv, LoginEndsState, Next
  PROVE  LoginEndsState'
  <1>1. CASE req' = req
    BY <1>1 DEF LoginEndsState
  <1>2. CASE \E r \in Requests : Handler(r)
    BY <1>2, HandlerEarly
  <1> QED BY <1>1, <1>2, HandlerOrNot

-----------------------------------------------------------------------------
(* LinkInv *)

\* Rows only go, and no request takes a verification up.
LEMMA LinkKept ==
  ASSUME LinkInv, rows' = rows, tokens' \subseteq tokens, verifies' \subseteq verifies,
         \A r \in Requests : req'[r].pc = "linking" => req'[r] = req[r]
  PROVE  LinkInv'
  <1>1. \A t \in tokens' \cup verifies' : t.id \in 1..rows'
    BY DEF LinkInv
  <1>2. \A t \in tokens', v \in verifies' : t.id # v.id
    BY DEF LinkInv
  <1>3. ASSUME NEW r \in Requests, req'[r].pc = "linking"
        PROVE  req'[r].item.id \in 1..rows' /\ \A t \in tokens' : t.id # req'[r].item.id
    BY <1>3 DEF LinkInv
  <1> QED BY <1>1, <1>2, <1>3 DEF LinkInv

LEMMA LinkKeptBy ==
  ASSUME LinkInv, rows' = rows, tokens' \subseteq tokens, verifies' \subseteq verifies,
         NEW r \in Requests, OthersStay(r), req'[r].pc # "linking"
  PROVE  LinkInv'
  BY LinkKept DEF OthersStay

\* A new access token has the next id.
LEMMA StoreTokenLink ==
  ASSUME TypeInv, LinkInv, NEW r \in Requests, StoreToken(r)
  PROVE  LinkInv'
  <1>1. UsersOK /\ TablesOK /\ RowsKnown /\ TypeOK /\ TaskInv
    BY TypeParts
  <1>2. /\ req[r].pc = "token" /\ Step(r, "stored", req[r].user) /\ verifies' = verifies
    BY DEF StoreToken
  <1>3. req'[r].pc = "stored" /\ OthersStay(r)
    BY <1>1, <1>2, Steps
  <1>4. CASE UNCHANGED <<tokens, rows>>
    BY <1>2, <1>3, <1>4, LinkKeptBy
  <1>5. CASE /\ Known(req[r].user) /\ rows < MaxRow
             /\ tokens' = tokens \cup {NewRow(rows + 1, req[r].user, req[r].row.provider)}
             /\ rows' = rows + 1
    <2>1. req[r].user \in Users /\ req[r].row.provider \in Providers
      BY <1>1, <1>2, <1>5, KnownCreated DEF TaskInv, TaskOK, CallbackPC, AuthState
    <2> DEFINE y == NewRow(rows + 1, req[r].user, req[r].row.provider)
    <2>2. /\ y.id = rows + 1 /\ rows + 1 \in 1..rows' /\ 1..rows \subseteq 1..rows'
          /\ rows + 1 \notin 1..rows
      BY <1>1, <1>5, <2>1, NextRow
    <2>3. tokens' = tokens \cup {y}
      BY <1>5
    <2> HIDE DEF y
    <2>4. \A t \in tokens' \cup verifies' : t.id \in 1..rows'
      BY <1>2, <2>2, <2>3 DEF LinkInv
    <2>5. \A t \in tokens', v \in verifies' : t.id # v.id
      BY <1>2, <2>2, <2>3 DEF LinkInv
    <2>6. ASSUME NEW p \in Requests, req'[p].pc = "linking"
          PROVE  req'[p].item.id \in 1..rows' /\ \A t \in tokens' : t.id # req'[p].item.id
      <3>1. req'[p] = req[p]
        BY <1>3, <2>6 DEF OthersStay
      <3>2. req[p].item.id \in 1..rows /\ \A t \in tokens : t.id # req[p].item.id
        BY <2>6, <3>1 DEF LinkInv
      <3> QED BY <2>2, <2>3, <3>1, <3>2
    <2> QED BY <2>4, <2>5, <2>6 DEF LinkInv
  <1> QED BY <1>4, <1>5 DEF StoreToken

\* And so has a new verification.
LEMMA RedirectLink ==
  ASSUME TypeInv, LinkInv, NEW r \in Requests, Redirect(r)
  PROVE  LinkInv'
  <1>1. UsersOK /\ TablesOK /\ RowsKnown /\ TypeOK /\ TaskInv
    BY TypeParts
  <1>2. /\ req[r].pc = "stored" /\ Finish(r) /\ tokens' = tokens /\ Known(req[r].user)
    BY DEF Redirect, Known
  <1>3. req'[r].pc = "idle" /\ OthersStay(r)
    BY <1>1, <1>2, Ends
  <1>4. CASE UNCHANGED <<verifies, rows>>
    BY <1>2, <1>3, <1>4, LinkKeptBy
  <1>5. CASE NewLink(req[r].user, req[r].row.provider)
    <2>1. req[r].user \in Users /\ req[r].row.provider \in Providers
      BY <1>1, <1>2, KnownCreated DEF TaskInv, TaskOK, CallbackPC, AuthState
    <2> DEFINE y == NewRow(rows + 1, req[r].user, req[r].row.provider)
    <2>2. /\ rows < MaxRow /\ rows' = rows + 1
          /\ verifies' \subseteq verifies \cup {y}
      BY <1>5 DEF NewLink
    <2>3. /\ y.id = rows + 1 /\ rows + 1 \in 1..rows' /\ 1..rows \subseteq 1..rows'
          /\ rows + 1 \notin 1..rows
      BY <1>1, <2>1, <2>2, NextRow
    <2> HIDE DEF y
    <2>4. \A t \in tokens' \cup verifies' : t.id \in 1..rows'
      BY <1>2, <2>2, <2>3 DEF LinkInv
    <2>5. \A t \in tokens', v \in verifies' : t.id # v.id
      BY <1>2, <2>2, <2>3 DEF LinkInv
    <2>6. ASSUME NEW p \in Requests, req'[p].pc = "linking"
          PROVE  req'[p].item.id \in 1..rows' /\ \A t \in tokens' : t.id # req'[p].item.id
      <3>1. req'[p] = req[p]
        BY <1>3, <2>6 DEF OthersStay
      <3>2. req[p].item.id \in 1..rows /\ \A t \in tokens : t.id # req[p].item.id
        BY <2>6, <3>1 DEF LinkInv
      <3> QED BY <1>2, <2>3, <3>1, <3>2
    <2> QED BY <2>4, <2>5, <2>6 DEF LinkInv
  <1> QED BY <1>4, <1>5 DEF Redirect

LEMMA LinkVerifyLink ==
  ASSUME TypeInv, LinkInv, NEW r \in Requests, NEW v \in verifies, LinkVerify(r, v)
  PROVE  LinkInv'
  <1>1. req'[r] = Task("linking", NoState, v, v.user, FALSE) /\ OthersStay(r)
    BY Moves DEF TypeInv, LinkVerify
  <1>2. tokens' = tokens /\ verifies' = verifies /\ rows' = rows
    BY DEF LinkVerify
  <1>3. req'[r].item = v
    BY <1>1 DEF Task
  <1>4. ASSUME NEW p \in Requests, req'[p].pc = "linking"
        PROVE  req'[p].item.id \in 1..rows' /\ \A t \in tokens' : t.id # req'[p].item.id
    <2>1. CASE p = r
      BY <1>2, <1>3, <2>1 DEF LinkInv
    <2>2. CASE p # r
      BY <1>1, <1>2, <1>4, <2>2 DEF LinkInv, OthersStay
    <2> QED BY <2>1, <2>2
  <1> QED BY <1>2, <1>4 DEF LinkInv

\* MarkLinked never finds an access token, and changes neither users nor
\* verifications.
LEMMA MarkLinkedIdle ==
  ASSUME LinkInv, NEW r \in Requests, MarkLinked(r)
  PROVE  UNCHANGED <<users, verifies>>
  <1>1. req[r].pc = "linking"
    BY DEF MarkLinked
  <1>2. ~ \E t \in tokens : t.id = req[r].item.id
    BY <1>1 DEF LinkInv
  <1> QED BY <1>2 DEF MarkLinked

\* A step of a callback, a verification or an unlink that adds no row.
LEMMA LinkStep ==
  ASSUME TypeInv, LinkInv, rows' = rows, tokens' \subseteq tokens, verifies' \subseteq verifies,
         NEW r \in Requests, NEW pc, pc # "linking", NEW u, Step(r, pc, u)
  PROVE  LinkInv'
  BY Steps, LinkKeptBy DEF TypeInv

LEMMA LinkFinish ==
  ASSUME TypeInv, LinkInv, rows' = rows, tokens' \subseteq tokens, verifies' \subseteq verifies,
         NEW r \in Requests, Finish(r)
  PROVE  LinkInv'
  BY Ends, LinkKeptBy DEF TypeInv

LEMMA HandlerLink ==
  ASSUME TypeInv, LinkInv, NEW r \in Requests, Handler(r)
  PROVE  LinkInv'
  <1>0. TypeOK
    BY DEF TypeInv
  <1>1. CASE \E s \in states, a \in Accounts : Callback(r, s, a)
    <2>1. req'[r].pc = "found" /\ OthersStay(r)
      BY <1>0, <1>1, Moves DEF Callback, Task
    <2> QED BY <1>1, <2>1, LinkKeptBy DEF Callback
  <1>2. CASE Match(r)
    BY <1>2, LinkStep, LinkFinish DEF Match
  <1>3. CASE SaveProfile(r) \/ (\E u \in Users : MakeUser(r, u)) \/ NewProfile(r)
             \/ AddProvider(r) \/ Attach(r) \/ ConsumeState(r)
    BY <1>3, LinkStep
    DEF SaveProfile, MakeUser, NewProfile, AddProvider, Attach, ConsumeState
  <1>4. CASE LogIn(r) \/ Fail(r)
    BY <1>4, LinkFinish DEF LogIn, Fail
  <1>5. CASE \E s \in states : Verify(r, s)
    <2>1. req'[r].pc = "verify" /\ OthersStay(r)
      BY <1>0, <1>5, Moves DEF Verify, Task
    <2> QED BY <1>5, <2>1, LinkKeptBy DEF Verify
  <1>6. CASE LinkHandler(r)
    <2>1. CASE MarkLinked(r)
      BY <2>1, MarkLinkedIdle, LinkFinish DEF MarkLinked
    <2> QED BY <1>6, <2>1, LinkVerifyLink DEF LinkHandler
  <1>7. CASE UnlinkHandler(r)
    <2>1. ASSUME NEW x \in users, NEW p \in Providers, Unlink(r, x, p) PROVE LinkInv'
      <3>1. req'[r].pc = "unlink" /\ OthersStay(r)
        BY <1>0, <2>1, Moves DEF Unlink, Task
      <3> QED BY <2>1, <3>1, LinkKeptBy DEF Unlink
    <2>2. CASE Unlist(r) \/ RemoveProfile(r)
      BY <2>2, LinkStep DEF Unlist, RemoveProfile
    <2>3. CASE RemoveTokens(r)
      BY <2>3, LinkFinish DEF RemoveTokens
    <2> QED BY <1>7, <2>1, <2>2, <2>3 DEF UnlinkHandler
  <1> QED BY <1>1, <1>2, <1>3, <1>4, <1>5, <1>6, <1>7, StoreTokenLink, RedirectLink DEF Handler

LEMMA NextLink ==
  ASSUME TypeInv, LinkInv, Next
  PROVE  LinkInv'
  <1>1. CASE \E r \in Requests : Handler(r)
    BY <1>1, HandlerLink
  <1>2. CASE /\ req' = req /\ rows' = rows /\ tokens' \subseteq tokens
             /\ verifies' \subseteq verifies
    BY <1>2, LinkKept
  <1>3. CASE \E p \in Providers, u \in Users \cup {NoUser} : CreateState(p, u)
    BY <1>2, <1>3 DEF CreateState
  <1>4. CASE \E s \in states : StateExpires(s)
    BY <1>2, <1>4 DEF StateExpires
  <1>5. CASE \E u \in Users, e \in Emails : Register(u, e)
    BY <1>2, <1>5 DEF Register
  <1>6. CASE \E x \in users : SetPassword(x) \/ DeleteUser(x)
    BY <1>2, <1>6 DEF SetPassword, DeleteUser
  <1>7. CASE \E x \in users, e \in Emails : ChangeEmail(x, e)
    BY <1>2, <1>7 DEF ChangeEmail
  <1> QED BY <1>1, <1>3, <1>4, <1>5, <1>6, <1>7 DEF Next

-----------------------------------------------------------------------------
(* SoleInv *)

\* Users without a password come from users without one, with the same
\* providers; no request gets ready to unlink or has made a user.
LEMMA SoleKept ==
  ASSUME SoleInv,
         \A y \in users' : ~ y.password =>
           \E x \in users : x.id = y.id /\ ~ x.password /\ x.providers = y.providers,
         \A r \in Requests : req'[r].pc \in {"unlink", "made", "profiled"} =>
           \/ req'[r] = req[r]
           \/ /\ req[r].pc = "made" /\ req'[r].pc = "profiled"
              /\ req'[r].user = req[r].user /\ req'[r].item = req[r].item
  PROVE  SoleInv'
  <1> SUFFICES ASSUME NEW y \in users', ~ y.password
               PROVE  /\ \E p \in Providers : y.providers = {p}
                      /\ \A r \in Requests : req'[r].user = y.id =>
                           /\ req'[r].pc # "unlink"
                           /\ req'[r].pc \in {"made", "profiled"} =>
                                y.providers = {ProviderOf[req'[r].item]}
    BY DEF SoleInv
  <1>1. PICK x \in users : x.id = y.id /\ ~ x.password /\ x.providers = y.providers
    OBVIOUS
  <1>2. \E p \in Providers : y.providers = {p}
    BY <1>1 DEF SoleInv
  <1>3. ASSUME NEW r \in Requests, req'[r].user = y.id
        PROVE  /\ req'[r].pc # "unlink"
               /\ req'[r].pc \in {"made", "profiled"} => y.providers = {ProviderOf[req'[r].item]}
    <2>1. CASE req'[r] = req[r]
      BY <1>1, <1>3, <2>1 DEF SoleInv
    <2>2. CASE /\ req[r].pc = "made" /\ req'[r].pc = "profiled"
               /\ req'[r].user = req[r].user /\ req'[r].item = req[r].item
      BY <1>1, <1>3, <2>2 DEF SoleInv
    <2>3. CASE req'[r].pc \notin {"unlink", "made", "profiled"}
      BY <2>3
    <2> QED BY <2>1, <2>2, <2>3
  <1> QED BY <1>2, <1>3

LEMMA SoleKeptBy ==
  ASSUME SoleInv,
         \A y \in users' : ~ y.password =>
           \E x \in users : x.id = y.id /\ ~ x.password /\ x.providers = y.providers,
         NEW r \in Requests, OthersStay(r), req'[r].pc \notin {"unlink", "made", "profiled"}
  PROVE  SoleInv'
  BY SoleKept DEF OthersStay

LEMMA SoleStep ==
  ASSUME TypeInv, SoleInv, users' = users, NEW r \in Requests, NEW u,
         NEW pc, pc \notin {"unlink", "made", "profiled"}, Step(r, pc, u)
  PROVE  SoleInv'
  BY Steps, SoleKeptBy DEF TypeInv

LEMMA SoleFinish ==
  ASSUME TypeInv, SoleInv, users' = users, NEW r \in Requests, Finish(r)
  PROVE  SoleInv'
  BY Ends, SoleKeptBy DEF TypeInv

\* The new user lists the provider of the account it is made for, and no other
\* request is about it yet.
LEMMA MakeUserSole ==
  ASSUME TypeInv, SoleInv, NEW r \in Requests, NEW u \in Users, MakeUser(r, u)
  PROVE  SoleInv'
  <1>1. UsersOK /\ TablesOK /\ TypeOK /\ TaskInv
    BY TypeParts
  <1>2. PICK a : a = req[r].item
    OBVIOUS
  <1> DEFINE y == UserRow(u, EmailOf[a], FALSE, {ProviderOf[a]})
  <1>3. /\ users' = users \cup {y} /\ u \notin created /\ req[r].pc = "new"
        /\ Step(r, "made", u)
    BY <1>2 DEF MakeUser
  <1>4. y.id = u /\ y.providers = {ProviderOf[a]}
    BY DEF UserRow
  <1>5. a \in Accounts
    BY <1>1, <1>2, <1>3 DEF TaskInv, TaskOK, CallbackPC
  <1>6. req'[r].pc = "made" /\ req'[r].item = a /\ req'[r].user = u /\ OthersStay(r)
    BY <1>1, <1>2, <1>3, Steps
  <1>7. \A p \in Requests : p # r /\ req'[p].pc \in {"unlink", "made", "profiled"} =>
          req'[p].user # u
    BY <1>1, <1>3, <1>6 DEF OthersStay, TaskInv, TaskOK, UserPC
  <1> HIDE DEF y
  <1> SUFFICES ASSUME NEW x \in users', ~ x.password
               PROVE  /\ \E p \in Providers : x.providers = {p}
                      /\ \A p \in Requests : req'[p].user = x.id =>
                           /\ req'[p].pc # "unlink"
                           /\ req'[p].pc \in {"made", "profiled"} =>
                                x.providers = {ProviderOf[req'[p].item]}
    BY DEF SoleInv
  <1>8. CASE x = y
    <2>1. ProviderOf[a] \in Providers
      BY <1>5
    <2>2. \A p \in Requests : req'[p].user = u =>
            /\ req'[p].pc # "unlink"
            /\ req'[p].pc \in {"made", "profiled"} => p = r
      BY <1>6, <1>7
    <2> QED BY <1>4, <1>6, <1>8, <2>1, <2>2
  <1>9. CASE x # y
    <2>1. x \in users /\ x.id # u
      BY <1>1, <1>3, <1>9 DEF UsersOK
    <2>2. \A p \in Requests : req'[p].user = x.id => p # r /\ req'[p] = req[p]
      BY <1>6, <2>1 DEF OthersStay
    <2> QED BY <2>1, <2>2 DEF SoleInv
  <1> QED BY <1>8, <1>9

\* A user without a password has one provider and is refused.
LEMMA UnlinkSole ==
  ASSUME TypeInv, SoleInv, NEW r \in Requests, NEW x \in users, NEW p \in Providers,
         Unlink(r, x, p)
  PROVE  SoleInv'
  <1>1. UsersOK /\ TypeOK
    BY TypeParts
  <1>2. x.password
    <2>1. SUFFICES ASSUME ~ x.password PROVE FALSE
      OBVIOUS
    <2>2. PICK q \in Providers : x.providers = {q}
      BY <2>1 DEF SoleInv
    <2>3. Cardinality({q}) = 1
      BY FS_Singleton
    <2> QED BY <2>1, <2>2, <2>3 DEF Unlink
  <1>3. req'[r].pc = "unlink" /\ req'[r].user = x.id /\ OthersStay(r) /\ users' = users
    BY <1>1, Moves DEF Unlink, Task
  <1> SUFFICES ASSUME NEW y \in users, ~ y.password, NEW s \in Requests, req'[s].user = y.id
               PROVE  /\ \E q \in Providers : y.providers = {q}
                      /\ req'[s].pc # "unlink"
                      /\ req'[s].pc \in {"made", "profiled"} =>
                           y.providers = {ProviderOf[req'[s].item]}
    BY <1>3 DEF SoleInv
  <1>4. s # r
    BY <1>1, <1>2, <1>3 DEF UsersOK
  <1> QED BY <1>3, <1>4 DEF SoleInv, OthersStay

\* A provider that a user without a password gets is the one it has.
LEMMA AddProviderSole ==
  ASSUME TypeInv, SoleInv, NEW r \in Requests, AddProvider(r)
  PROVE  SoleInv'
  <1>1. TypeOK
    BY TypeParts
  <1>2. /\ req[r].pc = "profiled" /\ Step(r, "attach", req[r].user)
    BY DEF AddProvider
  <1>3. req'[r].pc = "attach" /\ OthersStay(r)
    BY <1>1, <1>2, Steps
  <1>4. PICK x \in users :
          /\ x.id = req[r].user
          /\ users' = (users \ {x}) \cup
               {UserRow(req[r].user, x.email, x.password,
                        x.providers \cup {ProviderOf[req[r].item]})}
    BY DEF AddProvider, Listed
  <1>5. ~ x.password => x.providers \cup {ProviderOf[req[r].item]} = x.providers
    BY <1>2, <1>4 DEF SoleInv
  <1>6. \A y \in users' : ~ y.password =>
          \E z \in users : z.id = y.id /\ ~ z.password /\ z.providers = y.providers
    <2> DEFINE n == UserRow(req[r].user, x.email, x.password,
                            x.providers \cup {ProviderOf[req[r].item]})
    <2>1. users' = (users \ {x}) \cup {n}
      BY <1>4
    <2>2. n.id = x.id /\ n.password = x.password
          /\ n.providers = x.providers \cup {ProviderOf[req[r].item]}
      BY <1>4 DEF UserRow
    <2> HIDE DEF n
    <2> QED BY <1>5, <2>1, <2>2
  <1> QED BY <1>3, <1>6, SoleKeptBy

\* Whose provider is removed has a password.
LEMMA UnlistSole ==
  ASSUME TypeInv, SoleInv, NEW r \in Requests, Unlist(r)
  PROVE  SoleInv'
  <1>1. TypeOK
    BY TypeParts
  <1>2. req[r].pc = "unlink" /\ Step(r, "unlisted", req[r].user)
    BY DEF Unlist
  <1>3. req'[r].pc = "unlisted" /\ OthersStay(r)
    BY <1>1, <1>2, Steps
  <1>4. PICK x \in users :
          /\ x.id = req[r].user
          /\ users' = (users \ {x}) \cup
               {UserRow(req[r].user, x.email, x.password, x.providers \ {req[r].item})}
    BY DEF Unlist
  <1>5. x.password
    BY <1>2, <1>4 DEF SoleInv
  <1>6. \A y \in users' : ~ y.password => y \in users
    BY <1>4, <1>5 DEF UserRow
  <1> QED BY <1>3, <1>6, SoleKeptBy

LEMMA HandlerSole ==
  ASSUME TypeInv, LinkInv, SoleInv, NEW r \in Requests, Handler(r)
  PROVE  SoleInv'
  <1>0. TypeOK
    BY DEF TypeInv
  <1>1. CASE \E s \in states, a \in Accounts : Callback(r, s, a)
    <2>1. req'[r].pc = "found" /\ OthersStay(r)
      BY <1>0, <1>1, Moves DEF Callback, Task
    <2> QED BY <1>1, <2>1, SoleKeptBy DEF Callback
  <1>2. CASE Match(r)
    BY <1>2, SoleStep, SoleFinish DEF Match
  <1>3. CASE SaveProfile(r) \/ Attach(r) \/ StoreToken(r) \/ ConsumeState(r) \/ RemoveProfile(r)
    <2>1. users' = users
      BY <1>3 DEF SaveProfile, Attach, StoreToken, ConsumeState, RemoveProfile
    <2>2. \E pc \in {"attach", "token", "stored", "consumed", "unlinked"} :
            Step(r, pc, req[r].user)
      BY <1>3 DEF SaveProfile, Attach, StoreToken, ConsumeState, RemoveProfile
    <2> QED BY <2>1, <2>2, SoleStep
  <1>4. CASE NewProfile(r)
    <2>1. /\ req[r].pc = "made" /\ req'[r].pc = "profiled" /\ req'[r].user = req[r].user
          /\ req'[r].item = req[r].item /\ OthersStay(r)
      BY <1>0, <1>4, Steps DEF NewProfile
    <2> QED BY <1>4, <2>1, SoleKept DEF NewProfile, OthersStay
  <1>5. CASE Redirect(r) \/ LogIn(r) \/ Fail(r) \/ RemoveTokens(r)
    BY <1>5, SoleFinish DEF Redirect, LogIn, Fail, RemoveTokens
  <1>6. CASE \E s \in states : Verify(r, s)
    <2>1. req'[r].pc = "verify" /\ OthersStay(r)
      BY <1>0, <1>6, Moves DEF Verify, Task
    <2> QED BY <1>6, <2>1, SoleKeptBy DEF Verify
  <1>7. CASE \E v \in verifies : LinkVerify(r, v)
    <2>1. req'[r].pc = "linking" /\ OthersStay(r)
      BY <1>0, <1>7, Moves DEF LinkVerify, Task
    <2> QED BY <1>7, <2>1, SoleKeptBy DEF LinkVerify
  <1>8. CASE MarkLinked(r)
    BY <1>8, MarkLinkedIdle, SoleFinish DEF MarkLinked
  <1> QED BY <1>1, <1>2, <1>3, <1>4, <1>5, <1>6, <1>7, <1>8,
    MakeUserSole, AddProviderSole, UnlinkSole, UnlistSole DEF Handler, LinkHandler, UnlinkHandler

LEMMA NextSole ==
  ASSUME TypeInv, LinkInv, SoleInv, Next
  PROVE  SoleInv'
  <1>1. CASE \E r \in Requests : Handler(r)
    BY <1>1, HandlerSole
  <1>2. CASE /\ req' = req
             /\ \A y \in users' : ~ y.password =>
                  \E x \in users : x.id = y.id /\ ~ x.password /\ x.providers = y.providers
    BY <1>2, SoleKept
  <1>3. CASE \E p \in Providers, u \in Users \cup {NoUser} : CreateState(p, u)
    BY <1>2, <1>3 DEF CreateState
  <1>4. CASE \E s \in states : StateExpires(s)
    BY <1>2, <1>4 DEF StateExpires
  <1>5. CASE \E u \in Users, e \in Emails : Register(u, e)
    <2>1. req' = req /\ \A y \in users' : ~ y.password => y \in users
      BY <1>5 DEF Register, UserRow
    <2> QED BY <1>2, <2>1
  <1>6. CASE \E x \in users : SetPassword(x) \/ DeleteUser(x)
    <2>1. req' = req /\ \A y \in users' : ~ y.password => y \in users
      BY <1>6 DEF SetPassword, DeleteUser, UserRow
    <2> QED BY <1>2, <2>1
  <1>7. CASE \E x \in users, e \in Emails : ChangeEmail(x, e)
    <2>1. PICK x \in users, e \in Emails :
            /\ users' = (users \ {x}) \cup {UserRow(x.id, e, x.password, x.providers)}
            /\ req' = req
      BY <1>7 DEF ChangeEmail
    <2>2. \A y \in users' : ~ y.password =>
            \E z \in users : z.id = y.id /\ ~ z.password /\ z.providers = y.providers
      BY <2>1 DEF UserRow
    <2> QED BY <1>2, <2>1, <2>2
  <1> QED BY <1>1, <1>3, <1>4, <1>5, <1>6, <1>7 DEF Next

-----------------------------------------------------------------------------
(* The theorems *)

LEMMA InitIInv ==
  ASSUME Init
  PROVE  IInv
  <1>1. TypeInv
    BY InitType
  <1>2. \A r \in Requests : req[r].pc = "idle" /\ req[r].row = NoState
    BY DEF Init, Idle, Task
  <1>3. LoginInv /\ LoginEndsState /\ LinkInv /\ SoleInv
    BY <1>2 DEF Init, LoginInv, LoginEndsState, LinkInv, SoleInv
  <1> QED BY <1>1, <1>3 DEF IInv

LEMMA NextIInv ==
  ASSUME IInv, [Next]_snsVars
  PROVE  IInv'
  <1>1. CASE Next
    BY <1>1, NextType, NextLogin, NextEarly, NextLink, NextSole DEF IInv
  <1>2. CASE UNCHANGED snsVars
    BY <1>2 DEF snsVars, IInv, TypeInv, TypeOK, TaskInv, IdsInv, Known, LoginInv,
      LoginEndsState, LinkInv, SoleInv
  <1> QED BY <1>1, <1>2

\* The inductive invariant holds in every reachable state.
THEOREM InvariantHolds == Spec => []IInv
  <1>1. Init => IInv
    BY InitIInv
  <1>2. IInv /\ [Next]_snsVars => IInv'
    BY NextIInv
  <1> QED BY <1>1, <1>2, PTL DEF Spec

\* Every row has its shape, unique columns are unique although callbacks that
\* overlap have both found them free, and the users that rows refer to exist.
THEOREM TypeCorrect == Spec => []TypeOK
  <1>1. IInv => TypeOK
    BY DEF IInv, TypeInv
  <1> QED BY <1>1, InvariantHolds, PTL

\* A state that has logged somebody in is read by no callback and no
\* POST /auth/verify after that.
THEOREM LoginsEndStates == Spec => []LoginEndsState
  <1>1. IInv => LoginEndsState
    BY DEF IInv
  <1> QED BY <1>1, InvariantHolds, PTL

\* However unlinking requests overlap, a user without a password keeps the
\* provider it logs in with (unlinkProvider).
THEOREM ProviderKept == Spec => []PasswordlessKeepsProvider
  <1>1. IInv => PasswordlessKeepsProvider
    BY DEF IInv, SoleInv, PasswordlessKeepsProvider
  <1> QED BY <1>1, InvariantHolds, PTL

\* Profiles come and go but never change hands.
LEMMA StepKeepsOwner ==
  ASSUME TypeInv, Next, NEW x \in profiles, NEW y \in profiles', x.account = y.account
  PROVE  x.user = y.user
  <1>1. CASE profiles' \subseteq profiles
    BY <1>1 DEF TypeInv, TypeOK
  <1>2. ASSUME NEW a, NEW u, UpsertProfile(a, u) PROVE x.user = y.user
    <2>1. CASE profiles' = profiles
      BY <1>1, <2>1
    <2>2. CASE Tied(a) = {} /\ profiles' = profiles \cup {[account |-> a, user |-> u]}
      <3>1. x.account # a
        BY <2>2 DEF Tied
      <3>2. y \in profiles
        BY <2>2, <3>1
      <3> QED BY <3>2 DEF TypeInv, TypeOK
    <2> QED BY <1>2, <2>1, <2>2 DEF UpsertProfile
  <1>3. ASSUME NEW r \in Requests, Handler(r)
        PROVE  profiles' \subseteq profiles \/ \E a, u : UpsertProfile(a, u)
    <2>1. CASE LinkHandler(r) \/ UnlinkHandler(r)
      BY <2>1 DEF LinkHandler, LinkVerify, MarkLinked, UnlinkHandler, Unlink, Unlist,
        RemoveProfile, RemoveTokens
    <2>2. CASE SaveProfile(r) \/ NewProfile(r)
      BY <2>2 DEF SaveProfile, NewProfile
    <2> QED BY <1>3, <2>1, <2>2 DEF Handler, Callback, Match, MakeUser, AddProvider, Attach,
        StoreToken, Redirect, Verify, ConsumeState, LogIn, Fail
  <1>4. CASE \E r \in Requests : Handler(r)
    BY <1>1, <1>2, <1>3, <1>4
  <1>5. CASE ~ \E r \in Requests : Handler(r)
    BY <1>1, <1>5 DEF Next, CreateState, StateExpires, Register, SetPassword, DeleteUser, ChangeEmail
  <1> QED BY <1>4, <1>5

\* An account that is tied to a user never passes to another one, whatever
\* callbacks have read before it was tied, untied or its user deleted.
THEOREM OwnerKept == Spec => ProfileKeepsOwner
  <1>1. ASSUME IInv, [Next]_snsVars
        PROVE  [\A x \in profiles, y \in profiles' :
                 x.account = y.account => x.user = y.user]_snsVars
    BY <1>1, StepKeepsOwner DEF IInv
  <1> QED BY <1>1, InvariantHolds, PTL DEF Spec, ProfileKeepsOwner

\* Only AddProvider adds a provider to a user that was there.
LEMMA StepListsNone ==
  ASSUME TypeInv, LinkInv, Next, NEW x \in users, NEW y \in users', x.id = y.id,
         ~ \E r \in Requests : req[r].pc = "profiled" /\ req[r].user = x.id
  PROVE  y.providers \subseteq x.providers
  <1>0. UsersOK
    BY TypeParts
  <1>1. CASE y \in users
    BY <1>0, <1>1 DEF UsersOK
  <1>2. ASSUME NEW z \in users, NEW n, y \notin users, users' = (users \ {z}) \cup {n},
               n.id = z.id, n.providers \subseteq z.providers
        PROVE  y.providers \subseteq x.providers
    BY <1>0, <1>2 DEF UsersOK
  <1>3. ASSUME NEW n, y \notin users, users' = users \cup {n}, n.id \notin created
        PROVE  FALSE
    BY <1>0, <1>3 DEF UsersOK
  <1>4. ASSUME NEW r \in Requests, Handler(r), y \notin users
        PROVE  y.providers \subseteq x.providers
    <2>1. CASE \E u \in Users : MakeUser(r, u)
      <3>1. PICK u \in Users : MakeUser(r, u)
        BY <2>1
      <3> DEFINE n == UserRow(u, EmailOf[req[r].item], FALSE, {ProviderOf[req[r].item]})
      <3>2. users' = users \cup {n} /\ n.id = u /\ u \notin created
        BY <3>1 DEF MakeUser, UserRow
      <3> HIDE DEF n
      <3> QED BY <1>3, <1>4, <3>2
    <2>2. CASE AddProvider(r)
      <3>1. PICK z \in users :
              /\ z.id = req[r].user
              /\ users' = (users \ {z}) \cup
                   {UserRow(req[r].user, z.email, z.password,
                            z.providers \cup {ProviderOf[req[r].item]})}
        BY <2>2 DEF AddProvider, Listed
      <3>2. y.id = req[r].user
        BY <1>4, <3>1 DEF UserRow
      <3> QED BY <2>2, <3>2 DEF AddProvider
    <2>3. CASE MarkLinked(r)
      BY <1>4, <2>3, MarkLinkedIdle
    <2>4. CASE Unlist(r)
      <3>1. PICK z \in users :
              /\ z.id = req[r].user
              /\ users' = (users \ {z}) \cup
                   {UserRow(req[r].user, z.email, z.password, z.providers \ {req[r].item})}
        BY <2>4 DEF Unlist
      <3> DEFINE n == UserRow(req[r].user, z.email, z.password, z.providers \ {req[r].item})
      <3>2. n.id = z.id /\ n.providers \subseteq z.providers
        BY <3>1 DEF UserRow
      <3>3. users' = (users \ {z}) \cup {n}
        BY <3>1
      <3> HIDE DEF n
      <3> QED BY <1>2, <1>4, <3>2, <3>3
    <2>5. CASE users' = users
      BY <1>4, <2>5
    <2>6. CASE UnlinkHandler(r)
      BY <2>4, <2>5, <2>6 DEF UnlinkHandler, Unlink, RemoveProfile, RemoveTokens
    <2>7. CASE LinkHandler(r)
      BY <2>3, <2>5, <2>7 DEF LinkHandler, LinkVerify
    <2> QED BY <1>4, <2>1, <2>2, <2>5, <2>6, <2>7 DEF Handler, Callback, Match, SaveProfile,
      NewProfile, Attach, StoreToken, Redirect, Verify, ConsumeState, LogIn, Fail
  <1>5. ASSUME NEW u \in Users, NEW e \in Emails, Register(u, e), y \notin users
        PROVE  FALSE
    <2> DEFINE n == UserRow(u, e, TRUE, {})
    <2>1. users' = users \cup {n} /\ n.id = u /\ u \notin created
      BY <1>5 DEF Register, UserRow
    <2> HIDE DEF n
    <2> QED BY <1>3, <1>5, <2>1
  <1>6. ASSUME NEW z \in users, SetPassword(z), y \notin users
        PROVE  y.providers \subseteq x.providers
    <2> DEFINE n == UserRow(z.id, z.email, TRUE, z.providers)
    <2>1. users' = (users \ {z}) \cup {n} /\ n.id = z.id /\ n.providers = z.providers
      BY <1>6 DEF SetPassword, UserRow
    <2> HIDE DEF n
    <2> QED BY <1>2, <1>6, <2>1
  <1>7. ASSUME NEW z \in users, NEW e \in Emails, ChangeEmail(z, e), y \notin users
        PROVE  y.providers \subseteq x.providers
    <2> DEFINE n == UserRow(z.id, e, z.password, z.providers)
    <2>1. users' = (users \ {z}) \cup {n} /\ n.id = z.id /\ n.providers = z.providers
      BY <1>7 DEF ChangeEmail, UserRow
    <2> HIDE DEF n
    <2> QED BY <1>2, <1>7, <2>1
  <1>8. ASSUME y \notin users, users' \subseteq users PROVE FALSE
    BY <1>8
  <1> QED BY <1>1, <1>4, <1>5, <1>6, <1>7, <1>8 DEF Next, CreateState, StateExpires, DeleteUser

\* Nothing but the callback that made a user lists a provider for it: by
\* LinkInv no link verification meets an access token of its id.
THEOREM ListedAtCreation == Spec => ProvidersFromCreation
  <1>1. ASSUME IInv, [Next]_snsVars
        PROVE  [\A x \in users, y \in users' :
                 x.id = y.id /\ ~(\E r \in Requests : req[r].pc = "profiled" /\ req[r].user = x.id)
                   => y.providers \subseteq x.providers]_snsVars
    BY <1>1, StepListsNone DEF IInv
  <1> QED BY <1>1, InvariantHolds, PTL DEF Spec, ProvidersFromCreation

=============================================================================
