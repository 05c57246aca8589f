------------------------ MODULE AccountRecoveryProofs ------------------------
(* Proofs about AccountRecovery for every set of users, emails and         *)
(* requests and every bound.                                               *)
EXTENDS AccountRecovery, FiniteSetTheorems, TLAPS

USE CodeBounds, CodeNames

-----------------------------------------------------------------------------
(* The inductive invariant *)

\* The records of req.
Request ==
  [pc : PC, code : 0..MaxCode, user : Users \cup {NoUser},
   email : Emails \cup {NoEmail}, early : BOOLEAN]

EmailPC == {"change", "markChange", "delete"}

\* What a handler may rely on in its record q, A being the email changes ever
\* asked for.
TaskOK(q, A) ==
  /\ q.pc # "idle" => q.user \in Users
  /\ q.pc \in {"ask", "change"} => q.email \in Emails
  /\ q.pc \in {"confirm", "mark"} => q.code \in Ids
  /\ q.pc \in EmailPC => <<q.code, q.user>> \in A

TaskInv == \A r \in Requests : TaskOK(req[r], asked)

\* An id names one code, of one of the two tables, and a user is created once.
IdsInv ==
  /\ \A x \in resets : x.id \in 1..minted
  /\ \A x, y \in resets : x.id = y.id => x = y
  /\ \A x, y \in pending : x.id = y.id => x = y
  /\ \A x \in pending : <<x.id, x.user>> \in asked
  /\ \A a \in asked : a[1] \in 1..minted /\ a[2] \in created
  /\ \A a, b \in asked : a[1] = b[1] => a = b
  /\ \A x \in resets, a \in asked : x.id # a[1]
  /\ done \subseteq 1..minted
  /\ \A x \in users : x.id \in created

TypeInv == TypeOK /\ TaskInv /\ IdsInv

\* A code whose use has been answered is marked in its table, if its row is
\* still there; and a row about to be deleted is marked.
DoneInv ==
  /\ \A x \in resets \cup pending : x.id \in done => x.used
  /\ \A r \in Requests : req[r].pc = "delete" =>
       \A x \in pending : x.id = req[r].code => x.used

\* Of a user who has asked for one reset code at a time, no code is open while
\* the next one is being made, and one at most otherwise.
OpenOf(u) == {x \in resets : x.user = u /\ ~ x.used}

Making(r, u) == req[r].pc = "forgot" /\ req[r].user = u

OpenInv ==
  \A u \in Users \ overlap :
    /\ \A x, y \in OpenOf(u) : x = y
    /\ \A r \in Requests : Making(r, u) => OpenOf(u) = {}
    /\ \A r, s \in Requests : Making(r, u) /\ Making(s, u) => r = s

\* An email change of a user who is there is in its table until it has been used.
PendingInv ==
  \A a \in asked :
    Known(a[2]) => a[1] \in done \/ \E x \in pending : x.id = a[1] /\ x.user = a[2]

IInv == TypeInv /\ DoneInv /\ RepeatedCodeRefused /\ OpenInv /\ PendingInv

-----------------------------------------------------------------------------
(* What the operators of the model do to a state *)

\* One request goes on with a record of the right shape, the others stay.
LEMMA ContinueOK ==
  ASSUME TypeOK, TaskInv, NEW r \in Requests, NEW q \in Request,
         asked \subseteq asked', TaskOK(q, asked'), Continue(r, q)
  PROVE  /\ req' \in [Requests -> Request]
         /\ TaskInv'
         /\ req'[r] = q
         /\ \A p \in Requests : p # r => req'[p] = req[p]
  <1>1. req \in [Requests -> Request]
    BY DEF TypeOK, Request
  <1>2. /\ req' \in [Requests -> Request]
        /\ req'[r] = q
        /\ \A p \in Requests : p # r => req'[p] = req[p]
    BY <1>1 DEF Continue
  <1>3. ASSUME NEW p \in Requests PROVE TaskOK(req'[p], asked')
    <2>1. CASE p = r
      BY <1>2, <2>1
    <2>2. CASE p # r
      BY <1>2, <2>2 DEF TaskInv, TaskOK
    <2> QED BY <2>1, <2>2
  <1> QED BY <1>2, <1>3 DEF TaskInv

\* A request that ends.
LEMMA FinishOK ==
  ASSUME TypeOK, TaskInv, NEW r \in Requests, asked \subseteq asked', Finish(r)
  PROVE  /\ req' \in [Requests -> Request]
         /\ TaskInv'
         /\ req'[r].pc = "idle"
         /\ \A p \in Requests : p # r => req'[p] = req[p]
  <1>1. Idle \in Request /\ TaskOK(Idle, asked') /\ Idle.pc = "idle"
    BY DEF Idle, Task, Request, TaskOK, PC, EmailPC
  <1> QED BY <1>1, ContinueOK DEF Finish

\* A request that takes its next step: nothing but its pc changes.
LEMMA StepOK ==
  ASSUME TypeOK, TaskInv, NEW r \in Requests, NEW pc \in PC,
         asked' = asked, Step(r, pc),
         TaskOK([req[r] EXCEPT !.pc = pc], asked)
  PROVE  /\ req' \in [Requests -> Request]
         /\ TaskInv'
         /\ req'[r] = [req[r] EXCEPT !.pc = pc]
         /\ req'[r].pc = pc
         /\ \A p \in Requests : p # r => req'[p] = req[p]
  <1>1. req[r] \in Request
    BY DEF TypeOK, Request
  <1>2. /\ [req[r] EXCEPT !.pc = pc] \in Request
        /\ [req[r] EXCEPT !.pc = pc].pc = pc
    BY <1>1 DEF Request
  <1> QED BY <1>2, ContinueOK DEF Step

\* The table of users: unique ids and emails, nobody in it who was not created.
UsersOK ==
  /\ users \subseteq User
  /\ \A x, y \in users : x.id = y.id \/ x.email = y.email => x = y
  /\ \A x \in users : x.id \in created

SameIds == {x.id : x \in users'} = {x.id : x \in users}

\* A row of it is replaced by one of the same user.
LEMMA UserReplaced ==
  ASSUME UsersOK, NEW x \in users, NEW y \in User, y.id = x.id,
         \A z \in users : z.email = y.email => z.id = x.id,
         users' = (users \ {x}) \cup {y}, created' = created
  PROVE  UsersOK' /\ SameIds
  <1>1. \A z \in users : z.id = x.id => z = x
    BY DEF UsersOK
  <1>2. users' \subseteq User /\ \A z \in users' : z.id \in created'
    BY DEF UsersOK
  <1>3. ASSUME NEW a \in users', NEW b \in users', a.id = b.id \/ a.email = b.email
        PROVE  a = b
    <2>1. CASE a = y /\ b # y
      BY <1>1, <1>3, <2>1
    <2>2. CASE a # y /\ b = y
      BY <1>1, <1>3, <2>2
    <2>3. CASE a # y /\ b # y
      BY <1>3, <2>3 DEF UsersOK
    <2> QED BY <2>1, <2>2, <2>3
  <1>4. SameIds
    BY DEF SameIds
  <1> QED BY <1>2, <1>3, <1>4 DEF UsersOK

\* updateUserPassword
LEMMA SetByOK ==
  ASSUME UsersOK, NEW u, NEW by \in By, SetBy(u, by), created' = created
  PROVE  UsersOK' /\ SameIds
  <1>1. PICK x \in users : x.id = u /\ users' = (users \ {x}) \cup {UserRow(u, x.email, by)}
    BY DEF SetBy
  <1>2. /\ UserRow(u, x.email, by) \in User
        /\ UserRow(u, x.email, by).id = x.id
        /\ UserRow(u, x.email, by).email = x.email
    BY <1>1 DEF UsersOK, User, UserRow
  <1>3. \A z \in users : z.email = x.email => z.id = x.id
    BY DEF UsersOK
  <1> QED BY <1>1, <1>2, <1>3, UserReplaced

\* Who is there, seen from the set of ids.
LEMMA KnownById ==
  /\ \A u : Known(u) <=> u \in {x.id : x \in users}
  /\ \A u : Known(u)' <=> u \in {x.id : x \in users'}
  BY DEF Known

LEMMA SameKnown ==
  ASSUME SameIds
  PROVE  \A u : Known(u)' <=> Known(u)
  BY KnownById DEF SameIds

LEMMA SameUsers ==
  ASSUME UsersOK, UNCHANGED <<users, created>>
  PROVE  UsersOK' /\ SameIds
  BY DEF UsersOK, SameIds

-----------------------------------------------------------------------------
(* Shapes and ids *)

\* The rest of TypeInv: the two tables of codes, the ids and the histories.
TablesOK ==
  /\ resets \subseteq Reset /\ pending \subseteq Pending
  /\ created \subseteq Users
  /\ minted \in 0..MaxCode
  /\ asked \subseteq Ids \X Users
  /\ done \subseteq 1..minted /\ overlap \subseteq Users
  /\ \A x \in resets : x.id \in 1..minted
  /\ \A x, y \in resets : x.id = y.id => x = y
  /\ \A x, y \in pending : x.id = y.id => x = y
  /\ \A x \in pending : <<x.id, x.user>> \in asked
  /\ \A a \in asked : a[1] \in 1..minted /\ a[2] \in created
  /\ \A a, b \in asked : a[1] = b[1] => a = b
  /\ \A x \in resets, a \in asked : x.id # a[1]

RowsKnown == \A x \in resets \cup pending : Known(x.user)

LEMMA TypeParts ==
  /\ TypeInv => /\ UsersOK /\ TablesOK /\ RowsKnown
                /\ req \in [Requests -> Request] /\ TaskInv
  /\ UsersOK /\ TablesOK /\ RowsKnown /\ req \in [Requests -> Request] /\ TaskInv
       => TypeInv
  <1>1. minted \in 0..MaxCode /\ done \subseteq 1..minted => done \subseteq Ids
    BY DEF Ids
  <1> QED BY <1>1
    DEF TypeInv, TypeOK, IdsInv, UsersOK, TablesOK, RowsKnown, Request

LEMMA TypePartsNext ==
  UsersOK' /\ TablesOK' /\ RowsKnown' /\ req' \in [Requests -> Request] /\ TaskInv'
    => TypeInv'
  <1>1. minted' \in 0..MaxCode /\ done' \subseteq 1..minted' => done' \subseteq Ids
    BY DEF Ids
  <1> QED BY <1>1
    DEF TypeInv, TypeOK, IdsInv, UsersOK, TablesOK, RowsKnown, Request

LEMMA InitTypeInv == Init => TypeInv
  <1> SUFFICES ASSUME Init PROVE TypeInv
    OBVIOUS
  <1>1. Idle \in Request /\ TaskOK(Idle, {})
    BY DEF Idle, Task, Request, TaskOK, PC, EmailPC
  <1>2. req \in [Requests -> Request] /\ TaskInv
    BY <1>1 DEF Init, TaskInv
  <1>3. UsersOK /\ TablesOK /\ RowsKnown
    BY DEF Init, UsersOK, TablesOK, RowsKnown
  <1> QED BY <1>2, <1>3, TypeParts

\* Nothing but req changes, and a row that was there is read.
LEMMA TablesKept ==
  ASSUME TypeInv,
         UNCHANGED <<users, resets, pending, created, minted, asked, done, overlap>>
  PROVE  UsersOK' /\ TablesOK' /\ RowsKnown'
  <1>1. UsersOK /\ TablesOK /\ RowsKnown
    BY TypeParts
  <1> QED BY <1>1 DEF UsersOK, TablesOK, RowsKnown, Known

LEMMA ForgotClearType ==
  ASSUME TypeInv, NEW r \in Requests, NEW u \in Users, ForgotClear(r, u)
  PROVE  TypeInv'
  <1>1. UsersOK /\ TablesOK /\ RowsKnown /\ TypeOK /\ TaskInv
    BY TypeParts DEF TypeInv
  <1> DEFINE q == Task("forgot", 0, u, NoEmail, FALSE)
  <1>2. q \in Request /\ TaskOK(q, asked')
    BY DEF Task, Request, TaskOK, PC, EmailPC
  <1>3. asked \subseteq asked' /\ Continue(r, q)
    BY DEF ForgotClear
  <1>4. req' \in [Requests -> Request] /\ TaskInv'
    <2> HIDE DEF q
    <2> QED BY <1>1, <1>2, <1>3, ContinueOK
  <1>5. resets' \subseteq resets /\ overlap' \subseteq Users
    BY <1>1 DEF ForgotClear, TablesOK
  <1>6. UsersOK' /\ RowsKnown'
    BY <1>1, <1>5 DEF ForgotClear, UsersOK, RowsKnown, Known
  <1>7. TablesOK'
    BY <1>1, <1>5 DEF ForgotClear, TablesOK
  <1> QED BY <1>4, <1>6, <1>7, TypePartsNext

\* The next id is nobody's.
LEMMA NextId ==
  ASSUME TablesOK, minted < MaxCode, minted' = minted + 1
  PROVE  /\ minted + 1 \in Ids /\ minted' \in 0..MaxCode
         /\ minted + 1 \in 1..minted'
         /\ 1..minted \subseteq 1..minted'
         /\ minted + 1 \notin 1..minted
         /\ minted + 1 \notin done
         /\ \A x \in resets : x.id # minted + 1
         /\ \A x \in pending : x.id # minted + 1
         /\ \A a \in asked : a[1] # minted + 1
  <1>1. minted \in 0..MaxCode /\ minted \in Nat
    BY DEF TablesOK
  <1>2. /\ minted + 1 \in Ids /\ minted' \in 0..MaxCode
        /\ minted + 1 \in 1..minted'
        /\ 1..minted \subseteq 1..minted'
        /\ minted + 1 \notin 1..minted
    BY <1>1 DEF Ids
  <1>3. \A a \in asked : a[1] # minted + 1
    BY <1>2 DEF TablesOK
  <1>4. ASSUME NEW x \in pending PROVE x.id # minted + 1
    <2>1. <<x.id, x.user>> \in asked
      BY DEF TablesOK
    <2>2. <<x.id, x.user>>[1] # minted + 1
      BY <2>1, <1>3
    <2> QED BY <2>2
  <1>5. minted + 1 \notin done /\ \A x \in resets : x.id # minted + 1
    BY <1>2 DEF TablesOK
  <1> QED BY <1>2, <1>3, <1>4, <1>5

LEMMA ForgotCreateType ==
  ASSUME TypeInv, NEW r \in Requests, ForgotCreate(r)
  PROVE  TypeInv'
  <1>1. UsersOK /\ TablesOK /\ RowsKnown /\ TypeOK /\ TaskInv
    BY TypeParts DEF TypeInv
  <1>2. req' \in [Requests -> Request] /\ TaskInv'
    BY <1>1, FinishOK DEF ForgotCreate
  <1> DEFINE y == ResetRow(minted + 1, req[r].user, FALSE, TRUE)
  <1>3. /\ minted < MaxCode /\ minted' = minted + 1
        /\ resets' = resets \cup {y}
        /\ UNCHANGED <<users, pending, created, asked, done, overlap>>
        /\ Known(req[r].user)
    BY DEF ForgotCreate
  <1>4. req[r].user \in Users
    BY <1>1 DEF TaskInv, TaskOK, ForgotCreate
  <1>5. /\ minted + 1 \in Ids /\ minted' \in 0..MaxCode
        /\ minted + 1 \in 1..minted'
        /\ 1..minted \subseteq 1..minted'
        /\ \A x \in resets : x.id # minted + 1
        /\ \A a \in asked : a[1] # minted + 1
    BY <1>1, <1>3, NextId
  <1>6. y \in Reset /\ y.id = minted + 1 /\ y.user = req[r].user
    BY <1>4, <1>5 DEF Reset, ResetRow
  <1> HIDE DEF y
  <1>7. UsersOK' /\ RowsKnown'
    BY <1>1, <1>3, <1>6 DEF UsersOK, RowsKnown, Known
  <1>8. /\ \A x \in resets' : x.id \in 1..minted'
        /\ \A x, z \in resets' : x.id = z.id => x = z
        /\ \A x \in resets', a \in asked' : x.id # a[1]
        /\ \A a \in asked' : a[1] \in 1..minted' /\ a[2] \in created'
        /\ done' \subseteq 1..minted'
    BY <1>1, <1>3, <1>5, <1>6 DEF TablesOK
  <1>9. TablesOK'
    BY <1>1, <1>3, <1>5, <1>6, <1>8 DEF TablesOK
  <1> QED BY <1>2, <1>7, <1>9, TypePartsNext

\* A reset code's row is replaced by one of the same code and user.
LEMMA ResetReplaced ==
  ASSUME TypeInv, NEW x \in resets, NEW y \in Reset, y.id = x.id, y.user = x.user,
         resets' = (resets \ {x}) \cup {y},
         NEW D, D \subseteq 1..minted, done' = D,
         UNCHANGED <<users, pending, created, minted, asked, overlap>>
  PROVE  UsersOK' /\ TablesOK' /\ RowsKnown'
  <1>1. UsersOK /\ TablesOK /\ RowsKnown
    BY TypeParts
  <1>2. UsersOK' /\ RowsKnown'
    BY <1>1 DEF UsersOK, RowsKnown, Known
  <1>3. \A z \in resets : z.id = x.id => z = x
    BY <1>1 DEF TablesOK
  <1>4. ASSUME NEW a \in resets', NEW b \in resets', a.id = b.id PROVE a = b
    <2>1. CASE a = y /\ b # y
      BY <1>3, <1>4, <2>1
    <2>2. CASE a # y /\ b = y
      BY <1>3, <1>4, <2>2
    <2>3. CASE a # y /\ b # y
      BY <1>1, <1>4, <2>3 DEF TablesOK
    <2> QED BY <2>1, <2>2, <2>3
  <1>5. /\ resets' \subseteq Reset
        /\ \A z \in resets' : z.id \in 1..minted'
        /\ \A z \in resets', a \in asked' : z.id # a[1]
    BY <1>1 DEF TablesOK
  <1>6. TablesOK'
    BY <1>1, <1>4, <1>5 DEF TablesOK
  <1> QED BY <1>2, <1>6

\* The same for the row of an email change.
LEMMA PendingReplaced ==
  ASSUME TypeInv, NEW x \in pending, NEW y \in Pending, y.id = x.id, y.user = x.user,
         pending' = (pending \ {x}) \cup {y},
         UNCHANGED <<users, resets, created, minted, asked, done, overlap>>
  PROVE  UsersOK' /\ TablesOK' /\ RowsKnown'
  <1>1. UsersOK /\ TablesOK /\ RowsKnown
    BY TypeParts
  <1>2. UsersOK' /\ RowsKnown'
    BY <1>1 DEF UsersOK, RowsKnown, Known
  <1>3. \A z \in pending : z.id = x.id => z = x
    BY <1>1 DEF TablesOK
  <1>4. ASSUME NEW a \in pending', NEW b \in pending', a.id = b.id PROVE a = b
    <2>1. CASE a = y /\ b # y
      BY <1>3, <1>4, <2>1
    <2>2. CASE a # y /\ b = y
      BY <1>3, <1>4, <2>2
    <2>3. CASE a # y /\ b # y
      BY <1>1, <1>4, <2>3 DEF TablesOK
    <2> QED BY <2>1, <2>2, <2>3
  <1>5. pending' \subseteq Pending /\ \A z \in pending' : <<z.id, z.user>> \in asked'
    BY <1>1 DEF TablesOK
  <1>6. TablesOK'
    BY <1>1, <1>4, <1>5 DEF TablesOK
  <1> QED BY <1>2, <1>6

LEMMA ReqKept ==
  ASSUME TypeInv, UNCHANGED <<asked, req>>
  PROVE  req' \in [Requests -> Request] /\ TaskInv'
  BY TypeParts DEF TaskInv, TaskOK

LEMMA ResetExpiresType ==
  ASSUME TypeInv, NEW x \in resets, ResetExpires(x)
  PROVE  TypeInv'
  <1>1. UsersOK /\ TablesOK
    BY TypeParts
  <1> DEFINE y == ResetRow(x.id, x.user, x.used, FALSE)
  <1>2. y \in Reset /\ y.id = x.id /\ y.user = x.user
    BY <1>1 DEF TablesOK, Reset, ResetRow
  <1>3. /\ resets' = (resets \ {x}) \cup {y}
        /\ UNCHANGED <<users, pending, created, minted, asked, done, overlap, req>>
    BY DEF ResetExpires
  <1> HIDE DEF y
  <1>4. done \subseteq 1..minted
    BY <1>1 DEF TablesOK
  <1>5. UsersOK' /\ TablesOK' /\ RowsKnown'
    BY <1>2, <1>3, <1>4, ResetReplaced
  <1> QED BY <1>3, <1>5, ReqKept, TypePartsNext

LEMMA PendingExpiresType ==
  ASSUME TypeInv, NEW x \in pending, PendingExpires(x)
  PROVE  TypeInv'
  <1>1. UsersOK /\ TablesOK
    BY TypeParts
  <1> DEFINE y == PendingRow(x.id, x.user, x.email, x.used, FALSE)
  <1>2. y \in Pending /\ y.id = x.id /\ y.user = x.user
    BY <1>1 DEF TablesOK, Pending, PendingRow
  <1>3. /\ pending' = (pending \ {x}) \cup {y}
        /\ UNCHANGED <<users, resets, created, minted, asked, done, overlap, req>>
    BY DEF PendingExpires
  <1> HIDE DEF y
  <1>5. UsersOK' /\ TablesOK' /\ RowsKnown'
    BY <1>2, <1>3, PendingReplaced
  <1> QED BY <1>3, <1>5, ReqKept, TypePartsNext

LEMMA ConfirmType ==
  ASSUME TypeInv, NEW r \in Requests, NEW x \in resets, Confirm(r, x)
  PROVE  TypeInv'
  <1>1. TablesOK /\ TypeOK /\ TaskInv
    BY TypeParts DEF TypeInv
  <1> DEFINE q == Task("confirm", x.id, x.user, NoEmail, x.id \notin done)
  <1>2. x \in Reset /\ x.id \in Ids /\ x.user \in Users /\ x.id \in 0..MaxCode
    BY <1>1 DEF TablesOK, Reset, Ids
  <1>3. q \in Request /\ TaskOK(q, asked')
    BY <1>2 DEF Task, Request, TaskOK, PC, EmailPC
  <1>4. asked \subseteq asked' /\ Continue(r, q)
    BY DEF Confirm
  <1>5. req' \in [Requests -> Request] /\ TaskInv'
    <2> HIDE DEF q
    <2> QED BY <1>1, <1>3, <1>4, ContinueOK
  <1>6. UsersOK' /\ TablesOK' /\ RowsKnown'
    BY TablesKept DEF Confirm
  <1> QED BY <1>5, <1>6, TypePartsNext

LEMMA ConfirmUpdateType ==
  ASSUME TypeInv, NEW r \in Requests, ConfirmUpdate(r)
  PROVE  TypeInv' /\ SameIds
  <1>1. UsersOK /\ TablesOK /\ RowsKnown /\ TypeOK /\ TaskInv
    BY TypeParts DEF TypeInv
  <1>2. /\ SetBy(req[r].user, "code") /\ Step(r, "mark") /\ req[r].pc = "confirm"
        /\ UNCHANGED <<resets, pending, created, minted, asked, done, overlap>>
    BY DEF ConfirmUpdate
  <1>3. "code" \in By /\ "mark" \in PC
    BY DEF By, PC
  <1>4. UsersOK' /\ SameIds
    BY <1>1, <1>2, <1>3, SetByOK
  <1>5. TaskOK([req[r] EXCEPT !.pc = "mark"], asked)
    BY <1>1, <1>2 DEF TypeOK, TaskInv, TaskOK, EmailPC
  <1>6. req' \in [Requests -> Request] /\ TaskInv'
    BY <1>1, <1>2, <1>3, <1>5, StepOK
  <1>7. TablesOK' /\ RowsKnown'
    BY <1>1, <1>2, <1>4, SameKnown DEF TablesOK, RowsKnown
  <1> QED BY <1>4, <1>6, <1>7, TypePartsNext

LEMMA ConfirmMarkType ==
  ASSUME TypeInv, NEW r \in Requests, ConfirmMark(r)
  PROVE  TypeInv'
  <1>1. UsersOK /\ TablesOK /\ RowsKnown /\ TypeOK /\ TaskInv
    BY TypeParts DEF TypeInv
  <1>2. PICK x \in resets :
          /\ x.id = req[r].code
          /\ resets' = (resets \ {x}) \cup {ResetRow(x.id, x.user, TRUE, x.fresh)}
    BY DEF ConfirmMark
  <1>3. /\ Finish(r) /\ done' = done \cup {req[r].code}
        /\ UNCHANGED <<users, pending, created, minted, asked, overlap>>
    BY DEF ConfirmMark
  <1> DEFINE y == ResetRow(x.id, x.user, TRUE, x.fresh)
             D == done \cup {req[r].code}
  <1>4. y \in Reset /\ y.id = x.id /\ y.user = x.user
    BY <1>1 DEF TablesOK, Reset, ResetRow
  <1>5. D \subseteq 1..minted
    <2>1. req[r].code \in 1..minted
      BY <1>1, <1>2 DEF TablesOK
    <2>2. done \subseteq 1..minted
      BY <1>1 DEF TablesOK
    <2> QED BY <2>1, <2>2
  <1>6. done' = D /\ resets' = (resets \ {x}) \cup {y}
    BY <1>2, <1>3
  <1> HIDE DEF y, D
  <1>7. UsersOK' /\ TablesOK' /\ RowsKnown'
    BY <1>3, <1>4, <1>5, <1>6, ResetReplaced
  <1>8. req' \in [Requests -> Request] /\ TaskInv'
    BY <1>1, <1>3, FinishOK
  <1> QED BY <1>7, <1>8, TypePartsNext

LEMMA EmailAskType ==
  ASSUME TypeInv, NEW r \in Requests, NEW u \in Users, NEW e \in Emails, EmailAsk(r, u, e)
  PROVE  TypeInv'
  <1>1. TypeOK /\ TaskInv
    BY DEF TypeInv
  <1> DEFINE q == Task("ask", 0, u, e, FALSE)
  <1>2. q \in Request /\ TaskOK(q, asked')
    BY DEF Task, Request, TaskOK, PC, EmailPC
  <1>3. asked \subseteq asked' /\ Continue(r, q)
    BY DEF EmailAsk
  <1>4. req' \in [Requests -> Request] /\ TaskInv'
    <2> HIDE DEF q
    <2> QED BY <1>1, <1>2, <1>3, ContinueOK
  <1>5. UsersOK' /\ TablesOK' /\ RowsKnown'
    BY TablesKept DEF EmailAsk
  <1> QED BY <1>4, <1>5, TypePartsNext

LEMMA EmailPendType ==
  ASSUME TypeInv, NEW r \in Requests, EmailPend(r)
  PROVE  TypeInv'
  <1>1. UsersOK /\ TablesOK /\ RowsKnown /\ TypeOK /\ TaskInv
    BY TypeParts DEF TypeInv
  <1> DEFINE y == PendingRow(minted + 1, req[r].user, req[r].email, FALSE, TRUE)
             a == <<minted + 1, req[r].user>>
  <1>2. /\ minted < MaxCode /\ minted' = minted + 1
        /\ pending' = pending \cup {y}
        /\ asked' = asked \cup {a}
        /\ UNCHANGED <<users, resets, created, done, overlap>>
        /\ Known(req[r].user) /\ Finish(r) /\ req[r].pc = "ask"
    BY DEF EmailPend
  <1>3. req' \in [Requests -> Request] /\ TaskInv'
    <2> HIDE DEF a
    <2> QED BY <1>1, <1>2, FinishOK
  <1>4. req[r].user \in Users /\ req[r].email \in Emails /\ req[r].user \in created
    BY <1>1, <1>2 DEF TaskInv, TaskOK, UsersOK, Known
  <1>5. /\ minted + 1 \in Ids /\ minted' \in 0..MaxCode
        /\ minted + 1 \in 1..minted'
        /\ 1..minted \subseteq 1..minted'
        /\ \A x \in resets : x.id # minted + 1
        /\ \A x \in pending : x.id # minted + 1
        /\ \A b \in asked : b[1] # minted + 1
    BY <1>1, <1>2, NextId
  <1>6. /\ y \in Pending /\ y.id = minted + 1 /\ y.user = req[r].user
        /\ a \in Ids \X Users /\ a[1] = minted + 1 /\ a[2] = req[r].user
        /\ <<y.id, y.user>> = a
    BY <1>4, <1>5 DEF Pending, PendingRow
  <1> HIDE DEF y, a
  <1>7. UsersOK' /\ RowsKnown'
    BY <1>1, <1>2, <1>6 DEF UsersOK, RowsKnown, Known
  <1>8. /\ \A x \in resets' : x.id \in 1..minted'
        /\ \A x, z \in pending' : x.id = z.id => x = z
        /\ \A x \in pending' : <<x.id, x.user>> \in asked'
        /\ done' \subseteq 1..minted'
    BY <1>1, <1>2, <1>5, <1>6 DEF TablesOK
  <1>9. /\ \A b \in asked' : b[1] \in 1..minted' /\ b[2] \in created'
        /\ \A b, c \in asked' : b[1] = c[1] => b = c
        /\ \A x \in resets', b \in asked' : x.id # b[1]
    BY <1>1, <1>2, <1>4, <1>5, <1>6 DEF TablesOK
  <1>10. TablesOK'
    BY <1>1, <1>2, <1>5, <1>6, <1>8, <1>9 DEF TablesOK
  <1> QED BY <1>3, <1>7, <1>10, TypePartsNext

LEMMA EmailVerifyType ==
  ASSUME TypeInv, NEW r \in Requests, NEW x \in pending, EmailVerify(r, x)
  PROVE  TypeInv'
  <1>1. TablesOK /\ TypeOK /\ TaskInv
    BY TypeParts DEF TypeInv
  <1> DEFINE q == Task("change", x.id, x.user, x.email, x.id \notin done)
  <1>2. /\ x \in Pending /\ x.id \in Ids /\ x.user \in Users /\ x.id \in 0..MaxCode
        /\ x.email \in Emails /\ <<x.id, x.user>> \in asked
    BY <1>1 DEF TablesOK, Pending, Ids
  <1>3. q \in Request /\ TaskOK(q, asked)
    BY <1>2 DEF Task, Request, TaskOK, PC, EmailPC
  <1>4. asked \subseteq asked' /\ Continue(r, q) /\ TaskOK(q, asked')
    BY <1>3 DEF EmailVerify
  <1>5. req' \in [Requests -> Request] /\ TaskInv'
    <2> HIDE DEF q
    <2> QED BY <1>1, <1>3, <1>4, ContinueOK
  <1>6. UsersOK' /\ TablesOK' /\ RowsKnown'
    BY TablesKept DEF EmailVerify
  <1> QED BY <1>5, <1>6, TypePartsNext

LEMMA EmailUpdateType ==
  ASSUME TypeInv, NEW r \in Requests, EmailUpdate(r)
  PROVE  TypeInv' /\ SameIds
  <1>1. UsersOK /\ TablesOK /\ RowsKnown /\ TypeOK /\ TaskInv
    BY TypeParts DEF TypeInv
  <1>2. /\ req[r].pc = "change" /\ Step(r, "markChange")
        /\ UNCHANGED <<resets, pending, created, minted, asked, done, overlap>>
        /\ \A z \in users : z.email = req[r].email => z.id = req[r].user
    BY DEF EmailUpdate
  <1>3. PICK x \in users :
          /\ x.id = req[r].user
          /\ users' = (users \ {x}) \cup {UserRow(req[r].user, req[r].email, x.by)}
    BY DEF EmailUpdate
  <1>4. req[r].user \in Users /\ req[r].email \in Emails
    BY <1>1, <1>2 DEF TaskInv, TaskOK
  <1> DEFINE y == UserRow(req[r].user, req[r].email, x.by)
  <1>5. y \in User /\ y.id = x.id /\ \A z \in users : z.email = y.email => z.id = x.id
    BY <1>1, <1>2, <1>3, <1>4 DEF UsersOK, User, UserRow
  <1>6. users' = (users \ {x}) \cup {y}
    BY <1>3
  <1>7. UsersOK' /\ SameIds
    <2> HIDE DEF y
    <2> QED BY <1>1, <1>2, <1>5, <1>6, UserReplaced
  <1>8. TaskOK([req[r] EXCEPT !.pc = "markChange"], asked) /\ "markChange" \in PC
    BY <1>1, <1>2 DEF TypeOK, TaskInv, TaskOK, EmailPC, PC
  <1>9. req' \in [Requests -> Request] /\ TaskInv'
    BY <1>1, <1>2, <1>8, StepOK
  <1>10. TablesOK' /\ RowsKnown'
    BY <1>1, <1>2, <1>7, SameKnown DEF TablesOK, RowsKnown
  <1> QED BY <1>7, <1>9, <1>10, TypePartsNext

LEMMA EmailMarkType ==
  ASSUME TypeInv, NEW r \in Requests, EmailMark(r)
  PROVE  TypeInv'
  <1>1. TablesOK /\ TypeOK /\ TaskInv
    BY TypeParts DEF TypeInv
  <1>2. PICK x \in pending :
          /\ x.id = req[r].code
          /\ pending' = (pending \ {x}) \cup {PendingRow(x.id, x.user, x.email, TRUE, x.fresh)}
    BY DEF EmailMark
  <1>3. /\ req[r].pc = "markChange" /\ Step(r, "delete")
        /\ UNCHANGED <<users, resets, created, minted, asked, done, overlap>>
    BY DEF EmailMark
  <1> DEFINE y == PendingRow(x.id, x.user, x.email, TRUE, x.fresh)
  <1>4. y \in Pending /\ y.id = x.id /\ y.user = x.user
    BY <1>1 DEF TablesOK, Pending, PendingRow
  <1>5. UsersOK' /\ TablesOK' /\ RowsKnown'
    <2>1. pending' = (pending \ {x}) \cup {y}
      BY <1>2
    <2> HIDE DEF y
    <2> QED BY <1>3, <1>4, <2>1, PendingReplaced
  <1>6. TaskOK([req[r] EXCEPT !.pc = "delete"], asked) /\ "delete" \in PC
    BY <1>1, <1>3 DEF TypeOK, TaskInv, TaskOK, EmailPC, PC
  <1>7. req' \in [Requests -> Request] /\ TaskInv'
    BY <1>1, <1>3, <1>6, StepOK
  <1> QED BY <1>5, <1>7, TypePartsNext

LEMMA EmailDeleteType ==
  ASSUME TypeInv, NEW r \in Requests, EmailDelete(r)
  PROVE  TypeInv'
  <1>1. UsersOK /\ TablesOK /\ RowsKnown /\ TypeOK /\ TaskInv
    BY TypeParts DEF TypeInv
  <1>2. /\ req[r].pc = "delete" /\ Finish(r) /\ done' = done \cup {req[r].code}
        /\ UNCHANGED <<users, resets, created, minted, asked, overlap>>
        /\ pending' \subseteq pending
    BY DEF EmailDelete
  <1>3. req' \in [Requests -> Request] /\ TaskInv'
    BY <1>1, <1>2, FinishOK
  <1>4. done' \subseteq 1..minted
    <2>1. <<req[r].code, req[r].user>> \in asked
      BY <1>1, <1>2 DEF TaskInv, TaskOK, EmailPC
    <2>2. <<req[r].code, req[r].user>>[1] \in 1..minted
      BY <1>1, <2>1 DEF TablesOK
    <2>3. done \subseteq 1..minted
      BY <1>1 DEF TablesOK
    <2> QED BY <1>2, <2>2, <2>3
  <1>5. UsersOK' /\ RowsKnown'
    BY <1>1, <1>2 DEF UsersOK, RowsKnown, Known
  <1>6. TablesOK'
    BY <1>1, <1>2, <1>4 DEF TablesOK
  <1> QED BY <1>3, <1>5, <1>6, TypePartsNext

\* POST /account/set-password and /account/reset-password
LEMMA PasswordType ==
  ASSUME TypeInv, NEW u \in Users, NEW by \in By, SetBy(u, by),
         UNCHANGED <<resets, pending, created, minted, asked, done, overlap, req>>
  PROVE  TypeInv' /\ SameIds
  <1>1. UsersOK /\ TablesOK /\ RowsKnown
    BY TypeParts
  <1>2. UsersOK' /\ SameIds
    BY <1>1, SetByOK
  <1>3. TablesOK' /\ RowsKnown'
    BY <1>1, <1>2, SameKnown DEF TablesOK, RowsKnown
  <1> QED BY <1>2, <1>3, ReqKept, TypePartsNext

LEMMA RegisterType ==
  ASSUME TypeInv, NEW u \in Users, NEW e \in Emails, NEW by \in {"none", "register"},
         Register(u, e, by)
  PROVE  TypeInv'
  <1>1. UsersOK /\ TablesOK /\ RowsKnown
    BY TypeParts
  <1> DEFINE y == UserRow(u, e, by)
  <1>2. /\ u \notin created /\ \A x \in users : x.email # e
        /\ users' = users \cup {y} /\ created' = created \cup {u}
        /\ UNCHANGED <<resets, pending, minted, asked, done, overlap, req>>
    BY DEF Register, EmailTaken
  <1>3. y \in User /\ y.id = u /\ y.email = e
    BY DEF User, UserRow, By
  <1> HIDE DEF y
  <1>4. UsersOK'
    BY <1>1, <1>2, <1>3 DEF UsersOK
  <1>5. TablesOK' /\ RowsKnown'
    BY <1>1, <1>2 DEF TablesOK, RowsKnown, Known
  <1> QED BY <1>2, <1>4, <1>5, ReqKept, TypePartsNext

LEMMA DeleteUserType ==
  ASSUME TypeInv, NEW x \in users, DeleteUser(x)
  PROVE  TypeInv'
  <1>1. UsersOK /\ TablesOK /\ RowsKnown
    BY TypeParts
  <1>2. /\ users' = users \ {x}
        /\ resets' = {y \in resets : y.user # x.id}
        /\ pending' = {y \in pending : y.user # x.id}
        /\ UNCHANGED <<created, minted, asked, done, overlap, req>>
    BY DEF DeleteUser
  <1>3. UsersOK' /\ TablesOK'
    BY <1>1, <1>2 DEF UsersOK, TablesOK
  <1>4. RowsKnown'
    BY <1>1, <1>2 DEF RowsKnown, Known
  <1> QED BY <1>2, <1>3, <1>4, ReqKept, TypePartsNext

LEMMA FailType ==
  ASSUME TypeInv, NEW r \in Requests, Fail(r)
  PROVE  TypeInv'
  <1>1. TypeOK /\ TaskInv
    BY DEF TypeInv
  <1>2. req' \in [Requests -> Request] /\ TaskInv'
    BY <1>1, FinishOK DEF Fail
  <1>3. UsersOK' /\ TablesOK' /\ RowsKnown'
    BY TablesKept DEF Fail
  <1> QED BY <1>2, <1>3, TypePartsNext

-----------------------------------------------------------------------------
(* What each step does to req *)

OthersStay(r) == \A p \in Requests : p # r => req'[p] = req[p]

LEMMA Moves ==
  ASSUME TypeOK, NEW r \in Requests, NEW q, Continue(r, q)
  PROVE  req'[r] = q /\ OthersStay(r)
  BY DEF TypeOK, Continue, OthersStay

LEMMA Ends ==
  ASSUME TypeOK, NEW r \in Requests, Finish(r)
  PROVE  req'[r].pc = "idle" /\ OthersStay(r)
  BY Moves DEF Finish, Idle, Task

LEMMA Steps ==
  ASSUME TypeOK, NEW r \in Requests, NEW pc, Step(r, pc)
  PROVE  /\ req'[r].pc = pc
         /\ req'[r].code = req[r].code /\ req'[r].user = req[r].user
         /\ OthersStay(r)
  <1>1. req'[r] = [req[r] EXCEPT !.pc = pc] /\ OthersStay(r)
    BY Moves DEF Step
  <1>2. req[r] \in Request
    BY DEF TypeOK, Request
  <1> QED BY <1>1, <1>2 DEF Request

-----------------------------------------------------------------------------
(* DoneInv *)

\* Rows come from rows and stay marked, or have the next id; no request gets
\* ready to delete.
LEMMA DoneKept ==
  ASSUME TypeInv, DoneInv, done' = done,
         \A y \in resets' :
           y.id = minted + 1 \/ \E x \in resets : x.id = y.id /\ (x.used => y.used),
         \A y \in pending' :
           y.id = minted + 1 \/ \E x \in pending : x.id = y.id /\ (x.used => y.used),
         \A r \in Requests : req'[r].pc = "delete" => req'[r] = req[r]
  PROVE  DoneInv'
  <1>1. TablesOK /\ TaskInv
    BY TypeParts
  <1>2. minted + 1 \notin 1..minted /\ minted + 1 \notin done
    BY <1>1 DEF TablesOK
  <1>3. ASSUME NEW y \in resets' \cup pending', y.id \in done' PROVE y.used
    <2>1. \E x \in resets \cup pending : x.id = y.id /\ (x.used => y.used)
      BY <1>2, <1>3
    <2> QED BY <1>3, <2>1 DEF DoneInv
  <1>4. ASSUME NEW r \in Requests, req'[r].pc = "delete",
               NEW y \in pending', y.id = req'[r].code
        PROVE  y.used
    <2>1. req'[r] = req[r]
      BY <1>4
    <2>2. <<req[r].code, req[r].user>> \in asked
      BY <1>1, <1>4, <2>1 DEF TaskInv, TaskOK, EmailPC
    <2>3. <<req[r].code, req[r].user>>[1] \in 1..minted
      BY <1>1, <2>2 DEF TablesOK
    <2>4. PICK x \in pending : x.id = y.id /\ (x.used => y.used)
      BY <1>2, <1>4, <2>1, <2>3
    <2> QED BY <1>4, <2>1, <2>4 DEF DoneInv
  <1> QED BY <1>3, <1>4 DEF DoneInv

\* The same, of a step of one request.
LEMMA DoneKeptBy ==
  ASSUME TypeInv, DoneInv, done' = done,
         \A y \in resets' :
           y.id = minted + 1 \/ \E x \in resets : x.id = y.id /\ (x.used => y.used),
         \A y \in pending' :
           y.id = minted + 1 \/ \E x \in pending : x.id = y.id /\ (x.used => y.used),
         NEW r \in Requests, OthersStay(r), req'[r].pc # "delete"
  PROVE  DoneInv'
  BY DoneKept DEF OthersStay

LEMMA ConfirmMarkDone ==
  ASSUME TypeInv, DoneInv, NEW r \in Requests, ConfirmMark(r)
  PROVE  DoneInv'
  <1>1. TablesOK /\ TypeOK
    BY TypeParts DEF TypeInv
  <1>2. PICK x \in resets :
          /\ x.id = req[r].code
          /\ resets' = (resets \ {x}) \cup {ResetRow(x.id, x.user, TRUE, x.fresh)}
    BY DEF ConfirmMark
  <1>3. done' = done \cup {x.id} /\ pending' = pending /\ Finish(r)
    BY <1>2 DEF ConfirmMark
  <1>4. req'[r].pc = "idle" /\ OthersStay(r)
    BY <1>1, <1>3, Ends
  <1>5. \A y \in resets' : y.id \in done' => y.used
    BY <1>1, <1>2, <1>3 DEF TablesOK, DoneInv, ResetRow
  <1>6. ASSUME NEW y \in pending', y.id \in done' PROVE y.used
    <2>1. <<y.id, y.user>> \in asked
      BY <1>1, <1>3 DEF TablesOK
    <2>2. <<y.id, y.user>>[1] # x.id
      BY <1>1, <2>1 DEF TablesOK
    <2> QED BY <1>3, <1>6, <2>2 DEF DoneInv
  <1>7. \A p \in Requests : req'[p].pc = "delete" =>
          \A y \in pending' : y.id = req'[p].code => y.used
    BY <1>3, <1>4 DEF DoneInv, OthersStay
  <1> QED BY <1>5, <1>6, <1>7 DEF DoneInv

LEMMA EmailMarkDone ==
  ASSUME TypeInv, DoneInv, NEW r \in Requests, EmailMark(r)
  PROVE  DoneInv'
  <1>1. TablesOK /\ TypeOK
    BY TypeParts DEF TypeInv
  <1>2. PICK x \in pending :
          /\ x.id = req[r].code
          /\ pending' = (pending \ {x}) \cup {PendingRow(x.id, x.user, x.email, TRUE, x.fresh)}
    BY DEF EmailMark
  <1>3. done' = done /\ resets' = resets /\ Step(r, "delete")
    BY DEF EmailMark
  <1>4. req'[r].code = req[r].code /\ OthersStay(r)
    BY <1>1, <1>3, Steps
  <1>5. \A y \in resets' \cup pending' : y.id \in done' => y.used
    BY <1>2, <1>3 DEF DoneInv, PendingRow
  <1>6. \A y \in pending' : y.id = req'[r].code => y.used
    BY <1>1, <1>2, <1>4 DEF TablesOK, PendingRow
  <1>7. \A p \in Requests : p # r /\ req'[p].pc = "delete" =>
          \A y \in pending' : y.id = req'[p].code => y.used
    BY <1>2, <1>4 DEF DoneInv, OthersStay, PendingRow
  <1> QED BY <1>5, <1>6, <1>7 DEF DoneInv

LEMMA EmailDeleteDone ==
  ASSUME TypeInv, DoneInv, NEW r \in Requests, EmailDelete(r)
  PROVE  DoneInv'
  <1>1. TablesOK /\ TypeOK /\ TaskInv
    BY TypeParts DEF TypeInv
  <1>2. /\ done' = done \cup {req[r].code} /\ resets' = resets /\ pending' \subseteq pending
        /\ Finish(r) /\ req[r].pc = "delete"
    BY DEF EmailDelete
  <1>3. req'[r].pc = "idle" /\ OthersStay(r)
    BY <1>1, <1>2, Ends
  <1>4. \A y \in pending' : y.id \in done' => y.used
    BY <1>2 DEF DoneInv
  <1>5. \A y \in resets' : y.id \in done' => y.used
    <2>1. <<req[r].code, req[r].user>> \in asked
      BY <1>1, <1>2 DEF TaskInv, TaskOK, EmailPC
    <2>2. \A y \in resets : y.id # <<req[r].code, req[r].user>>[1]
      BY <1>1, <2>1 DEF TablesOK
    <2> QED BY <1>2, <2>2 DEF DoneInv
  <1>6. \A p \in Requests : req'[p].pc = "delete" =>
          \A y \in pending' : y.id = req'[p].code => y.used
    BY <1>2, <1>3 DEF DoneInv, OthersStay
  <1> QED BY <1>4, <1>5, <1>6 DEF DoneInv

\* Every step of a request.
LEMMA HandlerDone ==
  ASSUME TypeInv, DoneInv, NEW r \in Requests, Handler(r)
  PROVE  DoneInv'
  <1>0. TypeOK
    BY DEF TypeInv
  <1>1. CASE \E u \in Users : ForgotClear(r, u)
    <2>1. PICK u \in Users : ForgotClear(r, u)
      BY <1>1
    <2>2. req'[r].pc = "forgot" /\ OthersStay(r)
      BY <1>0, <2>1, Moves DEF ForgotClear, Task
    <2>3. resets' \subseteq resets /\ pending' = pending /\ done' = done
      BY <2>1 DEF ForgotClear
    <2> QED BY <2>2, <2>3, DoneKeptBy
  <1>2. CASE ForgotCreate(r)
    <2>1. req'[r].pc = "idle" /\ OthersStay(r)
      BY <1>0, <1>2, Ends DEF ForgotCreate
    <2> QED BY <1>2, <2>1, DoneKeptBy DEF ForgotCreate, ResetRow
  <1>3. CASE \E x \in resets : Confirm(r, x)
    <2>1. req'[r].pc = "confirm" /\ OthersStay(r)
      BY <1>0, <1>3, Moves DEF Confirm, Task
    <2> QED BY <1>3, <2>1, DoneKeptBy DEF Confirm
  <1>4. CASE ConfirmUpdate(r)
    <2>1. req'[r].pc = "mark" /\ OthersStay(r)
      BY <1>0, <1>4, Steps DEF ConfirmUpdate
    <2> QED BY <1>4, <2>1, DoneKeptBy DEF ConfirmUpdate
  <1>5. CASE ConfirmMark(r)
    BY <1>5, ConfirmMarkDone
  <1>6. CASE \E u \in Users, e \in Emails : EmailAsk(r, u, e)
    <2>1. req'[r].pc = "ask" /\ OthersStay(r)
      BY <1>0, <1>6, Moves DEF EmailAsk, Task
    <2> QED BY <1>6, <2>1, DoneKeptBy DEF EmailAsk
  <1>7. CASE EmailPend(r)
    <2>1. req'[r].pc = "idle" /\ OthersStay(r)
      BY <1>0, <1>7, Ends DEF EmailPend
    <2> QED BY <1>7, <2>1, DoneKeptBy DEF EmailPend, PendingRow
  <1>8. CASE \E x \in pending : EmailVerify(r, x)
    <2>1. req'[r].pc = "change" /\ OthersStay(r)
      BY <1>0, <1>8, Moves DEF EmailVerify, Task
    <2> QED BY <1>8, <2>1, DoneKeptBy DEF EmailVerify
  <1>9. CASE EmailUpdate(r)
    <2>1. req'[r].pc = "markChange" /\ OthersStay(r)
      BY <1>0, <1>9, Steps DEF EmailUpdate
    <2> QED BY <1>9, <2>1, DoneKeptBy DEF EmailUpdate
  <1>10. CASE EmailMark(r)
    BY <1>10, EmailMarkDone
  <1>11. CASE EmailDelete(r)
    BY <1>11, EmailDeleteDone
  <1>12. CASE Fail(r)
    <2>1. req'[r].pc = "idle" /\ OthersStay(r)
      BY <1>0, <1>12, Ends DEF Fail
    <2> QED BY <1>12, <2>1, DoneKeptBy DEF Fail
  <1> QED BY <1>1, <1>2, <1>3, <1>4, <1>5, <1>6, <1>7, <1>8, <1>9, <1>10, <1>11, <1>12
          DEF Handler

\* And every other step.
LEMMA NextDone ==
  ASSUME TypeInv, DoneInv, Next
  PROVE  DoneInv'
  <1>1. CASE \E r \in Requests : Handler(r)
    BY <1>1, HandlerDone
  <1>2. CASE \E x \in resets : ResetExpires(x)
    <2>1. PICK x \in resets : ResetExpires(x)
      BY <1>2
    <2> QED BY <2>1, DoneKept DEF ResetExpires, ResetRow
  <1>3. CASE \E x \in pending : PendingExpires(x)
    <2>1. PICK x \in pending : PendingExpires(x)
      BY <1>3
    <2> QED BY <2>1, DoneKept DEF PendingExpires, PendingRow
  <1>4. CASE \E u \in Users : SetPassword(u) \/ \E right \in BOOLEAN : ResetPassword(u, right)
    BY <1>4, DoneKept DEF SetPassword, ResetPassword
  <1>5. CASE \E u \in Users, e \in Emails, by \in {"none", "register"} : Register(u, e, by)
    BY <1>5, DoneKept DEF Register
  <1>6. CASE \E x \in users : DeleteUser(x)
    BY <1>6, DoneKept DEF DeleteUser
  <1> QED BY <1>1, <1>2, <1>3, <1>4, <1>5, <1>6 DEF Next

-----------------------------------------------------------------------------
(* RepeatedCodeRefused *)

LEMMA EarlyKept ==
  ASSUME RepeatedCodeRefused, NEW r \in Requests, OthersStay(r),
         req'[r].pc \in {"confirm", "change"} => req'[r].early
  PROVE  RepeatedCodeRefused'
  BY DEF RepeatedCodeRefused, OthersStay

\* A code gets in while its row is unused, and by DoneInv nobody has used it.
LEMMA HandlerEarly ==
  ASSUME TypeInv, DoneInv, RepeatedCodeRefused, NEW r \in Requests, Handler(r)
  PROVE  RepeatedCodeRefused'
  <1>0. TypeOK
    BY DEF TypeInv
  <1>1. CASE \E u \in Users : ForgotClear(r, u)
    <2>1. req'[r].pc = "forgot" /\ OthersStay(r)
      BY <1>0, <1>1, Moves DEF ForgotClear, Task
    <2> QED BY <2>1, EarlyKept
  <1>2. CASE ForgotCreate(r)
    BY <1>0, <1>2, Ends, EarlyKept DEF ForgotCreate
  <1>3. CASE \E x \in resets : Confirm(r, x)
    <2>1. PICK x \in resets : Confirm(r, x)
      BY <1>3
    <2>2. x.id \notin done
      BY <2>1 DEF Confirm, DoneInv
    <2>3. req'[r].early = (x.id \notin done) /\ OthersStay(r)
      BY <1>0, <2>1, Moves DEF Confirm, Task
    <2> QED BY <2>2, <2>3, EarlyKept
  <1>4. CASE ConfirmUpdate(r)
    BY <1>0, <1>4, Steps, EarlyKept DEF ConfirmUpdate
  <1>5. CASE ConfirmMark(r)
    BY <1>0, <1>5, Ends, EarlyKept DEF ConfirmMark
  <1>6. CASE \E u \in Users, e \in Emails : EmailAsk(r, u, e)
    <2>1. req'[r].pc = "ask" /\ OthersStay(r)
      BY <1>0, <1>6, Moves DEF EmailAsk, Task
    <2> QED BY <2>1, EarlyKept
  <1>7. CASE EmailPend(r)
    BY <1>0, <1>7, Ends, EarlyKept DEF EmailPend
  <1>8. CASE \E x \in pending : EmailVerify(r, x)
    <2>1. PICK x \in pending : EmailVerify(r, x)
      BY <1>8
    <2>2. x.id \notin done
      BY <2>1 DEF EmailVerify, DoneInv
    <2>3. req'[r].early = (x.id \notin done) /\ OthersStay(r)
      BY <1>0, <2>1, Moves DEF EmailVerify, Task
    <2> QED BY <2>2, <2>3, EarlyKept
  <1>9. CASE EmailUpdate(r)
    BY <1>0, <1>9, Steps, EarlyKept DEF EmailUpdate
  <1>10. CASE EmailMark(r)
    BY <1>0, <1>10, Steps, EarlyKept DEF EmailMark
  <1>11. CASE EmailDelete(r)
    BY <1>0, <1>11, Ends, EarlyKept DEF EmailDelete
  <1>12. CASE Fail(r)
    BY <1>0, <1>12, Ends, EarlyKept DEF Fail
  <1> QED BY <1>1, <1>2, <1>3, <1>4, <1>5, <1>6, <1>7, <1>8, <1>9, <1>10, <1>11, <1>12
          DEF Handler

\* Every step is one of a request or leaves req alone.
LEMMA HandlerOrNot ==
  ASSUME Next
  PROVE  (\E r \in Requests : Handler(r)) \/ req' = req
  BY DEF Next, ResetExpires, PendingExpires, SetPassword, ResetPassword, Register, DeleteUser

LEMMA NextEarly ==
  ASSUME TypeInv, DoneInv, RepeatedCodeRefused, Next
  PROVE  RepeatedCodeRefused'
  <1>1. CASE req' = req
    BY <1>1 DEF RepeatedCodeRefused
  <1>2. CASE \E r \in Requests : Handler(r)
    BY <1>2, HandlerEarly
  <1> QED BY <1>1, <1>2, HandlerOrNot

-----------------------------------------------------------------------------
(* OpenInv *)

\* Open codes come from open codes of the same user, nobody starts to make one.
LEMMA OpenKept ==
  ASSUME TypeInv, OpenInv, overlap' = overlap,
         \A y \in resets' :
           ~ y.used => \E x \in resets : x.id = y.id /\ x.user = y.user /\ ~ x.used,
         \A x, y \in resets' : x.id = y.id => x = y,
         \A r \in Requests : req'[r].pc = "forgot" => req'[r] = req[r]
  PROVE  OpenInv'
  <1> SUFFICES ASSUME NEW u \in Users \ overlap
               PROVE  /\ \A x, y \in OpenOf(u)' : x = y
                      /\ \A r \in Requests : Making(r, u)' => OpenOf(u)' = {}
                      /\ \A r, s \in Requests : Making(r, u)' /\ Making(s, u)' => r = s
    BY DEF OpenInv
  <1>1. \A y \in OpenOf(u)' : \E x \in OpenOf(u) : x.id = y.id
    BY DEF OpenOf
  <1>2. \A x, y \in OpenOf(u) : x = y
    BY DEF OpenInv
  <1>3. ASSUME NEW x \in OpenOf(u)', NEW y \in OpenOf(u)' PROVE x = y
    <2>1. x.id = y.id
      BY <1>1, <1>2
    <2>2. x \in resets' /\ y \in resets'
      BY DEF OpenOf
    <2> QED BY <2>1, <2>2
  <1>4. \A r \in Requests : Making(r, u)' => Making(r, u)
    BY DEF Making
  <1>5. \A r \in Requests : Making(r, u)' => OpenOf(u)' = {}
    BY <1>1, <1>4 DEF OpenInv
  <1>6. \A r, s \in Requests : Making(r, u)' /\ Making(s, u)' => r = s
    BY <1>4 DEF OpenInv
  <1> QED BY <1>3, <1>5, <1>6

LEMMA OpenKeptBy ==
  ASSUME TypeInv, TypeInv', OpenInv, overlap' = overlap,
         \A y \in resets' :
           ~ y.used => \E x \in resets : x.id = y.id /\ x.user = y.user /\ ~ x.used,
         NEW r \in Requests, OthersStay(r), req'[r].pc # "forgot"
  PROVE  OpenInv'
  <1>1. \A x, y \in resets' : x.id = y.id => x = y
    BY DEF TypeInv, IdsInv
  <1> QED BY <1>1, OpenKept DEF OthersStay

LEMMA ForgotClearOpen ==
  ASSUME TypeInv, OpenInv, NEW r \in Requests, NEW u \in Users, ForgotClear(r, u)
  PROVE  OpenInv'
  <1>1. /\ resets' = {x \in resets : ~(x.user = u /\ ~ x.used)}
        /\ overlap \subseteq overlap'
        /\ (\E p \in Requests : Making(p, u)) => u \in overlap'
    BY DEF ForgotClear, Making
  <1>2. req'[r].pc = "forgot" /\ req'[r].user = u /\ OthersStay(r)
    BY Moves DEF TypeInv, ForgotClear, Task
  <1> SUFFICES ASSUME NEW v \in Users \ overlap'
               PROVE  /\ \A x, y \in OpenOf(v)' : x = y
                      /\ \A p \in Requests : Making(p, v)' => OpenOf(v)' = {}
                      /\ \A p, s \in Requests : Making(p, v)' /\ Making(s, v)' => p = s
    BY DEF OpenInv
  <1>3. v \in Users \ overlap
    BY <1>1
  <1>4. OpenOf(v)' \subseteq OpenOf(v)
    BY <1>1 DEF OpenOf
  <1>5. \A x, y \in OpenOf(v)' : x = y
    BY <1>3, <1>4 DEF OpenInv
  <1>6. CASE v = u
    <2>1. OpenOf(v)' = {}
      BY <1>1, <1>6 DEF OpenOf
    <2>2. \A p \in Requests : Making(p, v)' => p = r
      BY <1>1, <1>2, <1>6 DEF Making, OthersStay
    <2> QED BY <1>5, <2>1, <2>2
  <1>7. CASE v # u
    <2>1. \A p \in Requests : Making(p, v)' => Making(p, v)
      BY <1>2, <1>7 DEF Making, OthersStay
    <2>2. \A p \in Requests : Making(p, v)' => OpenOf(v)' = {}
      BY <1>3, <1>4, <2>1 DEF OpenInv
    <2>3. \A p, s \in Requests : Making(p, v)' /\ Making(s, v)' => p = s
      BY <1>3, <2>1 DEF OpenInv
    <2> QED BY <1>5, <2>2, <2>3
  <1> QED BY <1>6, <1>7

LEMMA ForgotCreateOpen ==
  ASSUME TypeInv, OpenInv, NEW r \in Requests, ForgotCreate(r)
  PROVE  OpenInv'
  <1> DEFINE y == ResetRow(minted + 1, req[r].user, FALSE, TRUE)
  <1>1. resets' = resets \cup {y} /\ overlap' = overlap /\ Finish(r) /\ req[r].pc = "forgot"
    BY DEF ForgotCreate
  <1>2. req'[r].pc = "idle" /\ OthersStay(r)
    BY <1>1, Ends DEF TypeInv
  <1>3. y.user = req[r].user
    BY DEF ResetRow
  <1> HIDE DEF y
  <1> SUFFICES ASSUME NEW v \in Users \ overlap
               PROVE  /\ \A x, z \in OpenOf(v)' : x = z
                      /\ \A p \in Requests : Making(p, v)' => OpenOf(v)' = {}
                      /\ \A p, s \in Requests : Making(p, v)' /\ Making(s, v)' => p = s
    BY <1>1 DEF OpenInv
  <1>4. \A p \in Requests : Making(p, v)' => Making(p, v) /\ p # r
    BY <1>2 DEF Making, OthersStay
  <1>5. \A p, s \in Requests : Making(p, v)' /\ Making(s, v)' => p = s
    BY <1>4 DEF OpenInv
  <1>6. CASE v = req[r].user
    <2>1. Making(r, v)
      BY <1>1, <1>6 DEF Making
    <2>2. OpenOf(v) = {}
      BY <2>1 DEF OpenInv
    <2>3. \A x \in OpenOf(v)' : x = y
      BY <1>1, <2>2 DEF OpenOf
    <2>4. \A p \in Requests : ~ Making(p, v)'
      BY <1>4, <2>1 DEF OpenInv
    <2> QED BY <1>5, <2>3, <2>4
  <1>7. CASE v # req[r].user
    <2>1. OpenOf(v)' = OpenOf(v)
      BY <1>1, <1>3, <1>7 DEF OpenOf
    <2>2. \A x, z \in OpenOf(v)' : x = z
      BY <2>1 DEF OpenInv
    <2>3. \A p \in Requests : Making(p, v)' => OpenOf(v)' = {}
      BY <1>4, <2>1 DEF OpenInv
    <2> QED BY <1>5, <2>2, <2>3
  <1> QED BY <1>6, <1>7

LEMMA HandlerOpen ==
  ASSUME TypeInv, TypeInv', OpenInv, NEW r \in Requests, Handler(r)
  PROVE  OpenInv'
  <1>0. TypeOK
    BY DEF TypeInv
  <1>1. CASE \E u \in Users : ForgotClear(r, u)
    BY <1>1, ForgotClearOpen
  <1>2. CASE ForgotCreate(r)
    BY <1>2, ForgotCreateOpen
  <1>3. CASE \E x \in resets : Confirm(r, x)
    <2>1. req'[r].pc = "confirm" /\ OthersStay(r)
      BY <1>0, <1>3, Moves DEF Confirm, Task
    <2> QED BY <1>3, <2>1, OpenKeptBy DEF Confirm
  <1>4. CASE ConfirmUpdate(r)
    <2>1. req'[r].pc = "mark" /\ OthersStay(r)
      BY <1>0, <1>4, Steps DEF ConfirmUpdate
    <2> QED BY <1>4, <2>1, OpenKeptBy DEF ConfirmUpdate
  <1>5. CASE ConfirmMark(r)
    <2>1. req'[r].pc = "idle" /\ OthersStay(r)
      BY <1>0, <1>5, Ends DEF ConfirmMark
    <2> QED BY <1>5, <2>1, OpenKeptBy DEF ConfirmMark, ResetRow
  <1>6. CASE \E u \in Users, e \in Emails : EmailAsk(r, u, e)
    <2>1. req'[r].pc = "ask" /\ OthersStay(r)
      BY <1>0, <1>6, Moves DEF EmailAsk, Task
    <2> QED BY <1>6, <2>1, OpenKeptBy DEF EmailAsk
  <1>7. CASE EmailPend(r)
    <2>1. req'[r].pc = "idle" /\ OthersStay(r)
      BY <1>0, <1>7, Ends DEF EmailPend
    <2> QED BY <1>7, <2>1, OpenKeptBy DEF EmailPend
  <1>8. CASE \E x \in pending : EmailVerify(r, x)
    <2>1. req'[r].pc = "change" /\ OthersStay(r)
      BY <1>0, <1>8, Moves DEF EmailVerify, Task
    <2> QED BY <1>8, <2>1, OpenKeptBy DEF EmailVerify
  <1>9. CASE EmailUpdate(r)
    <2>1. req'[r].pc = "markChange" /\ OthersStay(r)
      BY <1>0, <1>9, Steps DEF EmailUpdate
    <2> QED BY <1>9, <2>1, OpenKeptBy DEF EmailUpdate
  <1>10. CASE EmailMark(r)
    <2>1. req'[r].pc = "delete" /\ OthersStay(r)
      BY <1>0, <1>10, Steps DEF EmailMark
    <2> QED BY <1>10, <2>1, OpenKeptBy DEF EmailMark
  <1>11. CASE EmailDelete(r)
    <2>1. req'[r].pc = "idle" /\ OthersStay(r)
      BY <1>0, <1>11, Ends DEF EmailDelete
    <2> QED BY <1>11, <2>1, OpenKeptBy DEF EmailDelete
  <1>12. CASE Fail(r)
    <2>1. req'[r].pc = "idle" /\ OthersStay(r)
      BY <1>0, <1>12, Ends DEF Fail
    <2> QED BY <1>12, <2>1, OpenKeptBy DEF Fail
  <1> QED BY <1>1, <1>2, <1>3, <1>4, <1>5, <1>6, <1>7, <1>8, <1>9, <1>10, <1>11, <1>12
          DEF Handler

LEMMA NextOpen ==
  ASSUME TypeInv, TypeInv', OpenInv, Next
  PROVE  OpenInv'
  <1>0. \A x, y \in resets' : x.id = y.id => x = y
    BY DEF TypeInv, IdsInv
  <1>1. CASE \E r \in Requests : Handler(r)
    BY <1>1, HandlerOpen
  <1>2. CASE \E x \in resets : ResetExpires(x)
    <2>1. PICK x \in resets : ResetExpires(x)
      BY <1>2
    <2> QED BY <1>0, <2>1, OpenKept DEF ResetExpires, ResetRow
  <1>3. CASE \E x \in pending : PendingExpires(x)
    BY <1>0, <1>3, OpenKept DEF PendingExpires
  <1>4. CASE \E u \in Users : SetPassword(u) \/ \E right \in BOOLEAN : ResetPassword(u, right)
    BY <1>0, <1>4, OpenKept DEF SetPassword, ResetPassword
  <1>5. CASE \E u \in Users, e \in Emails, by \in {"none", "register"} : Register(u, e, by)
    BY <1>0, <1>5, OpenKept DEF Register
  <1>6. CASE \E x \in users : DeleteUser(x)
    BY <1>0, <1>6, OpenKept DEF DeleteUser
  <1> QED BY <1>1, <1>2, <1>3, <1>4, <1>5, <1>6 DEF Next

-----------------------------------------------------------------------------
(* PendingInv *)

\* No change is asked for; nobody who asked comes back; the rows of those who
\* stay are kept or their use is answered.
LEMMA PendingKept ==
  ASSUME PendingInv, asked' = asked, done \subseteq done',
         \A a \in asked : Known(a[2])' => Known(a[2]),
         \A x \in pending :
           Known(x.user)' =>
             x.id \in done' \/ \E y \in pending' : y.id = x.id /\ y.user = x.user
  PROVE  PendingInv'
  <1> SUFFICES ASSUME NEW a \in asked, Known(a[2])'
               PROVE  a[1] \in done' \/ \E y \in pending' : y.id = a[1] /\ y.user = a[2]
    BY DEF PendingInv
  <1>1. CASE a[1] \in done
    BY <1>1
  <1>2. CASE \E x \in pending : x.id = a[1] /\ x.user = a[2]
    BY <1>2
  <1> QED BY <1>1, <1>2 DEF PendingInv

\* A step that leaves the rows of the email changes alone, and the users too.
LEMMA PendingSame ==
  ASSUME PendingInv, UNCHANGED <<asked, pending>>, done \subseteq done', SameIds
  PROVE  PendingInv'
  <1>1. \A u : Known(u)' <=> Known(u)
    BY SameKnown
  <1> QED BY <1>1, PendingKept

LEMMA SameUsersIds ==
  ASSUME users' = users
  PROVE  SameIds
  BY DEF SameIds

LEMMA EmailPendPending ==
  ASSUME PendingInv, NEW r \in Requests, EmailPend(r)
  PROVE  PendingInv'
  <1> DEFINE y == PendingRow(minted + 1, req[r].user, req[r].email, FALSE, TRUE)
             n == <<minted + 1, req[r].user>>
  <1>1. /\ pending' = pending \cup {y} /\ asked' = asked \cup {n}
        /\ users' = users /\ done' = done
    BY DEF EmailPend
  <1>2. y.id = n[1] /\ y.user = n[2]
    BY DEF PendingRow
  <1> HIDE DEF y, n
  <1> SUFFICES ASSUME NEW a \in asked', Known(a[2])'
               PROVE  a[1] \in done' \/ \E x \in pending' : x.id = a[1] /\ x.user = a[2]
    BY DEF PendingInv
  <1>3. CASE a = n
    BY <1>1, <1>2, <1>3
  <1>4. CASE a \in asked
    <2>1. Known(a[2])
      BY <1>1 DEF Known
    <2>2. CASE a[1] \in done
      BY <1>1, <2>2
    <2>3. CASE \E x \in pending : x.id = a[1] /\ x.user = a[2]
      BY <1>1, <2>3
    <2> QED BY <1>4, <2>1, <2>2, <2>3 DEF PendingInv
  <1> QED BY <1>1, <1>3, <1>4

LEMMA HandlerPending ==
  ASSUME TypeInv, PendingInv, NEW r \in Requests, Handler(r)
  PROVE  PendingInv'
  <1>1. CASE \E u \in Users : ForgotClear(r, u)
    BY <1>1, SameUsersIds, PendingSame DEF ForgotClear
  <1>2. CASE ForgotCreate(r)
    BY <1>2, SameUsersIds, PendingSame DEF ForgotCreate
  <1>3. CASE \E x \in resets : Confirm(r, x)
    BY <1>3, SameUsersIds, PendingSame DEF Confirm
  <1>4. CASE ConfirmUpdate(r)
    <2>1. SameIds
      BY <1>4, ConfirmUpdateType
    <2> QED BY <1>4, <2>1, PendingSame DEF ConfirmUpdate
  <1>5. CASE ConfirmMark(r)
    BY <1>5, SameUsersIds, PendingSame DEF ConfirmMark
  <1>6. CASE \E u \in Users, e \in Emails : EmailAsk(r, u, e)
    BY <1>6, SameUsersIds, PendingSame DEF EmailAsk
  <1>7. CASE EmailPend(r)
    BY <1>7, EmailPendPending
  <1>8. CASE \E x \in pending : EmailVerify(r, x)
    BY <1>8, SameUsersIds, PendingSame DEF EmailVerify
  <1>9. CASE EmailUpdate(r)
    <2>1. SameIds
      BY <1>9, EmailUpdateType
    <2> QED BY <1>9, <2>1, PendingSame DEF EmailUpdate
  <1>10. CASE EmailMark(r)
    <2>1. users' = users /\ asked' = asked /\ done' = done
      BY <1>10 DEF EmailMark
    <2>2. \A x \in pending : \E y \in pending' : y.id = x.id /\ y.user = x.user
      BY <1>10 DEF EmailMark, PendingRow
    <2> QED BY <2>1, <2>2, PendingKept DEF Known
  <1>11. CASE EmailDelete(r)
    <2>1. users' = users /\ asked' = asked /\ done' = done \cup {req[r].code}
      BY <1>11 DEF EmailDelete
    <2>2. \A x \in pending : x.id = req[r].code \/ x \in pending'
      BY <1>11 DEF EmailDelete
    <2> QED BY <2>1, <2>2, PendingKept DEF Known
  <1>12. CASE Fail(r)
    BY <1>12, SameUsersIds, PendingSame DEF Fail
  <1> QED BY <1>1, <1>2, <1>3, <1>4, <1>5, <1>6, <1>7, <1>8, <1>9, <1>10, <1>11, <1>12
          DEF Handler

LEMMA NextPending ==
  ASSUME TypeInv, PendingInv, Next
  PROVE  PendingInv'
  <1>1. CASE \E r \in Requests : Handler(r)
    BY <1>1, HandlerPending
  <1>2. CASE \E x \in resets : ResetExpires(x)
    BY <1>2, SameUsersIds, PendingSame DEF ResetExpires
  <1>3. CASE \E x \in pending : PendingExpires(x)
    <2>1. PICK x \in pending : PendingExpires(x)
      BY <1>3
    <2>2. \A z \in pending : \E y \in pending' : y.id = z.id /\ y.user = z.user
      <3> DEFINE y == PendingRow(x.id, x.user, x.email, x.used, FALSE)
      <3>1. pending' = (pending \ {x}) \cup {y}
        BY <2>1 DEF PendingExpires
      <3>2. y.id = x.id /\ y.user = x.user
        BY DEF PendingRow
      <3> HIDE DEF y
      <3> QED BY <3>1, <3>2
    <2>3. users' = users /\ asked' = asked /\ done' = done
      BY <2>1 DEF PendingExpires
    <2> QED BY <2>2, <2>3, PendingKept DEF Known
  <1>4. CASE \E u \in Users : SetPassword(u) \/ \E right \in BOOLEAN : ResetPassword(u, right)
    <2>1. PICK u \in Users, by \in By :
            /\ SetBy(u, by)
            /\ UNCHANGED <<resets, pending, created, minted, asked, done, overlap, req>>
      BY <1>4 DEF SetPassword, ResetPassword, By
    <2>2. SameIds
      BY <2>1, PasswordType
    <2> QED BY <2>1, <2>2, PendingSame
  <1>5. CASE \E u \in Users, e \in Emails, by \in {"none", "register"} : Register(u, e, by)
    <2>1. PICK u \in Users, e \in Emails, by \in {"none", "register"} : Register(u, e, by)
      BY <1>5
    <2>2. \A a \in asked : a[2] # u
      BY <2>1 DEF Register, TypeInv, IdsInv
    <2>3. users' = users \cup {UserRow(u, e, by)} /\ UserRow(u, e, by).id = u
      BY <2>1 DEF Register, UserRow
    <2>4. \A a \in asked : Known(a[2])' => Known(a[2])
      BY <2>2, <2>3 DEF Known
    <2> QED BY <2>1, <2>4, PendingKept DEF Register
  <1>6. CASE \E x \in users : DeleteUser(x)
    <2>1. PICK x \in users : DeleteUser(x)
      BY <1>6
    <2>2. ~ Known(x.id)' /\ \A u : Known(u)' => Known(u)
      BY <2>1 DEF DeleteUser, Known, TypeInv, TypeOK
    <2>3. \A y \in pending : y.user = x.id \/ y \in pending'
      BY <2>1 DEF DeleteUser
    <2> QED BY <2>1, <2>2, <2>3, PendingKept DEF DeleteUser
  <1> QED BY <1>1, <1>2, <1>3, <1>4, <1>5, <1>6 DEF Next

-----------------------------------------------------------------------------
(* The theorems *)

LEMMA NextTypeInv ==
  ASSUME TypeInv, Next
  PROVE  TypeInv'
  <1>1. ASSUME NEW r \in Requests, Handler(r) PROVE TypeInv'
    BY <1>1, ForgotClearType, ForgotCreateType, ConfirmType, ConfirmUpdateType,
       ConfirmMarkType, EmailAskType, EmailPendType, EmailVerifyType, EmailUpdateType,
       EmailMarkType, EmailDeleteType, FailType DEF Handler
  <1>2. CASE \E u \in Users : SetPassword(u) \/ \E right \in BOOLEAN : ResetPassword(u, right)
    <2>1. PICK u \in Users, by \in By :
            /\ SetBy(u, by)
            /\ UNCHANGED <<resets, pending, created, minted, asked, done, overlap, req>>
      BY <1>2 DEF SetPassword, ResetPassword, By
    <2> QED BY <2>1, PasswordType
  <1> QED BY <1>1, <1>2, ResetExpiresType, PendingExpiresType, RegisterType, DeleteUserType
          DEF Next

LEMMA InitIInv == Init => IInv
  <1> SUFFICES ASSUME Init PROVE IInv
    OBVIOUS
  <1>1. TypeInv
    BY InitTypeInv
  <1>2. \A r \in Requests : req[r].pc = "idle"
    BY DEF Init, Idle, Task
  <1>3. DoneInv /\ RepeatedCodeRefused
    BY <1>2 DEF Init, DoneInv, RepeatedCodeRefused
  <1>4. OpenInv /\ PendingInv
    BY <1>2 DEF Init, OpenInv, OpenOf, Making, PendingInv
  <1> QED BY <1>1, <1>3, <1>4 DEF IInv

LEMMA NextIInv ==
  ASSUME IInv, [Next]_recoveryVars
  PROVE  IInv'
  <1>1. CASE Next
    <2>1. TypeInv'
      BY <1>1, NextTypeInv DEF IInv
    <2> QED BY <1>1, <2>1, NextDone, NextEarly, NextOpen, NextPending DEF IInv
  <1>2. CASE UNCHANGED recoveryVars
    BY <1>2 DEF recoveryVars, IInv, TypeInv, TypeOK, TaskInv, TaskOK, IdsInv, DoneInv,
      RepeatedCodeRefused, OpenInv, OpenOf, Making, PendingInv, Known
  <1> QED BY <1>1, <1>2

\* The inductive invariant holds in every reachable state.
THEOREM InvariantHolds == Spec => []IInv
  <1>1. Init => IInv
    BY InitIInv
  <1>2. IInv /\ [Next]_recoveryVars => IInv'
    BY NextIInv
  <1> QED BY <1>1, <1>2, PTL DEF Spec

\* Every row, history and request has its shape, and emails stay unique
\* although they were free only when they were asked for.
THEOREM TypeCorrect == Spec => []TypeOK
  <1>1. IInv => TypeOK
    BY DEF IInv, TypeInv
  <1> QED BY <1>1, InvariantHolds, PTL

\* No request gets in with a code whose use has been answered with success
\* (findValidPasswordReset, findPendingByCode).
THEOREM UsedCodesStayUsed == Spec => []RepeatedCodeRefused
  <1>1. IInv => RepeatedCodeRefused
    BY DEF IInv
  <1> QED BY <1>1, InvariantHolds, PTL

LEMMA OpenIsOne ==
  ASSUME IInv
  PROVE  OneOpenReset
  <1> SUFFICES ASSUME NEW u \in Users \ overlap
               PROVE  Cardinality(OpenOf(u)) <= 1
    BY DEF OneOpenReset, OpenOf
  <1>1. \A x, y \in OpenOf(u) : x = y
    BY DEF IInv, OpenInv
  <1>2. CASE OpenOf(u) = {}
    BY <1>2, FS_EmptySet
  <1>3. CASE OpenOf(u) # {}
    <2>1. PICK x : x \in OpenOf(u)
      BY <1>3
    <2>2. OpenOf(u) = {x}
      BY <1>1, <2>1
    <2>3. Cardinality({x}) = 1
      BY FS_Singleton
    <2> QED BY <2>2, <2>3
  <1> QED BY <1>2, <1>3

\* A user who asks for one reset code at a time has at most one that can still
\* be used: createPasswordReset deletes before it creates.
THEOREM OneResetAtATime == Spec => []OneOpenReset
  <1>1. IInv => OneOpenReset
    BY OpenIsOne
  <1> QED BY <1>1, InvariantHolds, PTL

\* Only EmailVerify starts a change.
LEMMA OnlyVerifyStarts ==
  ASSUME TypeOK, Next, NEW r \in Requests, req[r].pc = "idle", req'[r].pc = "change"
  PROVE  \E x \in pending : EmailVerify(r, x)
  <1>1. PICK p \in Requests : Handler(p)
    BY HandlerOrNot
  <1>2. CASE p # r
    <2>1. OthersStay(p)
      BY <1>1, Moves, Ends, Steps
      DEF Handler, ForgotClear, ForgotCreate, Confirm, ConfirmUpdate, ConfirmMark, EmailAsk,
          EmailPend, EmailVerify, EmailUpdate, EmailMark, EmailDelete, Fail
    <2> QED BY <1>2, <2>1 DEF OthersStay
  <1>3. CASE p = r
    <2>1. ASSUME NEW u \in Users PROVE ~ ForgotClear(r, u)
      BY Moves DEF ForgotClear, Task
    <2>2. ASSUME NEW x \in resets PROVE ~ Confirm(r, x)
      BY Moves DEF Confirm, Task
    <2>3. ASSUME NEW u \in Users, NEW e \in Emails PROVE ~ EmailAsk(r, u, e)
      BY Moves DEF EmailAsk, Task
    <2> QED BY <1>1, <1>3, <2>1, <2>2, <2>3
            DEF Handler, ForgotCreate, ConfirmUpdate, ConfirmMark, EmailPend, EmailUpdate,
                EmailMark, EmailDelete, Fail
  <1> QED BY <1>2, <1>3

LEMMA StepSuperseded ==
  ASSUME IInv, Next, NEW r \in Requests, req[r].pc = "idle", req'[r].pc = "change",
         NEW a \in asked, a[2] = req'[r].user, a[1] > req'[r].code
  PROVE  a[1] \in done
  <1>1. TypeOK /\ TablesOK /\ RowsKnown
    BY TypeParts DEF IInv, TypeInv
  <1>2. PICK x \in pending : EmailVerify(r, x)
    BY <1>1, OnlyVerifyStarts
  <1>3. req'[r].user = x.user /\ req'[r].code = x.id
    BY <1>1, <1>2, Moves DEF EmailVerify, Task
  <1>4. Known(a[2])
    BY <1>1, <1>3 DEF RowsKnown
  <1>5. ASSUME NEW y \in pending, y.id = a[1], y.user = a[2] PROVE FALSE
    <2>1. y.id <= x.id
      BY <1>2, <1>3, <1>5 DEF EmailVerify, Newest
    <2>2. y.id \in Int /\ x.id \in Int
      BY <1>1 DEF TablesOK, Pending, Ids
    <2> QED BY <1>3, <1>5, <2>1, <2>2
  <1> QED BY <1>4, <1>5 DEF IInv, PendingInv

\* A code of an email change is let in only after every later one of its user
\* has been used: findFirst takes the newest row, and a row is deleted only
\* with its use or its user.
THEOREM LaterCodeFirst == Spec => SupersededUntilUsed
  <1>1. ASSUME IInv, [Next]_recoveryVars
        PROVE  [\A r \in Requests :
                 req[r].pc = "idle" /\ req'[r].pc = "change" =>
                   \A a \in asked : a[2] = req'[r].user /\ a[1] > req'[r].code
                                      => a[1] \in done]_recoveryVars
    BY <1>1, StepSuperseded
  <1> QED BY <1>1, InvariantHolds, PTL DEF Spec, SupersededUntilUsed

=============================================================================
