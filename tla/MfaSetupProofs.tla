--------------------------- MODULE MfaSetupProofs ---------------------------
(* Proofs about MfaSetup for every set of users and requests, every issuer *)
(* and every bound.                                                        *)
EXTENDS MfaSetup, TLAPS

USE MfaBounds, MfaNames

-----------------------------------------------------------------------------
(* The inductive invariant *)

\* The records of req.
Request ==
  [pc : PC, path : Paths, user : Users \cup {NoUser}, otp : 0..MaxId, beaten : BOOLEAN]

SetupPC == {"clear", "drop", "create", "fill", "complete"}

\* A handler at one of these has read or made a row of UserOTP; at OwnPC, its
\* caller's.
OwnPC == {"clear", "drop", "fill", "complete", "wipe", "refill", "unfill", "remove"}
RowPC == OwnPC \cup {"stamp", "enable"}

\* What a handler may rely on in its record q, the ids being up to n, the rows
\* whose secret has been told T and the table UserOTP O: the row it has read may
\* be gone by now, but if it is there it is the same user's.
TaskOK(q, n, T, O) ==
  /\ q.pc # "idle" => q.user \in Users
  /\ q.pc \in SetupPC => q.path = "setup"
  /\ q.pc \in RowPC => q.otp \in 1..n
  /\ q.pc \in {"stamp", "enable"} => q.otp \in T
  /\ q.pc \in OwnPC => \A x \in O : x.id = q.otp => x.user = q.user

TaskInv == \A r \in Requests : TaskOK(req[r], minted, told, otps)

IdsInv ==
  /\ \A x \in otps : x.id \in 1..minted
  /\ told \subseteq 1..minted

\* A secret is told when its setup is completed, and at no other time.
ToldInv == \A x \in otps : x.done <=> x.id \in told

\* A setup about to drop a completed row has been beaten by the setup that
\* completed it.
Dropping(q) == q.pc \in {"clear", "drop"} /\ \E x \in otps : x.id = q.otp /\ x.done

BeatenInv == \A r \in Requests : Dropping(req[r]) => req[r].beaten

\* While a setup is under way, its user has not been told that MFA is off.
OffInv == \A u \in off : SettingUp(u) = {}

\* A lock that is there is still to be removed by a request past SetLock.
Locked(r, k) == req[r].pc \notin {"idle", "asked"} /\ Key(req[r]) = k

LocksInv == \A k \in locks : k \in stuck \/ \E r \in Requests : Locked(r, k)

TypeInv == TypeOK /\ TaskInv /\ IdsInv

IInv ==
  TypeInv /\ ToldInv /\ BeatenInv /\ OffInv /\ DisabledIsOff /\ LocksInv

-----------------------------------------------------------------------------
(* The tables *)

\* The part of TypeOK that is about the tables.
Tables ==
  /\ users \subseteq Everybody
  /\ otps \subseteq Otp
  /\ \A x, y \in otps : x.user = y.user \/ x.id = y.id => x = y
  /\ \A x \in otps : {x.user, Issuer} \subseteq users
  /\ codes \subseteq Ids \X Ids
  /\ \A c \in codes : \E x \in otps : x.id = c[2]
  /\ minted \in 0..MaxId
  /\ told \subseteq Ids

LEMMA TypeParts ==
  /\ TypeOK <=> /\ Tables
                /\ locks \subseteq Users \X Paths /\ off \subseteq Users
                /\ stuck \subseteq Users \X Paths
                /\ req \in [Requests -> Request]
  /\ TypeOK' <=> /\ Tables'
                 /\ locks' \subseteq Users \X Paths /\ off' \subseteq Users
                 /\ stuck' \subseteq Users \X Paths
                 /\ req' \in [Requests -> Request]
  BY DEF TypeOK, Tables, Request

LEMMA SameTables ==
  ASSUME Tables, IdsInv, UNCHANGED <<users, otps, codes, minted, told>>
  PROVE  Tables' /\ IdsInv'
  BY DEF Tables, IdsInv

LEMMA FewerCodes ==
  ASSUME Tables, IdsInv, codes' \subseteq codes, UNCHANGED <<users, otps, minted, told>>
  PROVE  Tables' /\ IdsInv'
  BY DEF Tables, IdsInv

\* Row i goes, and its backup codes with it.
LEMMA RowDropped ==
  ASSUME Tables, IdsInv, NEW x \in otps, otps' = otps \ {x},
         codes' = {c \in codes : c[2] # x.id}, UNCHANGED <<users, minted, told>>
  PROVE  Tables' /\ IdsInv'
  <1>1. \A c \in codes' : \E y \in otps' : y.id = c[2]
    BY DEF Tables
  <1> QED
    BY <1>1 DEF Tables, IdsInv

LEMMA RowCreated ==
  ASSUME Tables, IdsInv, NEW u \in Users, {u, Issuer} \subseteq users,
         \A x \in otps : x.user # u, minted < MaxId,
         otps' = otps \cup {OtpRow(minted + 1, u, FALSE)}, minted' = minted + 1,
         UNCHANGED <<users, codes, told>>
  PROVE  Tables' /\ IdsInv'
  <1> DEFINE new == OtpRow(minted + 1, u, FALSE)
  <1>1. minted \in Nat /\ minted + 1 \in 0..MaxId /\ minted + 1 \in Ids
    BY DEF Tables, Ids
  <1>2. new \in Otp /\ new.id = minted + 1 /\ new.user = u
    BY <1>1 DEF OtpRow, Otp
  <1> HIDE DEF new
  <1>3. otps' = otps \cup {new}
    BY DEF new
  <1>4. \A x, y \in otps' : x.user = y.user \/ x.id = y.id => x = y
    <2>1. \A x \in otps : x.user # new.user /\ x.id # new.id
      BY <1>1, <1>2 DEF IdsInv
    <2>2. \A x, y \in otps : x.user = y.user \/ x.id = y.id => x = y
      BY DEF Tables
    <2> QED
      BY <1>3, <2>1, <2>2
  <1>5. \A c \in codes' : \E y \in otps' : y.id = c[2]
    BY <1>3 DEF Tables
  <1>6. Tables'
    BY <1>1, <1>2, <1>3, <1>4, <1>5 DEF Tables
  <1>7. IdsInv'
    <2>1. \A i \in 1..minted : i \in 1..minted'
      BY <1>1
    <2>2. minted + 1 \in 1..minted'
      BY <1>1
    <2> QED
      BY <1>2, <1>3, <2>1, <2>2 DEF IdsInv
  <1> QED
    BY <1>6, <1>7

LEMMA CodesMade ==
  ASSUME Tables, IdsInv, NEW i, NewCodes(i), UNCHANGED <<users, otps, told>>
  PROVE  Tables' /\ IdsInv' /\ minted' \in 0..MaxId /\ minted <= minted'
  <1>1. minted \in Nat /\ minted + 1 \in 0..MaxId /\ minted + 1 \in Ids
    BY DEF Tables, Ids, NewCodes
  <1>2. PICK x \in otps : x.id = i
    BY DEF NewCodes
  <1>3. i \in Ids
    BY <1>2 DEF Tables, Otp
  <1>4. codes' = codes \cup {<<minted + 1, i>>} /\ minted' = minted + 1
    BY DEF NewCodes
  <1>5. \A c \in codes' : \E y \in otps : y.id = c[2]
    BY <1>2, <1>4 DEF Tables
  <1>6. Tables'
    BY <1>1, <1>3, <1>4, <1>5 DEF Tables
  <1>7. IdsInv'
    BY <1>1, <1>4 DEF IdsInv
  <1> QED
    BY <1>1, <1>4, <1>6, <1>7

\* What Complete does to the table: the row of that id, which is there, is set
\* to done.
LEMMA Completed ==
  ASSUME Tables, NEW i, Complete(i)
  PROVE  \E x \in otps : /\ x.id = i
                         /\ OtpRow(i, x.user, TRUE) \in Otp
                         /\ otps' = (otps \ {x}) \cup {OtpRow(i, x.user, TRUE)}
                         /\ OtpRow(i, x.user, TRUE).id = i
                         /\ OtpRow(i, x.user, TRUE).user = x.user
                         /\ OtpRow(i, x.user, TRUE).done = TRUE
  BY DEF Tables, Complete, OtpRow, Otp

LEMMA RowCompleted ==
  ASSUME Tables, IdsInv, NEW i, Complete(i), told' \subseteq told \cup {i},
         UNCHANGED <<users, codes, minted>>
  PROVE  Tables' /\ IdsInv'
  <1>1. \E x \in otps, y \in Otp :
          /\ x.id = i /\ otps' = (otps \ {x}) \cup {y}
          /\ y.id = i /\ y.user = x.user
    <2>1. PICK x \in otps : /\ x.id = i
                            /\ OtpRow(i, x.user, TRUE) \in Otp
                            /\ otps' = (otps \ {x}) \cup {OtpRow(i, x.user, TRUE)}
                            /\ OtpRow(i, x.user, TRUE).id = i
                            /\ OtpRow(i, x.user, TRUE).user = x.user
      BY Completed
    <2> QED
      BY <2>1
  <1>2. PICK x \in otps, y \in Otp :
          /\ x.id = i /\ otps' = (otps \ {x}) \cup {y}
          /\ y.id = i /\ y.user = x.user
    BY <1>1
  <1>3. \A a, b \in otps' : a.user = b.user \/ a.id = b.id => a = b
    BY <1>2 DEF Tables
  <1>4. \A c \in codes' : \E z \in otps' : z.id = c[2]
    BY <1>2 DEF Tables
  <1>5. i \in Ids /\ i \in 1..minted
    BY <1>2 DEF Tables, IdsInv, Otp
  <1>6. Tables'
    BY <1>2, <1>3, <1>4, <1>5 DEF Tables
  <1>7. IdsInv'
    BY <1>2, <1>5 DEF IdsInv
  <1> QED
    BY <1>6, <1>7

LEMMA UserDeleted ==
  ASSUME TypeOK, IdsInv, NEW u, DeleteUser(u)
  PROVE  TypeOK' /\ IdsInv'
  <1> DEFINE theirs == {x \in otps : u \in {x.user, Issuer}}
  <1>1. /\ users' = users \ {u} /\ otps' = otps \ theirs
        /\ codes' = {c \in codes : \A x \in theirs : c[2] # x.id}
        /\ UNCHANGED <<locks, minted, told, off, stuck, req>>
    BY DEF DeleteUser
  <1>2. \A x \in otps' : {x.user, Issuer} \subseteq users'
    BY <1>1 DEF TypeOK
  <1>3. \A c \in codes' : \E x \in otps' : x.id = c[2]
    BY <1>1 DEF TypeOK
  <1>4. Tables'
    BY <1>1, <1>2, <1>3 DEF TypeOK, Tables
  <1> QED
    BY <1>1, <1>4, TypeParts DEF IdsInv

-----------------------------------------------------------------------------
(* The requests in flight *)

\* No id that has been handed out passes to another user.
Kept ==
  /\ minted' \in 0..MaxId /\ minted <= minted' /\ told \subseteq told'
  /\ \A y \in otps' : y.id \in 1..minted => \E x \in otps : x.id = y.id /\ x.user = y.user

\* A record that no step touches stays good.
LEMMA StillOK ==
  ASSUME minted \in 0..MaxId, Kept, NEW q, TaskOK(q, minted, told, otps)
  PROVE  TaskOK(q, minted', told', otps')
  <1>1. q.pc \in RowPC => q.otp \in 1..minted'
    BY DEF TaskOK, Kept
  <1>2. q.pc \in OwnPC => \A y \in otps' : y.id = q.otp => y.user = q.user
    BY DEF TaskOK, Kept, RowPC
  <1> QED
    BY <1>1, <1>2 DEF TaskOK, Kept

\* What a Step of request r makes of its record.
LEMMA Stepped ==
  ASSUME TypeOK, NEW r \in Requests, NEW pc \in PC, NEW i \in 0..MaxId, Step(r, pc, i)
  PROVE  /\ req' \in [Requests -> Request]
         /\ \A s \in Requests \ {r} : req'[s] = req[s]
         /\ req'[r].pc = pc /\ req'[r].otp = i /\ req'[r].path = req[r].path
         /\ req'[r].user = req[r].user /\ req'[r].beaten = req[r].beaten
  <1>1. req \in [Requests -> Request]
    BY TypeParts
  <1>2. [req[r] EXCEPT !.pc = pc, !.otp = i] \in Request
    BY <1>1 DEF Request
  <1> QED
    BY <1>1, <1>2 DEF Step, Continue, Request

LEMMA StepOK ==
  ASSUME TypeOK, TaskInv, Kept, NEW r \in Requests, NEW pc \in PC, NEW i \in 0..MaxId,
         Step(r, pc, i),
         req[r].pc # "idle",
         pc \in SetupPC => req[r].path = "setup",
         pc \in RowPC => i \in 1..minted',
         pc \in {"stamp", "enable"} => i \in told',
         pc \in OwnPC => \A x \in otps' : x.id = i => x.user = req[r].user
  PROVE  req' \in [Requests -> Request] /\ TaskInv'
  <1>1. TaskOK(req'[r], minted', told', otps')
    BY Stepped DEF TaskOK, TaskInv
  <1>2. \A s \in Requests \ {r} : TaskOK(req'[s], minted', told', otps')
    BY Stepped, StillOK DEF TaskInv, TypeOK
  <1> QED
    BY <1>1, <1>2, Stepped DEF TaskInv

\* A request that answers needs nothing any more.
LEMMA AnswerOK ==
  ASSUME TypeOK, TaskInv, Kept, NEW r \in Requests, req[r].pc # "idle", Answer(r)
  PROVE  req' \in [Requests -> Request] /\ TaskInv'
  BY StepOK DEF Answer, PC, SetupPC, OwnPC, RowPC

LEMMA ContinueOK ==
  ASSUME TypeOK, TaskInv, Kept, NEW r \in Requests, NEW q \in Request,
         TaskOK(q, minted', told', otps'), Continue(r, q)
  PROVE  req' \in [Requests -> Request] /\ TaskInv'
  <1>1. /\ req' \in [Requests -> Request]
        /\ \A s \in Requests : req'[s] = IF s = r THEN q ELSE req[s]
    BY TypeParts DEF Continue
  <1>2. \A s \in Requests : TaskOK(req[s], minted', told', otps')
    BY StillOK DEF TaskInv, TypeOK
  <1> QED
    BY <1>1, <1>2 DEF TaskInv

LEMMA IdleOK == Idle \in Request /\ \A n, T, O : TaskOK(Idle, n, T, O)
  BY DEF Idle, Task, Request, PC, Paths, TaskOK, SetupPC, OwnPC, RowPC

LEMMA SameKept ==
  ASSUME TypeOK, UNCHANGED minted, told \subseteq told', otps' \subseteq otps
  PROVE  Kept
  BY DEF Kept, TypeOK


-----------------------------------------------------------------------------
(* Types and records, action by action *)

\* A step that leaves the tables as they are.
LEMMA SameTablesOK ==
  ASSUME TypeInv, UNCHANGED <<users, otps, codes, minted, told>>,
         req' \in [Requests -> Request] /\ TaskInv',
         locks' \subseteq Users \X Paths, off' \subseteq Users, stuck' \subseteq Users \X Paths
  PROVE  TypeInv'
  BY TypeParts, SameTables DEF TypeInv

LEMMA DisabledType ==
  ASSUME TypeInv, NEW u \in Users, Disabled(u)
  PROVE  off' \subseteq Users
  BY DEF TypeInv, TypeOK, Disabled

\* In flight, a request has a user and a key.
LEMMA InFlight ==
  ASSUME TypeInv, NEW r \in Requests, req[r].pc # "idle"
  PROVE  /\ req[r].user \in Users /\ Key(req[r]) \in Users \X Paths
         /\ req[r] \in Request /\ req[r].otp \in 0..MaxId
         /\ TaskOK(req[r], minted, told, otps)
  <1>1. req[r] \in Request /\ TaskOK(req[r], minted, told, otps)
    BY TypeParts DEF TypeInv, TaskInv
  <1> QED
    BY <1>1 DEF TaskOK, Request, Key

LEMMA AskOK ==
  ASSUME TypeInv, NEW r \in Requests, NEW u \in Users, NEW path \in Paths, Ask(r, u, path)
  PROVE  TypeInv'
  <1> DEFINE q == Task("asked", path, u, 0, FALSE)
  <1>1. q \in Request
    BY DEF Task, Request, PC
  <1>2. TaskOK(q, minted', told', otps')
    BY DEF Task, TaskOK, SetupPC, OwnPC, RowPC
  <1>3. Continue(r, q) /\ UNCHANGED <<users, otps, codes, locks, minted, told, stuck>>
    BY DEF Ask
  <1>4. req' \in [Requests -> Request] /\ TaskInv'
    BY <1>1, <1>2, <1>3, SameKept, ContinueOK DEF TypeInv
  <1>5. off' \subseteq Users
    BY DEF Ask, TypeInv, TypeOK
  <1> QED
    BY <1>3, <1>4, <1>5, SameTablesOK DEF TypeInv, TypeOK

LEMMA LockOK ==
  ASSUME TypeInv, NEW r \in Requests, SetLock(r) \/ Unlock(r) \/ Fail(r)
  PROVE  TypeInv'
  <1>1. /\ req[r].pc # "idle" /\ Kept
        /\ UNCHANGED <<users, otps, codes, minted, told, off>>
    BY SameKept DEF SetLock, Unlock, Fail, TypeInv
  <1>2. Step(r, "begin", 0) \/ Continue(r, Idle) \/ Answer(r)
    BY DEF SetLock, Unlock, Fail
  <1>3. Step(r, "begin", 0) => req' \in [Requests -> Request] /\ TaskInv'
    BY <1>1, StepOK DEF TypeInv, PC, SetupPC, OwnPC, RowPC
  <1>4. req' \in [Requests -> Request] /\ TaskInv'
    BY <1>1, <1>2, <1>3, IdleOK, ContinueOK, AnswerOK DEF TypeInv
  <1>5. locks' \subseteq Users \X Paths /\ stuck' \subseteq Users \X Paths
    BY <1>1, InFlight DEF SetLock, Unlock, Fail, TypeInv, TypeOK
  <1> QED
    BY <1>1, <1>4, <1>5, SameTablesOK DEF TypeInv, TypeOK

\* The handlers' first reads.
LEMMA FindOK ==
  ASSUME TypeInv, NEW r \in Requests,
         SetupFind(r) \/ VerifyFind(r) \/ CodesFind(r) \/ DisableFind(r)
  PROVE  TypeInv'
  <1>1. /\ req[r].pc = "begin" /\ req[r].user \in Users /\ Kept
        /\ UNCHANGED <<users, otps, codes, locks, minted, told, stuck>>
    BY SameKept, InFlight DEF SetupFind, VerifyFind, CodesFind, DisableFind, TypeInv
  <1>2. \A x, y \in otps : x.id = y.id => x = y
    BY DEF TypeInv, TypeOK
  <1>3. ASSUME NEW x \in otps, NEW pc \in {"clear", "stamp", "wipe", "unfill"},
               Step(r, pc, x.id),
               pc = "clear" => req[r].path = "setup",
               pc = "stamp" => x.id \in told,
               pc # "stamp" => x.user = req[r].user
        PROVE  req' \in [Requests -> Request] /\ TaskInv'
    <2>1. x.id \in 0..MaxId /\ x.id \in 1..minted'
      BY <1>1 DEF TypeInv, TypeOK, IdsInv, Otp, Ids
    <2>2. \A y \in otps' : y.id = x.id => y = x
      BY <1>1, <1>2
    <2> QED
      BY <1>1, <1>3, <2>1, <2>2, StepOK DEF TypeInv, PC, SetupPC, OwnPC, RowPC
  <1>4. CASE SetupFind(r)
    <2>1. Step(r, "create", 0) => req' \in [Requests -> Request] /\ TaskInv'
      BY <1>1, <1>4, StepOK DEF SetupFind, TypeInv, PC, SetupPC, OwnPC, RowPC
    <2>2. req' \in [Requests -> Request] /\ TaskInv'
      BY <1>3, <1>4, <2>1 DEF SetupFind
    <2> QED
      BY <1>1, <1>4, <2>2, SameTablesOK DEF SetupFind, TypeInv, TypeOK
  <1>5. CASE VerifyFind(r)
    <2>1. req' \in [Requests -> Request] /\ TaskInv'
      BY <1>3, <1>5 DEF VerifyFind
    <2> QED
      BY <1>1, <1>5, <2>1, SameTablesOK DEF VerifyFind, TypeInv, TypeOK
  <1>6. CASE CodesFind(r)
    <2>1. req' \in [Requests -> Request] /\ TaskInv'
      BY <1>3, <1>6 DEF CodesFind
    <2> QED
      BY <1>1, <1>6, <2>1, SameTablesOK DEF CodesFind, TypeInv, TypeOK
  <1>7. CASE DisableFind(r)
    <2>1. Answer(r) => req' \in [Requests -> Request] /\ TaskInv'
      BY <1>1, AnswerOK DEF TypeInv
    <2>2. req' \in [Requests -> Request] /\ TaskInv'
      BY <1>3, <1>7, <2>1 DEF DisableFind
    <2>3. off' \subseteq Users
      BY <1>1, <1>7, DisabledType DEF DisableFind, TypeInv, TypeOK
    <2> QED
      BY <1>1, <2>2, <2>3, SameTablesOK DEF TypeInv, TypeOK
  <1> QED
    BY <1>4, <1>5, <1>6, <1>7

\* A request that goes on with its row, at another pc, while the table keeps
\* its rows or loses some.
LEMMA GoOnOK ==
  ASSUME TypeInv, Kept, NEW r \in Requests, req[r].pc \in RowPC, NEW pc \in RowPC,
         pc \in SetupPC => req[r].pc \in SetupPC,
         pc \in {"stamp", "enable"} => req[r].pc \in {"stamp", "enable"},
         pc \in OwnPC => req[r].pc \in OwnPC /\ otps' \subseteq otps,
         Step(r, pc, req[r].otp)
  PROVE  req' \in [Requests -> Request] /\ TaskInv'
  <1>1. req[r].pc # "idle" /\ pc \in PC
    BY DEF RowPC, OwnPC, PC
  <1>2. req[r].otp \in 0..MaxId /\ req[r].otp \in 1..minted'
    BY <1>1, InFlight DEF TaskOK, Kept, TypeInv, TypeOK
  <1>3. TaskOK(req[r], minted, told, otps)
    BY DEF TypeInv, TaskInv
  <1>4. /\ pc \in SetupPC => req[r].path = "setup"
        /\ pc \in {"stamp", "enable"} => req[r].otp \in told'
        /\ pc \in OwnPC => \A x \in otps' : x.id = req[r].otp => x.user = req[r].user
    BY <1>3 DEF TaskOK, Kept
  <1> QED
    BY <1>1, <1>2, <1>4, StepOK DEF TypeInv

LEMMA ClearOK ==
  ASSUME TypeInv, NEW r \in Requests,
         SetupClear(r) \/ CodesWipe(r) \/ DisableClear(r)
  PROVE  TypeInv'
  <1>1. /\ codes' \subseteq codes
        /\ UNCHANGED <<users, otps, locks, minted, told, off, stuck>>
    BY DEF SetupClear, CodesWipe, DisableClear
  <1>2. Kept
    BY <1>1, SameKept DEF TypeInv
  <1>3. \/ req[r].pc = "clear" /\ Step(r, "drop", req[r].otp)
        \/ req[r].pc = "wipe" /\ Step(r, "refill", req[r].otp)
        \/ req[r].pc = "unfill" /\ Step(r, "remove", req[r].otp)
    BY DEF SetupClear, CodesWipe, DisableClear
  <1>4. req' \in [Requests -> Request] /\ TaskInv'
    BY <1>1, <1>2, <1>3, GoOnOK DEF RowPC, OwnPC, SetupPC
  <1>5. Tables' /\ IdsInv'
    BY <1>1, TypeParts, FewerCodes DEF TypeInv
  <1> QED
    BY <1>1, <1>4, <1>5, TypeParts DEF TypeInv

LEMMA DropOK ==
  ASSUME TypeInv, NEW r \in Requests, SetupDrop(r) \/ DisableDrop(r)
  PROVE  TypeInv'
  <1>1. PICK x \in otps : x.id = req[r].otp /\ otps' = otps \ {x}
    BY DEF SetupDrop, DisableDrop
  <1>2. /\ codes' = {c \in codes : c[2] # x.id}
        /\ UNCHANGED <<users, locks, minted, told, stuck>>
    BY <1>1 DEF SetupDrop, DisableDrop
  <1>3. Kept /\ req[r].pc # "idle" /\ req[r].user \in Users
    BY <1>1, <1>2, SameKept, InFlight DEF SetupDrop, DisableDrop, TypeInv
  <1>4. Tables' /\ IdsInv'
    BY <1>1, <1>2, TypeParts, RowDropped DEF TypeInv
  <1>5. CASE SetupDrop(r)
    <2>1. req[r].path = "setup"
      BY <1>5, <1>3, InFlight DEF SetupDrop, TaskOK, SetupPC
    <2>2. req' \in [Requests -> Request] /\ TaskInv'
      BY <1>3, <1>5, <2>1, StepOK DEF SetupDrop, TypeInv, PC, OwnPC, RowPC
    <2> QED
      BY <1>2, <1>4, <1>5, <2>2, TypeParts DEF SetupDrop, TypeInv
  <1>6. CASE DisableDrop(r)
    <2>1. req' \in [Requests -> Request] /\ TaskInv' /\ off' \subseteq Users
      BY <1>3, <1>6, AnswerOK, DisabledType DEF DisableDrop, TypeInv
    <2> QED
      BY <1>2, <1>4, <2>1, TypeParts DEF TypeInv
  <1> QED
    BY <1>5, <1>6

LEMMA CreateOK ==
  ASSUME TypeInv, NEW r \in Requests, SetupCreate(r)
  PROVE  TypeInv'
  <1> DEFINE u == req[r].user
             new == OtpRow(minted + 1, u, FALSE)
  <1>1. /\ req[r].pc = "create" /\ u \in Users /\ {u, Issuer} \subseteq users
        /\ \A x \in otps : x.user # u
        /\ otps' = otps \cup {new} /\ minted' = minted + 1 /\ minted < MaxId
        /\ Step(r, "fill", minted + 1)
        /\ UNCHANGED <<users, codes, locks, told, off, stuck>>
    BY InFlight DEF SetupCreate
  <1>2. Tables /\ IdsInv /\ minted \in 0..MaxId
    BY TypeParts DEF TypeInv, Tables
  <1>3. Tables' /\ IdsInv'
    BY <1>1, <1>2, RowCreated
  <1>4. new.id = minted + 1 /\ new.user = u
    BY DEF OtpRow
  <1> HIDE DEF new, u
  <1>5. /\ minted + 1 \in 1..minted' /\ minted + 1 \in 0..MaxId
        /\ minted + 1 \notin 1..minted /\ minted <= minted' /\ minted' \in 0..MaxId
    BY <1>1, <1>2
  <1>6. Kept
    <2>1. \A y \in otps' : y.id \in 1..minted => y \in otps
      BY <1>1, <1>4, <1>5
    <2> QED
      BY <1>1, <1>5, <2>1 DEF Kept
  <1>7. \A x \in otps' : x.id = minted + 1 => x.user = u
    BY <1>1, <1>2, <1>4, <1>5 DEF IdsInv
  <1>8. req[r].path = "setup"
    BY <1>1, InFlight DEF TaskOK, SetupPC
  <1>9. req' \in [Requests -> Request] /\ TaskInv'
    BY <1>1, <1>5, <1>6, <1>7, <1>8, StepOK DEF TypeInv, PC, u
  <1> QED
    BY <1>1, <1>3, <1>9, TypeParts DEF TypeInv

LEMMA FillOK ==
  ASSUME TypeInv, NEW r \in Requests, SetupFill(r) \/ CodesRefill(r)
  PROVE  TypeInv'
  <1>1. /\ NewCodes(req[r].otp)
        /\ UNCHANGED <<users, otps, locks, told, off, stuck>>
    BY DEF SetupFill, CodesRefill
  <1>2. Tables' /\ IdsInv' /\ minted' \in 0..MaxId /\ minted <= minted'
    BY <1>1, TypeParts, CodesMade DEF TypeInv
  <1>3. Kept
    BY <1>1, <1>2 DEF Kept
  <1>4. req' \in [Requests -> Request] /\ TaskInv'
    <2>1. CASE SetupFill(r)
      <3>1. req[r].pc = "fill" /\ Step(r, "complete", req[r].otp) /\ otps' \subseteq otps
        BY <2>1 DEF SetupFill
      <3> QED
        BY <1>3, <3>1, GoOnOK DEF SetupPC, OwnPC, RowPC
    <2>2. CASE CodesRefill(r)
      BY <2>2, <1>3, AnswerOK DEF CodesRefill, TypeInv
    <2> QED
      BY <2>1, <2>2, <1>1 DEF SetupFill, CodesRefill
  <1> QED
    BY <1>1, <1>2, <1>4, TypeParts DEF TypeInv


LEMMA CompleteKept ==
  ASSUME TypeInv, NEW i, Complete(i), minted' = minted, told \subseteq told'
  PROVE  Kept
  <1>1. PICK x \in otps : /\ x.id = i
                          /\ otps' = (otps \ {x}) \cup {OtpRow(i, x.user, TRUE)}
                          /\ OtpRow(i, x.user, TRUE).id = i
                          /\ OtpRow(i, x.user, TRUE).user = x.user
    BY TypeParts, Completed DEF TypeInv
  <1>2. \A y \in otps' : \E z \in otps : z.id = y.id /\ z.user = y.user
    BY <1>1
  <1> QED
    BY <1>2 DEF Kept, TypeInv, TypeOK

LEMMA VerifyEnableOK ==
  ASSUME TypeInv, NEW r \in Requests, VerifyEnable(r)
  PROVE  TypeInv'
  <1>1. /\ Complete(req[r].otp) /\ Answer(r) /\ req[r].pc # "idle"
        /\ UNCHANGED <<users, codes, locks, minted, told, off, stuck>>
    BY DEF VerifyEnable
  <1>2. Tables' /\ IdsInv'
    BY <1>1, TypeParts, RowCompleted DEF TypeInv
  <1>3. req' \in [Requests -> Request] /\ TaskInv'
    BY <1>1, CompleteKept, AnswerOK DEF TypeInv
  <1> QED
    BY <1>1, <1>2, <1>3, TypeParts DEF TypeInv

\* SetupDone answers r and marks the other setups of its user as beaten.
LEMMA DoneReq ==
  ASSUME TypeInv, NEW r \in Requests, SetupDone(r)
  PROVE  /\ req' \in [Requests -> Request]
         /\ \A s \in Requests :
              /\ req'[s].path = req[s].path /\ req'[s].user = req[s].user
              /\ s # r => /\ req'[s].pc = req[s].pc /\ req'[s].otp = req[s].otp
                          /\ req'[s].beaten <=>
                               req[s].beaten \/ s \in SettingUp(req[r].user)
         /\ req'[r].pc = "answered" /\ req'[r].otp = 0
  <1>1. req \in [Requests -> Request]
    BY TypeParts DEF TypeInv
  <1> DEFINE f(p) == IF p = r THEN [req[r] EXCEPT !.pc = "answered", !.otp = 0]
                     ELSE [req[p] EXCEPT !.beaten = req[p].beaten \/ p \in SettingUp(req[r].user)]
  <1>2. req' = [p \in Requests |-> f(p)]
    BY DEF SetupDone
  <1>3. ASSUME NEW p \in Requests
        PROVE  /\ f(p) \in Request
               /\ f(p).path = req[p].path /\ f(p).user = req[p].user
               /\ p # r => /\ f(p).pc = req[p].pc /\ f(p).otp = req[p].otp
                           /\ f(p).beaten <=>
                                req[p].beaten \/ p \in SettingUp(req[r].user)
               /\ p = r => f(p).pc = "answered" /\ f(p).otp = 0
    <2>1. req[p] \in Request
      BY <1>1
    <2>2. CASE p = r
      <3>1. "answered" \in PC /\ 0 \in 0..MaxId
        BY DEF PC
      <3> QED
        BY <2>1, <2>2, <3>1 DEF Request
    <2>3. CASE p # r
      BY <2>1, <2>3 DEF Request
    <2> QED
      BY <2>2, <2>3
  <1> HIDE DEF f
  <1> QED
    BY <1>2, <1>3

LEMMA SetupDoneOK ==
  ASSUME TypeInv, NEW r \in Requests, SetupDone(r)
  PROVE  TypeInv'
  <1>1. /\ Complete(req[r].otp) /\ told' = told \cup {req[r].otp}
        /\ UNCHANGED <<users, codes, locks, minted, off, stuck>>
    BY DEF SetupDone
  <1>2. Tables' /\ IdsInv'
    BY <1>1, TypeParts, RowCompleted DEF TypeInv
  <1>3. Kept
    BY <1>1, CompleteKept
  <1>4. ASSUME NEW s \in Requests PROVE TaskOK(req'[s], minted', told', otps')
    <2>1. TaskOK(req[s], minted', told', otps')
      BY <1>3, StillOK DEF TypeInv, TypeOK, TaskInv
    <2>2. CASE s # r
      BY <2>1, <2>2, DoneReq DEF TaskOK
    <2>3. CASE s = r
      <3>1. req[r].user \in Users
        BY InFlight DEF SetupDone
      <3> QED
        BY <2>3, <3>1, DoneReq DEF TaskOK, SetupPC, OwnPC, RowPC
    <2> QED
      BY <2>2, <2>3
  <1>5. TaskInv'
    BY <1>4 DEF TaskInv
  <1> QED
    BY <1>1, <1>2, <1>5, DoneReq, TypeParts DEF TypeInv

LEMMA VerifyStampOK ==
  ASSUME TypeInv, NEW r \in Requests, VerifyStamp(r)
  PROVE  TypeInv'
  <1>1. /\ req[r].pc = "stamp" /\ Step(r, "enable", req[r].otp)
        /\ UNCHANGED <<users, otps, codes, locks, minted, told, off, stuck>>
    BY DEF VerifyStamp
  <1>2. req' \in [Requests -> Request] /\ TaskInv'
    BY <1>1, SameKept, GoOnOK DEF TypeInv, SetupPC, OwnPC, RowPC
  <1> QED
    BY <1>1, <1>2, SameTablesOK DEF TypeInv, TypeOK

LEMMA InitTypeInv == ASSUME Init PROVE TypeInv
  <1>1. \A r \in Requests : req[r] = Idle
    BY DEF Init
  <1>2. req = [r \in Requests |-> Idle]
    BY DEF Init
  <1>3. req \in [Requests -> Request]
    BY <1>2, IdleOK
  <1>4. TaskInv
    BY <1>1, IdleOK DEF TaskInv
  <1>5. IdsInv
    BY DEF Init, IdsInv
  <1>6. Tables
    BY DEF Init, Tables, Everybody
  <1> QED
    BY <1>3, <1>4, <1>5, <1>6, TypeParts DEF Init, TypeInv

LEMMA LockExpiresOK ==
  ASSUME TypeInv, NEW k, LockExpires(k)
  PROVE  TypeInv'
  <1>1. req' \in [Requests -> Request] /\ TaskInv'
    BY TypeParts DEF LockExpires, TaskInv, TypeInv
  <1> QED
    BY <1>1, SameTablesOK DEF LockExpires, TypeInv, TypeOK

LEMMA DeleteUserOK ==
  ASSUME TypeInv, NEW u, DeleteUser(u)
  PROVE  TypeInv'
  <1>1. TypeOK' /\ IdsInv'
    BY UserDeleted DEF TypeInv
  <1>2. Kept
    BY SameKept DEF DeleteUser, TypeInv
  <1>3. \A s \in Requests : TaskOK(req[s], minted', told', otps')
    BY <1>2, StillOK DEF TypeInv, TypeOK, TaskInv
  <1>4. TaskInv'
    BY <1>3 DEF TaskInv, DeleteUser
  <1> QED
    BY <1>1, <1>4 DEF TypeInv

LEMMA NextTypeInv == ASSUME TypeInv, [Next]_mfaVars PROVE TypeInv'
  <1>1. ASSUME NEW r \in Requests, Handler(r) PROVE TypeInv'
    BY <1>1, AskOK, LockOK, FindOK, ClearOK, DropOK, CreateOK, FillOK, SetupDoneOK,
       VerifyStampOK, VerifyEnableOK
    DEF Handler
  <1>2. ASSUME UNCHANGED mfaVars PROVE TypeInv'
    <2>1. req' \in [Requests -> Request] /\ TaskInv'
      BY <1>2, TypeParts DEF mfaVars, TaskInv, TypeInv
    <2> QED
      BY <1>2, <2>1, SameTablesOK DEF mfaVars, TypeInv, TypeOK
  <1> QED
    BY <1>1, <1>2, LockExpiresOK, DeleteUserOK DEF Next

-----------------------------------------------------------------------------
(* Steps that only move a request on *)

\* Every other step of a handler takes a request between SetLock and its answer
\* to a later point of the same handler.
Moves(r) ==
  /\ req[r].pc \notin {"idle", "asked", "answered"}
  /\ \E pc \in PC \ {"idle", "asked"}, i \in 0..MaxId : Step(r, pc, i)
  /\ UNCHANGED <<locks, stuck>>
  /\ off' = off \/ Disabled(req[r].user)

LEMMA HandlerMoves ==
  ASSUME TypeInv, NEW r \in Requests, Handler(r)
  PROVE  \/ \E u \in Users, path \in Paths : Ask(r, u, path)
         \/ SetLock(r) \/ Unlock(r) \/ Fail(r) \/ SetupDone(r)
         \/ Moves(r)
  <1>0. req[r].otp \in 0..MaxId /\ minted \in 0..MaxId /\ 0 \in 0..MaxId
    BY TypeParts DEF TypeInv, TypeOK, Request
  <1>1. \A x \in otps : x.id \in 0..MaxId
    BY DEF TypeInv, TypeOK, Otp, Ids
  <1> USE DEF Moves, PC, Answer
  <1>2. CASE SetupFind(r)
    BY <1>0, <1>1, <1>2 DEF SetupFind
  <1>3. CASE SetupClear(r) \/ CodesWipe(r) \/ DisableClear(r) \/ VerifyStamp(r)
    BY <1>0, <1>3 DEF SetupClear, CodesWipe, DisableClear, VerifyStamp
  <1>4. CASE SetupDrop(r) \/ DisableDrop(r)
    BY <1>0, <1>4 DEF SetupDrop, DisableDrop
  <1>5. CASE SetupCreate(r)
    <2>1. minted + 1 \in 0..MaxId
      BY <1>0, <1>5 DEF SetupCreate
    <2> QED
      BY <1>5, <2>1 DEF SetupCreate
  <1>6. CASE SetupFill(r) \/ CodesRefill(r)
    BY <1>0, <1>6 DEF SetupFill, CodesRefill
  <1>7. CASE VerifyFind(r)
    BY <1>1, <1>7 DEF VerifyFind
  <1>8. CASE VerifyEnable(r)
    BY <1>0, <1>8 DEF VerifyEnable
  <1>9. CASE CodesFind(r)
    BY <1>1, <1>9 DEF CodesFind
  <1>10. CASE DisableFind(r)
    BY <1>0, <1>1, <1>10 DEF DisableFind
  <1> QED
    BY <1>2, <1>3, <1>4, <1>5, <1>6, <1>7, <1>8, <1>9, <1>10 DEF Handler


\* Where requests are after each kind of step.
LEMMA MovesReq ==
  ASSUME TypeInv, NEW r \in Requests, Moves(r)
  PROVE  /\ req[r].pc \notin {"idle", "asked", "answered"}
         /\ req'[r].pc \notin {"idle", "asked"}
         /\ \A s \in Requests :
              /\ s # r => req'[s] = req[s]
              /\ req'[s].user = req[s].user /\ req'[s].path = req[s].path
  <1>1. PICK pc \in PC \ {"idle", "asked"}, i \in 0..MaxId : Step(r, pc, i)
    BY DEF Moves
  <1> QED
    BY <1>1, Stepped DEF Moves, TypeInv

LEMMA SetLockReq ==
  ASSUME TypeInv, NEW r \in Requests, SetLock(r)
  PROVE  /\ req[r].pc = "asked" /\ req'[r].pc = "begin"
         /\ \A s \in Requests :
              /\ s # r => req'[s] = req[s]
              /\ req'[s].user = req[s].user /\ req'[s].path = req[s].path
  <1>1. Step(r, "begin", 0) /\ "begin" \in PC /\ 0 \in 0..MaxId
    BY DEF SetLock, PC
  <1> QED
    BY <1>1, Stepped DEF SetLock, TypeInv

LEMMA BackToIdle ==
  ASSUME TypeInv, NEW r \in Requests, Continue(r, Idle)
  PROVE  req'[r].pc = "idle" /\ \A s \in Requests : s # r => req'[s] = req[s]
  <1>1. req \in [Requests -> Request] /\ Idle.pc = "idle"
    BY TypeParts DEF TypeInv, Idle, Task
  <1> QED
    BY <1>1 DEF Continue

LEMMA UnlockReq ==
  ASSUME TypeInv, NEW r \in Requests, Unlock(r)
  PROVE  req'[r].pc = "idle" /\ \A s \in Requests : s # r => req'[s] = req[s]
  BY BackToIdle DEF Unlock

LEMMA FailReq ==
  ASSUME TypeInv, NEW r \in Requests, Fail(r)
  PROVE  /\ req[r].pc \notin {"idle", "answered"}
         /\ IF req[r].pc = "asked" THEN req'[r].pc = "idle" ELSE req'[r].pc = "answered"
         /\ \A s \in Requests :
              /\ s # r => req'[s] = req[s]
              /\ req'[s].pc # "idle" =>
                   req'[s].user = req[s].user /\ req'[s].path = req[s].path
  <1>1. req[r].pc \notin {"idle", "answered"}
    BY DEF Fail
  <1>2. CASE req[r].pc = "asked"
    BY <1>1, <1>2, BackToIdle DEF Fail
  <1>3. CASE req[r].pc # "asked"
    <2>1. Step(r, "answered", 0) /\ "answered" \in PC /\ 0 \in 0..MaxId
      BY <1>3 DEF Fail, Answer, PC
    <2> QED
      BY <1>1, <1>3, <2>1, Stepped DEF TypeInv
  <1> QED
    BY <1>2, <1>3

LEMMA AskReq ==
  ASSUME TypeInv, NEW r \in Requests, NEW u \in Users, NEW path \in Paths, Ask(r, u, path)
  PROVE  /\ req[r].pc = "idle"
         /\ req'[r].pc = "asked" /\ req'[r].user = u /\ req'[r].path = path
         /\ \A s \in Requests : s # r => req'[s] = req[s]
  <1>1. req \in [Requests -> Request]
    BY TypeParts DEF TypeInv
  <1> QED
    BY <1>1 DEF Ask, Continue, Task

-----------------------------------------------------------------------------
(* Locks *)

LEMMA NextLocksInv ==
  ASSUME TypeInv, LocksInv, [Next]_mfaVars
  PROVE  LocksInv'
  <1>1. ASSUME NEW r \in Requests, Handler(r) PROVE LocksInv'
    <2>1. CASE \E u \in Users, path \in Paths : Ask(r, u, path)
      <3>1. PICK u \in Users, path \in Paths : Ask(r, u, path)
        BY <2>1
      <3>2. \A s \in Requests : \A k : Locked(s, k) => Locked(s, k)'
        BY <3>1, AskReq DEF Locked, Key
      <3> QED
        BY <3>1, <3>2 DEF LocksInv, Ask
    <2>2. CASE SetLock(r)
      <3>1. \A s \in Requests : \A k : Locked(s, k) => Locked(s, k)'
        BY <2>2, SetLockReq DEF Locked, Key
      <3>2. PICK k : k = Key(req[r])
        OBVIOUS
      <3>3. Locked(r, k)'
        BY <2>2, <3>2, SetLockReq DEF Locked, Key
      <3> QED
        BY <2>2, <3>1, <3>2, <3>3 DEF LocksInv, SetLock
    <2>3. CASE Unlock(r)
      <3>1. \A s \in Requests : \A k : Locked(s, k) /\ k # Key(req[r]) => Locked(s, k)'
        BY <2>3, UnlockReq DEF Locked, Key
      <3>2. \/ locks' = locks \ {Key(req[r])} /\ stuck' = stuck
            \/ stuck' = stuck \cup {Key(req[r])} /\ locks' = locks
        BY <2>3 DEF Unlock
      <3> QED
        BY <3>1, <3>2 DEF LocksInv
    <2>4. CASE Fail(r)
      <3>1. \A s \in Requests : \A k : Locked(s, k) => Locked(s, k)'
        BY <2>4, FailReq DEF Locked, Key
      <3> QED
        BY <2>4, <3>1 DEF LocksInv, Fail
    <2>5. CASE SetupDone(r)
      <3>1. \A s \in Requests : \A k : Locked(s, k) => Locked(s, k)'
        BY <2>5, DoneReq DEF Locked, Key
      <3> QED
        BY <2>5, <3>1 DEF LocksInv, SetupDone
    <2>6. CASE Moves(r)
      <3>1. \A s \in Requests : \A k : Locked(s, k) => Locked(s, k)'
        BY <2>6, MovesReq DEF Locked, Key
      <3> QED
        BY <2>6, <3>1 DEF LocksInv, Moves
    <2> QED
      BY <1>1, <2>1, <2>2, <2>3, <2>4, <2>5, <2>6, HandlerMoves
  <1>2. ASSUME NEW k, LockExpires(k) PROVE LocksInv'
    BY <1>2 DEF LocksInv, LockExpires, Locked
  <1>3. ASSUME NEW u, DeleteUser(u) PROVE LocksInv'
    BY <1>3 DEF LocksInv, DeleteUser, Locked
  <1>4. CASE UNCHANGED mfaVars
    BY <1>4 DEF LocksInv, mfaVars, Locked
  <1> QED
    BY <1>1, <1>2, <1>3, <1>4 DEF Next


-----------------------------------------------------------------------------
(* Disabling *)

Setting(s, u) ==
  /\ req[s].user = u /\ req[s].path = "setup"
  /\ req[s].pc \notin {"idle", "answered"}

\* What a step does to the setups under way and to off: only Ask begins a
\* setup, of a user who is then not off; and only an answer to disabling, when no
\* setup is under way, adds to off.
LEMMA SettingStep ==
  ASSUME TypeInv, [Next]_mfaVars
  PROVE  \A u \in Users :
           /\ u \in off' => u \in off \/ \A s \in Requests : ~ Setting(s, u)
           /\ \A s \in Requests : Setting(s, u)' => Setting(s, u) \/ u \notin off'
  <1> SUFFICES ASSUME NEW u \in Users
      PROVE  /\ u \in off' => u \in off \/ \A s \in Requests : ~ Setting(s, u)
             /\ \A s \in Requests : Setting(s, u)' => Setting(s, u) \/ u \notin off'
    OBVIOUS
  <1>1. ASSUME NEW r \in Requests, Handler(r)
        PROVE  /\ u \in off' => u \in off \/ \A s \in Requests : ~ Setting(s, u)
               /\ \A s \in Requests : Setting(s, u)' => Setting(s, u) \/ u \notin off'
    <2>1. CASE \E v \in Users, path \in Paths : Ask(r, v, path)
      <3>1. PICK v \in Users, path \in Paths : Ask(r, v, path)
        BY <2>1
      <3>2. IF path = "setup" THEN off' = off \ {v} ELSE off' = off
        BY <3>1 DEF Ask
      <3> QED
        BY <3>1, <3>2, AskReq DEF Setting
    <2>2. CASE SetLock(r)
      BY <2>2, SetLockReq DEF Setting, SetLock
    <2>3. CASE Unlock(r)
      BY <2>3, UnlockReq DEF Setting, Unlock
    <2>4. CASE Fail(r)
      BY <2>4, FailReq DEF Setting, Fail
    <2>5. CASE SetupDone(r)
      BY <2>5, DoneReq DEF Setting, SetupDone
    <2>6. CASE Moves(r)
      <3>1. \A s \in Requests : Setting(s, u)' => Setting(s, u)
        BY <2>6, MovesReq DEF Setting
      <3>2. u \in off' => u \in off \/ SettingUp(u) = {}
        BY <2>6 DEF Moves, Disabled
      <3> QED
        BY <3>1, <3>2 DEF Setting, SettingUp
    <2> QED
      BY <1>1, <2>1, <2>2, <2>3, <2>4, <2>5, <2>6, HandlerMoves
  <1>2. ASSUME UNCHANGED <<req, off>>
        PROVE  /\ u \in off' => u \in off \/ \A s \in Requests : ~ Setting(s, u)
               /\ \A s \in Requests : Setting(s, u)' => Setting(s, u) \/ u \notin off'
    BY <1>2 DEF Setting
  <1> QED
    BY <1>1, <1>2 DEF Next, LockExpires, DeleteUser, mfaVars

LEMMA NextOffInv ==
  ASSUME TypeInv, OffInv, [Next]_mfaVars
  PROVE  OffInv'
  <1>1. off' \subseteq Users
    BY NextTypeInv DEF TypeInv, TypeOK
  <1>2. \A u \in off, s \in Requests : ~ Setting(s, u)
    BY DEF OffInv, Setting, SettingUp
  <1>3. ASSUME NEW u \in off', NEW s \in Requests, Setting(s, u)' PROVE FALSE
    BY <1>1, <1>2, <1>3, SettingStep
  <1> QED
    BY <1>3 DEF OffInv, Setting, SettingUp

\* A row that a step leaves or puts in the table is of a user who had one before,
\* or of one whose setup is under way.
LEMMA RowsStep ==
  ASSUME TypeInv, [Next]_mfaVars, NEW y \in otps'
  PROVE  \/ \E x \in otps : x.user = y.user
         \/ \E r \in Requests : Setting(r, y.user) /\ SetupCreate(r)
  <1>1. ASSUME NEW i, Complete(i) PROVE \E x \in otps : x.user = y.user
    <2>1. PICK x \in otps : /\ otps' = (otps \ {x}) \cup {OtpRow(i, x.user, TRUE)}
                            /\ OtpRow(i, x.user, TRUE).user = x.user
      BY <1>1, TypeParts, Completed DEF TypeInv
    <2> QED
      BY <2>1
  <1>2. ASSUME NEW r \in Requests, SetupCreate(r)
        PROVE  (\E x \in otps : x.user = y.user) \/ Setting(r, y.user)
    <2>1. /\ req[r].pc = "create"
          /\ otps' = otps \cup {OtpRow(minted + 1, req[r].user, FALSE)}
          /\ OtpRow(minted + 1, req[r].user, FALSE).user = req[r].user
      BY <1>2 DEF SetupCreate, OtpRow
    <2>2. req[r].path = "setup"
      BY <2>1, InFlight DEF TaskOK, SetupPC
    <2> QED
      BY <2>1, <2>2 DEF Setting
  <1>3. ASSUME NEW r \in Requests, Handler(r), ~ SetupCreate(r)
        PROVE  otps' \subseteq otps \/ \E i : Complete(i)
    BY <1>3
    DEF Handler, Ask, SetLock, Unlock, Fail, SetupFind, SetupClear, SetupDrop, SetupFill,
        SetupDone, VerifyFind, VerifyStamp, VerifyEnable, CodesFind, CodesWipe, CodesRefill,
        DisableFind, DisableClear, DisableDrop
  <1>4. CASE otps' \subseteq otps
    BY <1>4
  <1>5. CASE ~ otps' \subseteq otps
    <2>1. PICK r \in Requests : Handler(r)
      BY <1>5 DEF Next, LockExpires, DeleteUser, mfaVars
    <2> QED
      BY <1>1, <1>2, <1>3, <1>5, <2>1
  <1> QED
    BY <1>4, <1>5

LEMMA NextDisabledIsOff ==
  ASSUME TypeInv, OffInv, DisabledIsOff, [Next]_mfaVars
  PROVE  DisabledIsOff'
  <1>1. SUFFICES ASSUME NEW y \in otps', y.user \in off' PROVE FALSE
    BY DEF DisabledIsOff
  <1>2. y.user \in Users
    BY <1>1, NextTypeInv DEF TypeInv, TypeOK, Otp
  \* Only the two answers to disabling add to off.
  <1>3. CASE y.user \in off
    <2>1. PICK r \in Requests : Setting(r, y.user)
      BY <1>1, <1>3, RowsStep DEF DisabledIsOff
    <2> QED
      BY <1>3, <2>1 DEF OffInv, Setting, SettingUp
  <1>4. CASE y.user \notin off
    <2>1. PICK r \in Requests : DisableFind(r) \/ DisableDrop(r)
      <3>1. ASSUME UNCHANGED off \/ off' \subseteq off PROVE FALSE
        BY <1>1, <1>4, <3>1
      <3>2. ASSUME NEW r \in Requests, Handler(r), ~ (DisableFind(r) \/ DisableDrop(r))
            PROVE  off' \subseteq off
        BY <3>2
        DEF Handler, Ask, SetLock, Unlock, Fail, SetupFind, SetupClear, SetupDrop,
            SetupCreate, SetupFill, SetupDone, VerifyFind, VerifyStamp, VerifyEnable,
            CodesFind, CodesWipe, CodesRefill, DisableClear
      <3> QED
        BY <3>1, <3>2 DEF Next, LockExpires, DeleteUser, mfaVars
    <2>2. off' \subseteq off \cup {req[r].user}
      BY <2>1 DEF DisableFind, DisableDrop, Disabled
    <2>3. y.user = req[r].user
      BY <1>1, <1>4, <2>2
    <2>4. CASE DisableFind(r)
      <3>1. otps' = otps /\ off' # off
        BY <1>1, <1>4, <2>4 DEF DisableFind
      <3>2. {x \in otps : x.user = req[r].user} = {}
        BY <2>4, <3>1 DEF DisableFind
      <3> QED
        BY <1>1, <2>3, <3>1, <3>2
    <2>5. CASE DisableDrop(r)
      <3>1. PICK x \in otps : x.id = req[r].otp /\ otps' = otps \ {x}
        BY <2>5 DEF DisableDrop
      <3>2. x.user = req[r].user
        BY <2>5, <3>1, InFlight DEF DisableDrop, TaskOK, OwnPC
      <3>3. y = x
        BY <1>1, <2>3, <3>1, <3>2 DEF TypeInv, TypeOK
      <3> QED
        BY <1>1, <3>1, <3>3
    <2> QED
      BY <2>1, <2>4, <2>5
  <1> QED
    BY <1>3, <1>4

-----------------------------------------------------------------------------
(* Secrets *)

\* Steps that change no row of UserOTP and tell no secret.
LEMMA LessTold ==
  ASSUME ToldInv, otps' \subseteq otps, told' = told
  PROVE  ToldInv'
  BY DEF ToldInv

LEMMA CompleteTold ==
  ASSUME TypeInv, ToldInv, NEW i, Complete(i), told' = told \cup {i}
  PROVE  ToldInv'
  <1>1. PICK x \in otps : /\ x.id = i
                          /\ otps' = (otps \ {x}) \cup {OtpRow(i, x.user, TRUE)}
                          /\ OtpRow(i, x.user, TRUE).id = i
                          /\ OtpRow(i, x.user, TRUE).done = TRUE
    BY TypeParts, Completed DEF TypeInv
  <1>2. \A y \in otps \ {x} : y.id # i
    BY <1>1 DEF TypeInv, TypeOK
  <1> QED
    BY <1>1, <1>2 DEF ToldInv

LEMMA CreateTold ==
  ASSUME TypeInv, ToldInv, NEW r \in Requests, SetupCreate(r)
  PROVE  ToldInv'
  <1> DEFINE new == OtpRow(minted + 1, req[r].user, FALSE)
  <1>1. otps' = otps \cup {new} /\ told' = told
    BY DEF SetupCreate
  <1>2. new.id = minted + 1 /\ ~ new.done
    BY DEF OtpRow
  <1>3. minted + 1 \notin told
    BY DEF TypeInv, TypeOK, IdsInv
  <1> HIDE DEF new
  <1> QED
    BY <1>1, <1>2, <1>3 DEF ToldInv

\* The row whose setup is completed by a verification was completed before.
LEMMA EnableTold ==
  ASSUME TypeInv, NEW r \in Requests, VerifyEnable(r)
  PROVE  Complete(req[r].otp) /\ told' = told \cup {req[r].otp}
  <1>1. req[r].otp \in told
    BY InFlight DEF VerifyEnable, TaskOK
  <1> QED
    BY <1>1 DEF VerifyEnable

LEMMA NextToldInv ==
  ASSUME TypeInv, ToldInv, [Next]_mfaVars
  PROVE  ToldInv'
  <1>1. ASSUME NEW r \in Requests, Handler(r),
               ~ (SetupCreate(r) \/ SetupDone(r) \/ VerifyEnable(r))
        PROVE  otps' \subseteq otps /\ told' = told
    BY <1>1
    DEF Handler, Ask, SetLock, Unlock, Fail, SetupFind, SetupClear, SetupDrop, SetupFill,
        VerifyFind, VerifyStamp, CodesFind, CodesWipe, CodesRefill, DisableFind,
        DisableClear, DisableDrop
  <1>2. ASSUME NEW r \in Requests, SetupDone(r) PROVE ToldInv'
    BY <1>2, CompleteTold DEF SetupDone
  <1>3. ASSUME NEW r \in Requests, VerifyEnable(r) PROVE ToldInv'
    BY <1>3, EnableTold, CompleteTold
  <1> QED
    BY <1>1, <1>2, <1>3, CreateTold, LessTold DEF Next, LockExpires, DeleteUser, mfaVars

-----------------------------------------------------------------------------
(* Overlapping setups *)

\* A row is completed by SetupDone, and by nothing else.
LEMMA DoneStep ==
  ASSUME TypeInv, ToldInv, [Next]_mfaVars, NEW y \in otps', y.done
  PROVE  \/ \E x \in otps : x.id = y.id /\ x.done
         \/ \E r \in Requests : SetupDone(r) /\ y.id = req[r].otp
  <1>1. ASSUME NEW i, Complete(i) PROVE y \in otps \/ (y.id = i /\ \E x \in otps : x.id = i)
    <2>1. PICK x \in otps : /\ x.id = i
                            /\ otps' = (otps \ {x}) \cup {OtpRow(i, x.user, TRUE)}
                            /\ OtpRow(i, x.user, TRUE).id = i
      BY <1>1, TypeParts, Completed DEF TypeInv
    <2> QED
      BY <2>1
  <1>2. ASSUME NEW r \in Requests, SetupDone(r)
        PROVE  y \in otps \/ y.id = req[r].otp
    BY <1>1, <1>2 DEF SetupDone
  <1>3. ASSUME NEW r \in Requests, VerifyEnable(r)
        PROVE  \E x \in otps : x.id = y.id /\ x.done
    BY <1>1, <1>3, EnableTold, InFlight DEF VerifyEnable, TaskOK, ToldInv
  <1>4. ASSUME NEW r \in Requests, SetupCreate(r) PROVE y \in otps
    BY <1>4 DEF SetupCreate, OtpRow
  <1>5. ASSUME NEW r \in Requests, Handler(r),
               ~ (SetupCreate(r) \/ SetupDone(r) \/ VerifyEnable(r))
        PROVE  otps' \subseteq otps
    BY <1>5
    DEF Handler, Ask, SetLock, Unlock, Fail, SetupFind, SetupClear, SetupDrop, SetupFill,
        VerifyFind, VerifyStamp, CodesFind, CodesWipe, CodesRefill, DisableFind,
        DisableClear, DisableDrop
  <1> QED
    BY <1>2, <1>3, <1>4, <1>5 DEF Next, LockExpires, DeleteUser, mfaVars

LEMMA StepPc ==
  ASSUME TypeInv, NEW r \in Requests, NEW pc, NEW i, Step(r, pc, i)
  PROVE  /\ req'[r].pc = pc /\ req'[r].otp = i /\ req'[r].beaten = req[r].beaten
         /\ \A s \in Requests : s # r => req'[s] = req[s]
  <1>1. req \in [Requests -> Request]
    BY TypeParts DEF TypeInv
  <1> QED
    BY <1>1 DEF Step, Continue, Request

\* How a request comes to be at clear or drop.
LEMMA DropStep ==
  ASSUME TypeInv, [Next]_mfaVars, NEW s \in Requests, req'[s].pc \in {"clear", "drop"}
  PROVE  \/ /\ req'[s].pc = req[s].pc /\ req'[s].otp = req[s].otp
            /\ req[s].beaten => req'[s].beaten
         \/ SetupFind(s) \/ SetupClear(s)
  <1> DEFINE Still == /\ req'[s].pc = req[s].pc /\ req'[s].otp = req[s].otp
                      /\ req[s].beaten => req'[s].beaten
  <1>1. ASSUME NEW r \in Requests, Handler(r), s # r PROVE Still
    <2>1. CASE SetupDone(r)
      BY <1>1, <2>1, DoneReq
    <2>2. CASE \E u \in Users, path \in Paths : Ask(r, u, path)
      BY <1>1, <2>2, AskReq
    <2>3. CASE SetLock(r) \/ Unlock(r) \/ Fail(r)
      BY <1>1, <2>3, SetLockReq, UnlockReq, FailReq
    <2>4. CASE Moves(r)
      BY <1>1, <2>4, MovesReq
    <2> QED
      BY <1>1, <2>1, <2>2, <2>3, <2>4, HandlerMoves
  <1>2. ASSUME Handler(s), ~ SetupFind(s), ~ SetupClear(s) PROVE FALSE
    <2>1. CASE SetupDone(s)
      BY <2>1, DoneReq
    <2>2. CASE \E u \in Users, path \in Paths : Ask(s, u, path)
      BY <2>2, AskReq
    <2>3. CASE SetLock(s) \/ Unlock(s) \/ Fail(s)
      BY <2>3, SetLockReq, UnlockReq, FailReq
    <2>4. ASSUME NEW pc, pc \notin {"clear", "drop"}, NEW i, Step(s, pc, i) PROVE FALSE
      BY <2>4, StepPc
    <2>5. CASE SetupDrop(s) \/ SetupCreate(s) \/ SetupFill(s)
      BY <2>4, <2>5 DEF SetupDrop, SetupCreate, SetupFill
    <2>6. CASE VerifyFind(s) \/ VerifyStamp(s) \/ VerifyEnable(s)
      BY <2>4, <2>6 DEF VerifyFind, VerifyStamp, VerifyEnable, Answer
    <2>7. CASE CodesFind(s) \/ CodesWipe(s) \/ CodesRefill(s)
      BY <2>4, <2>7 DEF CodesFind, CodesWipe, CodesRefill, Answer
    <2>8. CASE DisableFind(s) \/ DisableClear(s) \/ DisableDrop(s)
      BY <2>4, <2>8 DEF DisableFind, DisableClear, DisableDrop, Answer
    <2> QED
      BY <1>2, <2>1, <2>2, <2>3, <2>5, <2>6, <2>7, <2>8 DEF Handler
  <1>3. ASSUME req' = req PROVE Still
    BY <1>3
  <1> QED
    BY <1>1, <1>2, <1>3 DEF Next, LockExpires, DeleteUser, mfaVars

LEMMA NextBeatenInv ==
  ASSUME TypeInv, ToldInv, BeatenInv, [Next]_mfaVars
  PROVE  BeatenInv'
  <1> SUFFICES ASSUME NEW s \in Requests, req'[s].pc \in {"clear", "drop"},
                      NEW y \in otps', y.id = req'[s].otp, y.done
               PROVE  req'[s].beaten
    BY DEF BeatenInv, Dropping
  <1>1. CASE SetupFind(s)
    <2>1. PICK x \in otps : ~ x.done /\ Step(s, "clear", x.id)
      <3>1. ~ Step(s, "create", 0)
        BY StepPc
      <3> QED
        BY <1>1, <3>1 DEF SetupFind
    <2>2. req'[s].otp = x.id
      BY <2>1, StepPc
    <2>3. y = x
      BY <1>1, <2>1, <2>2 DEF SetupFind, TypeInv, TypeOK
    <2> QED
      BY <2>1, <2>3
  <1>2. CASE SetupClear(s)
    <2>1. /\ req[s].pc = "clear" /\ otps' = otps
          /\ req'[s].otp = req[s].otp /\ req'[s].beaten = req[s].beaten
      BY <1>2, StepPc DEF SetupClear
    <2> QED
      BY <2>1 DEF BeatenInv, Dropping
  <1>3. CASE /\ req'[s].pc = req[s].pc /\ req'[s].otp = req[s].otp
             /\ req[s].beaten => req'[s].beaten
    <2>1. CASE \E x \in otps : x.id = y.id /\ x.done
      BY <1>3, <2>1 DEF BeatenInv, Dropping
    <2>2. ASSUME NEW r \in Requests, SetupDone(r), y.id = req[r].otp
          PROVE  req'[s].beaten
      <3>1. PICK x \in otps : x.id = req[r].otp
        BY <2>2, TypeParts, Completed DEF SetupDone, TypeInv
      <3>2. s # r
        BY <1>3, <2>2 DEF SetupDone
      <3>3. x.user = req[s].user /\ req[s].path = "setup"
        BY <1>3, <2>2, <3>1, InFlight DEF TaskOK, OwnPC, SetupPC
      <3>4. x.user = req[r].user
        BY <2>2, <3>1, InFlight DEF SetupDone, TaskOK, OwnPC
      <3>5. s \in SettingUp(req[r].user)
        BY <1>3, <3>3, <3>4 DEF SettingUp
      <3> QED
        BY <2>2, <3>2, <3>5, DoneReq
    <2> QED
      BY <2>1, <2>2, DoneStep
  <1> QED
    BY <1>1, <1>2, <1>3, DropStep

-----------------------------------------------------------------------------
(* The theorems *)

LEMMA InitIInv == ASSUME Init PROVE IInv
  BY InitTypeInv
  DEF Init, IInv, ToldInv, BeatenInv, Dropping, OffInv, DisabledIsOff, LocksInv

LEMMA NextIInv == ASSUME IInv, [Next]_mfaVars PROVE IInv'
  BY NextTypeInv, NextToldInv, NextBeatenInv, NextOffInv, NextDisabledIsOff, NextLocksInv
  DEF IInv

\* The invariant that carries the others.
THEOREM InvariantHolds == Spec => []IInv
  <1>1. Init => IInv
    BY InitIInv
  <1>2. IInv /\ [Next]_mfaVars => IInv'
    BY NextIInv
  <1> QED
    BY <1>1, <1>2, PTL DEF Spec

\* The tables keep their keys and their shapes: one row of UserOTP per user,
\* whatever setups overlap, backup codes only of rows that are there, and no row
\* without its user and its issuer.
THEOREM TypeCorrect == Spec => []TypeOK
  <1>1. IInv => TypeOK
    BY DEF IInv, TypeInv
  <1> QED
    BY <1>1, InvariantHolds, PTL

\* No way out of a handler leaves a lock behind, though the requests of a user
\* that have passed the interceptor together remove each other's: a lock without
\* a request is one whose removal has failed.
THEOREM LocksAreRemoved == Spec => []LockHasRequest
  <1>1. IInv => LockHasRequest
    BY DEF IInv, LocksInv, LockHasRequest, Locked
  <1> QED
    BY <1>1, InvariantHolds, PTL

\* Once disabling has been answered while no setup of the user was under way,
\* MFA stays off until the user asks for a setup: no verification, renewal or
\* other request that overlaps with it brings a row back.
THEOREM DisabledStaysOff == Spec => []DisabledIsOff
  <1>1. IInv => DisabledIsOff
    BY DEF IInv
  <1> QED
    BY <1>1, InvariantHolds, PTL

\* Only a user who has been told the secret has MFA on: what interrupted setups
\* leave behind is never completed, by no verification either.
THEOREM EnabledIsTold == Spec => []EnabledWasTold
  <1>1. IInv => EnabledWasTold
    BY DEF IInv, ToldInv, EnabledWasTold
  <1> QED
    BY <1>1, InvariantHolds, PTL

\* A setup drops a row that is in force only if the setup that completed the row
\* was answered while it was under way itself.
THEOREM OverlapOnly == Spec => OnlyOverlapReplaces
  <1>1. IInv => [\A r \in Requests :
                   SetupDrop(r) /\ (\E x \in otps : x.id = req[r].otp /\ x.done)
                     => req[r].beaten]_mfaVars
    BY DEF IInv, BeatenInv, Dropping, SetupDrop
  <1> QED
    BY <1>1, InvariantHolds, PTL DEF OnlyOverlapReplaces

=============================================================================
