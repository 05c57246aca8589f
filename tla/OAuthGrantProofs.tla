-------------------------- MODULE OAuthGrantProofs --------------------------
(* Proofs about OAuthGrant for every set of users, clients, requests and   *)
(* permissions and every bound.                                            *)
EXTENDS OAuthGrant, TLAPS

USE OAuthBounds, OAuthNames

-----------------------------------------------------------------------------
(* The inductive invariant *)

\* The records of req.
Request ==
  [pc : PC, client : Clients \cup {NoClient}, from : 0..MaxId,
   row : Code \cup Grant \cup {NoRow}, perms : SUBSET Perms]

\* A request under way has a client and presents an id that exists.
Presents(q) == q.pc # "idle" => q.client \in Clients /\ q.from \in 1..minted

PresentsInv == \A r \in Requests : Presents(req[r])

\* No code and no grant is given an id that another has.
IdsInv ==
  /\ \A a \in asked : a.id \in 1..minted
  /\ \A g \in given : g.id \in 1..minted
  /\ \A a, b \in asked : a.id = b.id => a = b
  /\ \A g, h \in given : g.id = h.id => g = h
  /\ \A a \in asked, g \in given : a.id # g.id
  /\ lineage \subseteq (1..minted) \X (1..minted)

\* A row of a code, read or in the table, is the code that was made, but for
\* its age.
SameCode(a, x) ==
  a.id = x.id /\ a.client = x.client /\ a.user = x.user /\ a.scope = x.scope

\* The tables hold nothing but what was made, and only grants are revoked.
RowsInv ==
  /\ \A x \in codes : \E a \in asked : SameCode(a, x)
  /\ grants \subseteq given
  /\ \A i \in cut : \E g \in given : g.id = i
  /\ states \subseteq named

\* What an exchange has read: of a code, from the time it was found; of a grant,
\* whose token then had a JWTState row.
ReadCode(q, A) ==
  /\ q.pc \in {"found", "consumed", "perms"} =>
       q.row \in Code /\ q.row.id = q.from /\ \E a \in A : SameCode(a, q.row)
  /\ q.pc \in {"consumed", "perms"} => q.row.client = q.client
  /\ q.pc = "perms" => q.perms \subseteq q.row.scope

ReadGrant(q, G, N) ==
  q.pc \in {"read", "rotated"} =>
    /\ q.row \in G /\ q.row.id = q.from /\ q.row.client = q.client
    /\ q.from \in N

ReadOK(q, A, G, N) == ReadCode(q, A) /\ ReadGrant(q, G, N)

ReadInv == \A r \in Requests : ReadOK(req[r], asked, given, named)

\* A credential that has been taken or exchanged is gone: it is in no table, it
\* has not been revoked, and no other request has taken it.
Open(i) == (\E c \in codes : c.id = i) \/ (\E g \in grants : g.id = i)

Gone(i) == ~Open(i) /\ i \notin cut

Holds(r, i) == req[r].pc \in Taken /\ req[r].from = i

TakenInv ==
  /\ \A r \in Requests, i \in Ids :
       Holds(r, i) => Gone(i) /\ \A l \in lineage : l[1] # i
  /\ \A r, s \in Requests, i \in Ids : Holds(r, i) /\ Holds(s, i) => r = s

SpentInv == \A l \in lineage : Gone(l[1])

CutInv == \A g \in grants : g.id \notin cut

IInv ==
  TypeOK /\ PresentsInv /\ IdsInv /\ RowsInv /\ ReadInv /\ TakenInv /\ SpentInv /\ CutInv

-----------------------------------------------------------------------------
(* Types *)

LEMMA TaskType ==
  ASSUME NEW pc \in PC, NEW c \in Clients, NEW i \in 0..MaxId,
         NEW row \in Code \cup Grant, NEW perms \in SUBSET Perms
  PROVE  Task(pc, c, i, row, perms) \in Request
  BY DEF Task, Request

LEMMA IdleType == Idle \in Request
  BY DEF Idle, Task, Request, PC

LEMMA ReqType == TypeOK => req \in [Requests -> Request]
  BY DEF TypeOK, Request

\* A request that goes on with a record of its own leaves the others alone.
LEMMA ContinueType ==
  ASSUME TypeOK, PresentsInv, minted' \in Int, minted' >= minted,
         NEW r \in Requests, NEW q \in Request, Presents(q), Continue(r, q)
  PROVE  req' \in [Requests -> Request] /\ PresentsInv'
  <1>1. req \in [Requests -> Request] /\ minted \in 0..MaxId
    BY ReqType DEF TypeOK
  <1>2. /\ req' \in [Requests -> Request]
        /\ \A s \in Requests : req'[s] = IF s = r THEN q ELSE req[s]
    BY <1>1 DEF Continue
  <1>3. ASSUME NEW s \in Requests PROVE Presents(req[s])' 
    BY <1>1, <1>2 DEF PresentsInv, Presents
  <1> QED
    BY <1>2, <1>3 DEF PresentsInv

LEMMA FinishType ==
  ASSUME TypeOK, PresentsInv, minted' \in Int, minted' >= minted,
         NEW r \in Requests, Finish(r)
  PROVE  req' \in [Requests -> Request] /\ PresentsInv'
  BY IdleType, ContinueType DEF Finish, Presents, Idle, Task

\* The type invariant when only the requests have moved.
LEMMA OnlyRequests ==
  ASSUME TypeOK, req' \in [Requests -> Request],
         UNCHANGED <<roles, clients, codes, grants, states, minted, edits, historyVars>>
  PROVE  TypeOK'
  BY DEF TypeOK, Request, historyVars

LEMMA RolesType ==
  ASSUME TypeOK
  PROVE  DOMAIN roles \in SUBSET Users /\ roles \in [DOMAIN roles -> SUBSET Perms]
  BY DEF TypeOK

\* The mask and the scopes only ever take permissions away.
LEMMA FinalPermsCapped ==
  ASSUME NEW mine \in SUBSET Perms, NEW mask \in SUBSET Perms, NEW scope \in SUBSET Perms
  PROVE  /\ FinalPerms(mine, mask, scope) \subseteq scope
         /\ FinalPerms(mine, mask, scope) \in SUBSET Perms
  BY DEF FinalPerms, Filtered

LEMMA FreshId ==
  ASSUME TypeOK, minted < MaxId
  PROVE  minted \in Nat /\ minted + 1 \in Ids /\ minted + 1 \in 0..MaxId
  BY DEF TypeOK, Ids

LEMMA InitType == ASSUME Init PROVE TypeOK /\ PresentsInv
  <1>2. roles \in UNION {[U -> SUBSET Perms] : U \in SUBSET Users}
    <2>1. roles \in [Users -> SUBSET Perms]
      BY DEF Init
    <2> QED
      BY <2>1
  <1>3. \A r \in Requests : req[r] = Idle /\ Presents(Idle)
    <2>1. \A r \in Requests : req[r] = Idle
      BY DEF Init
    <2>2. Presents(Idle)
      BY DEF Presents, Idle, Task
    <2> QED
      BY <2>1, <2>2
  <1>4. req \in [Requests -> Request]
    <2>1. req = [r \in Requests |-> Idle]
      BY DEF Init
    <2> QED
      BY <2>1, IdleType
  <1>5. PresentsInv
    BY <1>3 DEF PresentsInv
  <1>6. /\ clients = {} /\ codes = {} /\ grants = {} /\ states = {}
        /\ asked = {} /\ given = {} /\ lineage = {} /\ cut = {} /\ named = {}
        /\ minted \in 0..MaxId /\ edits \in 0..MaxEdits
    BY DEF Init
  <1>7. TypeOK
    BY <1>2, <1>4, <1>6 DEF TypeOK, Request
  <1> QED
    BY <1>5, <1>7

LEMMA AuthorizeType ==
  ASSUME TypeOK, PresentsInv, NEW u \in Users, NEW c \in Clients, NEW s \in SUBSET Perms,
         Authorize(u, c, s)
  PROVE  TypeOK' /\ PresentsInv'
  <1>1. CodeRow(minted + 1, c, u, s, TRUE) \in Code
    BY FreshId DEF CodeRow, Code, Authorize
  <1>2. TypeOK'
    BY <1>1, FreshId DEF TypeOK, Authorize
  <1>3. PresentsInv'
    BY FreshId DEF PresentsInv, Presents, Authorize
  <1> QED
    BY <1>2, <1>3

LEMMA CodeExpiresType ==
  ASSUME TypeOK, PresentsInv, NEW c \in codes, CodeExpires(c)
  PROVE  TypeOK' /\ PresentsInv'
  <1>1. CodeRow(c.id, c.client, c.user, c.scope, FALSE) \in Code
    BY DEF TypeOK, CodeRow, Code
  <1>2. TypeOK'
    BY <1>1 DEF TypeOK, CodeExpires, historyVars
  <1> QED
    BY <1>2 DEF PresentsInv, Presents, CodeExpires

\* The codes a request may find are those that have been made.
LEMMA FindCodeType ==
  ASSUME TypeOK, PresentsInv, IdsInv, RowsInv,
         NEW r \in Requests, NEW c \in Clients, NEW code \in codes, FindCode(r, c, code)
  PROVE  TypeOK' /\ PresentsInv'
  <1>1. code \in Code /\ code.id \in 1..minted /\ minted \in 0..MaxId
    BY DEF TypeOK, IdsInv, RowsInv, SameCode
  <1>2. code.id \in 0..MaxId
    BY <1>1
  <1>3. Task("found", c, code.id, code, {}) \in Request
    BY <1>1, <1>2, TaskType DEF PC
  <1>4. Presents(Task("found", c, code.id, code, {}))
    BY <1>1 DEF Presents, Task
  <1> QED
    BY <1>1, <1>3, <1>4, ContinueType, OnlyRequests DEF FindCode

\* The row an exchange has read.
LEMMA RowType ==
  ASSUME TypeOK, ReadInv, NEW r \in Requests, req[r].pc # "idle"
  PROVE  /\ req[r].pc \in {"found", "consumed", "perms"} => req[r].row \in Code
         /\ req[r].pc \in {"read", "rotated"} => req[r].row \in Grant
         /\ req[r].row \in Code \cup Grant
  <1>1. req[r].pc \in PC
    BY ReqType DEF Request
  <1>2. given \subseteq Grant
    BY DEF TypeOK
  <1> QED
    BY <1>1, <1>2 DEF ReadInv, ReadOK, ReadCode, ReadGrant, PC

\* A record taken on to the next state of its request.
LEMMA NextTask ==
  ASSUME TypeOK, PresentsInv, ReadInv, NEW r \in Requests, req[r].pc # "idle",
         NEW pc \in PC, NEW perms \in SUBSET Perms
  PROVE  LET q == Task(pc, req[r].client, req[r].from, req[r].row, perms)
         IN  q \in Request /\ Presents(q)
  <1>1. req[r] \in Request /\ minted \in 0..MaxId
    BY ReqType DEF TypeOK
  <1>2. req[r].client \in Clients /\ req[r].from \in 1..minted
    BY DEF PresentsInv, Presents
  <1>4. req[r].from \in 0..MaxId
    BY <1>1 DEF Request
  <1>5. Task(pc, req[r].client, req[r].from, req[r].row, perms) \in Request
    BY <1>2, <1>4, RowType, TaskType
  <1>6. Presents(Task(pc, req[r].client, req[r].from, req[r].row, perms))
    BY <1>2 DEF Presents, Task
  <1> QED
    BY <1>5, <1>6

LEMMA ConsumeCodeType ==
  ASSUME TypeOK, PresentsInv, ReadInv, NEW r \in Requests, ConsumeCode(r)
  PROVE  TypeOK' /\ PresentsInv'
  <1>1. req[r].pc # "idle" /\ minted' = minted /\ minted \in Int
    BY DEF ConsumeCode, TypeOK
  <1>2. Continue(r, Task("consumed", req[r].client, req[r].from, req[r].row, {}))
          => req' \in [Requests -> Request] /\ PresentsInv'
    BY <1>1, NextTask, ContinueType DEF PC
  <1>3. Finish(r) => req' \in [Requests -> Request] /\ PresentsInv'
    BY <1>1, FinishType
  <1>4. req' \in [Requests -> Request] /\ PresentsInv'
    BY <1>2, <1>3 DEF ConsumeCode
  <1>5. codes' \subseteq codes
    BY DEF ConsumeCode
  <1> QED
    BY <1>4, <1>5 DEF TypeOK, ConsumeCode, Request, historyVars

LEMMA ReadPermsType ==
  ASSUME TypeOK, PresentsInv, ReadInv, NEW r \in Requests, ReadPerms(r)
  PROVE  TypeOK' /\ PresentsInv'
  <1>1. req[r].pc # "idle" /\ req[r].row \in Code /\ minted' = minted /\ minted \in Int
    BY RowType DEF ReadPerms, TypeOK
  <1>2. PICK x \in Found(req[r].client) :
          Continue(r, Task("perms", req[r].client, req[r].from, req[r].row,
                           FinalPerms(roles[req[r].row.user], x.perms, req[r].row.scope)))
    BY DEF ReadPerms
  <1>3. x.perms \in SUBSET Perms /\ req[r].row.scope \in SUBSET Perms
    BY <1>1 DEF Found, TypeOK, Client, Code
  <1>4. roles[req[r].row.user] \in SUBSET Perms
    BY RolesType DEF ReadPerms, Registered
  <1>5. FinalPerms(roles[req[r].row.user], x.perms, req[r].row.scope) \in SUBSET Perms
    BY <1>3, <1>4, FinalPermsCapped
  <1>6. req' \in [Requests -> Request] /\ PresentsInv'
    BY <1>1, <1>2, <1>5, NextTask, ContinueType DEF PC
  <1> QED
    BY <1>6, OnlyRequests DEF ReadPerms

LEMMA FindGrantType ==
  ASSUME TypeOK, PresentsInv, NEW r \in Requests, NEW c \in Clients, NEW i \in 1..minted,
         FindGrant(r, c, i)
  PROVE  TypeOK' /\ PresentsInv'
  <1>1. PICK g \in grants : Continue(r, Task("read", c, i, g, {}))
    BY DEF FindGrant, GrantsOf
  <1>2. g \in Grant /\ i \in 0..MaxId /\ minted' = minted /\ minted \in Int
    BY DEF TypeOK, FindGrant
  <1>3. Task("read", c, i, g, {}) \in Request /\ Presents(Task("read", c, i, g, {}))
    <2>1. Task("read", c, i, g, {}) \in Request
      BY <1>2, TaskType DEF PC
    <2> QED
      BY <2>1 DEF Presents, Task
  <1> QED
    BY <1>1, <1>2, <1>3, ContinueType, OnlyRequests DEF FindGrant

LEMMA RotateGrantType ==
  ASSUME TypeOK, PresentsInv, ReadInv, NEW r \in Requests, RotateGrant(r)
  PROVE  TypeOK' /\ PresentsInv'
  <1>1. /\ req[r].pc # "idle" /\ minted' = minted /\ minted \in Int
        /\ Continue(r, Task("rotated", req[r].client, req[r].from, req[r].row, {}))
    BY DEF RotateGrant, TypeOK
  <1>2. req' \in [Requests -> Request] /\ PresentsInv'
    BY <1>1, NextTask, ContinueType DEF PC
  <1>3. grants' \subseteq grants
    BY DEF RotateGrant
  <1> QED
    BY <1>2, <1>3 DEF TypeOK, RotateGrant, Request, historyVars

\* The grant that GrantCreate inserts.
NewGrant(r, u, perms) ==
  [id |-> minted + 1, client |-> req[r].client, user |-> u, perms |-> perms]

LEMMA GrantCreateType ==
  ASSUME TypeOK, PresentsInv, NEW r \in Requests, NEW u \in Users,
         NEW perms \in SUBSET Perms, req[r].pc # "idle", GrantCreate(r, u, perms)
  PROVE  TypeOK' /\ PresentsInv' /\ NewGrant(r, u, perms) \in Grant
  <1>1. /\ req[r].client \in Clients /\ req[r].from \in 1..minted /\ minted \in 0..MaxId
        /\ minted' = minted + 1 /\ minted + 1 \in Ids
    BY FreshId DEF PresentsInv, Presents, GrantCreate, TypeOK
  <1>2. NewGrant(r, u, perms) \in Grant
    BY <1>1 DEF Grant, NewGrant
  <1>3. req' \in [Requests -> Request] /\ PresentsInv'
    BY <1>1, FinishType DEF GrantCreate
  <1>4. <<req[r].from, minted + 1>> \in Ids \X Ids /\ minted' \in 0..MaxId
    BY <1>1 DEF Ids
  <1>5. /\ grants' = grants \cup {NewGrant(r, u, perms)}
        /\ given' = given \cup {NewGrant(r, u, perms)}
    BY DEF GrantCreate, NewGrant
  <1>6. TypeOK'
    BY <1>2, <1>3, <1>4, <1>5 DEF TypeOK, GrantCreate, Request
  <1> QED
    BY <1>2, <1>3, <1>6

LEMMA CodeGrantType ==
  ASSUME TypeOK, PresentsInv, ReadInv, NEW r \in Requests, CodeGrant(r)
  PROVE  TypeOK' /\ PresentsInv'
  <1>1. req[r] \in Request /\ req[r].row \in Code
    BY ReqType, RowType DEF CodeGrant
  <1> QED
    BY <1>1, GrantCreateType DEF CodeGrant, Request, Code

LEMMA RefreshGrantType ==
  ASSUME TypeOK, PresentsInv, ReadInv, NEW r \in Requests, RefreshGrant(r)
  PROVE  TypeOK' /\ PresentsInv'
  <1>1. req[r].row \in Grant
    BY RowType DEF RefreshGrant
  <1> QED
    BY <1>1, GrantCreateType DEF RefreshGrant, Grant

LEMMA FailType ==
  ASSUME TypeOK, PresentsInv, NEW r \in Requests, Fail(r)
  PROVE  TypeOK' /\ PresentsInv'
  BY FinishType, OnlyRequests DEF Fail, TypeOK

-----------------------------------------------------------------------------
(* Types: the user and the owner of the client *)

\* Requests are where they were.
LEMMA PresentsSame ==
  ASSUME PresentsInv, minted' = minted, req' = req
  PROVE  PresentsInv'
  BY DEF PresentsInv, Presents

LEMMA EndGrantsType ==
  ASSUME TypeOK, NEW gone \in SUBSET grants, EndGrants(gone)
  PROVE  grants' \subseteq Grant /\ cut' \subseteq Ids
  BY DEF TypeOK, EndGrants, Grant

LEMMA EditType == ASSUME TypeOK, Edit PROVE edits' \in 0..MaxEdits
  BY DEF TypeOK, Edit

\* A row in place of the one with its id.
LEMMA ReplaceClient ==
  ASSUME TypeOK, NEW x \in clients, NEW P \in SUBSET Perms, NEW known \in BOOLEAN,
         clients' = (clients \ {x}) \cup {ClientRow(x.id, x.owner, P, known)}
  PROVE  clients' \subseteq Client /\ \A y, z \in clients' : y.id = z.id => y = z
  <1>1. ClientRow(x.id, x.owner, P, known) \in Client
    BY DEF TypeOK, Client, ClientRow
  <1>2. ClientRow(x.id, x.owner, P, known).id = x.id
    BY DEF ClientRow
  <1> QED
    BY <1>1, <1>2 DEF TypeOK

LEMMA RevokeType ==
  ASSUME TypeOK, NEW u \in Users, NEW c \in Clients, Revoke(u, c)
  PROVE  TypeOK'
  <1>1. grants' \subseteq Grant /\ cut' \subseteq Ids
    BY EndGrantsType DEF Revoke
  <1> QED
    BY <1>1 DEF TypeOK, Revoke

LEMMA CreateClientType ==
  ASSUME TypeOK, NEW u \in Users, NEW c \in Clients, NEW P \in SUBSET Perms,
         CreateClient(u, c, P)
  PROVE  TypeOK'
  <1>1. ClientRow(c, u, P, TRUE) \in Client /\ ClientRow(c, u, P, TRUE).id = c
    BY DEF Client, ClientRow
  <1> QED
    BY <1>1 DEF TypeOK, CreateClient, historyVars

LEMMA UpdateClientType ==
  ASSUME TypeOK, NEW x \in clients, NEW P \in SUBSET Perms, UpdateClient(x, P)
  PROVE  TypeOK'
  <1>1. x.secretKnown \in BOOLEAN
    BY DEF TypeOK, Client
  <1>2. clients' \subseteq Client /\ \A y, z \in clients' : y.id = z.id => y = z
    BY <1>1, ReplaceClient DEF UpdateClient
  <1> QED
    BY <1>2, EditType DEF TypeOK, UpdateClient, historyVars

LEMMA RegenerateSecretType ==
  ASSUME TypeOK, NEW x \in clients, RegenerateSecret(x)
  PROVE  TypeOK'
  <1>1. x.perms \in SUBSET Perms
    BY DEF TypeOK, Client
  <1>2. clients' \subseteq Client /\ \A y, z \in clients' : y.id = z.id => y = z
    BY <1>1, ReplaceClient DEF RegenerateSecret, ChangeSecret
  <1>3. grants' \subseteq Grant /\ cut' \subseteq Ids
    BY EndGrantsType DEF RegenerateSecret
  <1> QED
    BY <1>2, <1>3, EditType DEF TypeOK, RegenerateSecret

LEMMA DeleteClientType ==
  ASSUME TypeOK, NEW x \in clients, DeleteClient(x)
  PROVE  TypeOK'
  <1>1. grants' \subseteq Grant /\ cut' \subseteq Ids
    BY EndGrantsType DEF DeleteClient
  <1> QED
    BY <1>1, EditType DEF TypeOK, DeleteClient

LEMMA UpdateRolesType ==
  ASSUME TypeOK, NEW u \in Users, NEW P \in SUBSET Perms, UpdateRoles(u, P)
  PROVE  TypeOK'
  <1>1. DOMAIN roles \in SUBSET Users /\ roles' \in [DOMAIN roles -> SUBSET Perms]
    BY RolesType DEF UpdateRoles
  <1>2. roles' \in UNION {[U -> SUBSET Perms] : U \in SUBSET Users}
    BY <1>1
  <1> QED
    BY <1>2, EditType DEF TypeOK, UpdateRoles, historyVars

LEMMA DeleteUserType ==
  ASSUME TypeOK, NEW u \in Users, DeleteUser(u)
  PROVE  TypeOK'
  <1>1. DOMAIN roles \in SUBSET Users /\ roles \in [DOMAIN roles -> SUBSET Perms]
    BY RolesType
  <1>2. /\ DOMAIN roles \ {u} \in SUBSET Users
        /\ roles' \in [DOMAIN roles \ {u} -> SUBSET Perms]
    BY <1>1 DEF DeleteUser
  <1>3. roles' \in UNION {[U -> SUBSET Perms] : U \in SUBSET Users}
    BY <1>2
  <1>4. grants' \subseteq Grant /\ cut' \subseteq Ids
    BY EndGrantsType DEF DeleteUser
  <1>5. clients' \subseteq clients /\ codes' \subseteq codes
    BY DEF DeleteUser
  <1> QED
    BY <1>3, <1>4, <1>5 DEF TypeOK, DeleteUser

LEMMA JwtStateType ==
  ASSUME TypeOK, NEW i \in Ids, JwtStateNamed(i) \/ JwtStateRemoved(i)
  PROVE  TypeOK'
  <1>1. CASE JwtStateNamed(i)
    BY <1>1, EditType DEF TypeOK, JwtStateNamed
  <1>2. CASE JwtStateRemoved(i)
    BY <1>2 DEF TypeOK, JwtStateRemoved, historyVars
  <1> QED
    BY <1>1, <1>2

LEMMA ManagedRow ==
  ASSUME NEW u, NEW c, NEW x \in Managed(u, c)
  PROVE  x \in clients /\ x.id = c /\ x.owner = u
  BY DEF Managed, Found

-----------------------------------------------------------------------------
(* Ids and rows *)

\* A step that makes no code and no grant.
LEMMA NothingMade ==
  ASSUME IdsInv, RowsInv, UNCHANGED <<minted, asked, given, lineage>>,
         codes' \subseteq codes, grants' \subseteq grants,
         \A i \in cut' : i \in cut \/ \E g \in grants : g.id = i,
         states' \subseteq named'
  PROVE  IdsInv' /\ RowsInv'
  <1>1. IdsInv'
    BY DEF IdsInv
  <1>2. RowsInv'
    BY DEF RowsInv
  <1> QED
    BY <1>1, <1>2

LEMMA EndGrantsRows ==
  ASSUME NEW gone \in SUBSET grants, EndGrants(gone)
  PROVE  /\ grants' = grants \ gone
         /\ \A i \in cut' : i \in cut \/ \E g \in gone : g.id = i
         /\ \A i \in cut' : i \in cut \/ \E g \in grants : g.id = i
         /\ cut \subseteq cut'
         /\ \A g \in gone : g.id \in cut'
  BY DEF EndGrants

LEMMA AuthorizeRows ==
  ASSUME TypeOK, IdsInv, RowsInv, NEW u \in Users, NEW c \in Clients,
         NEW s \in SUBSET Perms, Authorize(u, c, s)
  PROVE  IdsInv' /\ RowsInv'
  <1> DEFINE code == CodeRow(minted + 1, c, u, s, TRUE)
  <1>1. code.id = minted + 1 /\ minted \in Nat /\ minted' = minted + 1
    BY FreshId DEF CodeRow, Authorize
  <1>2. codes' = codes \cup {code} /\ asked' = asked \cup {code}
    BY DEF Authorize
  <1>3. UNCHANGED <<grants, states, given, lineage, cut, named>>
    BY DEF Authorize
  <1> HIDE DEF code
  <1>4. IdsInv'
    BY <1>1, <1>2, <1>3 DEF IdsInv
  <1>5. RowsInv'
    BY <1>2, <1>3 DEF RowsInv, SameCode
  <1> QED
    BY <1>4, <1>5

LEMMA CodeExpiresRows ==
  ASSUME IdsInv, RowsInv, NEW c \in codes, CodeExpires(c)
  PROVE  IdsInv' /\ RowsInv'
  <1>1. SameCode(c, CodeRow(c.id, c.client, c.user, c.scope, FALSE))
    BY DEF SameCode, CodeRow
  <1>2. IdsInv'
    BY DEF IdsInv, CodeExpires, historyVars
  <1>3. PICK a \in asked : SameCode(a, c)
    BY DEF RowsInv
  <1>4. SameCode(a, CodeRow(c.id, c.client, c.user, c.scope, FALSE))
    BY <1>1, <1>3 DEF SameCode
  <1>5. \A x \in codes' : \E b \in asked : SameCode(b, x)
    BY <1>4 DEF CodeExpires, RowsInv
  <1>6. RowsInv'
    BY <1>5 DEF RowsInv, CodeExpires, historyVars
  <1> QED
    BY <1>2, <1>6

LEMMA GrantCreateRows ==
  ASSUME TypeOK, PresentsInv, IdsInv, RowsInv, NEW r \in Requests, req[r].pc # "idle",
         NEW u, NEW perms, GrantCreate(r, u, perms)
  PROVE  IdsInv' /\ RowsInv'
  <1> DEFINE g == NewGrant(r, u, perms)
  <1>1. g.id = minted + 1 /\ minted \in Nat /\ minted' = minted + 1
    BY FreshId DEF NewGrant, GrantCreate
  <1>2. grants' = grants \cup {g} /\ given' = given \cup {g}
    BY DEF GrantCreate, NewGrant
  <1>3. req[r].from \in 1..minted
    BY DEF PresentsInv, Presents
  <1>4. /\ lineage' = lineage \cup {<<req[r].from, minted + 1>>}
        /\ UNCHANGED <<codes, states, asked, cut, named>>
    BY DEF GrantCreate
  <1> HIDE DEF g
  <1>5. lineage' \subseteq (1..minted') \X (1..minted')
    BY <1>1, <1>3, <1>4 DEF IdsInv
  <1>6. IdsInv'
    BY <1>1, <1>2, <1>4, <1>5 DEF IdsInv
  <1>7. RowsInv'
    BY <1>2, <1>4 DEF RowsInv
  <1> QED
    BY <1>6, <1>7

\* What one request has read, when it goes on with the record q.
LEMMA ContinueRead ==
  ASSUME TypeOK, ReadInv, asked \subseteq asked', given \subseteq given',
         named \subseteq named', NEW r \in Requests, NEW q,
         ReadOK(q, asked', given', named'), Continue(r, q)
  PROVE  ReadInv'
  <1>1. \A s \in Requests : req'[s] = IF s = r THEN q ELSE req[s]
    BY ReqType DEF Continue
  <1>2. ASSUME NEW s \in Requests PROVE ReadOK(req[s], asked', given', named')
    BY DEF ReadInv, ReadOK, ReadCode, ReadGrant
  <1>3. ASSUME NEW s \in Requests PROVE ReadOK(req'[s], asked', given', named')
    BY <1>1, <1>2
  <1> QED
    BY <1>3 DEF ReadInv

LEMMA FinishRead ==
  ASSUME TypeOK, ReadInv, asked \subseteq asked', given \subseteq given',
         named \subseteq named', NEW r \in Requests, Finish(r)
  PROVE  ReadInv'
  <1>1. ReadOK(Idle, asked', given', named')
    BY DEF ReadOK, ReadCode, ReadGrant, Idle, Task
  <1> QED
    BY <1>1, ContinueRead DEF Finish

LEMMA SameRead ==
  ASSUME ReadInv, asked \subseteq asked', given \subseteq given', named \subseteq named',
         req' = req
  PROVE  ReadInv'
  BY DEF ReadInv, ReadOK, ReadCode, ReadGrant

LEMMA FindCodeRead ==
  ASSUME TypeOK, ReadInv, RowsInv, NEW r \in Requests, NEW c \in Clients,
         NEW code \in codes, FindCode(r, c, code)
  PROVE  ReadInv'
  <1>1. code \in Code /\ \E a \in asked : SameCode(a, code)
    BY DEF TypeOK, RowsInv
  <1>2. ReadOK(Task("found", c, code.id, code, {}), asked, given, named)
    BY <1>1 DEF ReadOK, ReadCode, ReadGrant, Task
  <1> QED
    BY <1>2, ContinueRead DEF FindCode, historyVars

LEMMA ConsumeCodeRead ==
  ASSUME TypeOK, ReadInv, NEW r \in Requests, ConsumeCode(r)
  PROVE  ReadInv'
  <1> DEFINE q == Task("consumed", req[r].client, req[r].from, req[r].row, {})
  <1>1. req[r].pc = "found" /\ UNCHANGED historyVars
    BY DEF ConsumeCode
  <1>2. ASSUME req[r].row.client = req[r].client PROVE ReadOK(q, asked, given, named)
    BY <1>1, <1>2 DEF ReadInv, ReadOK, ReadCode, ReadGrant, Task
  <1>3. (req[r].row.client = req[r].client /\ Continue(r, q)) \/ Finish(r)
    BY DEF ConsumeCode
  <1> QED
    BY <1>1, <1>2, <1>3, ContinueRead, FinishRead DEF historyVars

LEMMA ReadPermsRead ==
  ASSUME TypeOK, ReadInv, NEW r \in Requests, ReadPerms(r)
  PROVE  ReadInv'
  <1>1. /\ req[r].pc = "consumed" /\ req[r].row \in Code /\ UNCHANGED historyVars
    BY RowType DEF ReadPerms
  <1>2. PICK x \in Found(req[r].client) :
          Continue(r, Task("perms", req[r].client, req[r].from, req[r].row,
                           FinalPerms(roles[req[r].row.user], x.perms, req[r].row.scope)))
    BY DEF ReadPerms
  <1> DEFINE P == FinalPerms(roles[req[r].row.user], x.perms, req[r].row.scope)
             q == Task("perms", req[r].client, req[r].from, req[r].row, P)
  <1>3. x.perms \in SUBSET Perms /\ req[r].row.scope \in SUBSET Perms
    BY <1>1 DEF Found, TypeOK, Client, Code
  <1>4. roles[req[r].row.user] \in SUBSET Perms
    BY RolesType DEF ReadPerms, Registered
  <1>5. P \subseteq req[r].row.scope
    BY <1>3, <1>4, FinalPermsCapped
  <1> HIDE DEF P
  <1>6. ReadOK(q, asked, given, named)
    BY <1>1, <1>5 DEF ReadInv, ReadOK, ReadCode, ReadGrant, Task
  <1>7. Continue(r, q)
    BY <1>2 DEF P
  <1> HIDE DEF q
  <1> QED
    BY <1>1, <1>6, <1>7, ContinueRead DEF historyVars

LEMMA FindGrantRead ==
  ASSUME TypeOK, ReadInv, RowsInv, NEW r \in Requests, NEW c \in Clients, NEW i,
         FindGrant(r, c, i)
  PROVE  ReadInv'
  <1>1. PICK g \in GrantsOf(i) : g.client = c /\ Continue(r, Task("read", c, i, g, {}))
    BY DEF FindGrant
  <1>2. g \in given /\ g.id = i /\ i \in named
    BY DEF GrantsOf, RowsInv, FindGrant
  <1>3. ReadOK(Task("read", c, i, g, {}), asked, given, named)
    BY <1>1, <1>2 DEF ReadOK, ReadCode, ReadGrant, Task
  <1> QED
    BY <1>1, <1>3, ContinueRead DEF FindGrant, historyVars

LEMMA RotateGrantRead ==
  ASSUME TypeOK, ReadInv, NEW r \in Requests, RotateGrant(r)
  PROVE  ReadInv'
  <1> DEFINE q == Task("rotated", req[r].client, req[r].from, req[r].row, {})
  <1>1. req[r].pc = "read" /\ Continue(r, q) /\ UNCHANGED historyVars
    BY DEF RotateGrant
  <1>2. ReadOK(q, asked, given, named)
    BY <1>1 DEF ReadInv, ReadOK, ReadCode, ReadGrant, Task
  <1> QED
    BY <1>1, <1>2, ContinueRead DEF historyVars

LEMMA GrantCreateRead ==
  ASSUME TypeOK, ReadInv, NEW r \in Requests, NEW u, NEW perms, GrantCreate(r, u, perms)
  PROVE  ReadInv'
  BY FinishRead DEF GrantCreate

-----------------------------------------------------------------------------
(* Credentials that are gone *)

LEMMA HoldsId ==
  ASSUME TypeOK, PresentsInv, NEW r \in Requests, NEW i, Holds(r, i)
  PROVE  i \in 1..minted /\ i \in Ids /\ req[r].pc # "idle"
  <1>1. req[r].pc # "idle"
    BY DEF Holds, Taken
  <1> QED
    BY <1>1 DEF PresentsInv, Presents, Holds, TypeOK, Ids

\* Holds after a step of one request.
LEMMA ContinueHolds ==
  ASSUME TypeOK, NEW r \in Requests, NEW q, Continue(r, q), NEW s \in Requests, NEW i
  PROVE  Holds(s, i)' <=> IF s = r THEN q.pc \in Taken /\ q.from = i ELSE Holds(s, i)
  <1>1. req'[s] = IF s = r THEN q ELSE req[s]
    BY ReqType DEF Continue
  <1> QED
    BY <1>1 DEF Holds

LEMMA FinishHolds ==
  ASSUME TypeOK, NEW r \in Requests, Finish(r), NEW s \in Requests, NEW i
  PROVE  Holds(s, i)' <=> s # r /\ Holds(s, i)
  BY ContinueHolds DEF Finish, Idle, Task, Taken

\* A step that takes nothing: old ids stay gone, and what is revoked was in its
\* table until then.
LEMMA NothingTaken ==
  ASSUME TypeOK, PresentsInv, IdsInv, TakenInv, SpentInv, lineage' = lineage,
         \A i \in 1..minted : Open(i)' => Open(i),
         \A i \in cut' : i \in cut \/ Open(i),
         \A r \in Requests, i \in Ids : Holds(r, i)' => Holds(r, i)
  PROVE  TakenInv' /\ SpentInv'
  <1>1. \A i \in 1..minted : Gone(i) => Gone(i)'
    BY DEF Gone
  <1>2. ASSUME NEW r \in Requests, NEW i \in Ids, Holds(r, i)'
        PROVE  Gone(i)' /\ \A l \in lineage' : l[1] # i
    BY <1>1, <1>2, HoldsId DEF TakenInv
  <1>3. SpentInv'
    BY <1>1 DEF SpentInv, IdsInv
  <1> QED
    BY <1>2, <1>3 DEF TakenInv

\* A step in which request r takes i from its table.
LEMMA OneTaken ==
  ASSUME TypeOK, PresentsInv, IdsInv, TakenInv, SpentInv, CutInv,
         lineage' = lineage, cut' = cut,
         NEW r \in Requests, NEW i \in Ids, Open(i), i \notin cut, ~ Open(i)',
         \A j \in 1..minted : Open(j)' => Open(j),
         \A s \in Requests, j \in Ids :
           Holds(s, j)' => Holds(s, j) \/ (s = r /\ j = i)
  PROVE  TakenInv' /\ SpentInv'
  <1>1. \A j \in 1..minted : Gone(j) => Gone(j)'
    BY DEF Gone
  <1>2. Gone(i)' /\ ~ Gone(i)
    BY DEF Gone
  <1>3. \A l \in lineage : l[1] # i
    BY <1>2 DEF SpentInv
  <1>4. \A s \in Requests : ~ Holds(s, i)
    BY <1>2 DEF TakenInv
  <1>5. ASSUME NEW s \in Requests, NEW j \in Ids, Holds(s, j)'
        PROVE  Gone(j)' /\ \A l \in lineage' : l[1] # j
    BY <1>1, <1>2, <1>3, <1>5, HoldsId DEF TakenInv
  <1>6. ASSUME NEW s \in Requests, NEW t \in Requests, NEW j \in Ids,
               Holds(s, j)', Holds(t, j)'
        PROVE  s = t
    BY <1>4, <1>6 DEF TakenInv
  <1>7. SpentInv'
    BY <1>1 DEF SpentInv, IdsInv
  <1> QED
    BY <1>5, <1>6, <1>7 DEF TakenInv

\* A step in which request r exchanges i for a grant with a new id.
LEMMA OneExchanged ==
  ASSUME TypeOK, PresentsInv, IdsInv, TakenInv, SpentInv, cut' = cut,
         NEW r \in Requests, NEW i \in Ids, Holds(r, i), NEW n,
         lineage' = lineage \cup {<<i, n>>},
         \A j \in 1..minted : Open(j)' => Open(j),
         \A s \in Requests, j \in Ids : Holds(s, j)' => s # r /\ Holds(s, j)
  PROVE  TakenInv' /\ SpentInv'
  <1>1. \A j \in 1..minted : Gone(j) => Gone(j)'
    BY DEF Gone
  <1>2. Gone(i)'
    BY <1>1, HoldsId DEF TakenInv
  <1>3. ASSUME NEW s \in Requests, NEW j \in Ids, Holds(s, j)'
        PROVE  Gone(j)' /\ j # i /\ \A l \in lineage : l[1] # j
    BY <1>1, <1>3, HoldsId DEF TakenInv
  <1>4. ASSUME NEW s \in Requests, NEW j \in Ids, Holds(s, j)'
        PROVE  \A l \in lineage' : l[1] # j
    BY <1>3, <1>4
  <1>5. TakenInv'
    BY <1>3, <1>4 DEF TakenInv
  <1>6. SpentInv'
    BY <1>1, <1>2 DEF SpentInv, IdsInv
  <1> QED
    BY <1>5, <1>6

LEMMA SameHolds ==
  ASSUME req' = req
  PROVE  \A r \in Requests, i \in Ids : Holds(r, i)' <=> Holds(r, i)
  BY DEF Holds

LEMMA AuthorizeTaken ==
  ASSUME TypeOK, PresentsInv, IdsInv, TakenInv, SpentInv, CutInv,
         NEW u, NEW c, NEW s, Authorize(u, c, s)
  PROVE  TakenInv' /\ SpentInv' /\ CutInv'
  <1>1. minted \in Nat /\ codes' = codes \cup {CodeRow(minted + 1, c, u, s, TRUE)}
    BY FreshId DEF Authorize
  <1>2. \A i \in 1..minted : Open(i)' => Open(i)
    BY <1>1 DEF Open, CodeRow, Authorize
  <1>3. TakenInv' /\ SpentInv'
    BY <1>2, NothingTaken, SameHolds DEF Authorize
  <1> QED
    BY <1>3 DEF CutInv, Authorize

LEMMA CodeExpiresTaken ==
  ASSUME TypeOK, PresentsInv, IdsInv, TakenInv, SpentInv, CutInv,
         NEW c \in codes, CodeExpires(c)
  PROVE  TakenInv' /\ SpentInv' /\ CutInv'
  <1>1. \A i \in 1..minted : Open(i)' => Open(i)
    BY DEF Open, CodeRow, CodeExpires
  <1>2. TakenInv' /\ SpentInv'
    BY <1>1, NothingTaken, SameHolds DEF CodeExpires, historyVars
  <1> QED
    BY <1>2 DEF CutInv, CodeExpires, historyVars

\* Steps that leave the tables of codes and grants alone and take nothing.
LEMMA QuietTaken ==
  ASSUME TypeOK, PresentsInv, IdsInv, TakenInv, SpentInv, CutInv,
         UNCHANGED <<codes, grants, lineage, cut>>,
         \A r \in Requests, i \in Ids : Holds(r, i)' => Holds(r, i)
  PROVE  TakenInv' /\ SpentInv' /\ CutInv'
  <1>1. \A i \in 1..minted : Open(i)' => Open(i)
    BY DEF Open
  <1>2. TakenInv' /\ SpentInv'
    BY <1>1, NothingTaken
  <1> QED
    BY <1>2 DEF CutInv

\* Steps by which grants end, and codes with them.
LEMMA EndGrantsTaken ==
  ASSUME TypeOK, PresentsInv, IdsInv, RowsInv, TakenInv, SpentInv, CutInv,
         NEW gone \in SUBSET grants, EndGrants(gone), codes' \subseteq codes,
         UNCHANGED <<req, lineage>>
  PROVE  TakenInv' /\ SpentInv' /\ CutInv'
  <1>1. \A i \in 1..minted : Open(i)' => Open(i)
    BY EndGrantsRows DEF Open
  <1>2. \A i \in cut' : i \in cut \/ Open(i)
    BY EndGrantsRows DEF Open
  <1>3. TakenInv' /\ SpentInv'
    BY <1>1, <1>2, NothingTaken, SameHolds
  <1>4. ASSUME NEW g \in grants' PROVE g.id \notin cut'
    BY EndGrantsRows DEF CutInv, RowsInv, IdsInv
  <1> QED
    BY <1>3, <1>4 DEF CutInv

LEMMA FindTaken ==
  ASSUME TypeOK, NEW r \in Requests, NEW q, Continue(r, q), q.pc \notin Taken
  PROVE  \A s \in Requests, i \in Ids : Holds(s, i)' => Holds(s, i)
  BY ContinueHolds

LEMMA ConsumeCodeTaken ==
  ASSUME TypeOK, PresentsInv, IdsInv, RowsInv, TakenInv, SpentInv, CutInv,
         NEW r \in Requests, ConsumeCode(r)
  PROVE  TakenInv' /\ SpentInv' /\ CutInv'
  <1>0. PICK i \in 0..MaxId : i = req[r].from
    BY ReqType DEF Request
  <1> DEFINE q == Task("consumed", req[r].client, i, req[r].row, {})
  <1>1. /\ req[r].pc = "found"
        /\ \E x \in codes : x.id = i
        /\ codes' = {x \in codes : x.id # i}
        /\ Continue(r, q) \/ Finish(r)
        /\ UNCHANGED <<grants, lineage, cut>>
    BY <1>0 DEF ConsumeCode, historyVars
  <1>2. PICK a \in asked : a.id = i
    BY <1>1 DEF RowsInv, SameCode
  <1>3. \A g \in given : g.id # i
    BY <1>2 DEF IdsInv
  <1>4. Open(i) /\ i \notin cut /\ i \in Ids
    BY <1>1, <1>2, <1>3 DEF Open, RowsInv, TypeOK, Code
  <1>5. ~ Open(i)' 
    BY <1>1, <1>3 DEF Open, RowsInv
  <1>6. \A j \in 1..minted : Open(j)' => Open(j)
    BY <1>1 DEF Open
  <1>7. \A s \in Requests, j \in Ids : Holds(s, j)' => Holds(s, j) \/ (s = r /\ j = i)
    BY <1>1, ContinueHolds, FinishHolds DEF Task
  <1>8. TakenInv' /\ SpentInv'
    BY <1>1, <1>4, <1>5, <1>6, <1>7, OneTaken
  <1> QED
    BY <1>1, <1>8 DEF CutInv

LEMMA RotateGrantTaken ==
  ASSUME TypeOK, PresentsInv, IdsInv, RowsInv, TakenInv, SpentInv, CutInv,
         NEW r \in Requests, RotateGrant(r)
  PROVE  TakenInv' /\ SpentInv' /\ CutInv'
  <1>0. PICK i \in 0..MaxId : i = req[r].from
    BY ReqType DEF Request
  <1> DEFINE q == Task("rotated", req[r].client, i, req[r].row, {})
  <1>1. /\ GrantsOf(i) # {}
        /\ grants' = {g \in grants : g.id # i}
        /\ Continue(r, q)
        /\ UNCHANGED <<codes, lineage, cut>>
    BY <1>0 DEF RotateGrant, historyVars
  <1>2. PICK g \in grants : g.id = i
    BY <1>1 DEF GrantsOf
  <1>3. \A x \in codes : x.id # i
    BY <1>2 DEF IdsInv, RowsInv, SameCode
  <1>4. Open(i) /\ i \notin cut /\ i \in Ids
    BY <1>2 DEF Open, CutInv, TypeOK, Grant
  <1>5. ~ Open(i)' 
    BY <1>1, <1>3 DEF Open
  <1>6. \A j \in 1..minted : Open(j)' => Open(j)
    BY <1>1 DEF Open
  <1>7. \A s \in Requests, j \in Ids : Holds(s, j)' => Holds(s, j) \/ (s = r /\ j = i)
    BY <1>1, ContinueHolds DEF Task
  <1>8. TakenInv' /\ SpentInv'
    BY <1>1, <1>4, <1>5, <1>6, <1>7, OneTaken
  <1> QED
    BY <1>1, <1>8 DEF CutInv

LEMMA GrantCreateTaken ==
  ASSUME TypeOK, PresentsInv, IdsInv, RowsInv, TakenInv, SpentInv, CutInv,
         NEW r \in Requests, req[r].pc \in Taken, NEW u, NEW perms,
         GrantCreate(r, u, perms)
  PROVE  TakenInv' /\ SpentInv' /\ CutInv'
  <1> DEFINE i == req[r].from
  <1>1. Holds(r, i)
    BY DEF Holds
  <1>2. /\ grants' = grants \cup {NewGrant(r, u, perms)}
        /\ NewGrant(r, u, perms).id = minted + 1 /\ minted \in Nat
        /\ lineage' = lineage \cup {<<i, minted + 1>>}
        /\ Finish(r)
        /\ UNCHANGED <<codes, cut>>
    BY FreshId DEF GrantCreate, NewGrant
  <1>3. \A j \in 1..minted : Open(j)' => Open(j)
    BY <1>2 DEF Open
  <1>4. \A s \in Requests, j \in Ids : Holds(s, j)' => s # r /\ Holds(s, j)
    BY <1>2, FinishHolds
  <1>5. i \in Ids
    BY <1>1, HoldsId
  <1>6. TakenInv' /\ SpentInv'
    BY <1>1, <1>2, <1>3, <1>4, <1>5, OneExchanged
  <1>7. minted + 1 \notin cut
    BY <1>2 DEF IdsInv, RowsInv
  <1> QED
    BY <1>2, <1>6, <1>7 DEF CutInv

-----------------------------------------------------------------------------
(* The invariant is inductive *)

LEMMA InitIInv == ASSUME Init PROVE IInv
  <1>1. TypeOK /\ PresentsInv
    BY InitType
  <1>2. IdsInv /\ RowsInv /\ SpentInv /\ CutInv
    BY DEF Init, IdsInv, RowsInv, SpentInv, CutInv
  <1>3. \A r \in Requests : req[r] = Idle
    BY DEF Init
  <1>4. ReadInv
    BY <1>3 DEF ReadInv, ReadOK, ReadCode, ReadGrant, Idle, Task
  <1>5. TakenInv
    BY <1>3 DEF TakenInv, Holds, Idle, Task, Taken
  <1> QED
    BY <1>1, <1>2, <1>4, <1>5 DEF IInv

\* The steps of an exchange.
LEMMA ExchangeIInv ==
  ASSUME IInv, NEW r \in Requests, Exchange(r)
  PROVE  IInv'
  <1> USE DEF IInv
  <1>1. ASSUME NEW c \in Clients, NEW code \in codes, FindCode(r, c, code) PROVE IInv'
    <2>1. TypeOK' /\ PresentsInv' /\ ReadInv'
      BY <1>1, FindCodeType, FindCodeRead
    <2>2. IdsInv' /\ RowsInv'
      BY <1>1, NothingMade DEF FindCode, historyVars, RowsInv
    <2>3. TakenInv' /\ SpentInv' /\ CutInv'
      <3>1. Continue(r, Task("found", c, code.id, code, {}))
        BY <1>1 DEF FindCode
      <3>2. \A s \in Requests, i \in Ids : Holds(s, i)' => Holds(s, i)
        BY <3>1, FindTaken DEF Task, Taken
      <3> QED
        BY <1>1, <3>2, QuietTaken DEF FindCode, historyVars
    <2> QED
      BY <2>1, <2>2, <2>3
  <1>2. ASSUME ConsumeCode(r) PROVE IInv'
    <2>1. TypeOK' /\ PresentsInv' /\ ReadInv'
      BY <1>2, ConsumeCodeType, ConsumeCodeRead
    <2>2. IdsInv' /\ RowsInv'
      <3>1. codes' \subseteq codes /\ UNCHANGED <<grants, states, minted, historyVars>>
        BY <1>2 DEF ConsumeCode
      <3> QED
        BY <3>1, NothingMade DEF historyVars, RowsInv
    <2> QED
      BY <1>2, <2>1, <2>2, ConsumeCodeTaken
  <1>3. ASSUME ReadPerms(r) PROVE IInv'
    <2>1. TypeOK' /\ PresentsInv' /\ ReadInv'
      BY <1>3, ReadPermsType, ReadPermsRead
    <2>2. IdsInv' /\ RowsInv'
      BY <1>3, NothingMade DEF ReadPerms, historyVars, RowsInv
    <2>3. TakenInv' /\ SpentInv' /\ CutInv'
      <3>1. PICK P : Continue(r, Task("perms", req[r].client, req[r].from, req[r].row, P))
        BY <1>3 DEF ReadPerms
      <3>2. \A s \in Requests, i \in Ids : Holds(s, i)' => Holds(s, i)
        BY <1>3, <3>1, ContinueHolds DEF Task, Holds, Taken, ReadPerms
      <3> QED
        BY <1>3, <3>2, QuietTaken DEF ReadPerms, historyVars
    <2> QED
      BY <2>1, <2>2, <2>3
  <1>4. ASSUME CodeGrant(r) PROVE IInv'
    <2>1. /\ req[r].pc # "idle" /\ req[r].pc \in Taken
          /\ GrantCreate(r, req[r].row.user, req[r].perms)
      BY <1>4 DEF CodeGrant, Taken
    <2> QED
      BY <1>4, <2>1, CodeGrantType, GrantCreateRows, GrantCreateRead, GrantCreateTaken
  <1>5. ASSUME NEW c \in Clients, NEW i \in 1..minted, FindGrant(r, c, i) PROVE IInv'
    <2>1. TypeOK' /\ PresentsInv' /\ ReadInv'
      BY <1>5, FindGrantType, FindGrantRead
    <2>2. IdsInv' /\ RowsInv'
      BY <1>5, NothingMade DEF FindGrant, historyVars, RowsInv
    <2>3. TakenInv' /\ SpentInv' /\ CutInv'
      <3>1. PICK g : Continue(r, Task("read", c, i, g, {}))
        BY <1>5 DEF FindGrant
      <3>2. \A s \in Requests, j \in Ids : Holds(s, j)' => Holds(s, j)
        BY <3>1, FindTaken DEF Task, Taken
      <3> QED
        BY <1>5, <3>2, QuietTaken DEF FindGrant, historyVars
    <2> QED
      BY <2>1, <2>2, <2>3
  <1>6. ASSUME RotateGrant(r) PROVE IInv'
    <2>1. TypeOK' /\ PresentsInv' /\ ReadInv'
      BY <1>6, RotateGrantType, RotateGrantRead
    <2>2. IdsInv' /\ RowsInv'
      <3>1. grants' \subseteq grants /\ UNCHANGED <<codes, states, minted, historyVars>>
        BY <1>6 DEF RotateGrant
      <3> QED
        BY <3>1, NothingMade DEF historyVars, RowsInv
    <2> QED
      BY <1>6, <2>1, <2>2, RotateGrantTaken
  <1>7. ASSUME RefreshGrant(r) PROVE IInv'
    <2>1. /\ req[r].pc # "idle" /\ req[r].pc \in Taken
          /\ GrantCreate(r, req[r].row.user, req[r].row.perms)
      BY <1>7 DEF RefreshGrant, Taken
    <2> QED
      BY <1>7, <2>1, RefreshGrantType, GrantCreateRows, GrantCreateRead, GrantCreateTaken
  <1>8. ASSUME Fail(r) PROVE IInv'
    <2>1. TypeOK' /\ PresentsInv' /\ ReadInv'
      BY <1>8, FailType, FinishRead DEF Fail, historyVars
    <2>2. IdsInv' /\ RowsInv'
      BY <1>8, NothingMade DEF Fail, historyVars, RowsInv
    <2>3. TakenInv' /\ SpentInv' /\ CutInv'
      BY <1>8, FinishHolds, QuietTaken DEF Fail, historyVars
    <2> QED
      BY <2>1, <2>2, <2>3
  <1> QED
    BY <1>1, <1>2, <1>3, <1>4, <1>5, <1>6, <1>7, <1>8 DEF Exchange

\* The parts that hold whatever happens to users, clients and JWTState rows.
LEMMA OutsideIInv ==
  ASSUME IInv, TypeOK',
         UNCHANGED <<codes, grants, minted, req, asked, given, lineage, cut>>,
         named \subseteq named', states' \subseteq named'
  PROVE  IInv'
  <1>1. PresentsInv' /\ IdsInv' /\ RowsInv' /\ ReadInv'
    BY PresentsSame, NothingMade, SameRead DEF IInv
  <1>2. TakenInv' /\ SpentInv' /\ CutInv'
    BY QuietTaken, SameHolds DEF IInv
  <1> QED
    BY <1>1, <1>2 DEF IInv

LEMMA EndingIInv ==
  ASSUME IInv, TypeOK', NEW gone \in SUBSET grants, EndGrants(gone),
         codes' \subseteq codes,
         UNCHANGED <<minted, req, asked, given, lineage, states, named>>
  PROVE  IInv'
  <1>1. IdsInv' /\ RowsInv'
    BY EndGrantsRows, NothingMade DEF IInv, RowsInv
  <1>2. PresentsInv' /\ ReadInv'
    BY PresentsSame, SameRead DEF IInv
  <1>3. TakenInv' /\ SpentInv' /\ CutInv'
    BY EndGrantsTaken DEF IInv
  <1> QED
    BY <1>1, <1>2, <1>3 DEF IInv

LEMMA NextIInv ==
  ASSUME IInv, [Next]_oauthVars
  PROVE  IInv'
  <1> USE DEF IInv
  <1>1. ASSUME NEW u \in Users, NEW c \in Clients, NEW s \in SUBSET Perms,
               Authorize(u, c, s)
        PROVE  IInv'
    <2>1. ReadInv'
      BY <1>1, SameRead DEF Authorize
    <2> QED
      BY <1>1, <2>1, AuthorizeType, AuthorizeRows, AuthorizeTaken
  <1>2. ASSUME NEW c \in codes, CodeExpires(c) PROVE IInv'
    <2>1. ReadInv'
      BY <1>2, SameRead DEF CodeExpires, historyVars
    <2> QED
      BY <1>2, <2>1, CodeExpiresType, CodeExpiresRows, CodeExpiresTaken
  <1>3. ASSUME NEW u \in Users, NEW c \in Clients, Revoke(u, c) PROVE IInv'
    BY <1>3, RevokeType, EndingIInv DEF Revoke
  <1>4. ASSUME NEW u \in Users, NEW c \in Clients, NEW P \in SUBSET Perms,
               CreateClient(u, c, P)
        PROVE  IInv'
    BY <1>4, CreateClientType, OutsideIInv DEF CreateClient, historyVars, RowsInv
  <1>5. ASSUME NEW x \in clients, RegenerateSecret(x) PROVE IInv'
    BY <1>5, RegenerateSecretType, EndingIInv DEF RegenerateSecret
  <1>6. ASSUME NEW x \in clients, DeleteClient(x) PROVE IInv'
    BY <1>6, DeleteClientType, EndingIInv DEF DeleteClient
  <1>7. ASSUME NEW x \in clients, NEW P \in SUBSET Perms, UpdateClient(x, P) PROVE IInv'
    BY <1>7, UpdateClientType, OutsideIInv DEF UpdateClient, historyVars, RowsInv
  <1>8. ASSUME NEW u \in Users, NEW P \in SUBSET Perms, UpdateRoles(u, P) PROVE IInv'
    BY <1>8, UpdateRolesType, OutsideIInv DEF UpdateRoles, historyVars, RowsInv
  <1>9. ASSUME NEW u \in Users, DeleteUser(u) PROVE IInv'
    <2>1. PICK gone \in SUBSET grants : EndGrants(gone)
      BY <1>9 DEF DeleteUser
    <2>2. codes' \subseteq codes
      BY <1>9 DEF DeleteUser
    <2> QED
      BY <1>9, <2>1, <2>2, DeleteUserType, EndingIInv DEF DeleteUser
  <1>10. ASSUME NEW g \in given, JwtStateNamed(g.id) PROVE IInv'
    <2>1. g.id \in Ids
      BY DEF TypeOK, Grant
    <2>2. named \subseteq named' /\ states' \subseteq named'
      BY <1>10 DEF JwtStateNamed, RowsInv
    <2> QED
      BY <1>10, <2>1, <2>2, JwtStateType, OutsideIInv DEF JwtStateNamed
  <1>11. ASSUME NEW i \in states, JwtStateRemoved(i) PROVE IInv'
    <2>1. i \in Ids
      BY DEF TypeOK
    <2>2. states' \subseteq named'
      BY <1>11 DEF JwtStateRemoved, RowsInv, historyVars
    <2> QED
      BY <1>11, <2>1, <2>2, JwtStateType, OutsideIInv DEF JwtStateRemoved, historyVars
  <1>12. ASSUME UNCHANGED oauthVars PROVE IInv'
    <2>1. TypeOK'
      BY <1>12 DEF oauthVars, historyVars, TypeOK
    <2> QED
      BY <1>12, <2>1, OutsideIInv DEF oauthVars, historyVars, RowsInv
  <1>13. CASE Next
    <2>1. ASSUME NEW u \in Users, NEW c \in Clients, NEW x \in Managed(u, c),
                 RegenerateSecret(x) \/ DeleteClient(x)
                   \/ \E P \in SUBSET Perms : UpdateClient(x, P)
          PROVE  IInv'
      BY <2>1, <1>5, <1>6, <1>7, ManagedRow
    <2> QED
      BY <1>1, <1>2, <1>3, <1>4, <2>1, <1>8, <1>9, <1>10, <1>11, <1>13, ExchangeIInv
      DEF Next
  <1> QED
    BY <1>12, <1>13

\* The invariant that carries the safety of the provider: ids are unique, the
\* tables and the requests under way hold only what was made, and a credential
\* that was taken, exchanged or revoked is never in a table again.
THEOREM InvariantHolds == Spec => []IInv
  <1>1. Init => IInv
    BY InitIInv
  <1>2. IInv /\ [Next]_oauthVars => IInv'
    BY NextIInv
  <1> QED
    BY <1>1, <1>2, PTL DEF Spec

\* The tables and the requests in flight are well typed, and an id names one
\* row of its table.
THEOREM TypeCorrect == Spec => []TypeOK
  <1>1. IInv => TypeOK
    BY DEF IInv
  <1> QED
    BY <1>1, InvariantHolds, PTL

-----------------------------------------------------------------------------
(* Revocation *)

LEMMA RevokedIInv == ASSUME IInv PROVE RevokedStaysRevoked
  <1>1. \A l \in lineage : l[1] \notin cut
    BY DEF IInv, SpentInv, Gone
  <1>2. ASSUME NEW i \in cut PROVE AuthorizedScopes(i) = {}
    <2>1. GrantsOf(i) = {}
      BY DEF IInv, CutInv, GrantsOf
    <2>2. UNION {g.perms : g \in GrantsOf(i)} = {}
      BY <2>1
    <2> QED
      BY <2>2 DEF AuthorizedScopes
  <1> QED
    BY <1>1, <1>2 DEF RevokedStaysRevoked

\* No exchange, however far it had come, makes a grant of a refresh token that
\* was revoked, and the access token of a revoked grant stands for nothing:
\* deleteByUserAndClient, the cascade of a deletion and deleteByJti compete for
\* the same rows.
THEOREM RevocationFinal == Spec => []RevokedStaysRevoked
  BY RevokedIInv, InvariantHolds, PTL

-----------------------------------------------------------------------------
(* Where grants come from *)

\* What a step does to the histories: they only grow, and only the two
\* GrantCreate steps add a grant.
LEMMA HistoryStep ==
  ASSUME [Next]_oauthVars
  PROVE  /\ asked \subseteq asked' /\ named \subseteq named'
         /\ \/ given' = given /\ lineage' = lineage
            \/ \E r \in Requests : CodeGrant(r) \/ RefreshGrant(r)
  <1> USE DEF historyVars, oauthVars
  <1>1. ASSUME NEW r \in Requests, Exchange(r)
        PROVE  /\ asked \subseteq asked' /\ named \subseteq named'
               /\ \/ given' = given /\ lineage' = lineage
                  \/ \E p \in Requests : CodeGrant(p) \/ RefreshGrant(p)
    <2>1. \/ UNCHANGED historyVars
          \/ (CodeGrant(r) \/ RefreshGrant(r)) /\ UNCHANGED <<asked, named>>
      BY <1>1
      DEF Exchange, FindCode, ConsumeCode, ReadPerms, FindGrant, RotateGrant, Fail,
          CodeGrant, RefreshGrant, GrantCreate
    <2> QED
      BY <2>1
  <1>2. CASE \E u \in Users, c \in Clients, s \in SUBSET Perms : Authorize(u, c, s)
    BY <1>2 DEF Authorize
  <1>3. CASE \E c \in codes : CodeExpires(c)
    BY <1>3 DEF CodeExpires
  <1>4. CASE \E u \in Users, c \in Clients : Revoke(u, c)
    BY <1>4 DEF Revoke
  <1>5. CASE \E u \in Users, c \in Clients, P \in SUBSET Perms : CreateClient(u, c, P)
    BY <1>5 DEF CreateClient
  <1>6. CASE \E u \in Users, c \in Clients : \E x \in Managed(u, c) :
               RegenerateSecret(x) \/ DeleteClient(x) \/ \E P \in SUBSET Perms : UpdateClient(x, P)
    BY <1>6 DEF RegenerateSecret, DeleteClient, UpdateClient
  <1>7. CASE \/ \E u \in Users, P \in SUBSET Perms : UpdateRoles(u, P)
             \/ \E u \in Users : DeleteUser(u)
    BY <1>7 DEF UpdateRoles, DeleteUser
  <1>8. CASE (\E g \in given : JwtStateNamed(g.id)) \/ (\E i \in states : JwtStateRemoved(i))
    BY <1>8 DEF JwtStateNamed, JwtStateRemoved
  <1>9. CASE UNCHANGED oauthVars
    BY <1>9
  <1> QED
    BY <1>1, <1>2, <1>3, <1>4, <1>5, <1>6, <1>7, <1>8, <1>9 DEF Next

\* The grant g, its lineage and its origin.
OfCode(g, A, L) ==
  \E c \in A : /\ <<c.id, g.id>> \in L
               /\ g.client = c.client /\ g.user = c.user /\ g.perms \subseteq c.scope

OfGrant(g, G, L) ==
  \E h \in G : /\ <<h.id, g.id>> \in L
               /\ g.client = h.client /\ g.user = h.user /\ g.perms = h.perms

LEMMA NextGrantOfItsCode ==
  ASSUME IInv, GrantOfItsCode, [Next]_oauthVars
  PROVE  GrantOfItsCode'
  <1>1. \A g \in given : OfCode(g, asked, lineage) \/ OfGrant(g, given, lineage)
    BY DEF GrantOfItsCode, OfCode, OfGrant
  <1>2. SUFFICES \A g \in given' : OfCode(g, asked', lineage') \/ OfGrant(g, given', lineage')
    BY DEF GrantOfItsCode, OfCode, OfGrant
  <1>3. CASE given' = given /\ lineage' = lineage
    BY <1>1, <1>3, HistoryStep DEF OfCode, OfGrant
  <1>4. ASSUME NEW r \in Requests, NEW u, NEW perms, GrantCreate(r, u, perms),
               OfCode(NewGrant(r, u, perms), asked, lineage')
                 \/ OfGrant(NewGrant(r, u, perms), given, lineage')
        PROVE  \A g \in given' : OfCode(g, asked', lineage') \/ OfGrant(g, given', lineage')
    <2>1. /\ given' = given \cup {NewGrant(r, u, perms)} /\ asked' = asked
          /\ lineage \subseteq lineage'
      BY <1>4 DEF GrantCreate, NewGrant
    <2>2. \A g \in given : OfCode(g, asked', lineage') \/ OfGrant(g, given', lineage')
      BY <1>1, <2>1 DEF OfCode, OfGrant
    <2>3. \/ OfCode(NewGrant(r, u, perms), asked', lineage')
          \/ OfGrant(NewGrant(r, u, perms), given', lineage')
      BY <1>4, <2>1 DEF OfGrant
    <2> QED
      BY <2>1, <2>2, <2>3
  <1>5. ASSUME NEW r \in Requests, CodeGrant(r)
        PROVE  \A g \in given' : OfCode(g, asked', lineage') \/ OfGrant(g, given', lineage')
    <2> DEFINE u == req[r].row.user
               P == req[r].perms
    <2>1. req[r].pc = "perms" /\ GrantCreate(r, u, P)
      BY <1>5 DEF CodeGrant
    <2>2. PICK a \in asked : SameCode(a, req[r].row)
      BY <2>1 DEF IInv, ReadInv, ReadOK, ReadCode
    <2>3. /\ req[r].row.id = req[r].from /\ req[r].row.client = req[r].client
          /\ P \subseteq req[r].row.scope
      BY <2>1 DEF IInv, ReadInv, ReadOK, ReadCode
    <2>4. <<req[r].from, minted + 1>> \in lineage'
      BY <2>1 DEF GrantCreate
    <2>5. OfCode(NewGrant(r, u, P), asked, lineage')
      BY <2>2, <2>3, <2>4 DEF OfCode, NewGrant, SameCode
    <2> QED
      BY <1>4, <2>1, <2>5
  <1>6. ASSUME NEW r \in Requests, RefreshGrant(r)
        PROVE  \A g \in given' : OfCode(g, asked', lineage') \/ OfGrant(g, given', lineage')
    <2> DEFINE u == req[r].row.user
               P == req[r].row.perms
    <2>1. req[r].pc = "rotated" /\ GrantCreate(r, u, P)
      BY <1>6 DEF RefreshGrant
    <2>2. /\ req[r].row \in given /\ req[r].row.id = req[r].from
          /\ req[r].row.client = req[r].client
      BY <2>1 DEF IInv, ReadInv, ReadOK, ReadGrant
    <2>3. <<req[r].from, minted + 1>> \in lineage'
      BY <2>1 DEF GrantCreate
    <2>4. OfGrant(NewGrant(r, u, P), given, lineage')
      BY <2>2, <2>3 DEF OfGrant, NewGrant
    <2> QED
      BY <1>4, <2>1, <2>4
  <1> QED
    BY <1>3, <1>5, <1>6, HistoryStep

\* A grant is for the client and the user of the code or of the grant it was
\* made from and holds no permission those did not ask for, whatever roles,
\* masks and rows have changed between consumeAuthorizationCode,
\* determineFinalPermissions and the insertion.
THEOREM GrantsFollowTheirCodes == Spec => []GrantOfItsCode
  <1>1. Init => GrantOfItsCode
    BY DEF Init, GrantOfItsCode
  <1>2. IInv /\ GrantOfItsCode /\ [Next]_oauthVars => GrantOfItsCode'
    BY NextGrantOfItsCode
  <1> QED
    BY <1>1, <1>2, InvariantHolds, PTL DEF Spec

LEMMA NextRefreshNeedsJwtEdit ==
  ASSUME IInv, RefreshNeedsJwtEdit, [Next]_oauthVars
  PROVE  RefreshNeedsJwtEdit'
  <1>1. CASE given' = given /\ lineage' = lineage
    BY <1>1, HistoryStep DEF RefreshNeedsJwtEdit
  <1>2. ASSUME NEW r \in Requests, req[r].pc \in Taken, NEW u, NEW perms,
               GrantCreate(r, u, perms),
               (\E g \in given : g.id = req[r].from) => req[r].from \in named
        PROVE  RefreshNeedsJwtEdit'
    <2>1. /\ given' = given \cup {NewGrant(r, u, perms)} /\ named' = named
          /\ NewGrant(r, u, perms).id = minted + 1 /\ minted \in Nat
          /\ lineage' = lineage \cup {<<req[r].from, minted + 1>>}
      BY <1>2, FreshId DEF IInv, GrantCreate, NewGrant
    <2>2. req[r].from \in 1..minted
      BY <1>2 DEF IInv, PresentsInv, Presents, Taken
    <2>3. \A l \in lineage : l[1] \in 1..minted
      BY DEF IInv, IdsInv
    <2>4. ASSUME NEW l \in lineage', NEW g \in given', g.id = l[1] PROVE l[1] \in named'
      <3>1. l[1] # minted + 1
        BY <2>1, <2>2, <2>3
      <3>2. g \in given
        BY <2>1, <2>4, <3>1
      <3> QED
        BY <1>2, <2>1, <2>4, <3>2 DEF RefreshNeedsJwtEdit
    <2> QED
      BY <2>4 DEF RefreshNeedsJwtEdit
  <1>3. ASSUME NEW r \in Requests, CodeGrant(r) PROVE RefreshNeedsJwtEdit'
    <2>1. PICK a \in asked : a.id = req[r].from
      BY <1>3 DEF CodeGrant, IInv, ReadInv, ReadOK, ReadCode, SameCode
    <2>2. ~ \E g \in given : g.id = req[r].from
      BY <2>1 DEF IInv, IdsInv
    <2> QED
      BY <1>2, <1>3, <2>2 DEF CodeGrant, Taken
  <1>4. ASSUME NEW r \in Requests, RefreshGrant(r) PROVE RefreshNeedsJwtEdit'
    <2>1. req[r].from \in named
      BY <1>4 DEF RefreshGrant, IInv, ReadInv, ReadOK, ReadGrant
    <2> QED
      BY <1>2, <1>4, <2>1 DEF RefreshGrant, Taken
  <1> QED
    BY <1>1, <1>3, <1>4, HistoryStep

\* verifyJWTToken looks a refresh token up in JWTState, where no call of the
\* provider ever puts one: it takes an edit of /jwt-state to let one be exchanged.
THEOREM RefreshTakesJwtEdit == Spec => []RefreshNeedsJwtEdit
  <1>1. Init => RefreshNeedsJwtEdit
    BY DEF Init, RefreshNeedsJwtEdit
  <1>2. IInv /\ RefreshNeedsJwtEdit /\ [Next]_oauthVars => RefreshNeedsJwtEdit'
    BY NextRefreshNeedsJwtEdit
  <1> QED
    BY <1>1, <1>2, InvariantHolds, PTL DEF Spec

-----------------------------------------------------------------------------
(* Deletions *)

\* Steps that leave users, clients and the tables of codes and grants as they
\* are, or take from the latter.
LEMMA LessOutlivesNothing ==
  ASSUME NothingOutlivesItsUser, DOMAIN roles' = DOMAIN roles, clients' = clients,
         codes' \subseteq codes, grants' \subseteq grants
  PROVE  NothingOutlivesItsUser'
  BY DEF NothingOutlivesItsUser, Registered

LEMMA GrantCreateOutlivesNothing ==
  ASSUME NothingOutlivesItsUser, NEW r, NEW u, NEW perms, GrantCreate(r, u, perms)
  PROVE  NothingOutlivesItsUser'
  <1>1. /\ Registered(u) /\ \E x \in clients : x.id = req[r].client
        /\ grants' = grants \cup {NewGrant(r, u, perms)}
        /\ NewGrant(r, u, perms).user = u
        /\ NewGrant(r, u, perms).client = req[r].client
        /\ UNCHANGED <<roles, clients, codes>>
    BY DEF GrantCreate, Found, NewGrant
  <1> QED
    BY <1>1 DEF NothingOutlivesItsUser, Registered

LEMMA ExchangeOutlivesNothing ==
  ASSUME NothingOutlivesItsUser, NEW r \in Requests, Exchange(r)
  PROVE  NothingOutlivesItsUser'
  <1>1. \/ /\ UNCHANGED <<roles, clients>>
           /\ codes' \subseteq codes /\ grants' \subseteq grants
        \/ CodeGrant(r) \/ RefreshGrant(r)
    BY DEF Exchange, FindCode, ConsumeCode, ReadPerms, FindGrant, RotateGrant, Fail
  <1> QED
    BY <1>1, LessOutlivesNothing, GrantCreateOutlivesNothing DEF CodeGrant, RefreshGrant

\* A client whose row is replaced keeps its id and its owner.
LEMMA ReplacedOutlivesNothing ==
  ASSUME NothingOutlivesItsUser, NEW x \in clients, NEW P, NEW known,
         clients' = (clients \ {x}) \cup {ClientRow(x.id, x.owner, P, known)},
         UNCHANGED <<roles, codes>>, grants' \subseteq grants
  PROVE  NothingOutlivesItsUser'
  <1>1. /\ ClientRow(x.id, x.owner, P, known).id = x.id
        /\ ClientRow(x.id, x.owner, P, known).owner = x.owner
    BY DEF ClientRow
  <1>2. \A y \in clients : \E z \in clients' : z.id = y.id
    BY <1>1
  <1>3. \A g \in grants' : Registered(g.user)' /\ \E z \in clients' : z.id = g.client
    BY <1>2 DEF NothingOutlivesItsUser, Registered
  <1>4. \A z \in clients' : Registered(z.owner)'
    BY <1>1 DEF NothingOutlivesItsUser, Registered
  <1>5. \A c \in codes' : Registered(c.user)'
    BY DEF NothingOutlivesItsUser, Registered
  <1> QED
    BY <1>3, <1>4, <1>5 DEF NothingOutlivesItsUser

LEMMA NextOutlivesNothing ==
  ASSUME TypeOK, NothingOutlivesItsUser, [Next]_oauthVars
  PROVE  NothingOutlivesItsUser'
  <1>1. ASSUME NEW u, NEW c, NEW s, Authorize(u, c, s) PROVE NothingOutlivesItsUser'
    <2>1. CodeRow(minted + 1, c, u, s, TRUE).user = u
      BY DEF CodeRow
    <2> QED
      BY <1>1, <2>1 DEF NothingOutlivesItsUser, Registered, Authorize
  <1>2. ASSUME NEW c \in codes, CodeExpires(c) PROVE NothingOutlivesItsUser'
    <2>1. CodeRow(c.id, c.client, c.user, c.scope, FALSE).user = c.user
      BY DEF CodeRow
    <2> QED
      BY <1>2, <2>1 DEF NothingOutlivesItsUser, Registered, CodeExpires
  <1>3. ASSUME NEW u, NEW c, Revoke(u, c) PROVE NothingOutlivesItsUser'
    BY <1>3, LessOutlivesNothing DEF Revoke, EndGrants
  <1>4. ASSUME NEW u, NEW c, NEW P, CreateClient(u, c, P) PROVE NothingOutlivesItsUser'
    <2>1. ClientRow(c, u, P, TRUE).owner = u
      BY DEF ClientRow
    <2> QED
      BY <1>4, <2>1 DEF NothingOutlivesItsUser, Registered, CreateClient
  <1>5. ASSUME NEW x \in clients, RegenerateSecret(x) PROVE NothingOutlivesItsUser'
    BY <1>5, ReplacedOutlivesNothing DEF RegenerateSecret, ChangeSecret, EndGrants
  <1>6. ASSUME NEW x \in clients, DeleteClient(x) PROVE NothingOutlivesItsUser'
    BY <1>6 DEF DeleteClient, EndGrants, NothingOutlivesItsUser, Registered
  <1>7. ASSUME NEW x \in clients, NEW P, UpdateClient(x, P) PROVE NothingOutlivesItsUser'
    BY <1>7, ReplacedOutlivesNothing DEF UpdateClient, historyVars
  <1>8. ASSUME NEW u, NEW P, UpdateRoles(u, P) PROVE NothingOutlivesItsUser'
    BY <1>8, LessOutlivesNothing DEF UpdateRoles
  <1>9. ASSUME NEW u \in Users, DeleteUser(u) PROVE NothingOutlivesItsUser'
    <2>1. /\ DOMAIN roles' = DOMAIN roles \ {u}
          /\ clients' = {x \in clients : x.owner # u}
          /\ codes' = {c \in codes : c.user # u}
      BY <1>9 DEF DeleteUser
    <2>2. \A g \in grants' : /\ g \in grants /\ g.user # u
                             /\ \A x \in clients : x.owner = u => x.id # g.client
      BY <1>9 DEF DeleteUser, EndGrants
    <2> QED
      BY <2>1, <2>2 DEF NothingOutlivesItsUser, Registered
  <1>10. ASSUME NEW i, JwtStateNamed(i) \/ JwtStateRemoved(i) PROVE NothingOutlivesItsUser'
    BY <1>10, LessOutlivesNothing DEF JwtStateNamed, JwtStateRemoved
  <1>11. CASE UNCHANGED oauthVars
    BY <1>11, LessOutlivesNothing DEF oauthVars
  <1>12. CASE Next
    <2>1. ASSUME NEW u \in Users, NEW c \in Clients, NEW x \in Managed(u, c),
                 RegenerateSecret(x) \/ DeleteClient(x)
                   \/ \E P \in SUBSET Perms : UpdateClient(x, P)
          PROVE  NothingOutlivesItsUser'
      BY <2>1, <1>5, <1>6, <1>7, ManagedRow
    <2> QED
      BY <1>1, <1>2, <1>3, <1>4, <2>1, <1>8, <1>9, <1>10, <1>12, ExchangeOutlivesNothing
      DEF Next
  <1> QED
    BY <1>11, <1>12

\* No grant outlives its client or its user and no client or code its user,
\* even when the deletion falls between two calls of an exchange: the foreign
\* keys and the cascades of the schema see to it.
THEOREM DeletionsReachEverything == Spec => []NothingOutlivesItsUser
  <1>1. Init => NothingOutlivesItsUser
    BY DEF Init, NothingOutlivesItsUser
  <1>2. TypeOK /\ NothingOutlivesItsUser /\ [Next]_oauthVars => NothingOutlivesItsUser'
    BY NextOutlivesNothing
  <1> QED
    BY <1>1, <1>2, TypeCorrect, PTL DEF Spec

-----------------------------------------------------------------------------
(* What the owner of a client can do to the grants of others *)

OthersGrants(x) == {g \in grants : g.client = x.id /\ g.user # x.owner}

\* A step that adds no row replaces no row either.
LEMMA NoRowReplaced ==
  ASSUME TypeOK, NEW x \in clients, NEW y \in clients', x.id = y.id, x # y
  PROVE  ~ clients' \subseteq clients
  BY DEF TypeOK

LEMMA NextOthersGrants ==
  ASSUME TypeOK, [Next]_oauthVars, NEW x \in clients, NEW y \in clients',
         x.id = y.id, x # y
  PROVE  OthersGrants(x) \subseteq grants'
  <1>1. ~ clients' \subseteq clients
    BY NoRowReplaced
  <1>2. ASSUME NEW r \in Requests, Exchange(r) PROVE clients' = clients
    BY <1>2 DEF Exchange, FindCode, ConsumeCode, ReadPerms, FindGrant, RotateGrant, Fail,
                CodeGrant, RefreshGrant, GrantCreate
  <1>3. ASSUME NEW u, NEW c, NEW P, CreateClient(u, c, P)
        PROVE  OthersGrants(x) \subseteq grants'
    BY <1>3 DEF CreateClient, OthersGrants
  <1>4. ASSUME NEW z \in clients, NEW P, UpdateClient(z, P)
        PROVE  OthersGrants(x) \subseteq grants'
    BY <1>4 DEF UpdateClient, OthersGrants
  <1>5. ASSUME NEW z \in clients, RegenerateSecret(z)
        PROVE  OthersGrants(x) \subseteq grants'
    <2>1. y = ClientRow(z.id, z.owner, z.perms, FALSE)
      BY <1>5 DEF RegenerateSecret, ChangeSecret, TypeOK
    <2>2. x = z
      BY <2>1 DEF ClientRow, TypeOK
    <2> QED
      BY <1>5, <2>2 DEF RegenerateSecret, EndGrants, OthersGrants
  <1>6. ASSUME NEW z \in clients, DeleteClient(z) PROVE clients' \subseteq clients
    BY <1>6 DEF DeleteClient
  <1>7. ASSUME NEW u, DeleteUser(u) PROVE clients' \subseteq clients
    BY <1>7 DEF DeleteUser
  <1>8. CASE UNCHANGED oauthVars
    BY <1>1, <1>8 DEF oauthVars
  <1>9. CASE Next
    <2>1. ASSUME NEW u \in Users, NEW c \in Clients, NEW z \in Managed(u, c),
                 RegenerateSecret(z) \/ DeleteClient(z)
                   \/ \E P \in SUBSET Perms : UpdateClient(z, P)
          PROVE  OthersGrants(x) \subseteq grants'
      BY <2>1, <1>1, <1>4, <1>5, <1>6, ManagedRow
    <2>2. \/ \E u \in Users, c \in Clients, P \in SUBSET Perms : CreateClient(u, c, P)
          \/ \E u \in Users, c \in Clients : \E z \in Managed(u, c) :
               RegenerateSecret(z) \/ DeleteClient(z)
                 \/ \E P \in SUBSET Perms : UpdateClient(z, P)
          \/ clients' \subseteq clients
      BY <1>2, <1>7, <1>9
      DEF Next, Authorize, CodeExpires, Revoke, UpdateRoles, JwtStateNamed, JwtStateRemoved
    <2> QED
      BY <1>1, <1>3, <2>1, <2>2
  <1> QED
    BY <1>8, <1>9

\* A change of a client's secret or mask by its owner ends no grant of another
\* user, regenerateClientSecret's deleteByUserAndClient included.
THEOREM OwnersEndTheirOwn == Spec => OthersGrantsSurvive
  <1>1. TypeOK /\ [Next]_oauthVars =>
          [\A x \in clients, y \in clients' : x.id = y.id /\ x # y =>
             {g \in grants : g.client = x.id /\ g.user # x.owner} \subseteq grants']_oauthVars
    BY NextOthersGrants DEF OthersGrants
  <1> QED
    BY <1>1, TypeCorrect, PTL DEF Spec, OthersGrantsSurvive

-----------------------------------------------------------------------------
(* Refinement: codes and refresh tokens are one-time credentials *)

\* The refinement mapping of Credentials.
OpenIds == {c.id : c \in codes} \cup {g.id : g \in grants}
TakenIds == {req[r].from : r \in {p \in Requests : req[p].pc \in Taken}}

LEMMA OpenIdsAre ==
  /\ \A i : i \in OpenIds <=> Open(i)
  /\ \A i : i \in OpenIds' <=> Open(i)'
  <1>1. \A i : i \in OpenIds <=> Open(i)
    BY DEF OpenIds, Open
  <1>2. \A i : i \in OpenIds' <=> Open(i)'
    BY DEF OpenIds, Open
  <1> QED
    BY <1>1, <1>2

LEMMA TakenIdsAre ==
  /\ \A i : i \in TakenIds <=> \E r \in Requests : Holds(r, i)
  /\ \A i : i \in TakenIds' <=> \E r \in Requests : Holds(r, i)'
  <1>1. \A i : i \in TakenIds <=> \E r \in Requests : Holds(r, i)
    BY DEF TakenIds, Holds
  <1>2. \A i : i \in TakenIds' <=> \E r \in Requests : Holds(r, i)'
    BY DEF TakenIds, Holds
  <1> QED
    BY <1>1, <1>2

\* A step of OneTime, or none.
OneTimeStep == [Credentials!Next]_(Credentials!oneTimeVars)

\* What the steps of OneTime say under the mapping.
LEMMA IssueStep ==
  ASSUME NEW c \in Ids, c \notin 1..minted, 1..minted' = (1..minted) \cup {c},
         OpenIds' = OpenIds \cup {c}, TakenIds' = TakenIds, lineage' = lineage
  PROVE  OneTimeStep
  BY DEF OneTimeStep, Credentials!Next, Credentials!Issue, OpenIds, TakenIds

LEMMA TakeStep ==
  ASSUME NEW c \in Ids, c \in OpenIds, OpenIds' = OpenIds \ {c},
         TakenIds' = TakenIds \cup {c}, UNCHANGED <<minted, lineage>>
  PROVE  OneTimeStep
  BY DEF OneTimeStep, Credentials!Next, Credentials!Take, OpenIds, TakenIds

LEMMA YieldStep ==
  ASSUME NEW c \in Ids, NEW d \in Ids, c \in TakenIds, d \notin 1..minted,
         1..minted' = (1..minted) \cup {d}, OpenIds' = OpenIds \cup {d},
         TakenIds' = TakenIds \ {c}, lineage' = lineage \cup {<<c, d>>}
  PROVE  OneTimeStep
  BY DEF OneTimeStep, Credentials!Next, Credentials!Yield, OpenIds, TakenIds

LEMMA WithdrawStep ==
  ASSUME NEW C \in SUBSET Ids, C \subseteq OpenIds \cup TakenIds,
         OpenIds' = OpenIds \ C, TakenIds' = TakenIds \ C, UNCHANGED <<minted, lineage>>
  PROVE  OneTimeStep
  <1>1. CASE C = {}
    BY <1>1 DEF OneTimeStep, Credentials!oneTimeVars, OpenIds, TakenIds
  <1>2. CASE C # {}
    BY <1>2 DEF OneTimeStep, Credentials!Next, Credentials!Withdraw, OpenIds, TakenIds
  <1> QED
    BY <1>1, <1>2

LEMMA NoStep ==
  ASSUME OpenIds' = OpenIds, TakenIds' = TakenIds, UNCHANGED <<minted, lineage>>
  PROVE  OneTimeStep
  BY DEF OneTimeStep, Credentials!oneTimeVars, OpenIds, TakenIds

\* Taken credentials are in no table.
LEMMA TakenNotOpen == ASSUME IInv, NEW i \in TakenIds PROVE i \notin OpenIds /\ i \in Ids
  <1>1. PICK r \in Requests : Holds(r, i)
    BY TakenIdsAre
  <1>2. i \in Ids
    BY <1>1, HoldsId DEF IInv
  <1> QED
    BY <1>1, <1>2, OpenIdsAre DEF IInv, TakenInv, Gone

LEMMA SameOpen == ASSUME UNCHANGED <<codes, grants>> PROVE OpenIds' = OpenIds
  BY DEF OpenIds

LEMMA SameTaken == ASSUME req' = req PROVE TakenIds' = TakenIds
  BY DEF TakenIds

\* A request that held nothing and still holds nothing.
LEMMA NotTaking ==
  ASSUME IInv, NEW r \in Requests, req[r].pc \notin Taken, NEW q, q.pc \notin Taken,
         Continue(r, q)
  PROVE  TakenIds' = TakenIds
  <1>1. \A s \in Requests : \A i : Holds(s, i)' <=> Holds(s, i)
    BY ContinueHolds DEF IInv, Holds
  <1>2. \A i : i \in TakenIds' <=> i \in TakenIds
    BY <1>1, TakenIdsAre
  <1> QED
    BY <1>2

\* A request that takes i.
LEMMA Taking ==
  ASSUME IInv, NEW r \in Requests, req[r].pc \notin Taken, NEW q, q.pc \in Taken,
         Continue(r, q)
  PROVE  TakenIds' = TakenIds \cup {q.from}
  <1>1. \A s \in Requests : \A i : Holds(s, i)' <=> Holds(s, i) \/ (s = r /\ i = q.from)
    BY ContinueHolds DEF IInv, Holds
  <1>2. \A i : i \in TakenIds' <=> i \in TakenIds \/ i = q.from
    BY <1>1, TakenIdsAre
  <1> QED
    BY <1>2

\* A request that gives up what it held, or has exchanged it.
LEMMA LettingGo ==
  ASSUME IInv, NEW r \in Requests, NEW i \in Ids, Holds(r, i), Finish(r)
  PROVE  TakenIds' = TakenIds \ {i}
  <1>1. \A s \in Requests : \A j : Holds(s, j)' <=> s # r /\ Holds(s, j)
    BY FinishHolds DEF IInv
  <1>2. \A j : Holds(r, j) => j = i
    BY DEF Holds
  <1>3. \A s \in Requests : Holds(s, i) => s = r
    BY DEF IInv, TakenInv
  <1>4. \A j : j \in TakenIds' <=> j \in TakenIds /\ j # i
    BY <1>1, <1>2, <1>3, TakenIdsAre
  <1> QED
    BY <1>4

LEMMA AuthorizeIssues ==
  ASSUME IInv, NEW u, NEW c, NEW s, Authorize(u, c, s)
  PROVE  OneTimeStep
  <1>1. /\ minted \in Nat /\ minted + 1 \in Ids /\ minted' = minted + 1
        /\ codes' = codes \cup {CodeRow(minted + 1, c, u, s, TRUE)}
        /\ CodeRow(minted + 1, c, u, s, TRUE).id = minted + 1
        /\ UNCHANGED <<grants, req, lineage>>
    BY FreshId DEF IInv, Authorize, CodeRow
  <1>2. OpenIds' = OpenIds \cup {minted + 1}
    BY <1>1 DEF OpenIds
  <1>3. minted + 1 \notin 1..minted /\ 1..minted' = (1..minted) \cup {minted + 1}
    BY <1>1
  <1> QED
    BY <1>1, <1>2, <1>3, SameTaken, IssueStep

LEMMA CodeExpiresNoStep ==
  ASSUME NEW c \in codes, CodeExpires(c)
  PROVE  OneTimeStep
  <1>1. CodeRow(c.id, c.client, c.user, c.scope, FALSE).id = c.id
    BY DEF CodeRow
  <1>2. \A i : Open(i)' <=> Open(i)
    BY <1>1 DEF Open, CodeExpires
  <1>3. OpenIds' = OpenIds
    BY <1>2, OpenIdsAre
  <1> QED
    BY <1>3, SameTaken, NoStep DEF CodeExpires, historyVars

LEMMA ConsumeCodeTakes ==
  ASSUME IInv, NEW r \in Requests, ConsumeCode(r)
  PROVE  OneTimeStep
  <1>1. PICK i \in 0..MaxId : i = req[r].from
    BY ReqType DEF IInv, Request
  <1> DEFINE q == Task("consumed", req[r].client, i, req[r].row, {})
  <1>2. /\ req[r].pc = "found"
        /\ \E x \in codes : x.id = i
        /\ codes' = {x \in codes : x.id # i}
        /\ Continue(r, q) \/ Finish(r)
        /\ UNCHANGED <<grants, lineage, minted>>
    BY <1>1 DEF ConsumeCode, historyVars
  <1>3. PICK a \in asked : a.id = i
    BY <1>2 DEF IInv, RowsInv, SameCode
  <1>4. \A g \in grants : g.id # i
    BY <1>3 DEF IInv, IdsInv, RowsInv
  <1>5. \A j : Open(j)' <=> Open(j) /\ j # i
    BY <1>2, <1>4 DEF Open
  <1>6. OpenIds' = OpenIds \ {i} /\ i \in OpenIds /\ i \in Ids
    BY <1>2, <1>3, <1>5, OpenIdsAre DEF Open, IInv, TypeOK, Code
  <1>7. i \notin TakenIds /\ req[r].pc \notin Taken
    BY <1>2, <1>6, TakenNotOpen DEF Taken
  <1>8. CASE Continue(r, q)
    <2>1. q.pc \in Taken /\ q.from = i
      BY DEF Task, Taken
    <2>2. TakenIds' = TakenIds \cup {i}
      BY <1>7, <1>8, <2>1, Taking
    <2> QED
      BY <1>2, <1>6, <2>2, TakeStep
  <1>9. CASE Finish(r)
    <2>1. Idle.pc \notin Taken
      BY DEF Idle, Task, Taken
    <2>2. TakenIds' = TakenIds \ {i}
      BY <1>7, <1>9, <2>1, NotTaking DEF Finish
    <2> QED
      BY <1>2, <1>6, <2>2, WithdrawStep
  <1> QED
    BY <1>2, <1>8, <1>9

LEMMA RotateGrantTakes ==
  ASSUME IInv, NEW r \in Requests, RotateGrant(r)
  PROVE  OneTimeStep
  <1>1. PICK i \in 0..MaxId : i = req[r].from
    BY ReqType DEF IInv, Request
  <1> DEFINE q == Task("rotated", req[r].client, i, req[r].row, {})
  <1>2. /\ req[r].pc = "read"
        /\ GrantsOf(i) # {}
        /\ grants' = {g \in grants : g.id # i}
        /\ Continue(r, q)
        /\ UNCHANGED <<codes, lineage, minted>>
    BY <1>1 DEF RotateGrant, historyVars
  <1>3. PICK g \in grants : g.id = i
    BY <1>2 DEF GrantsOf
  <1>4. \A x \in codes : x.id # i
    BY <1>3 DEF IInv, IdsInv, RowsInv, SameCode
  <1>5. \A j : Open(j)' <=> Open(j) /\ j # i
    BY <1>2, <1>4 DEF Open
  <1>6. OpenIds' = OpenIds \ {i} /\ i \in OpenIds /\ i \in Ids
    BY <1>3, <1>5, OpenIdsAre DEF Open, IInv, TypeOK, Grant
  <1>7. req[r].pc \notin Taken /\ q.pc \in Taken /\ q.from = i
    BY <1>2 DEF Taken, Task
  <1>8. TakenIds' = TakenIds \cup {i}
    BY <1>2, <1>7, Taking
  <1> QED
    BY <1>2, <1>6, <1>8, TakeStep

LEMMA GrantCreateYields ==
  ASSUME IInv, NEW r \in Requests, req[r].pc \in Taken, NEW u, NEW perms,
         GrantCreate(r, u, perms)
  PROVE  OneTimeStep
  <1>1. PICK i \in 0..MaxId : i = req[r].from
    BY ReqType DEF IInv, Request
  <1>2. Holds(r, i) /\ i \in Ids /\ i \in TakenIds
    BY <1>1, HoldsId, TakenIdsAre DEF Holds, IInv
  <1>3. /\ minted \in Nat /\ minted + 1 \in Ids /\ minted' = minted + 1
        /\ grants' = grants \cup {NewGrant(r, u, perms)}
        /\ NewGrant(r, u, perms).id = minted + 1
        /\ lineage' = lineage \cup {<<i, minted + 1>>}
        /\ Finish(r) /\ codes' = codes
    BY <1>1, FreshId DEF IInv, GrantCreate, NewGrant
  <1>4. OpenIds' = OpenIds \cup {minted + 1}
    BY <1>3 DEF OpenIds
  <1>5. minted + 1 \notin 1..minted /\ 1..minted' = (1..minted) \cup {minted + 1}
    BY <1>3
  <1>6. TakenIds' = TakenIds \ {i}
    BY <1>2, <1>3, LettingGo
  <1> QED
    BY <1>2, <1>3, <1>4, <1>5, <1>6, YieldStep

LEMMA FailWithdraws ==
  ASSUME IInv, NEW r \in Requests, Fail(r)
  PROVE  OneTimeStep
  <1>1. Finish(r) /\ UNCHANGED <<codes, grants, minted, lineage>>
    BY DEF Fail, historyVars
  <1>2. CASE req[r].pc \in Taken
    <2>1. PICK i \in 0..MaxId : i = req[r].from
      BY ReqType DEF IInv, Request
    <2>2. Holds(r, i) /\ i \in Ids /\ i \in TakenIds
      BY <1>2, <2>1, HoldsId, TakenIdsAre DEF Holds, IInv
    <2>3. TakenIds' = TakenIds \ {i} /\ OpenIds' = OpenIds \ {i}
      BY <1>1, <2>2, LettingGo, SameOpen, TakenNotOpen
    <2> QED
      BY <1>1, <2>2, <2>3, WithdrawStep
  <1>3. CASE req[r].pc \notin Taken
    <2>1. Idle.pc \notin Taken
      BY DEF Idle, Task, Taken
    <2> QED
      BY <1>1, <1>3, <2>1, NotTaking, SameOpen, NoStep DEF Finish
  <1> QED
    BY <1>2, <1>3

LEMMA ExchangeStep ==
  ASSUME IInv, NEW r \in Requests, Exchange(r)
  PROVE  OneTimeStep
  <1>1. ASSUME NEW c \in Clients, NEW code \in codes, FindCode(r, c, code)
        PROVE  OneTimeStep
    <2>1. req[r].pc \notin Taken /\ Task("found", c, code.id, code, {}).pc \notin Taken
      BY <1>1 DEF FindCode, Task, Taken
    <2> QED
      BY <1>1, <2>1, NotTaking, SameOpen, NoStep DEF FindCode, historyVars
  <1>2. ASSUME ReadPerms(r) PROVE OneTimeStep
    <2>1. PICK P : Continue(r, Task("perms", req[r].client, req[r].from, req[r].row, P))
      BY <1>2 DEF ReadPerms
    <2>2. \A s \in Requests : \A i : Holds(s, i)' <=> Holds(s, i)
      BY <1>2, <2>1, ContinueHolds DEF IInv, Task, Holds, Taken, ReadPerms
    <2>3. \A i : i \in TakenIds' <=> i \in TakenIds
      BY <2>2, TakenIdsAre
    <2>4. TakenIds' = TakenIds
      BY <2>3
    <2> QED
      BY <1>2, <2>4, SameOpen, NoStep DEF ReadPerms, historyVars
  <1>3. ASSUME NEW c \in Clients, NEW i, FindGrant(r, c, i) PROVE OneTimeStep
    <2>1. PICK g : Continue(r, Task("read", c, i, g, {}))
      BY <1>3 DEF FindGrant
    <2>2. req[r].pc \notin Taken /\ Task("read", c, i, g, {}).pc \notin Taken
      BY <1>3 DEF FindGrant, Task, Taken
    <2> QED
      BY <1>3, <2>1, <2>2, NotTaking, SameOpen, NoStep DEF FindGrant, historyVars
  <1>4. ASSUME CodeGrant(r) PROVE OneTimeStep
    BY <1>4, GrantCreateYields DEF CodeGrant, Taken
  <1>5. ASSUME RefreshGrant(r) PROVE OneTimeStep
    BY <1>5, GrantCreateYields DEF RefreshGrant, Taken
  <1> QED
    BY <1>1, <1>2, <1>3, <1>4, <1>5, ConsumeCodeTakes, RotateGrantTakes, FailWithdraws
    DEF Exchange

\* The end of grants, and of codes with the same user, withdraws them.
LEMMA EndingWithdraws ==
  ASSUME IInv, NEW gone \in SUBSET grants, EndGrants(gone),
         NEW lost \in SUBSET codes, codes' = codes \ lost,
         \A x \in lost, y \in codes : x.id = y.id => y \in lost,
         UNCHANGED <<req, minted, lineage>>
  PROVE  OneTimeStep
  <1> DEFINE C == {c.id : c \in lost} \cup {g.id : g \in gone}
  <1>1. \A i : i \in C <=> (\E c \in lost : c.id = i) \/ (\E g \in gone : g.id = i)
    OBVIOUS
  <1>2. C \in SUBSET Ids
    BY DEF IInv, TypeOK, Code, Grant
  <1>3. \A x \in codes, g \in grants : x.id # g.id
    BY DEF IInv, IdsInv, RowsInv, SameCode
  <1>4. \A g \in gone, h \in grants : g.id = h.id => h \in gone
    BY DEF IInv, IdsInv, RowsInv
  <1>5. grants' = grants \ gone
    BY DEF EndGrants
  <1> HIDE DEF C
  <1>6. \A i : Open(i)' <=> Open(i) /\ i \notin C
    BY <1>1, <1>3, <1>4, <1>5 DEF Open
  <1>7. OpenIds' = OpenIds \ C
    BY <1>6, OpenIdsAre
  <1>8. C \subseteq OpenIds
    BY <1>1, OpenIdsAre DEF Open
  <1>9. TakenIds' = TakenIds \ C
    BY <1>8, SameTaken, TakenNotOpen
  <1> QED
    BY <1>2, <1>7, <1>8, <1>9, WithdrawStep

\* No code is lost.
LEMMA EndingGrantsWithdraws ==
  ASSUME IInv, NEW gone \in SUBSET grants, EndGrants(gone),
         UNCHANGED <<codes, req, minted, lineage>>
  PROVE  OneTimeStep
  <1>1. codes' = codes \ {}
    OBVIOUS
  <1> QED
    BY <1>1, EndingWithdraws

LEMMA DeleteUserWithdraws ==
  ASSUME IInv, NEW u \in Users, DeleteUser(u)
  PROVE  OneTimeStep
  <1>1. PICK gone \in SUBSET grants : EndGrants(gone)
    BY DEF DeleteUser
  <1> DEFINE lost == {c \in codes : c.user = u}
  <1>2. codes' = codes \ lost /\ UNCHANGED <<req, minted, lineage>>
    BY DEF DeleteUser
  <1>3. \A x \in lost, y \in codes : x.id = y.id => y \in lost
    BY DEF IInv, IdsInv, RowsInv, SameCode
  <1> HIDE DEF lost
  <1>4. lost \in SUBSET codes
    BY DEF lost
  <1> QED
    BY <1>1, <1>2, <1>3, <1>4, EndingWithdraws

\* Steps outside the tables of codes and grants.
LEMMA OutsideNoStep ==
  ASSUME UNCHANGED <<codes, grants, minted, req, lineage>>
  PROVE  OneTimeStep
  BY SameOpen, SameTaken, NoStep

LEMMA NextOneTime ==
  ASSUME IInv, [Next]_oauthVars
  PROVE  OneTimeStep
  <1>1. ASSUME NEW x \in clients,
               RegenerateSecret(x) \/ DeleteClient(x)
                 \/ \E P \in SUBSET Perms : UpdateClient(x, P)
        PROVE  OneTimeStep
    <2>1. CASE RegenerateSecret(x)
      BY <2>1, EndingGrantsWithdraws DEF RegenerateSecret
    <2>2. CASE DeleteClient(x)
      BY <2>2, EndingGrantsWithdraws DEF DeleteClient
    <2>3. CASE \E P \in SUBSET Perms : UpdateClient(x, P)
      BY <2>3, OutsideNoStep DEF UpdateClient, historyVars
    <2> QED
      BY <1>1, <2>1, <2>2, <2>3
  <1>2. ASSUME NEW u, NEW c, Revoke(u, c) PROVE OneTimeStep
    BY <1>2, EndingGrantsWithdraws DEF Revoke
  <1>3. ASSUME NEW u, NEW c, NEW P, CreateClient(u, c, P) PROVE OneTimeStep
    BY <1>3, OutsideNoStep DEF CreateClient, historyVars
  <1>4. ASSUME NEW u, NEW P, UpdateRoles(u, P) PROVE OneTimeStep
    BY <1>4, OutsideNoStep DEF UpdateRoles, historyVars
  <1>5. ASSUME NEW i, JwtStateNamed(i) \/ JwtStateRemoved(i) PROVE OneTimeStep
    BY <1>5, OutsideNoStep DEF JwtStateNamed, JwtStateRemoved, historyVars
  <1>6. CASE UNCHANGED oauthVars
    BY <1>6, OutsideNoStep DEF oauthVars, historyVars
  <1>7. CASE Next
    <2>1. ASSUME NEW u \in Users, NEW c \in Clients, NEW x \in Managed(u, c),
                 RegenerateSecret(x) \/ DeleteClient(x)
                   \/ \E P \in SUBSET Perms : UpdateClient(x, P)
          PROVE  OneTimeStep
      BY <2>1, <1>1, ManagedRow
    <2> QED
      BY <1>2, <1>3, <1>4, <1>5, <1>7, <2>1, AuthorizeIssues, CodeExpiresNoStep,
         ExchangeStep, DeleteUserWithdraws
      DEF Next
  <1> QED
    BY <1>6, <1>7

LEMMA InitOneTime == ASSUME Init PROVE Credentials!Init
  <1>1. \A r \in Requests : req[r] = Idle
    BY DEF Init
  <1>2. {p \in Requests : req[p].pc \in Taken} = {}
    BY <1>1 DEF Idle, Task, Taken
  <1>3. 1..minted = {}
    BY DEF Init
  <1>4. {c.id : c \in codes} \cup {g.id : g \in grants} = {}
    BY DEF Init
  <1> QED
    BY <1>2, <1>3, <1>4 DEF Credentials!Init, Init

\* POST /oauth/token implements one-time credentials: of any number of requests
\* that present a code or a refresh token at once, the delete of its row lets
\* one go on to a grant, and a row that a revocation or a deletion takes first
\* is never exchanged.
THEOREM ExchangeImplementsOneTime == Spec => ExchangedOnce
  <1>1. Init => Credentials!Init
    BY InitOneTime
  <1>2. IInv /\ [Next]_oauthVars => [Credentials!Next]_(Credentials!oneTimeVars)
    BY NextOneTime DEF OneTimeStep
  <1> QED
    BY <1>1, <1>2, InvariantHolds, PTL DEF Spec, ExchangedOnce, Credentials!Spec

=============================================================================
