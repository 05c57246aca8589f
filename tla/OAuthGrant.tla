----------------------------- MODULE OAuthGrant -----------------------------
(***************************************************************************)
(* The OAuth 2.0 provider: clients, authorization codes and the grants     *)
(* that access and refresh tokens stand for (oauth.controller, OauthService,*)
(* AuthorizationCodeService, OauthGrantedTokenService, OauthClientService).*)
(*                                                                         *)
(* POST /oauth/token takes several database calls; a request is cut at     *)
(* each of them, so that two exchanges, a revocation and the client's      *)
(* owner can interleave.  Any step may fail instead (Fail), and a rejected *)
(* exchange keeps what it has done so far.                                 *)
(***************************************************************************)
EXTENDS Integers

CONSTANTS
  Users, Clients, Requests, Perms,
  NoClient,   \* the client of an idle request
  MaxId,      \* bound on the codes and grants ever made
  MaxEdits    \* bound on the edits of clients, roles and JWTState ids

ASSUME OAuthBounds == MaxId \in Nat /\ MaxEdits \in Nat
ASSUME OAuthNames == NoClient \notin Clients

VARIABLES
  roles,     \* the rows of User: the permissions of each one's roles
  clients,   \* rows of OAuthClient
  codes,     \* rows of AuthorizationCode
  grants,    \* rows of OAuthGrantedToken
  states,    \* ids of grants that are also the id of a JWTState row
  named,     \* history: ids that have ever been in states
  minted,    \* ids handed out to codes and grants: 1..minted
  edits,
  asked,     \* history: every code ever made
  given,     \* history: every grant ever made
  lineage,   \* history: <<i, j>>, grant j was made for code or refresh token i
  cut,       \* history: grants ended by a revocation, by the client's owner or with
             \* a user
  req

historyVars == <<asked, given, lineage, cut, named>>
oauthVars == <<roles, clients, codes, grants, states, minted, edits, req, historyVars>>

-----------------------------------------------------------------------------

Ids == 1..MaxId

Client == [id : Clients, owner : Users, perms : SUBSET Perms, secretKnown : BOOLEAN]

\* scope: the permissions behind the scopes it names (none behind openid, email
\* and the like), all of Perms if it names no scope; fresh: its ten minutes are
\* not over.
Code == [id : Ids, client : Clients, user : Users, scope : SUBSET Perms, fresh : BOOLEAN]

CodeRow(i, c, u, scope, fresh) ==
  [id |-> i, client |-> c, user |-> u, scope |-> scope, fresh |-> fresh]

ClientRow(c, u, P, known) ==
  [id |-> c, owner |-> u, perms |-> P, secretKnown |-> known]

\* One row, and the access and refresh token that carry its id as their jti.
Grant == [id : Ids, client : Clients, user : Users, perms : SUBSET Perms]

\* from: the code or refresh token it presents; row: what it has read of it.
PC == {"idle", "found", "consumed", "perms", "read", "rotated"}

Task(pc, client, from, row, perms) ==
  [pc |-> pc, client |-> client, from |-> from, row |-> row, perms |-> perms]

NoRow == [id |-> 0]

Idle == Task("idle", NoClient, 0, NoRow, {})

Registered(u) == u \in DOMAIN roles

Continue(r, q) == req' = [req EXCEPT ![r] = q]
Finish(r) == Continue(r, Idle)

\* findById: one row, or none, which is an error.
Found(c) == {x \in clients : x.id = c}

\* findByIdAndCheckForAccess: the row of a client, to its owner.
Managed(u, c) == {x \in Found(c) : x.owner = u}

\* OauthClientService.authenticate: somebody has to know the current secret.
KnowsSecret(c) == \E x \in Found(c) : x.secretKnown

\* BasicOAuthGuard: the id and the secret come in the header or in the body.
Authenticates(c) == KnowsSecret(c)

\* filterRequestedPermissions: an empty cap caps nothing.
Filtered(mine, asking, cap) ==
  (IF cap = {} THEN asking ELSE asking \cap cap) \cap mine

\* determineFinalPermissions: the roles of the user, capped by the mask of the
\* client and by the scopes named.
FinalPerms(mine, mask, scope) == Filtered(mine \cap mask, scope, mask)

\* findByJti
GrantsOf(jti) == {g \in grants : g.id = jti}

\* What GET /oauth/userinfo takes a token to stand for: the permissions of its
\* grant, if the token verifies and the grant is there.
AuthorizedScopes(jti) == IF jti \in states THEN UNION {g.perms : g \in GrantsOf(jti)} ELSE {}

-----------------------------------------------------------------------------
(* Authorization *)

\* GET /oauth/authorize
Authorize(u, c, scope) ==
  /\ Registered(u)
  /\ Found(c) # {}
  /\ minted < MaxId
  /\ LET code == CodeRow(minted + 1, c, u, scope, TRUE) IN
     /\ codes' = codes \cup {code}
     /\ asked' = asked \cup {code}
  /\ minted' = minted + 1
  /\ UNCHANGED <<roles, clients, grants, states, edits, req, given, lineage, cut, named>>

CodeExpires(c) ==
  /\ c.fresh
  /\ codes' = (codes \ {c}) \cup {CodeRow(c.id, c.client, c.user, c.scope, FALSE)}
  /\ UNCHANGED <<roles, clients, grants, states, minted, edits, req, historyVars>>

-----------------------------------------------------------------------------
(* POST /oauth/token, grant_type authorization_code *)

\* consumeAuthorizationCode finds the row.
FindCode(r, c, code) ==
  /\ req[r].pc = "idle"
  /\ Authenticates(c)
  /\ Continue(r, Task("found", c, code.id, code, {}))
  /\ UNCHANGED <<roles, clients, codes, grants, states, minted, edits, historyVars>>

\* verifyCodeChallenge: whether the verifier sent is the one whose challenge the
\* code was made with.
VerifyCodeChallenge == BOOLEAN

\* Mutant of ConsumeCode: deleteMany in place of delete, so that a code that
\* is already gone is no error.
ConsumeCodeMany(r) ==
  LET q == req[r] IN
  /\ q.pc = "found"
  /\ codes' = {x \in codes : x.id # q.from}
  /\ \E proved \in VerifyCodeChallenge :
       IF q.row.fresh /\ q.row.client = q.client /\ proved
       THEN Continue(r, Task("consumed", q.client, q.from, q.row, {}))
       ELSE Finish(r)
  /\ UNCHANGED <<roles, clients, grants, states, minted, edits, historyVars>>

\* Mutant of ConsumeCode: the code's client is not compared.
ConsumeCodeOfAny(r) ==
  LET q == req[r] IN
  /\ q.pc = "found"
  /\ \E x \in codes : x.id = q.from
  /\ codes' = {x \in codes : x.id # q.from}
  /\ \E proved \in VerifyCodeChallenge :
       IF q.row.fresh /\ proved
       THEN Continue(r, Task("consumed", q.client, q.from, q.row, {}))
       ELSE Finish(r)
  /\ UNCHANGED <<roles, clients, grants, states, minted, edits, historyVars>>

\* It deletes the row, failing if the row is gone; then come the checks of its
\* expiry, its client and its verifier, so a code presented by the wrong client is
\* spent.
ConsumeCode(r) ==
  LET q == req[r] IN
  /\ q.pc = "found"
  /\ \E x \in codes : x.id = q.from
  /\ codes' = {x \in codes : x.id # q.from}
  /\ \E proved \in VerifyCodeChallenge :
       IF q.row.fresh /\ q.row.client = q.client /\ proved
       THEN Continue(r, Task("consumed", q.client, q.from, q.row, {}))
       ELSE Finish(r)
  /\ UNCHANGED <<roles, clients, grants, states, minted, edits, historyVars>>

\* The user has to be there still; determineFinalPermissions reads its roles,
\* then the client, which has to be there too.
ReadPerms(r) ==
  LET q == req[r] IN
  /\ q.pc = "consumed"
  /\ Registered(q.row.user)
  /\ \E x \in Found(q.client) :
       Continue(r, Task("perms", q.client, q.from, q.row,
                        FinalPerms(roles[q.row.user], x.perms, q.row.scope)))
  /\ UNCHANGED <<roles, clients, codes, grants, states, minted, edits, historyVars>>

\* Mutant of GrantCreate: the grant has no foreign key to its client.
GrantCreateUnchecked(r, u, perms) ==
  LET q == req[r]
      g == [id |-> minted + 1, client |-> q.client, user |-> u, perms |-> perms]
  IN
  /\ Registered(u)
  /\ minted < MaxId
  /\ grants' = grants \cup {g}
  /\ given' = given \cup {g}
  /\ minted' = minted + 1
  /\ lineage' = lineage \cup {<<q.from, minted + 1>>}
  /\ Finish(r)
  /\ UNCHANGED <<roles, clients, codes, states, edits, asked, cut, named>>

\* The row of a new grant, with the tokens that are the response.  Its foreign
\* keys want the client and the user to be there still.
GrantCreate(r, u, perms) ==
  LET q == req[r]
      g == [id |-> minted + 1, client |-> q.client, user |-> u, perms |-> perms]
  IN
  /\ Found(q.client) # {}
  /\ Registered(u)
  /\ minted < MaxId
  /\ grants' = grants \cup {g}
  /\ given' = given \cup {g}
  /\ minted' = minted + 1
  /\ lineage' = lineage \cup {<<q.from, minted + 1>>}
  /\ Finish(r)
  /\ UNCHANGED <<roles, clients, codes, states, edits, asked, cut, named>>

\* The grant for a code, whose tokens are the answer, an ID token among them if
\* the scope names openid.
CodeGrant(r) ==
  /\ req[r].pc = "perms"
  /\ GrantCreate(r, req[r].row.user, req[r].perms)

-----------------------------------------------------------------------------
(* POST /oauth/token, grant_type refresh_token *)

\* Mutant of FindGrant: verifyJWTToken takes a jti without a JWTState row.
FindGrantUnverified(r, c, i) ==
  /\ req[r].pc = "idle"
  /\ Authenticates(c)
  /\ \E g \in GrantsOf(i) : /\ g.client = c
                            /\ Continue(r, Task("read", c, i, g, {}))
  /\ UNCHANGED <<roles, clients, codes, grants, states, minted, edits, historyVars>>

\* verifyJWTToken wants a JWTState row under the jti; then the grant is read
\* and its client compared.
FindGrant(r, c, i) ==
  /\ req[r].pc = "idle"
  /\ Authenticates(c)
  /\ i \in states
  /\ \E g \in GrantsOf(i) : /\ g.client = c
                            /\ Continue(r, Task("read", c, i, g, {}))
  /\ UNCHANGED <<roles, clients, codes, grants, states, minted, edits, historyVars>>

\* Mutant of RotateGrant: the number of rows deleted is not looked at.
RotateGrantUncounted(r) ==
  LET q == req[r] IN
  /\ q.pc = "read"
  /\ grants' = {g \in grants : g.id # q.from}
  /\ Continue(r, Task("rotated", q.client, q.from, q.row, {}))
  /\ UNCHANGED <<roles, clients, codes, states, minted, edits, historyVars>>

\* deleteByJti: no row deleted is an error.
RotateGrant(r) ==
  LET q == req[r] IN
  /\ q.pc = "read"
  /\ GrantsOf(q.from) # {}
  /\ grants' = {g \in grants : g.id # q.from}
  /\ Continue(r, Task("rotated", q.client, q.from, q.row, {}))
  /\ UNCHANGED <<roles, clients, codes, states, minted, edits, historyVars>>

RefreshGrant(r) ==
  /\ req[r].pc = "rotated"
  /\ GrantCreate(r, req[r].row.user, req[r].row.perms)

\* The exchange answers with an error.
Fail(r) ==
  /\ req[r].pc # "idle"
  /\ Finish(r)
  /\ UNCHANGED <<roles, clients, codes, grants, states, minted, edits, historyVars>>

-----------------------------------------------------------------------------
(* The user and the owner of the client *)

EndGrants(gone) ==
  /\ grants' = grants \ gone
  /\ cut' = cut \cup {g.id : g \in gone}

Edit == edits < MaxEdits /\ edits' = edits + 1

\* POST /oauth/token/revoke: every grant the user has given the client, an
\* error if there is none.  A token in the body has to verify.
Revoke(u, c) ==
  LET gone == {g \in grants : g.user = u /\ g.client = c} IN
  /\ gone # {}
  /\ EndGrants(gone)
  /\ UNCHANGED <<roles, clients, codes, states, minted, edits, req, asked, given, lineage, named>>

\* POST /oauth/client: a new id, and the secret in the response.
CreateClient(u, c, P) ==
  /\ Registered(u)
  /\ \A x \in clients : x.id # c
  /\ \A x \in asked : x.client # c
  /\ clients' = clients \cup {ClientRow(c, u, P, TRUE)}
  /\ UNCHANGED <<roles, codes, grants, states, minted, edits, req, historyVars>>

\* Mutant of UpdateClient: an insert in place of the update.
UpdateClientAdds(x, P) ==
  /\ Edit
  /\ clients' = clients \cup {ClientRow(x.id, x.owner, P, x.secretKnown)}
  /\ UNCHANGED <<roles, codes, grants, states, minted, req, historyVars>>

\* PUT /oauth/client, of a row Managed has given.
UpdateClient(x, P) ==
  /\ Edit
  /\ clients' = (clients \ {x}) \cup {ClientRow(x.id, x.owner, P, x.secretKnown)}
  /\ UNCHANGED <<roles, codes, grants, states, minted, req, historyVars>>

\* updateClientSecret
ChangeSecret(x) == clients' = (clients \ {x}) \cup {ClientRow(x.id, x.owner, x.perms, FALSE)}

\* Mutant of RegenerateSecret: the grants of every user are deleted.
RegenerateSecretForAll(x) ==
  /\ Edit
  /\ ChangeSecret(x)
  /\ EndGrants({g \in grants : g.client = x.id})
  /\ UNCHANGED <<roles, codes, states, minted, req, asked, given, lineage, named>>

\* POST /oauth/client/regenerate-secret by its owner: the new secret is not
\* part of the response, and only the grants of the owner itself are deleted
\* (an error if there is none).
RegenerateSecret(x) ==
  /\ Edit
  /\ ChangeSecret(x)
  /\ EndGrants({g \in grants : g.user = x.owner /\ g.client = x.id})
  /\ UNCHANGED <<roles, codes, states, minted, req, asked, given, lineage, named>>

\* DELETE /oauth/client by its owner: the grants go by cascade, the codes stay.
\* deleteByUserAndClient finds nothing left to delete: the answer is an error.
DeleteClient(x) ==
  /\ Edit
  /\ clients' = clients \ {x}
  /\ EndGrants({g \in grants : g.client = x.id})
  /\ UNCHANGED <<roles, codes, states, minted, req, asked, given, lineage, named>>

\* updateUserRolesById
UpdateRoles(u, P) ==
  /\ Edit /\ Registered(u)
  /\ roles' = [roles EXCEPT ![u] = P]
  /\ UNCHANGED <<clients, codes, grants, states, minted, req, historyVars>>

\* The deletion of a user takes along its clients, its codes, its grants and
\* the grants of its clients.
DeleteUser(u) ==
  LET theirs == {x \in clients : x.owner = u} IN
  /\ Registered(u)
  /\ roles' = [v \in DOMAIN roles \ {u} |-> roles[v]]
  /\ clients' = clients \ theirs
  /\ codes' = {c \in codes : c.user # u}
  /\ EndGrants({g \in grants : g.user = u \/ \E x \in theirs : x.id = g.client})
  /\ UNCHANGED <<states, minted, edits, req, asked, given, lineage, named>>

\* PUT /jwt-state/:id moves a JWTState row to the id of a grant; DELETE removes
\* it, as the deletion of the row's user does.  Nothing else gives the jti of a grant a JWTState row.
JwtStateNamed(i) ==
  /\ Edit
  /\ i \notin states
  /\ states' = states \cup {i}
  /\ named' = named \cup {i}
  /\ UNCHANGED <<roles, clients, codes, grants, minted, req, asked, given, lineage, cut>>

JwtStateRemoved(i) ==
  /\ i \in states
  /\ states' = states \ {i}
  /\ UNCHANGED <<roles, clients, codes, grants, minted, edits, req, historyVars>>

-----------------------------------------------------------------------------

\* Users start with every permission; UpdateRoles takes and gives them.
Init ==
  /\ roles = [u \in Users |-> Perms]
  /\ clients = {}
  /\ codes = {} /\ grants = {} /\ states = {}
  /\ minted = 0 /\ edits = 0
  /\ asked = {} /\ given = {} /\ lineage = {} /\ cut = {} /\ named = {}
  /\ req = [r \in Requests |-> Idle]

Exchange(r) ==
  \/ \E c \in Clients, code \in codes : FindCode(r, c, code)
  \/ ConsumeCode(r) \/ ReadPerms(r) \/ CodeGrant(r)
  \/ \E c \in Clients, i \in 1..minted : FindGrant(r, c, i)
  \/ RotateGrant(r) \/ RefreshGrant(r)
  \/ Fail(r)

Next ==
  \/ \E u \in Users, c \in Clients, s \in SUBSET Perms : Authorize(u, c, s)
  \/ \E c \in codes : CodeExpires(c)
  \/ \E r \in Requests : Exchange(r)
  \/ \E u \in Users, c \in Clients : Revoke(u, c)
  \/ \E u \in Users, c \in Clients, P \in SUBSET Perms : CreateClient(u, c, P)
  \/ \E u \in Users, c \in Clients : \E x \in Managed(u, c) :
       RegenerateSecret(x) \/ DeleteClient(x) \/ \E P \in SUBSET Perms : UpdateClient(x, P)
  \/ \E u \in Users, P \in SUBSET Perms : UpdateRoles(u, P)
  \/ \E u \in Users : DeleteUser(u)
  \/ \E g \in given : JwtStateNamed(g.id)
  \/ \E i \in states : JwtStateRemoved(i)

Spec == Init /\ [][Next]_oauthVars

-----------------------------------------------------------------------------
(* Properties *)

\* The tables and the requests in flight have the shapes above, and an id names
\* one row of its table.
TypeOK ==
  /\ roles \in UNION {[U -> SUBSET Perms] : U \in SUBSET Users}
  /\ clients \subseteq Client
  /\ \A x, y \in clients : x.id = y.id => x = y
  /\ codes \subseteq Code
  /\ grants \subseteq Grant
  /\ states \subseteq Ids
  /\ minted \in 0..MaxId
  /\ edits \in 0..MaxEdits
  /\ asked \subseteq Code
  /\ given \subseteq Grant
  /\ lineage \subseteq Ids \X Ids
  /\ cut \subseteq Ids /\ named \subseteq Ids
  /\ req \in [Requests ->
                [pc : PC, client : Clients \cup {NoClient}, from : 0..MaxId,
                 row : Code \cup Grant \cup {NoRow}, perms : SUBSET Perms]]

\* However many requests present a code or a refresh token at once, it is
\* exchanged at most once: the delete of its row decides between them, and a
\* row that a revocation takes first is never exchanged.
Taken == {"consumed", "perms", "rotated"}

Credentials == INSTANCE OneTime WITH
  Credential <- Ids,
  known <- 1..minted,
  open <- {c.id : c \in codes} \cup {g.id : g \in grants},
  taken <- {req[r].from : r \in {p \in Requests : req[p].pc \in Taken}},
  yielded <- lineage

ExchangedOnce == Credentials!Spec

\* A revocation, a rotation by the client's owner and the deletion of the
\* client or of a user are final for the refresh tokens they catch, whatever
\* exchange has already read their grants; and the access token made with each
\* stands for nothing any more.
RevokedStaysRevoked ==
  /\ \A l \in lineage : l[1] \notin cut
  /\ \A i \in cut : AuthorizedScopes(i) = {}

\* A grant belongs to the client and the user of the code or of the grant it
\* was made from, and never holds a permission that those did not ask for.
GrantOfItsCode ==
  \A g \in given :
    \/ \E c \in asked : /\ <<c.id, g.id>> \in lineage
                        /\ g.client = c.client /\ g.user = c.user
                        /\ g.perms \subseteq c.scope
    \/ \E h \in given : /\ <<h.id, g.id>> \in lineage
                        /\ g.client = h.client /\ g.user = h.user
                        /\ g.perms = h.perms

\* No grant outlives its client or its user, even one whose exchange was under
\* way when they were deleted; and no client or code outlives its user.
NothingOutlivesItsUser ==
  /\ \A g \in grants : Registered(g.user) /\ \E x \in clients : x.id = g.client
  /\ \A x \in clients : Registered(x.owner)
  /\ \A c \in codes : Registered(c.user)

\* A refresh token is exchanged only if its jti has been made the id of a
\* JWTState row by an edit of /jwt-state: no sequence of the provider's own calls
\* leads to an exchange.
RefreshNeedsJwtEdit ==
  \A l \in lineage : (\E g \in given : g.id = l[1]) => l[1] \in named

\* What the owner changes of a client, its secret included, ends no grant that
\* another user has given it; only deleting the client does.
OthersGrantsSurvive ==
  [][\A x \in clients, y \in clients' : x.id = y.id /\ x # y =>
       {g \in grants : g.client = x.id /\ g.user # x.owner} \subseteq grants']_oauthVars

=============================================================================
