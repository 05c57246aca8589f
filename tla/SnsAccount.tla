----------------------------- MODULE SnsAccount -----------------------------
(***************************************************************************)
(* Login and linking through an external provider (SNS): the one-time      *)
(* states of POST /auth/state, the provider callback, the one-time token   *)
(* of POST /auth/verify, and what ties accounts of a provider to users:    *)
(* ExtraProfile rows and the providers column of User (SnsAuthCoreService, *)
(* AuthStateService, ExtraProfileService, UserService, AccountService,     *)
(* ExternalProviderLinkVerifyService).                                     *)
(*                                                                         *)
(* A request is cut at its database calls.  Any step may fail (Fail), and  *)
(* a failed request keeps what it has written.  A read that only serves a  *)
(* check the next write repeats (a unique column, a foreign key) is part   *)
(* of that write.  What POST /auth/verify does with the user it has logged *)
(* in is JwtSession's SnsVerify.                                           *)
(***************************************************************************)
EXTENDS Integers, FiniteSets

CONSTANTS
  Users,       \* ids of users, each used once
  Accounts,    \* accounts at the providers
  Providers,
  ProviderOf,  \* the provider of an account
  Emails,
  EmailOf,     \* the email an account comes with, or the one made up for it
  Requests,
  NoUser, None,
  MaxState,    \* bound on the AuthState rows ever created
  MaxRow       \* bound on the access token and link verification rows ever created

ASSUME SnsBounds == MaxState \in Nat /\ MaxRow \in Nat
ASSUME SnsNames ==
  /\ NoUser \notin Users
  /\ ProviderOf \in [Accounts -> Providers]
  /\ EmailOf \in [Accounts -> Emails]

VARIABLES
  users,     \* rows of User
  profiles,  \* rows of ExtraProfile
  states,    \* rows of AuthState
  tokens,    \* rows of ExternalProviderAccessToken
  verifies,  \* rows of ExternalProviderLinkVerify
  created,   \* the ids of all users ever
  minted,    \* ids handed out to AuthState rows: 1..minted
  rows,      \* ids handed out to the two tables above: 1..rows
  out,       \* states whose one-time token has been sent to a client
  logins,    \* history: states that have logged somebody in
  signed,    \* users that a state has logged in
  req

snsVars == <<users, profiles, states, tokens, verifies, created, minted, rows, out,
             logins, signed, req>>

-----------------------------------------------------------------------------

Ids == 1..MaxState
RowIds == 1..MaxRow

User == [id : Users, email : Emails, password : BOOLEAN, providers : SUBSET Providers]
UserRow(u, e, pw, P) == [id |-> u, email |-> e, password |-> pw, providers |-> P]

\* Every caller sets linkingVerified, so the column is left out.
Profile == [account : Accounts, user : Users]

\* user: whom to link or to log in; fresh: its 15 minutes are not over.
AuthState == [id : Ids, provider : Providers, user : Users \cup {NoUser},
              used : BOOLEAN, fresh : BOOLEAN]
StateRow(i, p, u, used, fresh) ==
  [id |-> i, provider |-> p, user |-> u, used |-> used, fresh |-> fresh]

LinkRow == [id : RowIds, user : Users, provider : Providers]
NewRow(i, u, p) == [id |-> i, user |-> u, provider |-> p]

PC == {"idle", "found", "link", "known", "new", "made", "profiled", "attach", "token",
       "stored", "verify", "consumed", "unlink", "unlisted", "unlinked", "linking"}

\* row: the AuthState as it was read; item: the account, the provider or the
\* link verification it is about; early: nobody had logged in with the state.
NoState == [id |-> 0]
Task(pc, row, item, u, early) ==
  [pc |-> pc, row |-> row, item |-> item, user |-> u, early |-> early]

Idle == Task("idle", NoState, None, NoUser, FALSE)

Continue(r, q) == req' = [req EXCEPT ![r] = q]
Finish(r) == Continue(r, Idle)
\* The same request, at the next step and for user u.
Step(r, pc, u) == Continue(r, Task(pc, req[r].row, req[r].item, u, req[r].early))

Known(u) == \E x \in users : x.id = u
\* Whoever owns user x can have a session.
CanSignIn(x) == x.password \/ x.id \in signed
EmailTaken(e) == \E x \in users : x.email = e
\* findExtraProfileByProvider
Tied(a) == {x \in profiles : x.account = a}
\* findAuthState
Found(i) == {s \in states : s.id = i}

-----------------------------------------------------------------------------
(* POST /auth/state *)

\* The body may name a user: a state for linking.
CreateState(p, u) ==
  /\ minted < MaxState
  /\ u = NoUser \/ Known(u)
  /\ states' = states \cup {StateRow(minted + 1, p, u, FALSE, TRUE)}
  /\ minted' = minted + 1
  /\ UNCHANGED <<users, profiles, tokens, verifies, created, rows, out, logins, signed, req>>

StateExpires(s) ==
  /\ s.fresh
  /\ states' = (states \ {s}) \cup {StateRow(s.id, s.provider, s.user, s.used, FALSE)}
  /\ UNCHANGED <<users, profiles, tokens, verifies, created, minted, rows, out, logins, signed, req>>

-----------------------------------------------------------------------------
(* GET /auth/callback/:provider *)

\* The provider has said who the account is; processSnsProfile reads the state.
Callback(r, s, a) ==
  /\ req[r].pc = "idle"
  /\ s.provider = ProviderOf[a] /\ ~s.used /\ s.fresh
  /\ Continue(r, Task("found", s, a, NoUser, s.id \notin logins))
  /\ UNCHANGED <<users, profiles, states, tokens, verifies, created, minted, rows, out, logins, signed>>

\* Who has the account, and the choice of the flow.
Match(r) ==
  LET q == req[r]
      mine == Tied(q.item)
  IN
  /\ q.pc = "found"
  /\ \/ q.row.user # NoUser /\ mine # {} /\ Finish(r)
     \/ q.row.user # NoUser /\ mine = {} /\ Step(r, "link", q.row.user)
     \/ q.row.user = NoUser /\ \E x \in mine : Step(r, "known", x.user)
     \/ q.row.user = NoUser /\ mine = {} /\ Step(r, "new", NoUser)
  /\ UNCHANGED <<users, profiles, states, tokens, verifies, created, minted, rows, out, logins, signed>>

\* Mutant of UpsertProfile: the update branch writes the user too.
UpsertProfileMoves(a, u) ==
  /\ Known(u)
  /\ profiles' = {x \in profiles : x.account # a} \cup {[account |-> a, user |-> u]}

\* upsertExtraProfile: <providerId, provider> is unique, and the row of an
\* account that has one keeps its user.
UpsertProfile(a, u) ==
  \/ Tied(a) # {} /\ profiles' = profiles
  \/ /\ Tied(a) = {}
     /\ Known(u)
     /\ profiles' = profiles \cup {[account |-> a, user |-> u]}

\* The upsert of the link flow and that of a login with a known account
SaveProfile(r) ==
  /\ req[r].pc \in {"link", "known"}
  /\ req[r].pc = "link" => Known(req[r].user)
  /\ UpsertProfile(req[r].item, req[r].user)
  /\ Step(r, "attach", req[r].user)
  /\ UNCHANGED <<users, states, tokens, verifies, created, minted, rows, out, logins, signed>>

\* createSnsUser, unless the email is in use.
MakeUser(r, u) ==
  LET a == req[r].item IN
  /\ req[r].pc = "new"
  /\ u \notin created /\ ~EmailTaken(EmailOf[a])
  /\ users' = users \cup {UserRow(u, EmailOf[a], FALSE, {ProviderOf[a]})}
  /\ created' = created \cup {u}
  /\ Step(r, "made", u)
  /\ UNCHANGED <<profiles, states, tokens, verifies, minted, rows, out, logins, signed>>

\* The upsert for a user just made
NewProfile(r) ==
  /\ req[r].pc = "made"
  /\ UpsertProfile(req[r].item, req[r].user)
  /\ Step(r, "profiled", req[r].user)
  /\ UNCHANGED <<users, states, tokens, verifies, created, minted, rows, out, logins, signed>>

\* addUserProvider
Listed(u, p) ==
  \E x \in users :
    /\ x.id = u
    /\ users' = (users \ {x}) \cup {UserRow(u, x.email, x.password, x.providers \cup {p})}

AddProvider(r) ==
  /\ req[r].pc = "profiled"
  /\ Listed(req[r].user, ProviderOf[req[r].item])
  /\ Step(r, "attach", req[r].user)
  /\ UNCHANGED <<profiles, states, tokens, verifies, created, minted, rows, out, logins, signed>>

\* updateAuthStateWithUser
Attach(r) ==
  LET q == req[r] IN
  /\ q.pc = "attach"
  /\ Known(q.user)
  /\ \E s \in Found(q.row.id) :
       states' = (states \ {s}) \cup {StateRow(s.id, s.provider, q.user, s.used, s.fresh)}
  /\ Step(r, "token", q.user)
  /\ UNCHANGED <<users, profiles, tokens, verifies, created, minted, rows, out, logins, signed>>

\* The callback stores the provider's access token, if it has got one: the
\* user's row for the provider is updated, or made.  (Two callbacks at once may
\* make two, which is ProviderFlow's subject; one stands for both here.)
StoreToken(r) ==
  LET q == req[r]
      p == q.row.provider
  IN
  /\ q.pc = "token"
  /\ \/ UNCHANGED <<tokens, rows>>
     \/ /\ \A t \in tokens : ~(t.user = q.user /\ t.provider = p)
        /\ Known(q.user) /\ rows < MaxRow
        /\ tokens' = tokens \cup {NewRow(rows + 1, q.user, p)}
        /\ rows' = rows + 1
  /\ Step(r, "stored", q.user)
  /\ UNCHANGED <<users, profiles, states, verifies, created, minted, out, logins, signed>>

\* ExternalProviderLinkVerifyService.create: a new row replaces the user's for
\* the provider.
NewLink(u, p) ==
  /\ rows < MaxRow
  /\ verifies' = {v \in verifies : ~(v.user = u /\ v.provider = p)} \cup {NewRow(rows + 1, u, p)}
  /\ rows' = rows + 1

\* createExternalProviderLinkVerificationIfNeeded, then the redirect with the
\* one-time token.
Redirect(r) ==
  LET q == req[r]
      p == q.row.provider
  IN
  /\ q.pc = "stored"
  /\ \E x \in users :
       /\ x.id = q.user
       /\ \/ /\ x.password => p \in x.providers
             /\ UNCHANGED <<verifies, rows>>
          \/ x.password /\ p \notin x.providers /\ NewLink(q.user, p)
  /\ out' = out \cup {q.row.id}
  /\ Finish(r)
  /\ UNCHANGED <<users, profiles, states, tokens, created, minted, logins, signed>>

-----------------------------------------------------------------------------
(* POST /auth/verify *)

\* verifyAndCreateToken finds the state, with its token in the body.
Verify(r, s) ==
  /\ req[r].pc = "idle"
  /\ s.id \in out /\ ~s.used /\ s.fresh /\ s.user # NoUser
  /\ Continue(r, Task("verify", s, None, s.user, s.id \notin logins))
  /\ UNCHANGED <<users, profiles, states, tokens, verifies, created, minted, rows, out, logins, signed>>

\* Mutant of ConsumeState: the state is looked up again and left as it is.
ConsumeStateNot(r) ==
  /\ req[r].pc = "verify"
  /\ Found(req[r].row.id) # {}
  /\ Step(r, "consumed", req[r].user)
  /\ UNCHANGED <<users, profiles, states, tokens, verifies, created, minted, rows, out, logins, signed>>

\* consumeAuthState sets used, whatever it was.
ConsumeState(r) ==
  /\ req[r].pc = "verify"
  /\ \E s \in Found(req[r].row.id) :
       states' = (states \ {s}) \cup {StateRow(s.id, s.provider, s.user, TRUE, s.fresh)}
  /\ Step(r, "consumed", req[r].user)
  /\ UNCHANGED <<users, profiles, tokens, verifies, created, minted, rows, out, logins, signed>>

\* The tokens are signed for the user that the state named when it was read.
LogIn(r) ==
  /\ req[r].pc = "consumed"
  /\ Known(req[r].user)
  /\ logins' = logins \cup {req[r].row.id}
  /\ signed' = signed \cup {req[r].user}
  /\ Finish(r)
  /\ UNCHANGED <<users, profiles, states, tokens, verifies, created, minted, rows, out>>

-----------------------------------------------------------------------------
(* POST /auth/link/verify *)

\* verify finds the row whose code is in the body.
LinkVerify(r, v) ==
  /\ req[r].pc = "idle"
  /\ Continue(r, Task("linking", NoState, v, v.user, FALSE))
  /\ UNCHANGED <<users, profiles, states, tokens, verifies, created, minted, rows, out, logins, signed>>

\* finalizeExternalProviderLinkAfterVerification: once the row is marked and
\* gone, the provider is listed.
Finalize(v) == verifies' = verifies \ {v} /\ Listed(v.user, v.provider)

\* Mutant of MarkLinked: the access token is the one of the user and provider.
MarkLinkedOfUser(r) ==
  LET v == req[r].item IN
  /\ req[r].pc = "linking"
  /\ IF \E t \in tokens : t.user = v.user /\ t.provider = v.provider
     THEN Finalize(v)
     ELSE UNCHANGED <<users, verifies>>
  /\ Finish(r)
  /\ UNCHANGED <<profiles, states, tokens, created, minted, rows, out, logins, signed>>

\* markAsLinkingVerified updates the access token that has the id of the
\* verification, which is an error if there is none; then it marks the user's
\* profile and removes the verification.
MarkLinked(r) ==
  LET v == req[r].item IN
  /\ req[r].pc = "linking"
  /\ IF \E t \in tokens : t.id = v.id
     THEN Finalize(v)
     ELSE UNCHANGED <<users, verifies>>
  /\ Finish(r)
  /\ UNCHANGED <<profiles, states, tokens, created, minted, rows, out, logins, signed>>

-----------------------------------------------------------------------------
(* POST /account/providers/unlink *)

\* Mutant of Unlink: the last provider may go.
UnlinkLast(r, x, p) ==
  /\ req[r].pc = "idle"
  /\ CanSignIn(x) /\ p \in x.providers
  /\ x.password \/ Cardinality(x.providers) >= 1
  /\ Continue(r, Task("unlink", NoState, p, x.id, FALSE))
  /\ UNCHANGED <<users, profiles, states, tokens, verifies, created, minted, rows, out, logins, signed>>

\* unlinkProvider, by user row x: a user without a password keeps one.
Unlink(r, x, p) ==
  /\ req[r].pc = "idle"
  /\ CanSignIn(x) /\ p \in x.providers
  /\ x.password \/ Cardinality(x.providers) > 1
  /\ Continue(r, Task("unlink", NoState, p, x.id, FALSE))
  /\ UNCHANGED <<users, profiles, states, tokens, verifies, created, minted, rows, out, logins, signed>>

\* removeUserProvider
Unlist(r) ==
  LET u == req[r].user IN
  /\ req[r].pc = "unlink"
  /\ \E x \in users :
       /\ x.id = u
       /\ users' = (users \ {x}) \cup
                     {UserRow(u, x.email, x.password, x.providers \ {req[r].item})}
  /\ Step(r, "unlisted", u)
  /\ UNCHANGED <<profiles, states, tokens, verifies, created, minted, rows, out, logins, signed>>

\* removeProfileByUser removes one of the user's profiles at the provider, of
\* several the first it finds.
RemoveProfile(r) ==
  LET mine == {x \in profiles : x.user = req[r].user /\ ProviderOf[x.account] = req[r].item} IN
  /\ req[r].pc = "unlisted"
  /\ \/ mine = {} /\ UNCHANGED profiles
     \/ \E x \in mine : profiles' = profiles \ {x}
  /\ Step(r, "unlinked", req[r].user)
  /\ UNCHANGED <<users, states, tokens, verifies, created, minted, rows, out, logins, signed>>

RemoveTokens(r) ==
  /\ req[r].pc = "unlinked"
  /\ tokens' = {t \in tokens : ~(t.user = req[r].user /\ t.provider = req[r].item)}
  /\ Finish(r)
  /\ UNCHANGED <<users, profiles, states, verifies, created, minted, rows, out, logins, signed>>

-----------------------------------------------------------------------------
(* The rest of the system *)

Fail(r) ==
  /\ req[r].pc # "idle"
  /\ Finish(r)
  /\ UNCHANGED <<users, profiles, states, tokens, verifies, created, minted, rows, out, logins, signed>>

\* POST /auth/register
Register(u, e) ==
  /\ u \notin created /\ ~EmailTaken(e)
  /\ users' = users \cup {UserRow(u, e, TRUE, {})}
  /\ created' = created \cup {u}
  /\ UNCHANGED <<profiles, states, tokens, verifies, minted, rows, out, logins, signed, req>>

\* The account service gives user x a password (set-password, confirm-reset).
SetPassword(x) ==
  /\ ~x.password
  /\ users' = (users \ {x}) \cup {UserRow(x.id, x.email, TRUE, x.providers)}
  /\ UNCHANGED <<profiles, states, tokens, verifies, created, minted, rows, out, logins, signed, req>>

\* verifyEmailChange's update of the email
ChangeEmail(x, e) ==
  /\ CanSignIn(x) /\ ~EmailTaken(e)
  /\ users' = (users \ {x}) \cup {UserRow(x.id, e, x.password, x.providers)}
  /\ UNCHANGED <<profiles, states, tokens, verifies, created, minted, rows, out, logins, signed, req>>

\* Mutant of DeleteUser: the foreign key of ExtraProfile has no cascade.
DeleteUserKeepsProfiles(x) ==
  /\ \A v \in verifies : v.user # x.id
  /\ users' = users \ {x}
  /\ states' = {s \in states : s.user # x.id}
  /\ tokens' = {t \in tokens : t.user # x.id}
  /\ UNCHANGED <<profiles, verifies, created, minted, rows, out, logins, signed, req>>

\* AuthService.remove.  The foreign key of ExternalProviderLinkVerify is the one
\* that refuses; the others cascade.
DeleteUser(x) ==
  /\ \A v \in verifies : v.user # x.id
  /\ users' = users \ {x}
  /\ profiles' = {y \in profiles : y.user # x.id}
  /\ states' = {s \in states : s.user # x.id}
  /\ tokens' = {t \in tokens : t.user # x.id}
  /\ UNCHANGED <<verifies, created, minted, rows, out, logins, signed, req>>

-----------------------------------------------------------------------------

Init ==
  /\ users = {} /\ profiles = {} /\ states = {} /\ tokens = {} /\ verifies = {}
  /\ created = {} /\ minted = 0 /\ rows = 0 /\ out = {}
  /\ logins = {} /\ signed = {}
  /\ req = [r \in Requests |-> Idle]

\* Both are behind JwtAuthGuard, which Unlink asks of its user; whoever has the
\* code of a verification has been given it on the way back from a callback.
LinkHandler(r) ==
  (\E v \in verifies : LinkVerify(r, v)) \/ MarkLinked(r)

UnlinkHandler(r) ==
  \/ \E x \in users, p \in Providers : Unlink(r, x, p)
  \/ Unlist(r) \/ RemoveProfile(r) \/ RemoveTokens(r)

Handler(r) ==
  \/ \E s \in states, a \in Accounts : Callback(r, s, a)
  \/ Match(r) \/ SaveProfile(r)
  \/ \E u \in Users : MakeUser(r, u)
  \/ NewProfile(r) \/ AddProvider(r) \/ Attach(r) \/ StoreToken(r) \/ Redirect(r)
  \/ \E s \in states : Verify(r, s)
  \/ ConsumeState(r) \/ LogIn(r)
  \/ LinkHandler(r) \/ UnlinkHandler(r)
  \/ Fail(r)

Next ==
  \/ \E p \in Providers, u \in Users \cup {NoUser} : CreateState(p, u)
  \/ \E s \in states : StateExpires(s)
  \/ \E r \in Requests : Handler(r)
  \/ \E u \in Users, e \in Emails : Register(u, e)
  \/ \E x \in users : SetPassword(x) \/ DeleteUser(x)
  \/ \E x \in users, e \in Emails : ChangeEmail(x, e)

Spec == Init /\ [][Next]_snsVars

-----------------------------------------------------------------------------
(* Properties *)

\* Every row has its shape, its table's unique columns are unique, and the
\* users that rows refer to exist.
TypeOK ==
  /\ users \subseteq User
  /\ \A x, y \in users : x.id = y.id \/ x.email = y.email => x = y
  /\ profiles \subseteq Profile
  /\ \A x, y \in profiles : x.account = y.account => x = y
  /\ \A x \in profiles : Known(x.user)
  /\ states \subseteq AuthState
  /\ \A s \in states : s.user # NoUser => Known(s.user)
  /\ tokens \subseteq LinkRow /\ verifies \subseteq LinkRow
  /\ \A x \in tokens \cup verifies : Known(x.user)
  /\ created \subseteq Users
  /\ minted \in 0..MaxState /\ rows \in 0..MaxRow
  /\ out \subseteq Ids
  /\ logins \subseteq Ids /\ signed \subseteq created
  /\ req \in [Requests ->
                [pc : PC, row : AuthState \cup {NoState},
                 item : Accounts \cup Providers \cup LinkRow \cup {None},
                 user : Users \cup {NoUser}, early : BOOLEAN]]

\* An account that is tied to a user never passes to another one: two callbacks
\* for it may both have found it free, only the first ties it, and what was
\* read before an unlink or a deletion does no harm after it.  (The second one's
\* user, if it has just been made, therefore ends up with no profile.)
ProfileKeepsOwner ==
  [][\A x \in profiles, y \in profiles' :
       x.account = y.account => x.user = y.user]_snsVars

\* A user without a password is never left without a provider to log in with,
\* however unlinking requests overlap.
PasswordlessKeepsProvider ==
  \A x \in users : ~x.password => x.providers # {}

\* Nothing adds a provider to a user that exists: a provider is listed by the
\* callback that made the user or not at all, since POST /auth/link/verify
\* looks for the access token under the id of the verification.
ProvidersFromCreation ==
  [][\A x \in users, y \in users' :
       x.id = y.id /\ ~(\E r \in Requests : req[r].pc = "profiled" /\ req[r].user = x.id)
         => y.providers \subseteq x.providers]_snsVars

\* A login ends its state: no callback and no POST /auth/verify reads it after
\* that, and only those that had read it before still go on, whatever a callback
\* in flight writes back into it.  (Nothing earlier ends it.  A second callback
\* before the login finds the user the first has written and takes the link
\* flow, and two verifications that overlap both log in.)
LoginEndsState ==
  \A r \in Requests : req[r].row # NoState => req[r].early

=============================================================================
