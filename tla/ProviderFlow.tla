---------------------------- MODULE ProviderFlow ----------------------------
(***************************************************************************)
(* The way through an external provider and back: POST /auth/state with    *)
(* its PKCE challenge, the authorization at the provider, and the callback,*)
(* which exchanges the code, has the profile processed and stores the      *)
(* provider's access token, against unlinking, which removes the tokens.   *)
(*                                                                         *)
(* What processSnsProfile does between its own awaits is SnsAccount's      *)
(* subject and one step here.  Of the providers' side, which is external,  *)
(* the model has what the code counts on: a code works once, and one that  *)
(* was asked for with a challenge only with its verifier.                  *)
(***************************************************************************)
EXTENDS Integers, FiniteSets

CONSTANTS
  Users,
  Accounts,         \* at the providers; each comes with an email of its own
  ProviderOf,       \* the provider of an account
  Pkce,             \* the providers with generateCodeVerifier: x
  Requests,
  NoUser, None,
  MaxState, MaxCode, MaxRow   \* bounds on the ids ever given

ASSUME FlowAssumption ==
  /\ NoUser \notin Users
  /\ MaxState \in Nat /\ MaxCode \in Nat /\ MaxRow \in Nat

VARIABLES
  states,      \* AuthState rows
  codes,       \* authorization codes the providers have given and not exchanged
  owner,       \* ExtraProfile: the user of an account
  born,        \* the user made for an account, whose email it has
  listed,      \* pairs of a user and a provider in its list
  passworded,  \* users with a password
  tokens,      \* ExternalProviderAccessToken rows
  next,        \* next ids of states, codes and tokens
  req

flowVars == <<states, codes, owner, born, listed, passworded, tokens, next, req>>

Providers == {ProviderOf[a] : a \in Accounts}
Existing == {born[a] : a \in Accounts} \ {NoUser}
Idle == [pc |-> "idle"]
With(r, x) == [req EXCEPT ![r] = x]

-----------------------------------------------------------------------------
(* POST /auth/state *)

\* Mutant of Verifier: every provider gets one.
VerifierAlways(p) == next.state
\* isPKCERequired: a provider with PKCE gets a verifier, which the id of the
\* state stands for, and its challenge.
Verifier(p) == IF p \in Pkce THEN next.state ELSE 0

\* createAuthenticationState
CreateState(r, p, u) ==
  /\ req[r].pc = "idle" /\ next.state <= MaxState
  /\ LET s == [id |-> next.state, provider |-> p, user |-> u, verifier |-> Verifier(p)]
     IN  /\ states' = states \cup {s}
         /\ req' = With(r, [pc |-> "created", state |-> s])
  /\ next' = [next EXCEPT !.state = @ + 1]
  /\ UNCHANGED <<codes, owner, born, listed, passworded, tokens>>

\* getCodeChallengeFromState reads the state again; a failed read, or a state that
\* has gone, is no challenge.
Challenges(s) == {0} \cup {t.verifier : t \in {t \in states : t.id = s.id}}

\* Mutant of UrlChallenge: a provider with PKCE is asked without a challenge too.
UrlAnyChallenge(p, challenge) == TRUE
\* getAuthorizationUrl of x throws without a challenge; the others ignore it.
UrlChallenge(p, challenge) == p \in Pkce => challenge # 0

\* The answer of createAuthState
Url(r) ==
  LET s == req[r].state IN
  /\ req[r].pc = "created"
  /\ \E challenge \in Challenges(s) :
       /\ UrlChallenge(s.provider, challenge)
       /\ req' = With(r, [pc |-> "url", state |-> s, challenge |-> challenge])
  /\ UNCHANGED <<states, codes, owner, born, listed, passworded, tokens, next>>

\* The user follows the URL and authorizes account a; the provider sends a code.
Authorize(r, a) ==
  LET q == req[r] IN
  /\ q.pc = "url" /\ ProviderOf[a] = q.state.provider
  /\ next.code <= MaxCode
  /\ codes' = codes \cup {[id |-> next.code, account |-> a, state |-> q.state.id,
                           challenge |-> q.challenge]}
  /\ next' = [next EXCEPT !.code = @ + 1]
  /\ req' = With(r, Idle)
  /\ UNCHANGED <<states, owner, born, listed, passworded, tokens>>

-----------------------------------------------------------------------------
(* GET /auth/callback/:provider *)

\* The state of the query is read; the code of the query is one the provider
\* sent, with this state or another.
Callback(r, s, c) ==
  /\ req[r].pc = "idle"
  /\ s.provider = ProviderOf[c.account]
  /\ req' = With(r, [pc |-> "exchange", state |-> s, code |-> c])
  /\ UNCHANGED <<states, codes, owner, born, listed, passworded, tokens, next>>

\* exchangeXCode: a provider takes a code once, x with the verifier of its
\* challenge.
TakenByX(c, verifier) == c \in codes /\ c.challenge \in {0, verifier}
\* exchangeGoogleCode, exchangeDiscordCode
Taken(c) == c \in codes

\* processOAuth of x throws without a verifier, before it asks the provider.
XOAuth(s, c) == s.verifier # 0 /\ TakenByX(c, s.verifier)
\* ... of google and discord, which are sent no verifier
PlainOAuth(c) == Taken(c)

Exchange(r) ==
  LET c == req[r].code  s == req[r].state IN
  /\ req[r].pc = "exchange"
  /\ IF s.provider \in Pkce THEN XOAuth(s, c) ELSE PlainOAuth(c)
  /\ codes' = codes \ {c}
  /\ req' = With(r, [pc |-> "fetch", state |-> s, code |-> c])
  /\ UNCHANGED <<states, owner, born, listed, passworded, tokens, next>>

\* getXProfile and its like: the code is spent when they fail.
FetchProfile(r) ==
  /\ req[r].pc = "fetch"
  /\ req' = With(r, [pc |-> "profile", state |-> req[r].state, code |-> req[r].code])
  /\ UNCHANGED <<states, codes, owner, born, listed, passworded, tokens, next>>

\* processSnsProfile: the state has the user to link the account to, unless it
\* has one; or the account logs its user in, or a user is made for it.
Process(r) ==
  LET a == req[r].code.account
      go(u, s) ==
        /\ states' = (states \ {s}) \cup {[s EXCEPT !.user = u]}
        /\ req' = With(r, [pc |-> "find", user |-> u, provider |-> s.provider])
  IN
  /\ req[r].pc = "profile"
  /\ \E s \in states :
       /\ s.id = req[r].state.id
       /\ \/ /\ s.user # NoUser /\ owner[a] = NoUser
             /\ owner' = [owner EXCEPT ![a] = s.user]
             /\ go(s.user, s)
             /\ UNCHANGED <<born, listed>>
          \/ /\ s.user = NoUser /\ owner[a] # NoUser
             /\ go(owner[a], s)
             /\ UNCHANGED <<owner, born, listed>>
          \/ /\ s.user = NoUser /\ owner[a] = NoUser /\ born[a] = NoUser
             /\ \E u \in Users \ Existing :
                  /\ owner' = [owner EXCEPT ![a] = u]
                  /\ born' = [born EXCEPT ![a] = u]
                  /\ listed' = listed \cup {<<u, ProviderOf[a]>>}
                  /\ go(u, s)
  /\ UNCHANGED <<codes, passworded, tokens, next>>

Of(u, p) == {t \in tokens : t.user = u /\ t.provider = p}

\* upsertExternalProviderAccessToken: findFirst
FindToken(r) ==
  /\ req[r].pc = "find"
  /\ \E t \in IF Of(req[r].user, req[r].provider) = {} THEN {None}
              ELSE Of(req[r].user, req[r].provider) :
       req' = With(r, [pc |-> "write", user |-> req[r].user,
                       provider |-> req[r].provider, row |-> t])
  /\ UNCHANGED <<states, codes, owner, born, listed, passworded, tokens, next>>

\* ... then the update of the row found, which fails if it has gone, or create
WriteToken(r) ==
  /\ req[r].pc = "write"
  /\ next.row <= MaxRow
  /\ IF req[r].row = None
     THEN /\ tokens' = tokens \cup {[id |-> next.row, user |-> req[r].user,
                                     provider |-> req[r].provider]}
          /\ next' = [next EXCEPT !.row = @ + 1]
     ELSE UNCHANGED <<tokens, next>>
  /\ req' = With(r, Idle)
  /\ UNCHANGED <<states, codes, owner, born, listed, passworded>>

\* The request ends here: refused, failed, or nothing more comes from the user.
Fail(r) ==
  /\ req[r].pc # "idle"
  /\ req' = With(r, Idle)
  /\ UNCHANGED <<states, codes, owner, born, listed, passworded, tokens, next>>

-----------------------------------------------------------------------------
(* Account service *)

SetPassword(u) ==
  /\ u \in Existing \ passworded
  /\ passworded' = passworded \cup {u}
  /\ UNCHANGED <<states, codes, owner, born, listed, tokens, next, req>>

\* unlinkProvider: the list and the profile lose the provider, unless it is all
\* the user has.
Unlink(r, u, p) ==
  /\ req[r].pc = "idle" /\ <<u, p>> \in listed
  /\ u \in passworded \/ \E q \in Providers \ {p} : <<u, q>> \in listed
  /\ listed' = listed \ {<<u, p>>}
  /\ \/ /\ \A a \in Accounts : owner[a] = u => ProviderOf[a] # p
        /\ UNCHANGED owner
     \/ \E a \in Accounts :
          /\ owner[a] = u /\ ProviderOf[a] = p
          /\ owner' = [owner EXCEPT ![a] = NoUser]
  /\ req' = With(r, [pc |-> "tokens", user |-> u, provider |-> p])
  /\ UNCHANGED <<states, codes, born, passworded, tokens, next>>

\* Mutant of ToDelete: one of the rows, as the upsert finds one.
ToDeleteOne(u, p) == IF Of(u, p) = {} THEN {} ELSE {CHOOSE t \in Of(u, p) : TRUE}
\* getByUserId, and the filter by provider
ToDelete(u, p) == Of(u, p)

UnlinkTokens(r) ==
  /\ req[r].pc = "tokens"
  /\ req' = With(r, [pc |-> "delete", user |-> req[r].user, provider |-> req[r].provider,
                     todo |-> ToDelete(req[r].user, req[r].provider), upto |-> next.row])
  /\ UNCHANGED <<states, codes, owner, born, listed, passworded, tokens, next>>

\* A row that has gone meanwhile ends the request with an error.
UnlinkDelete(r) ==
  /\ req[r].pc = "delete"
  /\ \E t \in req[r].todo :
       /\ t \in tokens
       /\ tokens' = tokens \ {t}
       /\ req' = [req EXCEPT ![r].todo = @ \ {t}]
  /\ UNCHANGED <<states, codes, owner, born, listed, passworded, next>>

UnlinkDone(r) ==
  /\ req[r].pc = "delete" /\ req[r].todo = {}
  /\ req' = With(r, Idle)
  /\ UNCHANGED <<states, codes, owner, born, listed, passworded, tokens, next>>

-----------------------------------------------------------------------------

Init ==
  /\ states = {} /\ codes = {} /\ listed = {} /\ passworded = {} /\ tokens = {}
  /\ owner = [a \in Accounts |-> NoUser]
  /\ born = [a \in Accounts |-> NoUser]
  /\ next = [state |-> 1, code |-> 1, row |-> 1]
  /\ req = [r \in Requests |-> Idle]

Next ==
  \/ \E r \in Requests :
       \/ \E p \in Providers, u \in Existing \cup {NoUser} : CreateState(r, p, u)
       \/ Url(r) \/ \E a \in Accounts : Authorize(r, a)
       \/ \E s \in states, c \in codes : Callback(r, s, c)
       \/ Exchange(r) \/ FetchProfile(r) \/ Process(r)
       \/ FindToken(r) \/ WriteToken(r) \/ Fail(r)
       \/ \E u \in Existing, p \in Providers : Unlink(r, u, p)
       \/ UnlinkTokens(r) \/ UnlinkDelete(r) \/ UnlinkDone(r)
  \/ \E u \in Users : SetPassword(u)

Spec == Init /\ [][Next]_flowVars

-----------------------------------------------------------------------------
(* Properties *)

\* The variables have their types; a state of a provider with PKCE has its own
\* verifier, and a code it was asked for the challenge of it.
TypeOK ==
  /\ \A s \in states :
       /\ s \in [id : 1..MaxState, provider : Providers, user : Users \cup {NoUser},
                 verifier : 0..MaxState]
       /\ s.verifier = IF s.provider \in Pkce THEN s.id ELSE 0
  /\ \A c \in codes :
       /\ c \in [id : 1..MaxCode, account : Accounts, state : 1..MaxState,
                 challenge : 0..MaxState]
       /\ ProviderOf[c.account] \in Pkce => c.challenge = c.state
  /\ owner \in [Accounts -> Users \cup {NoUser}]
  /\ born \in [Accounts -> Users \cup {NoUser}]
  /\ listed \subseteq Existing \X Providers /\ passworded \subseteq Existing
  /\ \A t \in tokens : t \in [id : 1..MaxRow, user : Existing, provider : Providers]

\* A profile of a provider with PKCE is processed under the state its account
\* was authorized for, whichever state the callback comes with and however
\* callbacks and retries cross: a failed read of the challenge gives no code
\* that another state could use.
PkceBindsState ==
  \A r \in Requests :
    req[r].pc = "profile" /\ req[r].state.provider \in Pkce =>
      req[r].code.state = req[r].state.id

\* An unlink that succeeds leaves none of the user's tokens for the provider but
\* those made after it looked for them: also when callbacks that overlapped have
\* left two, and when one that found a row writes to it after its deletion.
UnlinkLeavesNone ==
  [][\A r \in Requests :
       UnlinkDone(r) => \A t \in Of(req[r].user, req[r].provider) : t.id >= req[r].upto]_flowVars
=============================================================================
