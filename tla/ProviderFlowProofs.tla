------------------------- MODULE ProviderFlowProofs -------------------------
(***************************************************************************)
(* Proofs about ProviderFlow for every set of users, accounts, providers   *)
(* and requests, whichever providers ask for a challenge.                  *)
(***************************************************************************)
EXTENDS ProviderFlow, TLAPS

USE FlowAssumption

-----------------------------------------------------------------------------
(* The inductive invariant *)

\* A user that rows may name.
Somebody == Existing \cup {NoUser}

\* A state as createAuthenticationState made it, whoever it is for by now.
StateOK(s, E) ==
  /\ s \in [id : 1..MaxState, provider : Providers, user : Users \cup {NoUser},
            verifier : 0..MaxState]
  /\ s.verifier = IF s.provider \in Pkce THEN s.id ELSE 0
  /\ s.user \in E \cup {NoUser}

\* A code that a provider has sent: one of a provider with PKCE is bound to the
\* state whose challenge it was asked with.
CodeOK(c) ==
  /\ c \in [id : 1..MaxCode, account : Accounts, state : 1..MaxState, challenge : 0..MaxState]
  /\ ProviderOf[c.account] \in Pkce => c.challenge = c.state

CallbackPC == {"exchange", "fetch", "profile"}

Tokens(E) == [id : 1..MaxRow, user : E, provider : Providers]

\* An unlink that has looked for the tokens.
Deletion(E) ==
  [pc : {"delete"}, user : E, provider : Providers, todo : SUBSET Tokens(E), upto : Nat]

\* What a handler may rely on in its record q, E being the users there are.
TaskOK(q, E) ==
  /\ q.pc \in {"created", "url"} \cup CallbackPC => StateOK(q.state, E)
  /\ q.pc = "url" =>
       q.challenge \in 0..MaxState
         /\ (q.state.provider \in Pkce => q.challenge = q.state.id)
  /\ q.pc \in CallbackPC =>
       CodeOK(q.code) /\ q.state.provider = ProviderOf[q.code.account]
  /\ q.pc \in {"fetch", "profile"} /\ q.state.provider \in Pkce =>
       q.code.state = q.state.id
  /\ q.pc \in {"find", "write", "tokens", "delete"} =>
       q.user \in E /\ q.provider \in Providers
  /\ q.pc = "delete" => q \in Deletion(E)

ReqInv == DOMAIN req = Requests /\ \A r \in Requests : TaskOK(req[r], Existing)

RowsInv ==
  /\ \A s \in states : StateOK(s, Existing)
  /\ \A c \in codes : CodeOK(c)
  /\ tokens \subseteq Tokens(Existing)

UsersInv ==
  /\ owner \in [Accounts -> Somebody]
  /\ born \in [Accounts -> Users \cup {NoUser}]
  /\ listed \subseteq Existing \X Providers /\ passworded \subseteq Existing

NextInv ==
  next \in [state : Nat \ {0}, code : Nat \ {0}, row : Nat \ {0}]

\* What an unlink has still to delete is what there was of the user's tokens
\* when it looked for them.
UnlinkInv ==
  \A r \in Requests : req[r].pc = "delete" =>
    /\ req[r].upto <= next.row
    /\ \A t \in Of(req[r].user, req[r].provider) : t.id >= req[r].upto \/ t \in req[r].todo

IInv == ReqInv /\ RowsInv /\ UsersInv /\ NextInv /\ UnlinkInv

-----------------------------------------------------------------------------
(* What each step does to req *)

OthersStay(r) == \A p \in Requests : p # r => req'[p] = req[p]

LEMMA Moves ==
  ASSUME ReqInv, NEW r \in Requests, NEW q, req' = With(r, q)
  PROVE  DOMAIN req' = Requests /\ req'[r] = q /\ OthersStay(r)
  BY DEF ReqInv, With, OthersStay

\* More users do no harm to what a record says.
LEMMA MoreUsers ==
  ASSUME NEW E, NEW F, E \subseteq F
  PROVE  /\ \A s : StateOK(s, E) => StateOK(s, F)
         /\ \A q : TaskOK(q, E) => TaskOK(q, F)
  <1>1. \A s : StateOK(s, E) => StateOK(s, F)
    BY DEF StateOK
  <1>2. Tokens(E) \subseteq Tokens(F)
    BY DEF Tokens
  <1>3. Deletion(E) \subseteq Deletion(F)
    BY <1>2 DEF Deletion
  <1>4. ASSUME NEW q, TaskOK(q, E) PROVE TaskOK(q, F)
    BY <1>1, <1>3, <1>4 DEF TaskOK
  <1> QED BY <1>1, <1>4

\* One request goes on with a record that is right, the others stay.
LEMMA ReqStep ==
  ASSUME ReqInv, NEW r \in Requests, NEW q, req' = With(r, q),
         Existing \subseteq Existing', TaskOK(q, Existing')
  PROVE  ReqInv'
  <1>1. DOMAIN req' = Requests /\ req'[r] = q /\ OthersStay(r)
    BY Moves
  <1>2. ASSUME NEW p \in Requests PROVE TaskOK(req'[p], Existing')
    <2>1. CASE p = r
      BY <1>1, <2>1
    <2>2. CASE p # r
      <3>1. TaskOK(req[p], Existing) /\ req'[p] = req[p]
        BY <1>1, <2>2 DEF ReqInv, OthersStay
      <3> QED BY <3>1, MoreUsers
    <2> QED BY <2>1, <2>2
  <1> QED BY <1>1, <1>2 DEF ReqInv

LEMMA IdleOK == ASSUME NEW E PROVE TaskOK(Idle, E) /\ Idle.pc = "idle"
  BY DEF Idle, TaskOK, CallbackPC

\* A step that makes no user.
LEMMA SameUsers ==
  ASSUME born' = born
  PROVE  Existing' = Existing
  BY DEF Existing

\* Everything but req is left alone, and perhaps ids are given out.
LEMMA RowsKept ==
  ASSUME RowsInv, born' = born, states' = states, codes' \subseteq codes, tokens' \subseteq tokens
  PROVE  RowsInv'
  <1>1. Existing' = Existing
    BY SameUsers
  <1> QED BY <1>1 DEF RowsInv

LEMMA UsersKept ==
  ASSUME UsersInv, UNCHANGED <<owner, born, listed, passworded>>
  PROVE  UsersInv'
  <1>1. Existing' = Existing
    BY SameUsers
  <1> QED BY <1>1 DEF UsersInv, Somebody

\* UnlinkInv, of one record.
Looked(q, T, n) ==
  q.pc = "delete" =>
    /\ q.upto <= n
    /\ \A t \in T : t.user = q.user /\ t.provider = q.provider => t.id >= q.upto \/ t \in q.todo

LEMMA UnlinkInvByRecord ==
  /\ UnlinkInv <=> \A r \in Requests : Looked(req[r], tokens, next.row)
  /\ UnlinkInv' <=> \A r \in Requests : Looked(req'[r], tokens', next'.row)
  BY DEF UnlinkInv, Of, Looked

\* Tokens go, or are new; the request that moves keeps what it looked for.
LEMMA UnlinkKeptBy ==
  ASSUME ReqInv, UnlinkInv, NextInv, NextInv', next'.row >= next.row,
         \A t \in tokens' : t \in tokens \/ t.id = next.row,
         NEW r \in Requests, OthersStay(r), Looked(req'[r], tokens', next'.row)
  PROVE  UnlinkInv'
  <1>1. ASSUME NEW p \in Requests PROVE Looked(req'[p], tokens', next'.row)
    <2>1. CASE p = r
      BY <2>1
    <2>2. CASE p # r
      <3>1. req'[p] = req[p] /\ Looked(req[p], tokens, next.row)
        BY <2>2, UnlinkInvByRecord DEF OthersStay
      <3>2. req[p].pc = "delete" => req[p].upto \in Nat
        BY DEF ReqInv, TaskOK, Deletion
      <3>3. next.row \in Nat /\ next'.row \in Nat
        BY DEF NextInv
      <3> QED BY <3>1, <3>2, <3>3 DEF Looked
    <2> QED BY <2>1, <2>2
  <1> QED BY <1>1, UnlinkInvByRecord

LEMMA UnlinkKept ==
  ASSUME ReqInv, UnlinkInv, NextInv, NextInv', next'.row >= next.row,
         \A t \in tokens' : t \in tokens \/ t.id = next.row,
         NEW r \in Requests, OthersStay(r), req'[r].pc # "delete"
  PROVE  UnlinkInv'
  BY UnlinkKeptBy DEF Looked

\* The next ids when one of them is given out.
LEMMA NextStep ==
  ASSUME NextInv
  PROVE  /\ next.state \in Nat \ {0} /\ next.code \in Nat \ {0} /\ next.row \in Nat \ {0}
         /\ next' = next => NextInv' /\ next'.row >= next.row
         /\ next' = [next EXCEPT !.state = @ + 1] => NextInv' /\ next'.row >= next.row
         /\ next' = [next EXCEPT !.code = @ + 1] => NextInv' /\ next'.row >= next.row
         /\ next' = [next EXCEPT !.row = @ + 1] => NextInv' /\ next'.row >= next.row
  BY DEF NextInv

-----------------------------------------------------------------------------
(* IInv, action by action *)

LEMMA InitIInv ==
  ASSUME Init
  PROVE  IInv
  <1>1. ReqInv
    BY IdleOK DEF Init, ReqInv
  <1>2. RowsInv /\ UsersInv /\ NextInv
    BY DEF Init, RowsInv, UsersInv, NextInv, Somebody
  <1>3. UnlinkInv
    BY DEF Init, UnlinkInv, Idle
  <1> QED BY <1>1, <1>2, <1>3 DEF IInv

\* A step of request r that only changes req and takes it to no deletion.
LEMMA OnlyReq ==
  ASSUME IInv, NEW r \in Requests, NEW q, req' = With(r, q), TaskOK(q, Existing),
         q.pc # "delete",
         UNCHANGED <<states, codes, owner, born, listed, passworded, tokens, next>>
  PROVE  IInv'
  <1>1. Existing' = Existing
    BY SameUsers
  <1>2. ReqInv'
    BY <1>1, ReqStep DEF IInv
  <1>3. RowsInv' /\ UsersInv'
    BY RowsKept, UsersKept DEF IInv
  <1>4. NextInv' /\ next'.row >= next.row
    BY NextStep DEF IInv
  <1>5. UnlinkInv'
    BY <1>4, Moves, UnlinkKept DEF IInv
  <1> QED BY <1>2, <1>3, <1>4, <1>5 DEF IInv

LEMMA CreateStateOK ==
  ASSUME IInv, NEW r \in Requests, NEW p \in Providers, NEW u \in Somebody, CreateState(r, p, u)
  PROVE  IInv'
  <1> DEFINE s == [id |-> next.state, provider |-> p, user |-> u, verifier |-> Verifier(p)]
             q == [pc |-> "created", state |-> s]
  <1>1. /\ next.state <= MaxState /\ states' = states \cup {s} /\ req' = With(r, q)
        /\ next' = [next EXCEPT !.state = @ + 1]
        /\ UNCHANGED <<codes, owner, born, listed, passworded, tokens>>
    BY DEF CreateState
  <1>2. NextInv' /\ next'.row >= next.row /\ next.state \in 1..MaxState
    BY <1>1, NextStep DEF IInv
  <1>3. StateOK(s, Existing)
    <2>1. u \in Users \cup {NoUser} /\ u \in Existing \cup {NoUser}
      BY DEF Somebody, Existing, IInv, UsersInv
    <2>2. Verifier(p) \in 0..MaxState
      BY <1>2 DEF Verifier
    <2> QED BY <1>2, <2>1, <2>2 DEF StateOK, Verifier
  <1>4. Existing' = Existing
    BY <1>1, SameUsers
  <1> HIDE DEF s
  <1>5. TaskOK(q, Existing) /\ q.pc # "delete"
    BY <1>3 DEF TaskOK, CallbackPC
  <1> HIDE DEF q
  <1>6. ReqInv'
    BY <1>1, <1>4, <1>5, ReqStep DEF IInv
  <1>7. RowsInv'
    BY <1>1, <1>3, <1>4 DEF IInv, RowsInv
  <1>8. UsersInv'
    BY <1>1, UsersKept DEF IInv
  <1>9. UnlinkInv'
    BY <1>1, <1>2, <1>5, Moves, UnlinkKept DEF IInv
  <1> QED BY <1>2, <1>6, <1>7, <1>8, <1>9 DEF IInv

\* The challenge that a URL of a provider with PKCE comes with is the one of
\* its state: 0, from a failed read, gives no URL.
LEMMA UrlOK ==
  ASSUME IInv, NEW r \in Requests, Url(r)
  PROVE  IInv'
  <1>1. PICK s : s = req[r].state
    OBVIOUS
  <1>2. PICK challenge \in Challenges(s) :
          /\ UrlChallenge(s.provider, challenge)
          /\ req' = With(r, [pc |-> "url", state |-> s, challenge |-> challenge])
    BY <1>1 DEF Url
  <1>3. StateOK(s, Existing)
    BY <1>1 DEF Url, IInv, ReqInv, TaskOK
  <1>4. challenge = 0 \/ \E t \in states : t.id = s.id /\ challenge = t.verifier
    BY DEF Challenges
  <1>5. \A t \in states : t.verifier \in 0..MaxState /\ (t.verifier # 0 => t.verifier = t.id)
    BY DEF IInv, RowsInv, StateOK
  <1>6. challenge \in 0..MaxState
    BY <1>4, <1>5
  <1>7. s.provider \in Pkce => challenge = s.id
    BY <1>2, <1>4, <1>5 DEF UrlChallenge
  <1> DEFINE q == [pc |-> "url", state |-> s, challenge |-> challenge]
  <1>8. TaskOK(q, Existing) /\ q.pc # "delete" /\ req' = With(r, q)
    BY <1>2, <1>3, <1>6, <1>7 DEF TaskOK, CallbackPC
  <1> HIDE DEF q
  <1> QED BY <1>8, OnlyReq DEF Url

LEMMA AuthorizeOK ==
  ASSUME IInv, NEW r \in Requests, NEW a \in Accounts, Authorize(r, a)
  PROVE  IInv'
  <1> DEFINE c == [id |-> next.code, account |-> a, state |-> req[r].state.id,
                   challenge |-> req[r].challenge]
  <1>1. /\ req[r].pc = "url" /\ ProviderOf[a] = req[r].state.provider
        /\ next.code <= MaxCode /\ codes' = codes \cup {c}
        /\ next' = [next EXCEPT !.code = @ + 1] /\ req' = With(r, Idle)
        /\ UNCHANGED <<states, owner, born, listed, passworded, tokens>>
    BY DEF Authorize
  <1>2. NextInv' /\ next'.row >= next.row /\ next.code \in 1..MaxCode
    BY <1>1, NextStep DEF IInv
  <1>3. TaskOK(req[r], Existing)
    BY DEF IInv, ReqInv
  <1>4. CodeOK(c)
    BY <1>1, <1>2, <1>3 DEF TaskOK, StateOK, CodeOK
  <1> HIDE DEF c
  <1>5. Existing' = Existing
    BY <1>1, SameUsers
  <1>6. ReqInv'
    BY <1>1, <1>5, IdleOK, ReqStep DEF IInv
  <1>7. RowsInv'
    BY <1>1, <1>4, <1>5 DEF IInv, RowsInv
  <1>8. UsersInv'
    BY <1>1, UsersKept DEF IInv
  <1>9. UnlinkInv'
    BY <1>1, <1>2, IdleOK, Moves, UnlinkKept DEF IInv
  <1> QED BY <1>2, <1>6, <1>7, <1>8, <1>9 DEF IInv

LEMMA CallbackOK ==
  ASSUME IInv, NEW r \in Requests, NEW s \in states, NEW c \in codes, Callback(r, s, c)
  PROVE  IInv'
  <1> DEFINE q == [pc |-> "exchange", state |-> s, code |-> c]
  <1>1. /\ s.provider = ProviderOf[c.account] /\ req' = With(r, q)
        /\ UNCHANGED <<states, codes, owner, born, listed, passworded, tokens, next>>
    BY DEF Callback
  <1>2. StateOK(s, Existing) /\ CodeOK(c)
    BY DEF IInv, RowsInv
  <1>3. TaskOK(q, Existing) /\ q.pc # "delete"
    BY <1>1, <1>2 DEF TaskOK, CallbackPC
  <1> HIDE DEF q
  <1> QED BY <1>1, <1>3, OnlyReq

\* A provider with PKCE takes a code only with the verifier of the state that it
\* was asked for.
LEMMA ExchangeOK ==
  ASSUME IInv, NEW r \in Requests, Exchange(r)
  PROVE  IInv'
  <1>1. PICK s, c : s = req[r].state /\ c = req[r].code
    OBVIOUS
  <1> DEFINE q == [pc |-> "fetch", state |-> s, code |-> c]
  <1>2. /\ req[r].pc = "exchange" /\ (s.provider \in Pkce => XOAuth(s, c))
        /\ codes' = codes \ {c} /\ req' = With(r, q)
        /\ UNCHANGED <<states, owner, born, listed, passworded, tokens, next>>
    BY <1>1 DEF Exchange
  <1>3. StateOK(s, Existing) /\ CodeOK(c) /\ s.provider = ProviderOf[c.account]
    BY <1>1, <1>2 DEF IInv, ReqInv, TaskOK, CallbackPC
  <1>4. s.provider \in Pkce => c.state = s.id
    BY <1>2, <1>3 DEF XOAuth, TakenByX, StateOK, CodeOK
  <1>5. TaskOK(q, Existing) /\ q.pc # "delete"
    BY <1>3, <1>4 DEF TaskOK, CallbackPC
  <1> HIDE DEF q
  <1>6. Existing' = Existing
    BY <1>2, SameUsers
  <1>7. ReqInv'
    BY <1>2, <1>5, <1>6, ReqStep DEF IInv
  <1>8. RowsInv' /\ UsersInv'
    BY <1>2, RowsKept, UsersKept DEF IInv
  <1>9. NextInv' /\ next'.row >= next.row
    BY <1>2, NextStep DEF IInv
  <1>10. UnlinkInv'
    BY <1>2, <1>5, <1>9, Moves, UnlinkKept DEF IInv
  <1> QED BY <1>7, <1>8, <1>9, <1>10 DEF IInv

LEMMA FetchProfileOK ==
  ASSUME IInv, NEW r \in Requests, FetchProfile(r)
  PROVE  IInv'
  <1> DEFINE q == [pc |-> "profile", state |-> req[r].state, code |-> req[r].code]
  <1>1. /\ req[r].pc = "fetch" /\ req' = With(r, q)
        /\ UNCHANGED <<states, codes, owner, born, listed, passworded, tokens, next>>
    BY DEF FetchProfile
  <1>2. TaskOK(req[r], Existing)
    BY DEF IInv, ReqInv
  <1>3. TaskOK(q, Existing) /\ q.pc # "delete"
    BY <1>1, <1>2 DEF TaskOK, CallbackPC
  <1> HIDE DEF q
  <1> QED BY <1>1, <1>3, OnlyReq

\* The user that processSnsProfile comes to: it is there, and for what was there
\* before nothing changes.
LEMMA GoOK ==
  ASSUME IInv, NEW r \in Requests, NEW s \in states, NEW u \in Users,
         Existing \subseteq Existing', u \in Existing',
         states' = (states \ {s}) \cup {[s EXCEPT !.user = u]},
         req' = With(r, [pc |-> "find", user |-> u, provider |-> s.provider]),
         UNCHANGED <<codes, passworded, tokens, next>>
  PROVE  ReqInv' /\ RowsInv' /\ NextInv' /\ UnlinkInv'
  <1> DEFINE q == [pc |-> "find", user |-> u, provider |-> s.provider]
             y == [s EXCEPT !.user = u]
  <1>1. StateOK(s, Existing)
    BY DEF IInv, RowsInv
  <1>2. TaskOK(q, Existing') /\ q.pc # "delete"
    BY <1>1 DEF TaskOK, StateOK, CallbackPC
  <1>3. StateOK(y, Existing')
    BY <1>1 DEF StateOK
  <1>4. req' = With(r, q) /\ states' = (states \ {s}) \cup {y}
    OBVIOUS
  <1> HIDE DEF q, y
  <1>5. ReqInv'
    BY <1>2, <1>4, ReqStep DEF IInv
  <1>6. /\ \A t \in states : StateOK(t, Existing')
        /\ tokens \subseteq Tokens(Existing')
    BY MoreUsers DEF IInv, RowsInv, Tokens
  <1>7. RowsInv'
    BY <1>3, <1>4, <1>6 DEF IInv, RowsInv
  <1>8. NextInv' /\ next'.row >= next.row
    BY NextStep DEF IInv
  <1>9. UnlinkInv'
    BY <1>2, <1>4, <1>8, Moves, UnlinkKept DEF IInv
  <1> QED BY <1>5, <1>7, <1>8, <1>9

LEMMA ProcessOK ==
  ASSUME IInv, NEW r \in Requests, Process(r)
  PROVE  IInv'
  <1>1. PICK a : a = req[r].code.account
    OBVIOUS
  <1>2. req[r].pc = "profile" /\ UNCHANGED <<codes, passworded, tokens, next>>
    BY DEF Process
  <1>3. a \in Accounts
    BY <1>1, <1>2 DEF IInv, ReqInv, TaskOK, CallbackPC, CodeOK
  <1>4. PICK s \in states :
          \/ /\ s.user # NoUser /\ owner[a] = NoUser
             /\ owner' = [owner EXCEPT ![a] = s.user]
             /\ states' = (states \ {s}) \cup {[s EXCEPT !.user = s.user]}
             /\ req' = With(r, [pc |-> "find", user |-> s.user, provider |-> s.provider])
             /\ UNCHANGED <<born, listed>>
          \/ /\ s.user = NoUser /\ owner[a] # NoUser
             /\ states' = (states \ {s}) \cup {[s EXCEPT !.user = owner[a]]}
             /\ req' = With(r, [pc |-> "find", user |-> owner[a], provider |-> s.provider])
             /\ UNCHANGED <<owner, born, listed>>
          \/ /\ s.user = NoUser /\ owner[a] = NoUser /\ born[a] = NoUser
             /\ \E u \in Users \ Existing :
                  /\ owner' = [owner EXCEPT ![a] = u]
                  /\ born' = [born EXCEPT ![a] = u]
                  /\ listed' = listed \cup {<<u, ProviderOf[a]>>}
                  /\ states' = (states \ {s}) \cup {[s EXCEPT !.user = u]}
                  /\ req' = With(r, [pc |-> "find", user |-> u, provider |-> s.provider])
    BY <1>1 DEF Process
  <1>5. /\ s.user \in Existing \cup {NoUser}
        /\ owner \in [Accounts -> Somebody] /\ born \in [Accounts -> Users \cup {NoUser}]
        /\ Existing \subseteq Users
    BY DEF IInv, RowsInv, StateOK, UsersInv, Existing
  <1>6. CASE /\ s.user # NoUser /\ owner[a] = NoUser
             /\ owner' = [owner EXCEPT ![a] = s.user]
             /\ states' = (states \ {s}) \cup {[s EXCEPT !.user = s.user]}
             /\ req' = With(r, [pc |-> "find", user |-> s.user, provider |-> s.provider])
             /\ UNCHANGED <<born, listed>>
    <2>1. Existing' = Existing
      BY <1>6, SameUsers
    <2>2. PICK u : u = s.user
      OBVIOUS
    <2>3. u \in Users /\ u \in Existing'
      BY <1>5, <1>6, <2>1, <2>2
    <2>4. ReqInv' /\ RowsInv' /\ NextInv' /\ UnlinkInv'
      BY <1>2, <1>6, <2>1, <2>2, <2>3, GoOK
    <2>5. UsersInv'
      BY <1>2, <1>5, <1>6, <2>1, <2>2, <2>3 DEF IInv, UsersInv, Somebody
    <2> QED BY <2>4, <2>5 DEF IInv
  <1>7. CASE /\ s.user = NoUser /\ owner[a] # NoUser
             /\ states' = (states \ {s}) \cup {[s EXCEPT !.user = owner[a]]}
             /\ req' = With(r, [pc |-> "find", user |-> owner[a], provider |-> s.provider])
             /\ UNCHANGED <<owner, born, listed>>
    <2>1. Existing' = Existing
      BY <1>7, SameUsers
    <2>2. PICK u : u = owner[a]
      OBVIOUS
    <2>3. u \in Users /\ u \in Existing'
      BY <1>3, <1>5, <1>7, <2>1, <2>2 DEF Somebody
    <2>4. ReqInv' /\ RowsInv' /\ NextInv' /\ UnlinkInv'
      BY <1>2, <1>7, <2>1, <2>2, <2>3, GoOK
    <2>5. UsersInv'
      BY <1>2, <1>7, UsersKept DEF IInv
    <2> QED BY <2>4, <2>5 DEF IInv
  <1>8. ASSUME NEW u \in Users \ Existing,
               /\ s.user = NoUser /\ owner[a] = NoUser /\ born[a] = NoUser
               /\ owner' = [owner EXCEPT ![a] = u]
               /\ born' = [born EXCEPT ![a] = u]
               /\ listed' = listed \cup {<<u, ProviderOf[a]>>}
               /\ states' = (states \ {s}) \cup {[s EXCEPT !.user = u]}
               /\ req' = With(r, [pc |-> "find", user |-> u, provider |-> s.provider])
        PROVE  IInv'
    <2>1. /\ born'[a] = u /\ u # NoUser
          /\ \A b \in Accounts : born[b] # NoUser => born'[b] = born[b]
      BY <1>3, <1>5, <1>8
    <2>2. Existing \subseteq Existing' /\ u \in Existing'
      BY <1>3, <2>1 DEF Existing
    <2>3. ReqInv' /\ RowsInv' /\ NextInv' /\ UnlinkInv'
      BY <1>2, <1>8, <2>2, GoOK
    <2>4. owner' \in [Accounts -> Somebody']
      BY <1>5, <1>8, <2>2 DEF Somebody
    <2>5. born' \in [Accounts -> Users \cup {NoUser}]
      BY <1>5, <1>8
    <2>6. /\ listed' \subseteq Existing' \X Providers /\ passworded' \subseteq Existing'
      BY <1>2, <1>3, <1>8, <2>2 DEF IInv, UsersInv, Providers
    <2>7. UsersInv'
      BY <2>4, <2>5, <2>6 DEF UsersInv
    <2> QED BY <2>3, <2>7 DEF IInv
  <1> QED BY <1>4, <1>6, <1>7, <1>8

LEMMA FindTokenOK ==
  ASSUME IInv, NEW r \in Requests, FindToken(r)
  PROVE  IInv'
  <1>1. PICK t : req' = With(r, [pc |-> "write", user |-> req[r].user,
                                 provider |-> req[r].provider, row |-> t])
    BY DEF FindToken
  <1> DEFINE q == [pc |-> "write", user |-> req[r].user, provider |-> req[r].provider, row |-> t]
  <1>2. /\ req[r].pc = "find" /\ req' = With(r, q)
        /\ UNCHANGED <<states, codes, owner, born, listed, passworded, tokens, next>>
    BY <1>1 DEF FindToken
  <1>3. TaskOK(req[r], Existing)
    BY DEF IInv, ReqInv
  <1>4. TaskOK(q, Existing) /\ q.pc # "delete"
    BY <1>2, <1>3 DEF TaskOK, CallbackPC
  <1> HIDE DEF q
  <1> QED BY <1>2, <1>4, OnlyReq

\* A token that is created has an id that no unlink under way looked for.
LEMMA WriteTokenOK ==
  ASSUME IInv, NEW r \in Requests, WriteToken(r)
  PROVE  IInv'
  <1> DEFINE y == [id |-> next.row, user |-> req[r].user, provider |-> req[r].provider]
  <1>1. /\ req[r].pc = "write" /\ next.row <= MaxRow /\ req' = With(r, Idle)
        /\ \/ tokens' = tokens \cup {y} /\ next' = [next EXCEPT !.row = @ + 1]
           \/ UNCHANGED <<tokens, next>>
        /\ UNCHANGED <<states, codes, owner, born, listed, passworded>>
    BY DEF WriteToken
  <1>2. NextInv' /\ next'.row >= next.row /\ next.row \in 1..MaxRow
    BY <1>1, NextStep DEF IInv
  <1>3. req[r].user \in Existing /\ req[r].provider \in Providers
    BY <1>1 DEF IInv, ReqInv, TaskOK
  <1>4. y \in Tokens(Existing) /\ y.id = next.row
    BY <1>2, <1>3 DEF Tokens
  <1> HIDE DEF y
  <1>5. Existing' = Existing
    BY <1>1, SameUsers
  <1>6. ReqInv'
    BY <1>1, <1>5, IdleOK, ReqStep DEF IInv
  <1>7. RowsInv'
    BY <1>1, <1>4, <1>5 DEF IInv, RowsInv
  <1>8. UsersInv'
    BY <1>1, UsersKept DEF IInv
  <1>9. UnlinkInv'
    BY <1>1, <1>2, <1>4, IdleOK, Moves, UnlinkKept DEF IInv
  <1> QED BY <1>2, <1>6, <1>7, <1>8, <1>9 DEF IInv

LEMMA FailOK ==
  ASSUME IInv, NEW r \in Requests, Fail(r)
  PROVE  IInv'
  BY IdleOK, OnlyReq DEF Fail

LEMMA UnlinkOK ==
  ASSUME IInv, NEW r \in Requests, NEW u \in Existing, NEW p \in Providers, Unlink(r, u, p)
  PROVE  IInv'
  <1> DEFINE q == [pc |-> "tokens", user |-> u, provider |-> p]
  <1>1. /\ listed' = listed \ {<<u, p>>} /\ req' = With(r, q)
        /\ owner' = owner \/ \E a \in Accounts : owner' = [owner EXCEPT ![a] = NoUser]
        /\ UNCHANGED <<states, codes, born, passworded, tokens, next>>
    BY DEF Unlink
  <1>2. TaskOK(q, Existing) /\ q.pc # "delete"
    BY DEF TaskOK, CallbackPC
  <1> HIDE DEF q
  <1>3. Existing' = Existing
    BY <1>1, SameUsers
  <1>4. ReqInv'
    BY <1>1, <1>2, <1>3, ReqStep DEF IInv
  <1>5. RowsInv'
    BY <1>1, RowsKept DEF IInv
  <1>6. UsersInv'
    BY <1>1, <1>3 DEF IInv, UsersInv, Somebody
  <1>7. NextInv' /\ next'.row >= next.row
    BY <1>1, NextStep DEF IInv
  <1>8. UnlinkInv'
    BY <1>1, <1>2, <1>7, Moves, UnlinkKept DEF IInv
  <1> QED BY <1>4, <1>5, <1>6, <1>7, <1>8 DEF IInv

\* All the user's tokens for the provider are looked up at once.
LEMMA UnlinkTokensOK ==
  ASSUME IInv, NEW r \in Requests, UnlinkTokens(r)
  PROVE  IInv'
  <1>1. PICK u, p : u = req[r].user /\ p = req[r].provider
    OBVIOUS
  <1>2. PICK todo, upto : todo = Of(u, p) /\ upto = next.row
    OBVIOUS
  <1> DEFINE q == [pc |-> "delete", user |-> u, provider |-> p, todo |-> todo, upto |-> upto]
  <1>3. /\ req[r].pc = "tokens" /\ req' = With(r, q)
        /\ UNCHANGED <<states, codes, owner, born, listed, passworded, tokens, next>>
    BY <1>1, <1>2 DEF UnlinkTokens, ToDelete
  <1>4. NextInv' /\ next'.row >= next.row /\ next.row \in Nat
    BY <1>3, NextStep DEF IInv
  <1>5. u \in Existing /\ p \in Providers /\ todo \subseteq Tokens(Existing)
    BY <1>1, <1>2, <1>3 DEF IInv, ReqInv, RowsInv, TaskOK, Of
  <1>6. TaskOK(q, Existing)
    BY <1>2, <1>4, <1>5 DEF TaskOK, CallbackPC, Deletion
  <1>7. Looked(q, tokens', next'.row)
    BY <1>2, <1>3, <1>4 DEF Looked, Of
  <1> HIDE DEF q
  <1>8. Existing' = Existing
    BY <1>3, SameUsers
  <1>9. ReqInv'
    BY <1>3, <1>6, <1>8, ReqStep DEF IInv
  <1>10. RowsInv' /\ UsersInv'
    BY <1>3, RowsKept, UsersKept DEF IInv
  <1>11. UnlinkInv'
    BY <1>3, <1>4, <1>7, Moves, UnlinkKeptBy DEF IInv
  <1> QED BY <1>4, <1>9, <1>10, <1>11 DEF IInv

\* A token that is deleted is off the list, and gone.
LEMMA UnlinkDeleteOK ==
  ASSUME IInv, NEW r \in Requests, UnlinkDelete(r)
  PROVE  IInv'
  <1>1. PICK t \in req[r].todo :
          tokens' = tokens \ {t} /\ req' = [req EXCEPT ![r].todo = @ \ {t}]
    BY DEF UnlinkDelete
  <1>2. /\ req[r].pc = "delete"
        /\ UNCHANGED <<states, codes, owner, born, listed, passworded, next>>
    BY DEF UnlinkDelete
  <1>3. req[r] \in Deletion(Existing)
    BY <1>2 DEF IInv, ReqInv, TaskOK
  <1>4. PICK d \in Deletion(Existing) : d = req[r]
    BY <1>3
  <1>5. PICK e : e = [d EXCEPT !.todo = @ \ {t}]
    OBVIOUS
  <1>6. /\ e \in Deletion(Existing) /\ e.pc = "delete"
        /\ e.user = d.user /\ e.provider = d.provider
        /\ e.upto = d.upto /\ e.todo = d.todo \ {t}
    BY <1>5 DEF Deletion
  <1>7. req' = With(r, e)
    BY <1>1, <1>4, <1>5 DEF With
  <1>8. TaskOK(e, Existing)
    BY <1>6 DEF TaskOK, CallbackPC, Deletion
  <1>9. NextInv' /\ next'.row >= next.row
    BY <1>2, NextStep DEF IInv
  <1>10. Looked(d, tokens, next.row)
    BY <1>4, UnlinkInvByRecord DEF IInv
  <1>11. Looked(e, tokens', next'.row)
    BY <1>1, <1>2, <1>4, <1>6, <1>10 DEF Looked
  <1>12. Existing' = Existing
    BY <1>2, SameUsers
  <1>13. ReqInv'
    BY <1>7, <1>8, <1>12, ReqStep DEF IInv
  <1>14. RowsInv' /\ UsersInv'
    BY <1>1, <1>2, RowsKept, UsersKept DEF IInv
  <1>15. UnlinkInv'
    BY <1>1, <1>7, <1>9, <1>11, Moves, UnlinkKeptBy DEF IInv
  <1> QED BY <1>9, <1>13, <1>14, <1>15 DEF IInv

LEMMA UnlinkDoneOK ==
  ASSUME IInv, NEW r \in Requests, UnlinkDone(r)
  PROVE  IInv'
  BY IdleOK, OnlyReq DEF UnlinkDone

LEMMA SetPasswordOK ==
  ASSUME IInv, NEW u \in Users, SetPassword(u)
  PROVE  IInv'
  <1>1. /\ u \in Existing /\ passworded' = passworded \cup {u}
        /\ UNCHANGED <<states, codes, owner, born, listed, tokens, next, req>>
    BY DEF SetPassword
  <1>2. Existing' = Existing
    BY <1>1, SameUsers
  <1>3. ReqInv'
    BY <1>1, <1>2 DEF IInv, ReqInv
  <1>4. RowsInv'
    BY <1>1, RowsKept DEF IInv
  <1>5. UsersInv'
    BY <1>1, <1>2 DEF IInv, UsersInv, Somebody
  <1>6. NextInv' /\ UnlinkInv'
    BY <1>1 DEF IInv, NextInv, UnlinkInv, Of
  <1> QED BY <1>3, <1>4, <1>5, <1>6 DEF IInv

-----------------------------------------------------------------------------
(* The theorems *)

LEMMA NextIInv ==
  ASSUME IInv, [Next]_flowVars
  PROVE  IInv'
  <1>1. CASE Next
    BY <1>1, CreateStateOK, UrlOK, AuthorizeOK, CallbackOK, ExchangeOK, FetchProfileOK,
       ProcessOK, FindTokenOK, WriteTokenOK, FailOK, UnlinkOK, UnlinkTokensOK,
       UnlinkDeleteOK, UnlinkDoneOK, SetPasswordOK DEF Next, Somebody
  <1>2. CASE UNCHANGED flowVars
    BY <1>2 DEF flowVars, IInv, ReqInv, RowsInv, UsersInv, NextInv, UnlinkInv, Existing,
      Somebody, Of
  <1> QED BY <1>1, <1>2

\* The inductive invariant holds in every reachable state.
THEOREM InvariantHolds == Spec => []IInv
  <1>1. Init => IInv
    BY InitIInv
  <1>2. IInv /\ [Next]_flowVars => IInv'
    BY NextIInv
  <1> QED BY <1>1, <1>2, PTL DEF Spec

LEMMA TypeFromIInv ==
  ASSUME IInv
  PROVE  TypeOK
  <1>1. Existing \subseteq Users
    BY DEF IInv, UsersInv, Existing
  <1>2. owner \in [Accounts -> Users \cup {NoUser}]
    BY <1>1 DEF IInv, UsersInv, Somebody
  <1>3. /\ born \in [Accounts -> Users \cup {NoUser}]
        /\ listed \subseteq Existing \X Providers /\ passworded \subseteq Existing
    BY DEF IInv, UsersInv
  <1>4. \A t \in tokens : t \in [id : 1..MaxRow, user : Existing, provider : Providers]
    BY DEF IInv, RowsInv, Tokens
  <1>5. \A s \in states :
          /\ s \in [id : 1..MaxState, provider : Providers, user : Users \cup {NoUser},
                    verifier : 0..MaxState]
          /\ s.verifier = IF s.provider \in Pkce THEN s.id ELSE 0
    BY DEF IInv, RowsInv, StateOK
  <1>6. \A c \in codes :
          /\ c \in [id : 1..MaxCode, account : Accounts, state : 1..MaxState,
                    challenge : 0..MaxState]
          /\ ProviderOf[c.account] \in Pkce => c.challenge = c.state
    BY DEF IInv, RowsInv, CodeOK
  <1> QED BY <1>2, <1>3, <1>4, <1>5, <1>6 DEF TypeOK

\* Every row has its shape; a state of a provider with PKCE has its verifier and
\* a code of one the challenge of the state it was asked for.
THEOREM TypeCorrect == Spec => []TypeOK
  <1>1. IInv => TypeOK
    BY TypeFromIInv
  <1> QED BY <1>1, InvariantHolds, PTL

\* No profile of a provider with PKCE is processed under a state that its
\* account was not authorized for.
THEOREM ChallengeBindsState == Spec => []PkceBindsState
  <1>1. IInv => PkceBindsState
    BY DEF IInv, ReqInv, TaskOK, PkceBindsState
  <1> QED BY <1>1, InvariantHolds, PTL

\* When an unlink answers with success, every token that it found for the user
\* and the provider is gone.
THEOREM UnlinkRemovesAll == Spec => UnlinkLeavesNone
  <1>1. ASSUME IInv, NEW r \in Requests, UnlinkDone(r)
        PROVE  \A t \in Of(req[r].user, req[r].provider) : t.id >= req[r].upto
    BY <1>1 DEF IInv, UnlinkInv, UnlinkDone
  <1>2. ASSUME IInv, [Next]_flowVars
        PROVE  [\A r \in Requests :
                 UnlinkDone(r) =>
                   \A t \in Of(req[r].user, req[r].provider) : t.id >= req[r].upto]_flowVars
    BY <1>1, <1>2
  <1> QED BY <1>2, InvariantHolds, PTL DEF Spec, UnlinkLeavesNone

=============================================================================
