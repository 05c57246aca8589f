# Verification of karasu-lab-nestjs-api

TLA+ models of the backend's core: accounts and their roles, authentication,
multi-factor setup, account recovery, the OAuth provider, the login through
external providers and the relayed chat stream, with TLC runs over small
instances and TLAPS proofs for all instances. Paths below are relative to the repository
(`src/src/...` is the application, `src/test/...` its end-to-end tests);
`Q/` abbreviates `src/src/data-base/query/`.

Checking it: `tlc -workers 2 -config SessionsOverlap.cfg MCJwtSession` (and so
for each run of `PROJECT.json`), `tlapm JwtSessionProofs.tla` (and so for each
module of proofs).

## The system

The backend is one NestJS process over PostgreSQL (Prisma) and a Redis cache.
It has no worker threads, no transactions around its handlers and no row
locks, and several servers may run over one database. What can go wrong therefore goes wrong **between two awaits**: every
Prisma call is atomic, anything may happen between two of them, and a handler
that throws keeps what it has already written. All models are cut that way;
only the chat stream, which has no database, is cut at the turns of the event
loop.

| Component | State | Operations | Interacts with | What is hard | What makes it correct |
|---|---|---|---|---|---|
| Bearer tokens (`auth/auth.controller.ts`, `auth/jwt-token`, `Q/jwtstate`) | JWTState rows; signed tokens held by clients | login, `/auth/verify`, `/auth/refresh`, `/jwt-state/*`, verification | users, sessions, MFA | a token outlives what it was signed for; tokens are signed before the MFA check | a token gets a session only by a full login over its row; revocation is final |
| Sessions and guard (`auth/jwt-auth.guard.ts`, `Q/session`, `sessions/`) | Session rows | opened after login or MFA, deleted, looked up by jti on each request | JWTState by jti | three look-ups, each may see another database | users meet under a jti only where an SNS verification has named its row; only sessions of users who exist let a request in |
| Cleanup cron (`Q/jwtstate/jwt-state-cron.service.ts`) | - | deletes expired JWTState rows hourly | JWTState, requests in flight | races every handler | cuts no live token with a row of its own short |
| MFA (`auth/mfa`, `Q/mfa`, `totp/`) | UserOTP, OTPBackupCode | setup, verify, disable, backup codes | login | four-step setup; order of code and session | a login under MFA opens no session of its own without the code |
| OAuth provider (`oauth/`, `Q/oauth-client`, `Q/authorization-code`, `Q/oauth-granted-token`) | OAuthClient, AuthorizationCode, OAuthGrantedToken | authorize, both token grants, revoke, client edits, secret, deletion | JWTState (by verifyJWTToken), roles | double exchange; revocation and deletion during an exchange | codes and refresh tokens work once; revocation is final; a grant is no larger than its code |
| External login and linking (`auth/sns/auth-core`, `Q/auth-state`, `Q/extra-profile`, `Q/external-provider-*`) | AuthState, ExtraProfile, ExternalProviderAccessToken, ExternalProviderLinkVerify | state, callback, one-time token, link verification | users, account service, login | two callbacks of one account or one state; a user half made | an account stays its user's; a login ends its state; nobody loses the last way in |
| Providers (`lib/auth/`) | the verifier kept in AuthState; codes at the provider | authorization URL, exchange of a code, profile | callback | code and state of a callback may be of different flows; a failed read of the challenge | a profile is processed under the state it was authorized for |
| Account service (`account/`, `data-base/utility/password`, `Q/pending-email-change-process`) | PasswordReset, PendingEMailChangeProcess, User | reset and email codes, set password, unlink | users, linking | codes used twice or superseded | a code works once; emails stay unique |
| Users (`users/`, `Q/user`, `auth/auth.service.ts`) | User | register, log in, rename, list, delete | everything by foreign key | unique columns checked before they are written; cascades under requests in flight | no row refers to a user that is gone; the right password is accepted |
| Roles and permissions (`Q/role`, `role/`, `permission*/`, `auth/guards/`) | Role, bit masks, ADMIN_DOMAIN | synchronise at start, assign administrators, guard, scopes | users, OAuth scopes | a start that dies half way over what an earlier version left; emails that only resemble the domain | a server that is up serves the roles defined; a mask means its set of roles |
| Concurrent request interceptor (`interceptors/`) | a cache key | lock per user, method and path | MFA setup | get-then-set; a time to live in the wrong unit; foreign unlock | one handler at a time |
| Dify stream (`dify/`) | two streams, a decoder, a line buffer | read, decode, cut into lines, parse, write | the chat service, the client | borders of reads within lines and characters; handlers attached late; after the end | all events of the lines, unaltered, in order; the response ends |
| The rest: legacy token tables, workflow service, encryption, pictures, mail, Discord, GitHub, MCP, plumbing | - | calls to libraries and services | - | - | not modelled, see the end |

## Modules

| Module | What it is |
|---|---|
| `JwtSession` | tokens, sessions, guard, MFA gate, cron, administration of JWTState |
| `OAuthGrant` | OAuth clients, codes, grants and the token endpoint |
| `OneTime` | abstract specification: a one-time credential; `OAuthGrant` implements it |
| `SnsAccount` | external login, linking and unlinking, between the awaits of processSnsProfile |
| `ProviderFlow` | the way to a provider and back, and the provider's access tokens |
| `AccountRecovery` | reset codes, email changes, changing a password without a code |
| `MfaSetup` | the MFA handlers behind the concurrent request interceptor |
| `UserAccess` | registering, logging in, renaming; roles, from their synchronisation at start to guard and scopes |
| `SseStream` | the chat stream |
| `EventRelay` | abstract specification: a relay of events; `SseStream` implements it |
| `JwtSessionProofs`, `OAuthGrantProofs`, `SnsAccountProofs`, `ProviderFlowProofs`, `AccountRecoveryProofs`, `MfaSetupProofs`, `UserAccessProofs`, `SseStreamProofs` | the inductive invariant of each model, and its properties as theorems |
| `MCJwtSession`, `MCOAuthGrant`, `MCSnsAccount`, `MCProviderFlow`, `MCAccountRecovery`, `MCMfaSetup` | symmetry sets and constant functions for TLC |

A table that several components use is in each of their models, with the
columns that model needs; what the other components do to it is an action
there (`DeleteUser` in all but `ProviderFlow`, whose unlink comes from a user
who is there, and `SseStream`, which has no users; `ChangeEmail`, `SetPassword`,
`Register`, `JwtStateNamed`). Where one model takes in one step what another cuts into
awaits, it says so: `JwtSession` takes the MFA handlers so, `ProviderFlow`
takes processSnsProfile so.

### JwtSession

`states`, `sessions`, `users` are tables; `sent` is every token a client has,
as the record of its payload (`jti` in access tokens, `id` in refresh tokens:
the code uses two different claims, and that difference matters); `req` are
the handlers in flight with what they have read. `now` advances by `Tick`.

| Code | Actions |
|---|---|
| `POST /auth/login` | `Login` (password, MFA asked), `LoginIssue` or `ChallengeIssue`, `SessionCreate` |
| `POST /auth/verify`, after the one-time token | `SnsVerify` (tokens are signed first, over a new JWTState or over any the client names), `SnsCheckMfa`, then as above |
| `POST /auth/mfa/verify` | `GuardVerify`, `GuardSession`, `MfaVerify`, `MfaIssue`, `SessionCreate` |
| `POST /auth/refresh` | `Refresh`, `RefreshIssue` |
| `JwtAuthGuard` | `GuardVerify` (token and JWTState, then the user, whose check always passes), `GuardSession` (session); `Authenticated` reads the user again |
| `/jwt-state`, `/sessions` | `JwtCreate`, `JwtUpdate`, `JwtRename`, `JwtRemove`, `SessionDelete` |
| MFA setup and disabling | `MfaSetup`, `MfaDisable` |
| generateJWTToken fails after its first insert | `GenerateHalf` |
| any other exception, at any await | `Fail` |
| user deletion, hourly cleanup | `DeleteUser`, `Cron` |

`held`, `dropped` and a token's `use` are history. Signing is a function of
the payload; hashes, pictures of devices and so on are left out.

`jwtStateId` of `/auth/verify` is a string of the client's, and generateJWTToken
signs over the row of that id whoever owns it; the guard looks for a session by
jti alone. So users may meet under a jti, a challenge's token included, and the
properties say exactly when: `Named(j, us)` holds once an SNS verification of
one of the users `us` that named j has answered.

### OAuthGrant and OneTime

One id counter stands for codes and grants (cuids never collide). `exchange`
and `refreshToken` are cut at each database call: the row is found, compared,
deleted (`deleteByJti` by count, `consume` by unique key), the verifier is
compared, the permissions are computed, the grant is inserted. Both kinds of
exchange start where the client has authenticated (`Authenticates`), the
owner's operations where the client is its own (`Managed`). Revocation, regeneration of the secret,
editing and deletion of a client and deletion of a user run in one step each
between them, with the cascades of the schema. A scope is the set of permissions behind it and a bit
mask is a set. `AuthorizedScopes` is what `/oauth/userinfo` makes of an access
token. `asked`, `given`, `lineage`, `cut`, `named` are history.

`OneTime` says what a one-time credential promises: issued, taken at most
once, then yielding at most one result, or withdrawn. `ExchangedOnce` is the
refinement: codes and grants in the tables are `open`, those whose delete has
succeeded for a request in flight are `taken`.

### SnsAccount

The callback is cut into `Callback` (state), `Match` (account, and which
flow), `SaveProfile` or `MakeUser`-`NewProfile`-`AddProvider`, `Attach`
(user into the state), `StoreToken`, `Redirect`; the one-time token into
`Verify`, `ConsumeState`, `LogIn`; unlinking into `Unlink`, `Unlist`,
`RemoveProfile`, `RemoveTokens`. `Listed` reads and writes the provider list
in one step: addUserProvider and removeUserProvider read it first, but with
`ProvidersFromCreation` true no two of them can meet over one user's list.
`Register`, `SetPassword`, `ChangeEmail` and `DeleteUser` are the surrounding
system. `logins`, `signed`, `out` and a request's `early` are history.

Two facts of the code shape this model. `findUserById(id, {passwordHash: X})`
passes `X` to Prisma's `omit`, so `true` *removes* the hash: the checks in
`setPassword` and `resetPassword` never see a password, those in
`unlinkProvider` and in link verification (`false`) do. And the id that
`markAsLinkingVerified` updates by is of another table, so `MarkLinked`
always takes its failing branch.

### ProviderFlow

| Code | Actions |
|---|---|
| `POST /auth/state` | `CreateState` (with a verifier where the provider takes PKCE), `Url` (reads the challenge back, or fails to) |
| the provider and the user, external | `Authorize` |
| `GET /auth/callback/:provider` | `Callback`, `Exchange`, `FetchProfile`, `Process`, `FindToken`, `WriteToken` |
| unlinking | `Unlink`, `UnlinkTokens`, `UnlinkDelete`, `UnlinkDone` |
| set-password, any exception | `SetPassword`, `Fail` |

The id of a state stands for its verifier and its challenge. A callback may
come with any state and any code of its provider, also of two flows: nothing
in the code ties them but the verifier, which only x has. `Process` is
`SnsAccount`'s subject in one step, so that there is room here for the rows of
access tokens, which `upsertExternalProviderAccessToken` finds and then writes.

### AccountRecovery

A code is the id of its row in `resets` or `pending`, so `minted` gives the
order of `createdAt` too; expiry is a step that a row may take at any time.

| Code | Actions |
|---|---|
| `POST /account/forgot-password` | `ForgotClear` (deleteMany), `ForgotCreate` |
| `POST /account/confirm-reset` | `Confirm`, `ConfirmUpdate`, `ConfirmMark` |
| `POST /account/email/change` | `EmailAsk`, `EmailPend` |
| `POST /account/email/change/verify` | `EmailVerify`, `EmailUpdate`, `EmailMark`, `EmailDelete` |
| `POST /account/set-password`, `/account/reset-password` | `SetPassword`, `ResetPassword` |
| registration, deletion, any exception | `Register`, `DeleteUser`, `Fail` |

A row of `users` holds how its password was last set (`by`), which is history;
so are `asked`, `done`, `overlap` and a request's `early`. `CanSetPassword` is
what `/account/security/status` tells of a row; it does read the hash.

### UserAccess

| Code | Actions |
|---|---|
| start of a server | `Boot`, `SyncRole` for each definition, `ListRoles`, `PruneRole` or `PruneFails`, `PruneDone`, `FindAdmins`, `AssignAdmin`, `Up`; `SyncFails` (logged, the start goes on), `StartFails` and `Exit` (the process ends), `Crash` |
| `POST /auth/register` | `RegisterCheck`, `RegisterCreate` |
| a first login through a provider | `SnsCheck`, `RegisterCreate` |
| `POST /auth/login`, up to the tokens | `Login`, `Answered` |
| renaming | `RenameCheck`, `RenameWrite` |
| `GET /users/list`, behind PermissionGuard | `List`, `ListAnswered` |
| the scopes of a user | `Scopes`, `ScopesAnswered` |
| `GET /role/request-update` | `RoleRead`, `RoleUpdate` |
| email change, deletion | `ChangeEmail`, `DeleteUser` |

Strings are members of sets, chosen for what the code's comparisons tell
apart: emails of ADMIN_DOMAIN, emails that only contain `@ADMIN_DOMAIN`, and
others; usernames that may be somebody's email, since nothing forbids it;
what `registerSchema` takes and `loginSchema` refuses: passwords of six or
seven characters or of more than 128 (`UnsentPasswords`), usernames and emails
that are empty or longer than 255 (`UnsentLogins`). Masks are the
integers of the code, with one bit no permission has. `Init` is what an
earlier version may have left in the tables (`Tables`). None of these has a
role row of the name `ADMIN`, under which the code looks the administrators'
role up: no definition of the source has that name. `RolesOnlyStripped` rests on it:
such a row, if its deletion at the start failed, would be what the code finds.

### SseStream and EventRelay

The body is any sequence of up to `MaxLines` lines, each an event, `[DONE]`
or noise, stopped at any byte; a line has a character of two bytes. A step is
a turn of Node's event loop: a read of any number of bytes, the attaching of
the handlers (`Flow`), or a tick on which one of the two streams ends or
fails. `EventRelay` says what the client may count on: the events due, in
order, none altered or left out, and `[DONE]` only after the last of them.
`Picked` is what a loop that skips some elements leaves of a sequence; decoding,
`split('\n')` (`Split`), the choice of events in a chunk and the events due are
built from it.

### MfaSetup

The interceptor is global, so every handler runs between `Ask` (cache.get),
`SetLock` (cache.set) and `Unlock` (cache.del in finalize, which nobody waits
for and whose failure is ignored). The lock's lifetime of 15 is in the cache's
milliseconds; the model lets a lock expire at any time (`LockExpires`). Each
handler is cut at its database calls: `Setup*`, `Verify*`, `Codes*`,
`Disable*`. A row of `otps` is one of UserOTP; a pair in `codes` is a set of
eight backup codes and its row. To give the right code is to know the row's
secret (`told`). `stuck`, `off` and a request's `beaten` are history.

The rows of UserOTP hold the setting TOTP_ISSUER as a foreign key to User.
`Issuer` is its value; initially there is a user of that id, or, as with the
default, there is none, and then no setup succeeds. Deleting that user deletes
every row. `JwtSession` takes each MFA handler as one step over `mfaOn`, and
its `Users` do not include the issuer.

## Runs

| Run | What it asks | Result |
|---|---|---|
| `sessions_overlap` | two handlers of two users at every await | 1.8 M states, holds |
| `sessions_withdrawn` | clock, cron, admin edits, deletion of users against one handler | 7.9 M states, holds |
| `oauth_exchange` | two token requests against revocation, the owner and the user's deletion | 2.0 M states, holds |
| `oauth_owners` | one token request over rows of two users, deleted at any await | 4.8 M states, holds |
| `sns_linking` | two requests of callbacks, verification, unlinking; two accounts of a provider | 3.5 M states, holds |
| `provider_flow` | two requests to a provider with PKCE and one without, and unlinking | 1.4 M states, holds |
| `account_codes` | two requests with reset and email codes of two users | 2.5 M states, holds |
| `mfa_setup` | two requests of a user to any of the four MFA handlers | 4.8 M states, holds |
| `user_access` | starts of a server over old tables, with faults, against requests; liveness | 1.8 M states, holds |
| `sse_stream` | every body of three lines, every cut into reads, every end; refinement, liveness | 0.6 M states, holds |
| `refresh_revoked` | does revocation reach refresh tokens? | violated |
| `account_password` | does a password need a code or the old one to change? | violated |

Each of the two violated runs sets a sentence of the repository's comments or tests
against what the code does; `PROJECT.json` quotes it. Some passing properties
say what the code does where a sentence says otherwise, and have findings too:

- `BareTokenRefused`: the token of an MFA challenge comes without a session, so
  it does not by itself pass the guard in front of `/auth/mfa/verify`; a session
  under its jti takes a full login over the same row, an MFA verification or
  an SNS verification that named it.
- `SessionOwnsToken`: that SNS verification may be another user's, since the
  owner of the row is not compared; the session found for a token, the token of
  a challenge included, is then not of the token's user.
- `RefreshNeedsJwtEdit`: no OAuth refresh token verifies, unless an edit of
  `/jwt-state` has given its jti a row.
- `OthersGrantsSurvive`: a new client secret ends the owner's grants only.
- `ProvidersFromCreation`: link verification never links.
- `ProfileKeepsOwner`: a first login whose account is linked to another user
  meanwhile leaves its new user without a profile.
- `LoginEndsState`: only a login ends a state, so two verifications that
  overlap both log in, and a second callback before the login takes the link
  flow.
- `SupersededUntilUsed`: a second email change is accepted while one is pending.
- `OnlyOverlapReplaces`: two MFA setups of a user that overlap may both succeed,
  and the secret the first has answered with is gone.
- `TypeOK` of `MfaSetup`: no row of UserOTP without the user TOTP_ISSUER names.
- `RolesOnlyStripped`: no step gives anybody a role, and the administrators
  lose theirs.
- `ComesUp`: the service does not come up while one user's email contains
  `@ADMIN_DOMAIN` without being of it.
- `RightPasswordRefused`: passwords of six and seven characters, or of more
  than 128, and usernames and emails that are empty or longer than 255, can be
  registered and not used to log in; and a username that is another user's email
  may take its login.

The passing properties:

- `BareTokenRefused`, `SessionOwnsToken`, `MfaNotBypassed` say which sessions
  tokens may meet although handlers sign over ids that others signed before: a
  bare token only that of a full login over its row, two users only where one
  of them has named the row by SNS verification. None of the three says that
  a challenge's token is refused until the code is given: it may be let in
  through the session of a user whose SNS verification named its row.
- `CronSparesLiveTokens`, `AdmittedByLiveSession` are about withdrawal: by
  expiry, by request and by deletion of the user. The first is about tokens
  signed with a row of their own; one signed over an older row (by MFA, or by
  an SNS verification that names it) lives for an hour, its row may
  end after ten minutes, and the cron does cut it short.
- `ExchangedOnce`, `RevokedStaysRevoked`, `GrantOfItsCode`,
  `NothingOutlivesItsUser`, `RefreshNeedsJwtEdit`, `OthersGrantsSurvive` are about concurrent exchanges, where the row count of
  the delete and the foreign keys are all that the code has to go by.
- `ProfileKeepsOwner`, `PasswordlessKeepsProvider`, `ProvidersFromCreation`,
  `LoginEndsState` are about accounts under overlapping requests.
- `PkceBindsState` is about callbacks and flows that cross, `UnlinkLeavesNone`
  about an unlink against callbacks that store a token for the same provider.
- `RepeatedCodeRefused`, `OneOpenReset`, `SupersededUntilUsed` are about codes:
  each holds only because of the order of two writes, or of rows.
- `DisabledIsOff`, `EnabledWasTold`, `LockHasRequest`, `OnlyOverlapReplaces`
  are about MFA handlers that overlap although a lock is to keep them apart.
- `ServedInSync` is about a start that crashes or fails anywhere over tables of
  an earlier version, `MasksMatchRoles` about what is then read from masks,
  `ComesUp` about starting again for ever.
- `Relayed` (the refinement of `EventRelay`), `ErrorHasCause`, `AnswerEnds` are
  about cuts of the body within lines and characters, reads before the
  handlers are there, and what comes after `[DONE]`.

### Bounds

Two requests suffice for each race named in the hazards: all are between one
read and one write of another handler. Where one request is used
(`sessions_withdrawn`, `oauth_owners`) the other party is the cron, the clock, an
administrator or the deletion of a user, which are actions of their own.

- `MaxJti` 4, `MaxSession` 2 (overlap): a login or a challenge makes two rows (of
  the access and of the refresh token), signing over an old row one. So there
  is room for two logins, or for one, or a challenge, followed by an
  SNS verification of either user over a named row and by an MFA
  verification; and for the sessions of two of them.
- `MaxJti` 4, `MaxSession` 1 (withdrawn): the same of one handler, with one
  session to find, lose or miss. `TempLife`, `AccessLife` = 1, `RefreshLife` = 2, `MaxTime` = 2,
  so that each lifetime ends within the run.
- `MaxId` 3 (OAuth): a code, the grant made for it and the grant that follows,
  or two codes and a grant. Two clients, so that a code can be presented by
  the wrong one. `oauth_exchange` has two requests of one user, since its
  properties are about races for one row; `oauth_owners` has two users, since
  its properties are about whose row it is.
- `MaxState` 1, `MaxRow` 2 (linking): one state used by two requests, a token
  row and a verification row.
- `MaxCode` (account): an older and a newer code of a user, with two users
  over two emails.
- `MaxId` 4 (MFA): the rows and the sets of codes of two setups. One user: the
  handlers meet only over one user's row and keys.
- `MaxState`, `MaxCode`, `MaxRow` 3 (providers): two flows that cross and one
  to start again; two rows of overlapping callbacks and one made after the
  unlink has looked.
- `MaxId` 2, one request (roles): a user that is there and one that registers;
  the other party is the start of the server. One server, which crashes and
  starts again; `MaxFaults` 1 crash or failure, at any step.
- `MaxLines` 3 (stream): an event, `[DONE]` and an event after it, in any
  order; a line is four bytes, so every kind of border can be cut.
- `MaxEdits` 1: one administrator's edit or client edit.

`CHECK_DEADLOCK FALSE`: ids, the clock and edits are bounded, and the bounded
system stops. Symmetry is over users, requests or clients, which the
specifications treat alike, and only in runs without liveness.

### Fairness

Handlers of requests get none: nobody retries them, any of them may fail at
any await, and nothing waits for them. Two components do go on by themselves:

- `UserAccess`: weak fairness of `Start(s)`, the next step of a server that is
  starting. onModuleInit awaits one call of the database after another, each of
  which returns or throws. That a process which has exited is started again is
  an assumption about the platform, which `fly.toml` asks to keep one machine
  running. A crash and a failure are not fair
  and are bounded by `MaxFaults`; `ComesUp` says that the service is up, or
  blocked by an email, again and again.
- `SseStream`: weak fairness of attaching the handlers and of the ticks on which
  a stream emits its end or its error. Node's event loop gets to every tick that
  is due. Reads of the body are not fair: the chat service may fall silent, and
  the code has no timeout, so `AnswerEnds` starts from its end.

## Proofs

Every proof holds for any sets of users, clients, requests, servers and so on,
and any bounds. All that is assumed of the constants is in the named
assumptions of each model: bounds are natural numbers, the value that stands
for no user (client, row) is none, strings of one kind are not of another. TLC
evaluates them on each run.

Each proof module has an inductive invariant `IInv`, which TLC checked on the
instance of the model's run before it was proved, step lemmas with one step per
action, a theorem `InvariantHolds` (`SpecIInv` in `JwtSessionProofs`), and a
theorem for each property, which follows from `IInv` or, for an action
property, from `IInv` and the step.

| Module | Assumptions | Theorem | Property |
|---|---|---|---|
| `JwtSessionProofs` | `BoundsAssumption` | `TypeCorrect` | `TypeOK` |
| | | `SessionsOwnTheirTokens` | `SessionOwnsToken` |
| | | `BareTokensAreRefused` | `BareTokenRefused` |
| | | `MfaIsNotBypassed` | `MfaNotBypassed` |
| | | `CronSparesTokens` | `CronSparesLiveTokens` |
| | | `GuardAdmitsByLiveSession` | `AdmittedByLiveSession` |
| `OAuthGrantProofs` | `OAuthBounds`, `OAuthNames` | `TypeCorrect` | `TypeOK` |
| | | `RevocationFinal` | `RevokedStaysRevoked` |
| | | `GrantsFollowTheirCodes` | `GrantOfItsCode` |
| | | `RefreshTakesJwtEdit` | `RefreshNeedsJwtEdit` |
| | | `DeletionsReachEverything` | `NothingOutlivesItsUser` |
| | | `OwnersEndTheirOwn` | `OthersGrantsSurvive` |
| | | `ExchangeImplementsOneTime` | `ExchangedOnce` |
| `SnsAccountProofs` | `SnsBounds`, `SnsNames` | `TypeCorrect` | `TypeOK` |
| | | `LoginsEndStates` | `LoginEndsState` |
| | | `ProviderKept` | `PasswordlessKeepsProvider` |
| | | `OwnerKept` | `ProfileKeepsOwner` |
| | | `ListedAtCreation` | `ProvidersFromCreation` |
| `ProviderFlowProofs` | `FlowAssumption` | `TypeCorrect` | `TypeOK` |
| | | `ChallengeBindsState` | `PkceBindsState` |
| | | `UnlinkRemovesAll` | `UnlinkLeavesNone` |
| `AccountRecoveryProofs` | `CodeBounds`, `CodeNames` | `TypeCorrect` | `TypeOK` |
| | | `UsedCodesStayUsed` | `RepeatedCodeRefused` |
| | | `OneResetAtATime` | `OneOpenReset` |
| | | `LaterCodeFirst` | `SupersededUntilUsed` |
| `MfaSetupProofs` | `MfaBounds`, `MfaNames` | `TypeCorrect` | `TypeOK` |
| | | `LocksAreRemoved` | `LockHasRequest` |
| | | `DisabledStaysOff` | `DisabledIsOff` |
| | | `EnabledIsTold` | `EnabledWasTold` |
| | | `OverlapOnly` | `OnlyOverlapReplaces` |
| `UserAccessProofs` | `AccessAssumption`, `NoRowAssumption` | `TypeCorrect` | `TypeOK` |
| | | `RolesInSync` | `ServedInSync` |
| | | `NobodyIsPromoted` | `RolesOnlyStripped` |
| | | `RefusedForACause` | `RightPasswordRefused` |
| | | `MasksAreTheirRoles` | `MasksMatchRoles` |
| `SseStreamProofs` | `SseBounds` | `TypeCorrect` | `TypeOK` |
| | | `ErrorsHaveCauses` | `ErrorHasCause` |
| | | `StreamImplementsRelay` | `Relayed` |

None of these properties is inductive by itself: each depends on what requests
in flight have read. In every module the invariant begins with the types and with what a
request holds at each await (its row was in the table, its user has existed,
its id was handed out); beyond that it adds the following.

**JwtSession.** `StatesInv`: a row's id has been handed out, so a client cannot
name the jti that is minted next. `TokenInv`: over all tokens signed, sent or not yet
(`Signed`), two tokens under a jti are of one user unless one of them was signed
over a row that its client had named, or such a token of one of the two users
has been sent (`Together`); and at most one token was the first under a jti, all
others were signed over its row by MFA or by SNS verification. `SessionInv`: the
user of a session exists, and a client has a token of that user, from a full
login, under the session's jti. `RowInv`: the JWTState row made with a token
outlives it, unless a request has withdrawn it. `HeldInv`: a request whose user
has had MFA on all along is not on the way to a session, except with a token
from MFA verification. `StepSigns` first sums up what any step may add to
`sent`, so that the step lemmas after it need not look at the handlers again.

**OAuthGrant.** `RowsInv` and `ReadInv`: tables and requests hold what was
made and nothing else, so that a row read before it was deleted still tells
the truth about its user, client and scope. `TakenInv`: what a request has
taken is in no table, was not withdrawn, has no successor yet, and no other
request has it. `SpentInv` and `CutInv`: what has been exchanged or withdrawn
is never in a table again. The refinement `ExchangeImplementsOneTime` goes
action by action: a new code is an `Issue`, the deletes by `consume` and by
count are a `Take`, the insert of a grant is the `Yield`; a request that fails
with a row taken, and what revokes or deletes rows, is a `Withdraw`; everything
else is a stutter, the expiry of a code included, which is still deleted when it
is presented.

**SnsAccount.** `LoginInv`: a state that has logged somebody in, or is about to
(`consumed`), is marked as used. `LinkInv`: no access token has the id of a
link verification, on which it rests that link verification never links.
`SoleInv`: a user without a password lists the one provider it was made with,
and no unlink is under way for it, which is why its provider stays.

**ProviderFlow.** Part of `ReqInv`: once the verifier has been accepted, the
code a request holds is of its state. `UnlinkInv`: of the tokens older than the
moment when an unlink looked, those still in the table are on its list.

**AccountRecovery.** `DoneInv`: a code answered is marked while its row is
there, which the order of marking and answering gives. `OpenInv`: while a reset
code is being made for a user who asks for one at a time, none is open.
`PendingInv`: an email change stays in its table until used or until its user
is deleted, so that the newest row hides the older ones.

**MfaSetup.** `ToldInv`: a setup is completed with the telling of its secret
and at no other time. `BeatenInv`: a setup about to drop a completed row was
overtaken. `OffInv`: a user told that MFA is off has no setup under way.
`LocksInv`: a lock without a failed removal has a request past SetLock.

**UserAccess.** `Synced` says of each server, at each point of its start, which
definitions are already in line and which roles may still be there that no
definition has. It holds for any number of servers that start over one table:
nothing but a definition's own upsert writes a defined role, and no start
deletes one. Below it are lemmas on masks: `EncodeIsMask` proves that
`encode`, a fold over a set, is the sum of the bits of its set, `BitsOfMask`
that a mask's bits are read off it, `CombinedBits` that combined masks have
the bits of their parts and no other. The library's induction theorem takes an
operator, which the provers cannot instantiate; the lemma `Induction` states
induction with a set in its place, from the well-foundedness of `<` on Nat.

**SseStream.** Positions in the body tie everything together: `CharsOf(p)` is
how many characters p bytes complete, `Ended(x)` how many lines x characters
end, `HeardBy(n)` how many of the events due are in the first n lines.
`TypeInv` says that the decoder holds the byte of a character that `pos` cuts
in two (`HeldAt`); `CutInv`, that before the streams flow the chunks held are
the text read so far, cut at some positions t, and that a cut which will
destroy the stream has its cause; `HandledInv`, that after it the buffer is the
text since the last newline (`Rest`) and the client has the events due of the
lines that have ended. `SentInv`, that the client has a beginning of the events
due, and all of them once parsedStream has ended, is what the refinement
`StreamImplementsRelay` rests on: a read, or the start of the flow, is a
`Relay` or a stutter, 'end' is `Complete`, 'error', a refusal or the client's
going is `Break`. Below the invariant are lemmas on what the code computes:
`DecodeText` (bytes to text), `SplitText` (text to lines), `PushesText` (lines
to events), `OnDataText` and, by induction on the chunks, `OnAllText`. `Picked`
is reasoned about by listing the set it picks in order (`Listed`,
`ListsPart`); the induction is again over a set, from the well-foundedness of
`<` on Nat. Here a proof attempt corrected the model: the outcome of
`parsedStream.push` was a CASE whose guards overlapped, of which TLA+ lets
either branch be chosen; it now names their order (destroyed before ended).

Only model-checked: `ComesUp` and `AnswerEnds`, which are liveness and need
fairness and ENABLED. Every other property of a passing run is a theorem.

The properties of the two violated runs are false, and no theorems.

## Plan

Done, most important first: `JwtSession` with proofs; `OAuthGrant` with
`OneTime`; `SnsAccount`; `AccountRecovery`; `MfaSetup`; `SseStream` with
`EventRelay`; `UserAccess`; `ProviderFlow`; then the proofs of all of them,
`SseStream` and its refinement last.

Left: the two liveness properties have no proof, and the components of the next
section no model. Two models that take in one step what another cuts into awaits
(`JwtSession` over MFA, `ProviderFlow` over processSnsProfile) could be
refined by a composition with those.

## Not modelled, and why

- Legacy AccessTokenService and RefreshTokenService, and the workflow service:
  nothing calls them.
- Encryption, hashing, TOTP arithmetic, JWT signatures: pure functions of
  libraries; the models use their results.
- Pictures, mail, Discord, GitHub, MCP, markdown, translations, logging:
  calls out of the process, with no state of their own.
- Validation of the form of input (redirect URIs, provider names, client
  secrets beyond whether they are known): data, no property depends on it,
  but for the lengths of passwords and logins, which `UserAccess` has.
- The messages of errors. They are shared objects that `setCustomMessage`
  writes into (`src/src/types/error-codes.ts:72`); the models hold no messages.
- Handlers that only read and that no property is about: profiles, lists of
  sessions and of JWTState rows, JWKS; and the guard of the chat stream, which
  compares the domain of the user's email with a setting before the stream
  starts.
- `AuthService.update`, `findAll` and `findOne` and `JwtStrategy`: nothing calls
  them. `updateJWTTokenSessionId`: its callers want an `id` that
  generateJWTToken does not return.
- Liveness of requests, for the reason under Fairness.
