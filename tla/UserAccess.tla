----------------------------- MODULE UserAccess -----------------------------
(***************************************************************************)
(* Accounts and what they may do: registering, logging in and renaming     *)
(* (AuthService, UserService), the table of roles each start of a server   *)
(* brings in line with RoleDefinitions, the administrators it looks for    *)
(* (RoleService), and the guard and the scopes that read roles.            *)
(*                                                                         *)
(* Usernames and emails are unique, each among themselves; nothing keeps a *)
(* username from being an email, so logins are strings of one set.  A role *)
(* has a numeric mask, one bit for each permission.  A server that does    *)
(* not come up exits, and is started again.                                *)
(***************************************************************************)
EXTENDS Integers, Sequences, FiniteSets, FiniteSetsExt

CONSTANTS
  Requests, Servers,
  Names,             \* usernames that are no email
  AdminEmails,       \* emails x@d, where d is ADMIN_DOMAIN
  AlikeEmails,       \* emails x@d.e: they contain @d
  OtherEmails,
  UnsentLogins,      \* those of them that are empty or longer than 255 characters
  LongPasswords,     \* of eight to 128 characters
  UnsentPasswords,   \* of six or seven, or of more than 128
  NoRow,             \* nothing read
  NoPass,            \* the password of a user made by a provider's login
  MaxId, MaxFaults   \* bounds on users and on failures of the database

ASSUME AccessAssumption ==
  /\ IsFiniteSet(Requests) /\ MaxId \in Nat \ {0} /\ MaxFaults \in Nat
  /\ AdminEmails \cap (AlikeEmails \cup OtherEmails) = {}
  /\ AlikeEmails \cap OtherEmails = {}
  /\ Names \cap (AdminEmails \cup AlikeEmails \cup OtherEmails) = {}
  /\ LongPasswords \cap UnsentPasswords = {}
  /\ NoPass \notin LongPasswords \cup UnsentPasswords

VARIABLES
  users,    \* the User rows
  roles,    \* the Role rows: masks by name
  server,   \* the servers, up or on their way
  req,      \* the requests in flight
  nextId,
  faults

accessVars == <<users, roles, server, req, nextId, faults>>

-----------------------------------------------------------------------------
(* Permissions *)

\* PermissionType
USER_READ == 1
USER_WRITE == 2
VIEW_ALL_USERS == 4
ADMIN_READ == 8
ADMIN_WRITE == 16
PermissionType == {USER_READ, USER_WRITE, VIEW_ALL_USERS, ADMIN_READ, ADMIN_WRITE}
Bits == PermissionType \cup {32}   \* and one that no PermissionType has

BitsOf(mask) == {b \in Bits : (mask \div b) % 2 = 1}

\* encode, of distinct permissions: reduce with |
encode(perms) == SumSet(perms)

\* decode throws on a bit that is no PermissionType.
Decodes(mask) == BitsOf(mask) \subseteq PermissionType

\* Mutant of Combined: masks are added.
CombinedSum(masks) == SumSet(masks)

\* The masks of a user's roles, combined with |
Combined(masks) == encode(UNION {BitsOf(m) : m \in masks})

RoleDefinitions ==
  [name \in {"user", "role_manager", "admin"} |->
     CASE name = "user" -> {USER_READ, USER_WRITE}
       [] name = "role_manager" -> {USER_READ, USER_WRITE, VIEW_ALL_USERS}
       [] name = "admin" -> {USER_READ, USER_WRITE, ADMIN_READ, ADMIN_WRITE}]
Defined == DOMAIN RoleDefinitions
DefinedOrder == <<"user", "role_manager", "admin">>

\* The name updateAdminUsers gives a role, Roles.ADMIN, is the key of the
\* definition of the role named admin.
RoleKey == "ADMIN"

Emails == AdminEmails \cup AlikeEmails \cup OtherEmails
Logins == Names \cup Emails

\* registerSchema takes any username, any email and passwords of six characters or
\* more, with no upper bound; loginSchema takes passwords of eight to 128, and
\* logins of 1 to 255.
Passwords == LongPasswords \cup UnsentPasswords
LoginPasswords == LongPasswords
LoginNames == Logins \ UnsentLogins

ASSUME NoRowAssumption ==
  NoRow \notin [id : 1..MaxId, name : Logins, email : Emails, pass : Passwords \cup {NoPass},
                roles : SUBSET (Defined \cup {"moderator"})]

-----------------------------------------------------------------------------
(* Tables *)

With(r, x) == [req EXCEPT ![r] = x]
Idle == [pc |-> "idle"]
Free(u) == /\ \A v \in users : v.name # u.name
           /\ \A v \in users : v.email # u.email

\* user.update: of a row that is gone it throws.
Replace(id, f(_)) == {IF u.id = id THEN f(u) ELSE u : u \in users}
Ids == {u.id : u \in users}

\* role.findMany: name in names
RolesNamed(names) == names \cap DOMAIN roles

\* updateUserRolesById of a user that is there
GiveRole(id) == Replace(id, LAMBDA u : [u EXCEPT !.roles = RolesNamed({RoleKey})])

-----------------------------------------------------------------------------
(* RoleService.onModuleInit *)

To(s, pc, todo) == [server EXCEPT ![s] = [@ EXCEPT !.pc = pc, !.todo = todo]]

\* The process starts and connects to the database; where it cannot, it exits and
\* is down as before.
Boot(s) ==
  /\ server[s].pc = "down"
  /\ server' = [server EXCEPT ![s] =
                  [pc |-> "sync", defs |-> DefinedOrder, todo |-> {}, failed |-> FALSE]]
  /\ UNCHANGED <<users, roles, req, nextId, faults>>

\* Mutant of Upserted: a role that is there is taken to be up to date.
UpsertedIfMissing(name) ==
  [n \in DOMAIN roles \cup {name} |->
     IF n \in DOMAIN roles THEN roles[n] ELSE encode(RoleDefinitions[name])]
\* upsertRoleByName, unless the mask is the defined one already
Upserted(name) ==
  [n \in DOMAIN roles \cup {name} |->
     IF n = name THEN encode(RoleDefinitions[name]) ELSE roles[n]]

SyncRole(s) ==
  /\ server[s].pc = "sync" /\ server[s].defs # <<>>
  /\ roles' = Upserted(Head(server[s].defs))
  /\ server' = [server EXCEPT ![s].defs = Tail(@)]
  /\ UNCHANGED <<users, req, nextId, faults>>

\* findAllRoles: those that are not defined are to be deleted.
ListRoles(s) ==
  /\ server[s].pc = "sync" /\ server[s].defs = <<>>
  /\ server' = To(s, "prune", DOMAIN roles \ Defined)
  /\ UNCHANGED <<users, roles, req, nextId, faults>>

\* Mutant of Pruned: the role goes and stays with its users.
PrunedAlone(name) == users
\* The deletion of a role takes its links to users with it.
Pruned(name) == {[u EXCEPT !.roles = @ \ {name}] : u \in users}

PruneRole(s) ==
  /\ server[s].pc = "prune"
  /\ \E name \in server[s].todo :
       /\ roles' = [n \in DOMAIN roles \ {name} |-> roles[n]]
       /\ users' = Pruned(name)
       /\ server' = To(s, "prune", server[s].todo \ {name})
  /\ UNCHANGED <<req, nextId, faults>>

\* A deletion that fails is logged and passed over.
PruneFails(s) ==
  /\ server[s].pc = "prune" /\ faults < MaxFaults
  /\ \E name \in server[s].todo :
       server' = [server EXCEPT ![s] =
                    [@ EXCEPT !.todo = server[s].todo \ {name}, !.failed = TRUE]]
  /\ faults' = faults + 1
  /\ UNCHANGED <<users, roles, req, nextId>>

PruneDone(s) ==
  /\ server[s].pc = "prune" /\ server[s].todo = {}
  /\ server' = To(s, "admins", {})
  /\ UNCHANGED <<users, roles, req, nextId, faults>>

\* Any other failure of the synchronisation is logged, and the start goes on.
SyncFails(s) ==
  /\ server[s].pc = "sync" /\ faults < MaxFaults
  /\ server' = [server EXCEPT ![s] = [@ EXCEPT !.pc = "admins", !.failed = TRUE]]
  /\ faults' = faults + 1
  /\ UNCHANGED <<users, roles, req, nextId>>

\* Mutant of InDomain: the part before the @ is compared.
InLocalPart(email) == FALSE
\* Mutant of InDomain: it is enough that the email contains @d.
HasDomain(email) == email \in AdminEmails \cup AlikeEmails
\* updateAdminUsers: email.split('@')[1] is ADMIN_DOMAIN.
InDomain(email) == email \in AdminEmails

\* findUsersByDomain finds the emails that contain @d, and updateAdminUsers wants
\* all of them to end in it: the start fails, or goes on to each user found.
FindAdmins(s) ==
  /\ server[s].pc = "admins"
  /\ LET found == {u \in users : u.email \in AdminEmails \cup AlikeEmails}
     IN  server' = IF \A u \in found : InDomain(u.email)
                   THEN To(s, "assign", {u.id : u \in found})
                   ELSE To(s, "exit", {})
  /\ UNCHANGED <<users, roles, req, nextId, faults>>

\* The next of them is updated; if its row is gone the start fails.
AssignAdmin(s) ==
  /\ server[s].pc = "assign"
  /\ \E id \in server[s].todo :
       IF id \in Ids
       THEN /\ users' = GiveRole(id)
            /\ server' = To(s, "assign", server[s].todo \ {id})
       ELSE /\ server' = To(s, "exit", {})
            /\ UNCHANGED users
  /\ UNCHANGED <<roles, req, nextId, faults>>

StartFails(s) ==
  /\ server[s].pc \in {"admins", "assign"} /\ faults < MaxFaults
  /\ server' = To(s, "exit", {})
  /\ faults' = faults + 1
  /\ UNCHANGED <<users, roles, req, nextId>>

Up(s) ==
  /\ server[s].pc = "assign" /\ server[s].todo = {}
  /\ server' = To(s, "up", {})
  /\ UNCHANGED <<users, roles, req, nextId, faults>>

\* onModuleInit throws, and the process exits.
Exit(s) ==
  /\ server[s].pc = "exit"
  /\ server' = To(s, "down", {})
  /\ UNCHANGED <<users, roles, req, nextId, faults>>

Crash(s) ==
  /\ server[s].pc \notin {"down", "exit"} /\ faults < MaxFaults
  /\ server' = To(s, "down", {})
  /\ faults' = faults + 1
  /\ UNCHANGED <<users, roles, req, nextId>>

-----------------------------------------------------------------------------
(* Requests: some server takes them *)

Serving == \E s \in Servers : server[s].pc = "up"

(* register *)

\* Both look-ups find nobody.  (What they find is checked again by the insert.)
RegisterCheck(r, name, email, pass) ==
  /\ Serving /\ req[r].pc = "idle"
  /\ nextId <= MaxId
  /\ Free([name |-> name, email |-> email])
  /\ req' = With(r, [pc |-> "register", name |-> name, email |-> email, pass |-> pass])
  /\ UNCHANGED <<users, roles, server, nextId, faults>>

\* generateUniqueUsername: letters and digits only, so never an email, and a random
\* number that leaves it to the insert whether the name is taken.
generateUniqueUsername == Names

\* The first login through a provider: processSnsProfile looks for the email of the
\* profile only, and for a profile without one (x@provider.local is made up, which
\* is one of OtherEmails) for nothing.
SnsCheck(r, name, email) ==
  /\ Serving /\ req[r].pc = "idle"
  /\ nextId <= MaxId
  /\ email \in OtherEmails \/ \A u \in users : u.email # email
  /\ req' = With(r, [pc |-> "register", name |-> name, email |-> email, pass |-> NoPass])
  /\ UNCHANGED <<users, roles, server, nextId, faults>>

\* createUser, createSnsUser: a row without a role, or an exception if a name has been taken.
RegisterCreate(r) ==
  /\ req[r].pc = "register"
  /\ nextId <= MaxId
  /\ IF Free(req[r])
     THEN /\ users' = users \cup {[id |-> nextId, name |-> req[r].name,
                                   email |-> req[r].email, pass |-> req[r].pass,
                                   roles |-> {}]}
          /\ nextId' = nextId + 1
     ELSE UNCHANGED <<users, nextId>>
  /\ req' = With(r, Idle)
  /\ UNCHANGED <<roles, server, faults>>

(* login *)

\* Mutant of Found: users are found by their name only.
FoundByName(login) == {u \in users : u.name = login}
\* verifyUserPassword: findFirst by username or email gives one of these.
Found(login) == {u \in users : login \in {u.name, u.email}}

\* The answer is a user or nobody, and nobody too where loginSchema refuses the
\* body.
Login(r, login, pass) ==
  /\ Serving /\ req[r].pc = "idle"
  /\ \E u \in IF Found(login) = {} THEN {NoRow} ELSE Found(login) :
       req' = With(r, [pc |-> "answer", login |-> login, pass |-> pass,
                       user |-> IF /\ u # NoRow /\ u.pass = pass
                                   /\ login \in LoginNames /\ pass \in LoginPasswords
                                THEN u.id ELSE 0])
  /\ UNCHANGED <<users, roles, server, nextId, faults>>

Answered(r) ==
  /\ req[r].pc = "answer"
  /\ req' = With(r, Idle)
  /\ UNCHANGED <<users, roles, server, nextId, faults>>

(* updateProfile: updateUserNameById *)

RenameCheck(r, id, name) ==
  /\ Serving /\ req[r].pc = "idle" /\ id \in Ids
  /\ \A v \in users : v.name = name => v.id = id
  /\ req' = With(r, [pc |-> "rename", id |-> id, name |-> name])
  /\ UNCHANGED <<users, roles, server, nextId, faults>>

\* The update, or ALREADY_TAKEN_USERNAME, if the name or the user has gone
\* meanwhile too.
RenameWrite(r) ==
  /\ req[r].pc = "rename"
  /\ users' = IF \E v \in users : v.name = req[r].name /\ v.id # req[r].id THEN users
              ELSE Replace(req[r].id, LAMBDA u : [u EXCEPT !.name = req[r].name])
  /\ req' = With(r, Idle)
  /\ UNCHANGED <<roles, server, nextId, faults>>

(* GET /users/list, behind PermissionGuard *)

\* The user as the guard reads it: one of its roles, or all of them combined,
\* have every bit of the required mask.
Permits(u, required) ==
  /\ u.roles # {}
  /\ BitsOf(required) \subseteq BitsOf(Combined({roles[n] : n \in u.roles}))

List(r, u) ==
  /\ Serving /\ req[r].pc = "idle"
  /\ req' = With(r, [pc |-> "list", roles |-> u.roles,
                     granted |-> Permits(u, encode({VIEW_ALL_USERS}))])
  /\ UNCHANGED <<users, roles, server, nextId, faults>>

ListAnswered(r) ==
  /\ req[r].pc = "list"
  /\ req' = With(r, Idle)
  /\ UNCHANGED <<users, roles, server, nextId, faults>>

(* getAvailableScopes without a client: decode of the combined masks *)

Scopes(r, u) ==
  /\ Serving /\ req[r].pc = "idle"
  /\ req' = With(r, [pc |-> "scopes",
                     ok |-> Decodes(Combined({roles[n] : n \in u.roles}))])
  /\ UNCHANGED <<users, roles, server, nextId, faults>>

ScopesAnswered(r) ==
  /\ req[r].pc = "scopes"
  /\ req' = With(r, Idle)
  /\ UNCHANGED <<users, roles, server, nextId, faults>>

(* GET /role/request-update *)

\* AuthUser reads the row.
RoleRead(r, u) ==
  /\ Serving /\ req[r].pc = "idle"
  /\ req' = With(r, [pc |-> "role", id |-> u.id, email |-> u.email])
  /\ UNCHANGED <<users, roles, server, nextId, faults>>

\* updateAdminUsers of what has been read
RoleUpdate(r) ==
  /\ req[r].pc = "role"
  /\ users' = IF InDomain(req[r].email) THEN GiveRole(req[r].id) ELSE users
  /\ req' = With(r, Idle)
  /\ UNCHANGED <<roles, server, nextId, faults>>

(* Of other components: verifyEmailChange, and the deletion of a user *)

ChangeEmail(id, email) ==
  /\ Serving /\ id \in Ids
  /\ \A v \in users : v.email # email
  /\ users' = Replace(id, LAMBDA u : [u EXCEPT !.email = email])
  /\ UNCHANGED <<roles, server, req, nextId, faults>>

DeleteUser(id) ==
  /\ Serving /\ id \in Ids
  /\ users' = {u \in users : u.id # id}
  /\ UNCHANGED <<roles, server, req, nextId, faults>>

-----------------------------------------------------------------------------

\* The tables an earlier version may have left: none, those of this version, or
\* roles since redefined and one since dropped, with a bit since dropped.
\* None has a role of the name RoleKey, which is assumed: RolesOnlyStripped would not
\* survive such a row, if its deletion at the start failed.
Tables == {
  <<>>,
  [name \in Defined |-> encode(RoleDefinitions[name])],
  [name \in {"user", "moderator"} |-> IF name = "user" THEN 1 + 4 ELSE 32]}

Init ==
  /\ roles \in Tables
  /\ \/ users = {}
     \/ \E n \in Names, e \in Emails, p \in Passwords, rs \in SUBSET DOMAIN roles :
          users = {[id |-> 1, name |-> n, email |-> e, pass |-> p, roles |-> rs]}
  /\ nextId = 1 + Cardinality(users)
  /\ server = [s \in Servers |-> [pc |-> "down", defs |-> <<>>, todo |-> {}, failed |-> FALSE]]
  /\ req = [r \in Requests |-> Idle]
  /\ faults = 0

\* The steps of a start
Start(s) ==
  \/ Boot(s) \/ SyncRole(s) \/ ListRoles(s) \/ PruneRole(s) \/ PruneDone(s)
  \/ FindAdmins(s) \/ AssignAdmin(s) \/ Up(s) \/ Exit(s)

Next ==
  \/ \E s \in Servers :
       Start(s) \/ PruneFails(s) \/ SyncFails(s) \/ StartFails(s) \/ Crash(s)
  \/ \E r \in Requests :
       \/ \E n \in Logins, e \in Emails, p \in Passwords : RegisterCheck(r, n, e, p)
       \/ \E n \in generateUniqueUsername, e \in Emails : SnsCheck(r, n, e)
       \/ \E l \in Logins, p \in Passwords : Login(r, l, p)
       \/ \E u \in users, n \in Logins : RenameCheck(r, u.id, n)
       \/ \E u \in users : List(r, u) \/ Scopes(r, u) \/ RoleRead(r, u)
       \/ RegisterCreate(r) \/ Answered(r) \/ RenameWrite(r)
       \/ ListAnswered(r) \/ ScopesAnswered(r) \/ RoleUpdate(r)
  \/ \E u \in users : DeleteUser(u.id) \/ \E e \in Emails : ChangeEmail(u.id, e)

\* A start goes on, and a process that has exited is started again.
Spec == Init /\ [][Next]_accessVars /\ \A s \in Servers : WF_accessVars(Start(s))

-----------------------------------------------------------------------------
(* Properties *)

\* The variables have their types, and no user has a role that is gone.
TypeOK ==
  /\ \A u \in users : u \in [id : 1..MaxId, name : Logins, email : Emails,
                             pass : Passwords \cup {NoPass},
                             roles : SUBSET DOMAIN roles]
  /\ DOMAIN roles \subseteq Defined \cup {"moderator"}
  /\ \A n \in DOMAIN roles : roles[n] \in 0..63
  /\ \A s \in Servers :
       server[s].pc \in {"down", "sync", "prune", "admins", "assign", "exit", "up"}
  /\ nextId \in 1..MaxId + 1 /\ faults \in 0..MaxFaults

\* A user's own login and password are refused only if another user has that login
\* too, as its username or its email, or if they are among those that may be
\* registered but not sent to log in: a password of less than eight characters or
\* more than 128, a username or email that is empty or longer than 255.
RightPasswordRefused ==
  [][\A r \in Requests, u \in users :
       /\ req[r].pc = "idle" /\ req'[r].pc = "answer" /\ req'[r].user = 0
       /\ req'[r].login \in {u.name, u.email} /\ req'[r].pass = u.pass
       => \/ u.pass \in UnsentPasswords
          \/ req'[r].login \in UnsentLogins
          \/ \E v \in users : v.id # u.id /\ req'[r].login \in {v.name, v.email}]_accessVars

InSync == roles = [name \in Defined |-> encode(RoleDefinitions[name])]

\* A server is up with the roles of RoleDefinitions, each with its mask and no
\* other, whatever an earlier version or a crash within a start
\* has left, unless its synchronisation has failed in part.
ServedInSync ==
  \A s \in Servers : server[s].pc = "up" /\ ~server[s].failed => InSync

\* No step of the program gives a user a role, and the only users who lose one
\* that is defined are those of ADMIN_DOMAIN: the role they are meant to get is
\* looked up under the key of its definition.
RolesOnlyStripped ==
  [][\A u \in users, v \in users' : u.id = v.id =>
       /\ v.roles \subseteq u.roles
       /\ (u.roles \ v.roles) \cap Defined # {} =>
            \/ \E s \in Servers : server[s].pc = "assign" /\ u.id \in server[s].todo
            \/ \E r \in Requests : req[r].pc = "role" /\ req[r].id = u.id
                                   /\ req[r].email \in AdminEmails]_accessVars

\* Once the roles are in sync, the list of users is for role managers, and every
\* user's scopes can be told: no sum or union of masks is more than its roles.
MasksMatchRoles ==
  [][InSync =>
       \A r \in Requests : req[r].pc = "idle" =>
         /\ req'[r].pc = "list" =>
              (req'[r].granted <=> "role_manager" \in req'[r].roles)
         /\ req'[r].pc = "scopes" => req'[r].ok]_accessVars

\* The service comes up, as long as nobody's email contains @ADMIN_DOMAIN without
\* being of that domain.
ComesUp == []<>(Serving \/ \E u \in users : u.email \in AlikeEmails)
=============================================================================
