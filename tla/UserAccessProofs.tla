--------------------------- MODULE UserAccessProofs ---------------------------
(* Proofs about UserAccess for every set of requests, servers, names,      *)
(* emails and passwords, every table of users and every bound.             *)
EXTENDS UserAccess, FiniteSetTheorems, WellFoundedInduction, TLAPS

-----------------------------------------------------------------------------
(* Masks: the sum of distinct bits is the mask that has them *)

\* The mask whose bits are s.
One(b, s) == IF b \in s THEN b ELSE 0
MaskOf(s) ==
  One(1, s) + One(2, s) + One(4, s) + One(8, s) + One(16, s) + One(32, s)

LEMMA MaskRange == ASSUME NEW s PROVE MaskOf(s) \in 0..63
BY DEF MaskOf, One

\* Taking a bit out of a mask takes its value off.
LEMMA MaskWithout ==
  ASSUME NEW s \in SUBSET Bits, NEW b \in s
  PROVE  MaskOf(s) = b + MaskOf(s \ {b})
<1>1. b \in {1, 2, 4, 8, 16, 32}
  BY DEF Bits, PermissionType, USER_READ, USER_WRITE, VIEW_ALL_USERS, ADMIN_READ, ADMIN_WRITE
<1> QED BY <1>1, SMTT(60) DEF MaskOf, One

\* encode, which adds distinct permissions up, unfolds bit by bit.
LEMMA SumUnfolds ==
  ASSUME NEW S \in SUBSET Bits
  PROVE  \E f : /\ f = [s \in SUBSET S |->
                          IF s = {} THEN 0
                          ELSE (CHOOSE x \in s : TRUE) + f[s \ {CHOOSE x \in s : TRUE}]]
                /\ encode(S) = f[S]
<1> DEFINE Unfolds(f) ==
      f = [s \in SUBSET S |->
             IF s = {} THEN 0
             ELSE (CHOOSE x \in s : TRUE) + f[s \ {CHOOSE x \in s : TRUE}]]
<1> DEFINE g == [s \in SUBSET S |-> MaskOf(s)]
<1>1. Unfolds(g)
  <2>1. ASSUME NEW s \in SUBSET S, s # {}
        PROVE  g[s] = (CHOOSE x \in s : TRUE) + g[s \ {CHOOSE x \in s : TRUE}]
    <3>1. (CHOOSE x \in s : TRUE) \in s
      BY <2>1
    <3>2. s \in SUBSET Bits /\ s \ {CHOOSE x \in s : TRUE} \in SUBSET S
      OBVIOUS
    <3> QED BY <3>1, <3>2, MaskWithout
  <2>2. ASSUME NEW s \in SUBSET S, s = {}
        PROVE  g[s] = 0
    BY <2>2 DEF MaskOf, One
  <2> QED BY <2>1, <2>2
<1>2. Unfolds(CHOOSE f : Unfolds(f))
  BY <1>1
<1>3. encode(S) = (CHOOSE f : Unfolds(f))[S]
  BY DEF encode, SumSet, FoldSet, MapThenFoldSet
<1> QED BY <1>2, <1>3

\* A set of numbers with 0 in it, and with n + 1 for each n in it, has them all.
LEMMA Induction ==
  ASSUME NEW T, 0 \in T, \A n \in Nat : n \in T => n + 1 \in T
  PROVE  Nat \subseteq T
<1> DEFINE Less == {p \in Nat \X Nat : p[1] < p[2]}
<1>1. IsWellFoundedOn(Less, Nat)
  BY NatLessThanWellFounded DEF OpToRel
<1> SUFFICES ASSUME Nat \ T # {} PROVE FALSE
  OBVIOUS
<1>2. PICK n \in Nat \ T : \A m \in Nat \ T : <<m, n>> \notin Less
  <2> HIDE DEF Less
  <2> QED BY <1>1, WFMin
<1>3. n - 1 \in Nat \ T
  <2>1. n # 0
    OBVIOUS
  <2>2. n - 1 \in Nat /\ (n - 1) + 1 = n
    BY <2>1
  <2> QED BY <2>2
<1>4. <<n - 1, n>> \in Less
  BY <1>3
<1> QED BY <1>2, <1>3, <1>4


\* encode of distinct permissions is the mask that has them.
LEMMA EncodeIsMask ==
  ASSUME NEW S \in SUBSET Bits
  PROVE  encode(S) = MaskOf(S)
<1> DEFINE pick(s) == CHOOSE x \in s : TRUE
<1>1. PICK f : /\ f = [s \in SUBSET S |->
                         IF s = {} THEN 0 ELSE pick(s) + f[s \ {pick(s)}]]
               /\ encode(S) = f[S]
  BY SumUnfolds
<1> DEFINE T == {n \in Nat : \A s \in SUBSET S : MaskOf(s) <= n => f[s] = MaskOf(s)}
<1>2. ASSUME NEW s \in SUBSET S, s # {}
      PROVE  /\ f[s] = pick(s) + f[s \ {pick(s)}]
             /\ pick(s) \in Nat \ {0}
             /\ s \ {pick(s)} \in SUBSET S
             /\ MaskOf(s) = pick(s) + MaskOf(s \ {pick(s)})
             /\ MaskOf(s) \in Nat /\ MaskOf(s \ {pick(s)}) \in Nat
  <2>1. pick(s) \in s
    BY <1>2
  <2>2. f[s] = pick(s) + f[s \ {pick(s)}]
    BY <1>1, <1>2
  <2>3. s \in SUBSET Bits /\ s \ {pick(s)} \in SUBSET Bits
    OBVIOUS
  <2> HIDE DEF pick
  <2>4. MaskOf(s) = pick(s) + MaskOf(s \ {pick(s)})
    BY <2>1, <2>3, MaskWithout
  <2>5. pick(s) \in Nat \ {0}
    <3>1. pick(s) \in Bits
      BY <2>1
    <3> QED BY <3>1 DEF Bits, PermissionType, USER_READ, USER_WRITE, VIEW_ALL_USERS,
      ADMIN_READ, ADMIN_WRITE
  <2>6. MaskOf(s) \in Nat /\ MaskOf(s \ {pick(s)}) \in Nat
    BY DEF MaskOf, One
  <2> QED BY <2>2, <2>3, <2>4, <2>5, <2>6
<1>3. f[{}] = 0 /\ MaskOf({}) = 0
  BY <1>1 DEF MaskOf, One
<1> HIDE DEF pick
<1>4. 0 \in T
  <2>1. ASSUME NEW s \in SUBSET S, MaskOf(s) <= 0
        PROVE  s = {}
    <3> SUFFICES ASSUME s # {} PROVE FALSE
      OBVIOUS
    <3> DEFINE x == pick(s)
    <3>1. /\ MaskOf(s) = x + MaskOf(s \ {x})
          /\ x \in Nat \ {0} /\ MaskOf(s \ {x}) \in Nat
      BY <1>2
    <3> HIDE DEF x
    <3> QED BY <2>1, <3>1
  <2> QED BY <2>1, <1>3
<1>5. ASSUME NEW n \in Nat, n \in T
      PROVE  n + 1 \in T
  <2>1. ASSUME NEW s \in SUBSET S, s # {}, MaskOf(s) <= n + 1
        PROVE  f[s] = MaskOf(s)
    <3>1. MaskOf(s \ {pick(s)}) <= n
      BY <1>2, <2>1
    <3>2. f[s \ {pick(s)}] = MaskOf(s \ {pick(s)})
      BY <1>2, <1>5, <2>1, <3>1
    <3> QED BY <1>2, <2>1, <3>2
  <2> QED BY <2>1, <1>3
<1>6. Nat \subseteq T
  <2> HIDE DEF T
  <2> QED BY <1>4, <1>5, Induction
<1>7. MaskOf(S) \in Nat
  BY DEF MaskOf, One
<1>8. MaskOf(S) \in T
  <2> HIDE DEF T
  <2> QED BY <1>6, <1>7
<1>9. f[S] = MaskOf(S)
  BY <1>7, <1>8
<1> QED BY <1>1, <1>9

\* Every bit of a mask can be read off it.
LEMMA BitsOfMask ==
  ASSUME NEW s \in SUBSET Bits
  PROVE  BitsOf(MaskOf(s)) = s
<1>1. Bits = {1, 2, 4, 8, 16, 32}
  BY DEF Bits, PermissionType, USER_READ, USER_WRITE, VIEW_ALL_USERS, ADMIN_READ, ADMIN_WRITE
<1>2. PICK a, b, c, d, e, g \in 0..1 :
        /\ a = 1 <=> 1 \in s
        /\ b = 1 <=> 2 \in s
        /\ c = 1 <=> 4 \in s
        /\ d = 1 <=> 8 \in s
        /\ e = 1 <=> 16 \in s
        /\ g = 1 <=> 32 \in s
  OBVIOUS
<1>3. MaskOf(s) = a + 2 * b + 4 * c + 8 * d + 16 * e + 32 * g
  BY <1>2 DEF MaskOf, One
<1>4. /\ MaskOf(s) \div 1 = a + 2 * (b + 2 * c + 4 * d + 8 * e + 16 * g)
      /\ MaskOf(s) \div 2 = b + 2 * (c + 2 * d + 4 * e + 8 * g)
      /\ MaskOf(s) \div 4 = c + 2 * (d + 2 * e + 4 * g)
      /\ MaskOf(s) \div 8 = d + 2 * (e + 2 * g)
      /\ MaskOf(s) \div 16 = e + 2 * g
      /\ MaskOf(s) \div 32 = g
  BY <1>3
<1>5. \A x \in 0..1, y \in Nat : (x + 2 * y) % 2 = x
  OBVIOUS
<1>6. \A x \in Bits : (MaskOf(s) \div x) % 2 = 1 <=> x \in s
  BY <1>1, <1>2, <1>4, <1>5
<1> QED BY <1>6 DEF BitsOf


\* So it is with what encode gives, and with the masks of several roles combined:
\* no sum carries into a bit that none of them has.
LEMMA EncodedBits ==
  ASSUME NEW s \in SUBSET Bits
  PROVE  encode(s) \in 0..63 /\ BitsOf(encode(s)) = s
BY EncodeIsMask, BitsOfMask, MaskRange

LEMMA CombinedBits ==
  ASSUME NEW masks
  PROVE  BitsOf(Combined(masks)) = UNION {BitsOf(m) : m \in masks}
<1>1. UNION {BitsOf(m) : m \in masks} \in SUBSET Bits
  BY DEF BitsOf
<1> QED BY <1>1, EncodedBits DEF Combined

\* What is defined
LEMMA Definitions ==
  /\ Defined = {"user", "role_manager", "admin"}
  /\ \A n \in Defined : RoleDefinitions[n] \in SUBSET PermissionType
  /\ \A n \in Defined : VIEW_ALL_USERS \in RoleDefinitions[n] <=> n = "role_manager"
  /\ \A n \in Defined : encode(RoleDefinitions[n]) \in 0..63
                        /\ BitsOf(encode(RoleDefinitions[n])) = RoleDefinitions[n]
<1>1. Defined = {"user", "role_manager", "admin"}
  BY DEF Defined, RoleDefinitions
<1>2. /\ RoleDefinitions["user"] = {1, 2}
      /\ RoleDefinitions["role_manager"] = {1, 2, 4}
      /\ RoleDefinitions["admin"] = {1, 2, 8, 16}
  BY DEF RoleDefinitions, USER_READ, USER_WRITE, VIEW_ALL_USERS, ADMIN_READ, ADMIN_WRITE
<1>3. PermissionType = {1, 2, 4, 8, 16} /\ VIEW_ALL_USERS = 4
  BY DEF PermissionType, USER_READ, USER_WRITE, VIEW_ALL_USERS, ADMIN_READ, ADMIN_WRITE
<1>4. \A n \in Defined : RoleDefinitions[n] \in SUBSET PermissionType
  BY <1>1, <1>2, <1>3
<1>5. \A n \in Defined : VIEW_ALL_USERS \in RoleDefinitions[n] <=> n = "role_manager"
  BY <1>1, <1>2, <1>3
<1>6. PermissionType \subseteq Bits
  BY DEF Bits
<1> QED BY <1>1, <1>4, <1>5, <1>6, EncodedBits

-----------------------------------------------------------------------------
(* The inductive invariant *)

USE AccessAssumption

RoleNames == Defined \cup {"moderator"}

PC == {"down", "sync", "prune", "admins", "assign", "exit", "up"}

\* The definitions a start has left to bring in line
DefsLeft == {<<"user", "role_manager", "admin">>, <<"role_manager", "admin">>, <<"admin">>, <<>>}

\* What a start has left to do: roles to delete, or users to update
Todo(pc) ==
  CASE pc = "prune" -> SUBSET RoleNames
    [] pc = "assign" -> SUBSET (1..MaxId)
    [] OTHER -> {{}}

\* The records of server
Process ==
  UNION {[pc : {pc}, defs : DefsLeft, todo : Todo(pc), failed : BOOLEAN] : pc \in PC}

ServersInv ==
  /\ DOMAIN server = Servers
  /\ \A s \in Servers : server[s] \in Process

\* What a request holds that it may write
Holds(q) ==
  /\ q.pc = "register" => /\ q.name \in Logins /\ q.email \in Emails
                          /\ q.pass \in Passwords \cup {NoPass}
  /\ q.pc = "rename" => q.name \in Logins

RequestsInv ==
  /\ DOMAIN req = Requests
  /\ \A r \in Requests : Holds(req[r])

\* Ids are given once.
IdsInv ==
  /\ \A u \in users : u.id < nextId
  /\ \A u, v \in users : u.id = v.id => u = v

\* The role has the mask of its definition.
Defines(n) == n \in DOMAIN roles /\ roles[n] = encode(RoleDefinitions[n])

\* A start that has not failed has brought in line the definitions it has been
\* through, then has every role that is not defined before it, or gone; and no
\* start deletes a role that is defined.
Synced(s) ==
  /\ server[s].pc = "prune" => server[s].todo \cap Defined = {}
  /\ ~server[s].failed =>
       /\ server[s].pc = "sync" =>
            \A n \in Defined : Defines(n) \/ \E i \in 1..3 : i <= Len(server[s].defs)
                                                            /\ server[s].defs[i] = n
       /\ server[s].pc = "prune" =>
            /\ \A n \in Defined : Defines(n)
            /\ DOMAIN roles \ Defined \subseteq server[s].todo
       /\ server[s].pc \in {"admins", "assign", "up"} =>
            /\ \A n \in Defined : Defines(n)
            /\ DOMAIN roles = Defined

SyncInv == \A s \in Servers : Synced(s)

\* Types, and what the types of users and of requests rest on: roles is a function.
TableInv == roles \in [DOMAIN roles -> 0..63]

TypeInv == TypeOK /\ TableInv /\ ServersInv /\ RequestsInv /\ IdsInv

IInv == TypeInv /\ SyncInv

-----------------------------------------------------------------------------
(* What the steps of a start do to server *)

LEMMA Fields ==
  ASSUME ServersInv, NEW s \in Servers
  PROVE  /\ server[s] = [pc |-> server[s].pc, defs |-> server[s].defs,
                         todo |-> server[s].todo, failed |-> server[s].failed]
         /\ server[s].pc \in PC /\ server[s].defs \in DefsLeft
         /\ server[s].todo \in Todo(server[s].pc) /\ server[s].failed \in BOOLEAN
<1>1. PICK pc \in PC :
        server[s] \in [pc : {pc}, defs : DefsLeft, todo : Todo(pc), failed : BOOLEAN]
  BY DEF ServersInv, Process
<1>2. server[s].pc = pc
  BY <1>1
<1> HIDE DEF Todo
<1> QED BY <1>1, <1>2

\* A process that moves is the only one.
LEMMA Moved ==
  ASSUME ServersInv, NEW s \in Servers, NEW p \in Process,
         server' = [server EXCEPT ![s] = p]
  PROVE  /\ ServersInv'
         /\ server'[s] = p
         /\ \A t \in Servers \ {s} : server'[t] = server[t]
BY DEF ServersInv

LEMMA MovedTo ==
  ASSUME ServersInv, NEW s \in Servers, NEW pc \in PC, NEW todo \in Todo(pc),
         server' = To(s, pc, todo)
  PROVE  /\ ServersInv'
         /\ server'[s] = [pc |-> pc, defs |-> server[s].defs, todo |-> todo,
                          failed |-> server[s].failed]
         /\ \A t \in Servers \ {s} : server'[t] = server[t]
<1>1. PICK c, d, t, f :
        /\ server[s] = [pc |-> c, defs |-> d, todo |-> t, failed |-> f]
        /\ d \in DefsLeft /\ f \in BOOLEAN
  BY Fields
<1>2. [server[s] EXCEPT !.pc = pc, !.todo = todo] =
        [pc |-> pc, defs |-> d, todo |-> todo, failed |-> f]
  <2>1. PICK y : y = [server[s] EXCEPT !.pc = pc]
    OBVIOUS
  <2>2. y = [pc |-> pc, defs |-> d, todo |-> t, failed |-> f]
    BY <1>1, <2>1
  <2>3. [y EXCEPT !.todo = todo] = [pc |-> pc, defs |-> d, todo |-> todo, failed |-> f]
    BY <2>2
  <2>4. [server[s] EXCEPT !.pc = pc, !.todo = todo] = [y EXCEPT !.todo = todo]
    BY <2>1
  <2> QED BY <2>3, <2>4
<1>3. [pc |-> pc, defs |-> d, todo |-> todo, failed |-> f] \in Process
  BY <1>1 DEF Process
<1>4. PICK p \in Process : p = [pc |-> pc, defs |-> d, todo |-> todo, failed |-> f]
  BY <1>3
<1>5. server' = [server EXCEPT ![s] = p]
  BY <1>2, <1>4 DEF To, ServersInv
<1>6. /\ ServersInv'
      /\ server'[s] = p
      /\ \A t_1 \in Servers \ {s} : server'[t_1] = server[t_1]
  BY <1>5, Moved
<1>7. server[s].defs = d /\ server[s].failed = f
  BY <1>1
<1> QED BY <1>4, <1>6, <1>7

LEMMA TypesOfPc == ServersInv => \A s \in Servers : server[s].pc \in PC
BY Fields

\* Head and Tail of what is left to bring in line
LEMMA NextDefinition ==
  ASSUME NEW defs \in DefsLeft, defs # <<>>
  PROVE  /\ Head(defs) \in Defined /\ Tail(defs) \in DefsLeft
         /\ \A n, i : i \in 1..3 /\ i <= Len(defs) /\ defs[i] = n =>
              n = Head(defs) \/ \E j \in 1..3 : j <= Len(Tail(defs)) /\ Tail(defs)[j] = n
<1>1. CASE defs = <<"user", "role_manager", "admin">>
  <2>1. Head(defs) = "user" /\ Tail(defs) = <<"role_manager", "admin">>
    BY <1>1
  <2> QED BY <1>1, <2>1, Definitions DEF DefsLeft
<1>2. CASE defs = <<"role_manager", "admin">>
  <2>1. Head(defs) = "role_manager" /\ Tail(defs) = <<"admin">>
    BY <1>2
  <2> QED BY <1>2, <2>1, Definitions DEF DefsLeft
<1>3. CASE defs = <<"admin">>
  <2>1. Head(defs) = "admin" /\ Tail(defs) = <<>>
    BY <1>3
  <2> QED BY <1>3, <2>1, Definitions DEF DefsLeft
<1> QED BY <1>1, <1>2, <1>3 DEF DefsLeft


\* The two failures within a synchronisation
LEMMA MovedByPruneFails ==
  ASSUME ServersInv, NEW s \in Servers, PruneFails(s)
  PROVE  /\ ServersInv'
         /\ server'[s].pc = "prune" /\ server'[s].failed
         /\ server'[s].todo \subseteq server[s].todo
         /\ \A t \in Servers \ {s} : server'[t] = server[t]
<1>1. PICK c, d, t, f :
        /\ server[s] = [pc |-> c, defs |-> d, todo |-> t, failed |-> f]
        /\ d \in DefsLeft /\ t \in Todo(c)
  BY Fields
<1>2. c = "prune"
  BY <1>1 DEF PruneFails
<1>3. PICK n \in server[s].todo :
        server' = [server EXCEPT ![s] =
                    [@ EXCEPT !.todo = server[s].todo \ {n}, !.failed = TRUE]]
  BY DEF PruneFails
<1>0. PICK b \in BOOLEAN : b = TRUE
  OBVIOUS
<1>4. PICK y : y = [server[s] EXCEPT !.todo = t \ {n}]
  OBVIOUS
<1>5. y = [pc |-> c, defs |-> d, todo |-> t \ {n}, failed |-> f]
  BY <1>1, <1>4, SMTT(60)
<1>6. [y EXCEPT !.failed = b] = [pc |-> c, defs |-> d, todo |-> t \ {n}, failed |-> b]
  BY <1>5, SMTT(60)
<1>7. server' = [server EXCEPT ![s] = [y EXCEPT !.failed = b]]
  <2>1. server' = [server EXCEPT ![s] =
                    [server[s] EXCEPT !.todo = server[s].todo \ {n}, !.failed = TRUE]]
    BY <1>3
  <2>2. server[s].todo = t
    BY <1>1
  <2>3. [server[s] EXCEPT !.todo = t \ {n}, !.failed = TRUE] = [y EXCEPT !.failed = TRUE]
    BY <1>4
  <2> QED BY <1>0, <2>1, <2>2, <2>3
<1>8. [pc |-> c, defs |-> d, todo |-> t \ {n}, failed |-> b] \in Process
  <2>1. t \ {n} \in Todo("prune")
    BY <1>1, <1>2 DEF Todo
  <2> QED BY <1>1, <1>2, <2>1 DEF Process, PC
<1>9. PICK p \in Process : p = [pc |-> c, defs |-> d, todo |-> t \ {n}, failed |-> b]
  BY <1>8
<1>10. server' = [server EXCEPT ![s] = p]
  BY <1>6, <1>7, <1>9
<1>11. /\ ServersInv'
       /\ server'[s] = p
       /\ \A t_1 \in Servers \ {s} : server'[t_1] = server[t_1]
  BY <1>10, Moved
<1>12. server[s].todo = t
  BY <1>1
<1> QED BY <1>0, <1>2, <1>9, <1>11, <1>12

LEMMA MovedBySyncFails ==
  ASSUME ServersInv, NEW s \in Servers, SyncFails(s)
  PROVE  /\ ServersInv'
         /\ server'[s].pc = "admins" /\ server'[s].failed
         /\ \A t \in Servers \ {s} : server'[t] = server[t]
<1>1. PICK c, d, t, f :
        /\ server[s] = [pc |-> c, defs |-> d, todo |-> t, failed |-> f]
        /\ d \in DefsLeft /\ t \in Todo(c)
  BY Fields
<1>2. c = "sync"
  BY <1>1 DEF SyncFails
<1>3. server' = [server EXCEPT ![s] = [@ EXCEPT !.pc = "admins", !.failed = TRUE]]
  BY DEF SyncFails
<1>0. PICK b \in BOOLEAN : b = TRUE
  OBVIOUS
<1>4. PICK y : y = [server[s] EXCEPT !.pc = "admins"]
  OBVIOUS
<1>5. y = [pc |-> "admins", defs |-> d, todo |-> t, failed |-> f]
  BY <1>1, <1>4, SMTT(60)
<1>6. [y EXCEPT !.failed = b] = [pc |-> "admins", defs |-> d, todo |-> t, failed |-> b]
  BY <1>5
<1>7. server' = [server EXCEPT ![s] = [y EXCEPT !.failed = b]]
  BY <1>0, <1>1, <1>3, <1>4 DEF ServersInv
<1>8. [pc |-> "admins", defs |-> d, todo |-> t, failed |-> b] \in Process
  <2>1. t \in Todo("admins")
    BY <1>1, <1>2 DEF Todo
  <2> QED BY <1>1, <2>1 DEF Process, PC
<1>9. PICK p \in Process : p = [pc |-> "admins", defs |-> d, todo |-> t, failed |-> b]
  BY <1>8
<1>10. server' = [server EXCEPT ![s] = p]
  BY <1>6, <1>7, <1>9
<1>11. /\ ServersInv'
       /\ server'[s] = p
       /\ \A t_1 \in Servers \ {s} : server'[t_1] = server[t_1]
  BY <1>10, Moved
<1> QED BY <1>0, <1>9, <1>11

\* What SyncRole does to server
LEMMA MovedBySyncRole ==
  ASSUME ServersInv, NEW s \in Servers, SyncRole(s)
  PROVE  /\ ServersInv'
         /\ server'[s].pc = "sync" /\ server'[s].failed = server[s].failed
         /\ server'[s].defs = Tail(server[s].defs)
         /\ \A t \in Servers \ {s} : server'[t] = server[t]
<1>1. PICK c, d, t, f :
        /\ server[s] = [pc |-> c, defs |-> d, todo |-> t, failed |-> f]
        /\ d \in DefsLeft /\ t \in Todo(c) /\ f \in BOOLEAN
  BY Fields
<1>2. c = "sync" /\ d # <<>>
  BY <1>1 DEF SyncRole
<1>3. PICK e : e = Tail(d)
  OBVIOUS
<1>4. e \in DefsLeft
  BY <1>1, <1>2, <1>3, NextDefinition
<1>5. server' = [server EXCEPT ![s].defs = Tail(@)]
  BY DEF SyncRole
<1>6. server' = [server EXCEPT ![s] = [server[s] EXCEPT !.defs = e]]
  BY <1>1, <1>3, <1>5 DEF ServersInv
<1>7. [server[s] EXCEPT !.defs = e] = [pc |-> "sync", defs |-> e, todo |-> t, failed |-> f]
  BY <1>1, <1>2
<1>8. [pc |-> "sync", defs |-> e, todo |-> t, failed |-> f] \in Process
  <2>1. t \in Todo("sync")
    BY <1>1, <1>2
  <2> QED BY <1>1, <1>4, <2>1 DEF Process, PC
<1>12. PICK p \in Process : p = [pc |-> "sync", defs |-> e, todo |-> t, failed |-> f]
  BY <1>8
<1>9. server' = [server EXCEPT ![s] = p]
  BY <1>6, <1>7, <1>12
<1>10. /\ ServersInv'
       /\ server'[s] = p
       /\ \A t_1 \in Servers \ {s} : server'[t_1] = server[t_1]
  BY <1>9, Moved
<1>11. server[s].failed = f /\ server[s].defs = d
  BY <1>1
<1> QED BY <1>3, <1>12, <1>10, <1>11


-----------------------------------------------------------------------------
(* Starts keep what they have synchronised *)

\* The definitions that are in line stay so, and no role comes that is not defined.
LEMMA SyncedKept ==
  ASSUME NEW t \in Servers, Synced(t), server'[t] = server[t],
         \A n \in Defined : Defines(n) => Defines(n)',
         DOMAIN roles' \ Defined \subseteq DOMAIN roles \ Defined
  PROVE  Synced(t)'
<1>1. Defined' = Defined
  BY DEF Defined, RoleDefinitions
<1>2. (\A n \in Defined : Defines(n)) /\ DOMAIN roles = Defined =>
        (\A n \in Defined : Defines(n)') /\ DOMAIN roles' = Defined
  BY DEF Defines
<1> QED BY <1>1, <1>2 DEF Synced

LEMMA SyncedSame ==
  ASSUME NEW t \in Servers, Synced(t), server'[t] = server[t], roles' = roles
  PROVE  Synced(t)'
<1>1. \A n \in Defined : Defines(n) => Defines(n)'
  BY DEF Defines
<1> QED BY <1>1, SyncedKept

LEMMA SyncedDown ==
  ASSUME NEW t \in Servers, server'[t].pc \in {"down", "exit"}
  PROVE  Synced(t)'
BY DEF Synced

LEMMA BootMoves ==
  ASSUME TypeInv, SyncInv, NEW s \in Servers, Boot(s)
  PROVE  /\ ServersInv' /\ Synced(s)'
         /\ \A t \in Servers \ {s} : server'[t] = server[t]
<1>1. [pc |-> "sync", defs |-> DefinedOrder, todo |-> {}, failed |-> FALSE] \in Process
  <2>1. DefinedOrder \in DefsLeft /\ {} \in Todo("sync")
    BY DEF DefinedOrder, DefsLeft, Todo
  <2> QED BY <2>1 DEF Process, PC
<1>2. PICK p \in Process :
        p = [pc |-> "sync", defs |-> DefinedOrder, todo |-> {}, failed |-> FALSE]
  BY <1>1
<1>3. /\ ServersInv' /\ server'[s] = p
      /\ \A t \in Servers \ {s} : server'[t] = server[t]
  BY <1>2, Moved DEF TypeInv, Boot
<1>4. server'[s].pc = "sync" /\ server'[s].defs = DefinedOrder
  BY <1>2, <1>3
<1>5. \A n \in Defined : \E i \in 1..3 : i <= Len(DefinedOrder) /\ DefinedOrder[i] = n
  <2>1. /\ DefinedOrder[1] = "user" /\ DefinedOrder[2] = "role_manager"
        /\ DefinedOrder[3] = "admin" /\ Len(DefinedOrder) = 3
    BY DEF DefinedOrder
  <2> QED BY <2>1, Definitions
<1>6. Defined' = Defined
  BY DEF Defined, RoleDefinitions
<1> QED BY <1>3, <1>4, <1>5, <1>6 DEF Synced

LEMMA SyncRoleMoves ==
  ASSUME TypeInv, SyncInv, NEW s \in Servers, SyncRole(s)
  PROVE  /\ ServersInv' /\ Synced(s)'
         /\ \A t \in Servers \ {s} : server'[t] = server[t]
         /\ \A n \in Defined : Defines(n) => Defines(n)'
         /\ DOMAIN roles' \ Defined \subseteq DOMAIN roles \ Defined
         /\ DOMAIN roles \subseteq DOMAIN roles' /\ DOMAIN roles' \subseteq RoleNames
         /\ \A n \in DOMAIN roles' : roles'[n] \in 0..63
<1>1. /\ ServersInv'
      /\ server'[s].pc = "sync" /\ server'[s].failed = server[s].failed
      /\ server'[s].defs = Tail(server[s].defs)
      /\ \A t \in Servers \ {s} : server'[t] = server[t]
  BY MovedBySyncRole DEF TypeInv
<1>2. PICK defs \in DefsLeft : defs = server[s].defs
  BY Fields DEF TypeInv
<1>3. defs # <<>>
  BY <1>2 DEF SyncRole
<1>4. PICK h : h = Head(defs)
  OBVIOUS
<1>5. h \in Defined
  BY <1>3, <1>4, NextDefinition
<1>6. roles' = Upserted(h)
  BY <1>2, <1>4 DEF SyncRole
<1>7. /\ DOMAIN roles' = {h} \cup DOMAIN roles
      /\ roles'[h] = encode(RoleDefinitions[h])
      /\ \A n \in DOMAIN roles \ {h} : roles'[n] = roles[n]
  BY <1>6 DEF Upserted
<1>8. \A n \in Defined : Defines(n) => Defines(n)'
  BY <1>7 DEF Defines
<1>9. Defines(h)'
  BY <1>7 DEF Defines
<1>10. Synced(s)'
  <2>1. Defined' = Defined
    BY DEF Defined, RoleDefinitions
  <2>2. ASSUME ~server[s].failed, NEW n \in Defined
        PROVE  \/ Defines(n)'
               \/ \E i \in 1..3 : i <= Len(Tail(defs)) /\ Tail(defs)[i] = n
    <3>1. Defines(n) \/ \E i \in 1..3 : i <= Len(defs) /\ defs[i] = n
      BY <1>2, <2>2 DEF SyncInv, Synced, SyncRole
    <3> QED BY <1>3, <1>4, <1>8, <1>9, <3>1, NextDefinition
  <2> QED BY <1>1, <1>2, <2>1, <2>2 DEF Synced
<1>11. DOMAIN roles' \subseteq RoleNames
  BY <1>5, <1>7 DEF TypeInv, TypeOK, RoleNames
<1>12. \A n \in DOMAIN roles' : roles'[n] \in 0..63
  BY <1>5, <1>7, Definitions DEF TypeInv, TypeOK
<1> QED BY <1>1, <1>5, <1>7, <1>8, <1>10, <1>11, <1>12


LEMMA ListRolesMoves ==
  ASSUME TypeInv, SyncInv, NEW s \in Servers, ListRoles(s)
  PROVE  /\ ServersInv' /\ Synced(s)'
         /\ \A t \in Servers \ {s} : server'[t] = server[t]
<1>1. DOMAIN roles \ Defined \in Todo("prune") /\ "prune" \in PC
  BY DEF Todo, PC, TypeInv, TypeOK, RoleNames
<1>2. PICK todo \in Todo("prune") : todo = DOMAIN roles \ Defined
  BY <1>1
<1>3. server' = To(s, "prune", todo)
  BY <1>2 DEF ListRoles
<1>4. /\ ServersInv'
      /\ server'[s] = [pc |-> "prune", defs |-> server[s].defs, todo |-> todo,
                       failed |-> server[s].failed]
      /\ \A t \in Servers \ {s} : server'[t] = server[t]
  BY <1>1, <1>3, MovedTo DEF TypeInv
<1>5. server'[s].pc = "prune" /\ server'[s].todo = todo /\ server'[s].failed = server[s].failed
  BY <1>4
<1>6. Synced(s)'
  <2>1. Defined' = Defined /\ roles' = roles
    BY DEF Defined, RoleDefinitions, ListRoles
  <2>2. ASSUME ~server[s].failed, NEW n \in Defined
        PROVE  Defines(n)'
    <3>1. server[s].pc = "sync" /\ server[s].defs = <<>>
      BY DEF ListRoles
    <3>2. Len(server[s].defs) = 0
      BY <3>1
    <3>3. Synced(s)
      BY DEF SyncInv
    <3>4. Defines(n)
      BY <2>2, <3>1, <3>2, <3>3 DEF Synced
    <3> QED BY <2>1, <3>4 DEF Defines
  <2> QED BY <1>2, <1>5, <2>1, <2>2 DEF Synced
<1> QED BY <1>4, <1>6

LEMMA PruneRoleMoves ==
  ASSUME TypeInv, SyncInv, NEW s \in Servers, PruneRole(s)
  PROVE  /\ ServersInv' /\ Synced(s)'
         /\ \A t \in Servers \ {s} : server'[t] = server[t]
         /\ \A n \in Defined : Defines(n) => Defines(n)'
         /\ DOMAIN roles' \ Defined \subseteq DOMAIN roles \ Defined
         /\ \A n \in DOMAIN roles' : n \in DOMAIN roles /\ roles'[n] \in 0..63
         /\ \E name \in RoleNames \ Defined :
              users' = Pruned(name) /\ DOMAIN roles' = DOMAIN roles \ {name}
<1>1. server[s].pc = "prune" /\ Synced(s)
  BY DEF PruneRole, SyncInv
<1>2. PICK name \in server[s].todo :
        /\ roles' = [n \in DOMAIN roles \ {name} |-> roles[n]]
        /\ users' = Pruned(name)
        /\ server' = To(s, "prune", server[s].todo \ {name})
  BY DEF PruneRole
<1>3. server[s].todo \in SUBSET RoleNames
  BY <1>1, Fields DEF TypeInv, Todo
<1>4. name \in RoleNames \ Defined
  BY <1>1, <1>2, <1>3 DEF Synced
<1>5. PICK todo \in Todo("prune") : todo = server[s].todo \ {name}
  BY <1>3 DEF Todo
<1>6. server' = To(s, "prune", todo) /\ "prune" \in PC
  BY <1>2, <1>5 DEF PC
<1>7. /\ ServersInv'
      /\ server'[s] = [pc |-> "prune", defs |-> server[s].defs, todo |-> todo,
                       failed |-> server[s].failed]
      /\ \A t \in Servers \ {s} : server'[t] = server[t]
  BY <1>6, MovedTo DEF TypeInv
<1>8. server'[s].pc = "prune" /\ server'[s].todo = todo /\ server'[s].failed = server[s].failed
  BY <1>7
<1>9. /\ DOMAIN roles' = DOMAIN roles \ {name}
      /\ \A n \in DOMAIN roles \ {name} : roles'[n] = roles[n]
  BY <1>2
<1>10. \A n \in Defined : Defines(n) => Defines(n)'
  BY <1>4, <1>9 DEF Defines
<1>11. \A n \in DOMAIN roles' : n \in DOMAIN roles /\ roles'[n] \in 0..63
  BY <1>9 DEF TypeInv, TypeOK
<1>12. Synced(s)'
  <2>1. Defined' = Defined
    BY DEF Defined, RoleDefinitions
  <2> QED BY <1>1, <1>5, <1>8, <1>9, <1>10, <2>1 DEF Synced
<1> QED BY <1>2, <1>4, <1>7, <1>9, <1>10, <1>11, <1>12

LEMMA PruneFailsMoves ==
  ASSUME TypeInv, SyncInv, NEW s \in Servers, PruneFails(s)
  PROVE  /\ ServersInv' /\ Synced(s)'
         /\ \A t \in Servers \ {s} : server'[t] = server[t]
<1>1. /\ ServersInv'
      /\ server'[s].pc = "prune" /\ server'[s].failed
      /\ server'[s].todo \subseteq server[s].todo
      /\ \A t \in Servers \ {s} : server'[t] = server[t]
  BY MovedByPruneFails DEF TypeInv
<1>2. Defined' = Defined
  BY DEF Defined, RoleDefinitions
<1>3. server[s].todo \cap Defined = {}
  BY DEF PruneFails, SyncInv, Synced
<1> QED BY <1>1, <1>2, <1>3 DEF Synced

LEMMA SyncFailsMoves ==
  ASSUME TypeInv, SyncInv, NEW s \in Servers, SyncFails(s)
  PROVE  /\ ServersInv' /\ Synced(s)'
         /\ \A t \in Servers \ {s} : server'[t] = server[t]
BY MovedBySyncFails DEF TypeInv, Synced


\* The rest of a start changes no role.
LEMMA GoesOn ==
  ASSUME TypeInv, SyncInv, NEW s \in Servers, roles' = roles,
         NEW pc \in {"admins", "assign", "up", "exit", "down"}, NEW todo \in Todo(pc),
         server' = To(s, pc, todo),
         \/ pc \in {"exit", "down"}
         \/ server[s].pc \in {"admins", "assign"}
         \/ server[s].pc = "prune" /\ server[s].todo = {}
  PROVE  /\ ServersInv' /\ Synced(s)'
         /\ \A t \in Servers \ {s} : server'[t] = server[t]
<1>1. pc \in PC
  BY DEF PC
<1>2. /\ ServersInv'
      /\ server'[s] = [pc |-> pc, defs |-> server[s].defs, todo |-> todo,
                       failed |-> server[s].failed]
      /\ \A t \in Servers \ {s} : server'[t] = server[t]
  BY <1>1, MovedTo DEF TypeInv
<1>3. server'[s].pc = pc /\ server'[s].failed = server[s].failed
  BY <1>2
<1>4. CASE pc \in {"exit", "down"}
  BY <1>2, <1>3, <1>4, SyncedDown
<1>5. CASE pc \notin {"exit", "down"}
  <2>1. ASSUME ~server[s].failed
        PROVE  (\A n \in Defined : Defines(n)) /\ DOMAIN roles = Defined
    <3>1. Synced(s)
      BY DEF SyncInv
    <3>2. CASE server[s].pc \in {"admins", "assign"}
      BY <2>1, <3>1, <3>2 DEF Synced
    <3>3. CASE server[s].pc = "prune" /\ server[s].todo = {}
      <4>1. \A n \in Defined : Defines(n)
        BY <2>1, <3>1, <3>3 DEF Synced
      <4>2. DOMAIN roles \ Defined \subseteq {}
        BY <2>1, <3>1, <3>3 DEF Synced
      <4>3. Defined \subseteq DOMAIN roles
        BY <4>1 DEF Defines
      <4> QED BY <4>1, <4>2, <4>3
    <3> QED BY <1>5, <3>2, <3>3
  <2>2. Defined' = Defined
    BY DEF Defined, RoleDefinitions
  <2>3. ~server[s].failed => (\A n \in Defined : Defines(n)') /\ DOMAIN roles' = Defined
    BY <2>1 DEF Defines
  <2> QED BY <1>2, <1>3, <1>5, <2>2, <2>3 DEF Synced
<1> QED BY <1>4, <1>5

LEMMA PruneDoneMoves ==
  ASSUME TypeInv, SyncInv, NEW s \in Servers, PruneDone(s)
  PROVE  /\ ServersInv' /\ Synced(s)'
         /\ \A t \in Servers \ {s} : server'[t] = server[t]
<1>1. {} \in Todo("admins")
  BY DEF Todo
<1> QED BY <1>1, GoesOn DEF PruneDone

LEMMA FindAdminsMoves ==
  ASSUME TypeInv, SyncInv, NEW s \in Servers, FindAdmins(s)
  PROVE  /\ ServersInv' /\ Synced(s)'
         /\ \A t \in Servers \ {s} : server'[t] = server[t]
<1> DEFINE ids == {u.id : u \in {v \in users : v.email \in AdminEmails \cup AlikeEmails}}
<1>1. ids \in Todo("assign") /\ {} \in Todo("exit")
  BY DEF Todo, TypeInv, TypeOK
<1>2. server' = To(s, "assign", ids) \/ server' = To(s, "exit", {})
  BY DEF FindAdmins
<1> HIDE DEF ids
<1>3. server[s].pc = "admins" /\ roles' = roles
  BY DEF FindAdmins
<1>4. CASE server' = To(s, "assign", ids)
  BY <1>1, <1>3, <1>4, GoesOn
<1>5. CASE server' = To(s, "exit", {})
  BY <1>1, <1>3, <1>5, GoesOn
<1> QED BY <1>2, <1>4, <1>5

LEMMA AssignAdminMoves ==
  ASSUME TypeInv, SyncInv, NEW s \in Servers, AssignAdmin(s)
  PROVE  /\ ServersInv' /\ Synced(s)'
         /\ \A t \in Servers \ {s} : server'[t] = server[t]
<1>1. server[s].pc = "assign" /\ roles' = roles
  BY DEF AssignAdmin
<1>2. PICK id \in server[s].todo :
        \/ server' = To(s, "assign", server[s].todo \ {id})
        \/ server' = To(s, "exit", {})
  BY DEF AssignAdmin
<1>3. PICK todo : todo = server[s].todo \ {id}
  OBVIOUS
<1>4. todo \in Todo("assign") /\ {} \in Todo("exit")
  <2>1. server[s].todo \in SUBSET (1..MaxId)
    BY <1>1, Fields DEF TypeInv, Todo
  <2> QED BY <1>3, <2>1 DEF Todo
<1>5. CASE server' = To(s, "assign", todo)
  BY <1>1, <1>4, <1>5, GoesOn
<1>6. CASE server' = To(s, "exit", {})
  BY <1>1, <1>4, <1>6, GoesOn
<1> QED BY <1>2, <1>3, <1>5, <1>6

LEMMA StopsMove ==
  ASSUME TypeInv, SyncInv, NEW s \in Servers, StartFails(s) \/ Up(s) \/ Exit(s) \/ Crash(s)
  PROVE  /\ ServersInv' /\ Synced(s)'
         /\ \A t \in Servers \ {s} : server'[t] = server[t]
<1>1. {} \in Todo("exit") /\ {} \in Todo("down") /\ {} \in Todo("up")
  BY DEF Todo
<1>2. CASE StartFails(s)
  BY <1>1, <1>2, GoesOn DEF StartFails
<1>3. CASE Up(s)
  BY <1>1, <1>3, GoesOn DEF Up
<1>4. CASE Exit(s)
  BY <1>1, <1>4, GoesOn DEF Exit
<1>5. CASE Crash(s)
  BY <1>1, <1>5, GoesOn DEF Crash
<1> QED BY <1>2, <1>3, <1>4, <1>5


-----------------------------------------------------------------------------
(* The rows of users *)

Row(names) ==
  [id : 1..MaxId, name : Logins, email : Emails, pass : Passwords \cup {NoPass},
   roles : SUBSET names]

LEMMA TypeOfParts ==
  ASSUME ServersInv', \A u \in users' : u \in Row(DOMAIN roles'),
         DOMAIN roles' \subseteq RoleNames, \A n \in DOMAIN roles' : roles'[n] \in 0..63,
         nextId' \in 1..MaxId + 1, faults' \in 0..MaxFaults
  PROVE  TypeOK'
<1>1. ASSUME NEW s \in Servers
      PROVE  server'[s].pc \in
               {"down", "sync", "prune", "admins", "assign", "exit", "up"}
  <2>1. PICK pc \in PC : \E ds, ts : server'[s] \in
          [pc : {pc}, defs : ds, todo : ts, failed : BOOLEAN]
    BY DEF ServersInv, Process
  <2>2. server'[s].pc = pc
    BY <2>1
  <2> QED BY <2>2 DEF PC
<1>2. /\ Logins' = Logins /\ Emails' = Emails /\ Passwords' = Passwords
      /\ Defined' = Defined
  BY DEF Logins, Emails, Passwords, Defined, RoleDefinitions
<1> QED BY <1>1, <1>2 DEF TypeOK, Row, RoleNames

LEMMA PartsOfType ==
  ASSUME TypeOK
  PROVE  /\ \A u \in users : u \in Row(DOMAIN roles)
         /\ DOMAIN roles \subseteq RoleNames /\ \A n \in DOMAIN roles : roles[n] \in 0..63
         /\ nextId \in 1..MaxId + 1 /\ faults \in 0..MaxFaults
BY DEF TypeOK, Row, RoleNames

\* Rows that are rewritten keep their ids.
LEMMA Rewritten ==
  ASSUME TypeInv, nextId' = nextId, NEW F, users' = {F[u] : u \in users},
         \A u \in users : F[u].id = u.id /\ F[u] \in Row(DOMAIN roles')
  PROVE  /\ IdsInv' /\ \A v \in users' : v \in Row(DOMAIN roles')
         /\ \A u \in users, v \in users' : u.id = v.id => v = F[u]
<1>1. \A u, v \in users : u.id = v.id => u = v
  BY DEF TypeInv, IdsInv
<1>2. \A u \in users, v \in users' : u.id = v.id => v = F[u]
  BY <1>1
<1>3. \A v \in users' : v \in Row(DOMAIN roles')
  OBVIOUS
<1>4. \A v \in users' : v.id < nextId'
  BY DEF TypeInv, IdsInv
<1>5. \A v, w \in users' : v.id = w.id => v = w
  BY <1>1
<1> QED BY <1>2, <1>3, <1>4, <1>5 DEF IdsInv

LEMMA Fewer ==
  ASSUME TypeInv, nextId' = nextId, users' \subseteq users, roles' = roles
  PROVE  IdsInv' /\ \A v \in users' : v \in Row(DOMAIN roles')
<1>1. \A v \in users' : v \in Row(DOMAIN roles')
  BY PartsOfType DEF TypeInv
<1> QED BY <1>1 DEF TypeInv, IdsInv

\* The look-up for the role of administrators finds none: its key is no name of a
\* role, neither of this version nor of one before.
LEMMA NoneNamedSo ==
  ASSUME TypeOK
  PROVE  RolesNamed({RoleKey}) = {}
BY Definitions, PartsOfType DEF RolesNamed, RoleKey, RoleNames

LEMMA RoleGiven ==
  ASSUME TypeInv, NEW id, users' = GiveRole(id), UNCHANGED <<roles, nextId>>
  PROVE  /\ IdsInv' /\ \A v \in users' : v \in Row(DOMAIN roles')
         /\ \A u \in users, v \in users' :
              u.id = v.id => IF u.id = id THEN v.roles = {} ELSE v = u
<1> DEFINE F == [u \in users |-> IF u.id = id THEN [u EXCEPT !.roles = {}] ELSE u]
<1>1. users' = {F[u] : u \in users}
  BY NoneNamedSo DEF GiveRole, Replace, TypeInv
<1>2. ASSUME NEW u \in users
      PROVE  /\ F[u].id = u.id /\ F[u] \in Row(DOMAIN roles')
             /\ IF u.id = id THEN F[u].roles = {} ELSE F[u] = u
  <2>1. u \in Row(DOMAIN roles')
    BY PartsOfType DEF TypeInv
  <2>2. /\ [u EXCEPT !.roles = {}] \in Row(DOMAIN roles')
        /\ [u EXCEPT !.roles = {}].id = u.id /\ [u EXCEPT !.roles = {}].roles = {}
    BY <2>1 DEF Row
  <2> QED BY <2>1, <2>2
<1> HIDE DEF F
<1>3. /\ IdsInv' /\ \A v \in users' : v \in Row(DOMAIN roles')
      /\ \A u \in users, v \in users' : u.id = v.id => v = F[u]
  BY <1>1, <1>2, Rewritten
<1> QED BY <1>2, <1>3

LEMMA RolePruned ==
  ASSUME TypeInv, NEW name, users' = Pruned(name), DOMAIN roles' = DOMAIN roles \ {name},
         nextId' = nextId
  PROVE  /\ IdsInv' /\ \A v \in users' : v \in Row(DOMAIN roles')
         /\ \A u \in users, v \in users' : u.id = v.id => v.roles = u.roles \ {name}
<1> DEFINE F == [u \in users |-> [u EXCEPT !.roles = u.roles \ {name}]]
<1>1. users' = {F[u] : u \in users}
  BY DEF Pruned
<1>2. ASSUME NEW u \in users
      PROVE  F[u].id = u.id /\ F[u] \in Row(DOMAIN roles') /\ F[u].roles = u.roles \ {name}
  <2>1. u \in Row(DOMAIN roles)
    BY PartsOfType DEF TypeInv
  <2>2. PICK rs : rs = u.roles \ {name}
    OBVIOUS
  <2>3. rs \in SUBSET DOMAIN roles'
    BY <2>1, <2>2 DEF Row
  <2>4. /\ [u EXCEPT !.roles = rs] \in Row(DOMAIN roles')
        /\ [u EXCEPT !.roles = rs].id = u.id /\ [u EXCEPT !.roles = rs].roles = rs
    BY <2>1, <2>3 DEF Row
  <2> QED BY <2>2, <2>4
<1> HIDE DEF F
<1>3. /\ IdsInv' /\ \A v \in users' : v \in Row(DOMAIN roles')
      /\ \A u \in users, v \in users' : u.id = v.id => v = F[u]
  BY <1>1, <1>2, Rewritten
<1> QED BY <1>2, <1>3

LEMMA NameChanged ==
  ASSUME TypeInv, NEW id, NEW name \in Logins,
         users' = Replace(id, LAMBDA u : [u EXCEPT !.name = name]),
         UNCHANGED <<roles, nextId>>
  PROVE  /\ IdsInv' /\ \A v \in users' : v \in Row(DOMAIN roles')
         /\ \A u \in users, v \in users' : u.id = v.id => v.roles = u.roles
<1> DEFINE F == [u \in users |-> IF u.id = id THEN [u EXCEPT !.name = name] ELSE u]
<1>1. users' = {F[u] : u \in users}
  BY DEF Replace
<1>2. ASSUME NEW u \in users
      PROVE  F[u].id = u.id /\ F[u] \in Row(DOMAIN roles') /\ F[u].roles = u.roles
  <2>1. u \in Row(DOMAIN roles')
    BY PartsOfType DEF TypeInv
  <2>2. /\ [u EXCEPT !.name = name] \in Row(DOMAIN roles')
        /\ [u EXCEPT !.name = name].id = u.id /\ [u EXCEPT !.name = name].roles = u.roles
    BY <2>1 DEF Row
  <2> QED BY <2>1, <2>2
<1> HIDE DEF F
<1>3. /\ IdsInv' /\ \A v \in users' : v \in Row(DOMAIN roles')
      /\ \A u \in users, v \in users' : u.id = v.id => v = F[u]
  BY <1>1, <1>2, Rewritten
<1> QED BY <1>2, <1>3

LEMMA EmailChanged ==
  ASSUME TypeInv, NEW id, NEW email \in Emails,
         users' = Replace(id, LAMBDA u : [u EXCEPT !.email = email]),
         UNCHANGED <<roles, nextId>>
  PROVE  /\ IdsInv' /\ \A v \in users' : v \in Row(DOMAIN roles')
         /\ \A u \in users, v \in users' : u.id = v.id => v.roles = u.roles
<1> DEFINE F == [u \in users |-> IF u.id = id THEN [u EXCEPT !.email = email] ELSE u]
<1>1. users' = {F[u] : u \in users}
  BY DEF Replace
<1>2. ASSUME NEW u \in users
      PROVE  F[u].id = u.id /\ F[u] \in Row(DOMAIN roles') /\ F[u].roles = u.roles
  <2>1. u \in Row(DOMAIN roles')
    BY PartsOfType DEF TypeInv
  <2>2. /\ [u EXCEPT !.email = email] \in Row(DOMAIN roles')
        /\ [u EXCEPT !.email = email].id = u.id /\ [u EXCEPT !.email = email].roles = u.roles
    BY <2>1 DEF Row
  <2> QED BY <2>1, <2>2
<1> HIDE DEF F
<1>3. /\ IdsInv' /\ \A v \in users' : v \in Row(DOMAIN roles')
      /\ \A u \in users, v \in users' : u.id = v.id => v = F[u]
  BY <1>1, <1>2, Rewritten
<1> QED BY <1>2, <1>3


-----------------------------------------------------------------------------
(* Requests *)

LEMMA Request ==
  ASSUME RequestsInv, NEW r \in Requests, NEW x, Holds(x), req' = With(r, x)
  PROVE  /\ RequestsInv' /\ req'[r] = x
         /\ \A q \in Requests \ {r} : req'[q] = req[q]
<1>1. \A q \in Requests : req'[q] = IF q = r THEN x ELSE req[q]
  BY DEF With, RequestsInv
<1>2. DOMAIN req' = Requests
  BY DEF With, RequestsInv
<1>3. \A q \in Requests : Holds(req'[q])
  BY <1>1 DEF RequestsInv
<1>4. Logins' = Logins /\ Emails' = Emails /\ Passwords' = Passwords
  BY DEF Logins, Emails, Passwords
<1> QED BY <1>1, <1>2, <1>3, <1>4 DEF RequestsInv, Holds

\* A request that is read or answered writes no row.
Reads(r) ==
  \/ \E n \in Logins, e \in Emails, p \in Passwords : RegisterCheck(r, n, e, p)
  \/ \E n \in generateUniqueUsername, e \in Emails : SnsCheck(r, n, e)
  \/ \E l \in Logins, p \in Passwords : Login(r, l, p)
  \/ \E u \in users, n \in Logins : RenameCheck(r, u.id, n)
  \/ \E u \in users : List(r, u) \/ Scopes(r, u) \/ RoleRead(r, u)
  \/ Answered(r) \/ ListAnswered(r) \/ ScopesAnswered(r)

LEMMA ReadsKeep ==
  ASSUME RequestsInv, NEW r \in Requests, Reads(r)
  PROVE  /\ RequestsInv' /\ UNCHANGED <<users, roles, server, nextId, faults>>
         /\ \A q \in Requests \ {r} : req'[q] = req[q]
<1>1. \E x : Holds(x) /\ req' = With(r, x)
  <2>1. ASSUME NEW n \in Logins, NEW e \in Emails, NEW p \in Passwords, RegisterCheck(r, n, e, p)
        PROVE  \E x : Holds(x) /\ req' = With(r, x)
    <3>1. Holds([pc |-> "register", name |-> n, email |-> e, pass |-> p])
      BY DEF Holds
    <3> QED BY <2>1, <3>1 DEF RegisterCheck
  <2>2. ASSUME NEW n \in generateUniqueUsername, NEW e \in Emails, SnsCheck(r, n, e)
        PROVE  \E x : Holds(x) /\ req' = With(r, x)
    <3>1. Holds([pc |-> "register", name |-> n, email |-> e, pass |-> NoPass])
      BY DEF Holds, generateUniqueUsername, Logins
    <3> QED BY <2>2, <3>1 DEF SnsCheck
  <2>3. ASSUME NEW l \in Logins, NEW p \in Passwords, Login(r, l, p)
        PROVE  \E x : Holds(x) /\ req' = With(r, x)
    <3>1. PICK z : req' = With(r, [pc |-> "answer", login |-> l, pass |-> p, user |-> z])
      BY <2>3 DEF Login
    <3>2. Holds([pc |-> "answer", login |-> l, pass |-> p, user |-> z])
      BY DEF Holds
    <3> QED BY <3>1, <3>2
  <2>4. ASSUME NEW u \in users, NEW n \in Logins, RenameCheck(r, u.id, n)
        PROVE  \E x : Holds(x) /\ req' = With(r, x)
    <3>1. Holds([pc |-> "rename", id |-> u.id, name |-> n])
      BY DEF Holds
    <3> QED BY <2>4, <3>1 DEF RenameCheck
  <2>5. ASSUME NEW u \in users, List(r, u)
        PROVE  \E x : Holds(x) /\ req' = With(r, x)
    <3>1. PICK g : req' = With(r, [pc |-> "list", roles |-> u.roles, granted |-> g])
      BY <2>5 DEF List
    <3>2. Holds([pc |-> "list", roles |-> u.roles, granted |-> g])
      BY DEF Holds
    <3> QED BY <3>1, <3>2
  <2>6. ASSUME NEW u \in users, Scopes(r, u)
        PROVE  \E x : Holds(x) /\ req' = With(r, x)
    <3>1. PICK g : req' = With(r, [pc |-> "scopes", ok |-> g])
      BY <2>6 DEF Scopes
    <3>2. Holds([pc |-> "scopes", ok |-> g])
      BY DEF Holds
    <3> QED BY <3>1, <3>2
  <2>7. ASSUME NEW u \in users, RoleRead(r, u)
        PROVE  \E x : Holds(x) /\ req' = With(r, x)
    <3>1. Holds([pc |-> "role", id |-> u.id, email |-> u.email])
      BY DEF Holds
    <3> QED BY <2>7, <3>1 DEF RoleRead
  <2>8. ASSUME Answered(r) \/ ListAnswered(r) \/ ScopesAnswered(r)
        PROVE  \E x : Holds(x) /\ req' = With(r, x)
    <3>1. Holds(Idle)
      BY DEF Holds, Idle
    <3> QED BY <2>8, <3>1 DEF Answered, ListAnswered, ScopesAnswered
  <2> QED BY <2>1, <2>2, <2>3, <2>4, <2>5, <2>6, <2>7, <2>8 DEF Reads
<1>2. UNCHANGED <<users, roles, server, nextId, faults>>
  BY DEF Reads, RegisterCheck, SnsCheck, Login, RenameCheck, List, Scopes, RoleRead,
    Answered, ListAnswered, ScopesAnswered
<1> QED BY <1>1, <1>2, Request

\* The row that is made has an id of its own.
LEMMA Created ==
  ASSUME TypeInv, NEW r \in Requests, RegisterCreate(r)
  PROVE  /\ RequestsInv' /\ IdsInv' /\ \A v \in users' : v \in Row(DOMAIN roles')
         /\ nextId' \in 1..MaxId + 1
         /\ \A u \in users, v \in users' : u.id = v.id => v = u
<1>1. Holds(Idle)
  BY DEF Holds, Idle
<1>2. RequestsInv'
  BY <1>1, Request DEF TypeInv, RegisterCreate
<1>3. req[r].name \in Logins /\ req[r].email \in Emails /\ req[r].pass \in Passwords \cup {NoPass}
  BY DEF TypeInv, RequestsInv, Holds, RegisterCreate
<1>4. nextId \in 1..MaxId /\ roles' = roles
  BY DEF TypeInv, TypeOK, RegisterCreate
<1>5. \A u \in users : u \in Row(DOMAIN roles) /\ u.id < nextId
  BY PartsOfType DEF TypeInv, IdsInv
<1>6. CASE ~Free(req[r])
  <2>1. users' = users /\ nextId' = nextId
    BY <1>6 DEF RegisterCreate
  <2> QED BY <1>2, <1>4, <1>5, <2>1 DEF TypeInv, IdsInv
<1>7. CASE Free(req[r])
  <2>1. PICK new : new = [id |-> nextId, name |-> req[r].name, email |-> req[r].email,
                          pass |-> req[r].pass, roles |-> {}]
    OBVIOUS
  <2>2. users' = users \cup {new} /\ nextId' = nextId + 1
    BY <1>7, <2>1 DEF RegisterCreate
  <2>3. new \in Row(DOMAIN roles) /\ new.id = nextId
    BY <1>3, <1>4, <2>1 DEF Row
  <2>4. \A v \in users' : v \in Row(DOMAIN roles')
    BY <1>4, <1>5, <2>2, <2>3
  <2>5. \A u \in users : u.id # new.id /\ u.id \in Nat
    BY <1>5, <2>3, <1>4 DEF Row
  <2>6. IdsInv'
    <3>1. \A v \in users' : v.id < nextId'
      BY <1>4, <1>5, <2>2, <2>3, <2>5
    <3>2. \A v, w \in users' : v.id = w.id => v = w
      BY <2>2, <2>5 DEF TypeInv, IdsInv
    <3> QED BY <3>1, <3>2 DEF IdsInv
  <2>7. \A u \in users, v \in users' : u.id = v.id => v = u
    BY <2>2, <2>5 DEF TypeInv, IdsInv
  <2> QED BY <1>2, <1>4, <2>2, <2>4, <2>6, <2>7
<1> QED BY <1>6, <1>7


-----------------------------------------------------------------------------
(* The invariant is kept *)

\* One step of a server
ServerStep(s) == Start(s) \/ PruneFails(s) \/ SyncFails(s) \/ StartFails(s) \/ Crash(s)

LEMMA ServerSync ==
  ASSUME TypeInv, SyncInv, NEW s \in Servers, ServerStep(s)
  PROVE  ServersInv' /\ SyncInv'
<1>1. SUFFICES /\ ServersInv' /\ Synced(s)'
               /\ \A t \in Servers \ {s} : server'[t] = server[t]
               /\ \A n \in Defined : Defines(n) => Defines(n)'
               /\ DOMAIN roles' \ Defined \subseteq DOMAIN roles \ Defined
  BY SyncedKept DEF SyncInv
<1>2. CASE SyncRole(s)
  BY <1>2, SyncRoleMoves
<1>3. CASE PruneRole(s)
  BY <1>3, PruneRoleMoves
<1>4. CASE ~SyncRole(s) /\ ~PruneRole(s)
  <2>1. roles' = roles
    BY <1>4 DEF ServerStep, Start, Boot, ListRoles, PruneDone, FindAdmins, AssignAdmin, Up,
      Exit, PruneFails, SyncFails, StartFails, Crash
  <2>2. /\ ServersInv' /\ Synced(s)'
        /\ \A t \in Servers \ {s} : server'[t] = server[t]
    BY <1>4, BootMoves, ListRolesMoves, PruneFailsMoves, SyncFailsMoves, PruneDoneMoves,
      FindAdminsMoves, AssignAdminMoves, StopsMove DEF ServerStep, Start
  <2> QED BY <2>1, <2>2 DEF Defines
<1> QED BY <1>2, <1>3, <1>4

LEMMA ServerTypes ==
  ASSUME TypeInv, SyncInv, NEW s \in Servers, ServerStep(s)
  PROVE  TypeInv'
<1>1. ServersInv'
  BY ServerSync
<1>2. req' = req /\ nextId' = nextId
  BY DEF ServerStep, Start, Boot, SyncRole, ListRoles, PruneRole, PruneDone, FindAdmins,
    AssignAdmin, Up, Exit, PruneFails, SyncFails, StartFails, Crash
<1>3. RequestsInv'
  BY <1>2 DEF TypeInv, RequestsInv, Holds, Logins, Emails, Passwords
<1>4. nextId' \in 1..MaxId + 1
  BY <1>2, PartsOfType DEF TypeInv
<1>5. faults' \in 0..MaxFaults
  <2>1. faults' = faults \/ (faults < MaxFaults /\ faults' = faults + 1)
    BY DEF ServerStep, Start, Boot, SyncRole, ListRoles, PruneRole, PruneDone, FindAdmins,
      AssignAdmin, Up, Exit, PruneFails, SyncFails, StartFails, Crash
  <2> QED BY <2>1, PartsOfType DEF TypeInv
<1>6. /\ IdsInv' /\ \A v \in users' : v \in Row(DOMAIN roles')
      /\ DOMAIN roles' \subseteq RoleNames /\ \A n \in DOMAIN roles' : roles'[n] \in 0..63
  <2>1. CASE SyncRole(s)
    <3>1. users' = users
      BY <2>1 DEF SyncRole
    <3>2. /\ DOMAIN roles \subseteq DOMAIN roles' /\ DOMAIN roles' \subseteq RoleNames
          /\ \A n \in DOMAIN roles' : roles'[n] \in 0..63
      BY <2>1, SyncRoleMoves
    <3>3. \A v \in users' : v \in Row(DOMAIN roles')
      BY <3>1, <3>2, PartsOfType DEF TypeInv, Row
    <3> QED BY <1>2, <3>1, <3>2, <3>3 DEF TypeInv, IdsInv
  <2>2. CASE PruneRole(s)
    <3>1. /\ \A n \in DOMAIN roles' : n \in DOMAIN roles /\ roles'[n] \in 0..63
          /\ \E name \in RoleNames \ Defined :
               users' = Pruned(name) /\ DOMAIN roles' = DOMAIN roles \ {name}
      BY <2>2, PruneRoleMoves
    <3>2. IdsInv' /\ \A v \in users' : v \in Row(DOMAIN roles')
      BY <1>2, <3>1, RolePruned
    <3>3. DOMAIN roles' \subseteq RoleNames
      BY <3>1, PartsOfType DEF TypeInv
    <3> QED BY <3>1, <3>2, <3>3
  <2>3. CASE ~SyncRole(s) /\ ~PruneRole(s)
    <3>1. roles' = roles
      BY <2>3 DEF ServerStep, Start, Boot, ListRoles, PruneDone, FindAdmins, AssignAdmin, Up,
        Exit, PruneFails, SyncFails, StartFails, Crash
    <3>2. users' = users \/ \E id : users' = GiveRole(id)
      BY <2>3 DEF ServerStep, Start, Boot, ListRoles, PruneDone, FindAdmins, AssignAdmin, Up,
        Exit, PruneFails, SyncFails, StartFails, Crash
    <3>3. IdsInv' /\ \A v \in users' : v \in Row(DOMAIN roles')
      BY <1>2, <3>1, <3>2, RoleGiven, Fewer
    <3> QED BY <3>1, <3>3, PartsOfType DEF TypeInv
  <2> QED BY <2>1, <2>2, <2>3
<1>7. TypeOK'
  BY <1>1, <1>4, <1>5, <1>6, TypeOfParts
<1>8. TableInv'
  <2>1. roles' = roles \/ \E d, e : roles' = [n \in d |-> e[n]]
    <3>1. CASE SyncRole(s)
      <4>1. PICK h : roles' = Upserted(h)
        BY <3>1 DEF SyncRole
      <4>2. PICK m : m = [n \in DOMAIN roles \cup {h} |->
                           IF n = h THEN encode(RoleDefinitions[h]) ELSE roles[n]]
        OBVIOUS
      <4>3. roles' = [n \in DOMAIN m |-> m[n]]
        BY <4>1, <4>2 DEF Upserted
      <4> QED BY <4>3
    <3>2. CASE PruneRole(s)
      BY <3>2 DEF PruneRole
    <3>3. CASE ~SyncRole(s) /\ ~PruneRole(s)
      BY <3>3 DEF ServerStep, Start, Boot, ListRoles, PruneDone, FindAdmins, AssignAdmin, Up,
        Exit, PruneFails, SyncFails, StartFails, Crash
    <3> QED BY <3>1, <3>2, <3>3
  <2> QED BY <1>6, <2>1 DEF TypeInv, TableInv
<1> QED BY <1>1, <1>3, <1>6, <1>7, <1>8 DEF TypeInv

\* One step of a request
RequestStep(r) == Reads(r) \/ RegisterCreate(r) \/ RenameWrite(r) \/ RoleUpdate(r)

LEMMA RequestTypes ==
  ASSUME TypeInv, NEW r \in Requests, RequestStep(r)
  PROVE  TypeInv' /\ UNCHANGED <<roles, server, faults>>
<1>1. UNCHANGED <<roles, server, faults>>
  <2>1. CASE Reads(r)
    BY <2>1, ReadsKeep DEF TypeInv
  <2>2. CASE RegisterCreate(r) \/ RenameWrite(r) \/ RoleUpdate(r)
    BY <2>2 DEF RegisterCreate, RenameWrite, RoleUpdate
  <2> QED BY <2>1, <2>2 DEF RequestStep
<1>2. Holds(Idle)
  BY DEF Holds, Idle
<1>3. /\ RequestsInv' /\ IdsInv' /\ \A v \in users' : v \in Row(DOMAIN roles')
      /\ nextId' \in 1..MaxId + 1
  <2>1. CASE Reads(r)
    <3>1. RequestsInv' /\ users' = users /\ nextId' = nextId
      BY <2>1, ReadsKeep DEF TypeInv
    <3> QED BY <1>1, <3>1, Fewer, PartsOfType DEF TypeInv
  <2>2. CASE RegisterCreate(r)
    BY <2>2, Created
  <2>3. CASE RenameWrite(r)
    <3>1. RequestsInv' /\ nextId' = nextId
      BY <1>2, <2>3, Request DEF TypeInv, RenameWrite
    <3>2. req[r].name \in Logins
      BY <2>3 DEF TypeInv, RequestsInv, Holds, RenameWrite
    <3>3. PICK name, id : name \in Logins /\ name = req[r].name /\ id = req[r].id
      BY <3>2
    <3>4. users' = users \/ users' = Replace(id, LAMBDA u : [u EXCEPT !.name = name])
      BY <2>3, <3>3 DEF RenameWrite, Replace
    <3>5. IdsInv' /\ \A v \in users' : v \in Row(DOMAIN roles')
      <4>1. CASE users' = users
        BY <1>1, <3>1, <4>1, Fewer
      <4>2. CASE users' = Replace(id, LAMBDA u : [u EXCEPT !.name = name])
        BY <1>1, <3>1, <3>3, <4>2, NameChanged
      <4> QED BY <3>4, <4>1, <4>2
    <3> QED BY <3>1, <3>5, PartsOfType DEF TypeInv
  <2>4. CASE RoleUpdate(r)
    <3>1. RequestsInv' /\ nextId' = nextId
      BY <1>2, <2>4, Request DEF TypeInv, RoleUpdate
    <3>2. users' = users \/ \E id : users' = GiveRole(id)
      BY <2>4 DEF RoleUpdate
    <3>3. IdsInv' /\ \A v \in users' : v \in Row(DOMAIN roles')
      BY <1>1, <3>1, <3>2, Fewer, RoleGiven
    <3> QED BY <3>1, <3>3, PartsOfType DEF TypeInv
  <2> QED BY <2>1, <2>2, <2>3, <2>4 DEF RequestStep
<1>4. ServersInv'
  BY <1>1 DEF TypeInv, ServersInv, Process, Todo, PC, DefsLeft, RoleNames, Defined,
    RoleDefinitions
<1>5. TypeOK'
  BY <1>1, <1>3, <1>4, PartsOfType, TypeOfParts DEF TypeInv
<1> QED BY <1>1, <1>3, <1>4, <1>5 DEF TypeInv, TableInv

\* A change of an email, or the deletion of a user
OtherStep == \E u \in users : DeleteUser(u.id) \/ \E e \in Emails : ChangeEmail(u.id, e)

LEMMA OtherTypes ==
  ASSUME TypeInv, OtherStep
  PROVE  TypeInv' /\ UNCHANGED <<roles, server, req, faults>>
<1>1. UNCHANGED <<roles, server, req, nextId, faults>>
  BY DEF OtherStep, DeleteUser, ChangeEmail
<1>2. \/ users' \subseteq users
      \/ \E id : \E e \in Emails : users' = Replace(id, LAMBDA u : [u EXCEPT !.email = e])
  BY DEF OtherStep, DeleteUser, ChangeEmail
<1>3. IdsInv' /\ \A v \in users' : v \in Row(DOMAIN roles')
  <2>1. CASE users' \subseteq users
    BY <1>1, <2>1, Fewer
  <2>2. CASE \E id : \E e \in Emails : users' = Replace(id, LAMBDA u : [u EXCEPT !.email = e])
    <3>1. PICK id : \E e \in Emails : users' = Replace(id, LAMBDA u : [u EXCEPT !.email = e])
      BY <2>2
    <3>2. PICK e \in Emails : users' = Replace(id, LAMBDA u : [u EXCEPT !.email = e])
      BY <3>1
    <3> QED BY <1>1, <3>2, EmailChanged
  <2> QED BY <1>2, <2>1, <2>2
<1>4. ServersInv' /\ RequestsInv'
  BY <1>1 DEF TypeInv, ServersInv, Process, Todo, PC, DefsLeft, RoleNames, Defined,
    RoleDefinitions, RequestsInv, Holds, Logins, Emails, Passwords
<1>5. TypeOK'
  BY <1>1, <1>3, <1>4, PartsOfType, TypeOfParts DEF TypeInv
<1> QED BY <1>1, <1>3, <1>4, <1>5 DEF TypeInv, TableInv

\* A step is one of these three.
LEMMA Steps ==
  ASSUME Next
  PROVE  \/ \E s \in Servers : ServerStep(s)
         \/ \E r \in Requests : RequestStep(r)
         \/ OtherStep
BY DEF Next, ServerStep, RequestStep, Reads, OtherStep


\* The tables an earlier version has left have the types.
LEMMA Start0 == Init => IInv
<1> SUFFICES ASSUME Init PROVE IInv
  OBVIOUS
<1>1. /\ DOMAIN roles \subseteq RoleNames /\ \A n \in DOMAIN roles : roles[n] \in 0..63
      /\ TableInv
  <2>1. CASE roles = <<>>
    BY <2>1 DEF TableInv
  <2>2. CASE roles = [name \in Defined |-> encode(RoleDefinitions[name])]
    BY <2>2, Definitions DEF RoleNames, TableInv
  <2>3. CASE roles = [name \in {"user", "moderator"} |-> IF name = "user" THEN 1 + 4 ELSE 32]
    BY <2>3, Definitions DEF RoleNames, TableInv
  <2>4. roles \in Tables
    BY DEF Init
  <2> QED BY <2>1, <2>2, <2>3, <2>4 DEF Tables
<1>2. ServersInv /\ \A s \in Servers : server[s].pc = "down"
  <2>1. [pc |-> "down", defs |-> <<>>, todo |-> {}, failed |-> FALSE] \in Process
    <3>1. <<>> \in DefsLeft /\ {} \in Todo("down")
      BY DEF DefsLeft, Todo
    <3> QED BY <3>1 DEF Process, PC
  <2> QED BY <2>1 DEF Init, ServersInv
<1>3. RequestsInv
  BY DEF Init, RequestsInv, Holds, Idle
<1>4. /\ \A u \in users : u \in Row(DOMAIN roles) /\ u.id = 1
      /\ users = {} \/ \E u : users = {u}
  <2>1. CASE users = {}
    BY <2>1
  <2>2. CASE \E n \in Names, e \in Emails, p \in Passwords, rs \in SUBSET DOMAIN roles :
               users = {[id |-> 1, name |-> n, email |-> e, pass |-> p, roles |-> rs]}
    <3>1. PICK n \in Names, e \in Emails, p \in Passwords, rs \in SUBSET DOMAIN roles :
            users = {[id |-> 1, name |-> n, email |-> e, pass |-> p, roles |-> rs]}
      BY <2>2
    <3>2. PICK u : u = [id |-> 1, name |-> n, email |-> e, pass |-> p, roles |-> rs]
      OBVIOUS
    <3>3. u \in Row(DOMAIN roles) /\ u.id = 1
      BY <3>2 DEF Row, Logins, Passwords
    <3> QED BY <3>1, <3>2, <3>3
  <2> QED BY <2>1, <2>2 DEF Init
<1>5. nextId \in 1..MaxId + 1 /\ (users # {} => nextId = 2)
  <2>1. CASE users = {}
    <3>1. Cardinality(users) = 0
      BY <2>1, FS_EmptySet
    <3> QED BY <2>1, <3>1 DEF Init
  <2>2. CASE \E u : users = {u}
    <3>1. Cardinality(users) = 1
      BY <2>2, FS_Singleton
    <3> QED BY <3>1 DEF Init
  <2> QED BY <1>4, <2>1, <2>2
<1>6. IdsInv
  <2>1. \A u \in users : u.id < nextId
    BY <1>4, <1>5
  <2> QED BY <1>4, <2>1 DEF IdsInv
<1>7. TypeOK
  <2>1. faults \in 0..MaxFaults
    BY DEF Init
  <2> QED BY <1>1, <1>2, <1>4, <1>5, <2>1 DEF TypeOK, Row, RoleNames
<1>8. SyncInv
  BY <1>2 DEF SyncInv, Synced
<1> QED BY <1>1, <1>2, <1>3, <1>6, <1>7, <1>8 DEF IInv, TypeInv

LEMMA SyncedUnchanged ==
  ASSUME SyncInv, UNCHANGED <<roles, server>>
  PROVE  SyncInv'
BY SyncedSame DEF SyncInv

LEMMA InvariantKept == IInv /\ [Next]_accessVars => IInv'
<1> SUFFICES ASSUME IInv, [Next]_accessVars PROVE IInv'
  OBVIOUS
<1>1. CASE \E s \in Servers : ServerStep(s)
  BY <1>1, ServerSync, ServerTypes DEF IInv
<1>2. CASE \E r \in Requests : RequestStep(r)
  BY <1>2, RequestTypes, SyncedUnchanged DEF IInv
<1>3. CASE OtherStep
  BY <1>3, OtherTypes, SyncedUnchanged DEF IInv
<1>4. CASE UNCHANGED accessVars
  <2>1. TypeInv'
    BY <1>4 DEF IInv, TypeInv, TypeOK, TableInv, ServersInv, RequestsInv, IdsInv, accessVars, Process,
      Todo, PC, DefsLeft, RoleNames, Defined, RoleDefinitions, Holds, Logins, Emails, Passwords
  <2> QED BY <1>4, <2>1, SyncedUnchanged DEF IInv, accessVars
<1> QED BY <1>1, <1>2, <1>3, <1>4, Steps

-----------------------------------------------------------------------------
(* Theorems *)

\* Every reachable state satisfies the inductive invariant.
THEOREM InvariantHolds == Spec => []IInv
BY Start0, InvariantKept, PTL DEF Spec

\* The variables have their types, every mask is of six bits, and no user has a role
\* that is gone: a role is deleted with its links to users.
THEOREM TypeCorrect == Spec => []TypeOK
<1>1. IInv => TypeOK
  BY DEF IInv, TypeInv
<1> QED BY <1>1, InvariantHolds, PTL

\* However many servers start at once, and whatever they find or leave when they
\* crash, one that is up and has not failed to synchronise serves the roles of
\* RoleDefinitions (RoleService.onModuleInit).
THEOREM RolesInSync == Spec => []ServedInSync
<1>1. IInv => ServedInSync
  <2> SUFFICES ASSUME IInv, NEW s \in Servers, server[s].pc = "up", ~server[s].failed
               PROVE  InSync
    BY DEF ServedInSync
  <2>1. (\A n \in Defined : Defines(n)) /\ DOMAIN roles = Defined
    BY DEF IInv, SyncInv, Synced
  <2>2. \A n \in Defined : roles[n] = encode(RoleDefinitions[n])
    BY <2>1 DEF Defines
  <2>3. roles = [n \in DOMAIN roles |-> roles[n]]
    BY DEF IInv, TypeInv, TableInv
  <2> QED BY <2>1, <2>2, <2>3 DEF InSync
<1> QED BY <1>1, InvariantHolds, PTL


-----------------------------------------------------------------------------
(* Action properties *)

\* What a step of a server does to a user's roles
LEMMA ServerStrips ==
  ASSUME TypeInv, SyncInv, NEW s \in Servers, ServerStep(s),
         NEW u \in users, NEW v \in users', u.id = v.id
  PROVE  /\ v.roles \subseteq u.roles
         /\ (u.roles \ v.roles) \cap Defined # {} =>
              server[s].pc = "assign" /\ u.id \in server[s].todo
<1>1. nextId' = nextId
  BY DEF ServerStep, Start, Boot, SyncRole, ListRoles, PruneRole, PruneDone, FindAdmins,
    AssignAdmin, Up, Exit, PruneFails, SyncFails, StartFails, Crash
<1>2. CASE PruneRole(s)
  <2>1. PICK name \in RoleNames \ Defined :
          users' = Pruned(name) /\ DOMAIN roles' = DOMAIN roles \ {name}
    BY <1>2, PruneRoleMoves
  <2>2. v.roles = u.roles \ {name}
    BY <1>1, <2>1, RolePruned
  <2> QED BY <2>1, <2>2
<1>3. CASE AssignAdmin(s)
  <2>1. server[s].pc = "assign" /\ roles' = roles
    BY <1>3 DEF AssignAdmin
  <2>2. users' = users \/ \E id \in server[s].todo : users' = GiveRole(id)
    BY <1>3 DEF AssignAdmin
  <2>3. CASE users' = users
    BY <2>3 DEF TypeInv, IdsInv
  <2>4. CASE \E id \in server[s].todo : users' = GiveRole(id)
    <3>1. PICK id \in server[s].todo : users' = GiveRole(id)
      BY <2>4
    <3>2. IF u.id = id THEN v.roles = {} ELSE v = u
      BY <1>1, <2>1, <3>1, RoleGiven
    <3> QED BY <2>1, <3>1, <3>2
  <2> QED BY <2>2, <2>3, <2>4
<1>4. CASE ~PruneRole(s) /\ ~AssignAdmin(s)
  <2>1. users' = users
    BY <1>4 DEF ServerStep, Start, Boot, SyncRole, ListRoles, PruneDone, FindAdmins, Up, Exit,
      PruneFails, SyncFails, StartFails, Crash
  <2> QED BY <2>1 DEF TypeInv, IdsInv
<1> QED BY <1>2, <1>3, <1>4

LEMMA RequestStrips ==
  ASSUME TypeInv, NEW r \in Requests, RequestStep(r),
         NEW u \in users, NEW v \in users', u.id = v.id
  PROVE  /\ v.roles \subseteq u.roles
         /\ v.roles # u.roles =>
              req[r].pc = "role" /\ req[r].id = u.id /\ req[r].email \in AdminEmails
<1>1. UNCHANGED <<roles, server, faults>>
  BY RequestTypes
<1>2. CASE Reads(r)
  <2>1. users' = users
    BY <1>2, ReadsKeep DEF TypeInv
  <2> QED BY <2>1 DEF TypeInv, IdsInv
<1>3. CASE RegisterCreate(r)
  <2>1. v = u
    BY <1>3, Created
  <2> QED BY <2>1
<1>4. CASE RenameWrite(r)
  <2>1. req[r].name \in Logins
    BY <1>4 DEF TypeInv, RequestsInv, Holds, RenameWrite
  <2>2. PICK name, id : name \in Logins /\ name = req[r].name /\ id = req[r].id
    BY <2>1
  <2>3. users' = users \/ users' = Replace(id, LAMBDA w : [w EXCEPT !.name = name])
    BY <1>4, <2>2 DEF RenameWrite, Replace
  <2>4. CASE users' = users
    BY <2>4 DEF TypeInv, IdsInv
  <2>5. CASE users' = Replace(id, LAMBDA w : [w EXCEPT !.name = name])
    <3>1. nextId' = nextId
      BY <1>4 DEF RenameWrite
    <3>2. v.roles = u.roles
      BY <1>1, <2>2, <2>5, <3>1, NameChanged
    <3> QED BY <3>2
  <2> QED BY <2>3, <2>4, <2>5
<1>5. CASE RoleUpdate(r)
  <2>1. req[r].pc = "role" /\ nextId' = nextId
    BY <1>5 DEF RoleUpdate
  <2>2. CASE req[r].email \in AdminEmails
    <3>1. users' = GiveRole(req[r].id)
      BY <1>5, <2>2 DEF RoleUpdate, InDomain
    <3>2. IF u.id = req[r].id THEN v.roles = {} ELSE v = u
      BY <1>1, <2>1, <3>1, RoleGiven
    <3> QED BY <2>1, <2>2, <3>2
  <2>3. CASE req[r].email \notin AdminEmails
    <3>1. users' = users
      BY <1>5, <2>3 DEF RoleUpdate, InDomain
    <3> QED BY <3>1 DEF TypeInv, IdsInv
  <2> QED BY <2>2, <2>3
<1> QED BY <1>2, <1>3, <1>4, <1>5 DEF RequestStep

LEMMA OtherStrips ==
  ASSUME TypeInv, OtherStep, NEW u \in users, NEW v \in users', u.id = v.id
  PROVE  v.roles = u.roles
<1>1. UNCHANGED <<roles, nextId>>
  BY DEF OtherStep, DeleteUser, ChangeEmail
<1>2. \/ users' \subseteq users
      \/ \E id : \E e \in Emails : users' = Replace(id, LAMBDA w : [w EXCEPT !.email = e])
  BY DEF OtherStep, DeleteUser, ChangeEmail
<1>3. CASE users' \subseteq users
  BY <1>3 DEF TypeInv, IdsInv
<1>4. CASE \E id : \E e \in Emails : users' = Replace(id, LAMBDA w : [w EXCEPT !.email = e])
  <2>1. PICK id : \E e \in Emails : users' = Replace(id, LAMBDA w : [w EXCEPT !.email = e])
    BY <1>4
  <2>2. PICK e \in Emails : users' = Replace(id, LAMBDA w : [w EXCEPT !.email = e])
    BY <2>1
  <2> QED BY <1>1, <2>2, EmailChanged
<1> QED BY <1>2, <1>3, <1>4


\* The step property of RolesOnlyStripped
Strips ==
  \A u \in users, v \in users' : u.id = v.id =>
       /\ v.roles \subseteq u.roles
       /\ (u.roles \ v.roles) \cap Defined # {} =>
            \/ \E s \in Servers : server[s].pc = "assign" /\ u.id \in server[s].todo
            \/ \E r \in Requests : req[r].pc = "role" /\ req[r].id = u.id
                                   /\ req[r].email \in AdminEmails

\* No step gives a user a role, and only a user of ADMIN_DOMAIN loses a defined one:
\* updateAdminUsers looks the role up by its key, which names no role of any version.
THEOREM NobodyIsPromoted == Spec => RolesOnlyStripped
<1>1. IInv /\ [Next]_accessVars => [Strips]_accessVars
  <2> SUFFICES ASSUME IInv, Next, NEW u \in users, NEW v \in users', u.id = v.id
               PROVE  /\ v.roles \subseteq u.roles
                      /\ (u.roles \ v.roles) \cap Defined # {} =>
                           \/ \E s \in Servers :
                                server[s].pc = "assign" /\ u.id \in server[s].todo
                           \/ \E r \in Requests :
                                req[r].pc = "role" /\ req[r].id = u.id
                                /\ req[r].email \in AdminEmails
    BY DEF Strips
  <2>1. CASE \E s \in Servers : ServerStep(s)
    BY <2>1, ServerStrips DEF IInv
  <2>2. CASE \E r \in Requests : RequestStep(r)
    BY <2>2, RequestStrips DEF IInv
  <2>3. CASE OtherStep
    <3>1. v.roles = u.roles
      BY <2>3, OtherStrips DEF IInv
    <3> QED BY <3>1
  <2> QED BY <2>1, <2>2, <2>3, Steps
<1>2. RolesOnlyStripped <=> [][Strips]_accessVars
  BY PTL DEF RolesOnlyStripped, Strips
<1> QED BY <1>1, <1>2, InvariantHolds, PTL DEF Spec

\* What starts to be answered is what the request asked for.
LEMMA AnswerOfRead ==
  ASSUME RequestsInv, NEW r \in Requests, Next, req[r].pc = "idle",
         req'[r].pc \in {"answer", "list", "scopes"}
  PROVE  \/ \E l \in Logins, p \in Passwords : Login(r, l, p)
         \/ \E u \in users : List(r, u) \/ Scopes(r, u)
<1>1. req' # req
  OBVIOUS
<1>2. ASSUME NEW q \in Requests, RequestStep(q)
      PROVE  q = r
  <2>1. CASE Reads(q)
    BY <1>1, <2>1, ReadsKeep
  <2>2. CASE RegisterCreate(q) \/ RenameWrite(q) \/ RoleUpdate(q)
    <3>1. req' = With(q, Idle) /\ Holds(Idle)
      BY <2>2 DEF RegisterCreate, RenameWrite, RoleUpdate, Holds, Idle
    <3> QED BY <3>1, Request
  <2> QED BY <1>2, <2>1, <2>2 DEF RequestStep
<1>3. RequestStep(r)
  <2>1. ASSUME NEW s \in Servers, ServerStep(s)
        PROVE  req' = req
    BY <2>1 DEF ServerStep, Start, Boot, SyncRole, ListRoles, PruneRole, PruneDone, FindAdmins,
      AssignAdmin, Up, Exit, PruneFails, SyncFails, StartFails, Crash
  <2>2. OtherStep => req' = req
    BY DEF OtherStep, DeleteUser, ChangeEmail
  <2> QED BY <1>1, <1>2, <2>1, <2>2, Steps
<1>4. Reads(r)
  BY <1>3 DEF RequestStep, RegisterCreate, RenameWrite, RoleUpdate
<1>5. ASSUME NEW x, Holds(x), req' = With(r, x)
      PROVE  x.pc \in {"answer", "list", "scopes"}
  BY <1>5, Request
<1>6. ASSUME NEW n, NEW e, NEW p, Holds([pc |-> "register", name |-> n, email |-> e, pass |-> p])
      PROVE  req' # With(r, [pc |-> "register", name |-> n, email |-> e, pass |-> p])
  BY <1>5, <1>6
<1>7. ASSUME NEW n \in Logins, NEW e \in Emails, NEW p \in Passwords
      PROVE  ~RegisterCheck(r, n, e, p)
  BY <1>6 DEF RegisterCheck, Holds
<1>8. ASSUME NEW n \in generateUniqueUsername, NEW e \in Emails
      PROVE  ~SnsCheck(r, n, e)
  BY <1>6 DEF SnsCheck, Holds, generateUniqueUsername, Logins
<1>9. ASSUME NEW u \in users, NEW n \in Logins
      PROVE  ~RenameCheck(r, u.id, n)
  <2>1. Holds([pc |-> "rename", id |-> u.id, name |-> n])
    BY DEF Holds
  <2>2. [pc |-> "rename", id |-> u.id, name |-> n].pc \notin {"answer", "list", "scopes"}
    OBVIOUS
  <2> QED BY <1>5, <2>1, <2>2 DEF RenameCheck
<1>10. ASSUME NEW u \in users
       PROVE  ~RoleRead(r, u)
  <2>1. Holds([pc |-> "role", id |-> u.id, email |-> u.email])
    BY DEF Holds
  <2>2. [pc |-> "role", id |-> u.id, email |-> u.email].pc \notin {"answer", "list", "scopes"}
    OBVIOUS
  <2> QED BY <1>5, <2>1, <2>2 DEF RoleRead
<1>11. ~(Answered(r) \/ ListAnswered(r) \/ ScopesAnswered(r))
  BY DEF Answered, ListAnswered, ScopesAnswered
<1> QED BY <1>4, <1>7, <1>8, <1>9, <1>10, <1>11 DEF Reads


\* The step property of RightPasswordRefused
Refuses ==
  \A r \in Requests, u \in users :
       /\ req[r].pc = "idle" /\ req'[r].pc = "answer" /\ req'[r].user = 0
       /\ req'[r].login \in {u.name, u.email} /\ req'[r].pass = u.pass
       => \/ u.pass \in UnsentPasswords
          \/ req'[r].login \in UnsentLogins
          \/ \E v \in users : v.id # u.id /\ req'[r].login \in {v.name, v.email}

\* A user with the right password is refused only for a password or a login that
\* registerSchema takes and loginSchema does not, or because another user has the
\* login too: verifyUserPassword looks at one of the rows that username and email
\* give.
THEOREM RefusedForACause == Spec => RightPasswordRefused
<1>1. IInv /\ [Next]_accessVars => [Refuses]_accessVars
  <2> SUFFICES ASSUME IInv, Next, NEW r \in Requests, NEW u \in users,
                      req[r].pc = "idle", req'[r].pc = "answer", req'[r].user = 0,
                      req'[r].login \in {u.name, u.email}, req'[r].pass = u.pass
               PROVE  \/ u.pass \in UnsentPasswords
                      \/ req'[r].login \in UnsentLogins
                      \/ \E v \in users : v.id # u.id /\ req'[r].login \in {v.name, v.email}
    BY DEF Refuses
  <2>1. RequestsInv /\ IdsInv /\ \A v \in users : v \in Row(DOMAIN roles)
    BY PartsOfType DEF IInv, TypeInv
  <2>2. \E l \in Logins, p \in Passwords : Login(r, l, p)
    <3>1. ASSUME NEW w \in users
          PROVE  ~List(r, w)
      <4>1. ASSUME NEW g
            PROVE  req' # With(r, [pc |-> "list", roles |-> w.roles, granted |-> g])
        <5>1. Holds([pc |-> "list", roles |-> w.roles, granted |-> g])
          BY DEF Holds
        <5>2. [pc |-> "list", roles |-> w.roles, granted |-> g].pc # "answer"
          OBVIOUS
        <5> QED BY <2>1, <5>1, <5>2, Request
      <4> QED BY <4>1 DEF List
    <3>2. ASSUME NEW w \in users
          PROVE  ~Scopes(r, w)
      <4>1. ASSUME NEW g
            PROVE  req' # With(r, [pc |-> "scopes", ok |-> g])
        <5>1. Holds([pc |-> "scopes", ok |-> g])
          BY DEF Holds
        <5>2. [pc |-> "scopes", ok |-> g].pc # "answer"
          OBVIOUS
        <5> QED BY <2>1, <5>1, <5>2, Request
      <4> QED BY <4>1 DEF Scopes
    <3> QED BY <2>1, <3>1, <3>2, AnswerOfRead
  <2>3. PICK l \in Logins, p \in Passwords : Login(r, l, p)
    BY <2>2
  <2>4. PICK v, z :
          /\ v \in IF Found(l) = {} THEN {NoRow} ELSE Found(l)
          /\ z = IF /\ v # NoRow /\ v.pass = p
                    /\ l \in LoginNames /\ p \in LoginPasswords
                 THEN v.id ELSE 0
          /\ req' = With(r, [pc |-> "answer", login |-> l, pass |-> p, user |-> z])
    BY <2>3 DEF Login
  <2>5. req'[r] = [pc |-> "answer", login |-> l, pass |-> p, user |-> z]
    <3>1. Holds([pc |-> "answer", login |-> l, pass |-> p, user |-> z])
      BY DEF Holds
    <3> QED BY <2>1, <2>4, <3>1, Request
  <2>6. req'[r].login = l /\ req'[r].pass = p /\ z = 0
    BY <2>5
  <2>7. u \in Found(l) /\ u.pass = p
    BY <2>6 DEF Found
  <2>8. v \in Found(l)
    BY <2>4, <2>7
  <2>9. v \in users /\ l \in {v.name, v.email}
    BY <2>8 DEF Found
  <2>10. v # NoRow
    <3>1. v \in Row(RoleNames)
      BY <2>1, <2>9, PartsOfType DEF IInv, TypeInv, Row
    <3> QED BY <3>1, NoRowAssumption DEF Row, RoleNames
  <2>11. v.id # 0
    BY <2>1, <2>9 DEF Row
  <2>12. CASE p \in LongPasswords /\ l \notin UnsentLogins
    <3>1. v.pass # p
      BY <2>4, <2>6, <2>10, <2>11, <2>12 DEF LoginPasswords, LoginNames
    <3>2. v.id # u.id
      BY <2>1, <2>7, <2>9, <3>1 DEF IdsInv
    <3> QED BY <2>6, <2>9, <3>2
  <2>13. CASE p \notin LongPasswords
    BY <2>7, <2>13 DEF Passwords
  <2>14. CASE l \in UnsentLogins
    BY <2>6, <2>14
  <2> QED BY <2>12, <2>13, <2>14
<1>2. RightPasswordRefused <=> [][Refuses]_accessVars
  BY PTL DEF RightPasswordRefused, Refuses
<1> QED BY <1>1, <1>2, InvariantHolds, PTL DEF Spec

\* With the roles in sync, the bits of a user's roles are those of their definitions.
LEMMA BitsInSync ==
  ASSUME TypeOK, InSync, NEW u \in users
  PROVE  /\ u.roles \subseteq Defined
         /\ BitsOf(Combined({roles[n] : n \in u.roles})) =
              UNION {RoleDefinitions[n] : n \in u.roles}
<1>1. u.roles \subseteq Defined
  BY PartsOfType DEF InSync, Row
<1>2. \A n \in u.roles : BitsOf(roles[n]) = RoleDefinitions[n]
  BY <1>1, Definitions DEF InSync
<1>3. UNION {BitsOf(m) : m \in {roles[n] : n \in u.roles}} =
        UNION {RoleDefinitions[n] : n \in u.roles}
  BY <1>2
<1> QED BY <1>1, <1>3, CombinedBits

\* The step property of MasksMatchRoles
Matches ==
  InSync =>
    \A r \in Requests : req[r].pc = "idle" =>
      /\ req'[r].pc = "list" => (req'[r].granted <=> "role_manager" \in req'[r].roles)
      /\ req'[r].pc = "scopes" => req'[r].ok

\* Once the roles are in sync, PermissionGuard lets exactly the role managers list the
\* users, and decode of a user's combined masks never throws.
THEOREM MasksAreTheirRoles == Spec => MasksMatchRoles
<1>1. IInv /\ [Next]_accessVars => [Matches]_accessVars
  <2> SUFFICES ASSUME IInv, Next, InSync, NEW r \in Requests, req[r].pc = "idle",
                      req'[r].pc \in {"list", "scopes"}
               PROVE  /\ req'[r].pc = "list" =>
                           (req'[r].granted <=> "role_manager" \in req'[r].roles)
                      /\ req'[r].pc = "scopes" => req'[r].ok
    BY DEF Matches
  <2>1. RequestsInv /\ TypeOK
    BY DEF IInv, TypeInv
  <2>2. ASSUME NEW l \in Logins, NEW p \in Passwords
        PROVE  ~Login(r, l, p)
    <3>1. ASSUME NEW z
          PROVE  req' # With(r, [pc |-> "answer", login |-> l, pass |-> p, user |-> z])
      <4>1. Holds([pc |-> "answer", login |-> l, pass |-> p, user |-> z])
        BY DEF Holds
      <4>2. [pc |-> "answer", login |-> l, pass |-> p, user |-> z].pc \notin {"list", "scopes"}
        OBVIOUS
      <4> QED BY <2>1, <4>1, <4>2, Request
    <3> QED BY <3>1 DEF Login
  <2>3. PICK u \in users : List(r, u) \/ Scopes(r, u)
    BY <2>1, <2>2, AnswerOfRead
  <2>4. u.roles \subseteq Defined
    BY <2>1, BitsInSync
  <2>5. BitsOf(Combined({roles[n] : n \in u.roles})) = UNION {RoleDefinitions[n] : n \in u.roles}
    BY <2>1, BitsInSync
  <2>6. CASE List(r, u)
    <3>1. PICK g \in BOOLEAN :
            /\ g <=> Permits(u, encode({VIEW_ALL_USERS}))
            /\ req' = With(r, [pc |-> "list", roles |-> u.roles, granted |-> g])
      BY <2>6 DEF List, Permits
    <3>2. Holds([pc |-> "list", roles |-> u.roles, granted |-> g])
      BY DEF Holds
    <3>3. req'[r] = [pc |-> "list", roles |-> u.roles, granted |-> g]
      BY <2>1, <3>1, <3>2, Request
    <3>4. BitsOf(encode({VIEW_ALL_USERS})) = {VIEW_ALL_USERS}
      <4>1. {VIEW_ALL_USERS} \in SUBSET Bits
        BY DEF Bits, PermissionType
      <4> QED BY <4>1, EncodedBits
    <3>5. Permits(u, encode({VIEW_ALL_USERS})) <=>
            VIEW_ALL_USERS \in UNION {RoleDefinitions[n] : n \in u.roles}
      BY <2>5, <3>4 DEF Permits
    <3>6. VIEW_ALL_USERS \in UNION {RoleDefinitions[n] : n \in u.roles} <=>
            "role_manager" \in u.roles
      BY <2>4, Definitions
    <3>7. g <=> "role_manager" \in u.roles
      BY <3>1, <3>5, <3>6
    <3> QED BY <3>3, <3>7
  <2>7. CASE Scopes(r, u)
    <3>1. PICK g \in BOOLEAN :
            /\ g <=> Decodes(Combined({roles[n] : n \in u.roles}))
            /\ req' = With(r, [pc |-> "scopes", ok |-> g])
      BY <2>7 DEF Scopes, Decodes
    <3>2. Holds([pc |-> "scopes", ok |-> g])
      BY DEF Holds
    <3>3. req'[r] = [pc |-> "scopes", ok |-> g]
      BY <2>1, <3>1, <3>2, Request
    <3>4. UNION {RoleDefinitions[n] : n \in u.roles} \subseteq PermissionType
      BY <2>4, Definitions
    <3>5. g
      BY <2>5, <3>1, <3>4 DEF Decodes
    <3> QED BY <3>3, <3>5
  <2> QED BY <2>3, <2>6, <2>7
<1>2. MasksMatchRoles <=> [][Matches]_accessVars
  BY PTL DEF MasksMatchRoles, Matches
<1> QED BY <1>1, <1>2, InvariantHolds, PTL DEF Spec

=============================================================================
