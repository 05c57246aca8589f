--------------------------- MODULE SseStreamProofs ---------------------------
(***************************************************************************)
(* SseStream proved for bodies of any length, cut anywhere: its types, the *)
(* causes of its errors, and that it implements EventRelay.  The sections go*)
(* from numbers and sequences to text, the handler, the bytes, the inductive*)
(* invariant and its steps; the theorems are at the end.                   *)
(***************************************************************************)
EXTENDS SseStream, FiniteSetTheorems, SequenceTheorems, WellFoundedInduction, TLAPS

-----------------------------------------------------------------------------
(* Numbers *)

\* A set of numbers that is not empty has a least one.
LEMMA Least ==
  ASSUME NEW T \in SUBSET Nat, T # {}
  PROVE  \E n \in T : \A m \in T : n <= m
<1> DEFINE Less == {p \in Nat \X Nat : p[1] < p[2]}
<1>1. IsWellFoundedOn(Less, Nat)
  BY NatLessThanWellFounded DEF OpToRel
<1>2. PICK n \in T : \A m \in T : <<m, n>> \notin Less
  <2> HIDE DEF Less
  <2> QED BY <1>1, WFMin
<1>3. ASSUME NEW m \in T PROVE n <= m
  <2>1. ~(m < n)
    BY <1>2
  <2>2. m \in Nat /\ n \in Nat
    OBVIOUS
  <2> QED BY <2>1, <2>2
<1> QED BY <1>3

\* A set of numbers with 0 in it, and with n + 1 for each n in it, has them all.
LEMMA Induction ==
  ASSUME NEW T, 0 \in T, \A n \in Nat : n \in T => n + 1 \in T
  PROVE  Nat \subseteq T
<1> SUFFICES ASSUME Nat \ T # {} PROVE FALSE
  OBVIOUS
<1>1. PICK n \in Nat \ T : \A m \in Nat \ T : n <= m
  BY Least
<1>2. n - 1 \in Nat /\ (n - 1) + 1 = n
  BY <1>1
<1> QED BY <1>1, <1>2

-----------------------------------------------------------------------------
(* Picked: the elements of a sequence at a set of positions *)

\* e lists the n elements of S in order.
Lists(e, n, S) ==
  /\ n \in Nat /\ e \in [1..n -> S]
  /\ \A k, l \in 1..n : k < l => e[k] < e[l]
  /\ \A i \in S : \E k \in 1..n : e[k] = i

LEMMA Counted ==
  ASSUME NEW S \in SUBSET Int, NEW n, NEW e, Lists(e, n, S), NEW c \in 0..n
  PROVE  IsFiniteSet({e[k] : k \in 1..c}) /\ Cardinality({e[k] : k \in 1..c}) = c
<1> DEFINE C == {e[k] : k \in 1..c}
           f == [k \in 1..c |-> e[k]]
<1>1. f \in [1..c -> C]
  OBVIOUS
<1>2. \A k, l \in 1..c : k # l => e[k] # e[l]
  <2> SUFFICES ASSUME NEW k \in 1..c, NEW l \in 1..c, k # l PROVE e[k] # e[l]
    OBVIOUS
  <2>1. n \in Nat /\ \A i \in 1..n : e[i] \in Int
    BY DEF Lists
  <2>2. k \in 1..n /\ l \in 1..n
    BY <2>1
  <2>3. k < l \/ l < k
    BY <2>1
  <2> QED BY <2>1, <2>2, <2>3 DEF Lists
<1>3. f \in Bijection(1..c, C)
  BY <1>1, <1>2 DEF Bijection, Injection, Surjection, IsInjective
<1>4. ExistsBijection(1..c, C)
  BY <1>3 DEF ExistsBijection
<1>5. c \in Nat
  BY DEF Lists
<1>6. IsFiniteSet(C) /\ Cardinality(C) = c
  <2> HIDE DEF C
  <2>1. IsFiniteSet(C)
    BY <1>4, <1>5, FS_NatBijection
  <2>2. Cardinality(C) = c
    BY <1>4, <1>5, FS_CountingElements
  <2> QED BY <2>1, <2>2
<1> QED BY <1>6

\* A list of S in order counts S, and gives what Picked picks.
LEMMA PickedIs ==
  ASSUME NEW seq, NEW S \in SUBSET Int, NEW n, NEW e, Lists(e, n, S)
  PROVE  /\ IsFiniteSet(S) /\ Cardinality(S) = n
         /\ Picked(seq, S) = [k \in 1..n |-> seq[e[k]]]
<1>1. n \in Nat /\ \A k \in 1..n : e[k] \in S /\ e[k] \in Int
  BY DEF Lists
<1>2. S = {e[k] : k \in 1..n}
  BY <1>1 DEF Lists
<1>3. IsFiniteSet(S) /\ Cardinality(S) = n
  <2>1. n \in 0..n
    BY <1>1
  <2> QED BY <1>2, <2>1, Counted
<1>4. ASSUME NEW k \in 1..n
      PROVE  Cardinality({j \in S : j < e[k]}) = k - 1
  <2>1. {j \in S : j < e[k]} = {e[l] : l \in 1..k - 1}
    <3>1. \A l \in 1..n : e[l] < e[k] <=> l < k
      <4> SUFFICES ASSUME NEW l \in 1..n PROVE e[l] < e[k] <=> l < k
        OBVIOUS
      <4>1. l < k \/ l = k \/ k < l
        BY <1>1
      <4> QED BY <4>1, <1>1 DEF Lists
    <3>2. \A l \in 1..k - 1 : l \in 1..n /\ l < k
      BY <1>1
    <3>3. \A l \in 1..n : l < k => l \in 1..k - 1
      BY <1>1
    <3> QED BY <1>2, <3>1, <3>2, <3>3
  <2>2. k - 1 \in 0..n
    BY <1>1
  <2> QED BY <2>1, <2>2, Counted
<1>5. ASSUME NEW k \in 1..n
      PROVE  (CHOOSE i \in S : Cardinality({j \in S : j < i}) = k - 1) = e[k]
  <2>1. \A i \in S : Cardinality({j \in S : j < i}) = k - 1 => i = e[k]
    <3> SUFFICES ASSUME NEW i \in S, Cardinality({j \in S : j < i}) = k - 1 PROVE i = e[k]
      OBVIOUS
    <3>1. PICK l \in 1..n : e[l] = i
      BY DEF Lists
    <3>2. l - 1 = k - 1
      BY <3>1, <1>4
    <3>3. l = k
      BY <3>2, <1>1
    <3> QED BY <3>1, <3>3
  <2> QED BY <1>1, <1>4, <2>1
<1> DEFINE At(k) == CHOOSE i \in S : Cardinality({j \in S : j < i}) = k - 1
<1>6. Picked(seq, S) = [k \in 1..n |-> seq[At(k)]]
  BY <1>3 DEF Picked
<1>7. \A k \in 1..n : At(k) = e[k]
  BY <1>5
<1> HIDE DEF At
<1>8. Picked(seq, S) = [k \in 1..n |-> seq[e[k]]]
  BY <1>6, <1>7
<1> QED BY <1>3, <1>8


\* The first c of the n listed are those that do not pass b.
Reaches(e, n, b, c) == c \in 0..n /\ \A k \in 1..n : e[k] <= b <=> k <= c

LEMMA UpTo ==
  ASSUME NEW S \in SUBSET Int, NEW n, NEW e, Lists(e, n, S), NEW b \in Int
  PROVE  Reaches(e, n, b, Cardinality({i \in S : i <= b}))
<1>1. n \in Nat /\ \A k \in 1..n : e[k] \in S /\ e[k] \in Int
  BY DEF Lists
<1>2. S = {e[k] : k \in 1..n}
  BY <1>1 DEF Lists
<1>3. \E c \in 0..n : \A k \in 1..n : e[k] <= b <=> k <= c
  <2>1. CASE \A k \in 1..n : e[k] <= b
    <3>1. \A k \in 1..n : e[k] <= b <=> k <= n
      BY <1>1, <2>1
    <3> QED BY <1>1, <3>1
  <2>2. CASE \E k \in 1..n : ~(e[k] <= b)
    <3> DEFINE T == {k \in 1..n : ~(e[k] <= b)}
    <3>0. T \in SUBSET Nat /\ T # {}
      BY <1>1, <2>2
    <3>1. PICK k \in T : \A l \in T : k <= l
      <4> HIDE DEF T
      <4> QED BY <3>0, Least
    <3>2. ASSUME NEW l \in 1..n PROVE e[l] <= b <=> l <= k - 1
      <4>1. CASE l < k
        BY <1>1, <3>1, <4>1
      <4>2. CASE l = k
        BY <1>1, <3>1, <4>2
      <4>3. CASE k < l
        <5>1. e[k] < e[l]
          BY <4>3 DEF Lists
        <5> QED BY <1>1, <3>1, <4>3, <5>1
      <4> QED BY <1>1, <4>1, <4>2, <4>3
    <3>3. k - 1 \in 0..n
      BY <1>1
    <3> QED BY <3>2, <3>3
  <2> QED BY <2>1, <2>2
<1>4. PICK c \in 0..n : \A k \in 1..n : e[k] <= b <=> k <= c
  BY <1>3
<1>5. {i \in S : i <= b} = {e[k] : k \in 1..c}
  <2>1. \A k \in 1..c : k \in 1..n
    BY <1>1
  <2>2. \A k \in 1..n : k <= c => k \in 1..c
    BY <1>1
  <2> QED BY <1>2, <1>4, <2>1, <2>2
<1>6. Cardinality({i \in S : i <= b}) = c
  BY <1>5, Counted
<1> QED BY <1>4, <1>6 DEF Reaches

\* Every set of positions has its list.
LEMMA Listed ==
  ASSUME NEW N \in Nat, NEW S \in SUBSET (1..N)
  PROVE  \E n, e : Lists(e, n, S)
<1> DEFINE T == {m \in Nat : \A U \in SUBSET (1..m) : \E n, e : Lists(e, n, U)}
<1>1. 0 \in T
  <2> SUFFICES ASSUME NEW U \in SUBSET (1..0) PROVE \E n, e : Lists(e, n, U)
    OBVIOUS
  <2>1. U = {}
    OBVIOUS
  <2>2. Lists([k \in 1..0 |-> k], 0, U)
    BY <2>1 DEF Lists
  <2> QED BY <2>2
<1>2. ASSUME NEW m \in Nat, m \in T PROVE m + 1 \in T
  <2> SUFFICES ASSUME NEW U \in SUBSET (1..m + 1) PROVE \E n, e : Lists(e, n, U)
    OBVIOUS
  <2>1. U \cap (1..m) \in SUBSET (1..m)
    OBVIOUS
  <2>2. PICK n, e : Lists(e, n, U \cap (1..m))
    BY <1>2, <2>1
  <2>3. CASE m + 1 \notin U
    <3>1. U \cap (1..m) = U
      <4>1. \A i \in 1..m + 1 : i \in 1..m \/ i = m + 1
        OBVIOUS
      <4> QED BY <2>3, <4>1
    <3> QED BY <2>2, <3>1
  <2>4. CASE m + 1 \in U
    <3> DEFINE f == [k \in 1..n + 1 |-> IF k <= n THEN e[k] ELSE m + 1]
    <3>1. n \in Nat /\ e \in [1..n -> U \cap (1..m)]
      BY <2>2 DEF Lists
    <3>2. \A k \in 1..n : k \in 1..n + 1 /\ f[k] = e[k] /\ e[k] \in U /\ e[k] <= m /\ e[k] \in Int
      BY <3>1
    <3>3. n + 1 \in 1..n + 1 /\ f[n + 1] = m + 1
      BY <3>1
    <3>4. \A k \in 1..n + 1 : k \in 1..n \/ k = n + 1
      BY <3>1
    <3>5. f \in [1..n + 1 -> U]
      BY <2>4, <3>2, <3>3, <3>4
    <3>6. ASSUME NEW k \in 1..n + 1, NEW l \in 1..n + 1, k < l PROVE f[k] < f[l]
      <4>1. k \in 1..n
        BY <3>1, <3>6
      <4>2. CASE l \in 1..n
        BY <2>2, <3>2, <3>6, <4>1, <4>2 DEF Lists
      <4>3. CASE l = n + 1
        <5>1. e[k] \in Int /\ e[k] <= m
          BY <3>2, <4>1
        <5>2. e[k] < m + 1
          BY <5>1
        <5> QED BY <3>2, <3>3, <4>1, <4>3, <5>2
      <4> QED BY <3>4, <4>2, <4>3
    <3>7. ASSUME NEW i \in U PROVE \E k \in 1..n + 1 : f[k] = i
      <4>1. CASE i = m + 1
        BY <3>3, <4>1
      <4>2. CASE i \in 1..m
        <5>1. PICK k \in 1..n : e[k] = i
          BY <2>2, <4>2 DEF Lists
        <5> QED BY <3>2, <5>1
      <4> QED BY <4>1, <4>2
    <3> HIDE DEF f
    <3>8. Lists(f, n + 1, U)
      BY <3>1, <3>5, <3>6, <3>7 DEF Lists
    <3> QED BY <3>8
  <2> QED BY <2>3, <2>4
<1>3. Nat \subseteq T
  <2> HIDE DEF T
  <2> QED BY <1>1, <1>2, Induction
<1> QED BY <1>3

\* U is the part of S between a and b, counted from a.
Between(U, S, a, b) == \A i : i \in U <=> i \in 1..b - a /\ a + i \in S

\* That part is listed by the part of the list.
LEMMA ListsPart ==
  ASSUME NEW S \in SUBSET Int, NEW n, NEW e, Lists(e, n, S), NEW a \in Int, NEW b \in Int, a <= b,
         NEW c, Reaches(e, n, a, c), NEW d, Reaches(e, n, b, d), NEW U, Between(U, S, a, b)
  PROVE  /\ d \in c..n
         /\ \E f : Lists(f, d - c, U) /\ \A k \in 1..d - c : f[k] = e[c + k] - a
<1> DEFINE f == [k \in 1..d - c |-> e[c + k] - a]
<1>1. n \in Nat /\ c \in 0..n /\ d \in 0..n /\ \A k \in 1..n : e[k] \in S /\ e[k] \in Int
  BY DEF Lists, Reaches
<1>2. \A k \in 1..n : e[k] <= a <=> k <= c
  BY DEF Reaches
<1>3. \A k \in 1..n : e[k] <= b <=> k <= d
  BY DEF Reaches
<1>4. d \in c..n
  <2>1. CASE c = 0
    BY <1>1, <1>3, <2>1
  <2>2. CASE c # 0
    <3>1. c \in 1..n
      BY <1>1, <1>2, <2>2
    <3>2. e[c] <= b
      BY <1>1, <1>2, <3>1
    <3> QED BY <1>1, <1>3, <3>1, <3>2
  <2> QED BY <2>1, <2>2
<1>5. ASSUME NEW k \in 1..d - c
      PROVE  c + k \in 1..n /\ f[k] = e[c + k] - a /\ f[k] \in U
  <2>1. c + k \in 1..n /\ ~(c + k <= c) /\ c + k <= d
    BY <1>1, <1>2, <1>4
  <2>2. ~(e[c + k] <= a) /\ e[c + k] <= b /\ e[c + k] \in Int
    BY <1>1, <1>2, <1>3, <2>1
  <2>3. e[c + k] - a \in 1..b - a /\ a + (e[c + k] - a) = e[c + k]
    BY <2>2
  <2> QED BY <1>1, <2>1, <2>3 DEF Between
<1>6. ASSUME NEW k \in 1..d - c, NEW l \in 1..d - c, k < l
      PROVE  f[k] < f[l]
  <2>1. c + k \in 1..n /\ c + l \in 1..n /\ c + k < c + l
    BY <1>1, <1>4, <1>5, <1>6
  <2>2. e[c + k] < e[c + l]
    BY <2>1 DEF Lists
  <2> QED BY <1>1, <1>5, <2>1, <2>2
<1>7. ASSUME NEW i \in U
      PROVE  \E k \in 1..d - c : f[k] = i
  <2>0. i \in 1..b - a /\ a + i \in S
    BY DEF Between
  <2>1. PICK k \in 1..n : e[k] = a + i
    BY <2>0 DEF Lists
  <2>2. ~(e[k] <= a) /\ e[k] <= b
    BY <2>0, <2>1
  <2>3. ~(k <= c) /\ k <= d
    BY <1>2, <1>3, <2>2
  <2>4. k - c \in 1..d - c /\ c + (k - c) = k
    BY <1>1, <2>3
  <2>5. f[k - c] = e[k] - a
    BY <2>4
  <2>6. e[k] - a = i
    BY <2>0, <2>1
  <2> QED BY <2>4, <2>5, <2>6
<1>8. d - c \in Nat
  BY <1>1, <1>4
<1>9. f \in [1..d - c -> U]
  BY <1>5
<1> HIDE DEF f
<1>10. Lists(f, d - c, U)
  BY <1>6, <1>7, <1>8, <1>9 DEF Lists
<1>11. \A k \in 1..d - c : f[k] = e[c + k] - a
  BY <1>5
<1> QED BY <1>4, <1>10, <1>11


-----------------------------------------------------------------------------
(* The text of the body *)

\* Lines end at every third character.
Letters == (DOMAIN kinds) \X {"head", "wide", "nl"}

AllText ==
  [m \in 1..3 * Len(kinds) |->
     <<(m + 2) \div 3, CASE m % 3 = 1 -> "head" [] m % 3 = 2 -> "wide" [] OTHER -> "nl">>]

Chars == 0..3 * Len(kinds)

\* From after character x to character y, and from after the last newline to x
Piece(x, y) == SubSeq(AllText, x + 1, y)
Ended(x) == x \div 3
Rest(x) == Piece(3 * Ended(x), x)

LEMMA Thirds ==
  \A m \in Nat : \E i \in Nat, r \in 0..2 : m = 3 * i + r /\ m \div 3 = i /\ m % 3 = r
<1> SUFFICES ASSUME NEW m \in Nat
             PROVE  \E i \in Nat, r \in 0..2 : m = 3 * i + r /\ m \div 3 = i /\ m % 3 = r
  OBVIOUS
<1>1. m \div 3 \in Nat /\ m % 3 \in 0..2 /\ m = 3 * (m \div 3) + (m % 3)
  OBVIOUS
<1> QED BY <1>1

LEMMA LineOf ==
  ASSUME NEW L \in Nat, NEW m \in 1..3 * L
  PROVE  \E i \in 1..L : m = 3 * i - 2 \/ m = 3 * i - 1 \/ m = 3 * i
<1>0. m \in Nat
  OBVIOUS
<1>1. PICK i \in Nat, r \in 0..2 : m = 3 * i + r
  BY <1>0, Thirds
<1>2. CASE r = 0
  <2>1. i \in 1..L
    BY <1>1, <1>2
  <2> QED BY <1>1, <1>2, <2>1
<1>3. CASE r # 0
  <2>1. i + 1 \in 1..L
    BY <1>1, <1>3
  <2>2. m = 3 * (i + 1) - 2 \/ m = 3 * (i + 1) - 1
    BY <1>1, <1>3
  <2> QED BY <2>1, <2>2
<1> QED BY <1>2, <1>3

LEMMA FunSeq ==
  ASSUME NEW T, NEW n \in Nat, NEW f \in [1..n -> T]
  PROVE  f \in Seq(T) /\ Len(f) = n /\ DOMAIN f = 1..n
OBVIOUS

LEMMA KindsLen ==
  ASSUME kinds \in Seq(Kinds)
  PROVE  Len(kinds) \in Nat /\ DOMAIN kinds = 1..Len(kinds) /\ 3 * Len(kinds) \in Nat
         /\ \A i \in DOMAIN kinds : kinds[i] \in Kinds
<1>1. Len(kinds) \in Nat /\ DOMAIN kinds = 1..Len(kinds)
  BY LenProperties
<1>2. \A i \in 1..Len(kinds) : kinds[i] \in Kinds
  BY ElementOfSeq
<1> QED BY <1>1, <1>2

\* What each character of the text is
LEMMA TextAt ==
  ASSUME kinds \in Seq(Kinds)
  PROVE  /\ AllText \in Seq(Letters) /\ Len(AllText) = 3 * Len(kinds)
         /\ \A i \in 1..Len(kinds) : /\ AllText[3 * i - 2] = <<i, "head">>
                                     /\ AllText[3 * i - 1] = <<i, "wide">>
                                     /\ AllText[3 * i] = <<i, "nl">>
<1> DEFINE L == Len(kinds)
<1>1. L \in Nat /\ DOMAIN kinds = 1..L
  BY KindsLen
<1> HIDE DEF L
<1>2. ASSUME NEW i \in 1..L
      PROVE  /\ 3 * i - 2 \in 1..3 * L /\ 3 * i - 1 \in 1..3 * L /\ 3 * i \in 1..3 * L
             /\ ((3 * i - 2) + 2) \div 3 = i /\ ((3 * i - 1) + 2) \div 3 = i
             /\ (3 * i + 2) \div 3 = i
             /\ (3 * i - 2) % 3 = 1 /\ (3 * i - 1) % 3 = 2 /\ (3 * i) % 3 = 0
  <2>1. i \in Int /\ 1 <= i /\ i <= L
    BY <1>1
  <2> QED BY <1>1, <2>1
<1>3. ASSUME NEW m \in 1..3 * L
      PROVE  \E i \in 1..L : m = 3 * i - 2 \/ m = 3 * i - 1 \/ m = 3 * i
  BY <1>1, LineOf
<1>4. AllText = [m \in 1..3 * L |->
        <<(m + 2) \div 3, CASE m % 3 = 1 -> "head" [] m % 3 = 2 -> "wide" [] OTHER -> "nl">>]
  BY DEF AllText, L
<1>5. ASSUME NEW i \in 1..L
      PROVE  /\ AllText[3 * i - 2] = <<i, "head">>
             /\ AllText[3 * i - 1] = <<i, "wide">>
             /\ AllText[3 * i] = <<i, "nl">>
  <2> DEFINE Char(m) == <<(m + 2) \div 3, CASE m % 3 = 1 -> "head"
                                            [] m % 3 = 2 -> "wide" [] OTHER -> "nl">>
  <2>1. \A m \in 1..3 * L : AllText[m] = Char(m)
    BY <1>4
  <2>2. /\ Char(3 * i - 2) = <<i, "head">>
        /\ Char(3 * i - 1) = <<i, "wide">>
        /\ Char(3 * i) = <<i, "nl">>
    <3>1. Char(3 * i - 2) = <<i, "head">>
      BY <1>2
    <3>2. Char(3 * i - 1) = <<i, "wide">>
      BY <1>2
    <3>3. Char(3 * i) = <<i, "nl">>
      <4>1. (3 * i + 2) \div 3 = i /\ ~((3 * i) % 3 = 1) /\ ~((3 * i) % 3 = 2)
        BY <1>2
      <4> QED BY <4>1, Zenon
    <3> QED BY <3>1, <3>2, <3>3
  <2> HIDE DEF Char
  <2> QED BY <1>2, <2>1, <2>2
<1>6. ASSUME NEW m \in 1..3 * L
      PROVE  AllText[m] \in Letters
  <2>1. PICK i \in 1..L : m = 3 * i - 2 \/ m = 3 * i - 1 \/ m = 3 * i
    BY <1>3
  <2>2. \A c \in {"head", "wide", "nl"} : <<i, c>> \in Letters
    BY <1>1 DEF Letters
  <2> QED BY <1>5, <2>1, <2>2
<1>7. AllText \in [1..3 * L -> Letters] /\ 3 * L \in Nat
  BY <1>1, <1>4, <1>6
<1>8. AllText \in Seq(Letters) /\ Len(AllText) = 3 * L
  BY <1>7
<1> QED BY <1>5, <1>8 DEF L

LEMMA PieceAt ==
  ASSUME kinds \in Seq(Kinds), NEW x \in Chars, NEW y \in x..3 * Len(kinds)
  PROVE  /\ Piece(x, y) \in Seq(Letters) /\ Len(Piece(x, y)) = y - x
         /\ \A k \in 1..y - x : x + k \in 1..3 * Len(kinds) /\ Piece(x, y)[k] = AllText[x + k]
<1> DEFINE M == 3 * Len(kinds)
<1>1. M \in Nat
  BY KindsLen
<1>2. AllText \in Seq(Letters) /\ Len(AllText) = M
  BY TextAt
<1>3. x \in 0..M /\ y \in x..M
  BY DEF Chars
<1> HIDE DEF M
<1>4. x + 1 \in Int /\ y \in Int /\ \A i \in x + 1..y : i \in 1..M /\ AllText[i] \in Letters
  BY <1>1, <1>2, <1>3, ElementOfSeq
<1>5. /\ Piece(x, y) \in Seq(Letters)
      /\ Len(Piece(x, y)) = IF x + 1 <= y THEN y - (x + 1) + 1 ELSE 0
      /\ \A k \in 1..y - (x + 1) + 1 : Piece(x, y)[k] = AllText[(x + 1) + k - 1]
  BY <1>4, SubSeqProperties DEF Piece
<1>6. Len(Piece(x, y)) = y - x
  BY <1>1, <1>3, <1>5
<1>7. ASSUME NEW k \in 1..y - x
      PROVE  x + k \in 1..M /\ Piece(x, y)[k] = AllText[x + k]
  <2>1. k \in 1..y - (x + 1) + 1 /\ (x + 1) + k - 1 = x + k /\ x + k \in 1..M
    BY <1>1, <1>3
  <2> QED BY <1>5, <2>1
<1> QED BY <1>5, <1>6, <1>7 DEF M

LEMMA PiecesJoin ==
  ASSUME kinds \in Seq(Kinds), NEW x \in Chars, NEW y \in x..3 * Len(kinds),
         NEW z \in y..3 * Len(kinds)
  PROVE  Piece(x, y) \o Piece(y, z) = Piece(x, z)
<1> DEFINE M == 3 * Len(kinds)
<1>1. M \in Nat
  BY KindsLen
<1>2. AllText \in Seq(Letters) /\ Len(AllText) = M
  BY TextAt
<1>3. x \in 0..M /\ y \in x..M /\ z \in y..M
  BY DEF Chars
<1> HIDE DEF M
<1>4. x + 1 \in 1..Len(AllText) + 1 /\ y \in (x + 1) - 1..Len(AllText) /\ z \in y..Len(AllText)
  BY <1>1, <1>2, <1>3
<1> QED BY <1>2, <1>4, ConcatAdjacentSubSeq DEF Piece

LEMMA EndedAt ==
  ASSUME kinds \in Seq(Kinds), NEW x \in Chars
  PROVE  /\ Ended(x) \in 0..Len(kinds) /\ 3 * Ended(x) \in Chars
         /\ 3 * Ended(x) <= x /\ x < 3 * Ended(x) + 3
         /\ \A i \in Int : 3 * i <= x <=> i <= Ended(x)
<1>1. PICK i \in Nat, r \in 0..2 : x = 3 * i + r /\ x \div 3 = i
  BY Thirds DEF Chars
<1>2. Ended(x) = i
  BY <1>1 DEF Ended
<1>3. Len(kinds) \in Nat /\ x <= 3 * Len(kinds)
  BY KindsLen DEF Chars
<1> QED BY <1>1, <1>2, <1>3 DEF Chars

\* A part of a piece of the text is a piece of it.
LEMMA PieceOfPiece ==
  ASSUME kinds \in Seq(Kinds), NEW x \in Chars, NEW y \in x..3 * Len(kinds),
         NEW i \in 1..(y - x) + 1, NEW j \in i - 1..y - x
  PROVE  SubSeq(Piece(x, y), i, j) = Piece(x + i - 1, x + j)
<1> DEFINE M == 3 * Len(kinds)
           p == Piece(x, y)
<1>1. M \in Nat
  BY KindsLen
<1>2. x \in 0..M /\ y \in x..M
  BY DEF Chars
<1>3. /\ p \in Seq(Letters) /\ Len(p) = y - x
      /\ \A k \in 1..y - x : x + k \in 1..M /\ p[k] = AllText[x + k]
  BY PieceAt
<1>4. /\ x + i - 1 \in 0..M /\ x + j \in x + i - 1..M
      /\ Piece(x + i - 1, x + j) \in Seq(Letters)
      /\ Len(Piece(x + i - 1, x + j)) = (x + j) - (x + i - 1)
      /\ \A k \in 1..(x + j) - (x + i - 1) :
           Piece(x + i - 1, x + j)[k] = AllText[(x + i - 1) + k]
  <2>1. x + i - 1 \in 0..M /\ x + j \in x + i - 1..M
    BY <1>1, <1>2
  <2> QED BY <2>1, PieceAt DEF Chars
<1> HIDE DEF p, M
<1>5. ASSUME NEW k \in i..j PROVE k \in 1..y - x /\ p[k] \in Letters
  <2>1. k \in 1..y - x
    BY <1>1, <1>2
  <2> QED BY <1>3, <2>1, ElementOfSeq
<1>6. i \in Int /\ j \in Int
  BY <1>1, <1>2
<1>7. /\ SubSeq(p, i, j) \in Seq(Letters)
      /\ Len(SubSeq(p, i, j)) = IF i <= j THEN j - i + 1 ELSE 0
      /\ \A k \in 1..j - i + 1 : SubSeq(p, i, j)[k] = p[i + k - 1]
  BY <1>5, <1>6, SubSeqProperties
<1>8. /\ (IF i <= j THEN j - i + 1 ELSE 0) = (x + j) - (x + i - 1)
      /\ (x + j) - (x + i - 1) = j - i + 1
  BY <1>1, <1>2, <1>6
<1>9. ASSUME NEW k \in 1..j - i + 1
      PROVE  SubSeq(p, i, j)[k] = Piece(x + i - 1, x + j)[k]
  <2>1. i + k - 1 \in 1..y - x /\ x + (i + k - 1) = (x + i - 1) + k
    BY <1>1, <1>2, <1>6
  <2>2. p[i + k - 1] = AllText[x + (i + k - 1)]
    BY <1>3, <2>1
  <2>3. Piece(x + i - 1, x + j)[k] = AllText[(x + i - 1) + k]
    BY <1>4, <1>8
  <2>4. SubSeq(p, i, j)[k] = p[i + k - 1]
    BY <1>7
  <2> QED BY <2>1, <2>2, <2>3, <2>4
<1>10. SubSeq(p, i, j) = Piece(x + i - 1, x + j)
  BY <1>4, <1>7, <1>8, <1>9, SeqEqual
<1> QED BY <1>10 DEF p

\* A line of the text, without its newline
LEMMA PieceOfLine ==
  ASSUME kinds \in Seq(Kinds), NEW i \in 1..Len(kinds)
  PROVE  Piece(3 * (i - 1), 3 * i - 1) = Text(i)
<1> DEFINE x == 3 * (i - 1)
           y == 3 * i - 1
<1>1. i \in Int /\ Len(kinds) \in Nat
  BY KindsLen
<1>2. x \in Chars /\ y \in x..3 * Len(kinds) /\ y - x = 2 /\ x + 1 = 3 * i - 2 /\ x + 2 = 3 * i - 1
  BY <1>1 DEF Chars
<1> HIDE DEF x, y
<1>3. /\ Piece(x, y) \in Seq(Letters) /\ Len(Piece(x, y)) = 2
      /\ \A k \in 1..2 : Piece(x, y)[k] = AllText[x + k]
  BY <1>2, PieceAt
<1>4. Piece(x, y)[1] = <<i, "head">> /\ Piece(x, y)[2] = <<i, "wide">>
  BY <1>2, <1>3, TextAt
<1>5. Piece(x, y) = <<<<i, "head">>, <<i, "wide">>>>
  <2> DEFINE s == Piece(x, y)
  <2>1. s \in Seq(Letters) /\ Len(s) = 2
    BY <1>3
  <2> HIDE DEF s
  <2>2. s = <<s[1], s[2]>>
    BY <2>1
  <2> QED BY <1>4, <2>2 DEF s
<1> QED BY <1>5 DEF x, y, Text

\* Text from the start of a line splits into its complete lines and the rest.
LEMMA SplitText ==
  ASSUME kinds \in Seq(Kinds), NEW a \in 0..Len(kinds), NEW y \in 3 * a..3 * Len(kinds)
  PROVE  /\ Ended(y) - a \in Nat
         /\ Split(Piece(3 * a, y)) =
              [lines |-> [i \in 1..Ended(y) - a |-> Text(a + i)], rest |-> Rest(y)]
<1> DEFINE L == Len(kinds)
           m == Ended(y) - a
           text == Piece(3 * a, y)
           newlines == {k \in DOMAIN text : text[k][2] = "nl"}
           e == [i \in 1..m |-> 3 * i]
           ends == Picked([k \in DOMAIN text |-> k], newlines)
           from(i) == IF i = 1 THEN 1 ELSE ends[i - 1] + 1
<1>1. L \in Nat /\ a \in 0..L
  BY KindsLen
<1>2. y \in Int /\ y \in Chars /\ 3 * a \in Chars /\ 3 * a <= y /\ y <= 3 * L
  BY <1>1 DEF Chars
<1>3. /\ Ended(y) \in 0..L /\ 3 * Ended(y) <= y /\ y < 3 * Ended(y) + 3
  BY <1>2, EndedAt
<1>4. m \in Nat /\ 3 * (a + m) <= y /\ y < 3 * (a + m) + 3 /\ a + m = Ended(y)
  BY <1>1, <1>2, <1>3
<1> HIDE DEF m
<1>5. /\ text \in Seq(Letters) /\ Len(text) = y - 3 * a /\ DOMAIN text = 1..y - 3 * a
      /\ \A k \in 1..y - 3 * a : 3 * a + k \in 1..3 * L /\ text[k] = AllText[3 * a + k]
  <2>1. /\ text \in Seq(Letters) /\ Len(text) = y - 3 * a
        /\ \A k \in 1..y - 3 * a : 3 * a + k \in 1..3 * L /\ text[k] = AllText[3 * a + k]
    BY <1>2, PieceAt
  <2>2. DOMAIN text = 1..Len(text)
    BY <2>1, LenProperties
  <2> QED BY <2>1, <2>2
<1> HIDE DEF text
<1>6. ASSUME NEW i \in 1..m
      PROVE  /\ 3 * i \in DOMAIN text /\ e[i] = 3 * i
             /\ a + i \in 1..L /\ 3 * a + 3 * i = 3 * (a + i) /\ text[3 * i][2] = "nl"
  <2>1. /\ 3 * i \in 1..y - 3 * a /\ e[i] = 3 * i
        /\ a + i \in 1..L /\ 3 * a + 3 * i = 3 * (a + i)
    BY <1>1, <1>2, <1>3, <1>4
  <2>2. AllText[3 * (a + i)] = <<a + i, "nl">>
    BY <2>1, TextAt DEF L
  <2> QED BY <1>5, <2>1, <2>2
<1>7. ASSUME NEW k \in DOMAIN text, text[k][2] = "nl"
      PROVE  \E i \in 1..m : k = 3 * i
  <2>1. k \in 1..y - 3 * a /\ 3 * a + k \in 1..3 * L /\ text[k] = AllText[3 * a + k]
    BY <1>5
  <2>2. PICK j \in 1..L : 3 * a + k = 3 * j - 2 \/ 3 * a + k = 3 * j - 1 \/ 3 * a + k = 3 * j
    BY <1>1, <2>1, LineOf
  <2>3. 3 * a + k = 3 * j
    <3>1. /\ AllText[3 * j - 2] = <<j, "head">>
          /\ AllText[3 * j - 1] = <<j, "wide">>
      BY TextAt DEF L
    <3>2. AllText[3 * j - 2][2] # "nl" /\ AllText[3 * j - 1][2] # "nl"
      BY <3>1
    <3> QED BY <1>7, <2>1, <2>2, <3>2
  <2>4. j - a \in 1..m /\ k = 3 * (j - a)
    BY <1>1, <1>2, <1>4, <2>1, <2>3
  <2> QED BY <2>4
<1>8. newlines \in SUBSET Int /\ Lists(e, m, newlines)
  <2>1. newlines \in SUBSET Int
    BY <1>2, <1>1, <1>5
  <2>2. e \in [1..m -> newlines]
    BY <1>6
  <2>3. ASSUME NEW k \in 1..m, NEW l \in 1..m, k < l PROVE e[k] < e[l]
    BY <1>4, <2>3
  <2>4. \A i \in newlines : \E k \in 1..m : e[k] = i
    BY <1>6, <1>7
  <2> HIDE DEF e, newlines
  <2> QED BY <1>4, <2>1, <2>2, <2>3, <2>4 DEF Lists
<1>9. ends = [i \in 1..m |-> [k \in DOMAIN text |-> k][e[i]]]
  <2> DEFINE at == [k \in DOMAIN text |-> k]
  <2> HIDE DEF e, newlines, at
  <2>1. Picked(at, newlines) = [i \in 1..m |-> at[e[i]]]
    BY <1>8, PickedIs
  <2> QED BY <2>1 DEF at
<1>10. ends = [i \in 1..m |-> 3 * i]
  BY <1>6, <1>9
<1> HIDE DEF ends, e, newlines
<1>11. Len(ends) = m /\ DOMAIN ends = 1..m
  BY <1>4, <1>10
<1>12. ASSUME NEW i \in 1..m + 1 PROVE from(i) = 3 * (i - 1) + 1
  <2>1. i \in Int /\ 1 <= i /\ i <= m + 1
    BY <1>4
  <2>2. CASE i = 1
    BY <2>2
  <2>3. CASE i # 1
    <3>1. i - 1 \in 1..m
      BY <1>4, <2>1, <2>3
    <3>2. ends[i - 1] = 3 * (i - 1)
      BY <1>10, <3>1
    <3> QED BY <2>3, <3>2
  <2> QED BY <2>2, <2>3
<1>13. ASSUME NEW i \in 1..m
       PROVE  SubSeq(text, from(i), ends[i] - 1) = Text(a + i)
  <2>1. i \in 1..m + 1 /\ ends[i] = 3 * i
    BY <1>4, <1>10
  <2>2. /\ 3 * (i - 1) + 1 \in 1..(y - 3 * a) + 1
        /\ 3 * i - 1 \in (3 * (i - 1) + 1) - 1..y - 3 * a
        /\ 3 * a + (3 * (i - 1) + 1) - 1 = 3 * ((a + i) - 1)
        /\ 3 * a + (3 * i - 1) = 3 * (a + i) - 1
    BY <1>1, <1>2, <1>4
  <2>3. SubSeq(text, 3 * (i - 1) + 1, 3 * i - 1) = Piece(3 * ((a + i) - 1), 3 * (a + i) - 1)
    BY <1>2, <2>2, PieceOfPiece DEF text
  <2>4. a + i \in 1..Len(kinds)
    BY <1>6 DEF L
  <2>5. Piece(3 * ((a + i) - 1), 3 * (a + i) - 1) = Text(a + i)
    BY <2>4, PieceOfLine
  <2>6. from(i) = 3 * (i - 1) + 1
    BY <2>1, <1>12
  <2> HIDE DEF from
  <2> QED BY <2>1, <2>3, <2>5, <2>6
<1>14. SubSeq(text, from(m + 1), Len(text)) = Rest(y)
  <2>1. m + 1 \in 1..m + 1
    BY <1>4
  <2>2. from(m + 1) = 3 * ((m + 1) - 1) + 1
    BY <2>1, <1>12
  <2>3. /\ 3 * m + 1 \in 1..(y - 3 * a) + 1
        /\ y - 3 * a \in (3 * m + 1) - 1..y - 3 * a
        /\ 3 * a + (3 * m + 1) - 1 = 3 * (a + m)
        /\ 3 * a + (y - 3 * a) = y /\ (m + 1) - 1 = m
    BY <1>1, <1>2, <1>4
  <2>4. SubSeq(text, 3 * m + 1, y - 3 * a) = Piece(3 * (a + m), y)
    BY <1>2, <2>3, PieceOfPiece DEF text
  <2> HIDE DEF from
  <2> QED BY <1>4, <1>5, <2>2, <2>3, <2>4 DEF Rest
<1>15. Split(text) =
         [lines |-> [i \in DOMAIN ends |-> SubSeq(text, from(i), ends[i] - 1)],
          rest |-> SubSeq(text, from(Len(ends) + 1), Len(text))]
  BY DEF Split, ends, newlines
<1> HIDE DEF from
<1>16. Split(text) = [lines |-> [i \in 1..m |-> Text(a + i)], rest |-> Rest(y)]
  BY <1>11, <1>13, <1>14, <1>15
<1> QED BY <1>4, <1>16 DEF m, text

-----------------------------------------------------------------------------
(* What is pushed *)

\* An open stream passes on every event pushed, and ends at push(null).
LEMMA PushOpen ==
  ASSUME NEW S, EOF \notin S, NEW E \in Seq(S), NEW Q \in {<<>>, <<EOF>>}
  PROVE  Push("open", E \o Q) = [out |-> E, parsed |-> IF Q = <<>> THEN "open" ELSE "eof"]
<1> DEFINE p == E \o Q
           late(k) == "open" = "eof" \/ \E j \in 1..k - 1 : p[j] = EOF
           early == {k \in DOMAIN p : ~late(k) /\ p[k] # EOF}
           n == Len(E)
           R == S \cup {EOF}
<1>1. n \in Nat /\ \A k \in 1..n : E[k] \in S /\ E[k] # EOF
  BY LenProperties, ElementOfSeq
<1>2. E \in Seq(R) /\ Q \in Seq(R)
  <2>1. E \in Seq(R)
    BY SeqMonotonic
  <2>2. <<>> \in Seq(R) /\ EOF \in R
    BY EmptySeq
  <2>3. <<EOF>> \in Seq(R)
    BY <2>2
  <2> QED BY <2>1, <2>2, <2>3
<1>3. Len(Q) = IF Q = <<>> THEN 0 ELSE 1
  OBVIOUS
<1>4. /\ p \in Seq(R) /\ Len(p) = n + Len(Q)
      /\ \A i \in 1..n + Len(Q) : p[i] = IF i <= n THEN E[i] ELSE Q[i - n]
  BY <1>2, ConcatProperties
<1>5. DOMAIN p = 1..n + Len(Q)
  BY <1>4, LenProperties
<1> HIDE DEF p, n
<1>6. \A k \in 1..n : k \in DOMAIN p /\ p[k] = E[k] /\ p[k] # EOF
  BY <1>1, <1>3, <1>4, <1>5
<1>7. ASSUME NEW k \in DOMAIN p, ~(k \in 1..n)
      PROVE  k = n + 1 /\ Q # <<>> /\ p[k] = EOF
  <2>1. k = n + 1 /\ Q # <<>> /\ k - n = 1 /\ ~(k <= n)
    BY <1>1, <1>3, <1>5, <1>7
  <2>2. p[k] = Q[1]
    BY <1>4, <1>5, <2>1
  <2> QED BY <2>1, <2>2
<1>8. ASSUME NEW k \in DOMAIN p PROVE ~late(k)
  <2>1. \A j \in 1..k - 1 : j \in 1..n
    BY <1>1, <1>3, <1>5
  <2> QED BY <1>6, <2>1
<1>9. early = 1..n
  BY <1>6, <1>7, <1>8
<1>10. Cardinality(early) = n
  <2> HIDE DEF early
  <2>1. Cardinality(1..n) = IF 1 > n THEN 0 ELSE n - 1 + 1
    BY <1>1, FS_Interval
  <2>2. (IF 1 > n THEN 0 ELSE n - 1 + 1) = n
    BY <1>1
  <2> QED BY <1>9, <2>1, <2>2
<1>11. SubSeq(p, 1, n) = E
  <2>1. \A i \in 1..n : p[i] \in S /\ 1 + i - 1 = i
    BY <1>1, <1>6
  <2>2. /\ SubSeq(p, 1, n) \in Seq(S)
        /\ Len(SubSeq(p, 1, n)) = IF 1 <= n THEN n - 1 + 1 ELSE 0
        /\ \A i \in 1..n - 1 + 1 : SubSeq(p, 1, n)[i] = p[1 + i - 1]
    BY <1>1, <2>1, SubSeqProperties
  <2>3. (IF 1 <= n THEN n - 1 + 1 ELSE 0) = n /\ n - 1 + 1 = n
    BY <1>1
  <2>4. \A i \in 1..n : SubSeq(p, 1, n)[i] = E[i]
    BY <1>6, <2>1, <2>2, <2>3
  <2> QED BY <2>2, <2>3, <2>4, SeqEqual DEF n
<1>12. EOF \in ToSet(p) <=> Q # <<>>
  <2>1. ASSUME Q # <<>> PROVE n + 1 \in DOMAIN p /\ ~(n + 1 \in 1..n)
    BY <1>1, <1>3, <1>5, <2>1
  <2>2. ASSUME NEW k \in DOMAIN p, p[k] = EOF PROVE Q # <<>>
    BY <1>6, <1>7, <2>2
  <2> QED BY <1>7, <2>1, <2>2 DEF ToSet
<1>13. ~\E k \in DOMAIN p : late(k) /\ p[k] # EOF
  BY <1>8
<1>14. Push("open", p) =
        [out |-> SubSeq(p, 1, Cardinality(early)),
         parsed |-> IF \E k \in DOMAIN p : late(k) /\ p[k] # EOF THEN "failed"
                    ELSE IF EOF \in ToSet(p) THEN "eof" ELSE "open"]
  BY DEF Push
<1> HIDE DEF early, late
<1>15. Push("open", p) = [out |-> E, parsed |-> IF Q = <<>> THEN "open" ELSE "eof"]
  BY <1>10, <1>11, <1>12, <1>13, <1>14
<1> QED BY <1>15 DEF p

\* A stream that has ended is destroyed by an event.
LEMMA PushEof ==
  ASSUME NEW p
  PROVE  /\ Push("eof", p).out = <<>>
         /\ Push("eof", p).parsed =
              IF \E k \in DOMAIN p : p[k] # EOF THEN "failed" ELSE "eof"
<1> DEFINE late(k) == "eof" = "eof" \/ \E j \in 1..k - 1 : p[j] = EOF
           n == Cardinality({k \in DOMAIN p : ~late(k) /\ p[k] # EOF})
           broken == \E k \in DOMAIN p : late(k) /\ p[k] # EOF
<1>1. Push("eof", p) =
        [out |-> IF "eof" = "open" THEN SubSeq(p, 1, n) ELSE <<>>,
         parsed |-> IF "eof" \in {"failed", "closed"} THEN "eof"
                    ELSE IF broken THEN "failed"
                    ELSE IF EOF \in ToSet(p) THEN "eof" ELSE "eof"]
  BY Zenon DEF Push
<1>2. broken <=> \E k \in DOMAIN p : p[k] # EOF
  OBVIOUS
<1> HIDE DEF broken, n, late
<1>3. broken \in BOOLEAN
  BY DEF broken
<1>4. CASE broken
  BY <1>1, <1>2, <1>4
<1>5. CASE ~broken
  BY <1>1, <1>2, <1>5
<1> QED BY <1>4, <1>5

\* A stream that is destroyed stays as it is.
LEMMA PushClosed ==
  ASSUME NEW status \in {"failed", "closed"}, NEW p
  PROVE  Push(status, p).out = <<>> /\ Push(status, p).parsed = status
<1> DEFINE late(k) == status = "eof" \/ \E j \in 1..k - 1 : p[j] = EOF
           n == Cardinality({k \in DOMAIN p : ~late(k) /\ p[k] # EOF})
           broken == \E k \in DOMAIN p : late(k) /\ p[k] # EOF
<1>1. Push(status, p) =
        [out |-> IF status = "open" THEN SubSeq(p, 1, n) ELSE <<>>,
         parsed |-> IF status \in {"failed", "closed"} THEN status
                    ELSE IF broken THEN "failed"
                    ELSE IF EOF \in ToSet(p) THEN "eof" ELSE status]
  BY Zenon DEF Push
<1> HIDE DEF broken, n, late
<1> QED BY <1>1

-----------------------------------------------------------------------------
(* The events due, by lines: those of the first b lines are the first of    *)
(* them, and all of them when a [DONE] is among these lines or the body has *)
(* no more lines.                                                           *)

DoneBy(b) == \E i \in DOMAIN kinds : kinds[i] = "done" /\ i <= b
HeardBy(b) == Cardinality({i \in Full : i <= b})
LateIn(a, b) == DoneBy(a) /\ \E j \in DOMAIN kinds : kinds[j] = "event" /\ a < j /\ j <= b
Lines == {Text(i) : i \in DOMAIN kinds}

LEMMA FullIs ==
  ASSUME kinds \in Seq(Kinds), size \in 0..4 * Len(kinds)
  PROVE  /\ Full \in SUBSET (1..Len(kinds)) /\ Full \in SUBSET Int
         /\ \A i \in Full : kinds[i] = "event"
         /\ \A i \in Full, j \in DOMAIN kinds : kinds[j] = "done" \/ size < 4 * j => i < j
         /\ \A i \in DOMAIN kinds :
              /\ kinds[i] = "event"
              /\ \A j \in DOMAIN kinds : kinds[j] = "done" \/ size < 4 * j => i < j
              => i \in Full
<1>1. DOMAIN kinds = 1..Len(kinds) /\ Len(kinds) \in Nat
  BY KindsLen
<1> QED BY <1>1 DEF Full

LEMMA LinesNotEOF ==
  EOF \notin Lines
<1>1. ASSUME NEW i PROVE Text(i) # EOF
  BY DEF Text, EOF
<1> QED BY <1>1 DEF Lines

\* The list of the due lines
LEMMA DueListed ==
  ASSUME kinds \in Seq(Kinds), size \in 0..4 * Len(kinds)
  PROVE  \E n, e : /\ Lists(e, n, Full) /\ n \in Nat
                   /\ Due = [k \in 1..n |-> Text(e[k])] /\ Due \in Seq(Lines) /\ Len(Due) = n
<1>1. DOMAIN kinds = 1..Len(kinds) /\ Len(kinds) \in Nat
  BY KindsLen
<1>2. PICK n, e : Lists(e, n, Full)
  BY <1>1, FullIs, Listed
<1>3. n \in Nat /\ \A k \in 1..n : e[k] \in DOMAIN kinds
  BY <1>1, <1>2, FullIs DEF Lists
<1> DEFINE texts == [i \in DOMAIN kinds |-> Text(i)]
<1>4. Due = [k \in 1..n |-> texts[e[k]]]
  <2> HIDE DEF texts
  <2>1. Picked(texts, Full) = [k \in 1..n |-> texts[e[k]]]
    BY <1>2, FullIs, PickedIs
  <2> QED BY <2>1 DEF Due, texts
<1>5. Due = [k \in 1..n |-> Text(e[k])]
  BY <1>3, <1>4
<1>6. Due \in [1..n -> Lines]
  BY <1>3, <1>5 DEF Lines
<1>7. Due \in Seq(Lines) /\ Len(Due) = n
  BY <1>3, <1>6, FunSeq
<1> QED BY <1>2, <1>3, <1>5, <1>7

LEMMA HeardIs ==
  ASSUME kinds \in Seq(Kinds), size \in 0..4 * Len(kinds), NEW a \in Int
  PROVE  /\ HeardBy(a) \in 0..Len(Due)
         /\ DoneBy(a) \/ size < 4 * (a + 1) => HeardBy(a) = Len(Due)
         /\ a <= 0 => HeardBy(a) = 0
<1>1. PICK n, e : Lists(e, n, Full) /\ n \in Nat /\ Len(Due) = n
  BY DueListed
<1>2. HeardBy(a) \in 0..n /\ \A k \in 1..n : e[k] <= a <=> k <= HeardBy(a)
  BY <1>1, FullIs, UpTo DEF HeardBy, Reaches
<1>3. ASSUME DoneBy(a) \/ size < 4 * (a + 1) PROVE HeardBy(a) = n
  <2>1. ASSUME NEW i \in Full PROVE i <= a
    <3>1. i \in Int /\ i \in DOMAIN kinds /\ size \in Int
      BY KindsLen, FullIs
    <3>2. CASE DoneBy(a)
      <4>1. PICK j \in DOMAIN kinds : kinds[j] = "done" /\ j <= a
        BY <3>2 DEF DoneBy
      <4>2. i < j /\ j \in Int
        BY <4>1, FullIs, KindsLen
      <4> QED BY <3>1, <4>1, <4>2
    <3>3. CASE size < 4 * (a + 1)
      <4>1. ~(size < 4 * i)
        <5>1. size < 4 * i => i < i
          BY <3>1, FullIs
        <5> QED BY <3>1, <5>1
      <4> QED BY <3>1, <3>3, <4>1
    <3> QED BY <1>3, <3>2, <3>3
  <2>2. {i \in Full : i <= a} = Full
    BY <2>1
  <2>3. Cardinality(Full) = n
    BY <1>1, FullIs, PickedIs
  <2> QED BY <2>2, <2>3 DEF HeardBy
<1>4. ASSUME a <= 0 PROVE HeardBy(a) = 0
  <2>1. {i \in Full : i <= a} = {}
    <3>1. \A i \in Full : i \in Int /\ 1 <= i
      BY FullIs
    <3> QED BY <1>4, <3>1
  <2> QED BY <2>1, FS_EmptySet DEF HeardBy
<1> QED BY <1>1, <1>2, <1>3, <1>4


\* The part of the events due that is heard in the lines between a and b
DueIn(a, b) == SubSeq(Due, HeardBy(a) + 1, HeardBy(b))

\* What complete lines push while no line before them was a [DONE]
LEMMA PushesText ==
  ASSUME kinds \in Seq(Kinds), size \in 0..4 * Len(kinds),
         NEW a \in 0..Len(kinds), NEW b \in a..Len(kinds), 4 * b <= size, ~DoneBy(a)
  PROVE  /\ DueIn(a, b) \in Seq(Lines) /\ HeardBy(b) \in HeardBy(a)..Len(Due)
         /\ Pushes([i \in 1..b - a |-> Text(a + i)]) =
              DueIn(a, b) \o (IF DoneBy(b) THEN <<EOF>> ELSE <<>>)
<1> DEFINE L == Len(kinds)
           m == b - a
           lines == [i \in 1..m |-> Text(a + i)]
           ends == {i \in DOMAIN lines : Kind(lines[i]) = "done"}
           heard == {i \in DOMAIN lines : Kind(lines[i]) = "event" /\ \A j \in ends : i < j}
           U == {i \in 1..m : a + i \in Full}
<1>1. L \in Nat /\ DOMAIN kinds = 1..L /\ a \in 0..L /\ b \in a..L /\ size \in Int
  BY KindsLen
<1>2. m \in Nat /\ a + m = b
  BY <1>1
<1> HIDE DEF L, m
<1>3. ASSUME NEW i \in 1..m
      PROVE  /\ i \in DOMAIN lines /\ Kind(lines[i]) = kinds[a + i] /\ lines[i] = Text(a + i)
             /\ a + i \in 1..L /\ i \in Int
  <2>1. a + i \in 1..L /\ i \in Int /\ lines[i] = Text(a + i)
    BY <1>1, <1>2
  <2>2. ASSUME NEW j PROVE Kind(Text(j)) = kinds[j]
    BY DEF Kind, Text
  <2> QED BY <2>1, <2>2
<1>4. DOMAIN lines = 1..m
  OBVIOUS
<1>5. ends = {i \in 1..m : kinds[a + i] = "done"}
  BY <1>3, <1>4
<1>6. heard = {i \in 1..m : kinds[a + i] = "event" /\ \A j \in ends : i < j}
  BY <1>3, <1>4
<1> HIDE DEF ends, heard, lines
<1>7. ends = {} <=> ~DoneBy(b)
  <2>1. ASSUME NEW i \in ends PROVE DoneBy(b)
    <3>1. a + i \in DOMAIN kinds /\ kinds[a + i] = "done" /\ i \in 1..m
      BY <1>1, <1>3, <1>5
    <3>2. a + i <= b
      BY <1>1, <1>2, <3>1
    <3> QED BY <3>1, <3>2 DEF DoneBy
  <2>2. ASSUME DoneBy(b) PROVE ends # {}
    <3>1. PICK j \in DOMAIN kinds : kinds[j] = "done" /\ j <= b
      BY <2>2 DEF DoneBy
    <3>2. ~(j <= a)
      BY <3>1 DEF DoneBy
    <3>3. j - a \in 1..m /\ a + (j - a) = j
      BY <1>1, <1>2, <3>1, <3>2
    <3> QED BY <1>5, <3>1, <3>3
  <2> QED BY <2>1, <2>2
<1>8. heard = U
  <2>1. ASSUME NEW i \in heard PROVE i \in U
    <3>1. i \in 1..m /\ a + i \in DOMAIN kinds /\ kinds[a + i] = "event"
      BY <1>1, <1>3, <1>6
    <3>2. ASSUME NEW j \in DOMAIN kinds, kinds[j] = "done" \/ size < 4 * j PROVE a + i < j
      <4>1. CASE b < j
        BY <1>1, <1>2, <3>1, <4>1
      <4>2. CASE j <= b
        <5>1. j \in Int /\ kinds[j] = "done"
          BY <1>1, <3>2, <4>2
        <5>2. ~(j <= a)
          BY <5>1 DEF DoneBy
        <5>3. j - a \in 1..m /\ a + (j - a) = j
          BY <1>1, <1>2, <4>2, <5>1, <5>2
        <5>4. i < j - a
          BY <1>5, <1>6, <5>1, <5>3
        <5> QED BY <1>1, <1>2, <3>1, <5>1, <5>4
      <4> QED BY <1>1, <4>1, <4>2
    <3>3. a + i \in Full
      BY <3>1, <3>2, FullIs
    <3> QED BY <3>1, <3>3
  <2>2. ASSUME NEW i \in U PROVE i \in heard
    <3>1. i \in 1..m /\ a + i \in Full
      OBVIOUS
    <3>2. kinds[a + i] = "event"
      BY <3>1, FullIs
    <3>3. ASSUME NEW j \in ends PROVE i < j
      <4>1. j \in 1..m /\ kinds[a + j] = "done" /\ a + j \in DOMAIN kinds
        BY <1>1, <1>3, <1>5
      <4>2. a + i < a + j
        BY <3>1, <4>1, FullIs
      <4> QED BY <1>1, <1>2, <3>1, <4>1, <4>2
    <3> QED BY <1>6, <3>1, <3>2, <3>3
  <2> QED BY <2>1, <2>2
<1>9. PICK n, e : /\ Lists(e, n, Full) /\ n \in Nat
                  /\ Due = [k \in 1..n |-> Text(e[k])] /\ Due \in Seq(Lines) /\ Len(Due) = n
  BY DueListed
<1> DEFINE c == HeardBy(a)
           d == HeardBy(b)
<1>10. c \in 0..n /\ d \in c..n
       /\ \E f : Lists(f, d - c, U) /\ \A k \in 1..d - c : f[k] = e[c + k] - a
  <2>1. Reaches(e, n, a, c) /\ Reaches(e, n, b, d)
    BY <1>1, <1>9, FullIs, UpTo DEF HeardBy
  <2>2. Full \in SUBSET Int /\ a \in Int /\ b \in Int /\ a <= b
    BY <1>1, FullIs
  <2>3. Between(U, Full, a, b)
    BY DEF Between, m
  <2> HIDE DEF c, d, U
  <2>4. c \in 0..n
    BY <2>1 DEF Reaches
  <2> QED BY <1>9, <2>1, <2>2, <2>3, <2>4, ListsPart
<1> HIDE DEF c, d
<1>f. PICK f : Lists(f, d - c, U) /\ \A k \in 1..d - c : f[k] = e[c + k] - a
  BY <1>10
<1>11. U \in SUBSET Int
  BY <1>3
<1> HIDE DEF U
<1>12. Picked(lines, heard) = [k \in 1..d - c |-> lines[f[k]]]
  BY <1>8, <1>f, <1>11, PickedIs
<1>13. ASSUME NEW k \in 1..d - c
       PROVE  /\ c + k \in 1..n /\ c + k \in Int /\ lines[f[k]] = Due[c + k]
  <2>1. c + k \in 1..n /\ c + k \in Int
    BY <1>9, <1>10
  <2>2. f[k] \in 1..m /\ f[k] = e[c + k] - a
    <3>1. f[k] \in U
      BY <1>f DEF Lists
    <3> QED BY <1>f, <3>1 DEF U
  <2>3. e[c + k] \in Int
    BY <1>9, <2>1, FullIs DEF Lists
  <2>4. a + f[k] = e[c + k]
    BY <1>1, <2>2, <2>3
  <2>5. lines[f[k]] = Text(e[c + k])
    BY <1>3, <2>2, <2>4
  <2> QED BY <1>9, <2>1, <2>5
<1>14. Picked(lines, heard) = DueIn(a, b) /\ DueIn(a, b) \in Seq(Lines)
  <2> DEFINE p == [k \in 1..d - c |-> lines[f[k]]]
             q == SubSeq(Due, c + 1, d)
  <2>1. d - c \in Nat /\ c + 1 \in Int /\ d \in Int
    BY <1>9, <1>10
  <2>2. \A i \in c + 1..d : Due[i] \in Lines
    <3>1. \A i \in c + 1..d : i \in 1..Len(Due)
      BY <1>9, <1>10
    <3> QED BY <1>9, <3>1, ElementOfSeq
  <2>3. /\ q \in Seq(Lines)
        /\ Len(q) = IF c + 1 <= d THEN d - (c + 1) + 1 ELSE 0
        /\ \A i \in 1..d - (c + 1) + 1 : q[i] = Due[(c + 1) + i - 1]
    BY <2>1, <2>2, SubSeqProperties
  <2>4. /\ (IF c + 1 <= d THEN d - (c + 1) + 1 ELSE 0) = d - c
        /\ d - (c + 1) + 1 = d - c
    BY <1>9, <1>10
  <2>5. ASSUME NEW k \in 1..d - c PROVE p[k] = q[k] /\ p[k] \in Lines
    <3>1. (c + 1) + k - 1 = c + k /\ c + k \in 1..Len(Due)
      BY <1>9, <1>10
    <3>2. q[k] = Due[c + k] /\ Due[c + k] \in Lines
      BY <1>9, <2>3, <2>4, <3>1, ElementOfSeq
    <3> QED BY <1>13, <3>2
  <2>6. p \in [1..d - c -> Lines]
    BY <2>5
  <2> HIDE DEF p, q
  <2>7. p \in Seq(Lines) /\ Len(p) = d - c
    BY <2>1, <2>6, FunSeq
  <2>8. p = q
    BY <2>3, <2>4, <2>5, <2>7, SeqEqual
  <2> QED BY <1>12, <2>3, <2>8 DEF p, q, c, d, DueIn
<1>15. Pushes(lines) = Picked(lines, heard) \o (IF ends = {} THEN <<>> ELSE <<EOF>>)
  BY DEF Pushes, heard, ends
<1>16. Pushes(lines) = DueIn(a, b) \o (IF DoneBy(b) THEN <<EOF>> ELSE <<>>)
  BY <1>7, <1>14, <1>15
<1> QED BY <1>9, <1>10, <1>14, <1>16 DEF c, d, lines, m

\* Lines after a [DONE] push an event only if an event is among them.
LEMMA PushesLate ==
  ASSUME kinds \in Seq(Kinds), NEW a \in 0..Len(kinds), NEW b \in a..Len(kinds), DoneBy(a),
         NEW k \in DOMAIN Pushes([i \in 1..b - a |-> Text(a + i)]),
         Pushes([i \in 1..b - a |-> Text(a + i)])[k] # EOF
  PROVE  LateIn(a, b)
<1> DEFINE m == b - a
           lines == [i \in 1..m |-> Text(a + i)]
           ends == {i \in DOMAIN lines : Kind(lines[i]) = "done"}
           heard == {i \in DOMAIN lines : Kind(lines[i]) = "event" /\ \A j \in ends : i < j}
           last == IF ends = {} THEN <<>> ELSE <<EOF>>
<1>1. Len(kinds) \in Nat /\ DOMAIN kinds = 1..Len(kinds)
  BY KindsLen
<1>2. Pushes(lines) = Picked(lines, heard) \o last
  BY DEF Pushes
<1>3. heard # {}
  <2> SUFFICES ASSUME heard = {} PROVE FALSE
    OBVIOUS
  <2> HIDE DEF lines, heard, last
  <2>1. Picked(lines, heard) = [i \in 1..0 |-> lines[CHOOSE j \in heard : Cardinality({l \in heard : l < j}) = i - 1]]
    BY FS_EmptySet DEF Picked
  <2>2. Picked(lines, heard) = <<>>
    BY <2>1
  <2>3. <<>> \o last = last
    BY DEF last
  <2>4. k \in DOMAIN last /\ last[k] # EOF
    BY <1>2, <2>2, <2>3 DEF lines, m
  <2> QED BY <2>4 DEF last
<1>4. PICK i \in 1..m : Kind(lines[i]) = "event"
  BY <1>3
<1>5. lines[i] = Text(a + i) /\ a + i \in DOMAIN kinds /\ a < a + i /\ a + i <= b
  BY <1>1
<1>6. Kind(Text(a + i)) = kinds[a + i]
  BY DEF Kind, Text
<1> HIDE DEF lines
<1> QED BY <1>4, <1>5, <1>6 DEF LateIn


-----------------------------------------------------------------------------
(* The 'data' handler *)

\* The states the handler goes through: one for each number of chunks handled
LEMMA OnAllIs ==
  ASSUME NEW chunks, Len(chunks) \in Nat
  PROVE  \E after :
           /\ after[0] = [buffer |-> buffer, parsed |-> parsed, out |-> <<>>]
           /\ \A n \in 1..Len(chunks) : after[n] = OnData(after[n - 1], chunks[n])
           /\ OnAll(chunks) = after[Len(chunks)]
<1> DEFINE N == Len(chunks)
           start == [buffer |-> buffer, parsed |-> parsed, out |-> <<>>]
           Is(f, m) == f = [n \in 0..m |-> IF n = 0 THEN start ELSE OnData(f[n - 1], chunks[n])]
           T == {m \in Nat : \E f : Is(f, m)}
           after == CHOOSE f : Is(f, N)
<1>1. 0 \in T
  <2>1. Is([n \in 0..0 |-> start], 0)
    <3>1. \A n \in 0..0 : n = 0
      OBVIOUS
    <3> QED BY <3>1
  <2> QED BY <2>1
<1>2. ASSUME NEW m \in Nat, m \in T PROVE m + 1 \in T
  <2>1. PICK f : Is(f, m)
    BY <1>2
  <2> DEFINE g == [n \in 0..m + 1 |-> IF n <= m THEN f[n] ELSE OnData(f[m], chunks[m + 1])]
  <2>2. ASSUME NEW n \in 0..m + 1
        PROVE  g[n] = IF n = 0 THEN start ELSE OnData(g[n - 1], chunks[n])
    <3>1. CASE n = 0
      <4>1. 0 \in 0..m /\ 0 \in 0..m + 1 /\ 0 <= m
        OBVIOUS
      <4>2. g[0] = f[0]
        BY <4>1
      <4>3. f[0] = start
        BY <2>1, <4>1
      <4> QED BY <3>1, <4>2, <4>3
    <3>2. CASE n # 0 /\ n <= m
      <4>1. n \in 0..m /\ n - 1 \in 0..m + 1 /\ n - 1 <= m
        BY <3>2
      <4>2. g[n] = f[n] /\ g[n - 1] = f[n - 1]
        BY <3>2, <4>1
      <4>3. f[n] = OnData(f[n - 1], chunks[n])
        BY <2>1, <3>2, <4>1
      <4> HIDE DEF g
      <4> QED BY <3>2, <4>2, <4>3
    <3>3. CASE ~(n <= m)
      <4>1. n = m + 1 /\ n - 1 = m /\ m \in 0..m + 1 /\ m <= m /\ n # 0
        BY <3>3
      <4>2. g[n] = OnData(f[m], chunks[m + 1]) /\ g[m] = f[m]
        BY <3>3, <4>1
      <4> HIDE DEF g
      <4> QED BY <4>1, <4>2
    <3> QED BY <3>1, <3>2, <3>3
  <2>3. g = [n \in 0..m + 1 |-> g[n]]
    OBVIOUS
  <2> HIDE DEF g
  <2>4. Is(g, m + 1)
    BY <2>2, <2>3
  <2> QED BY <2>4
<1>3. N \in T
  <2> HIDE DEF T
  <2>1. Nat \subseteq T
    BY <1>1, <1>2, Induction
  <2> QED BY <2>1
<1>4. Is(after, N)
  <2>1. \E f : Is(f, N)
    BY <1>3
  <2> HIDE DEF Is
  <2> QED BY <2>1
<1>5. OnAll(chunks) = after[N]
  BY Zenon DEF OnAll
<1> HIDE DEF after
<1>6. 0 \in 0..N /\ \A n \in 1..N : n \in 0..N /\ n # 0
  OBVIOUS
<1>7. after[0] = start
  BY <1>4, <1>6
<1>8. \A n \in 1..N : after[n] = OnData(after[n - 1], chunks[n])
  BY <1>4, <1>6
<1> QED BY <1>5, <1>7, <1>8

\* The handler with the text up to x handled since x0: what it keeps is the
\* text since the last newline, and what was pushed are the events due.
Handled(st, x0, x) ==
  /\ st.buffer = Rest(x)
  /\ st.parsed = "open" => ~DoneBy(Ended(x))
  /\ st.parsed = "eof" => DoneBy(Ended(x))
  /\ st.parsed \in {"open", "eof"} => st.out = DueIn(Ended(x0), Ended(x))

LEMMA DueInJoin ==
  ASSUME kinds \in Seq(Kinds), size \in 0..4 * Len(kinds), NEW a \in Int, NEW b \in Int, NEW c \in Int,
         HeardBy(a) <= HeardBy(b), HeardBy(b) <= HeardBy(c)
  PROVE  /\ DueIn(a, b) \in Seq(Lines)
         /\ DueIn(a, b) \o DueIn(b, c) = DueIn(a, c)
         /\ HeardBy(b) = HeardBy(c) => DueIn(a, c) = DueIn(a, b)
<1>1. Due \in Seq(Lines) /\ Len(Due) \in Nat
  BY DueListed
<1>2. HeardBy(a) \in 0..Len(Due) /\ HeardBy(b) \in 0..Len(Due) /\ HeardBy(c) \in 0..Len(Due)
  BY HeardIs
<1>3. /\ HeardBy(a) + 1 \in 1..Len(Due) + 1
      /\ HeardBy(b) \in (HeardBy(a) + 1) - 1..Len(Due)
      /\ HeardBy(c) \in HeardBy(b)..Len(Due)
  BY <1>1, <1>2
<1>4. DueIn(a, b) \o DueIn(b, c) = DueIn(a, c)
  BY <1>1, <1>3, ConcatAdjacentSubSeq DEF DueIn
<1>5. DueIn(a, b) \in Seq(Lines)
  <2>1. HeardBy(a) + 1 \in Int /\ HeardBy(b) \in Int
    BY <1>1, <1>2
  <2>2. \A i \in HeardBy(a) + 1..HeardBy(b) : Due[i] \in Lines
    <3>1. \A i \in HeardBy(a) + 1..HeardBy(b) : i \in 1..Len(Due)
      BY <1>1, <1>2
    <3> QED BY <1>1, <3>1, ElementOfSeq
  <2> QED BY <2>1, <2>2, SubSeqProperties DEF DueIn
<1> QED BY <1>4, <1>5 DEF DueIn

LEMMA HeardGrows ==
  ASSUME kinds \in Seq(Kinds), size \in 0..4 * Len(kinds), NEW a \in Int, NEW b \in Int, a <= b
  PROVE  HeardBy(a) <= HeardBy(b) /\ (DoneBy(a) => DoneBy(b) /\ HeardBy(a) = HeardBy(b))
<1>1. PICK n, e : Lists(e, n, Full) /\ n \in Nat
  BY DueListed
<1>2. Reaches(e, n, a, HeardBy(a)) /\ Reaches(e, n, b, HeardBy(b))
  BY <1>1, FullIs, UpTo DEF HeardBy
<1> DEFINE U == {i \in 1..b - a : a + i \in Full}
<1>3. Between(U, Full, a, b)
  BY DEF Between
<1>4. HeardBy(b) \in HeardBy(a)..n
  <2> HIDE DEF U
  <2> QED BY <1>1, <1>2, <1>3, FullIs, ListsPart
<1>5. HeardBy(a) \in Int
  BY <1>1, <1>2 DEF Reaches
<1>6. ASSUME DoneBy(a) PROVE DoneBy(b) /\ HeardBy(a) = HeardBy(b)
  <2>1. DoneBy(b)
    <3>1. \A i \in DOMAIN kinds : i \in Int
      BY KindsLen
    <3>2. \A i \in DOMAIN kinds : i <= a => i <= b
      BY <3>1
    <3> QED BY <1>6, <3>2 DEF DoneBy
  <2>2. HeardBy(a) = Len(Due) /\ HeardBy(b) = Len(Due)
    BY <1>6, <2>1, HeardIs
  <2> QED BY <2>1, <2>2
<1> QED BY <1>1, <1>4, <1>5, <1>6

LEMMA EndedGrows ==
  ASSUME kinds \in Seq(Kinds), NEW x \in Chars, NEW y \in x..3 * Len(kinds)
  PROVE  /\ y \in Chars /\ Ended(x) \in 0..Len(kinds) /\ Ended(y) \in Ended(x)..Len(kinds)
         /\ Ended(x) \in Int /\ Ended(y) \in Int
         /\ 3 * Ended(x) \in Chars /\ x \in 3 * Ended(x)..3 * Len(kinds)
         /\ y \in 3 * Ended(x)..3 * Len(kinds)
<1>1. Len(kinds) \in Nat
  BY KindsLen
<1>2. y \in Chars
  BY <1>1 DEF Chars
<1>3. Ended(x) \in 0..Len(kinds) /\ 3 * Ended(x) \in Chars /\ 3 * Ended(x) <= x
  BY EndedAt
<1>4. Ended(y) \in 0..Len(kinds) /\ \A i \in Int : 3 * i <= y <=> i <= Ended(y)
  BY <1>2, EndedAt
<1>5. 3 * Ended(x) <= y
  BY <1>1, <1>3 DEF Chars
<1>6. Ended(x) <= Ended(y)
  BY <1>1, <1>3, <1>4, <1>5
<1> QED BY <1>1, <1>2, <1>3, <1>4, <1>5, <1>6 DEF Chars

\* One call of the handler.  Only an event after a [DONE] of an earlier call
\* destroys the stream.
LEMMA OnDataText ==
  ASSUME kinds \in Seq(Kinds), size \in 0..4 * Len(kinds),
         NEW x0 \in Chars, NEW x \in x0..3 * Len(kinds), NEW y \in x..3 * Len(kinds),
         4 * Ended(y) <= size,
         NEW st, Handled(st, x0, x), st.parsed \in {"open", "eof", "failed", "closed"}
  PROVE  /\ Handled(OnData(st, Piece(x, y)), x0, y)
         /\ OnData(st, Piece(x, y)).parsed \in {"open", "eof", "failed", "closed"}
         /\ st.parsed \in {"failed", "closed"} => OnData(st, Piece(x, y)).parsed = st.parsed
         /\ OnData(st, Piece(x, y)).parsed = "closed" => st.parsed = "closed"
         /\ OnData(st, Piece(x, y)).parsed = "failed" =>
              st.parsed = "failed" \/ LateIn(Ended(x), Ended(y))
         /\ st.parsed # "open" =>
              /\ OnData(st, Piece(x, y)).parsed # "open"
              /\ st.out = <<>> => OnData(st, Piece(x, y)).out = <<>>
<1> DEFINE a == Ended(x)
           b == Ended(y)
           o == Ended(x0)
           lines == [i \in 1..b - a |-> Text(a + i)]
           p == Pushes(lines)
           push == Push(st.parsed, p)
           r == OnData(st, Piece(x, y))
<1>1. /\ x \in Chars /\ y \in Chars /\ o \in 0..Len(kinds) /\ a \in 0..Len(kinds)
      /\ o \in Int /\ a \in Int /\ b \in Int /\ o <= a /\ a <= b /\ b \in a..Len(kinds)
      /\ 3 * a \in Chars /\ x \in 3 * a..3 * Len(kinds) /\ y \in 3 * a..3 * Len(kinds)
      /\ 4 * b <= size
  <2>1. x \in Chars /\ o \in 0..Len(kinds) /\ a \in o..Len(kinds) /\ o \in Int /\ a \in Int
    BY EndedGrows
  <2>2. /\ y \in Chars /\ a \in 0..Len(kinds) /\ b \in a..Len(kinds) /\ b \in Int
        /\ 3 * a \in Chars /\ x \in 3 * a..3 * Len(kinds) /\ y \in 3 * a..3 * Len(kinds)
    BY <2>1, EndedGrows
  <2>3. Len(kinds) \in Nat
    BY KindsLen
  <2>4. 4 * b <= size
    OBVIOUS
  <2> HIDE DEF a, b, o
  <2> QED BY <2>1, <2>2, <2>3, <2>4
<1>2. st.buffer \o Piece(x, y) = Piece(3 * a, y)
  <2>1. st.buffer = Piece(3 * a, x)
    BY DEF Handled, Rest
  <2> HIDE DEF a
  <2> QED BY <1>1, <2>1, PiecesJoin
<1>3. Split(Piece(3 * a, y)) = [lines |-> lines, rest |-> Rest(y)]
  BY <1>1, SplitText
<1>4. /\ r.buffer = Rest(y) /\ r.parsed = push.parsed /\ r.out = st.out \o push.out
  <2>1. r = [buffer |-> Split(Piece(3 * a, y)).rest,
             parsed |-> Push(st.parsed, Pushes(Split(Piece(3 * a, y)).lines)).parsed,
             out |-> st.out \o Push(st.parsed, Pushes(Split(Piece(3 * a, y)).lines)).out]
    <3> HIDE DEF a, lines
    <3> QED BY <1>2 DEF OnData
  <2>2. Split(Piece(3 * a, y)).rest = Rest(y) /\ Split(Piece(3 * a, y)).lines = lines
    <3> HIDE DEF lines, a
    <3> QED BY <1>3
  <2> HIDE DEF lines, a, r
  <2> QED BY <2>1, <2>2 DEF push, p
<1>5. HeardBy(o) <= HeardBy(a) /\ HeardBy(a) <= HeardBy(b)
  <2> HIDE DEF o, a, b
  <2> QED BY <1>1, HeardGrows
<1>6. CASE st.parsed = "open"
  <2>1. st.out = DueIn(o, a) /\ ~DoneBy(a)
    BY <1>6 DEF Handled
  <2> DEFINE last == IF DoneBy(b) THEN <<EOF>> ELSE <<>>
  <2>2. DueIn(a, b) \in Seq(Lines) /\ p = DueIn(a, b) \o last
    <3> HIDE DEF a, b
    <3> QED BY <1>1, <2>1, PushesText
  <2>3. push = [out |-> DueIn(a, b), parsed |-> IF last = <<>> THEN "open" ELSE "eof"]
    <3>1. last \in {<<>>, <<EOF>>}
      OBVIOUS
    <3> HIDE DEF last, a, b, p
    <3> QED BY <1>6, <2>2, <3>1, LinesNotEOF, PushOpen
  <2>4. last = <<>> <=> ~DoneBy(b)
    OBVIOUS
  <2>5. DueIn(o, a) \o DueIn(a, b) = DueIn(o, b)
    <3> HIDE DEF o, a, b
    <3> QED BY <1>1, <1>5, DueInJoin
  <2> HIDE DEF push, last, p, r
  <2>6. /\ r.buffer = Rest(y) /\ r.parsed = IF DoneBy(b) THEN "eof" ELSE "open"
        /\ r.out = DueIn(o, b)
    BY <1>4, <2>1, <2>3, <2>4, <2>5
  <2>7. Handled(r, x0, y)
    BY <2>6 DEF Handled
  <2>8. r.parsed \in {"open", "eof"}
    BY <2>6
  <2> QED BY <1>6, <2>7, <2>8 DEF r
<1>7. CASE st.parsed = "eof"
  <2>1. st.out = DueIn(o, a) /\ DoneBy(a)
    BY <1>7 DEF Handled
  <2>2. DoneBy(b) /\ HeardBy(a) = HeardBy(b)
    <3> HIDE DEF a, b
    <3> QED BY <1>1, <2>1, HeardGrows
  <2>3. /\ push.out = <<>>
        /\ push.parsed = IF \E k \in DOMAIN p : p[k] # EOF THEN "failed" ELSE "eof"
    <3> HIDE DEF p
    <3> QED BY <1>7, PushEof
  <2>4. (\E k \in DOMAIN p : p[k] # EOF) => LateIn(a, b)
    <3> HIDE DEF a, b
    <3> QED BY <1>1, <2>1, PushesLate
  <2>5. st.out \o <<>> = DueIn(o, b)
    <3> HIDE DEF o, a, b
    <3>1. DueIn(o, a) \in Seq(Lines) /\ DueIn(o, b) = DueIn(o, a)
      BY <1>1, <1>5, <2>2, DueInJoin
    <3> QED BY <2>1, <3>1, ConcatEmptySeq
  <2> HIDE DEF push, p, r
  <2>6. /\ r.buffer = Rest(y) /\ r.out = DueIn(o, b) /\ r.out = st.out \o <<>>
        /\ r.parsed = "eof" \/ (r.parsed = "failed" /\ LateIn(a, b))
    <3>1. push.parsed = "eof" \/ (push.parsed = "failed" /\ LateIn(a, b))
      <4> DEFINE late == \E k \in DOMAIN p : p[k] # EOF
      <4>1. late => LateIn(a, b)
        BY <2>4
      <4>2. push.parsed = IF late THEN "failed" ELSE "eof"
        BY <2>3
      <4> HIDE DEF late
      <4> QED BY <4>1, <4>2
    <3> QED BY <1>4, <2>3, <2>5, <3>1
  <2>7. Handled(r, x0, y)
    BY <2>2, <2>6 DEF Handled
  <2>8. st.out = <<>> => r.out = <<>>
    <3>1. <<>> \o <<>> = <<>>
      OBVIOUS
    <3> QED BY <2>6, <3>1
  <2> QED BY <1>7, <2>6, <2>7, <2>8 DEF r
<1>8. CASE st.parsed \in {"failed", "closed"}
  <2>1. push.out = <<>> /\ push.parsed = st.parsed
    <3> HIDE DEF p
    <3> QED BY <1>8, PushClosed
  <2> HIDE DEF push, p, r
  <2>2. r.buffer = Rest(y) /\ r.out = st.out \o <<>> /\ r.parsed = st.parsed
    BY <1>4, <2>1
  <2>3. st.out = <<>> => r.out = <<>>
    <3>1. <<>> \o <<>> = <<>>
      OBVIOUS
    <3> QED BY <2>2, <3>1
  <2>4. Handled(r, x0, y)
    BY <1>8, <2>2 DEF Handled
  <2> QED BY <1>8, <2>2, <2>3, <2>4 DEF r
<1> QED BY <1>6, <1>7, <1>8


\* t says where the chunks cut the text: chunk k is its piece from t[k - 1] to t[k].
Cuts(t, chunks) ==
  /\ t \in [0..Len(chunks) -> Chars]
  /\ \A k \in 1..Len(chunks) : t[k - 1] <= t[k] /\ chunks[k] = Piece(t[k - 1], t[k])

\* The handler, called with one chunk after another
LEMMA OnAllText ==
  ASSUME kinds \in Seq(Kinds), size \in 0..4 * Len(kinds),
         NEW chunks, Len(chunks) \in Nat, NEW t, Cuts(t, chunks),
         \A k \in 0..Len(chunks) : 4 * Ended(t[k]) <= size,
         parsed \in {"open", "eof", "failed", "closed"},
         Handled([buffer |-> buffer, parsed |-> parsed, out |-> <<>>], t[0], t[0])
  PROVE  /\ Handled(OnAll(chunks), t[0], t[Len(chunks)])
         /\ OnAll(chunks).parsed \in {"open", "eof", "failed", "closed"}
         /\ parsed \in {"failed", "closed"} => OnAll(chunks).parsed = parsed
         /\ OnAll(chunks).parsed = "closed" => parsed = "closed"
         /\ OnAll(chunks).parsed = "failed" =>
              parsed = "failed" \/ \E k \in 1..Len(chunks) : LateIn(Ended(t[k - 1]), Ended(t[k]))
         /\ parsed # "open" => OnAll(chunks).parsed # "open" /\ OnAll(chunks).out = <<>>
<1> DEFINE N == Len(chunks)
           late == \E k \in 1..N : LateIn(Ended(t[k - 1]), Ended(t[k]))
<1>1. PICK after :
        /\ after[0] = [buffer |-> buffer, parsed |-> parsed, out |-> <<>>]
        /\ \A n \in 1..N : after[n] = OnData(after[n - 1], chunks[n])
        /\ OnAll(chunks) = after[N]
  BY OnAllIs
<1> DEFINE Good(n) ==
             /\ t[0] <= t[n]
             /\ Handled(after[n], t[0], t[n])
             /\ after[n].parsed \in {"open", "eof", "failed", "closed"}
             /\ parsed \in {"failed", "closed"} => after[n].parsed = parsed
             /\ after[n].parsed = "closed" => parsed = "closed"
             /\ after[n].parsed = "failed" => parsed = "failed" \/ late
             /\ parsed # "open" => after[n].parsed # "open" /\ after[n].out = <<>>
           T == {n \in Nat : n <= N => Good(n)}
<1>2. /\ N \in Nat /\ 3 * Len(kinds) \in Nat
      /\ \A k \in 0..N : t[k] \in Chars /\ t[k] \in Int
      /\ \A k \in 1..N : t[k - 1] <= t[k] /\ chunks[k] = Piece(t[k - 1], t[k])
  <2>1. \A k \in 0..N : t[k] \in Chars
    BY DEF Cuts
  <2>2. \A k \in Chars : k \in Int
    BY DEF Chars
  <2> QED BY <2>1, <2>2, KindsLen DEF Cuts
<1> HIDE DEF N, late
<1>3. 0 \in T
  <2>1. 0 \in 0..N
    BY <1>2
  <2>2. t[0] <= t[0]
    BY <1>2, <2>1
  <2> QED BY <1>1, <2>2
<1>4. ASSUME NEW n \in Nat, n \in T PROVE n + 1 \in T
  <2> SUFFICES ASSUME n + 1 <= N PROVE Good(n + 1)
    OBVIOUS
  <2>1. n + 1 \in 1..N /\ (n + 1) - 1 = n /\ n <= N /\ 0 \in 0..N /\ n \in 0..N /\ n + 1 \in 0..N
    BY <1>2
  <2>2. Good(n)
    BY <1>4, <2>1
  <2>3. after[n + 1] = OnData(after[n], Piece(t[n], t[n + 1]))
    BY <1>1, <1>2, <2>1
  <2>4. t[0] \in Int /\ t[n] \in Int /\ t[n + 1] \in Int /\ t[0] <= t[n] /\ t[n] <= t[n + 1]
    BY <1>2, <2>1, <2>2
  <2>5. /\ t[0] \in Chars /\ t[n] \in t[0]..3 * Len(kinds)
        /\ t[n + 1] \in t[n]..3 * Len(kinds) /\ t[0] <= t[n + 1]
    <3>1. t[0] \in Chars /\ t[n] \in Chars /\ t[n + 1] \in Chars
      BY <1>2, <2>1
    <3> QED BY <2>4, <3>1, <1>2 DEF Chars
  <2>6. 4 * Ended(t[n + 1]) <= size
    BY <2>1 DEF N
  <2>7. LateIn(Ended(t[n]), Ended(t[n + 1])) => late
    BY <2>1 DEF late
  <2> DEFINE r == OnData(after[n], Piece(t[n], t[n + 1]))
  <2>8. Handled(after[n], t[0], t[n]) /\ after[n].parsed \in {"open", "eof", "failed", "closed"}
    BY <2>2
  <2>9. /\ Handled(r, t[0], t[n + 1])
        /\ r.parsed \in {"open", "eof", "failed", "closed"}
        /\ after[n].parsed \in {"failed", "closed"} => r.parsed = after[n].parsed
        /\ r.parsed = "closed" => after[n].parsed = "closed"
        /\ r.parsed = "failed" => after[n].parsed = "failed" \/ late
        /\ after[n].parsed # "open" =>
             r.parsed # "open" /\ (after[n].out = <<>> => r.out = <<>>)
    <3> HIDE DEF Good
    <3>1. /\ Handled(r, t[0], t[n + 1])
          /\ r.parsed \in {"open", "eof", "failed", "closed"}
          /\ after[n].parsed \in {"failed", "closed"} => r.parsed = after[n].parsed
          /\ r.parsed = "closed" => after[n].parsed = "closed"
          /\ r.parsed = "failed" =>
               after[n].parsed = "failed" \/ LateIn(Ended(t[n]), Ended(t[n + 1]))
          /\ after[n].parsed # "open" =>
               r.parsed # "open" /\ (after[n].out = <<>> => r.out = <<>>)
      BY <2>5, <2>6, <2>8, OnDataText
    <3> HIDE DEF r
    <3> QED BY <2>7, <3>1
  <2> HIDE DEF r
  <2>10. after[n + 1] = r
    BY <2>3 DEF r
  <2> QED BY <2>2, <2>5, <2>9, <2>10
<1>5. Good(N)
  <2> HIDE DEF Good
  <2>1. Nat \subseteq T
    <3> HIDE DEF T
    <3> QED BY <1>3, <1>4, Induction
  <2>2. N \in T /\ N <= N
    BY <1>2, <2>1
  <2> QED BY <2>2
<1> QED BY <1>1, <1>5 DEF N, late


-----------------------------------------------------------------------------
(* The bytes of the body *)

\* The characters complete in the first p bytes, what the decoder keeps after
\* them, and the byte that completes character m
CharsOf(p) == 3 * (p \div 4) + (IF p % 4 = 0 THEN 0 ELSE IF p % 4 = 3 THEN 2 ELSE 1)
HeldAt(p) == IF p % 4 = 2 THEN <<<<(p \div 4) + 1, "lead">>>> ELSE <<>>
ByteOf(m) == m + ((m + 1) \div 3)

LEMMA Quarters ==
  ASSUME NEW p \in Nat
  PROVE  \E i \in Nat : \/ p = 4 * i /\ p \div 4 = i /\ p % 4 = 0 /\ CharsOf(p) = 3 * i
                        \/ p = 4 * i + 1 /\ p \div 4 = i /\ p % 4 = 1 /\ CharsOf(p) = 3 * i + 1
                        \/ p = 4 * i + 2 /\ p \div 4 = i /\ p % 4 = 2 /\ CharsOf(p) = 3 * i + 1
                        \/ p = 4 * i + 3 /\ p \div 4 = i /\ p % 4 = 3 /\ CharsOf(p) = 3 * i + 2
<1> DEFINE i == p \div 4
<1>1. i \in Nat /\ p % 4 \in 0..3 /\ p = 4 * i + (p % 4)
  OBVIOUS
<1>2. /\ p % 4 = 0 => CharsOf(p) = 3 * i + 0
      /\ p % 4 = 1 => CharsOf(p) = 3 * i + 1
      /\ p % 4 = 2 => CharsOf(p) = 3 * i + 1
      /\ p % 4 = 3 => CharsOf(p) = 3 * i + 2
  BY DEF CharsOf
<1>3. p % 4 = 0 \/ p % 4 = 1 \/ p % 4 = 2 \/ p % 4 = 3
  BY <1>1
<1>4. 3 * i + 0 = 3 * i /\ 4 * i + 0 = 4 * i
  BY <1>1
<1> QED BY <1>1, <1>2, <1>3, <1>4

LEMMA ByteOfIs ==
  ASSUME NEW i \in Nat
  PROVE  ByteOf(3 * i - 2) = 4 * i - 3 /\ ByteOf(3 * i - 1) = 4 * i - 1 /\ ByteOf(3 * i) = 4 * i
<1>1. /\ ((3 * i - 2) + 1) \div 3 = i - 1
      /\ ((3 * i - 1) + 1) \div 3 = i
      /\ (3 * i + 1) \div 3 = i
  OBVIOUS
<1> QED BY <1>1 DEF ByteOf

\* The bytes up to p complete the characters up to CharsOf(p).
LEMMA ByteBy ==
  ASSUME NEW L \in Nat, NEW p \in Nat, NEW m \in 1..3 * L
  PROVE  ByteOf(m) <= p <=> m <= CharsOf(p)
<1>1. PICK i \in Nat : \/ p = 4 * i /\ CharsOf(p) = 3 * i
                       \/ p = 4 * i + 1 /\ CharsOf(p) = 3 * i + 1
                       \/ p = 4 * i + 2 /\ CharsOf(p) = 3 * i + 1
                       \/ p = 4 * i + 3 /\ CharsOf(p) = 3 * i + 2
  BY Quarters
<1>2. PICK j \in 1..L : m = 3 * j - 2 \/ m = 3 * j - 1 \/ m = 3 * j
  BY LineOf
<1>3. j \in Nat
  OBVIOUS
<1>4. \/ m = 3 * j - 2 /\ ByteOf(m) = 4 * j - 3
      \/ m = 3 * j - 1 /\ ByteOf(m) = 4 * j - 1
      \/ m = 3 * j /\ ByteOf(m) = 4 * j
  BY <1>2, <1>3, ByteOfIs
<1> QED BY <1>1, <1>3, <1>4

LEMMA ByteOfGrows ==
  ASSUME NEW L \in Nat, NEW m \in 1..3 * L, NEW l \in 1..3 * L
  PROVE  ByteOf(m) \in 1..4 * L /\ (m < l => ByteOf(m) < ByteOf(l))
<1>1. PICK i \in 1..L : m = 3 * i - 2 \/ m = 3 * i - 1 \/ m = 3 * i
  BY LineOf
<1>2. PICK j \in 1..L : l = 3 * j - 2 \/ l = 3 * j - 1 \/ l = 3 * j
  BY LineOf
<1>3. i \in Nat /\ j \in Nat
  OBVIOUS
<1>4. \/ m = 3 * i - 2 /\ ByteOf(m) = 4 * i - 3
      \/ m = 3 * i - 1 /\ ByteOf(m) = 4 * i - 1
      \/ m = 3 * i /\ ByteOf(m) = 4 * i
  BY <1>1, <1>3, ByteOfIs
<1>5. \/ l = 3 * j - 2 /\ ByteOf(l) = 4 * j - 3
      \/ l = 3 * j - 1 /\ ByteOf(l) = 4 * j - 1
      \/ l = 3 * j /\ ByteOf(l) = 4 * j
  BY <1>2, <1>3, ByteOfIs
<1> QED BY <1>3, <1>4, <1>5

LEMMA CharsOfIs ==
  ASSUME kinds \in Seq(Kinds), NEW p \in 0..4 * Len(kinds)
  PROVE  /\ CharsOf(p) \in Chars
         /\ \A i \in Int : i <= Ended(CharsOf(p)) <=> 4 * i <= p
         /\ 4 * Ended(CharsOf(p)) <= p /\ p < 4 * (Ended(CharsOf(p)) + 1)
         /\ \A q \in p..4 * Len(kinds) : CharsOf(p) <= CharsOf(q)
<1>1. Len(kinds) \in Nat /\ p \in Nat
  BY KindsLen
<1>2. PICK i \in Nat : \/ p = 4 * i /\ CharsOf(p) = 3 * i
                       \/ p = 4 * i + 1 /\ CharsOf(p) = 3 * i + 1
                       \/ p = 4 * i + 2 /\ CharsOf(p) = 3 * i + 1
                       \/ p = 4 * i + 3 /\ CharsOf(p) = 3 * i + 2
  BY <1>1, Quarters
<1>3. CharsOf(p) \in 0..3 * Len(kinds)
  BY <1>1, <1>2
<1>4. Ended(CharsOf(p)) = i
  BY <1>2 DEF Ended
<1>5. ASSUME NEW q \in p..4 * Len(kinds) PROVE CharsOf(p) <= CharsOf(q)
  <2>1. q \in Nat
    BY <1>1
  <2>2. PICK j \in Nat : \/ q = 4 * j /\ CharsOf(q) = 3 * j
                         \/ q = 4 * j + 1 /\ CharsOf(q) = 3 * j + 1
                         \/ q = 4 * j + 2 /\ CharsOf(q) = 3 * j + 1
                         \/ q = 4 * j + 3 /\ CharsOf(q) = 3 * j + 2
    BY <2>1, Quarters
  <2>3. p <= q
    BY <1>1, <2>1
  <2> QED BY <1>2, <2>2, <2>3
<1>6. ASSUME NEW k \in Int PROVE k <= i <=> 4 * k <= p
  BY <1>2
<1>7. 4 * i <= p /\ p < 4 * (i + 1)
  BY <1>2
<1> QED BY <1>3, <1>4, <1>5, <1>6, <1>7 DEF Chars

AllBytes == {"head", "lead", "rest", "nl"}

LEMMA BodyAt ==
  ASSUME kinds \in Seq(Kinds)
  PROVE  /\ Body \in Seq(Int \X AllBytes) /\ Len(Body) = 4 * Len(kinds)
         /\ \A i \in 1..Len(kinds) : /\ Body[4 * i - 3] = <<i, "head">>
                                     /\ Body[4 * i - 2] = <<i, "lead">>
                                     /\ Body[4 * i - 1] = <<i, "rest">>
                                     /\ Body[4 * i] = <<i, "nl">>
         /\ \A j \in 1..4 * Len(kinds) : \E i \in 1..Len(kinds) :
              j = 4 * i - 3 \/ j = 4 * i - 2 \/ j = 4 * i - 1 \/ j = 4 * i
<1> DEFINE L == Len(kinds)
           Byte(k) == Bytes((k + 3) \div 4)[1 + ((k - 1) % 4)]
<1>1. L \in Nat
  BY KindsLen
<1>2. Body = [k \in 1..4 * L |-> Byte(k)]
  BY DEF Body
<1>3. ASSUME NEW i \in 1..L
      PROVE  /\ Byte(4 * i - 3) = <<i, "head">> /\ Byte(4 * i - 2) = <<i, "lead">>
             /\ Byte(4 * i - 1) = <<i, "rest">> /\ Byte(4 * i) = <<i, "nl">>
  <2>1. i \in Int
    BY <1>1
  <2>2. /\ ((4 * i - 3) + 3) \div 4 = i /\ 1 + (((4 * i - 3) - 1) % 4) = 1
        /\ ((4 * i - 2) + 3) \div 4 = i /\ 1 + (((4 * i - 2) - 1) % 4) = 2
        /\ ((4 * i - 1) + 3) \div 4 = i /\ 1 + (((4 * i - 1) - 1) % 4) = 3
        /\ (4 * i + 3) \div 4 = i /\ 1 + ((4 * i - 1) % 4) = 4
    BY <2>1
  <2>3. /\ Bytes(i)[1] = <<i, "head">> /\ Bytes(i)[2] = <<i, "lead">>
        /\ Bytes(i)[3] = <<i, "rest">> /\ Bytes(i)[4] = <<i, "nl">>
    BY DEF Bytes
  <2> QED BY <2>2, <2>3
<1> HIDE DEF L, Byte
<1>4. ASSUME NEW i \in 1..L
      PROVE  /\ Body[4 * i - 3] = <<i, "head">> /\ Body[4 * i - 2] = <<i, "lead">>
             /\ Body[4 * i - 1] = <<i, "rest">> /\ Body[4 * i] = <<i, "nl">>
  <2>1. /\ 4 * i - 3 \in 1..4 * L /\ 4 * i - 2 \in 1..4 * L
        /\ 4 * i - 1 \in 1..4 * L /\ 4 * i \in 1..4 * L
    BY <1>1
  <2> QED BY <1>2, <1>3, <2>1
<1>5. ASSUME NEW j \in 1..4 * L
      PROVE  \E i \in 1..L : j = 4 * i - 3 \/ j = 4 * i - 2 \/ j = 4 * i - 1 \/ j = 4 * i
  <2>1. j \in Nat
    BY <1>1
  <2>2. PICK i \in Nat : j = 4 * i \/ j = 4 * i + 1 \/ j = 4 * i + 2 \/ j = 4 * i + 3
    BY <2>1, Quarters
  <2>3. CASE j = 4 * i
    <3>1. i \in 1..L
      BY <1>1, <2>3
    <3> QED BY <2>3, <3>1
  <2>4. CASE j # 4 * i
    <3>1. i + 1 \in 1..L
      BY <1>1, <2>2, <2>4
    <3>2. j = 4 * (i + 1) - 3 \/ j = 4 * (i + 1) - 2 \/ j = 4 * (i + 1) - 1
      BY <2>2, <2>4
    <3> QED BY <3>1, <3>2
  <2> QED BY <2>3, <2>4
<1>6. ASSUME NEW j \in 1..4 * L PROVE Body[j] \in Int \X AllBytes
  <2>1. PICK i \in 1..L : j = 4 * i - 3 \/ j = 4 * i - 2 \/ j = 4 * i - 1 \/ j = 4 * i
    BY <1>5
  <2>2. \A b \in AllBytes : <<i, b>> \in Int \X AllBytes
    BY <1>1
  <2>3. /\ "head" \in AllBytes /\ "lead" \in AllBytes /\ "rest" \in AllBytes /\ "nl" \in AllBytes
    BY DEF AllBytes
  <2> QED BY <1>4, <2>1, <2>2, <2>3
<1>7. 4 * L \in Nat /\ Body \in [1..4 * L -> Int \X AllBytes]
  BY <1>1, <1>2, <1>6
<1>8. Body \in Seq(Int \X AllBytes) /\ Len(Body) = 4 * L
  BY <1>7, FunSeq
<1> QED BY <1>4, <1>5, <1>8 DEF L


\* What the decoder is given is the body from the last byte not yet decoded.
BytesFrom(b, q, z) ==
  /\ b \in Seq(Int \X AllBytes) /\ Len(b) = z - q
  /\ \A k \in 1..z - q : q + k \in 1..4 * Len(kinds) /\ b[k] = Body[q + k]

LEMMA BytesGiven ==
  ASSUME kinds \in Seq(Kinds), NEW p \in 0..4 * Len(kinds), NEW n \in 1..4 * Len(kinds) - p,
         NEW q, q = p - Len(HeldAt(p))
  PROVE  /\ q \in 0..p /\ CharsOf(q) = CharsOf(p)
         /\ BytesFrom(HeldAt(p) \o SubSeq(Body, p + 1, p + n), q, p + n)
<1> DEFINE L == Len(kinds)
           S == Int \X AllBytes
           h == HeldAt(p)
           s == SubSeq(Body, p + 1, p + n)
           b == h \o s
           Conclusion == /\ q \in 0..p /\ CharsOf(q) = CharsOf(p)
                         /\ b \in Seq(S) /\ Len(b) = (p + n) - q
                         /\ \A k \in 1..(p + n) - q : q + k \in 1..4 * L /\ b[k] = Body[q + k]
<1>1. L \in Nat /\ p \in Nat /\ p <= 4 * L /\ n \in Int /\ 1 <= n /\ p + n <= 4 * L
  BY KindsLen
<1>2. Body \in Seq(S) /\ Len(Body) = 4 * L
  BY BodyAt
<1> HIDE DEF L, S
<1>3. \A i \in p + 1..p + n : Body[i] \in S /\ i \in 1..4 * L
  BY <1>1, <1>2, ElementOfSeq
<1>4. /\ s \in Seq(S) /\ Len(s) = n
      /\ \A i \in 1..n : s[i] = Body[p + i]
  <2>1. p + 1 \in Int /\ p + n \in Int /\ p + 1 <= p + n
    BY <1>1
  <2>2. /\ s \in Seq(S)
        /\ Len(s) = IF p + 1 <= p + n THEN p + n - (p + 1) + 1 ELSE 0
        /\ \A i \in 1..p + n - (p + 1) + 1 : s[i] = Body[(p + 1) + i - 1]
    BY <1>3, <2>1, SubSeqProperties
  <2> HIDE DEF s
  <2>3. p + n - (p + 1) + 1 = n /\ \A i \in 1..n : (p + 1) + i - 1 = p + i
    BY <1>1
  <2> QED BY <2>1, <2>2, <2>3
<1> HIDE DEF s
<1>5. ASSUME p % 4 # 2 PROVE Conclusion
  <2>1. h = <<>> /\ q = p
    BY <1>1, <1>5 DEF HeldAt
  <2>2. b = s
    BY <1>4, <2>1, ConcatEmptySeq
  <2>3. \A k \in 1..n : p + k \in 1..4 * L
    BY <1>1
  <2>4. (p + n) - q = n /\ q \in 0..p
    BY <1>1, <2>1
  <2> QED BY <1>4, <2>1, <2>2, <2>3, <2>4 DEF L, S, s
<1>6. ASSUME p % 4 = 2 PROVE Conclusion
  <2>1. PICK i \in Nat : p = 4 * i + 2 /\ p \div 4 = i /\ CharsOf(p) = 3 * i + 1
    <3>1. PICK i \in Nat :
            \/ p = 4 * i /\ p \div 4 = i /\ p % 4 = 0 /\ CharsOf(p) = 3 * i
            \/ p = 4 * i + 1 /\ p \div 4 = i /\ p % 4 = 1 /\ CharsOf(p) = 3 * i + 1
            \/ p = 4 * i + 2 /\ p \div 4 = i /\ p % 4 = 2 /\ CharsOf(p) = 3 * i + 1
            \/ p = 4 * i + 3 /\ p \div 4 = i /\ p % 4 = 3 /\ CharsOf(p) = 3 * i + 2
      BY <1>1, Quarters
    <3>2. ~(0 = 2) /\ ~(1 = 2) /\ ~(3 = 2)
      OBVIOUS
    <3>3. p = 4 * i + 2 /\ p \div 4 = i /\ CharsOf(p) = 3 * i + 1
      BY <1>6, <3>1, <3>2, Zenon
    <3> QED BY <3>3
  <2>2. h = <<<<i + 1, "lead">>>> /\ Len(h) = 1
    BY <1>6, <2>1 DEF HeldAt
  <2>3. q = 4 * i + 1 /\ q \in Nat /\ q \in 0..p /\ i + 1 \in 1..L /\ 4 * (i + 1) - 2 = p
    <3>1. q = p - 1
      BY <2>2
    <3>2. p = 4 * i + 2
      BY <2>1
    <3>3. q = 4 * i + 1 /\ q \in Nat /\ q \in 0..p
      BY <3>1, <3>2
    <3>4. i + 1 \in 1..L /\ 4 * (i + 1) - 2 = p
      BY <1>1, <3>2
    <3> QED BY <3>3, <3>4
  <2>4. CharsOf(q) = 3 * i + 1
    <3>1. PICK j \in Nat : \/ q = 4 * j /\ CharsOf(q) = 3 * j
                           \/ q = 4 * j + 1 /\ CharsOf(q) = 3 * j + 1
                           \/ q = 4 * j + 2 /\ CharsOf(q) = 3 * j + 1
                           \/ q = 4 * j + 3 /\ CharsOf(q) = 3 * j + 2
      BY <2>3, Quarters
    <3> QED BY <2>3, <3>1
  <2>5. Body[p] = <<i + 1, "lead">>
    BY <2>3, BodyAt DEF L
  <2>6. h \in Seq(S) /\ h[1] = Body[p]
    <3>1. p \in 1..4 * L
      BY <1>1, <2>1
    <3>2. Body[p] \in S
      BY <1>2, <3>1, ElementOfSeq
    <3> QED BY <2>2, <2>5, <3>2
  <2> HIDE DEF h
  <2>7. /\ b \in Seq(S) /\ Len(b) = 1 + n
        /\ \A k \in 1..1 + n : b[k] = IF k <= 1 THEN h[k] ELSE s[k - 1]
    BY <1>4, <2>2, <2>6, ConcatProperties
  <2>8. (p + n) - q = 1 + n /\ q + 1 = p
    BY <1>1, <2>1, <2>3
  <2>9. ASSUME NEW k \in 1..1 + n PROVE q + k \in 1..4 * L /\ b[k] = Body[q + k]
    <3>1. CASE k = 1
      <4>1. p \in 1..4 * L /\ k \in 1..1 + n /\ k <= 1
        BY <1>1, <2>1, <3>1
      <4> QED BY <2>6, <2>7, <2>8, <3>1, <4>1
    <3>2. CASE k # 1
      <4>1. ~(k <= 1) /\ k - 1 \in 1..n /\ p + (k - 1) = q + k /\ q + k \in 1..4 * L
        BY <1>1, <2>1, <2>3, <3>2
      <4> QED BY <1>4, <2>7, <4>1
    <3> QED BY <3>1, <3>2
  <2> QED BY <2>1, <2>3, <2>4, <2>7, <2>8, <2>9 DEF L, S, s, h
<1>7. Conclusion
  BY <1>5, <1>6
<1> DEFINE z == p + n
<1>8. /\ b \in Seq(S) /\ Len(b) = z - q
      /\ \A k \in 1..z - q : q + k \in 1..4 * L /\ b[k] = Body[q + k]
  BY <1>7
<1> HIDE DEF b, z
<1>9. BytesFrom(b, q, z)
  BY <1>8 DEF BytesFrom, S, L
<1> QED BY <1>7, <1>9 DEF b, z, h, s

\* A byte that completes character m is its last.
LEMMA CharAt ==
  ASSUME kinds \in Seq(Kinds), NEW m \in 1..3 * Len(kinds)
  PROVE  /\ Body[ByteOf(m)][2] # "lead"
         /\ AllText[m] = IF Body[ByteOf(m)][2] = "rest"
                         THEN <<Body[ByteOf(m)][1], "wide">> ELSE Body[ByteOf(m)]
<1>1. Len(kinds) \in Nat
  BY KindsLen
<1>2. PICK i \in 1..Len(kinds) : m = 3 * i - 2 \/ m = 3 * i - 1 \/ m = 3 * i
  BY <1>1, LineOf
<1>3. i \in Nat
  BY <1>1
<1>4. CASE m = 3 * i - 2
  <2>1. Body[ByteOf(m)] = <<i, "head">> /\ AllText[m] = <<i, "head">>
    BY <1>3, <1>4, ByteOfIs, BodyAt, TextAt
  <2> QED BY <2>1
<1>5. CASE m = 3 * i - 1
  <2>1. Body[ByteOf(m)] = <<i, "rest">> /\ AllText[m] = <<i, "wide">>
    BY <1>3, <1>5, ByteOfIs, BodyAt, TextAt
  <2> QED BY <2>1
<1>6. CASE m = 3 * i
  <2>1. Body[ByteOf(m)] = <<i, "nl">> /\ AllText[m] = <<i, "nl">>
    BY <1>3, <1>6, ByteOfIs, BodyAt, TextAt
  <2> QED BY <2>1
<1> QED BY <1>2, <1>4, <1>5, <1>6

LEMMA ByteIs ==
  ASSUME kinds \in Seq(Kinds), NEW j \in 1..4 * Len(kinds)
  PROVE  /\ Body[j][2] # "lead" => \E m \in 1..3 * Len(kinds) : ByteOf(m) = j
         /\ HeldAt(j) = IF Body[j][2] = "lead" THEN <<Body[j]>> ELSE <<>>
<1>1. Len(kinds) \in Nat /\ j \in Nat
  BY KindsLen
<1>2. PICK i \in 1..Len(kinds) : j = 4 * i - 3 \/ j = 4 * i - 2 \/ j = 4 * i - 1 \/ j = 4 * i
  BY BodyAt
<1>3. i \in Nat /\ 3 * i - 2 \in 1..3 * Len(kinds) /\ 3 * i - 1 \in 1..3 * Len(kinds)
      /\ 3 * i \in 1..3 * Len(kinds)
  BY <1>1
<1>4. /\ ByteOf(3 * i - 2) = 4 * i - 3 /\ ByteOf(3 * i - 1) = 4 * i - 1 /\ ByteOf(3 * i) = 4 * i
      /\ Body[4 * i - 3] = <<i, "head">> /\ Body[4 * i - 2] = <<i, "lead">>
      /\ Body[4 * i - 1] = <<i, "rest">> /\ Body[4 * i] = <<i, "nl">>
  BY <1>3, ByteOfIs, BodyAt
<1>5. /\ (4 * i - 3) % 4 = 1 /\ (4 * i - 2) % 4 = 2 /\ (4 * i - 1) % 4 = 3 /\ (4 * i) % 4 = 0
      /\ ((4 * i - 2) \div 4) + 1 = i
  BY <1>3
<1>6. CASE j = 4 * i - 2
  <2>1. HeldAt(j) = <<<<i, "lead">>>> /\ Body[j] = <<i, "lead">>
    BY <1>4, <1>5, <1>6 DEF HeldAt
  <2> QED BY <2>1
<1>7. CASE j # 4 * i - 2
  <2>1. Body[j][2] # "lead" /\ j % 4 # 2
    <3>1. CASE j = 4 * i - 3
      BY <1>4, <1>5, <3>1
    <3>2. CASE j = 4 * i - 1
      BY <1>4, <1>5, <3>2
    <3>3. CASE j = 4 * i
      BY <1>4, <1>5, <3>3
    <3> QED BY <1>2, <1>7, <3>1, <3>2, <3>3
  <2>2. \E m \in 1..3 * Len(kinds) : ByteOf(m) = j
    BY <1>2, <1>3, <1>4, <1>7
  <2> QED BY <2>1, <2>2 DEF HeldAt
<1> QED BY <1>6, <1>7


\* The next n bytes decode to the characters they complete, whatever the cut.
LEMMA DecodeText ==
  ASSUME kinds \in Seq(Kinds), NEW p \in 0..4 * Len(kinds), NEW n \in 1..4 * Len(kinds) - p
  PROVE  LET d == Decode(HeldAt(p) \o SubSeq(Body, p + 1, p + n))
         IN  d.text = Piece(CharsOf(p), CharsOf(p + n)) /\ d.held = HeldAt(p + n)
<1> DEFINE L == Len(kinds)
           b == HeldAt(p) \o SubSeq(Body, p + 1, p + n)
           q == p - Len(HeldAt(p))
           z == p + n
           x == CharsOf(p)
           y == CharsOf(z)
           W == {k \in DOMAIN b : b[k][2] # "lead"}
           e == [k \in 1..y - x |-> ByteOf(x + k) - q]
           whole == Picked(b, W)
           text == [k \in DOMAIN whole |-> IF whole[k][2] = "rest"
                                           THEN <<whole[k][1], "wide">> ELSE whole[k]]
<1>1. L \in Nat /\ p \in Nat /\ z \in 0..4 * L /\ z \in 1..4 * L /\ z \in p..4 * L /\ p < z
      /\ p \in 0..4 * L /\ z \in Nat
  BY KindsLen
<1>2. /\ q \in 0..p /\ CharsOf(q) = CharsOf(p)
      /\ b \in Seq(Int \X AllBytes) /\ Len(b) = z - q
      /\ \A k \in 1..z - q : q + k \in 1..4 * L /\ b[k] = Body[q + k]
  <2>1. q = p - Len(HeldAt(p))
    OBVIOUS
  <2>2. n \in 1..4 * Len(kinds) - p /\ p \in 0..4 * Len(kinds)
    OBVIOUS
  <2> HIDE DEF q
  <2>3. q \in 0..p /\ CharsOf(q) = CharsOf(p) /\ BytesFrom(b, q, z)
    BY <2>1, <2>2, BytesGiven
  <2> QED BY <2>3 DEF BytesFrom
<1> HIDE DEF b, q
<1>3. x \in Chars /\ y \in Chars /\ x <= y
  <2> HIDE DEF z
  <2> QED BY <1>1, CharsOfIs DEF L
<1>4. DOMAIN b = 1..z - q /\ q \in Nat /\ z - q \in Nat /\ z - q # 0
  <2>1. DOMAIN b = 1..Len(b)
    BY <1>2, LenProperties
  <2> QED BY <1>1, <1>2, <2>1
<1> HIDE DEF L, z
<1>5. x \in Nat /\ y \in Nat /\ y - x \in Nat /\ y <= 3 * L /\ L \in Nat
  BY <1>1, <1>3 DEF Chars, L
<1>6. ASSUME NEW m \in 1..3 * L
      PROVE  /\ ByteOf(m) <= z <=> m <= y
             /\ ByteOf(m) <= q <=> m <= x
  BY <1>1, <1>2, <1>4, ByteBy
<1> HIDE DEF x, y
<1>7. ASSUME NEW k \in 1..y - x
      PROVE  /\ x + k \in 1..3 * L /\ e[k] = ByteOf(x + k) - q
             /\ e[k] \in 1..z - q /\ q + e[k] = ByteOf(x + k)
  <2>1. x + k \in 1..3 * L /\ ~(x + k <= x) /\ x + k <= y
    BY <1>5
  <2>2. ByteOf(x + k) <= z /\ ~(ByteOf(x + k) <= q)
    BY <1>6, <2>1
  <2>3. ByteOf(x + k) \in Int
    BY <1>1, <2>1, ByteOfGrows
  <2>4. e[k] = ByteOf(x + k) - q
    OBVIOUS
  <2> HIDE DEF e
  <2> QED BY <1>1, <1>4, <2>1, <2>2, <2>3, <2>4
<1>8. Lists(e, y - x, W)
  <2>1. ASSUME NEW k \in 1..y - x PROVE e[k] \in W
    <3>1. b[e[k]] = Body[ByteOf(x + k)]
      BY <1>2, <1>7
    <3>2. Body[ByteOf(x + k)][2] # "lead"
      BY <1>7, CharAt DEF L
    <3> QED BY <1>4, <1>7, <3>1, <3>2
  <2>2. ASSUME NEW k \in 1..y - x, NEW l \in 1..y - x, k < l PROVE e[k] < e[l]
    <3>1. x + k < x + l /\ x + k \in 1..3 * L /\ x + l \in 1..3 * L
      BY <1>5, <1>7, <2>2
    <3>2. ByteOf(x + k) \in 1..4 * L /\ ByteOf(x + l) \in 1..4 * L /\ ByteOf(x + k) < ByteOf(x + l)
      BY <1>1, <3>1, ByteOfGrows
    <3>3. e[k] = ByteOf(x + k) - q /\ e[l] = ByteOf(x + l) - q
      BY <1>7
    <3>4. ByteOf(x + k) \in Int /\ ByteOf(x + l) \in Int /\ q \in Int
      BY <1>1, <1>4, <3>2
    <3> HIDE DEF e
    <3> QED BY <3>2, <3>3, <3>4
  <2>3. ASSUME NEW j \in W PROVE \E k \in 1..y - x : e[k] = j
    <3>1. j \in 1..z - q /\ q + j \in 1..4 * L /\ Body[q + j][2] # "lead"
      BY <1>2, <1>4
    <3>2. PICK m \in 1..3 * L : ByteOf(m) = q + j
      BY <3>1, ByteIs DEF L
    <3>3. m \in Int /\ j \in Int /\ ByteOf(m) <= z /\ ~(ByteOf(m) <= q)
      BY <1>1, <1>4, <3>1, <3>2
    <3>4. m <= y /\ ~(m <= x)
      BY <1>6, <3>3
    <3>5. m - x \in 1..y - x /\ x + (m - x) = m
      BY <1>5, <3>3, <3>4
    <3>6. e[m - x] = ByteOf(m) - q
      BY <1>7, <3>5
    <3>7. ByteOf(m) - q = j
      BY <1>4, <3>2, <3>3
    <3> QED BY <3>5, <3>6, <3>7
  <2> HIDE DEF e, W
  <2>4. e \in [1..y - x -> W]
    BY <2>1 DEF e
  <2> QED BY <1>5, <2>1, <2>2, <2>3, <2>4 DEF Lists
<1>9. W \in SUBSET Int
  BY <1>4
<1>10. whole = [k \in 1..y - x |-> b[e[k]]]
  <2> HIDE DEF e, W
  <2> QED BY <1>8, <1>9, PickedIs
<1> HIDE DEF W, whole
<1>11. ASSUME NEW k \in 1..y - x
       PROVE  k \in DOMAIN whole /\ whole[k] = Body[ByteOf(x + k)]
  <2>1. b[e[k]] = Body[ByteOf(x + k)]
    BY <1>2, <1>7
  <2> HIDE DEF e
  <2> QED BY <1>10, <2>1
<1>12. DOMAIN whole = 1..y - x
  BY <1>10
<1>13. text = Piece(x, y)
  <2>1. /\ Piece(x, y) \in Seq(Letters) /\ Len(Piece(x, y)) = y - x
        /\ \A k \in 1..y - x : Piece(x, y)[k] = AllText[x + k]
    BY <1>3, <1>5, PieceAt DEF L
  <2>2. ASSUME NEW k \in 1..y - x
        PROVE  text[k] = Piece(x, y)[k] /\ text[k] \in Letters
    <3>1. x + k \in 1..3 * Len(kinds)
      BY <1>7 DEF L
    <3>2. AllText[x + k] = IF whole[k][2] = "rest" THEN <<whole[k][1], "wide">> ELSE whole[k]
      BY <1>11, <3>1, CharAt
    <3>3. text[k] = AllText[x + k]
      BY <1>11, <3>2
    <3>4. AllText[x + k] \in Letters
      BY <3>1, TextAt, ElementOfSeq
    <3> QED BY <2>1, <3>3, <3>4
  <2>3. text \in [1..y - x -> Letters]
    BY <1>12, <2>2
  <2> HIDE DEF text
  <2>4. text \in Seq(Letters) /\ Len(text) = y - x
    BY <1>5, <2>3, FunSeq
  <2> QED BY <2>1, <2>2, <2>4, SeqEqual
<1>14. Last(b) = Body[z] /\ b # <<>>
  <2>1. Last(b) = b[z - q]
    BY <1>2 DEF Last
  <2>2. z - q \in 1..z - q /\ q + (z - q) = z
    BY <1>1, <1>4
  <2>3. b[z - q] = Body[q + (z - q)]
    BY <1>2, <2>2
  <2>4. b # <<>>
    BY <1>2, <1>4
  <2> QED BY <2>1, <2>2, <2>3, <2>4
<1>15. Decode(b) = [text |-> text,
                    held |-> IF b # <<>> /\ Last(b)[2] = "lead" THEN <<Last(b)>> ELSE <<>>]
  BY DEF Decode, whole, W
<1>16. HeldAt(z) = IF Body[z][2] = "lead" THEN <<Body[z]>> ELSE <<>>
  BY <1>1, ByteIs DEF L
<1> HIDE DEF text
<1>17. Decode(b).text = Piece(x, y) /\ Decode(b).held = HeldAt(z)
  BY <1>13, <1>14, <1>15, <1>16
<1> QED BY <1>17 DEF b, x, y, z


-----------------------------------------------------------------------------
(* The inductive invariant *)

\* The lines that have ended in the first p bytes
LinesBy(p) == Ended(CharsOf(p))

TypeInv ==
  /\ kinds \in Seq(Kinds) /\ Len(kinds) <= MaxLines
  /\ size \in 0..4 * Len(kinds) /\ pos \in 0..size
  /\ held = HeldAt(pos)
  /\ source \in [chunks : Seq(Seq(Letters)), end : {"open", "eof", "failed", "over"}]
  /\ flowing \in BOOLEAN /\ cause \in BOOLEAN
  /\ buffer \in Seq((DOMAIN kinds) \X {"head", "wide"})
  /\ parsed \in {"open", "eof", "failed", "closed"}
  /\ pc \in {"call", "refused", "stream"}
  /\ res \in [events : Seq(Lines), end : {"open", "refused", "done", "error", "gone"}]

\* Until the streams flow nothing is handled; then the source holds nothing.
StartInv ==
  /\ ~flowing => buffer = <<>> /\ parsed # "eof" /\ res.events = <<>>
  /\ flowing \/ source.end \in {"failed", "over"} => source.chunks = <<>>

\* The chunks the source holds are the text read, cut somewhere.
CutInv ==
  ~flowing /\ source.end \in {"open", "eof"} =>
    \E t : /\ Cuts(t, source.chunks)
           /\ t[0] = 0 /\ t[Len(source.chunks)] = CharsOf(pos)
           /\ \A k \in 0..Len(source.chunks) : t[k] <= CharsOf(pos)
           /\ \A k \in 1..Len(source.chunks) :
                LateIn(Ended(t[k - 1]), Ended(t[k])) => cause

\* What flows is handled: the buffer is the text since the last newline, and the
\* events written are those due of the lines that have ended.
HandledInv ==
  flowing /\ source.end \in {"open", "eof"} =>
    /\ buffer = Rest(CharsOf(pos))
    /\ parsed = "open" =>
         /\ ~DoneBy(LinesBy(pos))
         /\ res.end = "open" => res.events = SubSeq(Due, 1, HeardBy(LinesBy(pos)))
    /\ parsed = "eof" => DoneBy(LinesBy(pos))

\* The source ends after the last byte.
EofInv == source.end = "eof" => pos = size

CauseInv == parsed = "failed" \/ source.end = "failed" \/ res.end = "error" => cause

\* What the client has is a beginning of the events due, and all of them when
\* parsedStream has ended.
SentInv ==
  /\ \E n \in 0..Len(Due) : res.events = SubSeq(Due, 1, n)
  /\ parsed = "eof" /\ res.end = "open" => res.events = Due

IInv == TypeInv /\ StartInv /\ CutInv /\ HandledInv /\ EofInv /\ CauseInv /\ SentInv

\* The body stays what it is.
LEMMA Same ==
  ASSUME kinds' = kinds, size' = size
  PROVE  /\ Letters' = Letters /\ Lines' = Lines /\ Due' = Due
         /\ \A x : Rest(x)' = Rest(x)
         /\ \A x : DoneBy(x)' <=> DoneBy(x)
         /\ \A x : HeardBy(x)' = HeardBy(x)
         /\ \A x, y : LateIn(x, y)' <=> LateIn(x, y)
         /\ \A t, c : Cuts(t, c)' <=> Cuts(t, c)
<1>1. Letters' = Letters /\ Lines' = Lines
  BY DEF Letters, Lines
<1>2. Full' = Full
  BY DEF Full
<1>3. Due' = Due
  BY <1>2 DEF Due
<1>4. AllText' = AllText
  BY DEF AllText
<1>5. \A x : Rest(x)' = Rest(x)
  BY <1>4 DEF Rest, Piece
<1>6. \A x : DoneBy(x)' <=> DoneBy(x)
  BY DEF DoneBy
<1>7. \A x : HeardBy(x)' = HeardBy(x)
  BY <1>2 DEF HeardBy
<1>8. \A x, y : LateIn(x, y)' <=> LateIn(x, y)
  BY <1>6 DEF LateIn
<1>9. \A t, c : Cuts(t, c)' <=> Cuts(t, c)
  BY <1>4 DEF Cuts, Piece, Chars
<1> QED BY <1>1, <1>3, <1>5, <1>6, <1>7, <1>8, <1>9

\* With nothing pushed yet, what the buffer holds is handled.
LEMMA StartHandled ==
  ASSUME kinds \in Seq(Kinds), size \in 0..4 * Len(kinds), NEW x \in Chars,
         buffer = Rest(x), parsed = "open" => ~DoneBy(Ended(x)), parsed = "eof" => DoneBy(Ended(x))
  PROVE  Handled([buffer |-> buffer, parsed |-> parsed, out |-> <<>>], x, x)
<1>1. HeardBy(Ended(x)) \in Int
  <2>1. Ended(x) \in Int
    BY EndedAt
  <2> QED BY <2>1, HeardIs, DueListed
<1>2. HeardBy(Ended(x)) + 1 \in Int /\ HeardBy(Ended(x)) < HeardBy(Ended(x)) + 1
  BY <1>1
<1>3. DueIn(Ended(x), Ended(x)) = <<>>
  BY <1>1, <1>2, SubSeqEmpty DEF DueIn
<1> QED BY <1>3 DEF Handled

\* Text that is read splits at most one line in two.
LEMMA RestType ==
  ASSUME kinds \in Seq(Kinds), NEW x \in Chars
  PROVE  Rest(x) \in Seq((DOMAIN kinds) \X {"head", "wide"})
<1> DEFINE a == Ended(x)
           T == (DOMAIN kinds) \X {"head", "wide"}
<1>1. Len(kinds) \in Nat /\ DOMAIN kinds = 1..Len(kinds)
  BY KindsLen
<1>2. a \in 0..Len(kinds) /\ 3 * a \in Chars /\ 3 * a <= x /\ x < 3 * a + 3 /\ x \in Int
      /\ x <= 3 * Len(kinds)
  BY <1>1, EndedAt DEF Chars
<1> HIDE DEF a
<1>3. x \in 3 * a..3 * Len(kinds)
  BY <1>1, <1>2
<1>4. /\ Piece(3 * a, x) \in Seq(Letters) /\ Len(Piece(3 * a, x)) = x - 3 * a
      /\ \A k \in 1..x - 3 * a : /\ 3 * a + k \in 1..3 * Len(kinds)
                                 /\ Piece(3 * a, x)[k] = AllText[3 * a + k]
  BY <1>2, <1>3, PieceAt
<1>5. ASSUME NEW k \in 1..x - 3 * a PROVE Piece(3 * a, x)[k] \in T
  <2>1. a + 1 \in 1..Len(kinds) /\ (3 * a + k = 3 * (a + 1) - 2 \/ 3 * a + k = 3 * (a + 1) - 1)
    BY <1>1, <1>2, <1>4
  <2>2. AllText[3 * a + k] = <<a + 1, "head">> \/ AllText[3 * a + k] = <<a + 1, "wide">>
    BY <2>1, TextAt
  <2>3. <<a + 1, "head">> \in T /\ <<a + 1, "wide">> \in T
    BY <1>1, <2>1
  <2> QED BY <1>4, <2>2, <2>3
<1> DEFINE p == Piece(3 * a, x)
<1>6. p \in [1..x - 3 * a -> T] /\ x - 3 * a \in Nat
  <2>1. DOMAIN p = 1..Len(p) /\ p \in [1..Len(p) -> Letters]
    BY <1>4, LenProperties
  <2>2. x - 3 * a \in Nat
    BY <1>1, <1>2
  <2>3. \A k \in 1..x - 3 * a : p[k] \in T
    BY <1>5
  <2> HIDE DEF p, T
  <2>4. Len(p) = x - 3 * a
    BY <1>4 DEF p
  <2> QED BY <2>1, <2>2, <2>3, <2>4
<1>7. p \in Seq(T)
  <2> HIDE DEF p, T
  <2> QED BY <1>6, FunSeq
<1> QED BY <1>7 DEF Rest, a


LEMMA OnOneText ==
  ASSUME kinds \in Seq(Kinds), size \in 0..4 * Len(kinds),
         NEW x \in Chars, NEW y \in x..3 * Len(kinds), 4 * Ended(y) <= size,
         parsed \in {"open", "eof", "failed", "closed"}, buffer = Rest(x),
         parsed = "open" => ~DoneBy(Ended(x)), parsed = "eof" => DoneBy(Ended(x)),
         NEW r, r = OnAll(<<Piece(x, y)>>)
  PROVE  /\ r.buffer = Rest(y)
         /\ parsed = "open" =>
              /\ r.parsed \in {"open", "eof"} /\ r.out = DueIn(Ended(x), Ended(y))
              /\ r.parsed = "open" <=> ~DoneBy(Ended(y))
         /\ parsed = "eof" =>
              r.parsed = "eof" \/ (r.parsed = "failed" /\ LateIn(Ended(x), Ended(y)))
         /\ parsed \in {"failed", "closed"} => r.parsed = parsed
         /\ parsed # "open" => r.out = <<>>
<1> DEFINE chunks == <<Piece(x, y)>>
           t == [k \in 0..1 |-> IF k = 0 THEN x ELSE y]
<1>1. Len(chunks) = 1 /\ chunks[1] = Piece(x, y) /\ t[0] = x /\ t[1] = y
  OBVIOUS
<1>2. x \in Chars /\ y \in Chars /\ x <= y /\ \A k \in 0..1 : k = 0 \/ k = 1
  BY EndedGrows DEF Chars
<1>3. \A k \in 1..1 : k = 1 /\ k - 1 = 0
  OBVIOUS
<1>4. t \in [0..1 -> Chars]
  BY <1>2
<1> HIDE DEF chunks, t
<1>5. Cuts(t, chunks)
  BY <1>1, <1>2, <1>3, <1>4 DEF Cuts
<1>6. 4 * Ended(x) <= size /\ 4 * Ended(y) <= size
  <2>1. Ended(x) \in Int /\ Ended(y) \in Int /\ Ended(x) <= Ended(y) /\ size \in Int
    BY EndedGrows, KindsLen
  <2> QED BY <2>1
<1>7. \A k \in 0..Len(chunks) : 4 * Ended(t[k]) <= size
  BY <1>1, <1>2, <1>6
<1>8. Handled([buffer |-> buffer, parsed |-> parsed, out |-> <<>>], t[0], t[0])
  BY <1>1, StartHandled
<1>9. /\ Handled(OnAll(chunks), t[0], t[Len(chunks)])
      /\ OnAll(chunks).parsed \in {"open", "eof", "failed", "closed"}
      /\ parsed \in {"failed", "closed"} => OnAll(chunks).parsed = parsed
      /\ OnAll(chunks).parsed = "closed" => parsed = "closed"
      /\ OnAll(chunks).parsed = "failed" =>
           parsed = "failed" \/ \E k \in 1..Len(chunks) : LateIn(Ended(t[k - 1]), Ended(t[k]))
      /\ parsed # "open" => OnAll(chunks).parsed # "open" /\ OnAll(chunks).out = <<>>
  <2>1. Len(chunks) \in Nat
    BY <1>1
  <2> QED BY <1>5, <1>7, <1>8, <2>1, OnAllText
<1>10. OnAll(chunks) = r
  BY DEF chunks
<1>11. /\ Handled(r, x, y)
       /\ r.parsed \in {"open", "eof", "failed", "closed"}
       /\ parsed \in {"failed", "closed"} => r.parsed = parsed
       /\ r.parsed = "closed" => parsed = "closed"
       /\ r.parsed = "failed" => parsed = "failed" \/ LateIn(Ended(x), Ended(y))
       /\ parsed # "open" => r.parsed # "open" /\ r.out = <<>>
  BY <1>1, <1>3, <1>9, <1>10
<1>12. LateIn(Ended(x), Ended(y)) => DoneBy(Ended(x))
  BY DEF LateIn
<1>13. ASSUME parsed = "open"
       PROVE  /\ r.parsed \in {"open", "eof"} /\ r.out = DueIn(Ended(x), Ended(y))
              /\ r.parsed = "open" <=> ~DoneBy(Ended(y))
  BY <1>11, <1>12, <1>13 DEF Handled
<1>14. ASSUME parsed = "eof"
       PROVE  r.parsed = "eof" \/ (r.parsed = "failed" /\ LateIn(Ended(x), Ended(y)))
  BY <1>11, <1>14
<1>15. r.buffer = Rest(y)
  BY <1>11 DEF Handled
<1> QED BY <1>11, <1>13, <1>14, <1>15

\* Nothing handled
LEMMA OnNone ==
  OnAll(<<>>) = [buffer |-> buffer, parsed |-> parsed, out |-> <<>>]
<1>1. Len(<<>>) = 0
  OBVIOUS
<1>2. \E after : /\ after[0] = [buffer |-> buffer, parsed |-> parsed, out |-> <<>>]
                 /\ OnAll(<<>>) = after[0]
  BY <1>1, OnAllIs
<1> QED BY <1>2

\* What is written after the events heard by line a
LEMMA WriteText ==
  ASSUME kinds \in Seq(Kinds), size \in 0..4 * Len(kinds), NEW a \in Int, NEW b \in Int, a <= b
  PROVE  /\ SubSeq(Due, 1, HeardBy(a)) \o DueIn(a, b) = SubSeq(Due, 1, HeardBy(b))
         /\ HeardBy(b) \in 0..Len(Due)
         /\ DoneBy(b) \/ size < 4 * (b + 1) => SubSeq(Due, 1, HeardBy(b)) = Due
<1>1. Due \in Seq(Lines) /\ Len(Due) \in Nat
  BY DueListed
<1>2. HeardBy(a) \in 0..Len(Due) /\ HeardBy(b) \in 0..Len(Due) /\ HeardBy(a) <= HeardBy(b)
  BY HeardIs, HeardGrows
<1>3. /\ 1 \in 1..Len(Due) + 1 /\ HeardBy(a) \in 1 - 1..Len(Due)
      /\ HeardBy(b) \in HeardBy(a)..Len(Due)
  BY <1>1, <1>2
<1>4. SubSeq(Due, 1, HeardBy(a)) \o DueIn(a, b) = SubSeq(Due, 1, HeardBy(b))
  BY <1>1, <1>3, ConcatAdjacentSubSeq DEF DueIn
<1>5. ASSUME DoneBy(b) \/ size < 4 * (b + 1) PROVE SubSeq(Due, 1, HeardBy(b)) = Due
  <2>1. HeardBy(b) = Len(Due)
    BY <1>5, HeardIs
  <2> QED BY <1>1, <2>1, SubSeqFull
<1> QED BY <1>2, <1>4, <1>5

LEMMA PrefixType ==
  ASSUME kinds \in Seq(Kinds), size \in 0..4 * Len(kinds), NEW n \in 0..Len(Due)
  PROVE  SubSeq(Due, 1, n) \in Seq(Lines) /\ Len(SubSeq(Due, 1, n)) = n
<1>1. Due \in Seq(Lines) /\ Len(Due) \in Nat
  BY DueListed
<1>2. 1 \in Int /\ n \in Int /\ \A i \in 1..n : i \in 1..Len(Due)
  BY <1>1
<1>3. \A i \in 1..n : Due[i] \in Lines
  BY <1>1, <1>2, ElementOfSeq
<1>4. /\ SubSeq(Due, 1, n) \in Seq(Lines)
      /\ Len(SubSeq(Due, 1, n)) = IF 1 <= n THEN n - 1 + 1 ELSE 0
  BY <1>2, <1>3, SubSeqProperties
<1>5. (IF 1 <= n THEN n - 1 + 1 ELSE 0) = n
  BY <1>1
<1> QED BY <1>4, <1>5

\* What a read of n bytes brings
LEMMA ReadText ==
  ASSUME TypeInv, NEW n \in 1..4 * MaxLines, n <= size - pos, NEW x, x = CharsOf(pos),
         NEW y, y = CharsOf(pos + n), NEW d, d = Decode(held \o SubSeq(Body, pos + 1, pos + n))
  PROVE  /\ x \in Chars /\ y \in x..3 * Len(kinds) /\ 4 * Ended(y) <= size
         /\ d.text = Piece(x, y) /\ d.text \in Seq(Letters) /\ d.held = HeldAt(pos + n)
         /\ pos + n \in 0..size
         /\ LateEvent(n) <=> LateIn(Ended(x), Ended(y))
<1> DEFINE L == Len(kinds)
<1>1. /\ kinds \in Seq(Kinds) /\ L \in Nat /\ size \in 0..4 * L /\ pos \in 0..size
      /\ held = HeldAt(pos) /\ DOMAIN kinds = 1..L
  BY KindsLen DEF TypeInv
<1>2. n \in Int /\ 1 <= n
  BY SseBounds
<1>3. /\ pos \in 0..4 * L /\ n \in 1..4 * L - pos /\ pos + n \in pos..4 * L
      /\ pos + n \in 0..4 * L /\ pos + n \in 0..size /\ size \in Int /\ pos \in Int
  BY <1>1, <1>2
<1>4. /\ x \in Chars /\ x <= y /\ \A i \in Int : i <= Ended(x) <=> 4 * i <= pos
  BY <1>1, <1>3, CharsOfIs DEF L
<1>5. /\ y \in Chars /\ 4 * Ended(y) <= pos + n
      /\ \A i \in Int : i <= Ended(y) <=> 4 * i <= pos + n
  BY <1>1, <1>3, CharsOfIs DEF L
<1>6. y \in x..3 * L
  BY <1>1, <1>4, <1>5 DEF Chars, L
<1>7. 4 * Ended(y) <= size
  <2>1. Ended(y) \in Int
    BY <1>1, <1>5, EndedAt
  <2> QED BY <1>2, <1>3, <1>5, <2>1
<1>8. d.text = Piece(x, y) /\ d.held = HeldAt(pos + n)
  <2>1. /\ Decode(held \o SubSeq(Body, pos + 1, pos + n)).text = Piece(CharsOf(pos), CharsOf(pos + n))
        /\ Decode(held \o SubSeq(Body, pos + 1, pos + n)).held = HeldAt(pos + n)
    BY <1>1, <1>3, DecodeText DEF L
  <2> QED BY <2>1
<1>9. d.text \in Seq(Letters)
  BY <1>1, <1>4, <1>6, <1>8, PieceAt DEF L
<1>10. LateEvent(n) <=> LateIn(Ended(x), Ended(y))
  <2>1. ASSUME NEW i \in DOMAIN kinds
        PROVE  /\ 4 * i <= pos <=> i <= Ended(x)
               /\ 4 * i \in pos + 1..pos + n <=> Ended(x) < i /\ i <= Ended(y)
    <3>1. i \in Int
      BY <1>1
    <3>2. /\ 4 * i <= pos <=> i <= Ended(x)
          /\ 4 * i <= pos + n <=> i <= Ended(y)
      BY <1>4, <1>5, <3>1
    <3>3. Ended(x) \in Int
      BY <1>1, <1>4, EndedAt
    <3> QED BY <1>2, <1>3, <3>1, <3>2, <3>3
  <2> QED BY <2>1 DEF LateEvent, LateIn, DoneBy
<1> QED BY <1>3, <1>4, <1>6, <1>7, <1>8, <1>9, <1>10 DEF L



-----------------------------------------------------------------------------
(* The invariant holds *)

LEMMA InitInv ==
  Init => IInv
<1> SUFFICES ASSUME Init PROVE IInv
  OBVIOUS
<1>1. kinds \in Seq(Kinds) /\ Len(kinds) <= MaxLines
  <2>1. PICK n \in 0..MaxLines : kinds \in [1..n -> Kinds]
    BY DEF Init
  <2>2. n \in Nat /\ n <= MaxLines
    BY SseBounds
  <2> QED BY <2>1, <2>2, FunSeq
<1>2. /\ size \in 0..4 * Len(kinds) /\ pos = 0 /\ held = <<>> /\ flowing = FALSE /\ buffer = <<>>
      /\ source = [chunks |-> <<>>, end |-> "open"] /\ parsed = "open" /\ pc = "call"
      /\ res = [events |-> <<>>, end |-> "open"] /\ cause = FALSE
  BY DEF Init
<1>3. Len(kinds) \in Nat /\ size \in Nat
  BY <1>1, <1>2, KindsLen
<1>4. CharsOf(0) = 0 /\ HeldAt(0) = <<>>
  <2>1. 0 \div 4 = 0 /\ 0 % 4 = 0
    OBVIOUS
  <2> QED BY <2>1 DEF CharsOf, HeldAt
<1>5. TypeInv
  <2>1. <<>> \in Seq(Seq(Letters)) /\ <<>> \in Seq((DOMAIN kinds) \X {"head", "wide"})
        /\ <<>> \in Seq(Lines)
    BY EmptySeq
  <2>2. pos \in 0..size /\ held = HeldAt(pos)
    BY <1>2, <1>3, <1>4
  <2>3. /\ source \in [chunks : Seq(Seq(Letters)), end : {"open", "eof", "failed", "over"}]
        /\ res \in [events : Seq(Lines), end : {"open", "refused", "done", "error", "gone"}]
    BY <1>2, <2>1
  <2>4. buffer \in Seq((DOMAIN kinds) \X {"head", "wide"})
    BY <1>2, <2>1
  <2>5. /\ size \in 0..4 * Len(kinds) /\ flowing \in BOOLEAN /\ cause \in BOOLEAN
        /\ parsed \in {"open", "eof", "failed", "closed"} /\ pc \in {"call", "refused", "stream"}
    BY <1>2
  <2> QED BY <1>1, <2>2, <2>3, <2>4, <2>5 DEF TypeInv
<1>6. CutInv
  <2> DEFINE t == [k \in 0..0 |-> 0]
  <2>1. Len(source.chunks) = 0 /\ t[0] = 0
    BY <1>2
  <2>2. t \in [0..0 -> Chars]
    BY <1>3 DEF Chars
  <2>3. Cuts(t, source.chunks)
    BY <2>1, <2>2 DEF Cuts
  <2>4. \A k \in 0..0 : k = 0
    OBVIOUS
  <2> HIDE DEF t
  <2>5. \A k \in 0..Len(source.chunks) : t[k] <= CharsOf(pos)
    BY <1>2, <1>4, <2>1, <2>4
  <2> QED BY <1>2, <1>4, <2>1, <2>3, <2>5 DEF CutInv
<1>7. SentInv
  <2>1. 0 \in 0..Len(Due)
    BY <1>1, <1>2, DueListed
  <2>2. SubSeq(Due, 1, 0) = <<>>
    BY SubSeqEmpty
  <2> QED BY <1>2, <2>1, <2>2 DEF SentInv
<1>8. StartInv /\ HandledInv /\ EofInv /\ CauseInv
  BY <1>2 DEF StartInv, HandledInv, EofInv, CauseInv
<1> QED BY <1>5, <1>6, <1>7, <1>8 DEF IInv

\* The steps that neither read nor hand on text: what they leave alone, ...
QuietBody == UNCHANGED <<kinds, size, pos, held, flowing, buffer>>

\* ... that no event is written, and no response opened or cause forgotten, ...
QuietTypes ==
  /\ source' \in [chunks : Seq(Seq(Letters)), end : {"open", "eof", "failed", "over"}]
  /\ parsed' \in {"open", "eof", "failed", "closed"} /\ pc' \in {"call", "refused", "stream"}
  /\ cause' \in BOOLEAN /\ (cause => cause')
  /\ res' \in [events : Seq(Lines), end : {"open", "refused", "done", "error", "gone"}]
  /\ res'.events = res.events /\ (res'.end = "open" => res.end = "open")

\* ... and how the streams may end
QuietEnds ==
  /\ source'.end \in {"open", "eof"} =>
       source'.chunks = source.chunks /\ source.end \in {"open", "eof"}
  /\ flowing \/ source'.end \in {"failed", "over"} => source'.chunks = <<>>
  /\ source'.end = "eof" => pos = size
  /\ \/ parsed' = parsed \/ parsed' \in {"failed", "closed"}
     \/ /\ parsed' = "eof" /\ parsed = "open" /\ flowing
        /\ source.end = "eof" /\ source'.end = "over"
  /\ parsed' = "failed" \/ source'.end = "failed" \/ res'.end = "error" => cause'

LEMMA QuietKeeps ==
  ASSUME IInv, QuietBody, QuietTypes, QuietEnds
  PROVE  IInv'
<1> USE DEF QuietBody, QuietTypes, QuietEnds
<1>1. /\ Letters' = Letters /\ Lines' = Lines /\ Due' = Due
      /\ \A x : Rest(x)' = Rest(x)
      /\ \A x : DoneBy(x)' <=> DoneBy(x)
      /\ \A x : HeardBy(x)' = HeardBy(x)
      /\ \A x, y : LateIn(x, y)' <=> LateIn(x, y)
      /\ \A t, c : Cuts(t, c)' <=> Cuts(t, c)
  BY Same
<1>2. TypeInv /\ StartInv /\ CutInv /\ HandledInv /\ EofInv /\ CauseInv /\ SentInv
  BY DEF IInv
<1>3. TypeInv'
  BY <1>1, <1>2 DEF TypeInv
<1>4. StartInv'
  BY <1>2 DEF StartInv
<1>5. CutInv'
  <2> SUFFICES ASSUME ~flowing', source'.end \in {"open", "eof"}
               PROVE  \E t : /\ Cuts(t, source.chunks)'
                             /\ t[0] = 0 /\ t[Len(source'.chunks)] = CharsOf(pos')
                             /\ \A k \in 0..Len(source'.chunks) : t[k] <= CharsOf(pos')
                             /\ \A k \in 1..Len(source'.chunks) :
                                  LateIn(Ended(t[k - 1]), Ended(t[k]))' => cause'
    BY DEF CutInv
  <2>1. PICK t : /\ Cuts(t, source.chunks)
                 /\ t[0] = 0 /\ t[Len(source.chunks)] = CharsOf(pos)
                 /\ \A k \in 0..Len(source.chunks) : t[k] <= CharsOf(pos)
                 /\ \A k \in 1..Len(source.chunks) :
                      LateIn(Ended(t[k - 1]), Ended(t[k])) => cause
    BY <1>2 DEF CutInv
  <2>2. source'.chunks = source.chunks /\ CharsOf(pos') = CharsOf(pos)
    OBVIOUS
  <2>3. Cuts(t, source.chunks)'
    <3>1. Cuts(t, source.chunks)' <=> Cuts(t, source'.chunks)
      BY <1>1
    <3> QED BY <2>1, <2>2, <3>1
  <2>4. \A k \in 1..Len(source'.chunks) : LateIn(Ended(t[k - 1]), Ended(t[k]))' => cause'
    BY <1>1, <2>1, <2>2
  <2> QED BY <2>1, <2>2, <2>3, <2>4
<1>6. HandledInv'
  <2> SUFFICES ASSUME flowing', source'.end \in {"open", "eof"}
               PROVE  /\ buffer' = Rest(CharsOf(pos))'
                      /\ parsed' = "open" =>
                           /\ ~DoneBy(LinesBy(pos))'
                           /\ res'.end = "open" =>
                                res'.events = SubSeq(Due, 1, HeardBy(LinesBy(pos)))'
                      /\ parsed' = "eof" => DoneBy(LinesBy(pos))'
    BY DEF HandledInv
  <2>1. /\ Rest(CharsOf(pos))' = Rest(CharsOf(pos)) /\ (DoneBy(LinesBy(pos))' <=> DoneBy(LinesBy(pos)))
        /\ HeardBy(LinesBy(pos))' = HeardBy(LinesBy(pos))
    BY <1>1 DEF LinesBy
  <2>2. flowing /\ source.end \in {"open", "eof"}
    OBVIOUS
  <2>3. parsed' = "open" => parsed = "open"
    OBVIOUS
  <2>4. parsed' = "eof" => parsed = "eof"
    OBVIOUS
  <2> QED BY <1>1, <1>2, <2>1, <2>2, <2>3, <2>4 DEF HandledInv
<1>7. EofInv' /\ CauseInv'
  BY DEF EofInv, CauseInv
<1>8. SentInv'
  <2>1. \E n \in 0..Len(Due)' : res'.events = SubSeq(Due, 1, n)'
    BY <1>1, <1>2 DEF SentInv
  <2>2. ASSUME parsed' = "eof", res'.end = "open" PROVE res'.events = Due
    <3>1. CASE parsed = "eof"
      BY <1>2, <2>2, <3>1 DEF SentInv
    <3>2. CASE parsed # "eof"
      <4>1. flowing /\ parsed = "open" /\ source.end = "eof" /\ pos = size /\ res.end = "open"
        BY <1>2, <2>2, <3>2 DEF EofInv
      <4>2. res.events = SubSeq(Due, 1, HeardBy(LinesBy(pos)))
        BY <1>2, <4>1 DEF HandledInv
      <4>3. /\ kinds \in Seq(Kinds) /\ size \in 0..4 * Len(kinds) /\ pos \in 0..4 * Len(kinds)
            /\ LinesBy(pos) \in Int /\ size < 4 * (LinesBy(pos) + 1)
        <5>1. kinds \in Seq(Kinds) /\ size \in 0..4 * Len(kinds) /\ pos \in 0..4 * Len(kinds)
          BY <1>2, <4>1 DEF TypeInv
        <5>2. CharsOf(pos) \in Chars /\ pos < 4 * (Ended(CharsOf(pos)) + 1)
          BY <5>1, CharsOfIs
        <5>3. Ended(CharsOf(pos)) \in Int
          BY <5>1, <5>2, EndedAt
        <5> QED BY <4>1, <5>1, <5>2, <5>3 DEF LinesBy
      <4>4. SubSeq(Due, 1, HeardBy(LinesBy(pos))) = Due
        <5> DEFINE b == LinesBy(pos)
        <5>1. b \in Int /\ b <= b /\ size < 4 * (b + 1)
          BY <4>3
        <5> HIDE DEF b
        <5>2. SubSeq(Due, 1, HeardBy(b)) = Due
          BY <4>3, <5>1, WriteText
        <5> QED BY <5>2 DEF b
      <4> QED BY <4>2, <4>4
    <3> QED BY <3>1, <3>2
  <2> QED BY <1>1, <2>1, <2>2 DEF SentInv
<1> QED BY <1>3, <1>4, <1>5, <1>6, <1>7, <1>8 DEF IInv


LEMMA QuietSteps ==
  ASSUME IInv,
         \/ Refuse \/ Open \/ ReadDone \/ ReadFail \/ SourceEnd \/ SourceError
         \/ EmitEnd \/ EmitError \/ Disconnect
  PROVE  IInv'
<1>1. TypeInv /\ StartInv /\ EofInv /\ CauseInv
  BY DEF IInv
<1>2. /\ source \in [chunks : Seq(Seq(Letters)), end : {"open", "eof", "failed", "over"}]
      /\ parsed \in {"open", "eof", "failed", "closed"} /\ pc \in {"call", "refused", "stream"}
      /\ cause \in BOOLEAN
      /\ res \in [events : Seq(Lines), end : {"open", "refused", "done", "error", "gone"}]
  BY <1>1 DEF TypeInv
<1>3. /\ flowing \/ source.end \in {"failed", "over"} => source.chunks = <<>>
      /\ source.end = "eof" => pos = size
      /\ parsed = "failed" \/ source.end = "failed" \/ res.end = "error" => cause
      /\ ~flowing => parsed # "eof"
  BY <1>1 DEF StartInv, EofInv, CauseInv
<1>4. <<>> \in Seq(Seq(Letters))
  BY EmptySeq
<1>5. ASSUME NEW how \in {"open", "refused", "done", "error", "gone"}
      PROVE  /\ End(how) \in [events : Seq(Lines), end : {"open", "refused", "done", "error", "gone"}]
             /\ End(how).events = res.events
             /\ End(how).end = IF res.end = "open" THEN how ELSE res.end
  BY <1>2 DEF End
<1>6. /\ parsed = "open" => Push(parsed, <<EOF>>).parsed = "eof"
      /\ parsed = "eof" => Push(parsed, <<EOF>>).parsed = "eof"
      /\ parsed \in {"failed", "closed"} => Push(parsed, <<EOF>>).parsed = parsed
  <2>1. Push("open", <<EOF>>).parsed = "eof"
    <3>1. <<>> \in Seq({}) /\ EOF \notin {} /\ <<EOF>> \in {<<>>, <<EOF>>} /\ <<EOF>> # <<>>
      BY EmptySeq
    <3>2. Push("open", <<>> \o <<EOF>>) = [out |-> <<>>, parsed |-> "eof"]
      BY <3>1, PushOpen
    <3>3. <<>> \o <<EOF>> = <<EOF>>
      OBVIOUS
    <3> QED BY <3>2, <3>3
  <2>2. Push("eof", <<EOF>>).parsed = "eof"
    <3>1. ~\E k \in DOMAIN <<EOF>> : <<EOF>>[k] # EOF
      OBVIOUS
    <3> DEFINE p == <<EOF>>
    <3> HIDE DEF p
    <3>2. Push("eof", p).parsed = IF \E k \in DOMAIN p : p[k] # EOF THEN "failed" ELSE "eof"
      BY PushEof
    <3>3. ~\E k \in DOMAIN p : p[k] # EOF
      BY <3>1 DEF p
    <3>4. Push("eof", p).parsed = "eof"
      BY <3>2, <3>3
    <3> QED BY <3>4 DEF p
  <2>3. parsed \in {"failed", "closed"} => Push(parsed, <<EOF>>).parsed = parsed
    BY PushClosed
  <2> QED BY <2>1, <2>2, <2>3
<1>7. CASE Refuse
  <2>1. QuietBody
    BY <1>7 DEF Refuse, QuietBody
  <2>2. QuietTypes
    BY <1>7, <1>2, <1>3, <1>5 DEF Refuse, QuietTypes
  <2>3. QuietEnds
    BY <1>7, <1>2, <1>3, <1>5 DEF Refuse, QuietEnds
  <2> QED BY <2>1, <2>2, <2>3, QuietKeeps
<1>8. CASE Open
  <2>1. QuietBody
    BY <1>8 DEF Open, QuietBody
  <2>2. QuietTypes
    BY <1>8, <1>2, <1>3 DEF Open, QuietTypes
  <2>3. QuietEnds
    BY <1>8, <1>2, <1>3 DEF Open, QuietEnds
  <2> QED BY <2>1, <2>2, <2>3, QuietKeeps
<1>9. CASE ReadDone
  <2>1. QuietBody
    BY <1>9 DEF ReadDone, QuietBody
  <2>2. QuietTypes
    BY <1>9, <1>2, <1>3 DEF ReadDone, QuietTypes
  <2>3. QuietEnds
    BY <1>9, <1>2, <1>3 DEF ReadDone, QuietEnds
  <2> QED BY <2>1, <2>2, <2>3, QuietKeeps
<1>10. CASE ReadFail
  <2>1. QuietBody
    BY <1>10 DEF ReadFail, QuietBody
  <2>2. QuietTypes
    BY <1>10, <1>2, <1>3, <1>4 DEF ReadFail, QuietTypes
  <2>3. QuietEnds
    BY <1>10, <1>2, <1>3, <1>4 DEF ReadFail, QuietEnds
  <2> QED BY <2>1, <2>2, <2>3, QuietKeeps
<1>11. CASE SourceEnd
  <2>1. QuietBody
    BY <1>11 DEF SourceEnd, QuietBody
  <2>2. QuietTypes
    BY <1>11, <1>2, <1>3, <1>6 DEF SourceEnd, QuietTypes
  <2>3. QuietEnds
    BY <1>11, <1>2, <1>3, <1>6 DEF SourceEnd, QuietEnds
  <2> QED BY <2>1, <2>2, <2>3, QuietKeeps
<1>12. CASE SourceError
  <2>1. QuietBody
    BY <1>12 DEF SourceError, QuietBody
  <2>2. QuietTypes
    BY <1>12, <1>2, <1>3 DEF SourceError, QuietTypes
  <2>3. QuietEnds
    BY <1>12, <1>2, <1>3 DEF SourceError, QuietEnds
  <2> QED BY <2>1, <2>2, <2>3, QuietKeeps
<1>13. CASE EmitEnd
  <2>1. QuietBody
    BY <1>13 DEF EmitEnd, QuietBody
  <2>2. QuietTypes
    BY <1>13, <1>2, <1>3, <1>5 DEF EmitEnd, QuietTypes
  <2>3. QuietEnds
    BY <1>13, <1>2, <1>3, <1>5 DEF EmitEnd, QuietEnds
  <2> QED BY <2>1, <2>2, <2>3, QuietKeeps
<1>14. CASE EmitError
  <2>1. QuietBody
    BY <1>14 DEF EmitError, QuietBody
  <2>2. QuietTypes
    BY <1>14, <1>2, <1>3, <1>5 DEF EmitError, QuietTypes
  <2>3. QuietEnds
    BY <1>14, <1>2, <1>3, <1>5 DEF EmitError, QuietEnds
  <2> QED BY <2>1, <2>2, <2>3, QuietKeeps
<1>15. CASE Disconnect
  <2>1. QuietBody
    BY <1>15 DEF Disconnect, QuietBody
  <2>2. QuietTypes
    BY <1>15, <1>2, <1>3, <1>5 DEF Disconnect, QuietTypes
  <2>3. QuietEnds
    BY <1>15, <1>2, <1>3, <1>5 DEF Disconnect, QuietEnds
  <2> QED BY <2>1, <2>2, <2>3, QuietKeeps
<1> QED BY <1>7, <1>8, <1>9, <1>10, <1>11, <1>12, <1>13, <1>14, <1>15


\* What a read does to streams that flow
LEMMA ReadFlowing ==
  ASSUME IInv, NEW n \in 1..4 * MaxLines, Read(n), flowing,
         NEW x, x = CharsOf(pos), NEW y, y = CharsOf(pos + n)
  PROVE  /\ buffer' = Rest(y) /\ source' = source
         /\ parsed = "open" =>
              /\ parsed' \in {"open", "eof"} /\ (parsed' = "open" <=> ~DoneBy(Ended(y)))
              /\ res.end = "open" =>
                   res' = [res EXCEPT !.events = SubSeq(Due, 1, HeardBy(Ended(y)))]
         /\ parsed = "eof" =>
              parsed' = "eof" \/ (parsed' = "failed" /\ LateIn(Ended(x), Ended(y)))
         /\ parsed \in {"failed", "closed"} => parsed' = parsed
         /\ parsed # "open" \/ res.end # "open" => res' = res
<1> DEFINE d == Decode(held \o SubSeq(Body, pos + 1, pos + n))
           st == OnAll(<<d.text>>)
<1>1. /\ n <= size - pos /\ source.end = "open"
      /\ buffer' = st.buffer /\ parsed' = st.parsed /\ res' = Write(st.out) /\ source' = source
  BY DEF Read
<1>2. TypeInv /\ HandledInv
  BY DEF IInv
<1>3. /\ kinds \in Seq(Kinds) /\ size \in 0..4 * Len(kinds)
      /\ parsed \in {"open", "eof", "failed", "closed"}
      /\ res \in [events : Seq(Lines), end : {"open", "refused", "done", "error", "gone"}]
  BY <1>2 DEF TypeInv
<1>4. /\ x \in Chars /\ y \in x..3 * Len(kinds) /\ 4 * Ended(y) <= size /\ d.text = Piece(x, y)
  <2> HIDE DEF d
  <2>1. d = Decode(held \o SubSeq(Body, pos + 1, pos + n))
    BY DEF d
  <2> QED BY <1>1, <1>2, <2>1, ReadText
<1>5. /\ buffer = Rest(x)
      /\ parsed = "open" =>
           /\ ~DoneBy(Ended(x))
           /\ res.end = "open" => res.events = SubSeq(Due, 1, HeardBy(Ended(x)))
      /\ parsed = "eof" => DoneBy(Ended(x))
  BY <1>1, <1>2 DEF HandledInv, LinesBy
<1> HIDE DEF d
<1>6. st = OnAll(<<Piece(x, y)>>)
  BY <1>4
<1> HIDE DEF st
<1>7. /\ st.buffer = Rest(y)
      /\ parsed = "open" =>
           /\ st.parsed \in {"open", "eof"} /\ st.out = DueIn(Ended(x), Ended(y))
           /\ st.parsed = "open" <=> ~DoneBy(Ended(y))
      /\ parsed = "eof" =>
           st.parsed = "eof" \/ (st.parsed = "failed" /\ LateIn(Ended(x), Ended(y)))
      /\ parsed \in {"failed", "closed"} => st.parsed = parsed
      /\ parsed # "open" => st.out = <<>>
  BY <1>3, <1>4, <1>5, <1>6, OnOneText
<1>8. SubSeq(Due, 1, HeardBy(Ended(x))) \o DueIn(Ended(x), Ended(y)) =
        SubSeq(Due, 1, HeardBy(Ended(y)))
  <2>1. Ended(x) \in Int /\ Ended(y) \in Int /\ Ended(x) <= Ended(y)
    BY <1>3, <1>4, EndedGrows
  <2> QED BY <1>3, <2>1, WriteText
<1>9. ASSUME parsed = "open", res.end = "open"
      PROVE  res' = [res EXCEPT !.events = SubSeq(Due, 1, HeardBy(Ended(y)))]
  <2>1. res.events \o st.out = SubSeq(Due, 1, HeardBy(Ended(y)))
    BY <1>5, <1>7, <1>8, <1>9
  <2> QED BY <1>1, <1>9, <2>1 DEF Write
<1>10. ASSUME parsed # "open" \/ res.end # "open" PROVE res' = res
  <2>1. CASE res.end # "open"
    BY <1>1, <2>1 DEF Write
  <2>2. CASE parsed # "open"
    <3>1. res.events \o <<>> = res.events
      BY <1>3, ConcatEmptySeq
    <3>2. [res EXCEPT !.events = res.events] = res
      BY <1>3
    <3> QED BY <1>1, <1>7, <2>2, <3>1, <3>2 DEF Write
  <2> QED BY <1>10, <2>1, <2>2
<1> QED BY <1>1, <1>7, <1>9, <1>10

LEMMA ReadKeeps ==
  ASSUME IInv, NEW n \in 1..4 * MaxLines, Read(n)
  PROVE  IInv'
<1> DEFINE x == CharsOf(pos)
           y == CharsOf(pos + n)
           d == Decode(held \o SubSeq(Body, pos + 1, pos + n))
<1>1. /\ n <= size - pos /\ source.end = "open" /\ pos' = pos + n /\ held' = d.held
      /\ kinds' = kinds /\ size' = size /\ flowing' = flowing /\ pc' = pc
      /\ cause' = (cause \/ LateEvent(n))
  BY DEF Read
<1>2. TypeInv /\ StartInv /\ CutInv /\ HandledInv /\ EofInv /\ CauseInv /\ SentInv
  BY DEF IInv
<1>3. /\ x \in Chars /\ y \in x..3 * Len(kinds) /\ 4 * Ended(y) <= size
      /\ d.text = Piece(x, y) /\ d.text \in Seq(Letters) /\ d.held = HeldAt(pos + n)
      /\ pos + n \in 0..size
      /\ LateEvent(n) <=> LateIn(Ended(x), Ended(y))
  <2> HIDE DEF d, x, y
  <2>1. d = Decode(held \o SubSeq(Body, pos + 1, pos + n)) /\ x = CharsOf(pos) /\ y = CharsOf(pos + n)
    BY DEF d, x, y
  <2> QED BY <1>1, <1>2, <2>1, ReadText
<1>4. /\ kinds \in Seq(Kinds) /\ Len(kinds) <= MaxLines /\ size \in 0..4 * Len(kinds)
      /\ cause \in BOOLEAN /\ flowing \in BOOLEAN
      /\ parsed \in {"open", "eof", "failed", "closed"} /\ pc \in {"call", "refused", "stream"}
      /\ source \in [chunks : Seq(Seq(Letters)), end : {"open", "eof", "failed", "over"}]
      /\ buffer \in Seq((DOMAIN kinds) \X {"head", "wide"})
      /\ res \in [events : Seq(Lines), end : {"open", "refused", "done", "error", "gone"}]
  BY <1>2 DEF TypeInv
<1>5. /\ Letters' = Letters /\ Lines' = Lines /\ Due' = Due
      /\ \A z : Rest(z)' = Rest(z)
      /\ \A z : DoneBy(z)' <=> DoneBy(z)
      /\ \A z : HeardBy(z)' = HeardBy(z)
      /\ \A z, w : LateIn(z, w)' <=> LateIn(z, w)
      /\ \A t, c : Cuts(t, c)' <=> Cuts(t, c)
  BY <1>1, Same
<1>6. /\ x = CharsOf(pos) /\ y = CharsOf(pos') /\ cause' = (cause \/ LateIn(Ended(x), Ended(y)))
      /\ cause' \in BOOLEAN
  BY <1>1, <1>3
<1>7. y \in Chars /\ Ended(y) \in Int /\ x \in Int /\ y \in Int /\ x <= y
  <2>1. y \in Chars /\ Ended(y) \in Int
    BY <1>3, <1>4, EndedGrows
  <2> QED BY <1>3, <2>1 DEF Chars
<1> HIDE DEF x, y, d
<1>8. CASE flowing
  <2>1. /\ buffer' = Rest(y) /\ source' = source
        /\ parsed = "open" =>
             /\ parsed' \in {"open", "eof"} /\ (parsed' = "open" <=> ~DoneBy(Ended(y)))
             /\ res.end = "open" =>
                  res' = [res EXCEPT !.events = SubSeq(Due, 1, HeardBy(Ended(y)))]
        /\ parsed = "eof" =>
             parsed' = "eof" \/ (parsed' = "failed" /\ LateIn(Ended(x), Ended(y)))
        /\ parsed \in {"failed", "closed"} => parsed' = parsed
        /\ parsed # "open" \/ res.end # "open" => res' = res
    BY <1>8, ReadFlowing DEF x, y
  <2>2. HeardBy(Ended(y)) \in 0..Len(Due)
        /\ (DoneBy(Ended(y)) => SubSeq(Due, 1, HeardBy(Ended(y))) = Due)
    <3>1. Ended(y) <= Ended(y)
      BY <1>7
    <3> QED BY <1>4, <1>7, <3>1, WriteText
  <2>3. SubSeq(Due, 1, HeardBy(Ended(y))) \in Seq(Lines)
    BY <1>4, <2>2, PrefixType
  <2>4. res' \in [events : Seq(Lines), end : {"open", "refused", "done", "error", "gone"}]
        /\ res'.end = res.end
    <3>1. CASE parsed = "open" /\ res.end = "open"
      BY <1>4, <2>1, <2>3, <3>1
    <3>2. CASE parsed # "open" \/ res.end # "open"
      BY <1>4, <2>1, <3>2
    <3> QED BY <3>1, <3>2
  <2>5. parsed' \in {"open", "eof", "failed", "closed"}
    BY <1>4, <2>1
  <2>6. TypeInv'
    <3>1. buffer' \in Seq((DOMAIN kinds) \X {"head", "wide"})
      BY <1>4, <1>7, <2>1, RestType
    <3> QED BY <1>1, <1>3, <1>4, <1>5, <1>6, <2>1, <2>4, <2>5, <3>1 DEF TypeInv
  <2>7. StartInv' /\ CutInv' /\ EofInv'
    BY <1>1, <1>2, <1>8, <2>1 DEF StartInv, CutInv, EofInv
  <2>8. HandledInv'
    <3>1. /\ Rest(CharsOf(pos))' = Rest(y) /\ (DoneBy(LinesBy(pos))' <=> DoneBy(Ended(y)))
          /\ HeardBy(LinesBy(pos))' = HeardBy(Ended(y))
      BY <1>5, <1>6 DEF LinesBy
    <3>2. ASSUME parsed' = "open"
          PROVE  /\ ~DoneBy(Ended(y))
                 /\ res'.end = "open" => res'.events = SubSeq(Due, 1, HeardBy(Ended(y)))
      <4>1. parsed = "open"
        BY <1>4, <2>1, <3>2
      <4>2. ~DoneBy(Ended(y))
        BY <2>1, <3>2, <4>1
      <4>3. ASSUME res'.end = "open" PROVE res'.events = SubSeq(Due, 1, HeardBy(Ended(y)))
        <5>1. res.end = "open"
          BY <2>4, <4>3
        <5> QED BY <1>4, <2>1, <4>1, <5>1
      <4> QED BY <4>2, <4>3
    <3>3. ASSUME parsed' = "eof" PROVE DoneBy(Ended(y))
      <4>1. CASE parsed = "open"
        BY <2>1, <3>3, <4>1
      <4>2. CASE parsed = "eof"
        <5>1. DoneBy(LinesBy(pos))
          BY <1>1, <1>2, <1>8, <4>2 DEF HandledInv
        <5>2. Ended(x) \in Int /\ Ended(x) <= Ended(y)
          BY <1>3, <1>4, EndedGrows
        <5>3. DoneBy(Ended(x))
          BY <1>6, <5>1 DEF LinesBy
        <5> QED BY <1>4, <1>7, <5>2, <5>3, HeardGrows
      <4> QED BY <1>4, <2>1, <3>3, <4>1, <4>2
    <3> QED BY <1>5, <2>1, <3>1, <3>2, <3>3 DEF HandledInv
  <2>9. CauseInv'
    <3>1. parsed' = "failed" => cause'
      BY <1>2, <1>4, <1>6, <2>1 DEF CauseInv
    <3> QED BY <1>1, <1>2, <2>1, <2>4, <3>1 DEF CauseInv
  <2>10. SentInv'
    <3>1. \E k \in 0..Len(Due) : res'.events = SubSeq(Due, 1, k)
      <4>1. CASE parsed = "open" /\ res.end = "open"
        <5>1. res'.events = SubSeq(Due, 1, HeardBy(Ended(y)))
          BY <1>4, <2>1, <4>1
        <5> QED BY <2>2, <5>1
      <4>2. CASE parsed # "open" \/ res.end # "open"
        BY <1>2, <2>1, <4>2 DEF SentInv
      <4> QED BY <4>1, <4>2
    <3>2. ASSUME parsed' = "eof", res'.end = "open" PROVE res'.events = Due
      <4>1. CASE parsed = "open"
        <5>1. DoneBy(Ended(y)) /\ res.end = "open"
          BY <2>1, <2>4, <3>2, <4>1
        <5>2. res'.events = SubSeq(Due, 1, HeardBy(Ended(y)))
          BY <1>4, <2>1, <4>1, <5>1
        <5> QED BY <2>2, <5>1, <5>2
      <4>2. CASE parsed # "open"
        <5>1. parsed = "eof" /\ res' = res
          BY <1>4, <2>1, <3>2, <4>2
        <5> QED BY <1>2, <3>2, <5>1 DEF SentInv
      <4> QED BY <4>1, <4>2
    <3> QED BY <1>5, <3>1, <3>2 DEF SentInv
  <2> QED BY <2>6, <2>7, <2>8, <2>9, <2>10 DEF IInv
<1>9. CASE ~flowing
  <2>1. /\ source' = [source EXCEPT !.chunks = Append(@, d.text)]
        /\ buffer' = buffer /\ parsed' = parsed /\ res' = res
    BY <1>9 DEF Read, d
  <2>2. /\ source'.chunks = Append(source.chunks, d.text) /\ source'.end = "open"
        /\ source' \in [chunks : Seq(Seq(Letters)), end : {"open", "eof", "failed", "over"}]
    <3>1. Append(source.chunks, d.text) \in Seq(Seq(Letters))
      BY <1>3, <1>4, AppendProperties
    <3> QED BY <1>1, <1>4, <2>1, <3>1
  <2>3. TypeInv'
    BY <1>1, <1>3, <1>4, <1>5, <1>6, <2>1, <2>2 DEF TypeInv
  <2>4. StartInv' /\ HandledInv' /\ EofInv'
    BY <1>1, <1>2, <1>9, <2>1, <2>2 DEF StartInv, HandledInv, EofInv
  <2>5. CauseInv' /\ SentInv'
    BY <1>1, <1>2, <1>5, <1>6, <2>1, <2>2 DEF CauseInv, SentInv
  <2>6. CutInv'
    <3> DEFINE c == source.chunks
               N == Len(c)
    <3>1. PICK t : /\ Cuts(t, c)
                   /\ t[0] = 0 /\ t[N] = x
                   /\ \A k \in 0..N : t[k] <= x
                   /\ \A k \in 1..N : LateIn(Ended(t[k - 1]), Ended(t[k])) => cause
      BY <1>1, <1>2, <1>6, <1>9 DEF CutInv
    <3>2. /\ c \in Seq(Seq(Letters)) /\ N \in Nat
          /\ Len(source'.chunks) = N + 1 /\ source'.chunks[N + 1] = Piece(x, y)
          /\ \A k \in 1..N : source'.chunks[k] = c[k]
      <4>1. c \in Seq(Seq(Letters)) /\ N \in Nat
        BY <1>4, LenProperties
      <4> HIDE DEF c
      <4> QED BY <1>3, <2>2, <4>1, AppendProperties DEF c
    <3> HIDE DEF c, N
    <3>3. t \in [0..N -> Chars] /\ \A k \in 1..N : t[k - 1] <= t[k] /\ c[k] = Piece(t[k - 1], t[k])
      BY <3>1 DEF Cuts, N
    <3>4. PICK u : /\ u[N + 1] = y /\ \A k \in 0..N : u[k] = t[k]
                   /\ u \in [0..N + 1 -> Chars]
      <4> DEFINE u == [k \in 0..N + 1 |-> IF k <= N THEN t[k] ELSE y]
      <4>1. /\ N + 1 \in 0..N + 1 /\ ~(N + 1 <= N)
            /\ \A k \in 0..N : k \in 0..N + 1 /\ k <= N
            /\ \A k \in 0..N + 1 : k <= N => k \in 0..N
        BY <3>2
      <4>2. /\ u[N + 1] = y /\ \A k \in 0..N : u[k] = t[k]
            /\ u \in [0..N + 1 -> Chars]
        BY <1>7, <3>3, <4>1
      <4> HIDE DEF u
      <4> QED BY <4>2
    <3>5. /\ \A k \in 1..N + 1 : k \in 1..N \/ k = N + 1
          /\ \A k \in 0..N + 1 : k \in 0..N \/ k = N + 1
          /\ \A k \in 1..N : k - 1 \in 0..N /\ k \in 0..N
          /\ 0 \in 0..N /\ N \in 0..N /\ (N + 1) - 1 = N
      BY <3>2
    <3>6. Cuts(u, source'.chunks)
      <4>1. \A k \in 1..N : u[k - 1] <= u[k] /\ source'.chunks[k] = Piece(u[k - 1], u[k])
        BY <3>2, <3>3, <3>4, <3>5
      <4>2. u[N] <= u[N + 1] /\ source'.chunks[N + 1] = Piece(u[N], u[N + 1])
        BY <1>7, <3>1, <3>2, <3>4, <3>5
      <4> QED BY <3>2, <3>4, <3>5, <4>1, <4>2 DEF Cuts
    <3>7. u[0] = 0 /\ u[N + 1] = y
      BY <3>1, <3>4, <3>5
    <3>8. \A k \in 0..N + 1 : u[k] <= y
      <4>1. ASSUME NEW k \in 0..N PROVE u[k] <= y
        <5>1. t[k] <= x /\ t[k] \in Chars /\ u[k] = t[k]
          BY <3>1, <3>3, <3>4
        <5>2. t[k] \in Int
          BY <5>1 DEF Chars
        <5> QED BY <1>7, <5>1, <5>2
      <4> QED BY <1>7, <3>4, <3>5, <4>1
    <3>9. \A k \in 1..N + 1 : LateIn(Ended(u[k - 1]), Ended(u[k])) => cause'
      <4>1. ASSUME NEW k \in 1..N PROVE LateIn(Ended(u[k - 1]), Ended(u[k])) => cause'
        BY <1>6, <3>1, <3>4, <3>5
      <4>2. LateIn(Ended(u[N]), Ended(u[N + 1])) => cause'
        BY <1>6, <3>1, <3>4, <3>5
      <4> QED BY <3>5, <4>1, <4>2
    <3>10. Cuts(u, source.chunks)'
      BY <1>5, <3>6
    <3>11. \A k \in 1..N + 1 : LateIn(Ended(u[k - 1]), Ended(u[k]))' => cause'
      BY <1>5, <3>9
    <3> QED BY <1>6, <3>2, <3>7, <3>8, <3>10, <3>11 DEF CutInv
  <2> QED BY <2>3, <2>4, <2>5, <2>6 DEF IInv
<1> QED BY <1>4, <1>8, <1>9



\* What the streams do when they start to flow: all that was read is handled.
LEMMA FlowEffect ==
  ASSUME IInv, Flow, NEW y, y = CharsOf(pos)
  PROVE  /\ parsed' \in {"open", "eof", "failed", "closed"}
         /\ parsed' # "open" \/ res.end # "open" =>
              res' = res \/ (parsed = "open" /\ parsed' = "eof")
         /\ source.end \in {"open", "eof"} =>
              /\ buffer' = Rest(y)
              /\ parsed' = "open" => ~DoneBy(Ended(y))
              /\ parsed' = "eof" => DoneBy(Ended(y))
              /\ parsed' \in {"open", "eof"} =>
                   res' = IF res.end = "open"
                          THEN [res EXCEPT !.events = SubSeq(Due, 1, HeardBy(Ended(y)))] ELSE res
              /\ parsed' = "failed" => cause
              /\ parsed' = "closed" => res' = res
         /\ source.end \in {"failed", "over"} =>
              buffer' = buffer /\ parsed' = parsed /\ res' = res
<1> DEFINE st == OnAll(source.chunks)
<1>1. /\ ~flowing /\ buffer' = st.buffer /\ parsed' = st.parsed
      /\ res' = IF st.parsed = "failed" THEN res ELSE Write(st.out)
  BY DEF Flow
<1>2. TypeInv /\ StartInv /\ CutInv /\ CauseInv
  BY DEF IInv
<1>3. /\ kinds \in Seq(Kinds) /\ size \in 0..4 * Len(kinds) /\ pos \in 0..size
      /\ source \in [chunks : Seq(Seq(Letters)), end : {"open", "eof", "failed", "over"}]
      /\ parsed \in {"open", "failed", "closed"} /\ buffer = <<>> /\ res.events = <<>>
      /\ res \in [events : Seq(Lines), end : {"open", "refused", "done", "error", "gone"}]
      /\ Len(kinds) \in Nat /\ DOMAIN kinds = 1..Len(kinds)
  BY <1>1, <1>2, KindsLen DEF TypeInv, StartInv
<1>4. ASSUME NEW out, out = <<>> PROVE Write(out) = res
  <2>1. res.events \o <<>> = res.events
    BY <1>3
  <2>2. [res EXCEPT !.events = res.events] = res
    BY <1>3
  <2> QED BY <1>4, <2>1, <2>2 DEF Write
<1>5. CASE source.end \in {"failed", "over"}
  <2>1. source.chunks = <<>>
    BY <1>2, <1>5 DEF StartInv
  <2>2. st = [buffer |-> buffer, parsed |-> parsed, out |-> <<>>]
    BY <2>1, OnNone
  <2> HIDE DEF st
  <2>3. Write(st.out) = res
    BY <1>4, <2>2
  <2>4. buffer' = buffer /\ parsed' = parsed /\ res' = res
    BY <1>1, <2>2, <2>3
  <2> QED BY <1>3, <1>5, <2>4
<1>6. CASE source.end \in {"open", "eof"}
  <2> DEFINE N == Len(source.chunks)
             b == Ended(y)
  <2>1. PICK t : /\ Cuts(t, source.chunks)
                 /\ t[0] = 0 /\ t[N] = y
                 /\ \A k \in 0..N : t[k] <= y
                 /\ \A k \in 1..N : LateIn(Ended(t[k - 1]), Ended(t[k])) => cause
    BY <1>1, <1>2, <1>6 DEF CutInv
  <2>2. N \in Nat
    BY <1>3, LenProperties
  <2>3. pos \in 0..4 * Len(kinds) /\ size \in Int /\ pos \in Int /\ pos <= size
    BY <1>3
  <2>4. y \in Chars /\ 4 * b <= pos
    BY <1>3, <2>3, CharsOfIs
  <2>5. b \in 0..Len(kinds) /\ b \in Int
    BY <1>3, <2>4, EndedAt
  <2>6. 0 \in Chars /\ Ended(0) = 0
    <3>1. 0 \div 3 = 0
      OBVIOUS
    <3> QED BY <1>3, <3>1 DEF Chars, Ended
  <2>7. \A k \in 0..N : 4 * Ended(t[k]) <= size
    <3> SUFFICES ASSUME NEW k \in 0..N PROVE 4 * Ended(t[k]) <= size
      OBVIOUS
    <3>1. t[k] \in Chars /\ t[k] <= y
      BY <2>1 DEF Cuts
    <3>2. y \in t[k]..3 * Len(kinds)
      BY <1>3, <2>4, <3>1 DEF Chars
    <3>3. Ended(t[k]) \in Int /\ Ended(t[k]) <= b
      BY <1>3, <3>1, <3>2, EndedGrows
    <3> HIDE DEF b
    <3> QED BY <2>3, <2>4, <2>5, <3>3
  <2>8. buffer = Rest(0) /\ ~DoneBy(Ended(0))
    <3>1. Rest(0) = SubSeq(AllText, 1, 0)
      BY <2>6 DEF Rest, Piece
    <3>2. SubSeq(AllText, 1, 0) = <<>>
      BY SubSeqEmpty
    <3>3. ~DoneBy(0)
      BY <1>3 DEF DoneBy
    <3> QED BY <1>3, <2>6, <3>1, <3>2, <3>3
  <2>9. Handled([buffer |-> buffer, parsed |-> parsed, out |-> <<>>], t[0], t[0])
    BY <1>3, <2>1, <2>6, <2>8, StartHandled
  <2>10. /\ Handled(st, t[0], t[N])
         /\ st.parsed \in {"open", "eof", "failed", "closed"}
         /\ parsed \in {"failed", "closed"} => st.parsed = parsed
         /\ st.parsed = "closed" => parsed = "closed"
         /\ st.parsed = "failed" =>
              parsed = "failed" \/ \E k \in 1..N : LateIn(Ended(t[k - 1]), Ended(t[k]))
         /\ parsed # "open" => st.parsed # "open" /\ st.out = <<>>
    BY <1>3, <2>1, <2>2, <2>7, <2>9, OnAllText
  <2> HIDE DEF st
  <2>11. Handled(st, 0, y)
    BY <2>1, <2>10
  <2>12. st.parsed = "failed" => cause
    BY <1>2, <2>1, <2>10 DEF CauseInv
  <2>13. ASSUME st.parsed \in {"open", "eof"}
         PROVE  /\ res' = IF res.end = "open"
                          THEN [res EXCEPT !.events = SubSeq(Due, 1, HeardBy(b))] ELSE res
                /\ parsed = "open"
    <3>1. st.out = DueIn(0, b)
      BY <2>6, <2>11, <2>13 DEF Handled
    <3>2. HeardBy(0) = 0 /\ SubSeq(Due, 1, 0) = <<>>
      BY <1>3, HeardIs, SubSeqEmpty
    <3>3. SubSeq(Due, 1, HeardBy(0)) \o DueIn(0, b) = SubSeq(Due, 1, HeardBy(b))
      <4>1. 0 <= b /\ b \in Int
        BY <2>5
      <4> HIDE DEF b
      <4>2. kinds \in Seq(Kinds) /\ size \in 0..4 * Len(kinds) /\ 0 \in Int
        BY <1>3
      <4> QED BY <4>1, <4>2, WriteText
    <3>4. res.events \o st.out = SubSeq(Due, 1, HeardBy(b))
      BY <1>3, <3>1, <3>2, <3>3
    <3>5. res' = Write(st.out)
      BY <1>1, <2>13
    <3>6. parsed = "open"
      BY <1>3, <2>10, <2>13
    <3> QED BY <3>4, <3>5, <3>6 DEF Write
  <2>14. st.parsed \in {"failed", "closed"} => res' = res
    <3>1. st.parsed = "closed" => Write(st.out) = res
      BY <1>4, <2>10
    <3> QED BY <1>1, <3>1
  <2>15. st.buffer = Rest(y) /\ (st.parsed = "open" => ~DoneBy(b)) /\ (st.parsed = "eof" => DoneBy(b))
    BY <2>11 DEF Handled
  <2>16. st.parsed # "open" \/ res.end # "open" =>
           res' = res \/ (parsed = "open" /\ st.parsed = "eof")
    BY <2>10, <2>13, <2>14
  <2> HIDE DEF b
  <2> QED BY <1>1, <1>6, <2>10, <2>12, <2>13, <2>14, <2>15, <2>16 DEF b
<1> QED BY <1>3, <1>5, <1>6

LEMMA FlowKeeps ==
  ASSUME IInv, Flow
  PROVE  IInv'
<1> DEFINE y == CharsOf(pos)
           b == Ended(y)
<1>1. /\ kinds' = kinds /\ size' = size /\ pos' = pos /\ held' = held /\ pc' = pc /\ cause' = cause
      /\ source' = [source EXCEPT !.chunks = <<>>] /\ ~flowing /\ flowing'
      /\ flowing' \in BOOLEAN
  BY DEF Flow
<1>2. TypeInv /\ StartInv /\ EofInv /\ CauseInv /\ SentInv
  BY DEF IInv
<1>3. /\ kinds \in Seq(Kinds) /\ Len(kinds) <= MaxLines /\ size \in 0..4 * Len(kinds)
      /\ pos \in 0..size /\ held = HeldAt(pos) /\ cause \in BOOLEAN
      /\ parsed \in {"open", "eof", "failed", "closed"} /\ pc \in {"call", "refused", "stream"}
      /\ source \in [chunks : Seq(Seq(Letters)), end : {"open", "eof", "failed", "over"}]
      /\ buffer \in Seq((DOMAIN kinds) \X {"head", "wide"})
      /\ res \in [events : Seq(Lines), end : {"open", "refused", "done", "error", "gone"}]
  BY <1>2 DEF TypeInv
<1>4. /\ Letters' = Letters /\ Lines' = Lines /\ Due' = Due
      /\ \A z : Rest(z)' = Rest(z)
      /\ \A z : DoneBy(z)' <=> DoneBy(z)
      /\ \A z : HeardBy(z)' = HeardBy(z)
  BY <1>1, Same
<1>5. /\ parsed' \in {"open", "eof", "failed", "closed"}
      /\ source.end \in {"open", "eof"} =>
           /\ buffer' = Rest(y)
           /\ parsed' = "open" => ~DoneBy(b)
           /\ parsed' = "eof" => DoneBy(b)
           /\ parsed' \in {"open", "eof"} =>
                res' = IF res.end = "open"
                       THEN [res EXCEPT !.events = SubSeq(Due, 1, HeardBy(b))] ELSE res
           /\ parsed' = "failed" => cause
           /\ parsed' = "closed" => res' = res
      /\ source.end \in {"failed", "over"} =>
           buffer' = buffer /\ parsed' = parsed /\ res' = res
      /\ parsed' # "open" \/ res.end # "open" =>
           res' = res \/ (parsed = "open" /\ parsed' = "eof")
  BY FlowEffect
<1>6. y \in Chars /\ b \in Int /\ b <= b
  <2>1. pos \in 0..4 * Len(kinds)
    BY <1>3, KindsLen
  <2>2. y \in Chars
    BY <1>3, <2>1, CharsOfIs
  <2>3. b \in Int
    BY <1>3, <2>2, EndedAt
  <2> QED BY <2>2, <2>3
<1> HIDE DEF y, b
<1>7. /\ HeardBy(b) \in 0..Len(Due)
      /\ DoneBy(b) => SubSeq(Due, 1, HeardBy(b)) = Due
      /\ SubSeq(Due, 1, HeardBy(b)) \in Seq(Lines)
  <2>1. HeardBy(b) \in 0..Len(Due) /\ (DoneBy(b) => SubSeq(Due, 1, HeardBy(b)) = Due)
    BY <1>3, <1>6, WriteText
  <2> QED BY <1>3, <2>1, PrefixType
<1>8. /\ source' \in [chunks : Seq(Seq(Letters)), end : {"open", "eof", "failed", "over"}]
      /\ source'.chunks = <<>> /\ source'.end = source.end
  <2>1. <<>> \in Seq(Seq(Letters))
    BY EmptySeq
  <2> QED BY <1>1, <1>3, <2>1
<1>9. \/ res' = res
      \/ /\ source.end \in {"open", "eof"} /\ parsed' \in {"open", "eof"} /\ res.end = "open"
         /\ res' = [res EXCEPT !.events = SubSeq(Due, 1, HeardBy(b))]
  BY <1>3, <1>5
<1>10. /\ res' \in [events : Seq(Lines), end : {"open", "refused", "done", "error", "gone"}]
       /\ res'.end = res.end
       /\ \E k \in 0..Len(Due) : res'.events = SubSeq(Due, 1, k)
  <2>1. CASE res' = res
    BY <1>2, <1>3, <2>1 DEF SentInv
  <2>2. CASE res' = [res EXCEPT !.events = SubSeq(Due, 1, HeardBy(b))]
    <3>1. res'.events = SubSeq(Due, 1, HeardBy(b)) /\ res'.end = res.end
      BY <1>3, <2>2
    <3> QED BY <1>3, <1>7, <2>2, <3>1
  <2> QED BY <1>9, <2>1, <2>2
<1>11. TypeInv'
  <2>1. buffer' \in Seq((DOMAIN kinds) \X {"head", "wide"})
    BY <1>3, <1>5, <1>6, RestType
  <2> QED BY <1>1, <1>3, <1>4, <1>5, <1>8, <1>10, <2>1 DEF TypeInv
<1>12. StartInv' /\ CutInv' /\ EofInv'
  BY <1>1, <1>2, <1>8 DEF StartInv, CutInv, EofInv
<1>13. HandledInv'
  <2>1. /\ Rest(CharsOf(pos))' = Rest(y) /\ (DoneBy(LinesBy(pos))' <=> DoneBy(b))
        /\ HeardBy(LinesBy(pos))' = HeardBy(b)
    BY <1>1, <1>4 DEF LinesBy, b, y
  <2>2. ASSUME source.end \in {"open", "eof"}, parsed' = "open", res'.end = "open"
        PROVE  res'.events = SubSeq(Due, 1, HeardBy(b))
    <3>1. res.end = "open"
      BY <1>10, <2>2
    <3>2. res' = [res EXCEPT !.events = SubSeq(Due, 1, HeardBy(b))]
      BY <1>5, <2>2, <3>1
    <3> QED BY <1>3, <3>2
  <2> QED BY <1>4, <1>5, <1>8, <2>1, <2>2 DEF HandledInv
<1>14. CauseInv'
  BY <1>1, <1>2, <1>3, <1>5, <1>8, <1>10 DEF CauseInv
<1>15. SentInv'
  <2>1. ASSUME parsed' = "eof", res'.end = "open" PROVE res'.events = Due
    <3>1. res.end = "open"
      BY <1>10, <2>1
    <3>2. CASE source.end \in {"open", "eof"}
      <4>1. DoneBy(b) /\ res' = [res EXCEPT !.events = SubSeq(Due, 1, HeardBy(b))]
        BY <1>5, <2>1, <3>1, <3>2
      <4>2. res'.events = SubSeq(Due, 1, HeardBy(b))
        BY <1>3, <4>1
      <4> QED BY <1>7, <4>1, <4>2
    <3>3. CASE source.end \in {"failed", "over"}
      BY <1>2, <1>5, <2>1, <3>1, <3>3 DEF SentInv
    <3> QED BY <1>3, <3>2, <3>3
  <2> QED BY <1>4, <1>10, <2>1 DEF SentInv
<1> QED BY <1>11, <1>12, <1>13, <1>14, <1>15 DEF IInv

\* Every step preserves the invariant.
LEMMA NextInv ==
  IInv /\ [Next]_sseVars => IInv'
<1> SUFFICES ASSUME IInv, [Next]_sseVars PROVE IInv'
  OBVIOUS
<1>1. CASE \/ Refuse \/ Open \/ ReadDone \/ ReadFail \/ SourceEnd \/ SourceError
           \/ EmitEnd \/ EmitError \/ Disconnect
  BY <1>1, QuietSteps
<1>2. CASE \E n \in 1..4 * MaxLines : Read(n)
  BY <1>2, ReadKeeps
<1>3. CASE Flow
  BY <1>3, FlowKeeps
<1>4. CASE UNCHANGED sseVars
  <2>1. TypeInv /\ StartInv /\ EofInv /\ CauseInv
    BY DEF IInv
  <2>2. QuietBody
    BY <1>4 DEF QuietBody, sseVars
  <2>3. QuietTypes
    BY <1>4, <2>1 DEF QuietTypes, sseVars, TypeInv
  <2>4. QuietEnds
    BY <1>4, <2>1 DEF QuietEnds, sseVars, TypeInv, StartInv, EofInv, CauseInv
  <2> QED BY <2>2, <2>3, <2>4, QuietKeeps
<1> QED BY <1>1, <1>2, <1>3, <1>4 DEF Next


-----------------------------------------------------------------------------
(* The theorems *)

\* In every reachable state, the buffer is the text since the last newline of
\* the bytes read, the chunks held are that text cut somewhere, and the client
\* has the events due of the lines that have ended: the inductive invariant of
\* DifyService's two streams, for a body of any length cut anywhere.
THEOREM InvariantHolds == Spec => []IInv
<1>1. Init => IInv
  BY InitInv
<1>2. IInv /\ [Next]_sseVars => IInv'
  BY NextInv
<1> QED BY <1>1, <1>2, PTL DEF Spec

LEMMA TypesFollow ==
  IInv => TypeOK
<1> SUFFICES ASSUME IInv PROVE TypeOK
  OBVIOUS
<1>1. TypeInv
  BY DEF IInv
<1>2. /\ kinds \in Seq(Kinds) /\ Len(kinds) <= MaxLines /\ size \in 0..4 * Len(kinds)
      /\ pos \in 0..size /\ held = HeldAt(pos)
      /\ source \in [chunks : Seq(Seq(Letters)), end : {"open", "eof", "failed", "over"}]
      /\ res \in [events : Seq(Lines), end : {"open", "refused", "done", "error", "gone"}]
  BY <1>1 DEF TypeInv
<1>3. held \in {<<>>} \cup {<<<<i, "lead">>>> : i \in DOMAIN kinds}
  <2>1. Len(kinds) \in Nat /\ DOMAIN kinds = 1..Len(kinds)
    BY <1>2, KindsLen
  <2>2. CASE pos % 4 = 2
    <3>1. pos \in Nat /\ pos <= 4 * Len(kinds)
      BY <1>2, <2>1
    <3>2. (pos \div 4) + 1 \in 1..Len(kinds)
      BY <2>1, <2>2, <3>1
    <3>3. held = <<<<(pos \div 4) + 1, "lead">>>>
      BY <1>2, <2>2 DEF HeldAt
    <3> QED BY <2>1, <3>2, <3>3
  <2>3. CASE pos % 4 # 2
    BY <1>2, <2>3 DEF HeldAt
  <2> QED BY <2>2, <2>3
<1>4. \A c \in ToSet(source.chunks) : c \in Seq(Letters)
  <2>1. source.chunks \in Seq(Seq(Letters))
    BY <1>2
  <2>2. \A k \in DOMAIN source.chunks : source.chunks[k] \in Seq(Letters)
    BY <2>1, ElementOfSeq
  <2> QED BY <2>2 DEF ToSet
<1> QED BY <1>1, <1>2, <1>3, <1>4 DEF TypeInv, TypeOK, Letters, Lines

\* The variables have their types: half a character is kept in the decoder only,
\* no newline in the buffer, and what the client gets are lines of the body.
THEOREM TypeCorrect == Spec => []TypeOK
BY InvariantHolds, TypesFollow, PTL

\* A response that ends with an error follows a failed read, or a read that
\* brought an event after an earlier one brought [DONE]: no cut of the body
\* makes parseSSEStream push after push(null) of itself.
THEOREM ErrorsHaveCauses == Spec => []ErrorHasCause
<1>1. IInv => ErrorHasCause
  BY DEF IInv, CauseInv, ErrorHasCause
<1> QED BY <1>1, InvariantHolds, PTL


\* The client got some of the events due, or none, in this step.
Relays ==
  \/ UNCHANGED res
  \/ /\ res.end = "open" /\ res'.end = "open"
     /\ \E j \in 0..Len(Due), k \in 0..Len(Due) :
          j <= k /\ res.events = SubSeq(Due, 1, j) /\ res'.events = SubSeq(Due, 1, k)

LEMMA ReadRelays ==
  ASSUME IInv, NEW n \in 1..4 * MaxLines, Read(n)
  PROVE  Relays
<1>1. TypeInv /\ HandledInv
  BY DEF IInv
<1>2. /\ kinds \in Seq(Kinds) /\ size \in 0..4 * Len(kinds) /\ pos \in 0..size
      /\ parsed \in {"open", "eof", "failed", "closed"}
      /\ res \in [events : Seq(Lines), end : {"open", "refused", "done", "error", "gone"}]
  BY <1>1 DEF TypeInv
<1>3. n <= size - pos /\ source.end = "open" /\ (~flowing => res' = res)
  BY DEF Read
<1>4. CASE flowing /\ parsed = "open" /\ res.end = "open"
  <2>1. PICK x, y : x = CharsOf(pos) /\ y = CharsOf(pos + n)
    OBVIOUS
  <2>2. res' = [res EXCEPT !.events = SubSeq(Due, 1, HeardBy(Ended(y)))]
    BY <1>4, <2>1, ReadFlowing
  <2>3. res.events = SubSeq(Due, 1, HeardBy(Ended(x)))
    BY <1>1, <1>3, <1>4, <2>1 DEF HandledInv, LinesBy
  <2>4. x \in Chars /\ y \in x..3 * Len(kinds)
    <3>1. PICK d : d = Decode(held \o SubSeq(Body, pos + 1, pos + n))
      OBVIOUS
    <3> QED BY <1>1, <1>3, <2>1, <3>1, ReadText
  <2>5. Ended(x) \in Int /\ Ended(y) \in Int /\ Ended(x) <= Ended(y)
    BY <1>2, <2>4, EndedGrows
  <2>6. /\ HeardBy(Ended(x)) \in 0..Len(Due) /\ HeardBy(Ended(y)) \in 0..Len(Due)
        /\ HeardBy(Ended(x)) <= HeardBy(Ended(y))
    BY <1>2, <2>5, HeardIs, HeardGrows
  <2>7. res'.events = SubSeq(Due, 1, HeardBy(Ended(y))) /\ res'.end = "open"
    BY <1>2, <1>4, <2>2
  <2> QED BY <1>4, <2>3, <2>6, <2>7 DEF Relays
<1>5. CASE flowing /\ (parsed # "open" \/ res.end # "open")
  <2>1. PICK x, y : x = CharsOf(pos) /\ y = CharsOf(pos + n)
    OBVIOUS
  <2>2. res' = res
    BY <1>5, <2>1, ReadFlowing
  <2> QED BY <2>2 DEF Relays
<1>6. CASE ~flowing
  BY <1>3, <1>6 DEF Relays
<1> QED BY <1>4, <1>5, <1>6

LEMMA FlowRelays ==
  ASSUME IInv, Flow
  PROVE  Relays
<1> DEFINE b == Ended(CharsOf(pos))
<1>1. TypeInv /\ StartInv /\ SentInv
  BY DEF IInv
<1>2. /\ kinds \in Seq(Kinds) /\ size \in 0..4 * Len(kinds) /\ pos \in 0..size
      /\ source \in [chunks : Seq(Seq(Letters)), end : {"open", "eof", "failed", "over"}]
      /\ res \in [events : Seq(Lines), end : {"open", "refused", "done", "error", "gone"}]
  BY <1>1 DEF TypeInv
<1>3. /\ parsed' \in {"open", "eof", "failed", "closed"}
      /\ source.end \in {"open", "eof"} =>
           /\ parsed' \in {"open", "eof"} =>
                res' = IF res.end = "open"
                       THEN [res EXCEPT !.events = SubSeq(Due, 1, HeardBy(b))] ELSE res
           /\ parsed' = "closed" => res' = res
      /\ source.end \in {"failed", "over"} => res' = res
      /\ parsed' # "open" \/ res.end # "open" =>
           res' = res \/ (parsed = "open" /\ parsed' = "eof")
  BY FlowEffect
<1>4. b \in Int
  <2>1. pos \in 0..4 * Len(kinds)
    BY <1>2, KindsLen
  <2>2. CharsOf(pos) \in Chars
    BY <1>2, <2>1, CharsOfIs
  <2> QED BY <1>2, <2>2, EndedAt
<1> HIDE DEF b
<1>5. HeardBy(b) \in 0..Len(Due) /\ Len(Due) \in Nat
  BY <1>2, <1>4, HeardIs, DueListed
<1>6. res.events = SubSeq(Due, 1, 0)
  <2>1. res.events = <<>>
    BY <1>1 DEF StartInv, Flow
  <2> QED BY <2>1, SubSeqEmpty
<1>7. CASE res' = res
  BY <1>7 DEF Relays
<1>8. CASE /\ res.end = "open"
           /\ res' = [res EXCEPT !.events = SubSeq(Due, 1, HeardBy(b))]
  <2>1. res'.events = SubSeq(Due, 1, HeardBy(b)) /\ res'.end = "open"
    BY <1>2, <1>8
  <2>2. 0 \in 0..Len(Due) /\ 0 <= HeardBy(b)
    BY <1>5
  <2> QED BY <1>5, <1>6, <1>8, <2>1, <2>2 DEF Relays
<1> QED BY <1>2, <1>3, <1>7, <1>8

RelayStep == [Relay!Next]_(Relay!relayVars)

LEMMA RelayRelay ==
  ASSUME IInv, Relays, UNCHANGED <<kinds, size>>
  PROVE  RelayStep
<1>1. TypeInv
  BY DEF IInv
<1>2. kinds \in Seq(Kinds) /\ size \in 0..4 * Len(kinds)
  BY <1>1 DEF TypeInv
<1>3. Due' = Due
  BY Same
<1>4. CASE UNCHANGED res
  BY <1>3, <1>4 DEF RelayStep, Relay!relayVars
<1>5. CASE ~UNCHANGED res
  <2>1. PICK j \in 0..Len(Due), k \in 0..Len(Due) :
          j <= k /\ res.events = SubSeq(Due, 1, j) /\ res'.events = SubSeq(Due, 1, k)
    BY <1>5 DEF Relays
  <2>2. res.end = "open" /\ res'.end = "open"
    BY <1>5 DEF Relays
  <2>3. Len(res.events) = j
    BY <1>2, <2>1, PrefixType
  <2>4. CASE j = k
    BY <1>3, <2>1, <2>2, <2>4 DEF RelayStep, Relay!relayVars
  <2>5. CASE j < k
    <3>1. k \in Len(res.events) + 1..Len(Due)
      BY <2>1, <2>3, <2>5
    <3>2. Relay!Relay
      BY <1>3, <2>1, <2>2, <3>1 DEF Relay!Relay
    <3> QED BY <3>2 DEF RelayStep, Relay!Next
  <2> QED BY <2>1, <2>4, <2>5
<1> QED BY <1>4, <1>5

LEMMA EndRelay ==
  ASSUME IInv, UNCHANGED <<kinds, size>>, NEW how \in {"refused", "done", "error", "gone"},
         res' = End(how), how = "done" => parsed = "eof"
  PROVE  RelayStep
<1>1. TypeInv /\ SentInv
  BY DEF IInv
<1>2. res \in [events : Seq(Lines), end : {"open", "refused", "done", "error", "gone"}]
  BY <1>1 DEF TypeInv
<1>3. Due' = Due
  BY Same
<1>4. CASE res.end # "open"
  <2>1. res' = res
    BY <1>4 DEF End
  <2> QED BY <1>3, <2>1 DEF RelayStep, Relay!relayVars
<1>5. CASE res.end = "open"
  <2>1. res' = [res EXCEPT !.end = how]
    BY <1>5 DEF End
  <2>2. res'.end = how /\ res'.events = res.events
    BY <1>2, <2>1
  <2>3. CASE how = "done"
    <3>1. res.events = Due
      BY <1>1, <1>5, <2>3 DEF SentInv
    <3>2. Relay!Complete
      BY <1>3, <1>5, <2>2, <2>3, <3>1 DEF Relay!Complete
    <3> QED BY <3>2 DEF RelayStep, Relay!Next
  <2>4. CASE how # "done"
    <3>1. Relay!Break
      BY <1>3, <1>5, <2>2, <2>4 DEF Relay!Break
    <3> QED BY <3>1 DEF RelayStep, Relay!Next
  <2> QED BY <2>3, <2>4
<1> QED BY <1>4, <1>5

LEMMA InitRelay ==
  Init => Relay!Init
<1> SUFFICES ASSUME Init PROVE Relay!Init
  OBVIOUS
<1>1. IInv
  BY InitInv
<1>2. kinds \in Seq(Kinds) /\ Len(kinds) <= MaxLines /\ size \in 0..4 * Len(kinds)
  BY <1>1 DEF IInv, TypeInv
<1>3. Due \in Seq(Lines)
  BY <1>2, DueListed
<1>4. Due \in Seq({Text(i) : i \in 1..MaxLines})
  <2>1. Lines \in SUBSET {Text(i) : i \in 1..MaxLines}
    <3>1. DOMAIN kinds \in SUBSET (1..MaxLines)
      BY <1>2, KindsLen, SseBounds
    <3> QED BY <3>1 DEF Lines
  <2> DEFINE E == {Text(i) : i \in 1..MaxLines}
  <2>2. Lines \in SUBSET E
    BY <2>1
  <2> HIDE DEF E
  <2>3. Len(Due) \in Nat /\ Due \in [1..Len(Due) -> Lines]
    BY <1>3
  <2>4. Due \in [1..Len(Due) -> E]
    BY <2>2, <2>3
  <2>5. Due \in Seq(E)
    BY <2>3, <2>4
  <2> QED BY <2>5 DEF E
<1>5. res.events = <<>> /\ res.end = "open"
  BY DEF Init
<1> QED BY <1>4, <1>5 DEF Relay!Init

LEMMA NextRelay ==
  IInv /\ [Next]_sseVars => RelayStep
<1> SUFFICES ASSUME IInv, [Next]_sseVars PROVE RelayStep
  OBVIOUS
<1>1. CASE \E n \in 1..4 * MaxLines : Read(n)
  <2>1. PICK n \in 1..4 * MaxLines : Read(n)
    BY <1>1
  <2>2. Relays
    BY <2>1, ReadRelays
  <2>3. UNCHANGED <<kinds, size>>
    BY <2>1 DEF Read
  <2> QED BY <2>2, <2>3, RelayRelay
<1>2. CASE Flow
  <2>1. Relays
    BY <1>2, FlowRelays
  <2>2. UNCHANGED <<kinds, size>>
    BY <1>2 DEF Flow
  <2> QED BY <2>1, <2>2, RelayRelay
<1>3. CASE Open \/ ReadDone \/ ReadFail \/ SourceEnd \/ SourceError \/ UNCHANGED sseVars
  <2>1. UNCHANGED <<kinds, size>> /\ UNCHANGED res
    BY <1>3 DEF Open, ReadDone, ReadFail, SourceEnd, SourceError, sseVars
  <2>2. Relays
    BY <2>1 DEF Relays
  <2> QED BY <2>1, <2>2, RelayRelay
<1>4. CASE Refuse
  <2>1. UNCHANGED <<kinds, size>> /\ res' = End("refused")
    BY <1>4 DEF Refuse
  <2> QED BY <2>1, EndRelay
<1>5. CASE EmitEnd
  <2>1. UNCHANGED <<kinds, size>> /\ res' = End("done") /\ parsed = "eof"
    BY <1>5 DEF EmitEnd
  <2> QED BY <2>1, EndRelay
<1>6. CASE EmitError
  <2>1. UNCHANGED <<kinds, size>> /\ res' = End("error")
    BY <1>6 DEF EmitError
  <2> QED BY <2>1, EndRelay
<1>7. CASE Disconnect
  <2>1. UNCHANGED <<kinds, size>> /\ res' = End("gone")
    BY <1>7 DEF Disconnect
  <2> QED BY <2>1, EndRelay
<1> QED BY <1>1, <1>2, <1>3, <1>4, <1>5, <1>6, <1>7 DEF Next

\* The streams of DifyService implement EventRelay: for a body of any length,
\* whatever is in its lines, wherever the reads cut it and however many come
\* before the handlers are attached, the client gets the events in order, none
\* altered, left out or repeated, and [DONE] only after the last of them.
THEOREM StreamImplementsRelay == Spec => Relayed
<1>1. Init => Relay!Init
  BY InitRelay
<1>2. IInv /\ [Next]_sseVars => [Relay!Next]_(Relay!relayVars)
  BY NextRelay DEF RelayStep
<1> QED BY <1>1, <1>2, InvariantHolds, PTL DEF Spec, Relayed, Relay!Spec
=============================================================================
