------------------------------ MODULE ProofFacts -------------------------------
(***************************************************************************)
(* Facts about numbers, sequences and functions that the proofs of several *)
(* modules rest on.                                                        *)
(***************************************************************************)
EXTENDS Integers, Sequences, FiniteSetTheorems, TLAPS

\* Every non-empty set of natural numbers has a least element.
LEMMA LeastNatural ==
  ASSUME NEW S \in SUBSET Nat, S # {}
  PROVE  \E m \in S : \A n \in S : m <= n
<1>1. PICK m \in S : \A n \in S : ~ (<<n, m>> \in OpToRel(<, Nat))
  BY NatLessThanWellFounded, WFMin
<1>2. ASSUME NEW n \in S, n < m
      PROVE  FALSE
  <2>1. <<n, m>> \in Nat \X Nat
    OBVIOUS
  <2>2. <<n, m>>[1] < <<n, m>>[2]
    BY <1>2
  <2>3. <<n, m>> \in OpToRel(<, Nat)
    BY <2>1, <2>2, Zenon DEF OpToRel
  <2>4. QED
    BY <1>1, <2>3
<1>3. QED
  BY <1>2

\* Every element of a sequence is in the set it is a sequence over.
LEMMA ElementIsIn ==
  ASSUME NEW S, NEW q \in Seq(S), NEW k \in 1..Len(q)
  PROVE  q[k] \in S
OBVIOUS

\* A sequence over a set is one over any larger set.
LEMMA SeqOverMore ==
  ASSUME NEW S, NEW T, S \subseteq T, NEW q \in Seq(S)
  PROVE  q \in Seq(T)
<1>1. Len(q) \in Nat /\ q \in [1..Len(q) -> S]
  OBVIOUS
<1>2. q \in [1..Len(q) -> T]
  BY <1>1
<1>3. QED
  BY <1>1, <1>2

\* Function f gives the elements of its domain the numbers from 1 to m.
IsNumbering(f, m) ==
  /\ f \in [DOMAIN f -> 1..m]
  /\ \A a, b \in DOMAIN f : f[a] = f[b] => a = b
  /\ \A c \in 1..m : \E a \in DOMAIN f : f[a] = c

\* As many numbers are given as there are elements.
LEMMA NumberingCounts ==
  ASSUME NEW f, NEW m \in Nat, IsNumbering(f, m)
  PROVE  IsFiniteSet(DOMAIN f) /\ Cardinality(DOMAIN f) = m
<1> DEFINE g == [c \in 1..m |-> CHOOSE a \in DOMAIN f : f[a] = c]
<1>1. \A c \in 1..m : g[c] \in DOMAIN f /\ f[g[c]] = c
  BY DEF IsNumbering
<1>2. g \in [1..m -> DOMAIN f]
  BY <1>1
<1> HIDE DEF g
<1>3. \A c, d \in 1..m : g[c] = g[d] => c = d
  BY <1>1
<1>4. \A a \in DOMAIN f : \E c \in 1..m : g[c] = a
  <2>1. SUFFICES ASSUME NEW a \in DOMAIN f PROVE g[f[a]] = a /\ f[a] \in 1..m
    OBVIOUS
  <2>2. QED
    BY <1>1 DEF IsNumbering
<1>5. ExistsBijection(1..m, DOMAIN f)
  BY <1>2, <1>3, <1>4
  DEF ExistsBijection, Bijection, Injection, Surjection, IsInjective
<1>6. QED
  BY <1>5, FS_CountingElements, FS_NatBijection

\* Numbers can be summed up.
LEMMA SumsExist ==
  ASSUME NEW n \in Nat, NEW w, \A k \in 1..n : w[k] \in Nat
  PROVE  \E f \in [0..n -> Nat] : f[0] = 0 /\ \A k \in 1..n : f[k] = f[k - 1] + w[k]
<1> DEFINE Sums(m, f) == f[0] = 0 /\ \A k \in 1..m : f[k] = f[k - 1] + w[k]
           bad == {m \in 0..n : ~ \E f \in [0..m -> Nat] : Sums(m, f)}
<1>0. /\ \A m \in 0..n : m \notin bad => \E f \in [0..m -> Nat] : Sums(m, f)
      /\ \A m \in bad : m \in 0..n /\ ~ \E f \in [0..m -> Nat] : Sums(m, f)
  OBVIOUS
<1> HIDE DEF bad
<1>1. CASE bad = {}
  BY <1>1, <1>0
<1>2. CASE bad # {}
  <2>1. bad \in SUBSET Nat
    BY <1>0
  <2>2. PICK m \in bad : \A k \in bad : m <= k
    BY <1>2, <2>1, LeastNatural
  <2>3. m # 0
    <3>1. [k \in 0..0 |-> 0] \in [0..0 -> Nat] /\ Sums(0, [k \in 0..0 |-> 0])
      OBVIOUS
    <3>2. QED
      BY <3>1, <1>0
  <2>4. m \in 1..n /\ m - 1 \in 0..n /\ m - 1 \notin bad
    BY <1>0, <2>1, <2>2, <2>3
  <2>5. PICK f \in [0..(m - 1) -> Nat] : Sums(m - 1, f)
    BY <1>0, <2>4
  <2> DEFINE g == [k \in 0..m |-> IF k < m THEN f[k] ELSE f[m - 1] + w[m]]
  <2>6. g \in [0..m -> Nat]
    BY <2>4
  <2>7. g[0] = 0
    BY <2>4, <2>5
  <2>8. ASSUME NEW k \in 1..m
        PROVE  g[k] = g[k - 1] + w[k]
    <3>1. k - 1 \in 0..m /\ k - 1 < m /\ g[k - 1] = f[k - 1]
      BY <2>4
    <3>2. CASE k < m
      BY <2>4, <2>5, <3>1, <3>2
    <3>3. CASE k = m
      BY <2>4, <3>1, <3>3
    <3>4. QED
      BY <3>2, <3>3, <2>4
  <2>9. m \notin bad
    BY <1>0, <2>6, <2>7, <2>8
  <2>10. QED
    BY <2>2, <2>9
<1>3. QED
  BY <1>1, <1>2

\* Every non-empty set of numbers up to n has a greatest element.
LEMMA GreatestNatural ==
  ASSUME NEW n \in Nat, NEW S \in SUBSET (0..n), S # {}
  PROVE  \E m \in S : \A k \in S : k <= m
<1> DEFINE bounds == {b \in 0..n : \A k \in S : k <= b}
<1>1. bounds # {} /\ bounds \in SUBSET Nat
  <2>1. n \in bounds
    OBVIOUS
  <2>2. QED
    BY <2>1
<1>2. PICK b \in bounds : \A c \in bounds : b <= c
  BY <1>1, LeastNatural
<1>3. b \in 0..n /\ \A k \in S : k <= b
  BY <1>2
<1>4. ASSUME b \notin S PROVE FALSE
  <2>1. \A k \in S : k <= b - 1 /\ k >= 0
    BY <1>3, <1>4
  <2>2. b - 1 \in bounds
    <3>1. PICK k \in S : k >= 0 /\ k <= b - 1
      BY <2>1
    <3>2. b - 1 \in 0..n
      BY <1>3, <3>1
    <3>3. QED
      BY <2>1, <3>2
  <2>3. QED
    BY <1>2, <1>3, <2>2
<1>5. QED
  BY <1>3, <1>4

\* Of finitely many natural numbers one is the greatest; 0 if there are none.
LEMMA GreatestOfMany ==
  ASSUME NEW n \in Nat, NEW f, \A k \in 1..n : f[k] \in Nat
  PROVE  \E m \in Nat : /\ m = 0 \/ \E k \in 1..n : f[k] = m
                       /\ \A k \in 1..n : f[k] <= m
<1> DEFINE Has(l) == \E m \in Nat : /\ m = 0 \/ \E k \in 1..l : f[k] = m
                                   /\ \A k \in 1..l : f[k] <= m
           bad == {l \in 0..n : ~Has(l)}
<1>1. /\ \A l \in 0..n : l \notin bad => Has(l)
      /\ \A l \in bad : l \in 0..n /\ ~Has(l)
  OBVIOUS
<1>2. Has(0)
  OBVIOUS
<1>3. ASSUME NEW l \in 1..n, Has(l - 1) PROVE Has(l)
  <2>1. PICK x \in Nat : /\ x = 0 \/ \E k \in 1..(l - 1) : f[k] = x
                        /\ \A k \in 1..(l - 1) : f[k] <= x
    BY <1>3
  <2>2. f[l] \in Nat /\ \A k \in 1..l : (k \in 1..(l - 1) \/ k = l) /\ f[k] \in Nat
    OBVIOUS
  <2>3. CASE f[l] <= x
    BY <2>1, <2>2, <2>3
  <2>4. CASE ~(f[l] <= x)
    BY <2>1, <2>2, <2>4
  <2>5. QED
    BY <2>3, <2>4
<1> HIDE DEF Has, bad
<1>4. CASE bad # {}
  <2>1. bad \in SUBSET Nat
    BY <1>1
  <2>2. PICK l \in bad : \A k \in bad : l <= k
    BY <1>4, <2>1, LeastNatural
  <2>3. l \in 0..n /\ l # 0
    BY <1>1, <1>2, <2>2
  <2>4. l \in 1..n /\ l - 1 \in 0..n
    BY <2>3
  <2>5. l - 1 \notin bad
    BY <2>1, <2>2, <2>3
  <2>6. Has(l)
    BY <1>1, <1>3, <2>4, <2>5
  <2>7. QED
    BY <1>1, <2>2, <2>6
<1>5. CASE bad = {}
  BY <1>1, <1>5 DEF Has
<1>6. QED
  BY <1>4, <1>5

\* A number is a multiple and a remainder ...
LEMMA DivMod ==
  ASSUME NEW x \in Int, NEW m \in Nat \ {0}
  PROVE  x = m * (x \div m) + (x % m) /\ x \div m \in Int /\ x % m \in 0..(m - 1)
OBVIOUS

\* A small multiple is none.
LEMMA SmallMultiple ==
  ASSUME NEW m \in Nat \ {0}, NEW q \in Int, -m < m * q, m * q < m
  PROVE  q = 0
OBVIOUS

\* ... in one way only.
LEMMA ModIs ==
  ASSUME NEW x \in Int, NEW m \in Nat \ {0}, NEW q \in Int, NEW r \in 0..(m - 1),
         x = m * q + r
  PROVE  x % m = r
<1> DEFINE p == x \div m
           s == x % m
<1>1. x = m * p + s /\ p \in Int /\ s \in 0..(m - 1)
  BY DivMod
<1> HIDE DEF p, s
<1>2. m * (p - q) = r - s /\ p - q \in Int
  BY <1>1
<1>3. p - q = 0
  BY <1>1, <1>2, SmallMultiple
<1>4. QED
  BY <1>1, <1>2, <1>3 DEF s

\* A remainder that is added to has the remainder of the sum.
LEMMA ModAdd ==
  ASSUME NEW x \in Int, NEW m \in Nat \ {0}, NEW k \in Int
  PROVE  ((x % m) + k) % m = (x + k) % m
<1> DEFINE q == x \div m
           y == (x % m) + k
           p == y \div m
           r == y % m
<1>1. x = m * q + (x % m) /\ q \in Int /\ x % m \in Int
  BY DivMod
<1>2. y \in Int
  BY <1>1
<1>3. y = m * p + r /\ p \in Int /\ r \in 0..(m - 1)
  BY <1>2, DivMod
<1> HIDE DEF q, p, r
<1>4. x + k = m * (q + p) + r /\ q + p \in Int /\ x + k \in Int
  BY <1>1, <1>3
<1>5. (x + k) % m = r
  BY <1>3, <1>4, ModIs
<1>6. QED
  BY <1>5 DEF r

\* Two close numbers of the same remainder are the same.
LEMMA ModDistinct ==
  ASSUME NEW x \in Int, NEW y \in Int, NEW m \in Nat \ {0},
         x <= y, y < x + m, x % m = y % m
  PROVE  x = y
<1> DEFINE p == x \div m
           q == y \div m
           r == x % m
<1>1. x = m * p + r /\ y = m * q + r /\ p \in Int /\ q \in Int /\ r \in Int
  BY DivMod
<1> HIDE DEF p, q, r
<1>2. y - x = m * (q - p) /\ q - p \in Int
  BY <1>1
<1>3. q - p = 0
  BY <1>2, SmallMultiple
<1>4. QED
  BY <1>1, <1>3

\* A multiple is no less.
LEMMA MultipleNoLess ==
  ASSUME NEW f \in Nat \ {0}, NEW t \in Nat
  PROVE  t <= f * t
<1>1. f - 1 \in Nat
  OBVIOUS
<1>2. f * t = (f - 1) * t + t
  OBVIOUS
<1>3. (f - 1) * t \in Nat
  BY <1>1
<1>4. QED
  BY <1>2, <1>3
================================================================================
