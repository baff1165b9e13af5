-------------------------- MODULE ArithmeticProofs --------------------------
(***************************************************************************)
(* Lemmas that the proofs of several components share: about division and  *)
(* remainder (pages, slabs, objects and glyphs are multiples of their      *)
(* sizes), and about functions defined by recursion on the naturals.       *)
(***************************************************************************)
EXTENDS Integers, WellFoundedInduction, TLAPS

LEMMA DivisionWithRemainder ==
  ASSUME NEW a \in Int, NEW m \in Nat \ {0}
  PROVE  /\ a \div m \in Int
         /\ a % m \in 0 .. (m - 1)
         /\ a = m * (a \div m) + (a % m)
  OBVIOUS

LEMMA RemainderSmall ==
  ASSUME NEW a \in Nat, NEW m \in Nat \ {0}, a < m
  PROVE  a % m = a
  OBVIOUS

LEMMA RemainderUnique ==
  ASSUME NEW m \in Nat \ {0}, NEW p \in Int, NEW q \in Int,
         NEW r \in 0 .. (m - 1), NEW s \in 0 .. (m - 1),
         m * q + r = m * p + s
  PROVE  r = s
  <1>1. m * (q - p) = s - r
    OBVIOUS
  <1>2. CASE q - p >= 1
    <2>1. m * (q - p) >= m  BY <1>2
    <2>. QED  BY <1>1, <2>1
  <1>3. CASE q - p <= -1
    <2>1. m * (q - p) <= -m  BY <1>3
    <2>. QED  BY <1>1, <2>1
  <1>4. CASE q - p = 0
    BY <1>1, <1>4
  <1>. QED  BY <1>2, <1>3, <1>4

\* A multiple of the modulus does not change the remainder.
LEMMA RemainderShift ==
  ASSUME NEW a \in Int, NEW b \in Int, NEW m \in Nat \ {0}, b % m = 0
  PROVE  (a + b) % m = a % m
  <1>1. a = m * (a \div m) + (a % m) /\ b = m * (b \div m)
    BY DivisionWithRemainder
  <1>2. a + b = m * ((a + b) \div m) + ((a + b) % m)
    BY DivisionWithRemainder
  <1>3. a + b = m * (a \div m + b \div m) + (a % m)
    BY <1>1, DivisionWithRemainder
  <1>4. /\ a \div m + b \div m \in Int /\ (a + b) \div m \in Int
        /\ a % m \in 0 .. (m - 1) /\ (a + b) % m \in 0 .. (m - 1)
    BY DivisionWithRemainder
  <1>5. m * ((a + b) \div m) + ((a + b) % m) = m * (a \div m + b \div m) + (a % m)
    BY <1>2, <1>3
  <1>. QED  BY <1>4, <1>5, RemainderUnique

\* The products of two numbers keep their order and lie a factor apart.
LEMMA ProductGap ==
  ASSUME NEW size \in Nat, NEW k \in Int, NEW l \in Int, k < l
  PROVE  k * size + size <= l * size
  <1>1. (l - k - 1) \in Nat
    OBVIOUS
  <1>2. (l - k - 1) * size \in Nat
    BY <1>1
  <1>. QED  BY <1>2

\* Two multiples of m that differ lie at least m apart.
LEMMA MultipleGap ==
  ASSUME NEW m \in Nat \ {0}, NEW a \in Int, NEW b \in Int,
         a % m = 0, b % m = 0, a < b
  PROVE  a + m <= b
  <1>1. /\ a \div m \in Int /\ b \div m \in Int
        /\ a = m * (a \div m) /\ b = m * (b \div m)
    BY DivisionWithRemainder
  <1>2. CASE a \div m < b \div m
    <2>1. (a \div m) * m + m <= (b \div m) * m
      BY <1>1, <1>2, ProductGap
    <2>. QED  BY <1>1, <2>1
  <1>3. CASE b \div m < a \div m
    <2>1. (b \div m) * m + m <= (a \div m) * m
      BY <1>1, <1>3, ProductGap
    <2>. QED  BY <1>1, <2>1
  <1>4. CASE a \div m = b \div m
    BY <1>1, <1>4
  <1>. QED  BY <1>1, <1>2, <1>3, <1>4

LEMMA MultiplesApart ==
  ASSUME NEW m \in Nat \ {0}, NEW a \in Int, NEW b \in Int,
         a % m = 0, b % m = 0, a # b
  PROVE  a + m <= b \/ b + m <= a
  <1>1. CASE a < b
    BY <1>1, MultipleGap
  <1>2. CASE b < a
    BY <1>2, MultipleGap
  <1>. QED  BY <1>1, <1>2

LEMMA MultipleRemainder ==
  ASSUME NEW m \in Nat \ {0}, NEW k \in Int, NEW a \in Int, a = m * k
  PROVE  a % m = 0
  <1>1. /\ a \div m \in Int /\ a % m \in 0 .. (m - 1)
        /\ a = m * (a \div m) + (a % m)
    BY DivisionWithRemainder
  <1>. DEFINE q == a \div m
              r == a % m
  <1>2. q \in Int /\ r \in 0 .. (m - 1) /\ m * q + r = m * k + 0
    BY <1>1
  <1>. HIDE DEF q, r
  <1>3. r = 0
    BY <1>2, RemainderUnique
  <1>. QED  BY <1>3 DEF r

\* A whole that is cut into equal parts: each part lies inside it and ends on
\* a boundary.
LEMMA PartsFit ==
  ASSUME NEW whole \in Nat, NEW size \in Nat \ {0}, whole % size = 0,
         NEW k \in 0 .. ((whole \div size) - 1)
  PROVE  /\ k \in Nat /\ k * size \in Nat
         /\ k * size + size <= whole
         /\ (k * size + size) % size = 0
  <1>. DEFINE n == whole \div size
  <1>1. n \in Int /\ whole = size * n
    BY DivisionWithRemainder
  <1>2. k \in Nat /\ k < n
    BY <1>1
  <1>. HIDE DEF n
  <1>3. k * size + size <= n * size
    BY <1>1, <1>2, ProductGap
  <1>4. k * size \in Nat
    BY <1>2
  <1>5. k * size + size = size * (k + 1) /\ k + 1 \in Int /\ k * size + size \in Int
    BY <1>2, <1>4
  <1>6. (k * size + size) % size = 0
    BY <1>5, MultipleRemainder
  <1>. QED  BY <1>1, <1>2, <1>3, <1>4, <1>6

LEMMA CancelFactor ==
  ASSUME NEW m \in Nat \ {0}, NEW a \in Int, NEW b \in Int, a * m <= b * m
  PROVE  a <= b
  <1>1. SUFFICES ASSUME b < a PROVE FALSE
    OBVIOUS
  <1>2. b * m + m <= a * m
    BY <1>1, ProductGap
  <1>3. a * m \in Int /\ b * m \in Int
    OBVIOUS
  <1>. QED  BY <1>2, <1>3

\* The number of the part, of n * count parts in groups of n, names a group.
LEMMA QuotientBelow ==
  ASSUME NEW n \in Nat \ {0}, NEW i \in Nat, NEW count \in Nat, i < n * count
  PROVE  /\ i \div n \in 0 .. (count - 1) /\ i % n \in 0 .. (n - 1)
         /\ i = n * (i \div n) + (i % n)
  <1>. DEFINE q == i \div n
              r == i % n
  <1>1. q \in Int /\ r \in 0 .. (n - 1) /\ i = n * q + r
    BY DivisionWithRemainder
  <1>. HIDE DEF q, r
  <1>2. q >= 0
    <2>1. SUFFICES ASSUME q < 0 PROVE FALSE
      BY <1>1
    <2>2. q * n + n <= 0 * n
      BY <1>1, <2>1, ProductGap
    <2>. QED  BY <1>1, <2>2
  <1>3. q < count
    <2>1. SUFFICES ASSUME count * n <= q * n PROVE FALSE
      <3>1. CASE count <= q
        BY <1>1, <3>1
      <3>. QED  BY <1>1, <3>1
    <2>. QED  BY <1>1, <2>1
  <1>. QED  BY <1>1, <1>2, <1>3 DEF q, r

\* The quotient is the only number that leaves a remainder.
LEMMA QuotientUnique ==
  ASSUME NEW a \in Int, NEW m \in Nat \ {0}, NEW q \in Int, NEW r \in 0 .. (m - 1),
         a = m * q + r
  PROVE  a \div m = q
  <1>. DEFINE p == a \div m
              s == a % m
  <1>1. p \in Int /\ s \in 0 .. (m - 1) /\ a = m * p + s
    BY DivisionWithRemainder
  <1>. HIDE DEF p, s
  <1>2. r = s
    BY <1>1, RemainderUnique
  <1>3. q * m <= p * m /\ p * m <= q * m
    BY <1>1, <1>2
  <1>4. q <= p
    BY <1>1, <1>3, CancelFactor
  <1>5. p <= q
    BY <1>1, <1>3, CancelFactor
  <1>. QED  BY <1>1, <1>4, <1>5 DEF p

\* Two divisions in a row divide by the product.
LEMMA QuotientOfQuotient ==
  ASSUME NEW a \in Nat, NEW m \in Nat \ {0}, NEW n \in Nat \ {0}
  PROVE  (a \div m) \div n = a \div (n * m)
  <1>. DEFINE q == a \div m
              r == a % m
              p == q \div n
              s == q % n
  <1>1. q \in Int /\ r \in 0 .. (m - 1) /\ a = m * q + r
    BY DivisionWithRemainder
  <1>. HIDE DEF q, r
  <1>2. p \in Int /\ s \in 0 .. (n - 1) /\ q = n * p + s
    BY <1>1, DivisionWithRemainder
  <1>. HIDE DEF p, s
  <1>3. a = (n * m) * p + (m * s + r)
    <2>1. m * q = m * (n * p) + m * s
      BY <1>2
    <2>2. m * (n * p) = (n * m) * p
      BY <1>2
    <2>. QED  BY <1>1, <1>2, <2>1, <2>2
  <1>4. m * s + r \in 0 .. (n * m - 1)
    <2>1. s * m + m <= n * m
      BY <1>2, ProductGap
    <2>2. m * s \in Nat /\ m * s = s * m
      BY <1>2
    <2>3. n * m \in Nat /\ s * m \in Nat
      BY <1>2
    <2>. DEFINE x == m * s
                y == n * m
                z == s * m
    <2>4. z + m <= y /\ x \in Nat /\ x = z /\ y \in Nat
      BY <2>1, <2>2, <2>3
    <2>. HIDE DEF x, y, z
    <2>5. x + r \in 0 .. (y - 1)
      BY <1>1, <2>4
    <2>. QED  BY <2>5 DEF x, y
  <1>5. n * m \in Nat \ {0}
    OBVIOUS
  <1>. DEFINE nm == n * m
              rest == m * s + r
  <1>6. nm \in Nat \ {0} /\ rest \in 0 .. (nm - 1) /\ a = nm * p + rest
    BY <1>3, <1>4, <1>5
  <1>. HIDE DEF nm, rest
  <1>7. a \div nm = p
    BY <1>2, <1>6, QuotientUnique
  <1>. QED  BY <1>7 DEF nm, p, q

\* A set of naturals has a least element.
LEMMA LeastElement ==
  ASSUME NEW T, T \in SUBSET Nat, T # {}
  PROVE  \E m \in T : \A n \in T : m <= n
<1> DEFINE R == OpToRel(<, Nat)
<1>1. PICK m \in T : \A n \in T : <<n, m>> \notin R
  BY WFMin, NatLessThanWellFounded, Zenon
<1>2. \A n \in T : n \in Nat /\ m \in Nat /\ ~(n < m)
  BY <1>1, Zenon DEF OpToRel
<1> HIDE DEF R
<1>3. \A n \in T : m <= n
  BY <1>2
<1>4. QED
  BY <1>3

\* What holds of 0 and passes from each number to the next holds of all.
LEMMA NaturalsByStep ==
  ASSUME NEW T, 0 \in T, \A n \in Nat : n \in T => n + 1 \in T
  PROVE  Nat \subseteq T
<1> DEFINE missing == {n \in Nat : n \notin T}
<1>1. SUFFICES ASSUME missing # {} PROVE FALSE
  OBVIOUS
<1>2. PICK m \in missing : \A n \in missing : m <= n
  BY <1>1, LeastElement
<1>3. m # 0 /\ m - 1 \in Nat
  BY <1>2
<1>4. m - 1 \notin missing
  BY <1>2, <1>3
<1>5. QED
  BY <1>2, <1>3, <1>4
----------------------------------------------------------------------------
(* Functions defined by recursion on the naturals.                         *)

\* f is start, then what one step after the other makes of it.
Iterates(f, V, start, step) ==
  f \in [Nat -> V] /\ f[0] = start /\ \A n \in Nat : f[n + 1] = step[n][f[n]]

LEMMA Iteration ==
  ASSUME NEW V, NEW start \in V, NEW step \in [Nat -> [V -> V]]
  PROVE  \E f : Iterates(f, V, start, step)
  <1>. DEFINE Upto(n) == {g \in [0 .. n -> V] :
                            g[0] = start /\ \A k \in 0 .. (n - 1) : g[k + 1] = step[k][g[k]]}
  <1>1. \A n \in Nat : Upto(n) # {}
    <2>. DEFINE T == {n \in Nat : Upto(n) # {}}
    <2>1. 0 \in T
      <3>. DEFINE g == [k \in 0 .. 0 |-> start]
      <3>1. g \in Upto(0)
        OBVIOUS
      <3>. QED  BY <3>1
    <2>2. ASSUME NEW n \in Nat, n \in T PROVE n + 1 \in T
      <3>1. PICK g \in Upto(n) : TRUE
        BY <2>2
      <3>. DEFINE h == [k \in 0 .. (n + 1) |-> IF k = n + 1 THEN step[n][g[n]] ELSE g[k]]
      <3>2. h \in [0 .. (n + 1) -> V] /\ h[0] = start
        BY <3>1
      <3>3. ASSUME NEW k \in 0 .. n PROVE h[k + 1] = step[k][h[k]]
        BY <3>1
      <3>4. h \in Upto(n + 1)
        BY <3>2, <3>3
      <3>. HIDE DEF h, Upto
      <3>. QED  BY <3>4
    <2>. HIDE DEF T
    <2>3. Nat \subseteq T
      BY <2>1, <2>2, NaturalsByStep
    <2>. QED  BY <2>3 DEF T
  <1>2. ASSUME NEW m \in Nat, NEW n \in Nat, NEW g \in Upto(m), NEW h \in Upto(n), m <= n
        PROVE  g[m] = h[m]
    <2>. DEFINE T == {k \in Nat : k <= m => g[k] = h[k]}
    <2>1. 0 \in T
      OBVIOUS
    <2>2. ASSUME NEW k \in Nat, k \in T PROVE k + 1 \in T
      <3>1. CASE k + 1 <= m
        <4>1. k \in 0 .. (m - 1) /\ k \in 0 .. (n - 1) /\ g[k] = h[k]
          BY <1>2, <2>2, <3>1
        <4>2. g[k + 1] = step[k][g[k]] /\ h[k + 1] = step[k][h[k]]
          BY <4>1
        <4>. QED  BY <4>1, <4>2
      <3>2. CASE ~(k + 1 <= m)
        BY <3>2
      <3>. QED  BY <3>1, <3>2
    <2>. HIDE DEF T
    <2>3. Nat \subseteq T
      BY <2>1, <2>2, NaturalsByStep
    <2>. QED  BY <2>3 DEF T
  <1>. DEFINE G(n) == CHOOSE g \in Upto(n) : TRUE
              f == [n \in Nat |-> G(n)[n]]
  <1>3. \A n \in Nat : G(n) \in Upto(n)
    BY <1>1
  <1>. HIDE DEF G
  <1>4. ASSUME NEW n \in Nat PROVE G(n)[n] \in V
    <2>1. G(n) \in [0 .. n -> V] /\ n \in 0 .. n
      BY <1>3
    <2>. HIDE DEF Upto
    <2>. QED  BY <2>1
  <1>5. f \in [Nat -> V]
    BY <1>4
  <1>6. f[0] = start
    BY <1>3
  <1>7. ASSUME NEW n \in Nat PROVE f[n + 1] = step[n][f[n]]
    <2>1. G(n) \in Upto(n) /\ G(n + 1) \in Upto(n + 1)
      BY <1>3
    <2>2. G(n + 1)[n + 1] = step[n][G(n + 1)[n]]
      BY <2>1
    <2>. HIDE DEF Upto
    <2>3. G(n)[n] = G(n + 1)[n]
      BY <1>2, <2>1
    <2>. QED  BY <2>2, <2>3
  <1>. QED  BY <1>5, <1>6, <1>7 DEF Iterates

LEMMA SmallerQuotient ==
  ASSUME NEW b \in Nat, b >= 2, NEW v \in Nat, v >= b
  PROVE  v \div b \in Nat /\ v \div b < v
  <1>. DEFINE q == v \div b
  <1>1. q \in Int /\ v % b \in 0 .. (b - 1) /\ v = b * q + (v % b)
    BY DivisionWithRemainder
  <1>. HIDE DEF q
  <1>2. q >= 1
    <2>1. SUFFICES ASSUME q <= 0 PROVE FALSE
      BY <1>1
    <2>2. b * q <= 0
      BY <1>1, <2>1
    <2>3. b * q \in Int
      BY <1>1
    <2>. QED  BY <1>1, <2>2, <2>3
  <1>3. b * q >= 2 * q
    <2>1. (b - 2) * q >= 0
      BY <1>1, <1>2
    <2>2. (b - 2) * q = b * q - 2 * q
      BY <1>1
    <2>. QED  BY <1>1, <2>1, <2>2
  <1>4. q < v
    <2>1. b * q \in Int
      BY <1>1
    <2>. QED  BY <1>1, <1>2, <1>3, <2>1
  <1>. QED  BY <1>1, <1>2, <1>4 DEF q

\* What holds of the remainders and passes from each quotient to its numbers
\* holds of all.
LEMMA NaturalsByDivision ==
  ASSUME NEW b \in Nat, b >= 2, NEW T,
         \A v \in Nat : v < b => v \in T,
         \A v \in Nat : v >= b /\ v \div b \in T => v \in T
  PROVE  Nat \subseteq T
  <1>. DEFINE missing == {v \in Nat : v \notin T}
  <1>1. SUFFICES ASSUME missing # {} PROVE FALSE
    OBVIOUS
  <1>2. PICK v \in missing : \A u \in missing : v <= u
    BY <1>1, LeastElement
  <1>3. v >= b
    BY <1>2
  <1>4. v \div b \in Nat /\ v \div b < v
    BY <1>3, SmallerQuotient
  <1>5. v \div b \notin missing
    <2>1. v \in Nat /\ ~(v <= v \div b)
      BY <1>4
    <2>. QED  BY <1>2, <2>1
  <1>. QED  BY <1>2, <1>3, <1>4, <1>5

\* f is first for the remainders and more for a number and what f is for its
\* quotient.
ByDivision(f, b, V, first, more) ==
  f \in [Nat -> V] /\ \A v \in Nat : f[v] = IF v < b THEN first[v] ELSE more[v][f[v \div b]]

LEMMA DivisionRecursion ==
  ASSUME NEW b \in Nat, b >= 2, NEW V, NEW first \in [Nat -> V], NEW more \in [Nat -> [V -> V]]
  PROVE  \E f : ByDivision(f, b, V, first, more)
  <1>. DEFINE Next(h, v) == IF v < b THEN first[v] ELSE more[v][h[v \div b]]
              Upto(n) == {h \in [0 .. n -> V] : \A v \in 0 .. n : h[v] = Next(h, v)}
  <1>1. ASSUME NEW v \in Nat, v >= b PROVE v \div b \in Nat /\ v \div b < v
    BY <1>1, SmallerQuotient
  <1>2. ASSUME NEW v \in Nat, NEW h, v >= b => h[v \div b] \in V PROVE Next(h, v) \in V
    <2>1. CASE v < b
      BY <2>1
    <2>2. CASE ~(v < b)
      <3>1. v >= b
        BY <2>2
      <3>2. h[v \div b] \in V
        BY <1>2, <3>1
      <3>3. more[v] \in [V -> V]
        OBVIOUS
      <3>4. more[v][h[v \div b]] \in V
        BY <3>2, <3>3
      <3>. QED  BY <2>2, <3>4
    <2>. QED  BY <2>1, <2>2
  <1>3. ASSUME NEW v \in Nat, NEW g, NEW h, v >= b => g[v \div b] = h[v \div b] PROVE Next(g, v) = Next(h, v)
    <2>1. CASE v < b
      BY <2>1
    <2>2. CASE ~(v < b)
      <3>1. v >= b
        BY <2>2
      <3>2. g[v \div b] = h[v \div b]
        BY <1>3, <3>1
      <3>. QED  BY <2>2, <3>2
    <2>. QED  BY <2>1, <2>2
  <1>4. ASSUME NEW v \in Nat, NEW h, v < b PROVE Next(h, v) = first[v]
    BY <1>4
  <1>5. \A v \in Nat : \A h : Next(h, v) = IF v < b THEN first[v] ELSE more[v][h[v \div b]]
    OBVIOUS
  <1>. HIDE DEF Next
  <1>6. \A n \in Nat : Upto(n) # {}
    <2>. DEFINE T == {n \in Nat : Upto(n) # {}}
    <2>1. 0 \in T
      <3>. DEFINE h == [v \in 0 .. 0 |-> first[v]]
      <3>1. h \in [0 .. 0 -> V] /\ h[0] = first[0] /\ 0 < b
        OBVIOUS
      <3>2. Next(h, 0) = first[0]
        BY <1>4, <3>1
      <3>3. \A v \in 0 .. 0 : h[v] = Next(h, v)
        BY <3>1, <3>2
      <3>4. h \in Upto(0)
        BY <3>1, <3>3
      <3>. QED  BY <3>4
    <2>2. ASSUME NEW n \in Nat, n \in T PROVE n + 1 \in T
      <3>1. PICK h \in Upto(n) : TRUE
        BY <2>2
      <3>. DEFINE g == [v \in 0 .. (n + 1) |-> IF v = n + 1 THEN Next(h, v) ELSE h[v]]
      <3>2. ASSUME NEW v \in 0 .. (n + 1), v >= b PROVE v \div b \in 0 .. n
        <4>1. PICK q : q = v \div b
          OBVIOUS
        <4>0. v \in Nat
          OBVIOUS
        <4>2. q \in Nat /\ q < v
          BY <1>1, <3>2, <4>0, <4>1
        <4>3. q \in 0 .. n
          BY ONLY <4>2, v \in 0 .. (n + 1), n \in Nat
        <4>. QED  BY <4>1, <4>3
      <3>3. h \in [0 .. n -> V] /\ \A v \in 0 .. n : h[v] = Next(h, v)
        BY <3>1
      <3>4. ASSUME NEW v \in 0 .. (n + 1), v >= b PROVE h[v \div b] \in V /\ g[v \div b] = h[v \div b]
        <4>1. PICK q : q = v \div b
          OBVIOUS
        <4>2. q \in 0 .. n
          BY <3>2, <3>4, <4>1
        <4>3. h[q] \in V /\ g[q] = h[q]
          BY <3>3, <4>2
        <4>. QED  BY <4>1, <4>3
      <3>5. ASSUME NEW v \in 0 .. (n + 1) PROVE Next(h, v) \in V
        <4>1. v \in Nat
          OBVIOUS
        <4>. QED  BY <1>2, <3>4, <4>1
      <3>6. g \in [0 .. (n + 1) -> V]
        BY <3>3, <3>5
      <3>7. \A v \in 0 .. (n + 1) : g[v] = Next(h, v)
        BY <3>3
      <3>. HIDE DEF g
      <3>8. ASSUME NEW v \in 0 .. (n + 1) PROVE g[v] = Next(g, v)
        <4>1. v \in Nat
          OBVIOUS
        <4>2. Next(g, v) = Next(h, v)
          BY <1>3, <3>4, <4>1
        <4>. QED  BY <3>7, <4>2
      <3>9. g \in Upto(n + 1)
        BY <3>6, <3>8
      <3>10. n + 1 \in Nat
        OBVIOUS
      <3>. QED  BY <3>9, <3>10
    <2>. HIDE DEF T
    <2>3. Nat \subseteq T
      BY <2>1, <2>2, NaturalsByStep
    <2>. QED  BY <2>3 DEF T
  <1>7. \A n \in Nat : \A h \in Upto(n) : h \in [0 .. n -> V] /\ \A v \in 0 .. n : h[v] = Next(h, v)
    OBVIOUS
  <1>. HIDE DEF Upto
  <1>8. ASSUME NEW m \in Nat, NEW n \in Nat, NEW g \in Upto(m), NEW h \in Upto(n), m <= n
        PROVE  g[m] = h[m]
    <2>. DEFINE T == {v \in Nat : v <= m => g[v] = h[v]}
    <2>1. ASSUME NEW v \in Nat, v < b PROVE v \in T
      <3>1. SUFFICES ASSUME v <= m PROVE g[v] = h[v]
        OBVIOUS
      <3>2. v \in 0 .. m /\ v \in 0 .. n
        BY <1>8, <3>1
      <3>3. g[v] = Next(g, v) /\ h[v] = Next(h, v)
        BY <1>7, <3>2
      <3>. QED  BY <1>4, <2>1, <3>3
    <2>2. ASSUME NEW v \in Nat, v >= b, v \div b \in T PROVE v \in T
      <3>1. SUFFICES ASSUME v <= m PROVE g[v] = h[v]
        OBVIOUS
      <3>2. v \in 0 .. m /\ v \in 0 .. n
        BY <1>8, <3>1
      <3>3. g[v] = Next(g, v) /\ h[v] = Next(h, v)
        BY <1>7, <3>2
      <3>4. g[v \div b] = h[v \div b]
        <4>1. PICK q : q = v \div b
          OBVIOUS
        <4>2. q \in Nat /\ q < v
          BY <1>1, <2>2, <4>1
        <4>3. q <= m
          BY <3>1, <4>2
        <4>. QED  BY <2>2, <4>1, <4>3
      <3>. QED  BY <1>3, <3>3, <3>4
    <2>. HIDE DEF T
    <2>3. Nat \subseteq T
      BY <2>1, <2>2, NaturalsByDivision
    <2>. QED  BY <2>3 DEF T
  <1>. DEFINE G(n) == CHOOSE h \in Upto(n) : TRUE
              f == [v \in Nat |-> G(v)[v]]
  <1>9. \A n \in Nat : G(n) \in Upto(n)
    BY <1>6
  <1>. HIDE DEF G
  <1>10. ASSUME NEW v \in Nat PROVE G(v)[v] \in V /\ G(v)[v] = Next(G(v), v)
    <2>1. v \in 0 .. v
      OBVIOUS
    <2>2. G(v) \in Upto(v)
      BY <1>9
    <2>3. PICK h : h = G(v)
      OBVIOUS
    <2>4. h \in [0 .. v -> V] /\ h[v] = Next(h, v)
      BY <1>7, <2>1, <2>2, <2>3
    <2>. QED  BY <2>1, <2>3, <2>4
  <1>11. f \in [Nat -> V] /\ \A v \in Nat : f[v] = G(v)[v]
    BY <1>10
  <1>. HIDE DEF f
  <1>12. ASSUME NEW v \in Nat PROVE f[v] = IF v < b THEN first[v] ELSE more[v][f[v \div b]]
    <2>1. f[v] = Next(G(v), v)
      BY <1>10, <1>11
    <2>2. ASSUME v >= b PROVE G(v)[v \div b] = f[v \div b]
      <3>1. PICK q : q = v \div b
        OBVIOUS
      <3>2. q \in Nat /\ q < v
        BY <1>1, <2>2, <3>1
      <3>3. q <= v
        BY <3>2
      <3>4. G(q) \in Upto(q) /\ G(v) \in Upto(v)
        BY <1>9, <3>2
      <3>5. G(q)[q] = G(v)[q]
        BY <1>8, <3>2, <3>3, <3>4
      <3>. QED  BY <1>11, <3>1, <3>2, <3>5
    <2>3. Next(G(v), v) = Next(f, v)
      BY <1>3, <2>2
    <2>. QED  BY <1>5, <2>1, <2>3
  <1>. QED  BY <1>11, <1>12 DEF ByDivision
=============================================================================
