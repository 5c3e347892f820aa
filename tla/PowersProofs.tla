---------------------------- MODULE PowersProofs ----------------------------
(***************************************************************************)
(* Arithmetic the proofs about the allocators rest on: induction for sets  *)
(* of numbers, division, powers of two and aligned blocks.                 *)
(***************************************************************************)
EXTENDS Powers, NaturalsInduction, WellFoundedInduction, TLAPS

(* A set of numbers has a smallest one. *)
LEMMA LeastNumber ==
  ASSUME NEW T \in SUBSET Nat, T # {}
  PROVE  \E k \in T : \A l \in T : k <= l
<1> DEFINE R == {ss \in Nat \X Nat : ss[1] < ss[2]}
<1>1. IsWellFoundedOn(R, Nat)
  BY NatLessThanWellFounded, Zenon DEF OpToRel
<1>2. PICK k \in T : \A l \in T : ~(<<l, k>> \in R)
  <2> HIDE DEF R
  <2> QED BY <1>1, WFMin
<1>3. ASSUME NEW l \in T PROVE k <= l
  <2>1. ~(l < k)
    BY <1>2
  <2>2. l \in Nat /\ k \in Nat
    OBVIOUS
  <2> QED BY <2>1, <2>2
<1> QED BY <1>3

(* Induction, for a set of numbers. *)
LEMMA NumbersBelow ==
  ASSUME NEW S, 0 \in S, \A k \in Nat : k \in S => k + 1 \in S
  PROVE  \A k \in Nat : k \in S
<1> SUFFICES ASSUME Nat \ S # {} PROVE FALSE
  OBVIOUS
<1>1. PICK k \in Nat \ S : \A l \in Nat \ S : k <= l
  BY LeastNumber
<1>2. k \in Nat /\ k # 0 /\ k - 1 \in Nat
  OBVIOUS
<1>3. k - 1 \notin S
  BY <1>2
<1> QED BY <1>1, <1>2, <1>3

(* A set of numbers with a bound has a largest one. *)
LEMMA LargestNumber ==
  ASSUME NEW T \in SUBSET Int, T # {}, NEW n \in Int, \A l \in T : l <= n
  PROVE  \E k \in T : \A l \in T : l <= k
<1> DEFINE D == {d \in Nat : n - d \in T}
<1>1. PICK l \in T : TRUE
  OBVIOUS
<1>2. n - l \in Nat /\ n - (n - l) = l
  OBVIOUS
<1>3. n - l \in D
  BY <1>2
<1>4. D \in SUBSET Nat /\ D # {}
  BY <1>3
<1>5. PICK d \in D : \A e \in D : d <= e
  <2> HIDE DEF D
  <2> QED BY <1>4, LeastNumber
<1>6. ASSUME NEW j \in T PROVE j <= n - d
  <2>1. n - j \in Nat /\ n - (n - j) = j
    OBVIOUS
  <2>2. n - j \in D
    BY <2>1
  <2>3. d <= n - j
    BY <1>5, <2>2
  <2> QED BY <1>4, <1>5, <2>3
<1> QED BY <1>5, <1>6

----------------------------------------------------------------------------
(* Multiplication keeps the order. *)
LEMMA Scaled ==
  ASSUME NEW x \in Int, NEW y \in Int, NEW s \in Nat, x <= y
  PROVE  x * s <= y * s
<1>1. (y - x) * s >= 0
  OBVIOUS
<1>2. (y - x) * s = y * s - x * s
  OBVIOUS
<1>3. x * s \in Int /\ y * s \in Int
  OBVIOUS
<1> QED BY <1>1, <1>2, <1>3

LEMMA Division ==
  ASSUME NEW P \in Nat \ {0}, NEW v \in Int, NEW q \in Int, NEW r \in Int,
         q = v \div P, r = v % P
  PROVE  v = q * P + r
<1>1. v = P * q + r
  OBVIOUS
<1> QED BY <1>1

(* The multiples of s, and what a division by s leaves. *)
Multiple(a, s) == \E k \in Int : a = k * s

LEMMA Remainder ==
  ASSUME NEW s \in Nat \ {0}, NEW a \in Int, NEW k \in Int, NEW r \in Int,
         a = k * s + r, 0 <= r, r < s
  PROVE  a \div s = k /\ a % s = r
<1>1. PICK q \in Int : q = a \div s
  OBVIOUS
<1>2. PICK t \in Int : t = a % s /\ 0 <= t /\ t < s
  OBVIOUS
<1>3. a = q * s + t
  BY <1>1, <1>2, Division
<1>4. q * s \in Int /\ k * s \in Int
  OBVIOUS
<1>5. q = k
  <2>1. CASE q < k
    <3>1. (q + 1) * s <= k * s
      BY <2>1, Scaled
    <3>2. (q + 1) * s = q * s + s
      OBVIOUS
    <3> QED BY <1>2, <1>3, <1>4, <3>1, <3>2
  <2>2. CASE k < q
    <3>1. (k + 1) * s <= q * s
      BY <2>2, Scaled
    <3>2. (k + 1) * s = k * s + s
      OBVIOUS
    <3> QED BY <1>2, <1>3, <1>4, <3>1, <3>2
  <2> QED BY <2>1, <2>2
<1>6. t = r
  BY <1>2, <1>3, <1>4, <1>5
<1> QED BY <1>1, <1>2, <1>5, <1>6

LEMMA MultipleMod ==
  ASSUME NEW s \in Nat \ {0}, NEW a \in Int
  PROVE  a % s = 0 <=> Multiple(a, s)
<1>1. ASSUME a % s = 0 PROVE Multiple(a, s)
  <2>1. PICK q \in Int : q = a \div s
    OBVIOUS
  <2>2. a = q * s + 0
    BY <1>1, <2>1, Division
  <2>3. a = q * s
    BY <2>2
  <2> QED BY <2>3 DEF Multiple
<1>2. ASSUME Multiple(a, s) PROVE a % s = 0
  <2>1. PICK k \in Int : a = k * s
    BY <1>2 DEF Multiple
  <2>2. a = k * s + 0
    BY <2>1
  <2> QED BY <2>2, Remainder
<1> QED BY <1>1, <1>2

LEMMA MultipleSum ==
  ASSUME NEW a \in Int, NEW b \in Int, NEW s \in Int, Multiple(a, s), Multiple(b, s)
  PROVE  Multiple(a + b, s) /\ Multiple(a - b, s)
<1>1. PICK k \in Int : a = k * s
  BY DEF Multiple
<1>2. PICK l \in Int : b = l * s
  BY DEF Multiple
<1>3. (k + l) * s = k * s + l * s /\ (k - l) * s = k * s - l * s
  OBVIOUS
<1>4. k + l \in Int /\ k - l \in Int
  OBVIOUS
<1>5. a + b = (k + l) * s /\ a - b = (k - l) * s
  BY <1>1, <1>2, <1>3
<1> QED BY <1>4, <1>5 DEF Multiple

LEMMA MultipleOfMultiple ==
  ASSUME NEW a \in Int, NEW s \in Int, NEW t \in Int, Multiple(a, s), Multiple(s, t)
  PROVE  Multiple(a, t)
<1>1. PICK k \in Int : a = k * s
  BY DEF Multiple
<1>2. PICK l \in Int : s = l * t
  BY DEF Multiple
<1>3. k * (l * t) = (k * l) * t
  OBVIOUS
<1>4. k * l \in Int
  OBVIOUS
<1> QED BY <1>1, <1>2, <1>3, <1>4 DEF Multiple

(* Two multiples of s that differ are at least s apart. *)
LEMMA MultipleGap ==
  ASSUME NEW a \in Int, NEW b \in Int, NEW s \in Nat, Multiple(a, s), Multiple(b, s), a < b
  PROVE  a + s <= b
<1>1. PICK k \in Int : a = k * s
  BY DEF Multiple
<1>2. PICK l \in Int : b = l * s
  BY DEF Multiple
<1>3. k < l
  <2>1. CASE l <= k
    <3>1. l * s <= k * s
      BY <2>1, Scaled
    <3> QED BY <1>1, <1>2, <3>1
  <2> QED BY <2>1
<1>4. (k + 1) * s <= l * s
  BY <1>3, Scaled
<1>5. (k + 1) * s = k * s + s
  OBVIOUS
<1> QED BY <1>1, <1>2, <1>4, <1>5

----------------------------------------------------------------------------
(* Powers of two. *)

Doubled(v, n) == 2 * v

LEMMA PowSteps == Pow2[0] = 1 /\ \A n \in Nat : Pow2[n + 1] = 2 * Pow2[n]
<1>1. NatInductiveDefHypothesis(Pow2, 1, Doubled)
  BY DEF NatInductiveDefHypothesis, Pow2, Doubled
<1>2. NatInductiveDefConclusion(Pow2, 1, Doubled)
  BY <1>1, NatInductiveDef
<1>3. Pow2 = [i \in Nat |-> IF i = 0 THEN 1 ELSE 2 * Pow2[i - 1]]
  BY <1>2 DEF NatInductiveDefConclusion, Doubled
<1> HIDE DEF Pow2
<1>4. \A n \in Nat : n + 1 \in Nat /\ n + 1 # 0 /\ (n + 1) - 1 = n
  OBVIOUS
<1>5. Pow2[0] = 1
  BY <1>3
<1>6. ASSUME NEW n \in Nat PROVE Pow2[n + 1] = 2 * Pow2[n]
  BY <1>3, <1>4
<1> QED BY <1>5, <1>6

LEMMA PowPositive == \A n \in Nat : Pow2[n] \in Nat \ {0}
<1> DEFINE S == {n \in Nat : Pow2[n] \in Nat \ {0}}
<1>1. 0 \in S
  BY PowSteps
<1>2. \A k \in Nat : k \in S => k + 1 \in S
  BY PowSteps
<1>3. \A k \in Nat : k \in S
  <2> HIDE DEF S
  <2> QED BY <1>1, <1>2, NumbersBelow
<1> QED BY <1>3

LEMMA PowSum == \A a, b \in Nat : Pow2[a + b] = Pow2[a] * Pow2[b]
<1> SUFFICES ASSUME NEW a \in Nat PROVE \A b \in Nat : Pow2[a + b] = Pow2[a] * Pow2[b]
  OBVIOUS
<1> DEFINE S == {b \in Nat : Pow2[a + b] = Pow2[a] * Pow2[b]}
<1>1. 0 \in S
  BY PowSteps, PowPositive
<1>2. ASSUME NEW k \in Nat, k \in S PROVE k + 1 \in S
  <2>1. a + (k + 1) = (a + k) + 1 /\ a + k \in Nat
    OBVIOUS
  <2>2. Pow2[a + (k + 1)] = 2 * Pow2[a + k]
    BY <2>1, PowSteps
  <2>3. Pow2[a + k] = Pow2[a] * Pow2[k]
    BY <1>2
  <2>4. Pow2[k + 1] = 2 * Pow2[k]
    BY PowSteps
  <2>5. PICK x \in Nat, y \in Nat : x = Pow2[a] /\ y = Pow2[k]
    BY PowPositive
  <2>6. 2 * (x * y) = x * (2 * y)
    OBVIOUS
  <2> QED BY <2>2, <2>3, <2>4, <2>5, <2>6
<1>3. \A k \in Nat : k \in S
  <2> HIDE DEF S
  <2> QED BY <1>1, <1>2, NumbersBelow
<1> QED BY <1>3

(* A power is a multiple of every smaller one. *)
LEMMA PowMultiple ==
  ASSUME NEW a \in Nat, NEW b \in Nat, a <= b
  PROVE  \E m \in Nat \ {0} : Pow2[b] = m * Pow2[a] /\ (a < b => m >= 2)
<1>1. b - a \in Nat /\ a + (b - a) = b
  OBVIOUS
<1>2. PICK m \in Nat \ {0} : m = Pow2[b - a]
  BY <1>1, PowPositive
<1>3. Pow2[b] = Pow2[a] * m
  BY <1>1, <1>2, PowSum
<1>4. PICK x \in Nat : x = Pow2[a]
  BY PowPositive
<1>5. Pow2[b] = m * Pow2[a]
  BY <1>3, <1>4
<1>6. ASSUME a < b PROVE m >= 2
  <2>1. b - a - 1 \in Nat /\ (b - a - 1) + 1 = b - a
    BY <1>6
  <2>2. Pow2[b - a] = 2 * Pow2[b - a - 1] /\ Pow2[b - a - 1] \in Nat \ {0}
    BY <2>1, PowSteps, PowPositive
  <2> QED BY <1>2, <2>2
<1> QED BY <1>5, <1>6

LEMMA PowDivides ==
  ASSUME NEW a \in Nat, NEW b \in Nat, a <= b
  PROVE  Multiple(Pow2[b], Pow2[a])
<1>1. PICK m \in Nat \ {0} : Pow2[b] = m * Pow2[a]
  BY PowMultiple
<1>2. m \in Int
  OBVIOUS
<1> QED BY <1>1, <1>2 DEF Multiple

LEMMA PowOrder ==
  ASSUME NEW a \in Nat, NEW b \in Nat
  PROVE  /\ a <= b => Pow2[a] <= Pow2[b]
         /\ a < b => 2 * Pow2[a] <= Pow2[b] /\ Pow2[a] < Pow2[b]
         /\ Pow2[a] <= Pow2[b] => a <= b
<1>0. PICK x \in Nat \ {0} : x = Pow2[a]
  BY PowPositive
<1>1. ASSUME NEW i \in Nat, NEW j \in Nat, i < j
      PROVE  2 * Pow2[i] <= Pow2[j] /\ Pow2[i] < Pow2[j]
  <2>0. PICK y \in Nat \ {0} : y = Pow2[i]
    BY PowPositive
  <2>1. PICK m \in Nat \ {0} : Pow2[j] = m * Pow2[i] /\ m >= 2
    BY <1>1, PowMultiple
  <2>2. 2 * y <= m * y
    BY <2>1, Scaled
  <2> QED BY <2>0, <2>1, <2>2
<1>2. a <= b => Pow2[a] <= Pow2[b]
  BY <1>0, <1>1, PowPositive
<1>3. ASSUME Pow2[a] <= Pow2[b] PROVE a <= b
  <2>1. CASE b < a
    BY <1>1, <1>3, <2>1, PowPositive
  <2> QED BY <2>1
<1> QED BY <1>1, <1>2, <1>3

(* There are powers above every number. *)
LEMMA PowAbove == \A n \in Nat : n < Pow2[n]
<1> DEFINE S == {n \in Nat : n < Pow2[n]}
<1>1. 0 \in S
  BY PowSteps
<1>2. \A k \in Nat : k \in S => k + 1 \in S
  BY PowSteps, PowPositive
<1>3. \A k \in Nat : k \in S
  <2> HIDE DEF S
  <2> QED BY <1>1, <1>2, NumbersBelow
<1> QED BY <1>3
=============================================================================
