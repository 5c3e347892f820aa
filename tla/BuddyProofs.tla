---------------------------- MODULE BuddyProofs -----------------------------
(***************************************************************************)
(* Proofs about Buddy, for every memory map, every number of levels and    *)
(* every size callers ask for: no memory is lost or handed out twice, the  *)
(* metadata is true wherever free_at_level consults it, and the allocator  *)
(* implements PhysSpec.                                                    *)
(***************************************************************************)
EXTENDS Buddy, PowersProofs, FiniteSetTheorems

(***************************************************************************)
(* Blocks: a block of level l starts at a multiple of its size.            *)
(***************************************************************************)
Aligned(a, l) == Multiple(a, BlockSize(l))
Inside(x, a, s) == a <= x /\ x < a + s
Apart(a, s, b, t) == a + s <= b \/ b + t <= a

LEMMA LevelTypes ==
    /\ LEVELS \in Nat \ {0} /\ PAGE \in Levels /\ PAGE \in Nat /\ LEVELS - 1 \in Nat
    /\ Levels \subseteq Nat /\ FreeLevels \subseteq Levels
    /\ \A l : l \in Levels <=> l \in Int /\ 0 <= l /\ l < LEVELS
BY BuddyAssumption DEF Levels

LEMMA BlockSizes ==
    /\ \A l \in Nat : BlockSize(l) \in Nat \ {0} /\ BlockSize(l + 1) = 2 * BlockSize(l)
    /\ \A j, k \in Nat : /\ j <= k => BlockSize(j) <= BlockSize(k)
                         /\ j < k => 2 * BlockSize(j) <= BlockSize(k)
                         /\ BlockSize(j) = BlockSize(k) => j = k
                         /\ j <= k => Multiple(BlockSize(k), BlockSize(j))
<1>1. FIRST \in Nat
  BY BuddyAssumption
<1>2. ASSUME NEW l \in Nat
      PROVE  BlockSize(l) \in Nat \ {0} /\ BlockSize(l + 1) = 2 * BlockSize(l)
  <2>1. l + FIRST \in Nat /\ (l + 1) + FIRST = (l + FIRST) + 1
    BY <1>1
  <2> QED BY <2>1, PowPositive, PowSteps DEF BlockSize
<1>3. ASSUME NEW j \in Nat, NEW k \in Nat
      PROVE  /\ j <= k => BlockSize(j) <= BlockSize(k)
             /\ j < k => 2 * BlockSize(j) <= BlockSize(k)
             /\ BlockSize(j) = BlockSize(k) => j = k
             /\ j <= k => Multiple(BlockSize(k), BlockSize(j))
  <2>1. j + FIRST \in Nat /\ k + FIRST \in Nat
    BY <1>1
  <2>2. /\ j <= k => BlockSize(j) <= BlockSize(k)
        /\ j < k => 2 * BlockSize(j) <= BlockSize(k)
    BY <1>1, <2>1, PowOrder DEF BlockSize
  <2>3. j <= k => Multiple(BlockSize(k), BlockSize(j))
    BY <1>1, <2>1, PowDivides DEF BlockSize
  <2>4. k < j => 2 * BlockSize(k) <= BlockSize(j)
    BY <1>1, <2>1, PowOrder DEF BlockSize
  <2>5. BlockSize(j) \in Nat \ {0} /\ BlockSize(k) \in Nat \ {0}
    BY <1>2
  <2>6. BlockSize(j) = BlockSize(k) => j = k
    BY <2>2, <2>4, <2>5
  <2> QED BY <2>2, <2>3, <2>6
<1> QED BY <1>2, <1>3

LEMMA Coarser ==
  ASSUME NEW a \in Int, NEW j \in Nat, NEW k \in Nat, j <= k, Aligned(a, k)
  PROVE  Aligned(a, j)
<1>1. BlockSize(j) \in Nat /\ BlockSize(k) \in Nat /\ Multiple(BlockSize(k), BlockSize(j))
  BY BlockSizes
<1> QED BY <1>1, MultipleOfMultiple DEF Aligned

(* Of two blocks the smaller one is inside the larger one, or they are apart. *)
LEMMA Nest ==
  ASSUME NEW a \in Int, NEW j \in Nat, NEW b \in Int, NEW k \in Nat, j <= k,
         Aligned(a, j), Aligned(b, k)
  PROVE  \/ b <= a /\ a + BlockSize(j) <= b + BlockSize(k)
         \/ a + BlockSize(j) <= b
         \/ b + BlockSize(k) <= a
<1>1. BlockSize(j) \in Nat /\ BlockSize(k) \in Nat /\ Multiple(BlockSize(k), BlockSize(j))
  BY BlockSizes
<1>2. Aligned(b, j)
  BY Coarser
<1>3. b + BlockSize(k) \in Int /\ Aligned(b + BlockSize(k), j)
  <2>1. PICK s \in Int, t \in Int : s = BlockSize(j) /\ t = BlockSize(k)
    BY <1>1
  <2>2. Multiple(b, s) /\ Multiple(t, s)
    BY <1>1, <1>2, <2>1 DEF Aligned
  <2>3. Multiple(b + t, s)
    BY <2>2, MultipleSum
  <2> QED BY <2>1, <2>3 DEF Aligned
<1>4. a < b => a + BlockSize(j) <= b
  BY <1>1, <1>2, MultipleGap DEF Aligned
<1>5. PICK e \in Int : e = b + BlockSize(k)
  BY <1>3
<1>6. a < e => a + BlockSize(j) <= e
  BY <1>1, <1>3, <1>5, MultipleGap DEF Aligned
<1> QED BY <1>1, <1>4, <1>5, <1>6

LEMMA BlockAtFacts ==
  ASSUME NEW x \in Int, NEW l \in Nat
  PROVE  /\ BlockAt(x, l) \in Int /\ Aligned(BlockAt(x, l), l)
         /\ Inside(x, BlockAt(x, l), BlockSize(l))
<1>1. PICK s \in Nat \ {0} : s = BlockSize(l)
  BY BlockSizes
<1>2. PICK q \in Int, r \in Int : q = x \div s /\ r = x % s /\ 0 <= r /\ r < s
  BY <1>1
<1>3. x = q * s + r
  BY <1>2, Division
<1>4. BlockAt(x, l) = x - r
  BY <1>1, <1>2 DEF BlockAt
<1>5. PICK m \in Int : m = q * s
  BY <1>1
<1>6. BlockAt(x, l) = q * s
  BY <1>2, <1>3, <1>4, <1>5
<1>7. Aligned(BlockAt(x, l), l)
  BY <1>1, <1>6 DEF Aligned, Multiple
<1> QED BY <1>1, <1>2, <1>4, <1>7 DEF Inside

LEMMA BlockAtUnique ==
  ASSUME NEW x \in Int, NEW l \in Nat, NEW a \in Int, Aligned(a, l), Inside(x, a, BlockSize(l))
  PROVE  a = BlockAt(x, l)
<1>1. /\ BlockAt(x, l) \in Int /\ Aligned(BlockAt(x, l), l)
      /\ Inside(x, BlockAt(x, l), BlockSize(l))
  BY BlockAtFacts
<1>2. BlockSize(l) \in Nat
  BY BlockSizes
<1>3. PICK b \in Int : b = BlockAt(x, l)
  BY <1>1
<1>4. l <= l
  OBVIOUS
<1>5. /\ b <= a \/ a + BlockSize(l) <= b \/ b + BlockSize(l) <= a
      /\ a <= b \/ b + BlockSize(l) <= a \/ a + BlockSize(l) <= b
  BY <1>1, <1>3, <1>4, Nest
<1> QED BY <1>1, <1>2, <1>3, <1>5 DEF Inside

(* A block and its neighbour are the halves of the block one level up. *)
Buddy(x, l) == Neighbor(BlockAt(x, l), l)

LEMMA Halves ==
  ASSUME NEW x \in Int, NEW l \in Nat
  PROVE  /\ BlockAt(x, l + 1) \in Int /\ BlockAt(x, l) \in Int /\ Buddy(x, l) \in Int
         /\ Aligned(BlockAt(x, l + 1), l + 1) /\ Aligned(BlockAt(x, l), l) /\ Aligned(Buddy(x, l), l)
         /\ \/ /\ BlockAt(x, l) = BlockAt(x, l + 1)
               /\ Buddy(x, l) = BlockAt(x, l + 1) + BlockSize(l)
            \/ /\ Buddy(x, l) = BlockAt(x, l + 1)
               /\ BlockAt(x, l) = BlockAt(x, l + 1) + BlockSize(l)
<1>0. PICK P, B, n : P = BlockAt(x, l + 1) /\ B = BlockAt(x, l) /\ n = Neighbor(B, l)
  OBVIOUS
<1>1. l + 1 \in Nat /\ l <= l + 1
  OBVIOUS
<1>2. PICK s \in Nat \ {0} : s = BlockSize(l) /\ BlockSize(l + 1) = 2 * s
  BY BlockSizes
<1>3. /\ P \in Int /\ Aligned(P, l + 1) /\ Inside(x, P, BlockSize(l + 1))
      /\ B \in Int /\ Aligned(B, l) /\ Inside(x, B, BlockSize(l))
  BY <1>0, <1>1, BlockAtFacts
<1>4. P <= B /\ B + s <= P + 2 * s
  <2>1. \/ P <= B /\ B + BlockSize(l) <= P + BlockSize(l + 1)
        \/ B + BlockSize(l) <= P
        \/ P + BlockSize(l + 1) <= B
    BY <1>1, <1>3, Nest
  <2> QED BY <1>2, <1>3, <2>1 DEF Inside
<1>5. Aligned(P, l)
  BY <1>1, <1>3, Coarser
<1>6. B = P \/ B = P + s
  <2>1. P < B => P + s <= B
    BY <1>2, <1>3, <1>5, MultipleGap DEF Aligned
  <2> QED BY <1>2, <1>3, <1>4, <2>1
<1>7. B % BlockSize(l + 1) = 0 <=> B = P
  <2>1. 2 * s \in Nat \ {0}
    BY <1>2
  <2>2. B % BlockSize(l + 1) = 0 <=> Aligned(B, l + 1)
    BY <1>2, <1>3, <2>1, MultipleMod DEF Aligned
  <2>3. Aligned(B, l + 1) => B = P
    <3> SUFFICES ASSUME Aligned(B, l + 1) PROVE B = P
      OBVIOUS
    <3>1. P < B => P + 2 * s <= B
      BY <1>2, <1>3, <2>1, MultipleGap DEF Aligned
    <3> QED BY <1>2, <1>3, <1>4, <3>1
  <2> QED BY <1>3, <2>2, <2>3
<1>8. Aligned(P + s, l)
  <2>1. Multiple(s, s)
    BY DEF Multiple
  <2> QED BY <1>2, <1>3, <1>5, <2>1, MultipleSum DEF Aligned
<1>9. \/ B = P /\ n = P + s
      \/ n = P /\ B = P + s
  <2>1. CASE B = P
    <3>1. n = P + s
      BY <1>0, <1>2, <1>7, <2>1 DEF Neighbor
    <3> QED BY <2>1, <3>1
  <2>2. CASE B = P + s
    <3>1. B # P
      BY <1>2, <1>3, <2>2
    <3>2. n = P
      BY <1>0, <1>2, <1>3, <1>7, <2>2, <3>1 DEF Neighbor
    <3> QED BY <2>2, <3>2
  <2> QED BY <1>6, <2>1, <2>2
<1>10. n \in Int /\ Aligned(n, l)
  BY <1>2, <1>3, <1>5, <1>8, <1>9
<1>11. n = Buddy(x, l)
  BY <1>0 DEF Buddy
<1> QED BY <1>0, <1>2, <1>3, <1>9, <1>10, <1>11

----------------------------------------------------------------------------
(* Pages. *)
PageStart(p) == p * PAGE_SIZE

LEMMA PageFacts ==
    /\ PAGE_SIZE \in Nat \ {0} /\ PAGE_SIZE = BlockSize(PAGE)
    /\ \A p \in Int : PageStart(p) \in Int /\ Aligned(PageStart(p), PAGE)
    /\ \A x \in Int : PageOf(x) \in Int /\ Inside(x, PageStart(PageOf(x)), PAGE_SIZE)
    /\ \A p, x \in Int : Inside(x, PageStart(p), PAGE_SIZE) => PageOf(x) = p
    /\ \A p, q \in Int : p <= q => PageStart(p) <= PageStart(q)
    /\ \A p \in Int : PageStart(p + 1) = PageStart(p) + PAGE_SIZE
    /\ \A x \in Nat : PageOf(x) \in Nat
    /\ \A p \in Nat : PageStart(p) \in Nat
<1>1. PICK s \in Nat \ {0} : s = PAGE_SIZE /\ s = BlockSize(PAGE)
  BY BlockSizes, LevelTypes DEF PAGE_SIZE
<1>2. ASSUME NEW p \in Int PROVE PageStart(p) \in Int /\ Aligned(PageStart(p), PAGE)
  BY <1>1 DEF PageStart, Aligned, Multiple
<1>3. ASSUME NEW x \in Int
      PROVE  /\ PageOf(x) \in Int /\ Inside(x, PageStart(PageOf(x)), PAGE_SIZE)
             /\ x \in Nat => PageOf(x) \in Nat
  <2>1. PICK q \in Int, r \in Int : q = x \div s /\ r = x % s /\ 0 <= r /\ r < s
    BY <1>1
  <2>2. x = q * s + r
    BY <2>1, Division
  <2>3. PICK m \in Int : m = q * s
    BY <1>1
  <2>4. q < 0 => m <= -s
    <3> SUFFICES ASSUME q < 0 PROVE m <= -s
      OBVIOUS
    <3>1. q <= -1 /\ -1 \in Int
      OBVIOUS
    <3>2. q * s <= (-1) * s
      BY <1>1, <3>1, Scaled
    <3> QED BY <1>1, <2>3, <3>2
  <2>5. PageOf(x) = q /\ PageStart(PageOf(x)) = m
    BY <1>1, <2>1, <2>3 DEF PageOf, PageStart
  <2>6. x = m + r
    BY <2>2, <2>3
  <2>7. Inside(x, PageStart(PageOf(x)), PAGE_SIZE)
    BY <1>1, <2>1, <2>5, <2>6 DEF Inside
  <2>8. x \in Nat => q \in Nat
    BY <2>1, <2>4, <2>6
  <2> QED BY <2>5, <2>7, <2>8
<1>4. ASSUME NEW p \in Int, NEW x \in Int, Inside(x, PageStart(p), PAGE_SIZE)
      PROVE  PageOf(x) = p
  <2>1. PICK m \in Int : m = p * s
    BY <1>1
  <2>2. PICK r \in Int : r = x - m
    BY <2>1
  <2>3. x = p * s + r /\ 0 <= r /\ r < s
    BY <1>1, <1>4, <2>1, <2>2 DEF Inside, PageStart
  <2>4. x \div s = p
    BY <1>1, <2>3, Remainder
  <2> QED BY <1>1, <2>4 DEF PageOf
<1>5. \A p, q \in Int : p <= q => PageStart(p) <= PageStart(q)
  BY <1>1, Scaled DEF PageStart
<1>6. \A p \in Int : PageStart(p + 1) = PageStart(p) + PAGE_SIZE
  BY <1>1 DEF PageStart
<1>7. \A p \in Nat : PageStart(p) \in Nat
  BY <1>1 DEF PageStart
<1>8. \A x \in Nat : PageOf(x) \in Nat
  BY <1>3
<1>9. \A x \in Int : PageOf(x) \in Int /\ Inside(x, PageStart(PageOf(x)), PAGE_SIZE)
  BY <1>3
<1> QED BY <1>1, <1>2, <1>4, <1>5, <1>6, <1>7, <1>8, <1>9, Zenon

LEMMA PageOfStart ==
  ASSUME NEW p \in Int
  PROVE  PageOf(PageStart(p)) = p
<1>1. PageStart(p) \in Int /\ PAGE_SIZE \in Nat \ {0}
  BY PageFacts
<1>2. Inside(PageStart(p), PageStart(p), PAGE_SIZE)
  BY <1>1 DEF Inside
<1> QED BY <1>1, <1>2, PageFacts

(* A block of at least a page starts a page, and has all of it. *)
LEMMA SamePage ==
  ASSUME NEW a \in Int, NEW l \in Nat, PAGE <= l, Aligned(a, l)
  PROVE  /\ PageStart(PageOf(a)) = a
         /\ \A x \in Int : PageOf(x) = PageOf(a) => Inside(x, a, BlockSize(l))
<1>1. PAGE \in Nat /\ PAGE_SIZE \in Nat \ {0} /\ PAGE_SIZE = BlockSize(PAGE)
  BY LevelTypes, PageFacts
<1>2. PICK b \in Int : b = PageStart(PageOf(a)) /\ Aligned(b, PAGE) /\ Inside(a, b, PAGE_SIZE)
  BY PageFacts
<1>3. Aligned(a, PAGE)
  BY <1>1, Coarser
<1>4. PAGE <= PAGE /\ Inside(a, a, BlockSize(PAGE))
  BY <1>1 DEF Inside
<1>5. a = b
  <2>1. b = BlockAt(a, PAGE)
    BY <1>1, <1>2, BlockAtUnique
  <2>2. a = BlockAt(a, PAGE)
    BY <1>1, <1>3, <1>4, BlockAtUnique
  <2> QED BY <2>1, <2>2
<1>6. BlockSize(l) \in Nat /\ PAGE_SIZE <= BlockSize(l)
  BY <1>1, BlockSizes
<1>7. ASSUME NEW x \in Int, PageOf(x) = PageOf(a) PROVE Inside(x, a, BlockSize(l))
  <2>1. Inside(x, b, PAGE_SIZE)
    BY <1>2, <1>7, PageFacts
  <2> QED BY <1>1, <1>5, <1>6, <2>1 DEF Inside
<1> QED BY <1>2, <1>5, <1>7

(* A block of at most a page stays in its page. *)
LEMMA SubPage ==
  ASSUME NEW a \in Int, NEW l \in Nat, l <= PAGE, Aligned(a, l),
         NEW x \in Int, Inside(x, a, BlockSize(l))
  PROVE  PageOf(x) = PageOf(a)
<1>1. PAGE \in Nat /\ PAGE_SIZE \in Nat \ {0} /\ PAGE_SIZE = BlockSize(PAGE)
  BY LevelTypes, PageFacts
<1>2. PICK b \in Int : b = PageStart(PageOf(a)) /\ Aligned(b, PAGE) /\ Inside(a, b, PAGE_SIZE)
  BY PageFacts
<1>3. \/ b <= a /\ a + BlockSize(l) <= b + BlockSize(PAGE)
      \/ a + BlockSize(l) <= b
      \/ b + BlockSize(PAGE) <= a
  BY <1>1, <1>2, Nest
<1>4. BlockSize(l) \in Nat \ {0}
  BY BlockSizes
<1>5. Inside(x, b, PAGE_SIZE)
  BY <1>1, <1>2, <1>3, <1>4 DEF Inside
<1>6. PageOf(a) \in Int
  BY PageFacts
<1> QED BY <1>2, <1>5, <1>6, PageFacts

----------------------------------------------------------------------------
(* What merging puts together, and what splitting takes apart. *)
LEMMA MergeChain ==
  ASSUME NEW a \in Int, NEW l \in Nat, Aligned(a, l), NEW m \in Nat, l <= m, NEW x \in Int
  PROVE  Inside(x, BlockAt(a, m), BlockSize(m)) <=>
           Inside(x, a, BlockSize(l)) \/ \E k \in l .. m - 1 : Inside(x, Buddy(a, k), BlockSize(k))
<1> DEFINE C(d) == Inside(x, BlockAt(a, d), BlockSize(d)) <=>
             Inside(x, a, BlockSize(l)) \/ \E k \in l .. d - 1 : Inside(x, Buddy(a, k), BlockSize(k))
           S == {d \in Nat : C(l + d)}
<1>1. 0 \in S
  <2>1. l + 0 = l /\ ~\E k \in l .. l - 1 : Inside(x, Buddy(a, k), BlockSize(k))
    OBVIOUS
  <2>2. Inside(a, a, BlockSize(l))
    BY BlockSizes DEF Inside
  <2>3. BlockAt(a, l) = a
    BY <2>2, BlockAtUnique
  <2> QED BY <2>1, <2>3
<1>2. ASSUME NEW d \in Nat, d \in S PROVE d + 1 \in S
  <2>1. PICK e \in Nat : e = l + d
    OBVIOUS
  <2>2. C(e) /\ e + 1 = l + (d + 1) /\ l <= e /\ d + 1 \in Nat
    BY <1>2, <2>1
  <2>3. PICK s \in Nat \ {0} : s = BlockSize(e) /\ BlockSize(e + 1) = 2 * s
    BY BlockSizes
  <2>4. PICK P \in Int, B \in Int, n \in Int :
          P = BlockAt(a, e + 1) /\ B = BlockAt(a, e) /\ n = Buddy(a, e)
    <3>1. BlockAt(a, e + 1) \in Int /\ BlockAt(a, e) \in Int /\ Buddy(a, e) \in Int
      BY Halves
    <3> QED BY <3>1
  <2>9. \/ B = P /\ n = P + s
        \/ n = P /\ B = P + s
    BY <2>3, <2>4, Halves
  <2>5. Inside(x, P, 2 * s) <=> Inside(x, B, s) \/ Inside(x, n, s)
    BY <2>3, <2>9 DEF Inside
  <2>6. \A k : k \in l .. (e + 1) - 1 <=> k \in l .. e - 1 \/ k = e
    BY <2>2
  <2>7. (\E k \in l .. (e + 1) - 1 : Inside(x, Buddy(a, k), BlockSize(k))) <=>
          (\E k \in l .. e - 1 : Inside(x, Buddy(a, k), BlockSize(k))) \/ Inside(x, n, s)
    BY <2>3, <2>4, <2>6
  <2>8. C(e + 1)
    BY <2>2, <2>3, <2>4, <2>5, <2>7
  <2> QED BY <2>2, <2>8
<1>3. \A d \in Nat : d \in S
  <2> HIDE DEF S
  <2> QED BY <1>1, <1>2, NumbersBelow
<1>4. m - l \in Nat /\ l + (m - l) = m
  OBVIOUS
<1>5. C(l + (m - l))
  BY <1>3, <1>4
<1> QED BY <1>4, <1>5

LEMMA SplitChain ==
  ASSUME NEW a \in Int, NEW l \in Nat, NEW m \in Nat, l <= m, NEW x \in Int
  PROVE  Inside(x, a, BlockSize(m)) <=>
           Inside(x, a, BlockSize(l)) \/ \E k \in l .. m - 1 : Inside(x, a + BlockSize(k), BlockSize(k))
<1> DEFINE C(d) == Inside(x, a, BlockSize(d)) <=>
             Inside(x, a, BlockSize(l)) \/ \E k \in l .. d - 1 : Inside(x, a + BlockSize(k), BlockSize(k))
           S == {d \in Nat : C(l + d)}
<1>1. 0 \in S
  <2>1. l + 0 = l /\ ~\E k \in l .. l - 1 : Inside(x, a + BlockSize(k), BlockSize(k))
    OBVIOUS
  <2> QED BY <2>1
<1>2. ASSUME NEW d \in Nat, d \in S PROVE d + 1 \in S
  <2>1. PICK e \in Nat : e = l + d
    OBVIOUS
  <2>2. C(e) /\ e + 1 = l + (d + 1) /\ l <= e /\ d + 1 \in Nat
    BY <1>2, <2>1
  <2>3. PICK s \in Nat \ {0} : s = BlockSize(e) /\ BlockSize(e + 1) = 2 * s
    BY BlockSizes
  <2>5. Inside(x, a, 2 * s) <=> Inside(x, a, s) \/ Inside(x, a + s, s)
    BY <2>3 DEF Inside
  <2>6. \A k : k \in l .. (e + 1) - 1 <=> k \in l .. e - 1 \/ k = e
    BY <2>2
  <2>7. (\E k \in l .. (e + 1) - 1 : Inside(x, a + BlockSize(k), BlockSize(k))) <=>
          (\E k \in l .. e - 1 : Inside(x, a + BlockSize(k), BlockSize(k))) \/ Inside(x, a + s, s)
    BY <2>3, <2>6
  <2>8. C(e + 1)
    BY <2>2, <2>3, <2>5, <2>7
  <2> QED BY <2>2, <2>8
<1>3. \A d \in Nat : d \in S
  <2> HIDE DEF S
  <2> QED BY <1>1, <1>2, NumbersBelow
<1>4. m - l \in Nat /\ l + (m - l) = m
  OBVIOUS
<1>5. C(l + (m - l))
  BY <1>3, <1>4
<1> QED BY <1>4, <1>5

----------------------------------------------------------------------------
(***************************************************************************)
(* The free blocks F and the held blocks H share out the bytes A, and the  *)
(* metadata md is true of them.                                            *)
(***************************************************************************)
FreeOK(F) ==
    \A b \in F : b = <<b[1], b[2]>> /\ b[1] \in Int /\ b[2] \in Levels /\ Aligned(b[1], b[2])
HeldOK(H) ==
    \A h \in H : /\ h.addr \in Int /\ h.size \in Sizes
                 /\ \E k \in Levels : h.span = BlockSize(k) /\ Aligned(h.addr, k)

InFree(F, x) == \E b \in F : Inside(x, b[1], BlockSize(b[2]))
InHeld(H, x) == \E h \in H : Inside(x, h.addr, h.span)

FreeApart(F) == \A b, c \in F : b # c => Apart(b[1], BlockSize(b[2]), c[1], BlockSize(c[2]))
HeldApart(H) == \A g, h \in H : g # h => Apart(g.addr, g.span, h.addr, h.span)
FreeHeldApart(F, H) == \A b \in F, h \in H : Apart(b[1], BlockSize(b[2]), h.addr, h.span)

SharedOut(F, H, A) ==
    /\ FreeOK(F) /\ HeldOK(H)
    /\ FreeApart(F) /\ HeldApart(H) /\ FreeHeldApart(F, H)
    /\ \A x \in A : x \in Int /\ PageOf(x) \in Pages
    /\ \A x \in Int : x \in A <=> InFree(F, x) \/ InHeld(H, x)

MetadataType(md) == md \in [Pages -> [level : Levels, free : BOOLEAN]]
FreeMarked(F, md) == \A b \in F : b[2] >= PAGE =>
    md[PageOf(b[1])].free /\ md[PageOf(b[1])].level = b[2]
SmallUnmarked(F, md) == \A b \in F : b[2] < PAGE => ~md[PageOf(b[1])].free
HeldUnmarked(H, md) == \A h \in H :
    /\ ~md[PageOf(h.addr)].free
    /\ \A k \in Levels : h.span = BlockSize(k) /\ k >= PAGE => md[PageOf(h.addr)].level = k
MarksAreOwned(md, A) == \A p \in Pages : md[p].free => PageStart(p) \in A

TrueMetadata(F, H, md, A) ==
    /\ MetadataType(md)
    /\ FreeMarked(F, md) /\ SmallUnmarked(F, md) /\ HeldUnmarked(H, md)
    /\ MarksAreOwned(md, A)

(* A block of level l at a that is about to be freed, and belongs to nobody. *)
Hole(F, H, md, A, a, l) ==
    /\ SharedOut(F, H, A) /\ TrueMetadata(F, H, md, A \cup Bytes(a, l))
    /\ a \in Int /\ l \in Levels /\ PAGE <= l /\ Aligned(a, l)
    /\ \A x \in Int : Inside(x, a, BlockSize(l)) => x \notin A /\ PageOf(x) \in Pages

LEMMA Overlap ==
  ASSUME NEW a \in Int, NEW s \in Nat \ {0}, NEW b \in Int, NEW t \in Nat \ {0}
  PROVE  /\ ~Apart(a, s, b, t) => \E x \in Int : Inside(x, a, s) /\ Inside(x, b, t)
         /\ Apart(a, s, b, t) => ~\E x \in Int : Inside(x, a, s) /\ Inside(x, b, t)
<1>1. Apart(a, s, b, t) => ~\E x \in Int : Inside(x, a, s) /\ Inside(x, b, t)
  BY DEF Apart, Inside
<1>2. ASSUME ~Apart(a, s, b, t) PROVE \E x \in Int : Inside(x, a, s) /\ Inside(x, b, t)
  <2>1. CASE a <= b
    <3>1. Inside(b, a, s) /\ Inside(b, b, t)
      BY <1>2, <2>1 DEF Apart, Inside
    <3> QED BY <3>1
  <2>2. CASE b <= a
    <3>1. Inside(a, a, s) /\ Inside(a, b, t)
      BY <1>2, <2>2 DEF Apart, Inside
    <3> QED BY <3>1
  <2> QED BY <2>1, <2>2
<1> QED BY <1>1, <1>2

LEMMA BytesInside ==
  ASSUME NEW a \in Int, NEW l \in Nat
  PROVE  \A x : x \in Bytes(a, l) <=> x \in Int /\ Inside(x, a, BlockSize(l))
<1>1. BlockSize(l) \in Nat
  BY BlockSizes
<1> QED BY <1>1 DEF Bytes, Inside

(* A block that has the neighbour of addr but not addr itself starts at the neighbour. *)
LEMMA Sibling ==
  ASSUME NEW a \in Int, NEW j \in Nat, Aligned(a, j), NEW addr \in Int, NEW k \in Nat,
         Inside(Buddy(addr, k), a, BlockSize(j)), ~Inside(addr, a, BlockSize(j))
  PROVE  a = Buddy(addr, k) /\ j <= k
<1>1. PICK s \in Nat \ {0} : s = BlockSize(k) /\ BlockSize(k + 1) = 2 * s
  BY BlockSizes
<1>2. PICK t \in Nat \ {0} : t = BlockSize(j)
  BY BlockSizes
<1>3. PICK P \in Int, n \in Int : P = BlockAt(addr, k + 1) /\ n = Buddy(addr, k)
  <2>1. BlockAt(addr, k + 1) \in Int /\ Buddy(addr, k) \in Int
    BY Halves
  <2> QED BY <2>1
<1>4. /\ Aligned(P, k + 1) /\ Aligned(n, k) /\ P <= n /\ n + s <= P + 2 * s
      /\ P <= addr /\ addr < P + 2 * s
  <2>1. k + 1 \in Nat
    OBVIOUS
  <2>2. Aligned(P, k + 1) /\ Aligned(n, k) /\ (n = P \/ n = P + s)
    BY <1>1, <1>3, Halves
  <2>3. Inside(addr, P, 2 * s)
    BY <1>1, <1>3, <2>1, BlockAtFacts
  <2> QED BY <1>1, <2>2, <2>3 DEF Inside
<1>5. a <= n /\ n < a + t /\ ~(a <= addr /\ addr < a + t)
  BY <1>2, <1>3 DEF Inside
<1>6. CASE j <= k
  <2>1. \/ n <= a /\ a + BlockSize(j) <= n + BlockSize(k)
        \/ a + BlockSize(j) <= n
        \/ n + BlockSize(k) <= a
    BY <1>4, <1>6, Nest
  <2>2. a = n
    BY <1>1, <1>2, <1>5, <2>1
  <2> QED BY <1>3, <1>6, <2>2
<1>7. CASE ~(j <= k)
  <2>1. k + 1 <= j /\ k + 1 \in Nat
    BY <1>7
  <2>2. \/ a <= P /\ P + BlockSize(k + 1) <= a + BlockSize(j)
        \/ P + BlockSize(k + 1) <= a
        \/ a + BlockSize(j) <= P
    BY <1>4, <2>1, Nest
  <2> QED BY <1>1, <1>2, <1>4, <1>5, <2>2
<1> QED BY <1>6, <1>7

----------------------------------------------------------------------------
(* free_at_level. *)
LEMMA RegionOfPage ==
  ASSUME NEW x, PageOf(x) \in Pages
  PROVE  FindRegion(x) \in Regions /\ RegionPages[FindRegion(x)] \subseteq Pages
<1>1. \E r \in Regions : PageOf(x) \in RegionPages[r]
  BY DEF Pages
<1>2. FindRegion(x) \in Regions
  BY <1>1 DEF FindRegion
<1> QED BY <1>2 DEF Pages

(* A neighbour whose metadata invites a merge is in the free list. *)
LEMMA MergeIsTrue ==
  ASSUME NEW H, NEW A, NEW addr, NEW l, Hole(free_list, H, metadata, A, addr, l),
         NEW k \in Nat, l <= k, CanMerge(addr, k)
  PROVE  <<Buddy(addr, k), k>> \in free_list
<1>1. /\ addr \in Int /\ l \in Nat /\ PAGE \in Nat /\ PAGE <= l /\ Aligned(addr, l)
      /\ FreeOK(free_list) /\ HeldOK(H) /\ Levels \subseteq Nat
  BY LevelTypes DEF Hole, SharedOut
<1>2. PICK n \in Int : n = Buddy(addr, k) /\ Aligned(n, k)
  <2>1. Buddy(addr, k) \in Int /\ Aligned(Buddy(addr, k), k)
    BY <1>1, Halves
  <2> QED BY <2>1
<1>3. BlockSize(l) \in Nat \ {0} /\ BlockSize(k) \in Nat \ {0} /\ PAGE <= k
  BY <1>1, BlockSizes
<1>4. Inside(addr, addr, BlockSize(l)) /\ Inside(n, n, BlockSize(k))
  BY <1>1, <1>2, <1>3 DEF Inside
<1>5. PageOf(addr) \in Pages /\ addr \notin A
  BY <1>1, <1>4 DEF Hole
<1>6. PageOf(n) \in Pages /\ metadata[PageOf(n)].free /\ metadata[PageOf(n)].level = k
  <2>1. HasMetadata(FindRegion(addr), n) /\ metadata[PageOf(n)].free /\ metadata[PageOf(n)].level = k
    BY <1>2 DEF CanMerge, Buddy
  <2> QED BY <1>5, <2>1, RegionOfPage DEF HasMetadata
<1>7. n \in A
  <2>1. PageStart(PageOf(n)) = n
    BY <1>2, <1>3, SamePage
  <2>2. n \in A \cup Bytes(addr, l)
    BY <1>6, <2>1 DEF Hole, TrueMetadata, MarksAreOwned
  <2>3. ~Inside(n, addr, BlockSize(l))
    <3> SUFFICES ASSUME Inside(n, addr, BlockSize(l)) PROVE FALSE
      OBVIOUS
    <3>1. PICK s \in Nat \ {0} : s = BlockSize(k)
      BY <1>3
    <3>2. PICK B \in Int : B = BlockAt(addr, k) /\ Aligned(B, k) /\ (B + s <= n \/ n + s <= B)
      <4>1. BlockAt(addr, k) \in Int /\ Aligned(BlockAt(addr, k), k) /\ BlockAt(addr, k + 1) \in Int
        BY <1>1, Halves
      <4>2. BlockAt(addr, k) + s <= n \/ n + s <= BlockAt(addr, k)
        <5>1. PICK P \in Int, C \in Int : P = BlockAt(addr, k + 1) /\ C = BlockAt(addr, k)
          BY <4>1
        <5>2. \/ C = P /\ n = P + s
              \/ n = P /\ C = P + s
          BY <1>1, <1>2, <3>1, <5>1, Halves
        <5>3. C + s <= n \/ n + s <= C
          BY <5>2
        <5> QED BY <5>1, <5>3
      <4> QED BY <4>1, <4>2
    <3>3. Inside(addr, B, s)
      BY <1>1, <3>1, <3>2, BlockAtFacts
    <3>4. \/ B <= addr /\ addr + BlockSize(l) <= B + BlockSize(k)
          \/ addr + BlockSize(l) <= B
          \/ B + BlockSize(k) <= addr
      BY <1>1, <3>2, Nest
    <3> QED BY <1>1, <1>3, <3>1, <3>2, <3>3, <3>4 DEF Inside
  <2> QED BY <1>1, <2>2, <2>3, BytesInside
<1>8. InFree(free_list, n) \/ InHeld(H, n)
  BY <1>7 DEF Hole, SharedOut
<1>9. CASE InHeld(H, n)
  <2>1. PICK h \in H : Inside(n, h.addr, h.span)
    BY <1>9 DEF InHeld
  <2>2. PICK j \in Nat : h.span = BlockSize(j) /\ Aligned(h.addr, j)
    BY <1>1 DEF HeldOK
  <2>3. h.addr \in Int
    BY <1>1 DEF HeldOK
  <2>4. ~Inside(addr, h.addr, h.span)
    BY <1>1, <1>5 DEF Hole, SharedOut, InHeld
  <2>5. h.addr = n
    BY <1>1, <1>2, <2>1, <2>2, <2>3, <2>4, Sibling
  <2> QED BY <1>6, <2>5 DEF Hole, TrueMetadata, HeldUnmarked
<1>10. CASE InFree(free_list, n)
  <2>1. PICK b \in free_list : Inside(n, b[1], BlockSize(b[2]))
    BY <1>10 DEF InFree
  <2>2. b = <<b[1], b[2]>> /\ b[1] \in Int /\ b[2] \in Nat /\ Aligned(b[1], b[2])
    BY <1>1 DEF FreeOK
  <2>3. ~Inside(addr, b[1], BlockSize(b[2]))
    BY <1>1, <1>5 DEF Hole, SharedOut, InFree
  <2>4. b[1] = n
    BY <1>1, <1>2, <2>1, <2>2, <2>3, Sibling
  <2>5. b[2] >= PAGE
    BY <1>1, <1>6, <2>2, <2>4 DEF Hole, TrueMetadata, SmallUnmarked
  <2>6. b[2] = k
    BY <1>6, <2>4, <2>5 DEF Hole, TrueMetadata, FreeMarked
  <2> QED BY <1>2, <2>2, <2>4, <2>6
<1> QED BY <1>8, <1>9, <1>10

LEMMA MergedLevelFacts ==
  ASSUME NEW addr, NEW l \in Levels
  PROVE  /\ MergedLevel(addr, l) \in Levels /\ l <= MergedLevel(addr, l)
         /\ \A k \in l .. MergedLevel(addr, l) - 1 : CanMerge(addr, k)
         /\ MergedLevel(addr, l) < LEVELS - 1 => ~CanMerge(addr, MergedLevel(addr, l))
<1> DEFINE T == {m \in l .. LEVELS - 1 : \A k \in l .. m - 1 : CanMerge(addr, k)}
<1>1. l \in Nat /\ l <= LEVELS - 1 /\ LEVELS - 1 \in Nat
  BY LevelTypes
<1>2. l \in T /\ T \in SUBSET Int /\ \A m \in T : m <= LEVELS - 1
  BY <1>1
<1>3. PICK m \in T : \A o \in T : o <= m
  <2>1. T # {} /\ LEVELS - 1 \in Int
    BY <1>1, <1>2
  <2> HIDE DEF T
  <2> QED BY <1>2, <2>1, LargestNumber
<1>4. MergedLevel(addr, l) \in T /\ \A o \in T : MergedLevel(addr, l) >= o
  <2>1. \A o \in T : m >= o
    BY <1>1, <1>3
  <2> QED BY <1>3, <2>1 DEF MergedLevel, Max
<1>5. PICK e \in Int : e = MergedLevel(addr, l)
  BY <1>2, <1>4
<1>6. ASSUME e < LEVELS - 1, CanMerge(addr, e) PROVE FALSE
  <2>1. e + 1 \in l .. LEVELS - 1
    BY <1>1, <1>2, <1>4, <1>5, <1>6
  <2>2. \A k \in l .. (e + 1) - 1 : CanMerge(addr, k)
    <3> SUFFICES ASSUME NEW k \in l .. (e + 1) - 1 PROVE CanMerge(addr, k)
      OBVIOUS
    <3>1. k \in l .. e - 1 \/ k = e
      BY <1>1
    <3> QED BY <1>4, <1>5, <1>6, <3>1
  <2>3. e + 1 \in T
    BY <2>1, <2>2
  <2> QED BY <1>4, <1>5, <2>3
<1> QED BY <1>1, <1>4, <1>5, <1>6, LevelTypes

(* The blocks that remain and the merged block share out the old bytes and the hole. *)
LEMMA FreeAtLevel ==
  ASSUME NEW H, NEW A, NEW addr, NEW l, Hole(free_list, H, metadata, A, addr, l),
         free_at_level(addr, l)
  PROVE  /\ SharedOut(free_list', H, A \cup Bytes(addr, l))
         /\ TrueMetadata(free_list', H, metadata', A \cup Bytes(addr, l))
<1>1. /\ addr \in Int /\ l \in Levels /\ l \in Nat /\ PAGE \in Nat /\ PAGE <= l /\ Aligned(addr, l)
      /\ FreeOK(free_list) /\ HeldOK(H) /\ Levels \subseteq Nat
  BY LevelTypes DEF Hole, SharedOut
<1>2. PICK m \in Levels : /\ m = MergedLevel(addr, l) /\ l <= m
                          /\ \A k \in l .. m - 1 : CanMerge(addr, k)
  BY <1>1, MergedLevelFacts
<1>3. m \in Nat /\ PAGE <= m /\ BlockSize(m) \in Nat \ {0} /\ BlockSize(l) \in Nat \ {0}
  <2>1. m \in Nat
    BY <1>1, <1>2
  <2> QED BY <1>1, <1>2, <2>1, BlockSizes
<1>4. PICK base \in Int : base = BlockAt(addr, m) /\ Aligned(base, m)
  BY <1>1, <1>3, BlockAtFacts
<1> DEFINE merged == {Buddy(addr, k) : k \in l .. m - 1}
           Kept == {b \in free_list : b[1] \notin merged}
           A2 == A \cup Bytes(addr, l)
<1>5. free_list' = Kept \cup {<<base, m>>}
  BY <1>2, <1>4 DEF free_at_level, Buddy
<1>6. metadata' = [metadata EXCEPT ![PageOf(base)] = [level |-> m, free |-> TRUE]]
  BY <1>2, <1>4 DEF free_at_level
<1>7. ASSUME NEW k \in l .. m - 1
      PROVE  k \in Nat /\ <<Buddy(addr, k), k>> \in free_list /\ Buddy(addr, k) \in Int
  <2>1. k \in Nat /\ l <= k /\ CanMerge(addr, k)
    BY <1>1, <1>2
  <2> QED BY <1>1, <2>1, MergeIsTrue, Halves
<1>8. ASSUME NEW x \in Int
      PROVE  Inside(x, base, BlockSize(m)) <=>
               \/ Inside(x, addr, BlockSize(l))
               \/ \E k \in l .. m - 1 : Inside(x, Buddy(addr, k), BlockSize(k))
  BY <1>1, <1>2, <1>3, <1>4, MergeChain
<1>9. ASSUME NEW x PROVE x \in A2 <=> x \in A \/ (x \in Int /\ Inside(x, addr, BlockSize(l)))
  BY <1>1, BytesInside
(* A block that is kept, free or held, has no byte of the merged block. *)
<1>10. ASSUME NEW b \in free_list, NEW x \in Int, Inside(x, b[1], BlockSize(b[2])),
              NEW k \in l .. m - 1, Inside(x, Buddy(addr, k), BlockSize(k))
       PROVE  b = <<Buddy(addr, k), k>>
  <2>1. b[1] \in Int /\ b[2] \in Nat
    BY <1>1 DEF FreeOK
  <2>2. BlockSize(b[2]) \in Nat \ {0} /\ BlockSize(k) \in Nat \ {0}
    BY <1>7, <2>1, BlockSizes
  <2>3. ~Apart(b[1], BlockSize(b[2]), Buddy(addr, k), BlockSize(k))
    BY <1>7, <1>10, <2>1, <2>2, Overlap
  <2>4. <<Buddy(addr, k), k>>[1] = Buddy(addr, k) /\ <<Buddy(addr, k), k>>[2] = k
    OBVIOUS
  <2>5. PICK c \in free_list : c = <<Buddy(addr, k), k>>
    BY <1>7
  <2> QED BY <2>3, <2>4, <2>5 DEF Hole, SharedOut, FreeApart
<1>11. ASSUME NEW b \in Kept
       PROVE  ~\E x \in Int : Inside(x, b[1], BlockSize(b[2])) /\ Inside(x, base, BlockSize(m))
  <2> SUFFICES ASSUME NEW x \in Int, Inside(x, b[1], BlockSize(b[2])), Inside(x, base, BlockSize(m))
               PROVE  FALSE
    OBVIOUS
  <2>1. x \in A
    BY DEF Hole, SharedOut, InFree
  <2>2. ~Inside(x, addr, BlockSize(l))
    BY <2>1 DEF Hole
  <2>3. PICK k \in l .. m - 1 : Inside(x, Buddy(addr, k), BlockSize(k))
    BY <1>8, <2>2
  <2>4. b = <<Buddy(addr, k), k>>
    BY <1>10, <2>3
  <2> QED BY <2>4
<1>12. ASSUME NEW h \in H
       PROVE  ~\E x \in Int : Inside(x, h.addr, h.span) /\ Inside(x, base, BlockSize(m))
  <2> SUFFICES ASSUME NEW x \in Int, Inside(x, h.addr, h.span), Inside(x, base, BlockSize(m))
               PROVE  FALSE
    OBVIOUS
  <2>1. x \in A
    BY DEF Hole, SharedOut, InHeld
  <2>2. ~Inside(x, addr, BlockSize(l))
    BY <2>1 DEF Hole
  <2>3. PICK k \in l .. m - 1 : Inside(x, Buddy(addr, k), BlockSize(k))
    BY <1>8, <2>2
  <2>4. PICK c \in free_list : c = <<Buddy(addr, k), k>> /\ c[1] = Buddy(addr, k) /\ c[2] = k
    BY <1>7
  <2>5. Apart(c[1], BlockSize(c[2]), h.addr, h.span)
    BY DEF Hole, SharedOut, FreeHeldApart
  <2>6. c[1] \in Int /\ h.addr \in Int /\ BlockSize(c[2]) \in Nat \ {0}
    BY <1>1, <1>7, <2>4, BlockSizes DEF HeldOK
  <2>7. h.span \in Nat \ {0}
    BY <1>1, BlockSizes DEF HeldOK
  <2> QED BY <2>3, <2>4, <2>5, <2>6, <2>7, Overlap
<1>13. PICK new : new = <<base, m>> /\ new[1] = base /\ new[2] = m
  <2>1. <<base, m>>[1] = base /\ <<base, m>>[2] = m
    OBVIOUS
  <2> QED BY <2>1
<1>14. FreeOK(free_list')
  BY <1>1, <1>4, <1>5, <1>13 DEF FreeOK
<1>15. \A b \in free_list' : b[1] \in Int /\ BlockSize(b[2]) \in Nat \ {0}
  BY <1>1, <1>14, BlockSizes DEF FreeOK
<1>16. \A h \in H : h.addr \in Int /\ h.span \in Nat \ {0}
  BY <1>1, BlockSizes DEF HeldOK
<1>17. FreeApart(free_list')
  <2>1. ASSUME NEW b \in Kept
        PROVE  /\ Apart(b[1], BlockSize(b[2]), base, BlockSize(m))
               /\ Apart(base, BlockSize(m), b[1], BlockSize(b[2]))
    <3>1. b[1] \in Int /\ BlockSize(b[2]) \in Nat \ {0}
      BY <1>5, <1>15
    <3>2. Apart(b[1], BlockSize(b[2]), base, BlockSize(m))
      BY <1>3, <1>4, <1>11, <3>1, Overlap
    <3> QED BY <3>2 DEF Apart
  <2>2. FreeApart(free_list)
    BY DEF Hole, SharedOut
  <2> SUFFICES ASSUME NEW b \in free_list', NEW c \in free_list', b # c
               PROVE  Apart(b[1], BlockSize(b[2]), c[1], BlockSize(c[2]))
    BY DEF FreeApart
  <2>3. CASE b \in Kept /\ c \in Kept
    BY <2>2, <2>3 DEF FreeApart
  <2>4. CASE b \in Kept /\ c = new
    BY <1>13, <2>1, <2>4
  <2>5. CASE b = new /\ c \in Kept
    BY <1>13, <2>1, <2>5
  <2> QED BY <1>5, <1>13, <2>3, <2>4, <2>5
<1>18. FreeHeldApart(free_list', H)
  <2>1. FreeHeldApart(free_list, H)
    BY DEF Hole, SharedOut
  <2> SUFFICES ASSUME NEW b \in free_list', NEW h \in H
               PROVE  Apart(b[1], BlockSize(b[2]), h.addr, h.span)
    BY DEF FreeHeldApart
  <2>2. CASE b \in Kept
    BY <2>1, <2>2 DEF FreeHeldApart
  <2>3. CASE b = new
    <3>1. ~\E x \in Int : Inside(x, base, BlockSize(m)) /\ Inside(x, h.addr, h.span)
      BY <1>12
    <3> QED BY <1>3, <1>4, <1>13, <1>16, <2>3, <3>1, Overlap
  <2> QED BY <1>5, <1>13, <2>2, <2>3
<1>19. ASSUME NEW x \in A2 PROVE x \in Int /\ PageOf(x) \in Pages
  BY <1>9 DEF Hole, SharedOut
<1>20. ASSUME NEW x \in Int PROVE x \in A2 <=> InFree(free_list', x) \/ InHeld(H, x)
  <2>1. x \in A <=> InFree(free_list, x) \/ InHeld(H, x)
    BY DEF Hole, SharedOut
  <2>2. InFree(free_list', x) <=> InFree(Kept, x) \/ Inside(x, base, BlockSize(m))
    BY <1>5, <1>13 DEF InFree
  <2>3. InFree(free_list, x) => InFree(Kept, x) \/ Inside(x, base, BlockSize(m))
    <3> SUFFICES ASSUME NEW b \in free_list, Inside(x, b[1], BlockSize(b[2])), b[1] \in merged
                 PROVE  Inside(x, base, BlockSize(m))
      BY DEF InFree
    <3>1. PICK k \in l .. m - 1 : b[1] = Buddy(addr, k)
      OBVIOUS
    <3>2. Inside(b[1], b[1], BlockSize(b[2])) /\ b[1] \in Int /\ Inside(b[1], b[1], BlockSize(k))
      <4>1. b[1] \in Int /\ BlockSize(b[2]) \in Nat \ {0} /\ BlockSize(k) \in Nat \ {0}
        BY <1>1, <1>7, BlockSizes DEF FreeOK
      <4> QED BY <4>1 DEF Inside
    <3>3. b = <<Buddy(addr, k), k>>
      BY <1>10, <3>1, <3>2
    <3>4. Inside(x, Buddy(addr, k), BlockSize(k))
      BY <3>3
    <3> QED BY <1>8, <3>4
  <2>4. InFree(Kept, x) => InFree(free_list, x)
    BY DEF InFree
  <2>5. Inside(x, base, BlockSize(m)) => Inside(x, addr, BlockSize(l)) \/ InFree(free_list, x)
    <3> SUFFICES ASSUME NEW k \in l .. m - 1, Inside(x, Buddy(addr, k), BlockSize(k))
                 PROVE  InFree(free_list, x)
      BY <1>8
    <3>1. PICK c \in free_list : c = <<Buddy(addr, k), k>> /\ c[1] = Buddy(addr, k) /\ c[2] = k
      BY <1>7
    <3> QED BY <3>1 DEF InFree
  <2>6. Inside(x, addr, BlockSize(l)) => Inside(x, base, BlockSize(m))
    BY <1>8
  <2>7. x \in A2 <=> x \in A \/ Inside(x, addr, BlockSize(l))
    BY <1>9
  <2> HIDE DEF A2, Kept
  <2> QED BY <2>1, <2>2, <2>3, <2>4, <2>5, <2>6, <2>7
<1>21. SharedOut(free_list', H, A2)
  <2> HIDE DEF A2
  <2> QED BY <1>1, <1>14, <1>17, <1>18, <1>19, <1>20 DEF Hole, SharedOut
<1>22. PageOf(base) \in Pages /\ base \in A2 /\ PageOf(base) \in Int
  <2>1. Inside(base, base, BlockSize(m))
    BY <1>3, <1>4 DEF Inside
  <2>2. InFree(free_list', base)
    BY <1>5, <1>13, <2>1 DEF InFree
  <2>3. base \in A2
    BY <1>4, <1>20, <2>2
  <2> QED BY <1>4, <1>19, <2>3, PageFacts
<1>23. /\ metadata'[PageOf(base)].free /\ metadata'[PageOf(base)].level = m
       /\ \A p \in Pages : p # PageOf(base) => metadata'[p] = metadata[p]
       /\ MetadataType(metadata')
  <2>1. MetadataType(metadata)
    BY DEF Hole, TrueMetadata
  <2> QED BY <1>2, <1>6, <1>22, <2>1 DEF MetadataType
<1>24. /\ \A x \in Int : PageOf(x) = PageOf(base) => Inside(x, base, BlockSize(m))
       /\ PageStart(PageOf(base)) = base
  BY <1>3, <1>4, SamePage
<1>25. ASSUME NEW b \in Kept
       PROVE  PageOf(b[1]) \in Pages /\ metadata'[PageOf(b[1])] = metadata[PageOf(b[1])]
  <2>1. b[1] \in Int /\ BlockSize(b[2]) \in Nat \ {0}
    BY <1>5, <1>15
  <2>2. Inside(b[1], b[1], BlockSize(b[2]))
    BY <2>1 DEF Inside
  <2>3. PageOf(b[1]) # PageOf(base)
    BY <1>11, <1>24, <2>1, <2>2
  <2>4. b[1] \in A
    BY <2>1, <2>2 DEF Hole, SharedOut, InFree
  <2> QED BY <1>19, <1>23, <2>3, <2>4
<1>26. ASSUME NEW h \in H
       PROVE  PageOf(h.addr) \in Pages /\ metadata'[PageOf(h.addr)] = metadata[PageOf(h.addr)]
  <2>1. h.addr \in Int /\ h.span \in Nat \ {0}
    BY <1>16
  <2>2. Inside(h.addr, h.addr, h.span)
    BY <2>1 DEF Inside
  <2>3. PageOf(h.addr) # PageOf(base)
    BY <1>12, <1>24, <2>1, <2>2
  <2>4. h.addr \in A
    BY <2>1, <2>2 DEF Hole, SharedOut, InHeld
  <2> QED BY <1>19, <1>23, <2>3, <2>4
<1>27. FreeMarked(free_list', metadata')
  <2>1. FreeMarked(free_list, metadata)
    BY DEF Hole, TrueMetadata
  <2> QED BY <1>5, <1>13, <1>23, <1>25, <2>1 DEF FreeMarked
<1>28. SmallUnmarked(free_list', metadata')
  <2>1. SmallUnmarked(free_list, metadata)
    BY DEF Hole, TrueMetadata
  <2> QED BY <1>1, <1>3, <1>5, <1>13, <1>25, <2>1 DEF SmallUnmarked
<1>29. HeldUnmarked(H, metadata')
  <2>1. HeldUnmarked(H, metadata)
    BY DEF Hole, TrueMetadata
  <2> QED BY <1>26, <2>1 DEF HeldUnmarked
<1>30. MarksAreOwned(metadata', A2)
  <2>1. MarksAreOwned(metadata, A2)
    BY DEF Hole, TrueMetadata
  <2> QED BY <1>22, <1>23, <1>24, <2>1 DEF MarksAreOwned
<1> QED BY <1>21, <1>23, <1>27, <1>28, <1>29, <1>30 DEF TrueMetadata

----------------------------------------------------------------------------
(* allocate_from_level: the block and the upper halves share out what was one block. *)
LEMMA AllocateFromLevel ==
  ASSUME NEW H, NEW A, SharedOut(free_list, H, A), TrueMetadata(free_list, H, metadata, A),
         NEW b \in free_list, NEW l \in Levels, l <= b[2], allocate_from_level(b, l),
         NEW size \in Sizes,
         NEW h, h = [addr |-> b[1], span |-> BlockSize(l), size |-> size]
  PROVE  /\ SharedOut(free_list', H \cup {h}, A)
         /\ TrueMetadata(free_list', H \cup {h}, metadata', A)
         /\ \A g \in H : Apart(g.addr, g.span, h.addr, h.span)
<1>1. PICK a \in Int, j \in Levels : a = b[1] /\ j = b[2] /\ Aligned(a, j) /\ l <= j
  BY DEF SharedOut, FreeOK
<1>2. /\ l \in Nat /\ j \in Nat /\ PAGE \in Nat /\ Levels \subseteq Nat
      /\ FreeOK(free_list) /\ HeldOK(H)
      /\ FreeApart(free_list) /\ FreeHeldApart(free_list, H) /\ HeldApart(H)
  BY LevelTypes DEF SharedOut
<1>3. h.addr = a /\ h.span = BlockSize(l) /\ h.size = size
  BY <1>1
<1> DEFINE Upper == {<<a + BlockSize(k), k>> : k \in l .. j - 1}
           Kept == free_list \ {b}
<1>4. free_list' = Kept \cup Upper
  BY <1>1 DEF allocate_from_level
<1>5. /\ BlockSize(j) \in Nat \ {0} /\ BlockSize(l) \in Nat \ {0} /\ BlockSize(l) <= BlockSize(j)
      /\ Aligned(a, l)
  BY <1>1, <1>2, BlockSizes, Coarser, ZenonT(60)
<1>6. ASSUME NEW k \in l .. j - 1
      PROVE  /\ k \in Nat /\ k \in Levels /\ BlockSize(k) \in Nat \ {0}
             /\ BlockSize(l) <= BlockSize(k) /\ 2 * BlockSize(k) <= BlockSize(j)
             /\ a + BlockSize(k) \in Int /\ Aligned(a + BlockSize(k), k)
             /\ Aligned(a, k + 1) /\ BlockSize(k + 1) = 2 * BlockSize(k)
  <2>1. k \in Nat /\ k \in Levels /\ l <= k /\ k < j /\ k + 1 <= j /\ k + 1 \in Nat
    BY <1>2, LevelTypes
  <2>2. PICK s \in Nat \ {0} : s = BlockSize(k)
    BY <2>1, BlockSizes
  <2>3. BlockSize(l) <= BlockSize(k) /\ 2 * BlockSize(k) <= BlockSize(j) /\ BlockSize(k + 1) = 2 * BlockSize(k)
    BY <1>2, <2>1, BlockSizes
  <2>4. Aligned(a, k) /\ Aligned(a, k + 1)
    <3>1. k <= j
      BY <1>2, <2>1
    <3> QED BY <1>1, <1>2, <2>1, <3>1, Coarser
  <2>5. Multiple(a + s, s)
    <3>1. Multiple(s, s)
      BY DEF Multiple
    <3> QED BY <2>2, <2>4, <3>1, MultipleSum DEF Aligned
  <2> QED BY <2>1, <2>2, <2>3, <2>4, <2>5 DEF Aligned
<1>7. ASSUME NEW u \in Upper
      PROVE  \E k \in l .. j - 1 : u = <<a + BlockSize(k), k>> /\ u[1] = a + BlockSize(k) /\ u[2] = k
  <2>1. PICK k \in l .. j - 1 : u = <<a + BlockSize(k), k>>
    OBVIOUS
  <2>2. u[1] = a + BlockSize(k) /\ u[2] = k
    BY <2>1
  <2> QED BY <2>1, <2>2
<1>8. ASSUME NEW k \in l .. j - 1
      PROVE  \E u \in Upper : u[1] = a + BlockSize(k) /\ u[2] = k
  <2>1. PICK u : u = <<a + BlockSize(k), k>>
    OBVIOUS
  <2>2. u[1] = a + BlockSize(k) /\ u[2] = k /\ u \in Upper
    BY <2>1
  <2> QED BY <2>2
<1> HIDE DEF Upper
(* The blocks that stay are apart from the one that is split, and so from its parts. *)
<1>9. ASSUME NEW c \in Kept
      PROVE  c \in free_list /\ c[1] \in Int /\ BlockSize(c[2]) \in Nat \ {0}
             /\ c[2] \in Nat /\ Apart(c[1], BlockSize(c[2]), a, BlockSize(j))
  BY <1>1, <1>2, BlockSizes DEF FreeOK, FreeApart
<1>10. ASSUME NEW g \in H
       PROVE  g.addr \in Int /\ g.span \in Nat \ {0} /\ Apart(g.addr, g.span, a, BlockSize(j))
  <2>1. Apart(a, BlockSize(j), g.addr, g.span)
    BY <1>1, <1>2 DEF FreeHeldApart
  <2> QED BY <1>2, <2>1, BlockSizes DEF HeldOK, Apart
<1>11. ASSUME NEW x \in Int, NEW s \in Nat, Apart(x, s, a, BlockSize(j))
       PROVE  /\ Apart(x, s, a, BlockSize(l)) /\ Apart(a, BlockSize(l), x, s)
              /\ \A k \in l .. j - 1 : /\ Apart(x, s, a + BlockSize(k), BlockSize(k))
                                       /\ Apart(a + BlockSize(k), BlockSize(k), x, s)
  <2>1. Apart(x, s, a, BlockSize(l)) /\ Apart(a, BlockSize(l), x, s)
    BY <1>5, <1>11 DEF Apart
  <2>2. ASSUME NEW k \in l .. j - 1
        PROVE  /\ Apart(x, s, a + BlockSize(k), BlockSize(k))
               /\ Apart(a + BlockSize(k), BlockSize(k), x, s)
    <3>1. PICK t \in Nat, w \in Nat : t = BlockSize(k) /\ w = BlockSize(j) /\ 2 * t <= w
      BY <1>5, <1>6
    <3> QED BY <1>11, <3>1 DEF Apart
  <2> QED BY <2>1, <2>2
<1>12. ASSUME NEW k \in l .. j - 1, NEW i \in l .. j - 1, i # k
       PROVE  Apart(a + BlockSize(k), BlockSize(k), a + BlockSize(i), BlockSize(i))
  <2>1. PICK s \in Nat, t \in Nat : s = BlockSize(k) /\ t = BlockSize(i)
    BY <1>6
  <2>2. 2 * s <= t \/ 2 * t <= s
    <3>1. k \in Nat /\ i \in Nat /\ (k < i \/ i < k)
      BY <1>2, <1>12
    <3> QED BY <2>1, <3>1, BlockSizes
  <2> QED BY <2>1, <2>2 DEF Apart
<1>13. ASSUME NEW k \in l .. j - 1
       PROVE  Apart(a + BlockSize(k), BlockSize(k), a, BlockSize(l))
  <2>1. PICK s \in Nat, t \in Nat : s = BlockSize(k) /\ t = BlockSize(l) /\ t <= s
    BY <1>5, <1>6
  <2> QED BY <2>1 DEF Apart
<1>14. FreeOK(free_list')
  <2> SUFFICES ASSUME NEW c \in free_list'
               PROVE  c = <<c[1], c[2]>> /\ c[1] \in Int /\ c[2] \in Levels /\ Aligned(c[1], c[2])
    BY DEF FreeOK
  <2>1. CASE c \in Kept
    BY <1>2, <2>1 DEF FreeOK
  <2>2. CASE c \in Upper
    <3>1. PICK k \in l .. j - 1 : c = <<a + BlockSize(k), k>> /\ c[1] = a + BlockSize(k) /\ c[2] = k
      BY <1>7, <2>2
    <3> QED BY <1>6, <3>1
  <2> QED BY <1>4, <2>1, <2>2
<1>15. HeldOK(H \cup {h})
  BY <1>1, <1>2, <1>3, <1>5 DEF HeldOK
<1>16. FreeApart(free_list')
  <2> SUFFICES ASSUME NEW c \in free_list', NEW d \in free_list', c # d
               PROVE  Apart(c[1], BlockSize(c[2]), d[1], BlockSize(d[2]))
    BY DEF FreeApart
  <2>1. CASE c \in Kept /\ d \in Kept
    BY <1>2, <2>1 DEF FreeApart
  <2>2. CASE c \in Kept /\ d \in Upper
    <3>1. PICK k \in l .. j - 1 : d[1] = a + BlockSize(k) /\ d[2] = k
      BY <1>7, <2>2
    <3> QED BY <1>9, <1>11, <2>2, <3>1
  <2>3. CASE c \in Upper /\ d \in Kept
    <3>1. PICK k \in l .. j - 1 : c[1] = a + BlockSize(k) /\ c[2] = k
      BY <1>7, <2>3
    <3> QED BY <1>9, <1>11, <2>3, <3>1
  <2>4. CASE c \in Upper /\ d \in Upper
    <3>1. PICK k \in l .. j - 1 : c = <<a + BlockSize(k), k>> /\ c[1] = a + BlockSize(k) /\ c[2] = k
      BY <1>7, <2>4
    <3>2. PICK i \in l .. j - 1 : d = <<a + BlockSize(i), i>> /\ d[1] = a + BlockSize(i) /\ d[2] = i
      BY <1>7, <2>4
    <3>3. i # k
      BY <3>1, <3>2
    <3> QED BY <1>12, <3>1, <3>2, <3>3
  <2> QED BY <1>4, <2>1, <2>2, <2>3, <2>4
<1>17. \A g \in H : Apart(g.addr, g.span, h.addr, h.span) /\ Apart(h.addr, h.span, g.addr, g.span)
  BY <1>3, <1>10, <1>11
<1>18. HeldApart(H \cup {h})
  BY <1>2, <1>17 DEF HeldApart
<1>19. FreeHeldApart(free_list', H \cup {h})
  <2> SUFFICES ASSUME NEW c \in free_list', NEW g \in H \cup {h}
               PROVE  Apart(c[1], BlockSize(c[2]), g.addr, g.span)
    BY DEF FreeHeldApart
  <2>1. CASE c \in Kept /\ g \in H
    BY <1>2, <2>1 DEF FreeHeldApart
  <2>2. CASE c \in Kept /\ g = h
    BY <1>3, <1>9, <1>11, <2>2
  <2>3. CASE c \in Upper /\ g \in H
    <3>1. PICK k \in l .. j - 1 : c[1] = a + BlockSize(k) /\ c[2] = k
      BY <1>7, <2>3
    <3> QED BY <1>10, <1>11, <2>3, <3>1
  <2>4. CASE c \in Upper /\ g = h
    <3>1. PICK k \in l .. j - 1 : c[1] = a + BlockSize(k) /\ c[2] = k
      BY <1>7, <2>4
    <3> QED BY <1>3, <1>13, <2>4, <3>1
  <2> QED BY <1>4, <2>1, <2>2, <2>3, <2>4
<1>20. ASSUME NEW x \in Int PROVE x \in A <=> InFree(free_list', x) \/ InHeld(H \cup {h}, x)
  <2>1. x \in A <=> InFree(free_list, x) \/ InHeld(H, x)
    BY DEF SharedOut
  <2>2. InFree(free_list, x) <=> InFree(Kept, x) \/ Inside(x, a, BlockSize(j))
    BY <1>1 DEF InFree
  <2>3. Inside(x, a, BlockSize(j)) <=>
          Inside(x, a, BlockSize(l)) \/ \E k \in l .. j - 1 : Inside(x, a + BlockSize(k), BlockSize(k))
    <3>1. l \in Nat /\ j \in Nat /\ l <= j
      BY <1>1, <1>2
    <3>2. ASSUME NEW y \in Int, NEW i \in Nat, NEW o \in Nat, i <= o
          PROVE  Inside(y, a, BlockSize(o)) <=>
                   Inside(y, a, BlockSize(i)) \/ \E k \in i .. o - 1 : Inside(y, a + BlockSize(k), BlockSize(k))
      BY <3>2, SplitChain
    <3> QED BY <3>1, <3>2
  <2>4. InFree(Upper, x) <=> \E k \in l .. j - 1 : Inside(x, a + BlockSize(k), BlockSize(k))
    <3>1. InFree(Upper, x) => \E k \in l .. j - 1 : Inside(x, a + BlockSize(k), BlockSize(k))
      BY <1>7 DEF InFree
    <3>2. (\E k \in l .. j - 1 : Inside(x, a + BlockSize(k), BlockSize(k))) => InFree(Upper, x)
      BY <1>8 DEF InFree
    <3> QED BY <3>1, <3>2
  <2>5. InFree(free_list', x) <=> InFree(Kept, x) \/ InFree(Upper, x)
    BY <1>4 DEF InFree
  <2>6. InHeld(H \cup {h}, x) <=> InHeld(H, x) \/ Inside(x, a, BlockSize(l))
    BY <1>3 DEF InHeld
  <2> HIDE DEF Kept
  <2> QED BY <2>1, <2>2, <2>3, <2>4, <2>5, <2>6
<1>21. SharedOut(free_list', H \cup {h}, A)
  BY <1>14, <1>15, <1>16, <1>18, <1>19, <1>20 DEF SharedOut
(* The metadata: the block's own page, the pages the upper halves start at, the others. *)
<1>22. ASSUME NEW k \in l .. j - 1, k < PAGE PROVE PageOf(a + BlockSize(k)) = PageOf(a)
  <2>1. k + 1 \in Nat /\ k + 1 <= PAGE
    BY <1>2, <1>6, <1>22
  <2>2. Inside(a + BlockSize(k), a, BlockSize(k + 1))
    <3>1. PICK s \in Nat \ {0} : s = BlockSize(k) /\ BlockSize(k + 1) = 2 * s
      BY <1>6
    <3> QED BY <3>1 DEF Inside
  <2> QED BY <1>6, <2>1, <2>2, SubPage
<1>23. ASSUME NEW k \in l .. j - 1, k >= PAGE
       PROVE  /\ PageOf(a + BlockSize(k)) # PageOf(a)
              /\ PageStart(PageOf(a + BlockSize(k))) = a + BlockSize(k)
  <2>1. PICK e \in Int, s \in Nat \ {0} : e = a + BlockSize(k) /\ s = BlockSize(k) /\ Aligned(e, k)
    BY <1>6
  <2>2. PageStart(PageOf(e)) = e /\ \A x \in Int : PageOf(x) = PageOf(e) => Inside(x, e, BlockSize(k))
    BY <1>2, <1>6, <1>23, <2>1, SamePage
  <2>3. ~Inside(a, e, BlockSize(k))
    BY <2>1 DEF Inside
  <2> QED BY <2>1, <2>2, <2>3
<1>24. ASSUME NEW k \in l .. j - 1, k >= PAGE, NEW i \in l .. j - 1,
              PageOf(a + BlockSize(i)) = PageOf(a + BlockSize(k))
       PROVE  i = k
  <2>1. i >= PAGE
    BY <1>2, <1>6, <1>22, <1>23, <1>24
  <2>2. PICK s \in Nat, t \in Nat : s = BlockSize(k) /\ t = BlockSize(i)
    BY <1>6
  <2>3. a + t = a + s
    BY <1>23, <1>24, <2>1, <2>2
  <2>4. s = t
    BY <2>2, <2>3
  <2> QED BY <1>6, <2>2, <2>4, BlockSizes
<1> DEFINE Split(p) == \E k \in l .. j - 1 : k >= PAGE /\ PageOf(a + BlockSize(k)) = p
<1>25. MetadataType(metadata)
  BY DEF TrueMetadata
<1>26. /\ metadata'[PageOf(a)] = [level |-> l, free |-> FALSE]
       /\ \A k \in l .. j - 1 : k >= PAGE =>
            metadata'[PageOf(a + BlockSize(k))] = [level |-> k, free |-> TRUE]
       /\ \A p \in Pages : p # PageOf(a) /\ ~Split(p) => metadata'[p] = metadata[p]
       /\ MetadataType(metadata')
       /\ PageOf(a) \in Pages
  <2>1. metadata' = [p \in Pages |->
          IF p = PageOf(a) THEN [level |-> l, free |-> FALSE]
          ELSE IF \E u \in Upper : PageOf(u[1]) = p
               THEN [level |-> (CHOOSE u \in Upper : PageOf(u[1]) = p)[2], free |-> TRUE]
               ELSE metadata[p]]
    BY <1>1 DEF allocate_from_level, Upper
  <2>2. ASSUME NEW x \in Int, Inside(x, a, BlockSize(j)) PROVE PageOf(x) \in Pages
    <3>1. InFree(free_list, x)
      BY <1>1, <2>2 DEF InFree
    <3> QED BY <3>1 DEF SharedOut
  <2>3. PageOf(a) \in Pages
    <3>1. Inside(a, a, BlockSize(j))
      BY <1>5 DEF Inside
    <3> QED BY <2>2, <3>1
  <2>4. ASSUME NEW k \in l .. j - 1 PROVE PageOf(a + BlockSize(k)) \in Pages
    <3>1. Inside(a + BlockSize(k), a, BlockSize(j))
      <4>1. PICK s \in Nat \ {0}, t \in Nat : s = BlockSize(k) /\ t = BlockSize(j) /\ 2 * s <= t
        BY <1>5, <1>6
      <4> QED BY <4>1 DEF Inside
    <3> QED BY <1>6, <2>2, <3>1
  <2>5. ASSUME NEW k \in l .. j - 1, k >= PAGE
        PROVE  metadata'[PageOf(a + BlockSize(k))] = [level |-> k, free |-> TRUE]
    <3>1. PICK p : p = PageOf(a + BlockSize(k)) /\ p \in Pages /\ p # PageOf(a)
      BY <1>23, <2>4, <2>5
    <3>2. PICK u \in Upper : u[1] = a + BlockSize(k) /\ u[2] = k
      BY <1>8
    <3>3. \E v \in Upper : PageOf(v[1]) = p
      BY <3>1, <3>2
    <3>4. PICK v : v = CHOOSE w \in Upper : PageOf(w[1]) = p
      OBVIOUS
    <3>5. v \in Upper /\ PageOf(v[1]) = p
      BY <3>3, <3>4
    <3>6. v[2] = k
      BY <1>7, <1>24, <2>5, <3>1, <3>5
    <3> QED BY <2>1, <3>1, <3>3, <3>4, <3>6
  <2>6. ASSUME NEW p \in Pages, p # PageOf(a), ~Split(p) PROVE metadata'[p] = metadata[p]
    <3>1. ~\E u \in Upper : PageOf(u[1]) = p
      <4> SUFFICES ASSUME NEW u \in Upper, PageOf(u[1]) = p PROVE FALSE
        OBVIOUS
      <4>1. PICK k \in l .. j - 1 : u[1] = a + BlockSize(k)
        BY <1>7
      <4>2. k < PAGE \/ k >= PAGE
        BY <1>2, <1>6
      <4> QED BY <1>22, <2>6, <4>1, <4>2
    <3> QED BY <2>1, <2>6, <3>1
  <2>7. metadata'[PageOf(a)] = [level |-> l, free |-> FALSE]
    BY <2>1, <2>3
  <2>8. MetadataType(metadata')
    <3> SUFFICES ASSUME NEW p \in Pages PROVE metadata'[p] \in [level : Levels, free : BOOLEAN]
      BY <2>1 DEF MetadataType
    <3>0. \A q \in Levels, f \in BOOLEAN :
            [level |-> q, free |-> f] \in [level : Levels, free : BOOLEAN]
      OBVIOUS
    <3>1. CASE p = PageOf(a)
      BY <2>7, <3>0, <3>1, Zenon
    <3>2. CASE Split(p)
      <4>1. PICK k \in l .. j - 1 : k >= PAGE /\ PageOf(a + BlockSize(k)) = p
        BY <3>2
      <4>2. k \in Levels /\ metadata'[p] = [level |-> k, free |-> TRUE]
        BY <1>6, <2>5, <4>1
      <4> QED BY <3>0, <4>2, Zenon
    <3>3. CASE p # PageOf(a) /\ ~Split(p)
      BY <1>25, <2>6, <3>3 DEF MetadataType
    <3> QED BY <3>1, <3>2, <3>3
  <2> QED BY <2>3, <2>5, <2>6, <2>7, <2>8
(* A page of a part of the block has none of the other blocks of at least a page. *)
<1>27. ASSUME NEW x \in Int, NEW i \in Nat, i >= PAGE, Aligned(x, i),
              Apart(x, BlockSize(i), a, BlockSize(j))
       PROVE  PageOf(x) # PageOf(a) /\ ~Split(PageOf(x))
  <2>1. \A y \in Int : PageOf(y) = PageOf(x) => Inside(y, x, BlockSize(i))
    BY <1>2, <1>27, SamePage
  <2>2. PICK t \in Nat \ {0}, w \in Nat : t = BlockSize(j) /\ w = BlockSize(i)
    BY <1>5, BlockSizes
  <2>3. ~Inside(a, x, BlockSize(i))
    BY <1>27, <2>2 DEF Inside, Apart
  <2>4. ASSUME NEW k \in l .. j - 1 PROVE ~Inside(a + BlockSize(k), x, BlockSize(i))
    <3>1. PICK s \in Nat \ {0} : s = BlockSize(k) /\ 2 * s <= t
      BY <1>6, <2>2
    <3> QED BY <1>27, <2>2, <3>1 DEF Inside, Apart
  <2> QED BY <1>6, <2>1, <2>3, <2>4
(* A page an upper half starts at has no other block. *)
<1>28. ASSUME NEW x \in Int, NEW s \in Nat \ {0}, Apart(x, s, a, BlockSize(j))
       PROVE  ~Split(PageOf(x))
  <2> SUFFICES ASSUME NEW k \in l .. j - 1, k >= PAGE, PageOf(a + BlockSize(k)) = PageOf(x)
               PROVE  FALSE
    OBVIOUS
  <2>1. PICK e \in Int, t \in Nat \ {0} :
          e = a + BlockSize(k) /\ t = BlockSize(k) /\ Aligned(e, k) /\ k \in Nat
    BY <1>6
  <2>2. Inside(x, e, t)
    BY <1>2, <2>1, SamePage
  <2>3. Apart(x, s, e, t)
    BY <1>11, <1>28, <2>1
  <2> QED BY <1>28, <2>1, <2>2, <2>3 DEF Inside, Apart
<1>29. ASSUME NEW c \in Kept PROVE PageOf(c[1]) \in Pages
  <2>1. Inside(c[1], c[1], BlockSize(c[2]))
    BY <1>9 DEF Inside
  <2> QED BY <1>9, <2>1 DEF SharedOut, InFree
<1>30. ASSUME NEW g \in H PROVE PageOf(g.addr) \in Pages
  <2>1. Inside(g.addr, g.addr, g.span)
    BY <1>10 DEF Inside
  <2> QED BY <1>10, <2>1 DEF SharedOut, InHeld
<1>31. FreeMarked(free_list', metadata')
  <2> SUFFICES ASSUME NEW c \in free_list', c[2] >= PAGE
               PROVE  metadata'[PageOf(c[1])].free /\ metadata'[PageOf(c[1])].level = c[2]
    BY DEF FreeMarked
  <2>1. CASE c \in Kept
    <3>1. Aligned(c[1], c[2])
      BY <1>2, <2>1 DEF FreeOK
    <3>2. metadata'[PageOf(c[1])] = metadata[PageOf(c[1])]
      BY <1>9, <1>26, <1>27, <1>29, <2>1, <3>1
    <3> QED BY <2>1, <3>2 DEF TrueMetadata, FreeMarked
  <2>2. CASE c \in Upper
    <3>1. PICK k \in l .. j - 1 : c[1] = a + BlockSize(k) /\ c[2] = k
      BY <1>7, <2>2
    <3>2. metadata'[PageOf(c[1])] = [level |-> k, free |-> TRUE]
      BY <1>26, <3>1
    <3> QED BY <3>1, <3>2
  <2> QED BY <1>4, <2>1, <2>2
<1>32. SmallUnmarked(free_list', metadata')
  <2> SUFFICES ASSUME NEW c \in free_list', c[2] < PAGE PROVE ~metadata'[PageOf(c[1])].free
    BY DEF SmallUnmarked
  <2>1. CASE c \in Kept
    <3>1. ~Split(PageOf(c[1]))
      BY <1>9, <1>28, <2>1
    <3>2. \/ metadata'[PageOf(c[1])] = metadata[PageOf(c[1])]
          \/ metadata'[PageOf(c[1])] = [level |-> l, free |-> FALSE]
      BY <1>26, <1>29, <2>1, <3>1
    <3>3. ~metadata[PageOf(c[1])].free
      BY <2>1 DEF TrueMetadata, SmallUnmarked
    <3> QED BY <3>2, <3>3
  <2>2. CASE c \in Upper
    <3>1. PICK k \in l .. j - 1 : c[1] = a + BlockSize(k) /\ c[2] = k
      BY <1>7, <2>2
    <3>2. metadata'[PageOf(c[1])] = [level |-> l, free |-> FALSE]
      BY <1>22, <1>26, <3>1
    <3> QED BY <3>2
  <2> QED BY <1>4, <2>1, <2>2
<1>33. HeldUnmarked(H \cup {h}, metadata')
  <2>1. ASSUME NEW g \in H
        PROVE  /\ ~metadata'[PageOf(g.addr)].free
               /\ \A k \in Levels : g.span = BlockSize(k) /\ k >= PAGE => metadata'[PageOf(g.addr)].level = k
    <3>1. ~Split(PageOf(g.addr))
      BY <1>10, <1>28
    <3>2. \/ metadata'[PageOf(g.addr)] = metadata[PageOf(g.addr)]
          \/ metadata'[PageOf(g.addr)] = [level |-> l, free |-> FALSE]
      BY <1>26, <1>30, <3>1
    <3>3. /\ ~metadata[PageOf(g.addr)].free
          /\ \A k \in Levels : g.span = BlockSize(k) /\ k >= PAGE => metadata[PageOf(g.addr)].level = k
      BY DEF TrueMetadata, HeldUnmarked
    <3>4. ASSUME NEW k \in Levels, g.span = BlockSize(k), k >= PAGE
          PROVE  metadata'[PageOf(g.addr)].level = k
      <4>1. Aligned(g.addr, k) /\ k \in Nat
        BY <1>2, <3>4, BlockSizes DEF HeldOK
      <4>2. metadata'[PageOf(g.addr)] = metadata[PageOf(g.addr)]
        BY <1>10, <1>26, <1>27, <1>30, <3>4, <4>1
      <4> QED BY <3>3, <3>4, <4>2
    <3>5. ~metadata'[PageOf(g.addr)].free
      BY <3>2, <3>3
    <3> QED BY <3>4, <3>5
  <2>2. /\ ~metadata'[PageOf(h.addr)].free
        /\ \A k \in Levels : h.span = BlockSize(k) /\ k >= PAGE => metadata'[PageOf(h.addr)].level = k
    <3>1. metadata'[PageOf(h.addr)] = [level |-> l, free |-> FALSE]
      BY <1>3, <1>26
    <3>2. \A k \in Levels : h.span = BlockSize(k) => k = l
      BY <1>2, <1>3, BlockSizes
    <3> QED BY <3>1, <3>2
  <2> QED BY <2>1, <2>2 DEF HeldUnmarked
<1>34. MarksAreOwned(metadata', A)
  <2> SUFFICES ASSUME NEW p \in Pages, metadata'[p].free PROVE PageStart(p) \in A
    BY DEF MarksAreOwned
  <2>1. CASE p = PageOf(a)
    BY <1>26, <2>1
  <2>2. CASE Split(p)
    <3>1. PICK k \in l .. j - 1 : k >= PAGE /\ PageOf(a + BlockSize(k)) = p
      BY <2>2
    <3>2. PICK u \in Upper : u[1] = a + BlockSize(k) /\ u[2] = k
      BY <1>8
    <3>3. Inside(a + BlockSize(k), a + BlockSize(k), BlockSize(k))
      BY <1>6 DEF Inside
    <3>4. InFree(free_list', a + BlockSize(k))
      BY <1>4, <3>2, <3>3 DEF InFree
    <3>5. a + BlockSize(k) \in A
      BY <1>6, <1>20, <3>4
    <3> QED BY <1>23, <3>1, <3>5
  <2>3. CASE p # PageOf(a) /\ ~Split(p)
    BY <1>26, <2>3 DEF TrueMetadata, MarksAreOwned
  <2> QED BY <2>1, <2>2, <2>3
<1> QED BY <1>17, <1>21, <1>26, <1>31, <1>32, <1>33, <1>34 DEF TrueMetadata

----------------------------------------------------------------------------
(* The memory map: its entries, the regions they form and their pages. *)
LEMMA MapTypes ==
    /\ Len(MemMap) \in Nat /\ Entries = 1 .. Len(MemMap)
    /\ \A i \in Entries : i \in Nat /\ MemMap[i].base \in Nat /\ MemMap[i].pages \in Nat \ {0}
<1>1. MemMap \in Seq([type : STRING, base : Nat, pages : Nat \ {0}])
  BY BuddyAssumption
<1>2. Len(MemMap) \in Nat /\ Entries = 1 .. Len(MemMap)
  BY <1>1 DEF Entries
<1>3. ASSUME NEW i \in Entries PROVE i \in Nat /\ MemMap[i].base \in Nat /\ MemMap[i].pages \in Nat \ {0}
  <2>1. i \in Nat /\ MemMap[i] \in [type : STRING, base : Nat, pages : Nat \ {0}]
    <3>1. PICK R : R = [type : STRING, base : Nat, pages : Nat \ {0}]
      OBVIOUS
    <3>2. MemMap \in Seq(R) /\ i \in 1 .. Len(MemMap) /\ Len(MemMap) \in Nat
      BY <1>1, <1>2, <3>1
    <3>3. i \in Nat /\ MemMap[i] \in R
      BY <3>2
    <3> QED BY <3>1, <3>3
  <2> QED BY <2>1
<1> QED BY <1>2, <1>3

LEMMA MapSorted ==
  ASSUME NEW i \in Entries, NEW j \in Entries, i < j
  PROVE  MemMap[i].base + MemMap[i].pages <= MemMap[j].base
<1> DEFINE S == {d \in Nat : i + (d + 1) \in Entries =>
                   MemMap[i].base + MemMap[i].pages <= MemMap[i + (d + 1)].base}
<1>1. i \in Nat /\ j \in Nat
  BY MapTypes
<1>2. ASSUME NEW k \in Entries, k + 1 \in Entries
      PROVE  MemMap[k].base + MemMap[k].pages <= MemMap[k + 1].base
  <2>1. k \in 1 .. Len(MemMap) - 1
    BY <1>2, MapTypes
  <2> QED BY <2>1, BuddyAssumption
<1>3. 0 \in S
  <2>1. 0 + 1 = 1
    OBVIOUS
  <2> QED BY <1>1, <1>2, <2>1
<1>4. ASSUME NEW d \in Nat, d \in S PROVE d + 1 \in S
  <2> SUFFICES ASSUME i + ((d + 1) + 1) \in Entries
               PROVE  MemMap[i].base + MemMap[i].pages <= MemMap[i + ((d + 1) + 1)].base
    OBVIOUS
  <2>1. PICK k \in Nat : k = i + (d + 1)
    BY <1>1
  <2>2. k + 1 = i + ((d + 1) + 1) /\ k \in Entries
    BY <1>1, <2>1, MapTypes
  <2>3. MemMap[i].base + MemMap[i].pages <= MemMap[k].base
    BY <1>4, <2>1, <2>2
  <2>4. MemMap[k].base + MemMap[k].pages <= MemMap[k + 1].base
    BY <1>2, <2>2
  <2>5. PICK y \in Nat, z \in Nat : y = MemMap[k].base /\ z = MemMap[k].pages
    BY <2>2, MapTypes
  <2>8. PICK w \in Nat : w = MemMap[k + 1].base
    BY <2>2, MapTypes
  <2>9. PICK x \in Nat : x = MemMap[i].base + MemMap[i].pages
    BY MapTypes
  <2>6. x <= y /\ y + z <= w
    BY <2>3, <2>4, <2>5, <2>8, <2>9
  <2>7. x <= w
    BY <2>6
  <2> QED BY <2>2, <2>7, <2>8, <2>9
<1>5. \A d \in Nat : d \in S
  <2> HIDE DEF S
  <2> QED BY <1>3, <1>4, NumbersBelow
<1>6. (j - i) - 1 \in Nat /\ i + (((j - i) - 1) + 1) = j
  BY <1>1
<1>7. (j - i) - 1 \in S
  BY <1>5, <1>6
<1> QED BY <1>6, <1>7

Opened(i) == {j \in 1 .. i : OpensRegion(j)}

LEMMA RegionNumbers ==
    /\ \A i \in Nat : IsFiniteSet(Opened(i)) /\ RegionOfEntry(i) \in Nat
    /\ \A i, j \in Nat : i <= j => RegionOfEntry(i) <= RegionOfEntry(j)
    /\ \A i \in Entries : InRegion(i) => RegionOfEntry(i) \in Regions
<1>1. ASSUME NEW i \in Nat PROVE IsFiniteSet(Opened(i)) /\ RegionOfEntry(i) \in Nat
  <2>1. IsFiniteSet(1 .. i)
    BY FS_Interval
  <2>2. Opened(i) \subseteq 1 .. i
    BY DEF Opened
  <2>3. IsFiniteSet(Opened(i))
    BY <2>1, <2>2, FS_Subset
  <2> QED BY <2>3, FS_CardinalityType DEF RegionOfEntry, Opened
<1>2. ASSUME NEW i \in Nat, NEW j \in Nat, i <= j PROVE RegionOfEntry(i) <= RegionOfEntry(j)
  <2>1. Opened(i) \subseteq Opened(j)
    BY <1>2 DEF Opened
  <2>2. Cardinality(Opened(i)) <= Cardinality(Opened(j))
    BY <1>1, <2>1, FS_Subset
  <2> QED BY <2>2 DEF RegionOfEntry, Opened
<1>3. ASSUME NEW i \in Entries, InRegion(i) PROVE RegionOfEntry(i) \in Regions
  <2>1. i \in Nat /\ Len(MemMap) \in Nat /\ 1 <= i /\ i <= Len(MemMap)
    BY MapTypes
  <2> DEFINE T == {k \in 1 .. i : InRegion(k)}
  <2>2. T \in SUBSET Nat /\ T # {}
    BY <1>3, <2>1
  <2>3. PICK k \in T : \A o \in T : k <= o
    <3> HIDE DEF T
    <3> QED BY <2>2, LeastNumber
  <2>4. k \in 1 .. i /\ InRegion(k) /\ (k = 1 \/ ~InRegion(k - 1))
    <3>1. k # 1 => k - 1 \in 1 .. i /\ ~(k <= k - 1)
      BY <2>1, <2>3
    <3> QED BY <2>3, <3>1
  <2>5. k \in Opened(i)
    BY <2>4 DEF Opened, OpensRegion
  <2>6. RegionOfEntry(i) # 0
    BY <1>1, <2>1, <2>5, FS_EmptySet DEF RegionOfEntry, Opened
  <2>7. RegionOfEntry(i) <= RegionOfEntry(Len(MemMap))
    BY <1>2, <2>1
  <2> QED BY <1>1, <2>1, <2>6, <2>7 DEF Regions
<1> QED BY <1>1, <1>2, <1>3

LEMMA PagesOfRegion ==
  ASSUME NEW r \in Regions
  PROVE  \A p : p \in RegionPages[r] <=>
           \E i \in Entries : /\ InRegion(i) /\ RegionOfEntry(i) = r
                              /\ p \in Int /\ MemMap[i].base <= p /\ p < MemMap[i].base + MemMap[i].pages
<1>1. RegionPages[r] = UNION {MemMap[i].base .. MemMap[i].base + MemMap[i].pages - 1 :
                                i \in {j \in Entries : InRegion(j) /\ RegionOfEntry(j) = r}}
  BY DEF RegionPages
<1>2. ASSUME NEW i \in Entries, NEW p
      PROVE  p \in MemMap[i].base .. MemMap[i].base + MemMap[i].pages - 1 <=>
               p \in Int /\ MemMap[i].base <= p /\ p < MemMap[i].base + MemMap[i].pages
  BY MapTypes
<1> QED BY <1>1, <1>2

LEMMA PagesOfMap ==
    \A p : p \in Pages <=>
      \E i \in Entries : /\ InRegion(i)
                         /\ p \in Int /\ MemMap[i].base <= p /\ p < MemMap[i].base + MemMap[i].pages
<1>1. ASSUME NEW p \in Pages
      PROVE  \E i \in Entries : /\ InRegion(i)
                                /\ p \in Int /\ MemMap[i].base <= p /\ p < MemMap[i].base + MemMap[i].pages
  <2>1. PICK r \in Regions : p \in RegionPages[r]
    BY DEF Pages
  <2> QED BY <2>1, PagesOfRegion
<1>2. ASSUME NEW p, NEW i \in Entries, InRegion(i),
             p \in Int, MemMap[i].base <= p, p < MemMap[i].base + MemMap[i].pages
      PROVE  p \in Pages
  <2>1. RegionOfEntry(i) \in Regions
    BY <1>2, RegionNumbers
  <2>2. p \in RegionPages[RegionOfEntry(i)]
    BY <1>2, <2>1, PagesOfRegion
  <2> QED BY <2>1, <2>2 DEF Pages
<1> QED BY <1>1, <1>2

LEMMA PagesFinite == IsFiniteSet(Pages) /\ Pages \subseteq Nat
<1>1. Pages \subseteq Nat
  BY PagesOfMap, MapTypes
<1>2. CASE Len(MemMap) = 0
  <2>1. Entries = {}
    BY <1>2, MapTypes
  <2>2. Pages = {}
    BY <2>1, PagesOfMap
  <2> QED BY <2>2, FS_EmptySet
<1>3. CASE Len(MemMap) # 0
  <2>1. PICK last \in Entries : last = Len(MemMap) /\ \A i \in Entries : i = last \/ i < last
    BY <1>3, MapTypes
  <2>2. PICK top \in Nat : top = MemMap[last].base + MemMap[last].pages
    BY MapTypes
  <2>3. Pages \subseteq 0 .. top
    <3> SUFFICES ASSUME NEW p \in Pages PROVE p \in 0 .. top
      OBVIOUS
    <3>1. PICK i \in Entries : p \in Int /\ MemMap[i].base <= p /\ p < MemMap[i].base + MemMap[i].pages
      BY PagesOfMap
    <3>2. CASE i = last
      BY <2>2, <3>1, <3>2, MapTypes
    <3>3. CASE i < last
      <4>1. MemMap[i].base + MemMap[i].pages <= MemMap[last].base
        BY <3>3, MapSorted
      <4>2. /\ MemMap[i].base \in Nat /\ MemMap[i].pages \in Nat
            /\ MemMap[last].base \in Nat /\ MemMap[last].pages \in Nat
        BY MapTypes
      <4> QED BY <2>2, <3>1, <4>1, <4>2
    <3> QED BY <2>1, <3>2, <3>3
  <2>4. IsFiniteSet(0 .. top)
    BY FS_Interval
  <2> QED BY <1>1, <2>3, <2>4, FS_Subset
<1> QED BY <1>1, <1>2, <1>3

LEMMA EntryPagesFacts ==
  ASSUME NEW i \in Entries
  PROVE  EntryPages(i) \in Int /\ EntryPages(i) <= MemMap[i].pages
<1>1. PICK s \in Nat \ {0} : s = PAGE_SIZE
  BY PageFacts
<1>2. PICK c \in Nat : c = Cardinality(Pages)
  BY PagesFinite, FS_CardinalityType
<1>3. PICK n \in Nat : n = Cardinality(Regions) * RegionSize
  <2>1. IsFiniteSet(Regions)
    <3>1. RegionOfEntry(Len(MemMap)) \in Int
      BY RegionNumbers, MapTypes
    <3> QED BY <3>1, FS_Interval DEF Regions
  <2>2. PICK d \in Nat : d = Cardinality(Regions)
    BY <2>1, FS_CardinalityType
  <2>3. d * RegionSize \in Nat
    BY BuddyAssumption
  <2> QED BY <2>2, <2>3
<1>4. OverheadPages \in Nat
  <2>1. PICK z \in Nat : z = n + c + s - 1
    BY <1>1
  <2>2. z \div s \in Nat
    BY <1>1
  <2> QED BY <1>1, <1>2, <1>3, <2>1, <2>2 DEF OverheadPages
<1> QED BY <1>4, MapTypes DEF EntryPages

----------------------------------------------------------------------------
(* Filling the regions: the bytes added once n pages of entry e are. *)
Usable(i) == MemMap[i].type = "usable"
PagesAdded(i, e, n) == IF i < e THEN EntryPages(i) ELSE IF i = e THEN n ELSE 0
AddedUpTo(e, n) ==
    UNION {MemMap[i].base * PAGE_SIZE .. (MemMap[i].base + PagesAdded(i, e, n)) * PAGE_SIZE - 1 :
             i \in {j \in Entries : Usable(j)}}

(* How far the filling can have got. *)
Progress(e, n) ==
    /\ e \in 1 .. Len(MemMap) + 1 /\ n \in Nat
    /\ e \in Entries /\ Usable(e) => n = 0 \/ n <= EntryPages(e)

LEMMA PageBetween ==
  ASSUME NEW x \in Int, NEW p \in Int, NEW q \in Int
  PROVE  PageStart(p) <= x /\ x < PageStart(q) <=> p <= PageOf(x) /\ PageOf(x) < q
<1>1. PICK s \in Nat \ {0} : s = PAGE_SIZE
  BY PageFacts
<1>2. PICK o \in Int : o = PageOf(x) /\ PageStart(o) <= x /\ x < PageStart(o) + s
  BY <1>1, PageFacts DEF Inside
<1>3. /\ PageStart(o) \in Int /\ PageStart(p) \in Int /\ PageStart(q) \in Int
      /\ PageStart(o + 1) = PageStart(o) + s
  BY <1>1, PageFacts
<1>4. /\ p <= o => PageStart(p) <= PageStart(o)
      /\ o + 1 <= p => PageStart(o + 1) <= PageStart(p)
      /\ q <= o => PageStart(q) <= PageStart(o)
      /\ o + 1 <= q => PageStart(o + 1) <= PageStart(q)
  <2>1. \A i, j \in Int : i <= j => PageStart(i) <= PageStart(j)
    BY PageFacts
  <2>2. o + 1 \in Int
    OBVIOUS
  <2> QED BY <2>1, <2>2
<1> QED BY <1>2, <1>3, <1>4

LEMMA AddedMembers ==
  ASSUME NEW e \in Nat, NEW n \in Int
  PROVE  \A x : x \in AddedUpTo(e, n) <=>
           /\ x \in Int
           /\ \E i \in Entries : /\ Usable(i) /\ MemMap[i].base <= PageOf(x)
                                 /\ PageOf(x) < MemMap[i].base + PagesAdded(i, e, n)
<1>1. ASSUME NEW i \in Entries
      PROVE  PagesAdded(i, e, n) \in Int /\ MemMap[i].base \in Int
  BY EntryPagesFacts, MapTypes DEF PagesAdded
<1>2. ASSUME NEW i \in Entries, NEW x
      PROVE  x \in MemMap[i].base * PAGE_SIZE .. (MemMap[i].base + PagesAdded(i, e, n)) * PAGE_SIZE - 1
               <=> /\ x \in Int /\ MemMap[i].base <= PageOf(x)
                   /\ PageOf(x) < MemMap[i].base + PagesAdded(i, e, n)
  <2>1. PICK b \in Int, c \in Int : b = MemMap[i].base /\ c = MemMap[i].base + PagesAdded(i, e, n)
    BY <1>1
  <2>2. PICK u \in Int, v \in Int : u = b * PAGE_SIZE /\ v = c * PAGE_SIZE
    <3>1. PICK s \in Nat : s = PAGE_SIZE
      BY PageFacts
    <3>2. b * s \in Int /\ c * s \in Int
      OBVIOUS
    <3> QED BY <3>1, <3>2
  <2>3. u = PageStart(b) /\ v = PageStart(c)
    BY <2>2 DEF PageStart
  <2>4. x \in u .. v - 1 <=> x \in Int /\ u <= x /\ x < v
    OBVIOUS
  <2>5. x \in Int => (u <= x /\ x < v <=> b <= PageOf(x) /\ PageOf(x) < c)
    BY <2>3, PageBetween
  <2>6. x \in u .. v - 1 <=> x \in Int /\ b <= PageOf(x) /\ PageOf(x) < c
    BY <2>4, <2>5
  <2> QED BY <2>1, <2>2, <2>6
<1> QED BY <1>2 DEF AddedUpTo

LEMMA AddedInPages ==
  ASSUME NEW e, NEW n, Progress(e, n)
  PROVE  \A x \in AddedUpTo(e, n) : x \in Int /\ PageOf(x) \in Pages
<1> SUFFICES ASSUME NEW x \in AddedUpTo(e, n) PROVE x \in Int /\ PageOf(x) \in Pages
  OBVIOUS
<1>1. e \in Nat /\ n \in Int
  BY MapTypes DEF Progress
<1>2. x \in Int
  BY <1>1, AddedMembers
<1>3. PICK i \in Entries : /\ Usable(i) /\ MemMap[i].base <= PageOf(x)
                           /\ PageOf(x) < MemMap[i].base + PagesAdded(i, e, n)
  BY <1>1, AddedMembers
<1>4. InRegion(i)
  BY <1>3 DEF InRegion, Usable
<1>5. PICK o \in Int, b \in Nat, c \in Nat, d \in Int :
        o = PageOf(x) /\ b = MemMap[i].base /\ c = MemMap[i].pages /\ d = PagesAdded(i, e, n)
  <2>1. PagesAdded(i, e, n) \in Int
    BY <1>1, EntryPagesFacts DEF PagesAdded
  <2> QED BY <1>2, <2>1, PageFacts, MapTypes
<1>6. d <= c
  <2>1. EntryPages(i) \in Int /\ EntryPages(i) <= c
    BY <1>5, EntryPagesFacts
  <2>2. i = e => n = 0 \/ n <= EntryPages(i)
    BY <1>3 DEF Progress
  <2> QED BY <1>1, <1>5, <2>1, <2>2 DEF PagesAdded
<1>7. o < b + c
  BY <1>3, <1>5, <1>6
<1> QED BY <1>2, <1>3, <1>4, <1>5, <1>7, PagesOfMap

(* Skipping an entry adds nothing. *)
LEMMA SkipAddsNothing ==
  ASSUME NEW e \in Entries, NEW n \in Nat, ~Usable(e) \/ n = EntryPages(e)
  PROVE  AddedUpTo(e + 1, 0) = AddedUpTo(e, n)
<1>1. e \in Nat /\ e + 1 \in Nat /\ 0 \in Int /\ n \in Int
  BY MapTypes
<1>2. \A i \in Entries : Usable(i) => PagesAdded(i, e + 1, 0) = PagesAdded(i, e, n)
  BY <1>1, MapTypes DEF PagesAdded
<1>3. \A x : x \in AddedUpTo(e + 1, 0) <=> x \in AddedUpTo(e, n)
  BY <1>1, <1>2, AddedMembers
<1> QED BY <1>3

(* Adding w more pages of an entry: they are new, and nothing else is added. *)
LEMMA AddMore ==
  ASSUME NEW e \in Entries, Usable(e), NEW n \in Nat, NEW w \in Nat, n + w <= EntryPages(e),
         NEW x \in Int
  PROVE  /\ x \in AddedUpTo(e, n + w) <=>
              x \in AddedUpTo(e, n) \/ (MemMap[e].base + n <= PageOf(x) /\ PageOf(x) < MemMap[e].base + n + w)
         /\ MemMap[e].base + n <= PageOf(x) /\ PageOf(x) < MemMap[e].base + n + w =>
              x \notin AddedUpTo(e, n)
<1>1. e \in Nat /\ n \in Int /\ n + w \in Int
  BY MapTypes
<1>2. PICK o \in Int, b \in Nat, c \in Nat : o = PageOf(x) /\ b = MemMap[e].base /\ c = MemMap[e].pages
  BY PageFacts, MapTypes
<1>3. EntryPages(e) \in Int /\ EntryPages(e) <= c
  BY <1>2, EntryPagesFacts
<1> DEFINE In(i, m) == MemMap[i].base <= PageOf(x) /\ PageOf(x) < MemMap[i].base + PagesAdded(i, e, m)
<1>4. /\ In(e, n) <=> b <= o /\ o < b + n
      /\ In(e, n + w) <=> b <= o /\ o < b + (n + w)
  BY <1>1, <1>2 DEF PagesAdded
<1>5. \A i \in Entries : i # e => (In(i, n) <=> In(i, n + w))
  BY <1>1 DEF PagesAdded
<1>6. ASSUME NEW i \in Entries, i # e, In(i, n) PROVE ~(b + n <= o)
  <2>1. i \in Nat /\ MemMap[i].base \in Nat /\ MemMap[i].pages \in Nat
    BY MapTypes
  <2>2. CASE i < e
    <3>1. MemMap[i].base + MemMap[i].pages <= MemMap[e].base
      BY <2>2, MapSorted
    <3>2. EntryPages(i) \in Int /\ EntryPages(i) <= MemMap[i].pages
      BY EntryPagesFacts
    <3>3. o < MemMap[i].base + EntryPages(i)
      BY <1>2, <1>6, <2>2 DEF PagesAdded
    <3> QED BY <1>2, <2>1, <3>1, <3>2, <3>3
  <2>3. CASE e < i
    <3>1. PagesAdded(i, e, n) = 0
      BY <1>1, <2>1, <2>3 DEF PagesAdded
    <3> QED BY <1>2, <1>6, <2>1, <3>1
  <2> QED BY <1>1, <1>6, <2>1, <2>2, <2>3
<1>7. /\ x \in AddedUpTo(e, n) <=> \E i \in Entries : Usable(i) /\ In(i, n)
      /\ x \in AddedUpTo(e, n + w) <=> \E i \in Entries : Usable(i) /\ In(i, n + w)
  BY <1>1, AddedMembers
<1>8. x \in AddedUpTo(e, n) /\ b + n <= o => FALSE
  <2> SUFFICES ASSUME NEW i \in Entries, In(i, n), b + n <= o PROVE FALSE
    BY <1>7
  <2>1. i # e
    BY <1>4
  <2> HIDE DEF In
  <2> QED BY <1>6, <2>1
<1>9. x \in AddedUpTo(e, n + w) <=> x \in AddedUpTo(e, n) \/ (b + n <= o /\ o < b + n + w)
  <2>1. In(e, n + w) <=> In(e, n) \/ (b + n <= o /\ o < b + n + w)
    BY <1>3, <1>4
  <2> HIDE DEF In
  <2> QED BY <1>5, <1>7, <2>1
<1> QED BY <1>2, <1>8, <1>9

----------------------------------------------------------------------------
(***************************************************************************)
(* The inductive invariant: the free and the held blocks share out the     *)
(* memory added so far, and the metadata is true of them.                  *)
(***************************************************************************)
BuddyInv ==
    /\ added = <<added[1], added[2]>> /\ Progress(added[1], added[2])
    /\ SharedOut(free_list, held, AddedUpTo(added[1], added[2]))
    /\ TrueMetadata(free_list, held, metadata, AddedUpTo(added[1], added[2]))
    /\ IsFiniteSet(free_list) /\ IsFiniteSet(held)

LEMMA AddedBytesUpTo == AddedBytes = AddedUpTo(added[1], added[2])
BY DEF AddedBytes, AddedUpTo, PagesAdded, Usable

LEMMA BuddyInit == Init => BuddyInv
<1> SUFFICES ASSUME Init PROVE BuddyInv
  OBVIOUS
<1>1. added = <<1, 0>> /\ added[1] = 1 /\ added[2] = 0 /\ free_list = {} /\ held = {}
  BY DEF Init
<1>2. metadata = [p \in Pages |-> [level |-> 0, free |-> FALSE]]
  BY DEF Init
<1>3. Progress(1, 0)
  BY MapTypes DEF Progress
<1>4. AddedUpTo(1, 0) = {}
  <2> SUFFICES ASSUME NEW x \in AddedUpTo(1, 0) PROVE FALSE
    OBVIOUS
  <2>1. x \in Int /\ \E i \in Entries : /\ Usable(i) /\ MemMap[i].base <= PageOf(x)
                                        /\ PageOf(x) < MemMap[i].base + PagesAdded(i, 1, 0)
    BY AddedMembers
  <2>2. PICK i \in Entries : /\ MemMap[i].base <= PageOf(x)
                             /\ PageOf(x) < MemMap[i].base + PagesAdded(i, 1, 0)
    BY <2>1
  <2>3. PagesAdded(i, 1, 0) = 0
    BY MapTypes DEF PagesAdded
  <2>4. PageOf(x) \in Int
    BY <2>1, PageFacts
  <2>5. MemMap[i].base \in Nat
    BY MapTypes
  <2> QED BY <2>2, <2>3, <2>4, <2>5
<1>5. SharedOut({}, {}, {})
  BY DEF SharedOut, FreeOK, HeldOK, FreeApart, HeldApart, FreeHeldApart, InFree, InHeld
<1>6. TrueMetadata({}, {}, metadata, {})
  <2>1. MetadataType(metadata)
    <3>1. [level |-> 0, free |-> FALSE] \in [level : Levels, free : BOOLEAN]
      <4>1. 0 \in Levels
        BY LevelTypes
      <4> QED BY <4>1
    <3> QED BY <1>2, <3>1, Zenon DEF MetadataType
  <2>2. \A p \in Pages : ~metadata[p].free
    BY <1>2
  <2> QED BY <2>1, <2>2 DEF TrueMetadata, FreeMarked, SmallUnmarked, HeldUnmarked, MarksAreOwned
<1>7. IsFiniteSet({})
  BY FS_EmptySet
<1>8. added = <<added[1], added[2]>>
  BY <1>1
<1> QED BY <1>1, <1>3, <1>4, <1>5, <1>6, <1>7, <1>8 DEF BuddyInv

(* The block add_memory_to_region frees next, of w pages. *)
LEMMA NextBlock ==
  ASSUME NEW page \in Nat, NEW left \in Int, left > 0
  PROVE  LET whole == page % TopPages = 0 /\ left >= TopPages
             l == IF whole THEN LEVELS - 1 ELSE PAGE
             w == IF whole THEN TopPages ELSE 1
         IN  /\ l \in Levels /\ PAGE <= l /\ w \in Nat /\ w <= left
             /\ Aligned(page * PAGE_SIZE, l)
             /\ page * PAGE_SIZE = PageStart(page) /\ page * PAGE_SIZE \in Int
             /\ PageStart(page) + BlockSize(l) = PageStart(page + w)
<1>1. PICK s \in Nat \ {0} : s = PAGE_SIZE /\ s = BlockSize(PAGE)
  BY PageFacts
<1>2. /\ PAGE \in Nat /\ PAGE \in Levels /\ PAGE <= LEVELS - 1
      /\ LEVELS - 1 \in Levels /\ LEVELS - 1 \in Nat
  BY LevelTypes
<1>3. PICK t \in Nat \ {0} : t = TopPages /\ BlockSize(LEVELS - 1) = t * s
  <2>1. (LEVELS - 1) - PAGE \in Nat /\ FIRST \in Nat /\ PAGE + FIRST \in Nat
    BY <1>2, BuddyAssumption
  <2>2. ((LEVELS - 1) - PAGE) + (PAGE + FIRST) = (LEVELS - 1) + FIRST
    BY <1>2, <2>1
  <2>3. Pow2[(LEVELS - 1) + FIRST] = Pow2[(LEVELS - 1) - PAGE] * Pow2[PAGE + FIRST]
    BY <2>1, <2>2, PowSum
  <2>4. Pow2[(LEVELS - 1) - PAGE] \in Nat \ {0}
    BY <2>1, PowPositive
  <2>5. TopPages = Pow2[(LEVELS - 1) - PAGE] /\ s = Pow2[PAGE + FIRST]
        /\ BlockSize(LEVELS - 1) = Pow2[(LEVELS - 1) + FIRST]
    BY <1>1 DEF TopPages, BlockSize
  <2> QED BY <2>3, <2>4, <2>5
<1>4. page * PAGE_SIZE = PageStart(page) /\ page * PAGE_SIZE \in Int
  BY <1>1 DEF PageStart
<1>5. CASE page % TopPages = 0 /\ left >= TopPages
  <2>1. Multiple(page, t)
    BY <1>3, <1>5, MultipleMod
  <2>2. PICK k \in Int : page = k * t
    BY <2>1 DEF Multiple
  <2>3. page * s = k * (t * s)
    BY <2>2
  <2>4. Aligned(page * PAGE_SIZE, LEVELS - 1)
    BY <1>1, <1>3, <2>3 DEF Aligned, Multiple
  <2>5. PageStart(page) + t * s = PageStart(page + t)
    <3>1. (page + t) * s = page * s + t * s
      OBVIOUS
    <3> QED BY <1>1, <3>1 DEF PageStart
  <2> QED BY <1>2, <1>3, <1>4, <1>5, <2>4, <2>5
<1>6. CASE ~(page % TopPages = 0 /\ left >= TopPages)
  <2>1. Aligned(page * PAGE_SIZE, PAGE)
    BY <1>1 DEF Aligned, Multiple
  <2>2. PageStart(page) + BlockSize(PAGE) = PageStart(page + 1)
    BY <1>1, PageFacts
  <2> QED BY <1>2, <1>4, <1>6, <2>1, <2>2
<1> QED BY <1>5, <1>6

LEMMA FreeListFinite ==
  ASSUME IsFiniteSet(free_list), NEW a, NEW l, free_at_level(a, l)
  PROVE  IsFiniteSet(free_list')
<1>1. PICK K, x : K \subseteq free_list /\ free_list' = K \cup {x}
  BY DEF free_at_level
<1>2. IsFiniteSet(K)
  BY <1>1, FS_Subset
<1> QED BY <1>1, <1>2, FS_AddElement

LEMMA BuddyAdd == BuddyInv /\ add_memory_to_region =>
    /\ BuddyInv'
    /\ \E a, l : Hole(free_list, held, metadata, AddedUpTo(added[1], added[2]), a, l)
                   /\ free_at_level(a, l)
<1> SUFFICES ASSUME BuddyInv, add_memory_to_region
             PROVE  /\ BuddyInv'
                    /\ \E a, l : Hole(free_list, held, metadata, AddedUpTo(added[1], added[2]), a, l)
                                   /\ free_at_level(a, l)
  OBVIOUS
<1>1. PICK e, n : /\ e = added[1] /\ n = added[2] /\ Progress(e, n) /\ added = <<e, n>>
                  /\ SharedOut(free_list, held, AddedUpTo(e, n))
                  /\ TrueMetadata(free_list, held, metadata, AddedUpTo(e, n))
  BY DEF BuddyInv
<1>2. e \in Entries /\ Usable(e) /\ EntryPages(e) - n > 0 /\ n \in Nat /\ e \in Nat
  BY <1>1, MapTypes DEF add_memory_to_region, Booting, Usable, Progress
<1>3. PICK page \in Nat, left \in Int :
        page = MemMap[e].base + n /\ left = EntryPages(e) - n /\ left > 0
  <2>1. MemMap[e].base + n \in Nat
    BY <1>2, MapTypes
  <2>2. EntryPages(e) - n \in Int
    BY <1>2, EntryPagesFacts
  <2> QED BY <1>2, <2>1, <2>2
<1> DEFINE whole == page % TopPages = 0 /\ left >= TopPages
<1>4. PICK l, w : /\ l = IF whole THEN LEVELS - 1 ELSE PAGE
                  /\ w = IF whole THEN TopPages ELSE 1
  OBVIOUS
<1>5. PICK a : a = page * PAGE_SIZE
  OBVIOUS
<1>6. /\ free_at_level(a, l) /\ added' = <<e, n + w>> /\ held' = held
  BY <1>1, <1>3, <1>4, <1>5 DEF add_memory_to_region
<1>7. /\ l \in Levels /\ PAGE <= l /\ w \in Nat /\ w <= left /\ Aligned(a, l) /\ a \in Int
      /\ a = PageStart(page) /\ PageStart(page) + BlockSize(l) = PageStart(page + w)
  BY <1>3, <1>4, <1>5, NextBlock
<1> HIDE DEF whole
<1>8. n + w <= EntryPages(e) /\ n + w \in Nat
  BY <1>2, <1>3, <1>7, EntryPagesFacts
<1>9. ASSUME NEW x \in Int
      PROVE  Inside(x, a, BlockSize(l)) <=> page <= PageOf(x) /\ PageOf(x) < page + w
  <2>1. page \in Int /\ page + w \in Int
    BY <1>7
  <2>2. Inside(x, a, BlockSize(l)) <=> PageStart(page) <= x /\ x < PageStart(page + w)
    BY <1>7 DEF Inside
  <2> QED BY <2>1, <2>2, PageBetween
<1>10. ASSUME NEW x \in Int
       PROVE  /\ x \in AddedUpTo(e, n + w) <=> x \in AddedUpTo(e, n) \/ Inside(x, a, BlockSize(l))
              /\ Inside(x, a, BlockSize(l)) => x \notin AddedUpTo(e, n)
  <2>1. /\ x \in AddedUpTo(e, n + w) <=>
             x \in AddedUpTo(e, n) \/ (MemMap[e].base + n <= PageOf(x) /\ PageOf(x) < MemMap[e].base + n + w)
        /\ MemMap[e].base + n <= PageOf(x) /\ PageOf(x) < MemMap[e].base + n + w =>
             x \notin AddedUpTo(e, n)
    BY <1>2, <1>7, <1>8, AddMore
  <2> QED BY <1>3, <1>9, <2>1
<1>11. Progress(e, n + w)
  BY <1>1, <1>8 DEF Progress
<1>12. AddedUpTo(e, n + w) = AddedUpTo(e, n) \cup Bytes(a, l)
  <2>1. \A x : x \in Bytes(a, l) <=> x \in Int /\ Inside(x, a, BlockSize(l))
    BY <1>7, BytesInside, LevelTypes
  <2>2. \A x \in AddedUpTo(e, n + w) : x \in Int
    BY <1>11, AddedInPages
  <2>3. \A x \in AddedUpTo(e, n) : x \in Int
    BY <1>1, AddedInPages
  <2> QED BY <1>10, <2>1, <2>2, <2>3
<1>13. Hole(free_list, held, metadata, AddedUpTo(e, n), a, l)
  <2>1. ASSUME NEW x \in Int, Inside(x, a, BlockSize(l)) PROVE PageOf(x) \in Pages
    BY <1>10, <1>11, <2>1, AddedInPages
  <2>2. TrueMetadata(free_list, held, metadata, AddedUpTo(e, n) \cup Bytes(a, l))
    BY <1>1 DEF TrueMetadata, MarksAreOwned
  <2> QED BY <1>1, <1>7, <1>10, <2>1, <2>2 DEF Hole
<1>14. /\ SharedOut(free_list', held, AddedUpTo(e, n) \cup Bytes(a, l))
       /\ TrueMetadata(free_list', held, metadata', AddedUpTo(e, n) \cup Bytes(a, l))
  BY <1>6, <1>13, FreeAtLevel
<1>15. added'[1] = e /\ added'[2] = n + w /\ added' = <<added'[1], added'[2]>>
  BY <1>6
<1>16. IsFiniteSet(free_list')
  <2>1. IsFiniteSet(free_list)
    BY DEF BuddyInv
  <2> QED BY <1>6, <2>1, FreeListFinite
<1>17. BuddyInv'
  BY <1>6, <1>11, <1>12, <1>14, <1>15, <1>16 DEF BuddyInv
<1> QED BY <1>1, <1>6, <1>13, <1>17

LEMMA BuddySkip == BuddyInv /\ add_memory_skip => BuddyInv'
<1> SUFFICES ASSUME BuddyInv, add_memory_skip PROVE BuddyInv'
  OBVIOUS
<1>1. PICK e, n : e = added[1] /\ n = added[2] /\ Progress(e, n)
  BY DEF BuddyInv
<1>2. /\ e \in Entries /\ (~Usable(e) \/ n = EntryPages(e)) /\ n \in Nat
      /\ added' = <<e + 1, 0>> /\ free_list' = free_list /\ metadata' = metadata /\ held' = held
  BY <1>1, MapTypes DEF add_memory_skip, Booting, Usable, Progress
<1>3. added'[1] = e + 1 /\ added'[2] = 0 /\ added' = <<added'[1], added'[2]>>
  BY <1>2
<1>4. Progress(e + 1, 0)
  BY <1>2, MapTypes DEF Progress
<1>5. AddedUpTo(e + 1, 0) = AddedUpTo(e, n)
  BY <1>2, SkipAddsNothing
<1> QED BY <1>1, <1>2, <1>3, <1>4, <1>5 DEF BuddyInv

(* The level of a size has blocks that are large enough, and is the lowest that has. *)
LEMMA LevelOfSize ==
  ASSUME NEW size \in Nat, get_level_by_size(size) # -1
  PROVE  /\ get_level_by_size(size) \in Levels
         /\ BlockSize(get_level_by_size(size)) >= size % Pow2[SizeBits]
         /\ size % Pow2[SizeBits] \in Nat
<1>1. PICK M \in Nat \ {0} : M = Pow2[SizeBits]
  BY BuddyAssumption, PowPositive
<1>2. PICK s \in Nat : s = size % M
  BY <1>1
<1>3. LEVELS - 1 \in Nat /\ BlockSize(LEVELS - 1) \in Nat /\ LEVELS - 1 \in Levels
  <2>1. LEVELS - 1 \in Nat /\ LEVELS - 1 \in Levels
    BY LevelTypes
  <2> QED BY <2>1, BlockSizes
<1>4. ~(s > BlockSize(LEVELS - 1))
  BY <1>1, <1>2 DEF get_level_by_size
<1> DEFINE T == {l \in 0 .. LEVELS - 1 : BlockSize(l) >= s}
<1>5. get_level_by_size(size) = Min(T)
  BY <1>1, <1>2, <1>4 DEF get_level_by_size
<1>6. LEVELS - 1 \in T /\ T \in SUBSET Nat
  BY <1>2, <1>3, <1>4
<1>7. PICK k \in T : \A l \in T : k <= l
  <2>1. T # {}
    BY <1>6
  <2> HIDE DEF T
  <2> QED BY <1>6, <2>1, LeastNumber
<1>8. Min(T) \in T
  <2> HIDE DEF T
  <2> QED BY <1>7 DEF Min
<1> QED BY <1>1, <1>2, <1>5, <1>8 DEF Levels

LEMMA SplitFinite ==
  ASSUME IsFiniteSet(free_list), NEW b, b[1] \in Int, b[2] \in Levels, NEW l \in Levels,
         allocate_from_level(b, l)
  PROVE  IsFiniteSet(free_list')
<1> DEFINE Upper == {<<b[1] + BlockSize(k), k>> : k \in l .. b[2] - 1}
           f == [k \in l .. b[2] - 1 |-> <<b[1] + BlockSize(k), k>>]
<1>1. free_list' = (free_list \ {b}) \cup Upper
  BY DEF allocate_from_level
<1>2. IsFiniteSet(l .. b[2] - 1)
  <2>1. l \in Int /\ b[2] - 1 \in Int
    BY LevelTypes
  <2> QED BY <2>1, FS_Interval
<1>3. f \in Surjection(l .. b[2] - 1, Upper)
  BY DEF Surjection
<1>4. IsFiniteSet(Upper)
  <2> HIDE DEF f, Upper
  <2> QED BY <1>2, <1>3, FS_Surjection
<1>5. IsFiniteSet(free_list \ {b})
  BY FS_RemoveElement
<1> HIDE DEF Upper
<1> QED BY <1>1, <1>4, <1>5, FS_Union

LEMMA BuddyAlloc ==
  ASSUME BuddyInv, NEW size \in Sizes, phys_alloc(size)
  PROVE  /\ BuddyInv'
         /\ \E b \in free_list, l \in Levels :
              /\ l = get_level_by_size(size) /\ l <= b[2] /\ allocate_from_level(b, l)
              /\ b[1] \in Int /\ Aligned(b[1], l)
              /\ held' = held \cup {[addr |-> b[1], span |-> BlockSize(l), size |-> size]}
              /\ \A g \in held : Apart(g.addr, g.span, b[1], BlockSize(l))
<1>1. PICK e, n : /\ e = added[1] /\ n = added[2] /\ Progress(e, n) /\ added = <<e, n>>
                  /\ SharedOut(free_list, held, AddedUpTo(e, n))
                  /\ TrueMetadata(free_list, held, metadata, AddedUpTo(e, n))
                  /\ IsFiniteSet(free_list) /\ IsFiniteSet(held)
  BY DEF BuddyInv
<1>2. size \in Nat
  BY BuddyAssumption
<1>3. PICK l \in Levels : l = get_level_by_size(size)
  <2>1. get_level_by_size(size) # -1
    BY DEF phys_alloc
  <2> QED BY <1>2, <2>1, LevelOfSize
<1>4. PICK b \in Candidates(l) :
        /\ allocate_from_level(b, l)
        /\ held' = held \cup {[addr |-> b[1], span |-> BlockSize(l), size |-> size]}
  BY <1>3 DEF phys_alloc
<1>5. b \in free_list /\ b[2] >= l
  BY <1>4 DEF Candidates, FreeFor
<1>6. b[1] \in Int /\ b[2] \in Levels /\ Aligned(b[1], b[2]) /\ l <= b[2]
  BY <1>1, <1>5, LevelTypes DEF SharedOut, FreeOK
<1>7. Aligned(b[1], l)
  BY <1>6, LevelTypes, Coarser
<1>8. PICK h : h = [addr |-> b[1], span |-> BlockSize(l), size |-> size]
  OBVIOUS
<1>9. /\ SharedOut(free_list', held \cup {h}, AddedUpTo(e, n))
      /\ TrueMetadata(free_list', held \cup {h}, metadata', AddedUpTo(e, n))
      /\ \A g \in held : Apart(g.addr, g.span, h.addr, h.span)
  BY <1>1, <1>4, <1>5, <1>6, <1>8, AllocateFromLevel
<1>10. IsFiniteSet(free_list')
  BY <1>1, <1>4, <1>6, SplitFinite
<1>11. IsFiniteSet(held \cup {h})
  BY <1>1, FS_AddElement
<1>12. added' = added /\ held' = held \cup {h}
  BY <1>4, <1>8 DEF phys_alloc
<1>13. BuddyInv'
  BY <1>1, <1>9, <1>10, <1>11, <1>12 DEF BuddyInv
<1>14. h.addr = b[1] /\ h.span = BlockSize(l)
  BY <1>8
<1> QED BY <1>3, <1>4, <1>5, <1>6, <1>7, <1>9, <1>13, <1>14

(* A held block is a hole once it is no longer held. *)
LEMMA Release ==
  ASSUME NEW F, NEW H, NEW md, NEW A, SharedOut(F, H, A), TrueMetadata(F, H, md, A),
         NEW h \in H, NEW l \in Levels, PAGE <= l, h.span = BlockSize(l)
  PROVE  /\ Hole(F, H \ {h}, md, A \ Bytes(h.addr, l), h.addr, l)
         /\ (A \ Bytes(h.addr, l)) \cup Bytes(h.addr, l) = A
         /\ md[PageOf(h.addr)].level = l
<1>1. l \in Levels /\ l \in Nat /\ PAGE <= l /\ PAGE \in Nat /\ Levels \subseteq Nat
  BY LevelTypes
<1>2. h.addr \in Int /\ Aligned(h.addr, l) /\ BlockSize(l) \in Nat \ {0}
  BY <1>1, BlockSizes DEF SharedOut, HeldOK
<1>3. \A x : x \in Bytes(h.addr, l) <=> x \in Int /\ Inside(x, h.addr, BlockSize(l))
  BY <1>1, <1>2, BytesInside
<1>4. \A x \in Int : Inside(x, h.addr, BlockSize(l)) => x \in A
  BY DEF SharedOut, InHeld
<1>5. (A \ Bytes(h.addr, l)) \cup Bytes(h.addr, l) = A
  BY <1>3, <1>4
<1>6. \A g \in H : g.addr \in Int /\ g.span \in Nat \ {0}
  BY <1>1, BlockSizes DEF SharedOut, HeldOK
<1>7. \A b \in F : b[1] \in Int /\ BlockSize(b[2]) \in Nat \ {0}
  BY <1>1, BlockSizes DEF SharedOut, FreeOK
<1>8. SharedOut(F, H \ {h}, A \ Bytes(h.addr, l))
  <2>1. HeldOK(H \ {h}) /\ HeldApart(H \ {h}) /\ FreeHeldApart(F, H \ {h})
    BY DEF SharedOut, HeldOK, HeldApart, FreeHeldApart
  <2>2. ASSUME NEW x \in Int, Inside(x, h.addr, BlockSize(l)) PROVE ~InFree(F, x) /\ ~InHeld(H \ {h}, x)
    <3>1. ASSUME NEW b \in F, Inside(x, b[1], BlockSize(b[2])) PROVE FALSE
      <4>1. Apart(b[1], BlockSize(b[2]), h.addr, BlockSize(l))
        BY DEF SharedOut, FreeHeldApart
      <4> QED BY <1>2, <1>7, <2>2, <3>1, <4>1, Overlap
    <3>2. ASSUME NEW g \in H \ {h}, Inside(x, g.addr, g.span) PROVE FALSE
      <4>1. Apart(g.addr, g.span, h.addr, BlockSize(l))
        BY DEF SharedOut, HeldApart
      <4> QED BY <1>2, <1>6, <2>2, <3>2, <4>1, Overlap
    <3> QED BY <3>1, <3>2 DEF InFree, InHeld
  <2>3. ASSUME NEW x \in Int
        PROVE  x \in A \ Bytes(h.addr, l) <=> InFree(F, x) \/ InHeld(H \ {h}, x)
    <3>1. x \in A <=> InFree(F, x) \/ InHeld(H, x)
      BY DEF SharedOut
    <3>2. InHeld(H, x) <=> InHeld(H \ {h}, x) \/ Inside(x, h.addr, BlockSize(l))
      BY DEF InHeld
    <3>3. x \in A \ Bytes(h.addr, l) <=> x \in A /\ ~Inside(x, h.addr, BlockSize(l))
      BY <1>3
    <3> QED BY <2>2, <3>1, <3>2, <3>3
  <2> QED BY <2>1, <2>3 DEF SharedOut
<1>9. TrueMetadata(F, H \ {h}, md, A)
  BY DEF TrueMetadata, HeldUnmarked
<1>10. md[PageOf(h.addr)].level = l
  BY <1>1 DEF TrueMetadata, HeldUnmarked
<1>11. \A x \in Int : Inside(x, h.addr, BlockSize(l)) => x \notin A \ Bytes(h.addr, l) /\ PageOf(x) \in Pages
  BY <1>3, <1>4 DEF SharedOut
<1> QED BY <1>1, <1>2, <1>5, <1>8, <1>9, <1>10, <1>11 DEF Hole

LEMMA BuddyFree ==
  ASSUME PagesReturned, BuddyInv, NEW h \in held, Returned(h), phys_free(h)
  PROVE  /\ BuddyInv'
         /\ \E l \in FreeLevels :
              /\ h.span = BlockSize(l) /\ free_at_level(h.addr, l)
              /\ Hole(free_list, held', metadata,
                      AddedUpTo(added[1], added[2]) \ Bytes(h.addr, l), h.addr, l)
<1>1. PICK e, n : /\ e = added[1] /\ n = added[2] /\ Progress(e, n) /\ added = <<e, n>>
                  /\ SharedOut(free_list, held, AddedUpTo(e, n))
                  /\ TrueMetadata(free_list, held, metadata, AddedUpTo(e, n))
                  /\ IsFiniteSet(free_list) /\ IsFiniteSet(held)
  BY DEF BuddyInv
<1>2. PICK A : A = AddedUpTo(e, n)
  OBVIOUS
<1>3. PICK l \in Levels : l \in FreeLevels /\ PAGE <= l /\ h.span = BlockSize(l)
  BY LevelTypes DEF Returned, PagesReturned
<1>4. /\ Hole(free_list, held \ {h}, metadata, A \ Bytes(h.addr, l), h.addr, l)
      /\ (A \ Bytes(h.addr, l)) \cup Bytes(h.addr, l) = A
      /\ metadata[PageOf(h.addr)].level = l
  <2>1. SharedOut(free_list, held, A) /\ TrueMetadata(free_list, held, metadata, A)
    BY <1>1, <1>2
  <2>2. PAGE <= l /\ h.span = BlockSize(l)
    BY <1>3
  <2> QED BY <2>1, <2>2, Release, SMTT(60)
<1>5. free_at_level(h.addr, l) /\ held' = held \ {h} /\ added' = added
  BY <1>4 DEF phys_free
<1>6. /\ SharedOut(free_list', held \ {h}, A) /\ TrueMetadata(free_list', held \ {h}, metadata', A)
  BY <1>4, <1>5, FreeAtLevel
<1>7. IsFiniteSet(free_list')
  BY <1>1, <1>5, FreeListFinite
<1>8. IsFiniteSet(held \ {h})
  BY <1>1, FS_RemoveElement
<1>9. BuddyInv'
  BY <1>1, <1>2, <1>5, <1>6, <1>7, <1>8 DEF BuddyInv
<1> QED BY <1>1, <1>2, <1>3, <1>4, <1>5, <1>9

LEMMA BuddyNext ==
  ASSUME PagesReturned, BuddyInv, [Next]_vars PROVE BuddyInv'
<1>1. CASE add_memory_skip
  BY <1>1, BuddySkip
<1>2. CASE add_memory_to_region
  BY <1>2, BuddyAdd
<1>3. ASSUME NEW size \in Sizes, phys_alloc(size) PROVE BuddyInv'
  BY <1>3, BuddyAlloc
<1>4. ASSUME NEW h \in held, Returned(h), phys_free(h) PROVE BuddyInv'
  BY <1>4, BuddyFree
<1>5. CASE UNCHANGED vars
  BY <1>5 DEF BuddyInv, vars
<1> QED BY <1>1, <1>2, <1>3, <1>4, <1>5 DEF Next

LEMMA BuddyInvHolds == PagesReturned /\ Spec => []BuddyInv
<1> SUFFICES ASSUME PagesReturned PROVE Spec => []BuddyInv
  OBVIOUS
<1>1. Init => BuddyInv
  BY BuddyInit
<1>2. BuddyInv /\ [Next]_vars => BuddyInv'
  BY BuddyNext
<1> QED BY <1>1, <1>2, PTL DEF Spec

----------------------------------------------------------------------------
LEMMA InAddresses ==
  ASSUME NEW x \in Int
  PROVE  x \in Addresses <=> PageOf(x) \in Pages
<1>1. PICK s \in Nat \ {0} : s = PAGE_SIZE
  BY PageFacts
<1>2. ASSUME PageOf(x) \in Pages PROVE x \in Addresses
  <2>1. PICK p \in Pages : p = PageOf(x)
    BY <1>2
  <2>2. PICK m \in Int : m = p * PAGE_SIZE /\ m <= x /\ x < m + s
    BY <1>1, <2>1, PageFacts DEF PageStart, Inside
  <2>3. x - m \in 0 .. PAGE_SIZE - 1 /\ x = m + (x - m)
    BY <1>1, <2>2
  <2> QED BY <2>2, <2>3 DEF Addresses
<1>3. ASSUME x \in Addresses PROVE PageOf(x) \in Pages
  <2>1. PICK p \in Pages, o \in 0 .. PAGE_SIZE - 1 : x = p * PAGE_SIZE + o
    BY <1>3 DEF Addresses
  <2>2. p \in Nat
    BY PagesFinite
  <2>3. PICK m \in Int : m = PageStart(p)
    BY <2>2, PageFacts
  <2>4. Inside(x, PageStart(p), PAGE_SIZE)
    BY <1>1, <2>1, <2>3 DEF PageStart, Inside
  <2>5. PageOf(x) = p
    BY <2>2, <2>4, PageFacts
  <2> QED BY <2>5
<1> QED BY <1>2, <1>3

LEMMA TypeFollows == BuddyInv => BuddyTypeOK
<1> SUFFICES ASSUME BuddyInv PROVE BuddyTypeOK
  OBVIOUS
<1>1. PICK e, n : /\ e = added[1] /\ n = added[2] /\ Progress(e, n) /\ added = <<e, n>>
                  /\ SharedOut(free_list, held, AddedUpTo(e, n))
                  /\ TrueMetadata(free_list, held, metadata, AddedUpTo(e, n))
  BY DEF BuddyInv
<1>2. added \in (1 .. Len(MemMap) + 1) \X Nat
  BY <1>1 DEF Progress
<1>3. ASSUME NEW b \in free_list
      PROVE  b[2] \in Levels /\ b[1] % BlockSize(b[2]) = 0 /\ b[1] \in Addresses
  <2>1. b[1] \in Int /\ b[2] \in Levels /\ Aligned(b[1], b[2])
    BY <1>1 DEF SharedOut, FreeOK
  <2>2. BlockSize(b[2]) \in Nat \ {0}
    BY <2>1, LevelTypes, BlockSizes
  <2>3. b[1] % BlockSize(b[2]) = 0
    BY <2>1, <2>2, MultipleMod DEF Aligned
  <2>4. Inside(b[1], b[1], BlockSize(b[2]))
    BY <2>1, <2>2 DEF Inside
  <2>5. PageOf(b[1]) \in Pages
    BY <1>1, <2>1, <2>4 DEF SharedOut, InFree
  <2> QED BY <2>1, <2>3, <2>5, InAddresses
<1>4. ASSUME NEW h \in held PROVE h.addr \in Addresses /\ h.size \in Sizes
  <2>1. h.addr \in Int /\ h.size \in Sizes /\ \E k \in Levels : h.span = BlockSize(k)
    BY <1>1 DEF SharedOut, HeldOK
  <2>2. h.span \in Nat \ {0}
    BY <2>1, LevelTypes, BlockSizes
  <2>3. Inside(h.addr, h.addr, h.span)
    BY <2>1, <2>2 DEF Inside
  <2>4. PageOf(h.addr) \in Pages
    BY <1>1, <2>1, <2>3 DEF SharedOut, InHeld
  <2> QED BY <2>1, <2>4, InAddresses
<1>5. metadata \in [Pages -> [level : Levels, free : BOOLEAN]]
  BY <1>1 DEF TrueMetadata, MetadataType
<1> QED BY <1>2, <1>3, <1>4, <1>5 DEF BuddyTypeOK

(* The lists hold aligned blocks of the regions, and every page has metadata, *)
(* whatever add_memory, phys_alloc and phys_free, of pages or more, have done. *)
THEOREM BuddyTypeCorrect == PagesReturned /\ Spec => []BuddyTypeOK
<1> SUFFICES ASSUME PagesReturned PROVE Spec => []BuddyTypeOK
  OBVIOUS
<1>1. Spec => []BuddyInv
  BY BuddyInvHolds
<1>2. BuddyInv => BuddyTypeOK
  BY TypeFollows
<1> QED BY <1>1, <1>2, PTL

LEMMA SharingFollows == BuddyInv => NothingLostOrShared
<1> SUFFICES ASSUME BuddyInv PROVE NothingLostOrShared
  OBVIOUS
<1>1. /\ SharedOut(free_list, held, AddedBytes)
      /\ IsFiniteSet(free_list) /\ IsFiniteSet(held)
  BY AddedBytesUpTo DEF BuddyInv
<1> DEFINE FB == {Bytes(b[1], b[2]) : b \in free_list}
           HB == {h.addr .. h.addr + h.span - 1 : h \in held}
           f == [b \in free_list |-> Bytes(b[1], b[2])]
           g == [h \in held |-> h.addr .. h.addr + h.span - 1]
<1>2. ASSUME NEW b \in free_list
      PROVE  /\ b[1] \in Int /\ BlockSize(b[2]) \in Nat \ {0} /\ b[1] \in Bytes(b[1], b[2])
             /\ \A x : x \in Bytes(b[1], b[2]) <=> x \in Int /\ Inside(x, b[1], BlockSize(b[2]))
  <2>1. b[1] \in Int /\ b[2] \in Nat
    BY <1>1, LevelTypes DEF SharedOut, FreeOK
  <2>2. BlockSize(b[2]) \in Nat \ {0}
    BY <2>1, BlockSizes
  <2>3. \A x : x \in Bytes(b[1], b[2]) <=> x \in Int /\ Inside(x, b[1], BlockSize(b[2]))
    BY <2>1, BytesInside
  <2>4. Inside(b[1], b[1], BlockSize(b[2]))
    BY <2>1, <2>2 DEF Inside
  <2> QED BY <2>1, <2>2, <2>3, <2>4
<1>3. ASSUME NEW h \in held
      PROVE  /\ h.addr \in Int /\ h.span \in Nat \ {0} /\ h.addr \in h.addr .. h.addr + h.span - 1
             /\ \A x : x \in h.addr .. h.addr + h.span - 1 <=> x \in Int /\ Inside(x, h.addr, h.span)
  <2>1. h.addr \in Int /\ h.span \in Nat \ {0}
    BY <1>1, LevelTypes, BlockSizes DEF SharedOut, HeldOK
  <2> QED BY <2>1 DEF Inside
<1>4. UNION (FB \cup HB) = AddedBytes
  <2>1. \A x \in AddedBytes : x \in Int
    BY <1>1 DEF SharedOut
  <2>2. ASSUME NEW x
        PROVE  x \in UNION (FB \cup HB) <=> x \in Int /\ (InFree(free_list, x) \/ InHeld(held, x))
    BY <1>2, <1>3 DEF InFree, InHeld
  <2>3. \A x \in Int : x \in AddedBytes <=> InFree(free_list, x) \/ InHeld(held, x)
    BY <1>1 DEF SharedOut
  <2> HIDE DEF FB, HB
  <2> QED BY <2>1, <2>2, <2>3
<1>5. ASSUME NEW b \in free_list, NEW c \in free_list, b # c
      PROVE  Bytes(b[1], b[2]) \cap Bytes(c[1], c[2]) = {}
  <2>1. Apart(b[1], BlockSize(b[2]), c[1], BlockSize(c[2]))
    BY <1>1, <1>5 DEF SharedOut, FreeApart
  <2> QED BY <1>2, <2>1, Overlap
<1>6. ASSUME NEW h \in held, NEW k \in held, h # k
      PROVE  (h.addr .. h.addr + h.span - 1) \cap (k.addr .. k.addr + k.span - 1) = {}
  <2>1. Apart(h.addr, h.span, k.addr, k.span)
    BY <1>1, <1>6 DEF SharedOut, HeldApart
  <2> QED BY <1>3, <2>1, Overlap
<1>7. ASSUME NEW b \in free_list, NEW h \in held
      PROVE  Bytes(b[1], b[2]) \cap (h.addr .. h.addr + h.span - 1) = {}
  <2>1. Apart(b[1], BlockSize(b[2]), h.addr, h.span)
    BY <1>1 DEF SharedOut, FreeHeldApart
  <2> QED BY <1>2, <1>3, <2>1, Overlap
<1>8. IsFiniteSet(FB) /\ Cardinality(FB) = Cardinality(free_list)
  <2>1. f \in Surjection(free_list, FB)
    BY DEF Surjection
  <2>2. f \in Injection(free_list, FB)
    <3>1. f \in [free_list -> FB]
      OBVIOUS
    <3>2. ASSUME NEW b \in free_list, NEW c \in free_list, f[b] = f[c] PROVE b = c
      <4>1. Bytes(b[1], b[2]) = Bytes(c[1], c[2])
        BY <3>2
      <4> QED BY <1>2, <1>5, <4>1
    <3> HIDE DEF f, FB
    <3> QED BY <3>1, <3>2 DEF Injection, IsInjective
  <2> HIDE DEF f, FB
  <2> QED BY <1>1, <2>1, <2>2, FS_Surjection
<1>9. IsFiniteSet(HB) /\ Cardinality(HB) = Cardinality(held)
  <2>1. g \in Surjection(held, HB)
    BY DEF Surjection
  <2>2. g \in Injection(held, HB)
    <3>1. g \in [held -> HB]
      OBVIOUS
    <3>2. ASSUME NEW h \in held, NEW k \in held, g[h] = g[k] PROVE h = k
      <4>1. (h.addr .. h.addr + h.span - 1) = (k.addr .. k.addr + k.span - 1)
        BY <3>2
      <4> QED BY <1>3, <1>6, <4>1
    <3> HIDE DEF g, HB
    <3> QED BY <3>1, <3>2 DEF Injection, IsInjective
  <2> HIDE DEF g, HB
  <2> QED BY <1>1, <2>1, <2>2, FS_Surjection
<1>10. FB \cap HB = {}
  <2> SUFFICES ASSUME NEW b \in free_list, NEW h \in held,
                      Bytes(b[1], b[2]) = h.addr .. h.addr + h.span - 1
               PROVE  FALSE
    OBVIOUS
  <2> QED BY <1>2, <1>7
<1>11. Cardinality(FB \cup HB) = Cardinality(free_list) + Cardinality(held)
  <2> HIDE DEF FB, HB
  <2>1. Cardinality(FB \cup HB) = Cardinality(FB) + Cardinality(HB) - Cardinality(FB \cap HB)
    BY <1>8, <1>9, FS_Union
  <2>2. Cardinality(FB) \in Nat /\ Cardinality(HB) \in Nat /\ Cardinality(FB \cap HB) = 0
    BY <1>8, <1>9, <1>10, FS_CardinalityType, FS_EmptySet
  <2> QED BY <1>8, <1>9, <2>1, <2>2
<1>12. ASSUME NEW x \in FB \cup HB, NEW y \in FB \cup HB, x # y PROVE x \cap y = {}
  <2>1. CASE x \in FB /\ y \in FB
    BY <1>5, <1>12, <2>1
  <2>2. CASE x \in FB /\ y \in HB
    BY <1>7, <2>2
  <2>3. CASE x \in HB /\ y \in FB
    BY <1>7, <2>3
  <2>4. CASE x \in HB /\ y \in HB
    BY <1>6, <1>12, <2>4
  <2> QED BY <2>1, <2>2, <2>3, <2>4
<1> QED BY <1>4, <1>11, <1>12 DEF NothingLostOrShared

(* No byte add_memory has added is ever lost, and none is in two blocks: the *)
(* splits of allocate_from_level and the merges of free_at_level are exact,  *)
(* when callers return pages or more.                                        *)
THEOREM NoMemoryLostOrShared == PagesReturned /\ Spec => []NothingLostOrShared
<1> SUFFICES ASSUME PagesReturned PROVE Spec => []NothingLostOrShared
  OBVIOUS
<1>1. Spec => []BuddyInv
  BY BuddyInvHolds
<1>2. BuddyInv => NothingLostOrShared
  BY SharingFollows
<1> QED BY <1>1, <1>2, PTL

(* Wherever free_at_level reads that a neighbour is free at its level, it is  *)
(* in that list; and phys_free finds the level the block was allocated with: *)
(* for callers that hold blocks of any size and return those of a page or    *)
(* more.  subpage_free.cfg shows why smaller ones cannot be returned.        *)
THEOREM MetadataStaysTrue == PagesReturned /\ Spec => []MetadataIsTrue
<1> SUFFICES ASSUME PagesReturned PROVE Spec => []MetadataIsTrue
  OBVIOUS
<1>1. BuddyInv => MetadataIsTrue
  <2> SUFFICES ASSUME BuddyInv, NEW h \in held, NEW l \in FreeLevels, h.span = BlockSize(l)
               PROVE  /\ metadata[PageOf(h.addr)].level = l
                      /\ \A k \in l .. MergedLevel(h.addr, l) - 1 :
                            <<Neighbor(BlockAt(h.addr, k), k), k>> \in free_list
    BY DEF MetadataIsTrue
  <2>1. PICK A : /\ SharedOut(free_list, held, A) /\ TrueMetadata(free_list, held, metadata, A)
    BY DEF BuddyInv
  <2>3. l \in Levels /\ l \in Nat /\ PAGE <= l
    BY LevelTypes DEF PagesReturned
  <2>2. /\ Hole(free_list, held \ {h}, metadata, A \ Bytes(h.addr, l), h.addr, l)
        /\ metadata[PageOf(h.addr)].level = l
    BY <2>1, <2>3, Release
  <2>4. MergedLevel(h.addr, l) \in Nat
    BY <2>3, MergedLevelFacts, LevelTypes
  <2>5. ASSUME NEW k \in l .. MergedLevel(h.addr, l) - 1
        PROVE  <<Neighbor(BlockAt(h.addr, k), k), k>> \in free_list
    <3>1. CanMerge(h.addr, k) /\ k \in Nat /\ l <= k
      BY <2>3, <2>4, MergedLevelFacts
    <3>2. <<Buddy(h.addr, k), k>> \in free_list
      BY <2>2, <3>1, MergeIsTrue
    <3> QED BY <3>2 DEF Buddy
  <2> QED BY <2>2, <2>5
<1>2. Spec => []BuddyInv
  BY BuddyInvHolds
<1> QED BY <1>1, <1>2, PTL

----------------------------------------------------------------------------
(* The refinement.  Once the regions are filled, the memory added is all usable memory. *)
LEMMA AllAdded ==
  ASSUME Progress(added[1], added[2]), ~Booting
  PROVE  AddedUpTo(added[1], added[2]) = UsableMemory
<1>1. \A i \in Entries : PagesAdded(i, added[1], added[2]) = EntryPages(i)
  BY MapTypes DEF Progress, Booting, PagesAdded
<1> QED BY <1>1 DEF AddedUpTo, UsableMemory, Usable

(* Sizes that get_level_by_size, which takes 32 bits of them, sees as they are. *)
NoTruncation == \A size \in Sizes : size < Pow2[SizeBits]

LEMMA AllocRefines ==
  ASSUME NoTruncation, BuddyInv, NEW size \in Sizes, phys_alloc(size)
  PROVE  Abstract!Next
<1>1. PICK b \in free_list, l \in Levels :
        /\ l = get_level_by_size(size)
        /\ b[1] \in Int /\ Aligned(b[1], l)
        /\ held' = held \cup {[addr |-> b[1], span |-> BlockSize(l), size |-> size]}
        /\ \A g \in held : Apart(g.addr, g.span, b[1], BlockSize(l))
  BY BuddyAlloc
<1>2. PICK h : h = [addr |-> b[1], span |-> BlockSize(l), size |-> size]
  OBVIOUS
<1>3. h.addr = b[1] /\ h.span = BlockSize(l) /\ h.size = size /\ held' = held \cup {h}
  BY <1>1, <1>2
<1>4. BlockSize(l) \in Nat \ {0} /\ h.addr \in Int /\ l \in Nat
  BY <1>1, <1>3, LevelTypes, BlockSizes
<1>5. \A g \in held : g.addr \in Int /\ g.span \in Nat \ {0}
  <2>1. HeldOK(held)
    BY DEF BuddyInv, SharedOut
  <2> QED BY <2>1, LevelTypes, BlockSizes DEF HeldOK
<1>6. \A g \in held : Abstract!Span(g) \cap Abstract!Span(h) = {}
  <2> SUFFICES ASSUME NEW g \in held, NEW x, x \in g.addr .. g.addr + g.span - 1,
                      x \in h.addr .. h.addr + h.span - 1
               PROVE  FALSE
    BY DEF Abstract!Span
  <2>1. Apart(g.addr, g.span, h.addr, h.span)
    BY <1>1, <1>3
  <2> QED BY <1>3, <1>4, <1>5, <2>1 DEF Apart
<1>7. h \notin held
  <2> SUFFICES ASSUME h \in held PROVE FALSE
    OBVIOUS
  <2>1. Apart(h.addr, h.span, h.addr, h.span)
    BY <1>1, <1>3
  <2> QED BY <1>3, <1>4, <2>1 DEF Apart
<1>8. Abstract!Span(h) \subseteq UsableMemory
  <2>1. SharedOut(free_list', held', AddedUpTo(added'[1], added'[2])) /\ added' = added
    <3>1. BuddyInv'
      BY BuddyAlloc
    <3> QED BY <3>1 DEF BuddyInv, phys_alloc
  <2>2. AddedUpTo(added[1], added[2]) = UsableMemory
    BY AllAdded DEF BuddyInv, phys_alloc
  <2> SUFFICES ASSUME NEW x, x \in h.addr .. h.addr + h.span - 1 PROVE x \in UsableMemory
    BY DEF Abstract!Span
  <2>3. x \in Int /\ Inside(x, h.addr, h.span)
    BY <1>3, <1>4 DEF Inside
  <2>4. InHeld(held', x)
    BY <1>3, <2>3 DEF InHeld
  <2>5. x \in AddedUpTo(added'[1], added'[2])
    BY <2>1, <2>3, <2>4 DEF SharedOut
  <2> QED BY <2>1, <2>2, <2>5
<1>9. h.span >= h.size
  <2>1. size \in Nat /\ get_level_by_size(size) # -1
    BY BuddyAssumption DEF phys_alloc
  <2>2. BlockSize(l) >= size % Pow2[SizeBits]
    BY <1>1, <2>1, LevelOfSize
  <2>3. PICK M \in Nat \ {0} : M = Pow2[SizeBits] /\ size < M
    BY BuddyAssumption, PowPositive DEF NoTruncation
  <2>4. size % M = size
    <3>1. size = 0 * M + size /\ 0 <= size
      BY <2>1
    <3> QED BY <2>1, <2>3, <3>1, Remainder
  <2> QED BY <1>3, <2>2, <2>3, <2>4
<1>10. h.addr % h.span = 0
  BY <1>1, <1>3, <1>4, MultipleMod DEF Aligned
<1>11. Abstract!Alloc(h)
  BY <1>3, <1>6, <1>8, <1>9, <1>10 DEF Abstract!Alloc
<1>12. h \in held' \ held /\ h.size \in Sizes
  BY <1>3, <1>7
<1> QED BY <1>11, <1>12 DEF Abstract!Next

(* The allocator implements PhysSpec, as long as no caller asks for more than  *)
(* the 32 bits get_level_by_size looks at: a block lies in usable memory, is   *)
(* aligned and large enough, and belongs to nobody else until phys_free, which *)
(* is called for pages or more.                                                *)
THEOREM BuddyImplementsPhysSpec == NoTruncation /\ PagesReturned /\ Spec => ImplementsPhysSpec
<1> SUFFICES ASSUME NoTruncation, PagesReturned PROVE Spec => ImplementsPhysSpec
  OBVIOUS
<1>1. Init => Abstract!Init
  BY DEF Init, Abstract!Init
<1>2. BuddyInv /\ [Next]_vars => [Abstract!Next]_held
  <2> SUFFICES ASSUME BuddyInv, [Next]_vars PROVE Abstract!Next \/ held' = held
    OBVIOUS
  <2>1. CASE add_memory_skip
    BY <2>1 DEF add_memory_skip
  <2>2. CASE add_memory_to_region
    BY <2>2 DEF add_memory_to_region
  <2>3. ASSUME NEW size \in Sizes, phys_alloc(size) PROVE Abstract!Next
    BY <2>3, AllocRefines
  <2>4. ASSUME NEW h \in held, phys_free(h) PROVE Abstract!Next
    BY <2>4 DEF phys_free, Abstract!Next, Abstract!Free
  <2>5. CASE UNCHANGED vars
    BY <2>5 DEF vars
  <2> QED BY <2>1, <2>2, <2>3, <2>4, <2>5 DEF Next
<1>3. Spec => []BuddyInv
  BY BuddyInvHolds
<1> QED BY <1>1, <1>2, <1>3, PTL DEF Spec, ImplementsPhysSpec, Abstract!Spec

----------------------------------------------------------------------------
(***************************************************************************)
(* Free buddies are merged at once.  Two more invariants: no block of at   *)
(* least a page has a free buddy of its level, and a free block of less    *)
(* than a page shares its page with a held one.                            *)
(***************************************************************************)
NoFreeBuddies(F) ==
    \A b \in F : b[2] >= PAGE /\ b[2] < LEVELS - 1 => <<Buddy(b[1], b[2]), b[2]>> \notin F
SmallHaveHolders(F, H) ==
    \A b \in F : b[2] < PAGE => \E h \in H : PageOf(h.addr) = PageOf(b[1]) /\ h.span < PAGE_SIZE

MergedInv == NoFreeBuddies(free_list) /\ SmallHaveHolders(free_list, held)

LEMMA BuddyOfBuddy ==
  ASSUME NEW a \in Int, NEW k \in Nat, Aligned(a, k)
  PROVE  /\ BlockAt(a, k) = a /\ Buddy(a, k) \in Int /\ Aligned(Buddy(a, k), k)
         /\ Buddy(Buddy(a, k), k) = a
         /\ Aligned(a, k + 1) => Buddy(a, k) = a + BlockSize(k)
<1>1. PICK s \in Nat \ {0} : s = BlockSize(k) /\ BlockSize(k + 1) = 2 * s
  BY BlockSizes
<1>2. Inside(a, a, BlockSize(k))
  BY <1>1 DEF Inside
<1>3. BlockAt(a, k) = a
  BY <1>2, BlockAtUnique
<1>4. PICK P \in Int, n \in Int : P = BlockAt(a, k + 1) /\ n = Buddy(a, k)
  <2>1. BlockAt(a, k + 1) \in Int /\ Buddy(a, k) \in Int
    BY Halves
  <2> QED BY <2>1
<1>5. /\ Aligned(P, k + 1) /\ Aligned(n, k)
      /\ \/ a = P /\ n = P + s
         \/ n = P /\ a = P + s
  BY <1>1, <1>3, <1>4, Halves
<1>6. Inside(n, P, BlockSize(k + 1)) /\ Inside(n, n, BlockSize(k))
  BY <1>1, <1>5 DEF Inside
<1>7. BlockAt(n, k + 1) = P /\ BlockAt(n, k) = n
  <2>1. k + 1 \in Nat
    OBVIOUS
  <2> QED BY <1>5, <1>6, <2>1, BlockAtUnique
<1>8. PICK m \in Int : m = Buddy(n, k)
  <2>1. Buddy(n, k) \in Int
    BY Halves
  <2> QED BY <2>1
<1>9. \/ n = P /\ m = P + s
      \/ m = P /\ n = P + s
  BY <1>1, <1>7, <1>8, Halves
<1>10. m = a
  BY <1>1, <1>5, <1>9
<1>11. Aligned(a, k + 1) => n = a + s
  <2> SUFFICES ASSUME Aligned(a, k + 1) PROVE n = a + s
    OBVIOUS
  <2>1. Inside(a, a, BlockSize(k + 1)) /\ k + 1 \in Nat
    BY <1>1 DEF Inside
  <2>2. P = a
    BY <1>4, <2>1, BlockAtUnique
  <2> QED BY <1>1, <1>5, <2>2
<1> QED BY <1>1, <1>3, <1>4, <1>5, <1>8, <1>10, <1>11

(* A page belongs to one entry, and so to one region. *)
LEMMA OneEntry ==
  ASSUME NEW i \in Entries, NEW j \in Entries, NEW p \in Int, NEW q \in Int, p <= q,
         MemMap[i].base <= p, p < MemMap[i].base + MemMap[i].pages,
         MemMap[j].base <= q, q < MemMap[j].base + MemMap[j].pages
  PROVE  i <= j /\ (p = q => i = j)
<1>1. i \in Nat /\ j \in Nat
  BY MapTypes
<1>2. PICK a \in Nat, b \in Nat, c \in Nat, d \in Nat :
        a = MemMap[i].base /\ b = MemMap[i].pages /\ c = MemMap[j].base /\ d = MemMap[j].pages
  BY MapTypes
<1>3. j < i => c + d <= a
  BY <1>2, MapSorted
<1>4. i < j => a + b <= c
  BY <1>2, MapSorted
<1> QED BY <1>1, <1>2, <1>3, <1>4

LEMMA OneRegion ==
  ASSUME NEW r \in Regions, NEW x \in Int, PageOf(x) \in RegionPages[r]
  PROVE  FindRegion(x) = r
<1>1. FindRegion(x) \in Regions /\ PageOf(x) \in RegionPages[FindRegion(x)]
  BY DEF FindRegion
<1>2. PICK o \in Regions : o = FindRegion(x)
  BY <1>1
<1>3. PICK i \in Entries : /\ RegionOfEntry(i) = r
                           /\ MemMap[i].base <= PageOf(x) /\ PageOf(x) < MemMap[i].base + MemMap[i].pages
  BY PagesOfRegion
<1>4. PICK j \in Entries : /\ RegionOfEntry(j) = o
                           /\ MemMap[j].base <= PageOf(x) /\ PageOf(x) < MemMap[j].base + MemMap[j].pages
  BY <1>1, <1>2, PagesOfRegion
<1>5. PICK p \in Int : p = PageOf(x) /\ p <= p
  BY PageFacts
<1>6. i = j
  BY <1>3, <1>4, <1>5, OneEntry
<1> QED BY <1>2, <1>3, <1>4, <1>6

(* Adjacent pages of regions are pages of one region: only a hole breaks the chain. *)
LEMMA AdjacentPages ==
  ASSUME NEW r \in Regions, NEW p \in RegionPages[r], p + 1 \in Pages
  PROVE  p + 1 \in RegionPages[r]
<1>1. PICK i \in Entries : /\ InRegion(i) /\ RegionOfEntry(i) = r
                           /\ p \in Int /\ MemMap[i].base <= p /\ p < MemMap[i].base + MemMap[i].pages
  BY PagesOfRegion
<1>2. PICK j \in Entries : /\ InRegion(j) /\ p + 1 \in Int
                           /\ MemMap[j].base <= p + 1 /\ p + 1 < MemMap[j].base + MemMap[j].pages
  BY PagesOfMap
<1>3. i \in Nat /\ j \in Nat
  BY MapTypes
<1>4. PICK a \in Nat, b \in Nat \ {0}, c \in Nat, d \in Nat \ {0} :
        a = MemMap[i].base /\ b = MemMap[i].pages /\ c = MemMap[j].base /\ d = MemMap[j].pages
  BY MapTypes
<1>5. i <= j
  <2>1. PICK q \in Int : q = p + 1 /\ p <= q
    BY <1>1
  <2> QED BY <1>1, <1>2, <2>1, OneEntry
<1>6. CASE i = j
  BY <1>1, <1>2, <1>6, PagesOfRegion
<1>7. CASE i < j
  <2>1. a + b <= c /\ c = p + 1 /\ a + b = c
    <3>1. a + b <= c
      BY <1>4, <1>7, MapSorted
    <3> QED BY <1>1, <1>2, <1>4, <3>1
  <2>2. j = i + 1
    <3> SUFFICES ASSUME i + 1 < j PROVE FALSE
      BY <1>3, <1>7
    <3>1. i + 1 \in Entries /\ i < i + 1
      BY <1>3, MapTypes
    <3>2. PICK k \in Entries : k = i + 1 /\ i < k /\ k < j
      BY <3>1
    <3>3. PICK u \in Nat, v \in Nat \ {0} : u = MemMap[k].base /\ v = MemMap[k].pages
      BY MapTypes
    <3>4. a + b <= u
      BY <1>4, <3>2, <3>3, MapSorted
    <3>5. u + v <= c
      BY <1>4, <3>2, <3>3, MapSorted
    <3> QED BY <2>1, <3>4, <3>5
  <2>3. ~OpensRegion(j)
    <3>1. j # 1 /\ j - 1 = i
      BY <1>3, <2>2, MapTypes
    <3> QED BY <1>1, <1>4, <2>1, <3>1 DEF OpensRegion
  <2>4. Opened(j) = Opened(i)
    <3>1. \A k : k \in 1 .. j <=> k \in 1 .. i \/ k = j
      BY <1>3, <2>2, MapTypes
    <3> QED BY <2>3, <3>1 DEF Opened
  <2>5. RegionOfEntry(j) = r
    BY <1>1, <2>4 DEF RegionOfEntry, Opened
  <2> QED BY <1>2, <2>5, PagesOfRegion
<1> QED BY <1>3, <1>5, <1>6, <1>7

LEMMA RunOfPages ==
  ASSUME NEW r \in Regions, NEW p \in RegionPages[r], NEW q \in Int, p <= q,
         \A o \in Int : p <= o /\ o <= q => o \in Pages
  PROVE  q \in RegionPages[r]
<1>1. p \in Int
  BY PagesOfRegion
<1> DEFINE S == {d \in Nat : p + d <= q => p + d \in RegionPages[r]}
<1>2. 0 \in S
  BY <1>1
<1>3. ASSUME NEW d \in Nat, d \in S PROVE d + 1 \in S
  <2> SUFFICES ASSUME p + (d + 1) <= q PROVE p + (d + 1) \in RegionPages[r]
    OBVIOUS
  <2>1. PICK o \in Int : o = p + d /\ o + 1 = p + (d + 1) /\ o <= q
    BY <1>1
  <2>2. o \in RegionPages[r]
    BY <1>3, <2>1
  <2>3. o + 1 \in Pages
    BY <1>1, <2>1
  <2>4. o + 1 \in RegionPages[r]
    BY <2>2, <2>3, AdjacentPages
  <2> QED BY <2>1, <2>4
<1>4. \A d \in Nat : d \in S
  <2> HIDE DEF S
  <2> QED BY <1>2, <1>3, NumbersBelow
<1>5. q - p \in Nat /\ p + (q - p) = q
  BY <1>1
<1>6. q - p \in S
  BY <1>4, <1>5
<1> QED BY <1>1, <1>5, <1>6

(* A run of pages of the regions has one region. *)
LEMMA SameRegion ==
  ASSUME NEW x \in Int, NEW y \in Int,
         \A o \in Int : (PageOf(x) <= o /\ o <= PageOf(y)) \/ (PageOf(y) <= o /\ o <= PageOf(x)) => o \in Pages
  PROVE  PageOf(y) \in RegionPages[FindRegion(x)]
<1>1. PICK p \in Int, q \in Int : p = PageOf(x) /\ q = PageOf(y)
  BY PageFacts
<1>2. p \in Pages /\ q \in Pages
  BY <1>1
<1>3. CASE p <= q
  <2>1. PICK r \in Regions : p \in RegionPages[r]
    BY <1>2 DEF Pages
  <2>2. \A o \in Int : p <= o /\ o <= q => o \in Pages
    BY <1>1
  <2>3. q \in RegionPages[r]
    BY <1>3, <2>1, <2>2, RunOfPages
  <2>4. FindRegion(x) = r
    BY <1>1, <2>1, OneRegion
  <2> QED BY <1>1, <2>3, <2>4
<1>4. CASE q <= p
  <2>1. PICK r \in Regions : q \in RegionPages[r]
    BY <1>2 DEF Pages
  <2>2. \A o \in Int : q <= o /\ o <= p => o \in Pages
    BY <1>1
  <2>3. p \in RegionPages[r]
    BY <1>4, <2>1, <2>2, RunOfPages
  <2>4. FindRegion(x) = r
    BY <1>1, <2>3, OneRegion
  <2> QED BY <1>1, <2>1, <2>4
<1> QED BY <1>3, <1>4

(* The block free_at_level ends with has no free buddy: it would have been merged. *)
LEMMA MergesAll ==
  ASSUME NEW H, NEW A, NEW addr, NEW l, Hole(free_list, H, metadata, A, addr, l),
         free_at_level(addr, l), NoFreeBuddies(free_list)
  PROVE  NoFreeBuddies(free_list')
<1>1. /\ addr \in Int /\ l \in Levels /\ l \in Nat /\ PAGE \in Nat /\ PAGE <= l /\ Aligned(addr, l)
      /\ FreeOK(free_list) /\ Levels \subseteq Nat
  BY LevelTypes DEF Hole, SharedOut
<1>2. PICK m \in Levels : /\ m = MergedLevel(addr, l) /\ l <= m
                          /\ m < LEVELS - 1 => ~CanMerge(addr, m)
  BY <1>1, MergedLevelFacts
<1>3. m \in Nat /\ PAGE <= m /\ m + 1 \in Nat /\ PAGE <= m + 1
  BY <1>1, <1>2
<1>4. PICK s \in Nat \ {0} : s = BlockSize(m) /\ BlockSize(m + 1) = 2 * s
  BY <1>3, BlockSizes
<1>5. PICK base \in Int : base = BlockAt(addr, m) /\ Aligned(base, m) /\ Inside(addr, base, s)
  BY <1>1, <1>3, <1>4, BlockAtFacts
<1>6. PICK Kept \in SUBSET free_list : free_list' = Kept \cup {<<base, m>>}
  BY <1>2, <1>5 DEF free_at_level
<1>7. PICK new : new = <<base, m>> /\ new[1] = base /\ new[2] = m
  <2>1. <<base, m>>[1] = base /\ <<base, m>>[2] = m
    OBVIOUS
  <2> QED BY <2>1
<1>8. SharedOut(free_list', H, A \cup Bytes(addr, l))
  BY FreeAtLevel
<1>9. PICK n \in Int : n = Buddy(addr, m) /\ n = Buddy(base, m) /\ Aligned(n, m) /\ Buddy(n, m) = base
  <2>1. /\ Buddy(base, m) \in Int /\ Aligned(Buddy(base, m), m) /\ Buddy(Buddy(base, m), m) = base
        /\ BlockAt(base, m) = base
    BY <1>3, <1>5, BuddyOfBuddy
  <2>2. Buddy(addr, m) = Buddy(base, m)
    BY <1>5, <2>1 DEF Buddy
  <2> QED BY <2>1, <2>2
<1>10. PICK P \in Int : /\ Aligned(P, m + 1)
                        /\ \/ base = P /\ n = P + s
                           \/ n = P /\ base = P + s
  <2>1. PICK P \in Int : P = BlockAt(addr, m + 1)
    <3>1. BlockAt(addr, m + 1) \in Int
      BY <1>1, <1>3, Halves
    <3> QED BY <3>1
  <2>2. /\ Aligned(P, m + 1)
        /\ \/ base = P /\ n = P + s
           \/ n = P /\ base = P + s
    BY <1>1, <1>3, <1>4, <1>5, <1>9, <2>1, Halves
  <2> QED BY <2>2
<1>11. ASSUME m < LEVELS - 1, <<n, m>> \in free_list PROVE FALSE
  <2>1. PICK c \in free_list : c = <<n, m>> /\ c[1] = n /\ c[2] = m
    <3>1. <<n, m>>[1] = n /\ <<n, m>>[2] = m
      OBVIOUS
    <3> QED BY <1>11, <3>1
  <2>2. metadata[PageOf(n)].free /\ metadata[PageOf(n)].level = m
    BY <1>1, <1>3, <2>1 DEF Hole, TrueMetadata, FreeMarked
  <2>3. ASSUME NEW x \in Int, P <= x, x < P + 2 * s PROVE PageOf(x) \in Pages
    <3>1. Inside(x, base, s) \/ Inside(x, n, s)
      BY <1>4, <1>10, <2>3 DEF Inside
    <3>2. CASE Inside(x, base, s)
      <4>1. InFree(free_list', x)
        BY <1>4, <1>6, <1>7, <3>2 DEF InFree
      <4> QED BY <1>8, <4>1 DEF SharedOut
    <3>3. CASE Inside(x, n, s)
      <4>1. InFree(free_list, x)
        BY <1>4, <2>1, <3>3 DEF InFree
      <4> QED BY <4>1 DEF Hole, SharedOut
    <3> QED BY <3>1, <3>2, <3>3
  <2>4. PICK o \in Int, i \in Int, j \in Int : o = PageOf(P) /\ i = PageOf(addr) /\ j = PageOf(n)
    BY <1>1, PageFacts
  <2>5. PageStart(o) = P /\ PAGE_SIZE \in Nat \ {0}
    BY <1>3, <1>10, <2>4, SamePage, PageFacts
  <2>6. P <= addr /\ addr < P + 2 * s /\ P <= n /\ n < P + 2 * s
    BY <1>1, <1>4, <1>5, <1>10 DEF Inside
  <2>7. PICK u \in Int, v \in Int : u = PageStart(i) /\ v = PageStart(j) /\ u <= addr /\ v <= n
    BY <1>1, <2>4, PageFacts DEF Inside
  <2>8. o <= i /\ o <= j
    <3>1. ASSUME NEW x \in Int, P <= x PROVE o <= PageOf(x)
      <4>1. PICK w \in Int : w = PageOf(x) + 1 /\ w \in Int
        BY PageFacts
      <4>2. x < PageStart(w)
        <5>1. PageStart(w) = PageStart(PageOf(x)) + PAGE_SIZE
          BY <4>1, PageFacts
        <5> QED BY <5>1, PageFacts DEF Inside
      <4>3. PageStart(o) <= x /\ x < PageStart(w)
        BY <2>5, <3>1, <4>2
      <4> QED BY <2>4, <4>3, PageBetween
    <3> QED BY <1>1, <2>4, <2>6, <3>1
  <2>9. ASSUME NEW q \in Int, (i <= q /\ q <= j) \/ (j <= q /\ q <= i) PROVE q \in Pages
    <3>1. o <= q /\ (q <= i \/ q <= j)
      BY <2>8, <2>9
    <3>2. PICK x \in Int : x = PageStart(q) /\ P <= x /\ (x <= u \/ x <= v)
      <4>1. \A a, b \in Int : a <= b => PageStart(a) <= PageStart(b)
        BY PageFacts
      <4>2. PageStart(q) \in Int
        BY PageFacts
      <4> QED BY <2>5, <2>7, <3>1, <4>1, <4>2
    <3>3. x < P + 2 * s
      BY <1>1, <1>4, <2>6, <2>7, <3>2
    <3>4. PageOf(x) \in Pages
      BY <2>3, <3>2, <3>3
    <3> QED BY <3>2, <3>4, PageOfStart
  <2>10. j \in RegionPages[FindRegion(addr)]
    BY <1>1, <2>4, <2>9, SameRegion
  <2>11. n >= 0
    <3>1. j \in Nat
      BY <2>3, <2>4, <2>6, PagesFinite
    <3>2. v \in Nat
      BY <2>7, <3>1, PageFacts
    <3> QED BY <2>7, <3>2
  <2>12. CanMerge(addr, m)
    BY <1>9, <2>2, <2>4, <2>10, <2>11 DEF CanMerge, HasMetadata, Buddy
  <2> QED BY <1>2, <1>11, <2>12
<1>12. SUFFICES ASSUME NEW b \in free_list', b[2] >= PAGE, b[2] < LEVELS - 1,
                       <<Buddy(b[1], b[2]), b[2]>> \in free_list'
                PROVE  FALSE
  BY DEF NoFreeBuddies
<1>13. FreeOK(free_list')
  BY <1>8 DEF SharedOut
<1>14. PICK k \in Nat, a \in Int : k = b[2] /\ a = b[1] /\ b = <<a, k>> /\ Aligned(a, k)
  BY <1>1, <1>13 DEF FreeOK
<1>15. <<Buddy(a, k), k>> \in Kept \/ <<Buddy(a, k), k>> = <<base, m>>
  BY <1>6, <1>12, <1>14
<1>16. CASE b \in Kept
  <2>1. <<Buddy(a, k), k>> \notin free_list
    BY <1>12, <1>14, <1>16 DEF NoFreeBuddies
  <2>2. Buddy(a, k) = base /\ k = m
    BY <1>15, <2>1
  <2>3. Buddy(base, m) = a
    BY <1>14, <2>2, BuddyOfBuddy
  <2> QED BY <1>9, <1>11, <1>12, <1>14, <1>16, <2>2, <2>3
<1>17. CASE b = <<base, m>>
  <2>1. a = base /\ k = m
    BY <1>14, <1>17
  <2>2. Buddy(a, k) # base
    BY <1>9, <1>10, <2>1
  <2>3. <<n, m>> \in free_list
    BY <1>9, <1>15, <2>1, <2>2
  <2> QED BY <1>11, <1>12, <1>14, <2>1, <2>3
<1> QED BY <1>6, <1>16, <1>17

(* The upper halves of a split have their buddies in use. *)
LEMMA SplitsHaveNoBuddies ==
  ASSUME NEW H, NEW A, SharedOut(free_list, H, A), TrueMetadata(free_list, H, metadata, A),
         NEW b \in free_list, NEW l \in Levels, l <= b[2], allocate_from_level(b, l),
         NEW size \in Sizes,
         NEW h, h = [addr |-> b[1], span |-> BlockSize(l), size |-> size],
         NoFreeBuddies(free_list), SmallHaveHolders(free_list, H)
  PROVE  NoFreeBuddies(free_list') /\ SmallHaveHolders(free_list', H \cup {h})
<1>1. PICK a \in Int, j \in Levels : a = b[1] /\ j = b[2] /\ Aligned(a, j) /\ l <= j
  BY DEF SharedOut, FreeOK
<1>2. l \in Nat /\ j \in Nat /\ PAGE \in Nat /\ Levels \subseteq Nat /\ BlockSize(l) \in Nat \ {0}
  BY LevelTypes, BlockSizes
<1>3. h.addr = a /\ h.span = BlockSize(l)
  BY <1>1
<1> DEFINE Upper == {<<a + BlockSize(k), k>> : k \in l .. j - 1}
<1>4. free_list' = (free_list \ {b}) \cup Upper
  BY <1>1 DEF allocate_from_level
<1>5. SharedOut(free_list', H \cup {h}, A)
  BY AllocateFromLevel
<1>6. ASSUME NEW u \in Upper
      PROVE  \E k \in l .. j - 1 : u[1] = a + BlockSize(k) /\ u[2] = k
  <2>1. PICK k \in l .. j - 1 : u = <<a + BlockSize(k), k>>
    OBVIOUS
  <2>2. u[1] = a + BlockSize(k) /\ u[2] = k
    BY <2>1
  <2> QED BY <2>2
<1> HIDE DEF Upper
<1>7. ASSUME NEW k \in l .. j - 1
      PROVE  /\ k \in Nat /\ Buddy(a, k) = a + BlockSize(k) /\ Buddy(a + BlockSize(k), k) = a
             /\ Aligned(a, k + 1) /\ BlockSize(k) \in Nat \ {0} /\ BlockSize(k + 1) = 2 * BlockSize(k)
             /\ BlockSize(l) <= BlockSize(k)
  <2>1. k \in Nat /\ k + 1 \in Nat /\ k <= j /\ k + 1 <= j /\ l <= k
    BY <1>2
  <2>2. Aligned(a, k) /\ Aligned(a, k + 1)
    BY <1>1, <1>2, <2>1, Coarser
  <2>3. Buddy(a, k) = a + BlockSize(k) /\ Buddy(Buddy(a, k), k) = a
    BY <2>1, <2>2, BuddyOfBuddy
  <2> QED BY <1>2, <2>1, <2>2, <2>3, BlockSizes
<1>8. ASSUME NEW c \in free_list', c[1] = a PROVE FALSE
  <2>1. Apart(c[1], BlockSize(c[2]), h.addr, h.span)
    BY <1>5 DEF SharedOut, FreeHeldApart
  <2>2. BlockSize(c[2]) \in Nat \ {0}
    BY <1>2, <1>5, BlockSizes DEF SharedOut, FreeOK
  <2> QED BY <1>2, <1>3, <1>8, <2>1, <2>2 DEF Apart
<1>9. NoFreeBuddies(free_list')
  <2> SUFFICES ASSUME NEW c \in free_list', c[2] >= PAGE, c[2] < LEVELS - 1,
                      <<Buddy(c[1], c[2]), c[2]>> \in free_list'
               PROVE  FALSE
    BY DEF NoFreeBuddies
  <2>1. c[1] \in Int /\ c[2] \in Nat /\ Aligned(c[1], c[2])
    BY <1>2, <1>5 DEF SharedOut, FreeOK
  <2>2. PICK d \in free_list' : d = <<Buddy(c[1], c[2]), c[2]>> /\ d[1] = Buddy(c[1], c[2]) /\ d[2] = c[2]
    <3>1. /\ <<Buddy(c[1], c[2]), c[2]>>[1] = Buddy(c[1], c[2])
          /\ <<Buddy(c[1], c[2]), c[2]>>[2] = c[2]
      OBVIOUS
    <3> QED BY <3>1
  <2>3. CASE c \in Upper
    <3>1. PICK k \in l .. j - 1 : c[1] = a + BlockSize(k) /\ c[2] = k
      BY <1>6, <2>3
    <3>2. d[1] = a
      BY <1>7, <2>2, <3>1
    <3> QED BY <1>8, <3>2
  <2>4. CASE d \in Upper
    <3>1. PICK k \in l .. j - 1 : d[1] = a + BlockSize(k) /\ d[2] = k
      BY <1>6, <2>4
    <3>2. Buddy(d[1], d[2]) = c[1]
      BY <2>1, <2>2, BuddyOfBuddy
    <3>3. c[1] = a
      BY <1>7, <3>1, <3>2
    <3> QED BY <1>8, <3>3
  <2>5. CASE c \in free_list /\ d \in free_list
    BY <2>2, <2>5 DEF NoFreeBuddies
  <2> QED BY <1>4, <2>3, <2>4, <2>5
<1>10. SmallHaveHolders(free_list', H \cup {h})
  <2> SUFFICES ASSUME NEW c \in free_list', c[2] < PAGE
               PROVE  \E g \in H \cup {h} : PageOf(g.addr) = PageOf(c[1]) /\ g.span < PAGE_SIZE
    BY DEF SmallHaveHolders
  <2>1. CASE c \in free_list
    BY <2>1 DEF SmallHaveHolders
  <2>2. CASE c \in Upper
    <3>1. PICK k \in l .. j - 1 : c[1] = a + BlockSize(k) /\ c[2] = k
      BY <1>6, <2>2
    <3>2. k + 1 \in Nat /\ k + 1 <= PAGE /\ k < PAGE
      BY <1>2, <1>7, <3>1
    <3>3. PICK s \in Nat \ {0} : s = BlockSize(k) /\ BlockSize(k + 1) = 2 * s
      BY <1>7
    <3>4. Inside(a + s, a, 2 * s) /\ a + s \in Int
      BY <3>3 DEF Inside
    <3>5. PageOf(a + s) = PageOf(a)
      BY <1>7, <3>2, <3>3, <3>4, SubPage
    <3>6. 2 * s <= PAGE_SIZE /\ PAGE_SIZE \in Nat
      BY <1>2, <1>7, <3>2, <3>3, BlockSizes, PageFacts
    <3>7. h.span < PAGE_SIZE
      BY <1>2, <1>3, <1>7, <3>3, <3>6
    <3> QED BY <1>3, <3>1, <3>3, <3>5, <3>7
  <2> QED BY <1>4, <2>1, <2>2
<1> QED BY <1>9, <1>10

LEMMA MergingKeepsHolders ==
  ASSUME NEW H, NEW G, NEW a, NEW l, SmallHaveHolders(free_list, H), free_at_level(a, l),
         l \in Levels, PAGE <= l,
         \A h \in H : h.span < PAGE_SIZE => h \in G
  PROVE  SmallHaveHolders(free_list', G)
<1>1. PAGE \in Nat /\ l \in Nat /\ MergedLevel(a, l) \in Nat /\ l <= MergedLevel(a, l)
  BY LevelTypes, MergedLevelFacts
<1>2. PICK x, m : /\ m \in Nat /\ PAGE <= m
                  /\ \A b \in free_list' : b \in free_list \/ b = <<x, m>>
  <2>1. \A b \in free_list' : b \in free_list \/ b = <<BlockAt(a, MergedLevel(a, l)), MergedLevel(a, l)>>
    BY DEF free_at_level
  <2>2. PAGE <= MergedLevel(a, l)
    BY <1>1
  <2> QED BY <1>1, <2>1, <2>2
<1> SUFFICES ASSUME NEW b \in free_list', b[2] < PAGE
             PROVE  \E h \in G : PageOf(h.addr) = PageOf(b[1]) /\ h.span < PAGE_SIZE
  BY DEF SmallHaveHolders
<1>3. b \in free_list
  <2>1. b = <<x, m>> => b[2] = m
    OBVIOUS
  <2> QED BY <1>1, <1>2, <2>1
<1> QED BY <1>3 DEF SmallHaveHolders

LEMMA MergedNext ==
  ASSUME PagesReturned, BuddyInv, MergedInv, [Next]_vars PROVE MergedInv'
<1>1. CASE add_memory_skip
  BY <1>1 DEF add_memory_skip, MergedInv
<1>2. CASE add_memory_to_region
  <2>1. PICK a, l : /\ Hole(free_list, held, metadata, AddedUpTo(added[1], added[2]), a, l)
                    /\ free_at_level(a, l)
    BY <1>2, BuddyAdd
  <2>2. NoFreeBuddies(free_list')
    BY <2>1, MergesAll DEF MergedInv
  <2>3. l \in Levels /\ PAGE <= l
    BY <2>1 DEF Hole
  <2>4. SmallHaveHolders(free_list', held)
    BY <2>1, <2>3, MergingKeepsHolders DEF MergedInv
  <2>5. held' = held
    BY <1>2 DEF add_memory_to_region
  <2> QED BY <2>2, <2>4, <2>5 DEF MergedInv
<1>3. ASSUME NEW size \in Sizes, phys_alloc(size) PROVE MergedInv'
  <2>1. PICK b \in free_list, l \in Levels :
          /\ l <= b[2] /\ allocate_from_level(b, l)
          /\ held' = held \cup {[addr |-> b[1], span |-> BlockSize(l), size |-> size]}
    BY <1>3, BuddyAlloc
  <2>2. PICK h : h = [addr |-> b[1], span |-> BlockSize(l), size |-> size]
    OBVIOUS
  <2>3. PICK A : SharedOut(free_list, held, A) /\ TrueMetadata(free_list, held, metadata, A)
    BY DEF BuddyInv
  <2>4. NoFreeBuddies(free_list') /\ SmallHaveHolders(free_list', held \cup {h})
    BY <2>1, <2>2, <2>3, SplitsHaveNoBuddies DEF MergedInv
  <2> QED BY <2>1, <2>2, <2>4 DEF MergedInv
<1>4. ASSUME NEW h \in held, Returned(h), phys_free(h) PROVE MergedInv'
  <2>1. PICK l \in FreeLevels :
          /\ h.span = BlockSize(l) /\ free_at_level(h.addr, l)
          /\ Hole(free_list, held', metadata,
                  AddedUpTo(added[1], added[2]) \ Bytes(h.addr, l), h.addr, l)
    BY <1>4, BuddyFree
  <2>2. NoFreeBuddies(free_list')
    BY <2>1, MergesAll DEF MergedInv
  <2>3. l \in Levels /\ PAGE <= l /\ l \in Nat /\ PAGE \in Nat
    BY <2>1, LevelTypes DEF Hole
  <2>4. ~(h.span < PAGE_SIZE)
    <3>1. BlockSize(PAGE) <= BlockSize(l) /\ BlockSize(l) \in Nat /\ BlockSize(PAGE) \in Nat
      BY <2>3, BlockSizes
    <3> QED BY <2>1, <3>1 DEF PAGE_SIZE
  <2>5. held' = held \ {h}
    BY <1>4 DEF phys_free
  <2>6. SmallHaveHolders(free_list', held')
    BY <2>1, <2>3, <2>4, <2>5, MergingKeepsHolders DEF MergedInv
  <2> QED BY <2>2, <2>6 DEF MergedInv
<1>5. CASE UNCHANGED vars
  BY <1>5 DEF MergedInv, vars
<1> QED BY <1>1, <1>2, <1>3, <1>4, <1>5 DEF Next

LEMMA MergedInvHolds == PagesReturned /\ Spec => [](BuddyInv /\ MergedInv)
<1> SUFFICES ASSUME PagesReturned PROVE Spec => [](BuddyInv /\ MergedInv)
  OBVIOUS
<1>1. Init => MergedInv
  BY DEF Init, MergedInv, NoFreeBuddies, SmallHaveHolders
<1>2. BuddyInv /\ MergedInv /\ [Next]_vars => MergedInv'
  BY MergedNext
<1>3. Spec => []BuddyInv
  BY BuddyInvHolds
<1> QED BY <1>1, <1>2, <1>3, PTL DEF Spec

(* An aligned run of a block's size that is free as a whole is part of one free block. *)
LEMMA FreeRunIsOneBlock ==
  ASSUME BuddyInv, MergedInv, NEW l \in Nat, PAGE <= l, l < LEVELS,
         NEW a \in Int, Aligned(a, l),
         \A x \in Int : Inside(x, a, BlockSize(l)) => InFree(free_list, x)
  PROVE  \E b \in free_list : b[2] >= l
<1>1. PAGE \in Nat /\ LEVELS \in Nat /\ Levels \subseteq Nat
  BY LevelTypes
<1>2. ASSUME NEW b \in free_list
      PROVE  b = <<b[1], b[2]>> /\ b[1] \in Int /\ b[2] \in Nat /\ Aligned(b[1], b[2])
  BY <1>1 DEF BuddyInv, SharedOut, FreeOK
<1> DEFINE Run(y, k) == \A x \in Int : Inside(x, y, BlockSize(k)) => InFree(free_list, x)
           One(y, k) == \E b \in free_list : /\ b[2] >= k
                                             /\ Inside(y, b[1], BlockSize(b[2]))
           S == {d \in Nat : PAGE + d < LEVELS =>
                   \A y \in Int : Aligned(y, PAGE + d) /\ Run(y, PAGE + d) => One(y, PAGE + d)}
<1>3. 0 \in S
  <2>1. PAGE + 0 = PAGE
    BY <1>1
  <2> SUFFICES ASSUME NEW y \in Int, Aligned(y, PAGE), Run(y, PAGE) PROVE One(y, PAGE)
    BY <2>1
  <2>2. PICK s \in Nat \ {0} : s = BlockSize(PAGE) /\ s = PAGE_SIZE
    BY PageFacts
  <2>3. Inside(y, y, BlockSize(PAGE))
    BY <2>2 DEF Inside
  <2>4. PICK b \in free_list : Inside(y, b[1], BlockSize(b[2]))
    BY <2>3 DEF InFree
  <2>5. CASE b[2] < PAGE
    <3>1. b[1] \in Int /\ b[2] \in Nat /\ Aligned(b[1], b[2]) /\ b[2] <= PAGE
      BY <1>1, <1>2, <2>5
    <3>2. PageOf(y) = PageOf(b[1])
      BY <2>4, <3>1, SubPage
    <3>3. PICK h \in held : PageOf(h.addr) = PageOf(b[1])
      BY <2>5 DEF MergedInv, SmallHaveHolders
    <3>4. h.addr \in Int /\ h.span \in Nat \ {0}
      BY <1>1, BlockSizes DEF BuddyInv, SharedOut, HeldOK
    <3>5. Inside(h.addr, y, BlockSize(PAGE))
      <4>1. PAGE <= PAGE
        BY <1>1
      <4> QED BY <1>1, <3>2, <3>3, <3>4, <4>1, SamePage
    <3>6. PICK c \in free_list : Inside(h.addr, c[1], BlockSize(c[2]))
      BY <3>4, <3>5 DEF InFree
    <3>7. Apart(c[1], BlockSize(c[2]), h.addr, h.span)
      BY DEF BuddyInv, SharedOut, FreeHeldApart
    <3>8. c[1] \in Int /\ BlockSize(c[2]) \in Nat \ {0}
      BY <1>2, BlockSizes
    <3>9. Inside(h.addr, h.addr, h.span)
      BY <3>4 DEF Inside
    <3> QED BY <3>4, <3>6, <3>7, <3>8, <3>9, Overlap
  <2> QED BY <1>1, <1>2, <2>4, <2>5
<1>4. ASSUME NEW d \in Nat, d \in S PROVE d + 1 \in S
  <2>1. PICK k \in Nat : k = PAGE + d /\ k + 1 = PAGE + (d + 1) /\ PAGE <= k
    BY <1>1
  <2> SUFFICES ASSUME k + 1 < LEVELS, NEW y \in Int, Aligned(y, k + 1), Run(y, k + 1)
               PROVE  One(y, k + 1)
    BY <2>1
  <2>2. PICK s \in Nat \ {0} : s = BlockSize(k) /\ BlockSize(k + 1) = 2 * s
    BY BlockSizes
  <2>3. Aligned(y, k) /\ k + 1 \in Nat
    BY Coarser
  <2>4. PICK z \in Int : z = y + s /\ z = Buddy(y, k) /\ Aligned(z, k)
    <3>1. Buddy(y, k) = y + s /\ Aligned(Buddy(y, k), k)
      BY <2>2, <2>3, BuddyOfBuddy
    <3> QED BY <3>1
  <2>5. Run(y, k) /\ Run(z, k)
    <3>1. \A x \in Int : Inside(x, y, s) \/ Inside(x, z, s) => Inside(x, y, 2 * s)
      BY <2>2, <2>4 DEF Inside
    <3> QED BY <2>2, <3>1
  <2>6. k < LEVELS
    BY <1>1
  <2>7. \A w \in Int : Aligned(w, k) /\ Run(w, k) => One(w, k)
    BY <1>4, <2>1, <2>6
  <2>8. One(y, k) /\ One(z, k)
    <3> HIDE DEF Run, One
    <3> QED BY <2>3, <2>4, <2>5, <2>7
  <2>9. PICK b \in free_list : b[2] >= k /\ Inside(y, b[1], BlockSize(b[2]))
    BY <2>8
  <2>10. PICK c \in free_list : c[2] >= k /\ Inside(z, c[1], BlockSize(c[2]))
    BY <2>8
  <2>11. CASE b[2] >= k + 1
    BY <2>9, <2>11
  <2>12. CASE c[2] >= k + 1
    <3>1. c[1] \in Int /\ c[2] \in Nat /\ Aligned(c[1], c[2]) /\ k + 1 <= c[2]
      BY <1>2, <2>12
    <3>2. PICK t \in Nat : t = BlockSize(c[2])
      BY <3>1, BlockSizes
    <3>3. \/ c[1] <= y /\ y + BlockSize(k + 1) <= c[1] + BlockSize(c[2])
          \/ y + BlockSize(k + 1) <= c[1]
          \/ c[1] + BlockSize(c[2]) <= y
      BY <2>3, <3>1, Nest
    <3>4. Inside(y, c[1], BlockSize(c[2]))
      BY <2>2, <2>4, <2>10, <3>1, <3>2, <3>3 DEF Inside
    <3> QED BY <2>12, <3>4
  <2>13. CASE b[2] = k /\ c[2] = k
    <3>1. b[1] = y
      <4>1. b[1] = BlockAt(y, k)
        BY <1>2, <2>9, <2>13, BlockAtUnique
      <4> QED BY <2>3, <4>1, BuddyOfBuddy
    <3>2. c[1] = z
      <4>1. c[1] = BlockAt(z, k)
        BY <1>2, <2>10, <2>13, BlockAtUnique
      <4> QED BY <2>4, <4>1, BuddyOfBuddy
    <3>3. c = <<z, k>>
      BY <1>2, <2>13, <3>2
    <3>4. b[2] >= PAGE /\ b[2] < LEVELS - 1
      BY <1>1, <2>1, <2>13
    <3>5. <<Buddy(b[1], b[2]), b[2]>> = c
      BY <2>4, <2>13, <3>1, <3>3
    <3> QED BY <3>4, <3>5 DEF MergedInv, NoFreeBuddies
  <2> QED BY <1>2, <2>9, <2>10, <2>11, <2>12, <2>13
<1>5. \A d \in Nat : d \in S
  <2> HIDE DEF S
  <2> QED BY <1>3, <1>4, NumbersBelow
<1>6. l - PAGE \in Nat /\ PAGE + (l - PAGE) = l
  BY <1>1
<1>7. \A y \in Int : Aligned(y, l) /\ Run(y, l) => One(y, l)
  BY <1>5, <1>6
<1> QED BY <1>7

(* phys_alloc fails only when no aligned run of the size is free: what has been  *)
(* freed has been merged, in every memory map and after any sequence of calls    *)
(* that return pages or more.                                                    *)
THEOREM NoFailureWhileMemoryIsFree == PagesReturned /\ Spec => []NoSpuriousFailure
<1> SUFFICES ASSUME PagesReturned PROVE Spec => []NoSpuriousFailure
  OBVIOUS
<1>1. BuddyInv /\ MergedInv => NoSpuriousFailure
  <2> SUFFICES ASSUME BuddyInv, MergedInv, NEW l \in PAGE .. LEVELS - 1,
                      \A b \in free_list : b[2] < l,
                      NEW a \in Addresses, a % BlockSize(l) = 0,
                      Bytes(a, l) \subseteq UNION {Bytes(b[1], b[2]) : b \in free_list}
               PROVE  FALSE
    BY DEF NoSpuriousFailure
  <2>1. PAGE \in Nat /\ l \in Nat /\ PAGE <= l /\ l < LEVELS
    BY LevelTypes
  <2>2. a \in Int
    <3>1. PICK p \in Pages, o \in 0 .. PAGE_SIZE - 1 : a = p * PAGE_SIZE + o
      BY DEF Addresses
    <3>2. p \in Nat /\ PAGE_SIZE \in Nat
      BY PagesFinite, PageFacts
    <3>3. PICK m \in Nat : m = p * PAGE_SIZE
      BY <3>2
    <3> QED BY <3>1, <3>2, <3>3
  <2>3. Aligned(a, l)
    <3>1. BlockSize(l) \in Nat \ {0}
      BY <2>1, BlockSizes
    <3> QED BY <2>2, <3>1, MultipleMod DEF Aligned
  <2>4. ASSUME NEW x \in Int, Inside(x, a, BlockSize(l)) PROVE InFree(free_list, x)
    <3>1. x \in Bytes(a, l)
      BY <2>1, <2>2, <2>4, BytesInside
    <3>2. PICK b \in free_list : x \in Bytes(b[1], b[2])
      BY <3>1
    <3>3. b[1] \in Int /\ b[2] \in Nat
      BY LevelTypes DEF BuddyInv, SharedOut, FreeOK
    <3>4. Inside(x, b[1], BlockSize(b[2]))
      BY <3>2, <3>3, BytesInside
    <3> QED BY <3>4 DEF InFree
  <2>5. PICK b \in free_list : b[2] >= l
    BY <2>1, <2>2, <2>3, <2>4, FreeRunIsOneBlock
  <2>6. b[2] \in Nat
    BY LevelTypes DEF BuddyInv, SharedOut, FreeOK
  <2> QED BY <2>1, <2>5, <2>6
<1>2. Spec => [](BuddyInv /\ MergedInv)
  BY MergedInvHolds
<1> QED BY <1>1, <1>2, PTL
=============================================================================
