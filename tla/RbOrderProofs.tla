--------------------------- MODULE RbOrderProofs ---------------------------
(***************************************************************************)
(* Proofs about the order of the nodes in RbTree, from the invariant of    *)
(* RbTreeProofs: the tree is a red-black tree as the runs state it, it     *)
(* implements the queue timer.c relies on, and its walks visit the nodes   *)
(* in that queue's order.                                                  *)
(*                                                                         *)
(* The argument is about lists.  A tree has exactly one family of lists w  *)
(* (Lists) with w[n] = the list on the left of n, n, the list on its       *)
(* right; Order is the list of the root.  Because there is only one, the   *)
(* order after a change is found by writing the new family down: rotations *)
(* keep the order, a new leaf goes next to its parent, a cut leaves one    *)
(* node out.  While a node goes down (OnWay), the list is A, the subtree   *)
(* ahead, Z, where no key in A is greater and every key in Z is.  OrdInv   *)
(* adds to RbInv that the keys never fall along Order and that leftmost is *)
(* its first node.  The walks follow from where the subtree of a node      *)
(* stands in the list of the whole tree.                                   *)
(***************************************************************************)
EXTENDS RbTreeProofs, SequenceTheorems

(* Induction along a rank. *)
LEMMA ByRank ==
  ASSUME NEW S, NEW r, r \in [S -> Nat], NEW T,
         \A hi \in S : (\A lo \in S : r[lo] < r[hi] => lo \in T) => hi \in T
  PROVE  \A hi \in S : hi \in T
<1> DEFINE N == {k \in Nat : \A n \in S : r[n] = k => n \in T}
<1>1. ASSUME NEW k \in Nat, \A l \in Nat : l < k => l \in N PROVE k \in N
  <2> SUFFICES ASSUME NEW n \in S, r[n] = k PROVE n \in T
    OBVIOUS
  <2>1. \A m \in S : r[m] < r[n] => m \in T
    BY <1>1
  <2> QED BY <2>1
<1> HIDE DEF N
<1>2. \A k \in Nat : k \in N
  BY <1>1, NumbersFromBelow
<1> QED BY <1>2 DEF N

(* The ranks of nodes and NULL, downwards and upwards. *)
LEMMA Ranks ==
  ASSUME NEW t, Shape(t)
  PROVE  /\ \E r \in [Pointer -> Nat] : \A n \in Nodes, d \in Sides : r[t.child[n][d]] < r[n]
         /\ \E r \in [Nodes -> Nat] : \A n \in Nodes : t.up[n] # NULL => r[t.up[n]] < r[n]
<1>1. PICK r, B : Ranked(t, r, B)
  BY DEF Shape
<1>2. /\ B \in Nat /\ \A m \in Nodes : r[m] \in Nat /\ r[m] <= B
      /\ \A n \in Nodes, d \in Sides : t.child[n][d] # NULL => r[t.child[n][d]] < r[n]
  BY <1>1 DEF Ranked
<1>3. /\ \A n \in Nodes, d \in Sides : t.child[n][d] \in Pointer
      /\ \A n \in Nodes : t.up[n] \in Pointer
  BY DEF Shape, TreeOK
<1> DEFINE f == [n \in Pointer |-> IF n = NULL THEN 0 ELSE r[n] + 1]
           g == [n \in Nodes |-> B - r[n]]
<1>4. f \in [Pointer -> Nat]
  BY <1>2 DEF Pointer
<1>5. \A n \in Nodes, d \in Sides : f[t.child[n][d]] < f[n]
  BY <1>2, <1>3, NullIsNoNode DEF Pointer
<1>6. g \in [Nodes -> Nat]
  BY <1>2
<1>7. \A n \in Nodes : t.up[n] # NULL => g[t.up[n]] < g[n]
  <2>1. \A n \in Nodes : t.up[n] # NULL => r[n] < r[t.up[n]]
    BY <1>1, RankedApart DEF Shape
  <2> QED BY <1>2, <1>3, <2>1 DEF Pointer
<1> QED BY <1>4, <1>5, <1>6, <1>7

----------------------------------------------------------------------------
(* Sequences without repetition *)
Distinct(q) == \A i, j \in DOMAIN q : i # j => q[i] # q[j]

(* A concatenation repeats nothing iff its parts do not, and share nothing. *)
LEMMA DistinctConcat ==
  ASSUME NEW S, NEW a \in Seq(S), NEW b \in Seq(S)
  PROVE  Distinct(a \o b) <=> Distinct(a) /\ Distinct(b) /\ Range(a) \cap Range(b) = {}
<1> DEFINE c == a \o b
<1>1. /\ Len(a) \in Nat /\ Len(b) \in Nat /\ c \in Seq(S)
      /\ DOMAIN a = 1 .. Len(a) /\ DOMAIN b = 1 .. Len(b) /\ DOMAIN c = 1 .. Len(a) + Len(b)
      /\ \A i \in 1 .. Len(a) + Len(b) : c[i] = IF i <= Len(a) THEN a[i] ELSE b[i - Len(a)]
  BY ConcatProperties, LenProperties
<1> HIDE DEF c
<1>4. ASSUME NEW i \in 1 .. Len(b) PROVE c[i + Len(a)] = b[i] /\ i + Len(a) \in DOMAIN c
  <2>1. i + Len(a) \in 1 .. Len(a) + Len(b) /\ ~(i + Len(a) <= Len(a)) /\ (i + Len(a)) - Len(a) = i
    BY <1>1
  <2> QED BY <1>1, <2>1
<1>2. ASSUME Distinct(c) PROVE Distinct(a) /\ Distinct(b) /\ Range(a) \cap Range(b) = {}
  <2>1. Distinct(a)
    <3> SUFFICES ASSUME NEW i \in 1 .. Len(a), NEW j \in 1 .. Len(a), i # j PROVE a[i] # a[j]
      BY <1>1 DEF Distinct
    <3>1. c[i] = a[i] /\ c[j] = a[j] /\ i \in DOMAIN c /\ j \in DOMAIN c
      BY <1>1
    <3> QED BY <1>2, <3>1 DEF Distinct
  <2>2. Distinct(b)
    <3> SUFFICES ASSUME NEW i \in 1 .. Len(b), NEW j \in 1 .. Len(b), i # j PROVE b[i] # b[j]
      BY <1>1 DEF Distinct
    <3>1. c[i + Len(a)] = b[i] /\ c[j + Len(a)] = b[j] /\ i + Len(a) \in DOMAIN c /\ j + Len(a) \in DOMAIN c
      BY <1>4
    <3>2. i + Len(a) # j + Len(a)
      BY <1>1
    <3> QED BY <1>2, <3>1, <3>2 DEF Distinct
  <2>3. ASSUME NEW x \in Range(a), x \in Range(b) PROVE FALSE
    <3>1. PICK i \in 1 .. Len(a) : x = a[i]
      BY <1>1 DEF Range
    <3>2. PICK j \in 1 .. Len(b) : x = b[j]
      BY <1>1, <2>3 DEF Range
    <3>3. c[i] = x /\ i \in DOMAIN c
      BY <1>1, <3>1
    <3>4. c[j + Len(a)] = x /\ j + Len(a) \in DOMAIN c
      BY <1>4, <3>2
    <3>5. i # j + Len(a)
      BY <1>1
    <3> QED BY <1>2, <3>3, <3>4, <3>5 DEF Distinct
  <2> QED BY <2>1, <2>2, <2>3
<1>3. ASSUME Distinct(a), Distinct(b), Range(a) \cap Range(b) = {} PROVE Distinct(c)
  <2> SUFFICES ASSUME NEW i \in 1 .. Len(a) + Len(b), NEW j \in 1 .. Len(a) + Len(b), i < j
               PROVE  c[i] # c[j]
    <3>1. \A i, j \in 1 .. Len(a) + Len(b) : i # j => i < j \/ j < i
      BY <1>1
    <3> QED BY <1>1, <3>1 DEF Distinct
  <2>1. CASE j <= Len(a)
    <3>1. c[i] = a[i] /\ c[j] = a[j] /\ i \in DOMAIN a /\ j \in DOMAIN a /\ i # j
      BY <1>1, <2>1
    <3> QED BY <1>3, <3>1 DEF Distinct
  <2>2. CASE i <= Len(a) /\ ~(j <= Len(a))
    <3>1. c[i] = a[i] /\ c[j] = b[j - Len(a)] /\ i \in DOMAIN a /\ j - Len(a) \in DOMAIN b
      BY <1>1, <2>2
    <3> QED BY <1>3, <3>1 DEF Range
  <2>3. CASE ~(i <= Len(a))
    <3>1. c[i] = b[i - Len(a)] /\ c[j] = b[j - Len(a)] /\ i - Len(a) \in DOMAIN b /\ j - Len(a) \in DOMAIN b
          /\ i - Len(a) # j - Len(a)
      BY <1>1, <2>3
    <3> QED BY <1>3, <3>1 DEF Distinct
  <2> QED BY <2>1, <2>2, <2>3
<1> QED BY <1>2, <1>3 DEF c

(* The elements and the length of a concatenation. *)
LEMMA ConcatIs ==
  ASSUME NEW S, NEW a \in Seq(S), NEW b \in Seq(S)
  PROVE  /\ a \o b \in Seq(S) /\ Len(a \o b) = Len(a) + Len(b) /\ Len(a) \in Nat /\ Len(b) \in Nat
         /\ Range(a \o b) = Range(a) \cup Range(b)
<1>1. a \o b \in Seq(S) /\ Len(a \o b) = Len(a) + Len(b) /\ Len(a) \in Nat /\ Len(b) \in Nat
  BY ConcatProperties, LenProperties
<1>2. Range(a \o b) = Range(a) \cup Range(b)
  BY RangeConcatenation
<1> QED BY <1>1, <1>2

(* A list of one element. *)
LEMMA Singleton ==
  ASSUME NEW S, NEW x \in S
  PROVE  <<x>> \in Seq(S) /\ Range(<<x>>) = {x} /\ Distinct(<<x>>) /\ Len(<<x>>) = 1 /\ <<x>>[1] = x
BY DEF Range, Distinct

(* The empty list. *)
LEMMA Nothing ==
  ASSUME NEW S
  PROVE  <<>> \in Seq(S) /\ Range(<<>>) = {} /\ Distinct(<<>>) /\ Len(<<>>) = 0
BY DEF Range, Distinct

(* The element x of a sequence without repetition has one place in it. *)
LEMMA OnePlace ==
  ASSUME NEW S, NEW a \in Seq(S), NEW b \in Seq(S), NEW c \in Seq(S), NEW e \in Seq(S), NEW x \in S,
         a \o (<<x>> \o b) = c \o (<<x>> \o e), Distinct(a \o (<<x>> \o b))
  PROVE  a = c /\ b = e
<1> DEFINE q == a \o (<<x>> \o b)
<1>1. Len(a) \in Nat /\ Len(b) \in Nat /\ Len(c) \in Nat /\ Len(e) \in Nat
  BY LenProperties
<1>2. /\ q \in Seq(S) /\ Len(q) = Len(a) + 1 + Len(b) /\ Len(q) = Len(c) + 1 + Len(e)
      /\ \A i \in 1 .. Len(a) : q[i] = a[i]
      /\ \A i \in 1 .. Len(c) : q[i] = c[i]
      /\ \A i \in 1 .. Len(b) : q[Len(a) + 1 + i] = b[i]
      /\ \A i \in 1 .. Len(e) : q[Len(c) + 1 + i] = e[i]
      /\ q[Len(a) + 1] = x /\ q[Len(c) + 1] = x
  <2>1. <<x>> \in Seq(S) /\ Len(<<x>>) = 1 /\ <<x>>[1] = x
    BY Singleton
  <2>2. ASSUME NEW f \in Seq(S), NEW g \in Seq(S)
        PROVE  LET h == f \o (<<x>> \o g)
               IN /\ h \in Seq(S) /\ Len(h) = Len(f) + 1 + Len(g) /\ h[Len(f) + 1] = x
                  /\ \A i \in 1 .. Len(f) : h[i] = f[i]
                  /\ \A i \in 1 .. Len(g) : h[Len(f) + 1 + i] = g[i]
    <3> DEFINE k == <<x>> \o g
               h == f \o k
    <3>0. Len(f) \in Nat /\ Len(g) \in Nat
      BY LenProperties
    <3>1. k \in Seq(S) /\ Len(k) = 1 + Len(g) /\ \A i \in 1 .. 1 + Len(g) : k[i] = IF i <= 1 THEN <<x>>[i] ELSE g[i - 1]
      BY <2>1, ConcatProperties
    <3> HIDE DEF k
    <3>2. h \in Seq(S) /\ Len(h) = Len(f) + Len(k) /\ \A i \in 1 .. Len(f) + Len(k) : h[i] = IF i <= Len(f) THEN f[i] ELSE k[i - Len(f)]
      BY <3>1, ConcatProperties
    <3> HIDE DEF h
    <3>3. h[Len(f) + 1] = x
      <4>1. Len(f) + 1 \in 1 .. Len(f) + Len(k) /\ ~(Len(f) + 1 <= Len(f)) /\ Len(f) + 1 - Len(f) = 1
        BY <3>0, <3>1
      <4>2. h[Len(f) + 1] = k[1]
        BY <3>2, <4>1
      <4>3. k[1] = <<x>>[1]
        BY <3>0, <3>1
      <4> QED BY <2>1, <4>2, <4>3
    <3>4. \A i \in 1 .. Len(f) : h[i] = f[i]
      BY <3>0, <3>1, <3>2
    <3>5. ASSUME NEW i \in 1 .. Len(g) PROVE h[Len(f) + 1 + i] = g[i]
      <4>1. h[Len(f) + 1 + i] = k[1 + i]
        BY <3>0, <3>1, <3>2, SMTT(60)
      <4>2. k[1 + i] = g[i]
        BY <3>0, <3>1
      <4> QED BY <4>1, <4>2
    <3>6. h \in Seq(S) /\ Len(h) = Len(f) + 1 + Len(g)
      BY <3>0, <3>1, <3>2
    <3> QED BY <3>3, <3>4, <3>5, <3>6 DEF h, k
  <2>3. q = c \o (<<x>> \o e)
    OBVIOUS
  <2>4. /\ q \in Seq(S) /\ Len(q) = Len(a) + 1 + Len(b) /\ q[Len(a) + 1] = x
        /\ \A i \in 1 .. Len(a) : q[i] = a[i]
        /\ \A i \in 1 .. Len(b) : q[Len(a) + 1 + i] = b[i]
    BY <2>2
  <2> DEFINE p == c \o (<<x>> \o e)
  <2>6. /\ p \in Seq(S) /\ Len(p) = Len(c) + 1 + Len(e) /\ p[Len(c) + 1] = x
        /\ \A i \in 1 .. Len(c) : p[i] = c[i]
        /\ \A i \in 1 .. Len(e) : p[Len(c) + 1 + i] = e[i]
    BY <2>2
  <2>7. p = q
    BY <2>3
  <2> HIDE DEF p, q
  <2>5. /\ q \in Seq(S) /\ Len(q) = Len(c) + 1 + Len(e) /\ q[Len(c) + 1] = x
        /\ \A i \in 1 .. Len(c) : q[i] = c[i]
        /\ \A i \in 1 .. Len(e) : q[Len(c) + 1 + i] = e[i]
    BY <2>6, <2>7
  <2> QED BY <2>4, <2>5
<1>3. Distinct(q)
  OBVIOUS
<1> HIDE DEF q
<1>4. Len(a) = Len(c)
  <2>1. DOMAIN q = 1 .. Len(q)
    BY <1>2, LenProperties
  <2>2. Len(a) + 1 \in DOMAIN q /\ Len(c) + 1 \in DOMAIN q
    BY <1>1, <1>2, <2>1
  <2>3. Len(a) + 1 = Len(c) + 1
    BY <1>2, <1>3, <2>2, ZenonT(60) DEF Distinct
  <2> QED BY <1>1, <2>3
<1>5. a = c
  BY <1>2, <1>4, SeqEqual
<1>6. Len(b) = Len(e)
  BY <1>1, <1>2, <1>4
<1>7. b = e
  BY <1>1, <1>2, <1>4, <1>6, SeqEqual
<1> QED BY <1>5, <1>7

----------------------------------------------------------------------------
(* InOrder for any tree, and the walk it is read from. *)
OrderFrom(t, m) ==
    LET walk[n \in Pointer] ==
          IF n = NULL THEN <<>>
          ELSE walk[t.child[n].left] \o <<n>> \o walk[t.child[n].right]
    IN  walk[m]

Listed(t, w) ==
    /\ w[NULL] = <<>>
    /\ \A n \in Nodes : w[n] = w[t.child[n]["left"]] \o <<n>> \o w[t.child[n]["right"]]

(* The recursive walk of InOrder is the lists of the subtrees, put together. *)
LEMMA WalkUnfolds ==
  ASSUME NEW t, Shape(t)
  PROVE  \E w : Listed(t, w) /\ \A m : OrderFrom(t, m) = w[m]
<1>1. PICK r \in [Pointer -> Nat] : \A n \in Nodes, d \in Sides : r[t.child[n][d]] < r[n]
  BY Ranks
<1>2. /\ \A n \in Nodes : /\ t.child[n].left = t.child[n]["left"] /\ t.child[n].right = t.child[n]["right"]
                          /\ t.child[n]["left"] \in Pointer /\ t.child[n]["right"] \in Pointer
      /\ "left" \in Sides /\ "right" \in Sides
  BY DEF Shape, TreeOK, Sides
<1> DEFINE R == {ss \in Pointer \X Pointer : r[ss[1]] < r[ss[2]]}
           Step(g, n) == IF n = NULL THEN <<>> ELSE g[t.child[n].left] \o <<n>> \o g[t.child[n].right]
           F == CHOOSE f : f = [n \in Pointer |-> Step(f, n)]
<1>3. IsWellFoundedOn(R, Pointer)
  BY RankWellFounded
<1>4. WFDefOn(R, Pointer, Step)
  <2> SUFFICES ASSUME NEW g, NEW h, NEW x \in Pointer, \A y \in SetLessThan(x, R, Pointer) : g[y] = h[y]
               PROVE  Step(g, x) = Step(h, x)
    BY DEF WFDefOn
  <2>1. x # NULL => x \in Nodes
    BY DEF Pointer
  <2>2. x # NULL => /\ t.child[x].left \in SetLessThan(x, R, Pointer)
                    /\ t.child[x].right \in SetLessThan(x, R, Pointer)
    BY <1>1, <1>2, <2>1 DEF SetLessThan
  <2> QED BY <2>2
<1>5. OpDefinesFcn(F, Pointer, Step)
  BY DEF OpDefinesFcn
<1>6. \A m : OrderFrom(t, m) = F[m]
  BY DEF OrderFrom
<1> HIDE DEF R, Step, F
<1>7. WFInductiveDefines(F, Pointer, Step)
  BY <1>3, <1>4, <1>5, WFInductiveDef
<1>8. \A n \in Pointer : F[n] = Step(F, n)
  BY <1>7 DEF WFInductiveDefines
<1>9. Listed(t, F)
  <2>1. F[NULL] = <<>>
    BY <1>8 DEF Step, Pointer
  <2>2. ASSUME NEW n \in Nodes PROVE F[n] = F[t.child[n]["left"]] \o <<n>> \o F[t.child[n]["right"]]
    <3>1. n # NULL /\ n \in Pointer
      BY NullIsNoNode DEF Pointer
    <3>2. F[n] = F[t.child[n].left] \o <<n>> \o F[t.child[n].right]
      BY <1>8, <3>1 DEF Step
    <3> QED BY <1>2, <3>2
  <2> QED BY <2>1, <2>2 DEF Listed
<1> QED BY <1>6, <1>9

(* What walks that visit each node and its subtrees have in common. *)
Visits(t, w) ==
    /\ w[NULL] = <<>> /\ \A n \in Pointer : w[n] \in Seq(Nodes)
    /\ \A n \in Nodes :
         LET l == w[t.child[n]["left"]]
             r == w[t.child[n]["right"]]
         IN  /\ Range(w[n]) = Range(l) \cup {n} \cup Range(r)
             /\ Len(w[n]) = Len(l) + 1 + Len(r)

(* Such lists visit the nodes of each subtree. *)
LEMMA ListedVisits ==
  ASSUME NEW t, Shape(t), NEW w, Listed(t, w)
  PROVE  Visits(t, w)
<1>1. PICK r \in [Pointer -> Nat] : \A n \in Nodes, d \in Sides : r[t.child[n][d]] < r[n]
  BY Ranks
<1>2. /\ \A n \in Nodes : t.child[n]["left"] \in Pointer /\ t.child[n]["right"] \in Pointer
      /\ "left" \in Sides /\ "right" \in Sides
  BY DEF Shape, TreeOK, Sides
<1> DEFINE T == {n \in Pointer : w[n] \in Seq(Nodes)}
<1>3. ASSUME NEW n \in Pointer, \A m \in Pointer : r[m] < r[n] => m \in T PROVE n \in T
  <2>1. CASE n = NULL
    BY <2>1, Nothing DEF Listed
  <2>2. CASE n # NULL
    <3>1. n \in Nodes
      BY <2>2 DEF Pointer
    <3>2. w[t.child[n]["left"]] \in Seq(Nodes) /\ w[t.child[n]["right"]] \in Seq(Nodes)
      BY <1>1, <1>2, <1>3, <3>1
    <3>3. <<n>> \in Seq(Nodes)
      BY <3>1, Singleton
    <3>4. w[n] = w[t.child[n]["left"]] \o <<n>> \o w[t.child[n]["right"]]
      BY <3>1 DEF Listed
    <3>5. w[t.child[n]["left"]] \o <<n>> \in Seq(Nodes)
      BY <3>2, <3>3, ConcatProperties
    <3>6. w[n] \in Seq(Nodes)
      BY <3>2, <3>4, <3>5, ConcatProperties
    <3> QED BY <3>6
  <2> QED BY <2>1, <2>2
<1> HIDE DEF T
<1>4. \A n \in Pointer : n \in T
  BY <1>3, ByRank
<1>5. \A n \in Pointer : w[n] \in Seq(Nodes)
  BY <1>4 DEF T
<1>6. ASSUME NEW n \in Nodes
      PROVE  LET l == w[t.child[n]["left"]]
                 q == w[t.child[n]["right"]]
             IN  /\ Range(w[n]) = Range(l) \cup {n} \cup Range(q)
                 /\ Len(w[n]) = Len(l) + 1 + Len(q)
  <2> DEFINE l == w[t.child[n]["left"]]
             q == w[t.child[n]["right"]]
             k == l \o <<n>>
  <2>1. l \in Seq(Nodes) /\ q \in Seq(Nodes) /\ w[n] = k \o q
    BY <1>2, <1>5 DEF Listed
  <2>2. <<n>> \in Seq(Nodes) /\ Range(<<n>>) = {n} /\ Len(<<n>>) = 1
    BY Singleton
  <2> DEFINE o == <<n>>
  <2> HIDE DEF o, l, q
  <2>6. o \in Seq(Nodes) /\ Range(o) = {n} /\ Len(o) = 1 /\ k = l \o o
    BY <2>2 DEF o
  <2>3. k \in Seq(Nodes) /\ Range(k) = Range(l) \cup {n} /\ Len(k) = Len(l) + 1
    BY <2>1, <2>6, ConcatIs
  <2> HIDE DEF k
  <2>4. Range(w[n]) = Range(k) \cup Range(q) /\ Len(w[n]) = Len(k) + Len(q)
    <3>1. k \in Seq(Nodes) /\ q \in Seq(Nodes)
      BY <2>1, <2>3
    <3>2. Range(k \o q) = Range(k) \cup Range(q) /\ Len(k \o q) = Len(k) + Len(q)
      BY <3>1, ConcatIs
    <3> QED BY <2>1, <3>2
  <2>5. Len(l) \in Nat /\ Len(q) \in Nat
    BY <2>1, LenProperties
  <2> QED BY <2>3, <2>4, <2>5 DEF l, q
<1> QED BY <1>5, <1>6 DEF Visits, Listed

(* A subtree holds a node, and with each node below its top its parent too. *)
LEMMA VisitsAre ==
  ASSUME NEW t, Shape(t), NEW w, Visits(t, w), NEW r, r \in [Pointer -> Nat],
         \A n \in Nodes, d \in Sides : r[t.child[n][d]] < r[n]
  PROVE  /\ \A n \in Nodes : n \in Range(w[n])
         /\ \A n \in Nodes, d \in Sides : Range(w[t.child[n][d]]) \subseteq Range(w[n])
         /\ \A n \in Pointer : \A m \in Range(w[n]) :
              /\ m \in Nodes /\ r[m] <= r[n]
              /\ m # n => t.up[m] \in Range(w[n])
              /\ \A d \in Sides : t.child[m][d] # NULL => t.child[m][d] \in Range(w[n])
<1>1. /\ \A n \in Nodes, d \in Sides : t.child[n][d] \in Pointer /\ (t.child[n][d] # NULL => t.up[t.child[n][d]] = n)
      /\ NULL \in Pointer /\ \A n \in Pointer : n = NULL \/ n \in Nodes
  BY DEF Shape, TreeOK, Links, Pointer
<1>2. \A n \in Nodes : n \in Range(w[n])
  BY DEF Visits
<1>3. \A n \in Nodes, d \in Sides : Range(w[t.child[n][d]]) \subseteq Range(w[n])
  BY DEF Visits, Sides
<1>4. \A n \in Pointer : Range(w[n]) \subseteq Nodes
  BY RangeOfSeq DEF Visits
<1>5. Range(w[NULL]) = {}
  BY Nothing DEF Visits
<1> DEFINE Closed(n, m) == /\ r[m] <= r[n]
                           /\ m # n => t.up[m] \in Range(w[n])
                           /\ \A d \in Sides : t.child[m][d] # NULL => t.child[m][d] \in Range(w[n])
           T == {n \in Pointer : \A m \in Range(w[n]) : Closed(n, m)}
<1>6. ASSUME NEW n \in Pointer, \A m \in Pointer : r[m] < r[n] => m \in T PROVE n \in T
  <2> SUFFICES ASSUME NEW m \in Range(w[n]) PROVE Closed(n, m)
    OBVIOUS
  <2>1. n \in Nodes /\ m \in Nodes
    BY <1>1, <1>4, <1>5
  <2>2. CASE m = n
    <3>1. ASSUME NEW d \in Sides, t.child[n][d] # NULL PROVE t.child[n][d] \in Range(w[n])
      <4>1. t.child[n][d] \in Nodes
        BY <1>1, <2>1, <3>1
      <4> QED BY <1>2, <1>3, <2>1, <4>1
    <3>2. r[n] <= r[n]
      BY <2>1 DEF Pointer
    <3> QED BY <2>2, <3>1, <3>2
  <2>3. CASE m # n
    <3>1. PICK d \in Sides : m \in Range(w[t.child[n][d]])
      BY <2>1, <2>3 DEF Visits, Sides
    <3> DEFINE c == t.child[n][d]
    <3>2. c \in Pointer /\ r[c] < r[n] /\ c \in Nodes /\ t.up[c] = n
      <4>1. c \in Pointer /\ r[c] < r[n]
        BY <1>1, <2>1
      <4> QED BY <1>1, <1>5, <2>1, <3>1, <4>1
    <3>3. Range(w[c]) \subseteq Range(w[n])
      BY <1>3, <2>1
    <3> HIDE DEF c
    <3>4. Closed(c, m)
      BY <1>6, <3>1, <3>2 DEF c
    <3>5. r[m] <= r[n]
      <4>1. r[m] \in Nat /\ r[n] \in Nat /\ r[c] \in Nat
        BY <2>1, <3>2 DEF Pointer
      <4> QED BY <3>2, <3>4, <4>1
    <3>6. t.up[m] \in Range(w[n])
      BY <1>2, <2>1, <3>2, <3>3, <3>4
    <3> QED BY <3>3, <3>4, <3>5, <3>6
  <2> QED BY <2>2, <2>3
<1> HIDE DEF T, Closed
<1>7. \A n \in Pointer : n \in T
  BY <1>6, ByRank
<1> QED BY <1>2, <1>3, <1>4, <1>7 DEF T, Closed

(* The subtrees of a node have no node in common, and the walk from the root *)
(* visits the nodes that are in the tree.                                    *)
LEMMA VisitsApart ==
  ASSUME NEW t, Shape(t), NEW w, Visits(t, w), NEW n \in Nodes
  PROVE  LET l == Range(w[t.child[n]["left"]])
             q == Range(w[t.child[n]["right"]])
         IN  l \cap q = {} /\ n \notin l /\ n \notin q
<1>1. PICK r \in [Pointer -> Nat] : \A m \in Nodes, d \in Sides : r[t.child[m][d]] < r[m]
  BY Ranks
<1>2. PICK up \in [Nodes -> Nat] : \A m \in Nodes : t.up[m] # NULL => up[t.up[m]] < up[m]
  BY Ranks
<1> DEFINE a == t.child[n]["left"]
           b == t.child[n]["right"]
           T == {m \in Nodes : ~(m \in Range(w[a]) /\ m \in Range(w[b]))}
<1>3. /\ a \in Pointer /\ b \in Pointer /\ r[a] < r[n] /\ r[b] < r[n] /\ NULL \notin Nodes
      /\ r[a] \in Nat /\ r[b] \in Nat /\ r[n] \in Nat
      /\ (a # NULL => t.up[a] = n /\ a # b) /\ (b # NULL => t.up[b] = n /\ a # b)
      /\ \A m \in Pointer : m = NULL \/ m \in Nodes
  <2>1. "left" \in Sides /\ "right" \in Sides /\ Opposite("left") = "right" /\ Opposite("right") = "left" /\ n \in Pointer
    BY DEF Sides, Opposite, Pointer
  <2>2. a \in Pointer /\ b \in Pointer /\ r[a] < r[n] /\ r[b] < r[n] /\ NULL \notin Nodes
    BY <1>1, <2>1, NullIsNoNode DEF Shape, TreeOK
  <2>3. (a # NULL => t.up[a] = n /\ a # b) /\ (b # NULL => t.up[b] = n /\ a # b)
    BY <2>1 DEF Shape, Links
  <2> QED BY <2>1, <2>2, <2>3 DEF Pointer
<1> HIDE DEF a, b
<1>4. /\ \A m \in Range(w[a]) : m \in Nodes /\ r[m] <= r[a] /\ (m # a => t.up[m] \in Range(w[a]))
      /\ \A m \in Range(w[b]) : m \in Nodes /\ r[m] <= r[b] /\ (m # b => t.up[m] \in Range(w[b]))
  BY <1>1, <1>3, VisitsAre
<1>5. n \notin Range(w[a]) /\ n \notin Range(w[b])
  BY <1>3, <1>4
<1>6. ASSUME NEW m \in Nodes, \A k \in Nodes : up[k] < up[m] => k \in T PROVE m \in T
  <2> SUFFICES ASSUME m \in Range(w[a]), m \in Range(w[b]) PROVE FALSE
    OBVIOUS
  <2>0. m # NULL
    BY <1>3
  <2>1. m # a
    BY <1>3, <1>4, <1>5, <2>0
  <2>2. m # b
    BY <1>3, <1>4, <1>5, <2>0
  <2>3. t.up[m] \in Range(w[a]) /\ t.up[m] \in Range(w[b]) /\ t.up[m] \in Nodes
    BY <1>4, <2>1, <2>2
  <2>4. up[t.up[m]] < up[m]
    BY <1>2, <1>3, <2>3
  <2> QED BY <1>6, <2>3, <2>4
<1> HIDE DEF T
<1>7. \A m \in Nodes : m \in T
  BY <1>6, ByRank, ZenonT(60)
<1>8. Range(w[a]) \cap Range(w[b]) = {}
  BY <1>4, <1>7 DEF T
<1> QED BY <1>5, <1>8 DEF a, b

(* The list of the root holds the nodes of the tree, and no others. *)
LEMMA VisitsAll ==
  ASSUME NEW t, Shape(t), NEW w, Visits(t, w)
  PROVE  Range(w[t.root]) = {n \in Nodes : In(t, n)}
<1>1. PICK r \in [Pointer -> Nat] : \A m \in Nodes, d \in Sides : r[t.child[m][d]] < r[m]
  BY Ranks
<1>2. PICK up \in [Nodes -> Nat] : \A m \in Nodes : t.up[m] # NULL => up[t.up[m]] < up[m]
  BY Ranks
<1>3. /\ t.root \in Pointer /\ NULL \notin Nodes /\ Links(t) /\ \A m \in Nodes : t.up[m] \in Pointer
      /\ \A m \in Pointer : m = NULL \/ m \in Nodes
  BY NullIsNoNode DEF Shape, TreeOK, Pointer
<1>4. /\ \A n \in Nodes : n \in Range(w[n])
      /\ \A m \in Range(w[t.root]) :
              /\ m \in Nodes /\ (m # t.root => t.up[m] \in Range(w[t.root]))
              /\ \A d \in Sides : t.child[m][d] # NULL => t.child[m][d] \in Range(w[t.root])
  BY <1>1, <1>3, VisitsAre
<1>5. ASSUME NEW m \in Range(w[t.root]) PROVE In(t, m)
  BY <1>3, <1>4 DEF In
<1> DEFINE T == {m \in Nodes : In(t, m) => m \in Range(w[t.root])}
<1>6. ASSUME NEW m \in Nodes, \A k \in Nodes : up[k] < up[m] => k \in T PROVE m \in T
  <2> SUFFICES ASSUME In(t, m) PROVE m \in Range(w[t.root])
    OBVIOUS
  <2>1. CASE t.root = m
    BY <1>4, <2>1
  <2>2. CASE t.up[m] # NULL
    <3>1. t.up[m] \in Nodes /\ up[t.up[m]] < up[m]
      BY <1>2, <1>3, <2>2
    <3>2. PICK d \in Sides : t.child[t.up[m]][d] = m
      BY <1>3, <2>2 DEF Links
    <3>3. In(t, t.up[m])
      BY <1>3, <3>1, <3>2 DEF Links
    <3>4. t.up[m] \in Range(w[t.root])
      BY <1>6, <3>1, <3>3
    <3> QED BY <1>3, <1>4, <3>2, <3>4
  <2> QED BY <2>1, <2>2 DEF In
<1> HIDE DEF T
<1>7. \A m \in Nodes : m \in T
  BY <1>6, ByRank
<1> QED BY <1>4, <1>5, <1>7 DEF T

(* No list holds a node twice. *)
LEMMA ListedDistinct ==
  ASSUME NEW t, Shape(t), NEW w, Listed(t, w), NEW n \in Pointer
  PROVE  Distinct(w[n])
<1>1. PICK r \in [Pointer -> Nat] : \A m \in Nodes, d \in Sides : r[t.child[m][d]] < r[m]
  BY Ranks
<1>2. Visits(t, w)
  BY ListedVisits
<1> DEFINE T == {m \in Pointer : Distinct(w[m])}
<1>3. ASSUME NEW m \in Pointer, \A k \in Pointer : r[k] < r[m] => k \in T PROVE m \in T
  <2>1. CASE m = NULL
    BY <2>1, Nothing DEF Listed
  <2>2. CASE m # NULL
    <3> DEFINE l == w[t.child[m]["left"]]
               q == w[t.child[m]["right"]]
               o == <<m>>
               k == l \o o
    <3>1. m \in Nodes /\ t.child[m]["left"] \in Pointer /\ t.child[m]["right"] \in Pointer /\ "left" \in Sides /\ "right" \in Sides
      BY <2>2 DEF Pointer, Shape, TreeOK, Sides
    <3>2. l \in Seq(Nodes) /\ q \in Seq(Nodes) /\ w[m] = k \o q
      BY <1>2, <3>1 DEF Listed, Visits
    <3>3. Distinct(l) /\ Distinct(q)
      BY <1>1, <1>3, <3>1
    <3>4. Range(l) \cap Range(q) = {} /\ m \notin Range(l) /\ m \notin Range(q)
      BY <1>2, <3>1, VisitsApart
    <3>5. o \in Seq(Nodes) /\ Range(o) = {m} /\ Distinct(o)
      BY <3>1, Singleton
    <3> HIDE DEF l, q, o
    <3>6. k \in Seq(Nodes) /\ Range(k) = Range(l) \cup {m} /\ Distinct(k)
      BY <3>2, <3>3, <3>4, <3>5, ConcatIs, DistinctConcat
    <3> HIDE DEF k
    <3>7. Distinct(k \o q)
      BY <3>2, <3>3, <3>4, <3>6, DistinctConcat
    <3> QED BY <3>2, <3>7
  <2> QED BY <2>1, <2>2
<1> HIDE DEF T
<1>4. \A m \in Pointer : m \in T
  BY <1>3, ByRank
<1> QED BY <1>4 DEF T

----------------------------------------------------------------------------
(* What the inductive invariant says of the tree as a whole. *)

(* The black nodes below n on side d, counted as BlackHeight counts them. *)
Counted(g, n, d) ==
    LET c == tree.child[n][d]
    IN  (IF rb.at = "erase" /\ c = rb.node /\ n = rb.parent THEN 1 ELSE 0) + (IF c = NULL THEN 0 ELSE g[c])

(* BlackHeight, one node at a time. *)
LEMMA HeightUnfolds ==
  ASSUME Shape(tree), NEW n \in Nodes
  PROVE  BlackHeight[n] = IF Counted(BlackHeight, n, "left") # Counted(BlackHeight, n, "right") THEN -1
                          ELSE Counted(BlackHeight, n, "left") + (IF tree.black[n] THEN 1 ELSE 0)
<1>1. PICK r, B : Ranked(tree, r, B)
  BY DEF Shape
<1>2. /\ r \in [Nodes -> Nat]
      /\ \A m \in Nodes, d \in Sides : tree.child[m][d] \in Pointer
      /\ \A m \in Nodes, d \in Sides : tree.child[m][d] # NULL => r[tree.child[m][d]] < r[m]
      /\ "left" \in Sides /\ "right" \in Sides
  BY <1>1 DEF Shape, TreeOK, Ranked, Sides
<1> DEFINE R == {ss \in Nodes \X Nodes : r[ss[1]] < r[ss[2]]}
           Step(g, m) ==
             LET short(c, p) == IF rb.at = "erase" /\ c = rb.node /\ p = rb.parent THEN 1 ELSE 0
                 below(d) == LET c == tree.child[m][d] IN short(c, m) + (IF c = NULL THEN 0 ELSE g[c])
             IN  IF below("left") # below("right") THEN -1
                 ELSE below("left") + (IF tree.black[m] THEN 1 ELSE 0)
           F == CHOOSE f : f = [m \in Nodes |-> Step(f, m)]
<1>3. IsWellFoundedOn(R, Nodes)
  BY <1>2, RankWellFounded
<1>4. WFDefOn(R, Nodes, Step)
  <2> SUFFICES ASSUME NEW g, NEW h, NEW x \in Nodes, \A y \in SetLessThan(x, R, Nodes) : g[y] = h[y]
               PROVE  Step(g, x) = Step(h, x)
    BY DEF WFDefOn
  <2>1. \A d \in Sides : tree.child[x][d] # NULL => tree.child[x][d] \in SetLessThan(x, R, Nodes)
    BY <1>2 DEF SetLessThan, Pointer
  <2>2. /\ tree.child[x]["left"] # NULL => g[tree.child[x]["left"]] = h[tree.child[x]["left"]]
        /\ tree.child[x]["right"] # NULL => g[tree.child[x]["right"]] = h[tree.child[x]["right"]]
    BY <1>2, <2>1
  <2> QED BY <2>2
<1>5. OpDefinesFcn(F, Nodes, Step)
  BY DEF OpDefinesFcn
<1>6. BlackHeight = F
  BY DEF BlackHeight
<1>a. \A g : Step(g, n) = IF Counted(g, n, "left") # Counted(g, n, "right") THEN -1
                          ELSE Counted(g, n, "left") + (IF tree.black[n] THEN 1 ELSE 0)
  BY DEF Counted
<1> HIDE DEF R, Step, F
<1>7. WFInductiveDefines(F, Nodes, Step)
  BY <1>3, <1>4, <1>5, WFInductiveDef
<1>8. F[n] = Step(F, n)
  BY <1>7 DEF WFInductiveDefines
<1> QED BY <1>6, <1>8, <1>a

(* The heights of the invariant are what BlackHeight counts. *)
LEMMA HeightIs ==
  ASSUME RbInv, NEW h, NEW q, NEW d, Heights(tree, h, q, d),
         \/ rb.at # "erase" /\ q = NULL
         \/ rb.at = "erase" /\ q = rb.parent /\ d = NodeSide
  PROVE  \A n \in Nodes : BlackHeight[n] = h[n] /\ h[n] \in Nat
<1>1. PICK r \in [Pointer -> Nat] : \A m \in Nodes, x \in Sides : r[tree.child[m][x]] < r[m]
  BY Ranks DEF RbInv
<1>2. /\ Shape(tree) /\ NULL \notin Nodes /\ "left" \in Sides /\ "right" \in Sides
      /\ \A m \in Nodes, x \in Sides : tree.child[m][x] \in Pointer
  BY NullIsNoNode DEF RbInv, Shape, TreeOK, Sides
<1>3. \A n \in Nodes, e \in Sides : /\ h[n] \in Nat /\ Below(tree, h, n, e) \in Nat
                                    /\ h[n] = Below(tree, h, n, e) + Gap(q, d, n, e) + Dark(tree, n)
  BY <1>2, HeightsAre DEF Shape
<1>4. ASSUME NEW n \in Nodes, NEW e \in Sides
      PROVE  (rb.at = "erase" /\ tree.child[n][e] = rb.node /\ n = rb.parent) <=> (n = q /\ e = d)
  <2>1. CASE rb.at # "erase"
    BY <1>2, <2>1
  <2>2. CASE rb.at = "erase"
    <3>1. EraseAt(tree, rb.node, rb.parent, NodeSide, Sibling)
      BY <2>2, EraseIs
    <3>2. /\ q = rb.parent /\ d = NodeSide /\ d \in Sides /\ rb.node = tree.child[q][d] /\ rb.node # tree.child[q][Opposite(d)]
      BY <2>2, <3>1 DEF EraseAt
    <3>3. e = d \/ e = Opposite(d)
      BY <3>2, SidesAre
    <3>4. Opposite(d) # d
      BY <3>2, SidesAre
    <3> QED BY <2>2, <3>2, <3>3, <3>4
  <2> QED BY <2>1, <2>2
<1> DEFINE T == {n \in Pointer : n \in Nodes => BlackHeight[n] = h[n]}
<1>5. ASSUME NEW n \in Pointer, \A m \in Pointer : r[m] < r[n] => m \in T PROVE n \in T
  <2> SUFFICES ASSUME n \in Nodes PROVE BlackHeight[n] = h[n]
    OBVIOUS
  <2>1. ASSUME NEW e \in Sides PROVE Counted(BlackHeight, n, e) = Below(tree, h, n, e) + Gap(q, d, n, e)
    <3> DEFINE c == tree.child[n][e]
    <3>1. c # NULL => BlackHeight[c] = h[c]
      BY <1>1, <1>2, <1>5 DEF Pointer
    <3>2. (IF c = NULL THEN 0 ELSE BlackHeight[c]) = Below(tree, h, n, e) /\ Below(tree, h, n, e) \in Nat
      BY <1>3, <3>1 DEF Below
    <3>3. (IF rb.at = "erase" /\ c = rb.node /\ n = rb.parent THEN 1 ELSE 0) = Gap(q, d, n, e) /\ Gap(q, d, n, e) \in {0, 1}
      BY <1>4 DEF Gap
    <3>4. Counted(BlackHeight, n, e) = Gap(q, d, n, e) + Below(tree, h, n, e)
      BY <3>2, <3>3 DEF Counted
    <3> QED BY <3>2, <3>3, <3>4
  <2>2. Dark(tree, n) = (IF tree.black[n] THEN 1 ELSE 0) /\ Dark(tree, n) \in {0, 1}
    BY DEF Dark
  <2>3. \A e \in Sides : Gap(q, d, n, e) \in {0, 1}
    BY DEF Gap
  <2>4. Counted(BlackHeight, n, "left") = Counted(BlackHeight, n, "right")
        /\ Counted(BlackHeight, n, "left") + Dark(tree, n) = h[n]
    <3>1. /\ Counted(BlackHeight, n, "left") = Below(tree, h, n, "left") + Gap(q, d, n, "left")
          /\ Counted(BlackHeight, n, "right") = Below(tree, h, n, "right") + Gap(q, d, n, "right")
      BY <1>2, <2>1
    <3>2. /\ h[n] = Below(tree, h, n, "left") + Gap(q, d, n, "left") + Dark(tree, n)
          /\ h[n] = Below(tree, h, n, "right") + Gap(q, d, n, "right") + Dark(tree, n)
          /\ h[n] \in Nat /\ Below(tree, h, n, "left") \in Nat /\ Below(tree, h, n, "right") \in Nat
          /\ Gap(q, d, n, "left") \in {0, 1} /\ Gap(q, d, n, "right") \in {0, 1}
      BY <1>2, <1>3, <2>3
    <3> QED BY <2>2, <3>1, <3>2
  <2>5. BlackHeight[n] = IF Counted(BlackHeight, n, "left") # Counted(BlackHeight, n, "right") THEN -1
                         ELSE Counted(BlackHeight, n, "left") + (IF tree.black[n] THEN 1 ELSE 0)
    BY <1>2, HeightUnfolds
  <2> QED BY <2>2, <2>4, <2>5
<1> HIDE DEF T
<1>6. \A n \in Pointer : n \in T
  BY <1>5, ByRank
<1>7. \A n \in Nodes : h[n] \in Nat
  BY <1>2, <1>3
<1> QED BY <1>6, <1>7 DEF T, Pointer

(* InOrder lists each node of the tree once. *)
LEMMA InOrderIs ==
  ASSUME RbInv
  PROVE  \E w : /\ Listed(tree, w) /\ Visits(tree, w) /\ InOrder = w[tree.root]
                /\ InOrder \in Seq(Nodes) /\ Distinct(InOrder)
                /\ Range(InOrder) = {n \in Nodes : In(tree, n)}
<1>1. Shape(tree) /\ tree.root \in Pointer
  BY DEF RbInv, Shape, TreeOK
<1>2. PICK w : Listed(tree, w) /\ \A m : OrderFrom(tree, m) = w[m]
  BY <1>1, WalkUnfolds
<1>3. InOrder = OrderFrom(tree, tree.root)
  BY DEF InOrder, OrderFrom
<1>4. Visits(tree, w) /\ Distinct(w[tree.root]) /\ Range(w[tree.root]) = {n \in Nodes : In(tree, n)}
  BY <1>1, <1>2, ListedVisits, ListedDistinct, VisitsAll
<1>5. w[tree.root] \in Seq(Nodes)
  BY <1>1, <1>4 DEF Visits
<1> QED BY <1>2, <1>3, <1>4, <1>5

(* The invariant holds the rules of a red-black tree. *)
LEMMA RedBlackFollows == RbInv => RedBlackTree
<1> SUFFICES ASSUME RbInv PROVE RedBlackTree
  OBVIOUS
<1>1. InOrder \in Seq(Nodes) /\ Distinct(InOrder) /\ Range(InOrder) = {n \in Nodes : In(tree, n)}
  BY InOrderIs
<1>2. \A i \in DOMAIN InOrder : InOrder[i] \in Nodes /\ In(tree, InOrder[i])
  BY <1>1 DEF Range
<1>3. Links(tree) /\ NULL \notin Nodes
  BY NullIsNoNode DEF RbInv, Shape
<1>4. LinksMirror
  <2>1. \A i, j \in DOMAIN InOrder : i # j => InOrder[i] # InOrder[j]
    BY <1>1 DEF Distinct
  <2>2. \A i \in DOMAIN InOrder : \A d \in Sides :
          tree.child[InOrder[i]][d] # NULL => tree.up[tree.child[InOrder[i]][d]] = InOrder[i]
    BY <1>2, <1>3 DEF Links
  <2>3. tree.root # NULL => tree.up[tree.root] = NULL
    BY <1>3 DEF Links
  <2> QED BY <2>1, <2>2, <2>3 DEF LinksMirror
<1>5. /\ rb.at \in {"idle", "left", "right", "insert", "erase"}
      /\ \E x, q, d : /\ RedBlack(tree, x, q, d) /\ (x = NULL \/ (rb.at = "insert" /\ x = rb.node))
                      /\ \/ rb.at # "erase" /\ q = NULL
                         \/ rb.at = "erase" /\ q = rb.parent /\ d = NodeSide
  <2> DEFINE Fits(x, q, d) == /\ RedBlack(tree, x, q, d) /\ (x = NULL \/ (rb.at = "insert" /\ x = rb.node))
                              /\ \/ rb.at # "erase" /\ q = NULL
                                 \/ rb.at = "erase" /\ q = rb.parent /\ d = NodeSide
  <2>1. rb.at \in {"idle", "left", "right", "insert", "erase"}
    BY DEF RbInv, RbTypes
  <2>2. CASE rb.at \in {"idle", "left", "right"}
    <3>1. RedBlack(tree, NULL, NULL, "left")
      BY <2>2 DEF RbInv, Rules
    <3>2. Fits(NULL, NULL, "left")
      BY <2>2, <3>1
    <3> QED BY <2>1, <3>2
  <2>3. CASE rb.at = "insert"
    <3>1. RedBlack(tree, rb.node, NULL, "left")
      BY <2>3 DEF RbInv, Rules
    <3>2. Fits(rb.node, NULL, "left")
      BY <2>3, <3>1
    <3> QED BY <2>1, <3>2
  <2>4. CASE rb.at = "erase"
    <3>1. RedBlack(tree, NULL, rb.parent, NodeSide)
      BY <2>4 DEF RbInv, Rules
    <3>2. Fits(NULL, rb.parent, NodeSide)
      BY <2>4, <3>1
    <3> QED BY <2>1, <3>2
  <2> QED BY <2>1, <2>2, <2>3, <2>4
<1>6. PICK x, q, d : /\ RedBlack(tree, x, q, d) /\ (x = NULL \/ (rb.at = "insert" /\ x = rb.node))
                     /\ \/ rb.at # "erase" /\ q = NULL
                        \/ rb.at = "erase" /\ q = rb.parent /\ d = NodeSide
  BY <1>5
<1>7. PICK h : Heights(tree, h, q, d)
  BY <1>6 DEF RedBlack
<1>8. \A n \in Nodes : BlackHeight[n] # -1
  <2>1. \A n \in Nodes : BlackHeight[n] = h[n] /\ h[n] \in Nat
    BY <1>6, <1>7, HeightIs
  <2>2. \A k \in Nat : k # -1
    OBVIOUS
  <2> QED BY <2>1, <2>2
<1>9. ASSUME NEW n \in Nodes, In(tree, n)
      PROVE  (rb.at = "insert" /\ n = rb.node) \/ tree.black[n] \/ (n # tree.root /\ tree.black[tree.up[n]])
  <2>1. tree.black[n] \/ n = x \/ (tree.up[n] # NULL /\ tree.black[tree.up[n]])
    BY <1>6, <1>9 DEF RedBlack, Colours
  <2> QED BY <1>3, <1>6, <2>1 DEF Links
<1>10. Balanced
  <2> DEFINE inTree == {InOrder[i] : i \in DOMAIN InOrder}
  <2>1. \A n \in inTree : n \in Nodes /\ In(tree, n)
    BY <1>2
  <2> HIDE DEF inTree
  <2>2. /\ \A n \in inTree : BlackHeight[n] # -1
        /\ \A n \in inTree : (rb.at = "insert" /\ n = rb.node) \/ tree.black[n] \/ (n # tree.root /\ tree.black[tree.up[n]])
    BY <1>8, <1>9, <2>1
  <2> QED BY <2>2 DEF Balanced, inTree
<1> QED BY <1>4, <1>10 DEF RedBlackTree

(***************************************************************************)
(* Between two operations of timer.c the tree is a red-black tree: parents *)
(* and children name each other, no red node has a red parent, the root is *)
(* black and every way down meets the same number of black nodes.  During  *)
(* an operation this fails at most where the operation stands.  For any    *)
(* number of nodes and any keys, equal ones included.                      *)
(***************************************************************************)
THEOREM TreeStaysRedBlack == RbSpec => []RedBlackTree
BY RbInvariant, RedBlackFollows, PTL

----------------------------------------------------------------------------
(* The ends of a sequence *)
FirstIn(q) == IF q = <<>> THEN NULL ELSE q[1]
LastIn(q) == IF q = <<>> THEN NULL ELSE q[Len(q)]

(* A list is empty iff its length is 0. *)
LEMMA EmptyIs ==
  ASSUME NEW S, NEW a \in Seq(S)
  PROVE  a = <<>> <=> Len(a) = 0
BY EmptySeq

(* The first and the last element of a concatenation. *)
LEMMA Ends ==
  ASSUME NEW S, NEW a \in Seq(S), NEW b \in Seq(S)
  PROVE  /\ FirstIn(a \o b) = IF a = <<>> THEN FirstIn(b) ELSE FirstIn(a)
         /\ LastIn(a \o b) = IF b = <<>> THEN LastIn(a) ELSE LastIn(b)
         /\ a \o b = <<>> <=> a = <<>> /\ b = <<>>
<1> DEFINE c == a \o b
<1>1. /\ Len(a) \in Nat /\ Len(b) \in Nat /\ c \in Seq(S) /\ Len(c) = Len(a) + Len(b)
      /\ \A i \in 1 .. Len(a) + Len(b) : c[i] = IF i <= Len(a) THEN a[i] ELSE b[i - Len(a)]
  BY ConcatProperties, LenProperties
<1>2. (a = <<>> <=> Len(a) = 0) /\ (b = <<>> <=> Len(b) = 0)
  BY EmptyIs
<1>3. c = <<>> <=> a = <<>> /\ b = <<>>
  BY ConcatEqualIffEmpty
<1>4. (a = <<>> => c = b) /\ (b = <<>> => c = a)
  BY ConcatEmptySeq
<1> HIDE DEF c
<1>5. FirstIn(c) = IF a = <<>> THEN FirstIn(b) ELSE FirstIn(a)
  <2>1. CASE a = <<>>
    BY <1>4, <2>1
  <2>2. CASE a # <<>>
    <3>1. 1 \in 1 .. Len(a) + Len(b) /\ 1 <= Len(a)
      BY <1>1, <1>2, <2>2
    <3>2. c[1] = a[1]
      BY <1>1, <3>1
    <3> QED BY <1>3, <2>2, <3>2 DEF FirstIn
  <2> QED BY <2>1, <2>2
<1>6. LastIn(c) = IF b = <<>> THEN LastIn(a) ELSE LastIn(b)
  <2>1. CASE b = <<>>
    BY <1>4, <2>1
  <2>2. CASE b # <<>>
    <3>1. Len(c) \in 1 .. Len(a) + Len(b) /\ ~(Len(c) <= Len(a)) /\ Len(c) - Len(a) = Len(b)
      BY <1>1, <1>2, <2>2
    <3>2. c[Len(c)] = b[Len(b)]
      BY <1>1, <3>1
    <3> QED BY <1>3, <2>2, <3>2 DEF LastIn
  <2> QED BY <2>1, <2>2
<1> QED BY <1>3, <1>5, <1>6 DEF c

(* The ends of a list of one element. *)
LEMMA SingletonEnds ==
  ASSUME NEW x
  PROVE  FirstIn(<<x>>) = x /\ LastIn(<<x>>) = x /\ <<x>> # <<>>
<1>1. Len(<<x>>) = 1 /\ <<x>>[1] = x /\ <<x>> # <<>>
  OBVIOUS
<1> QED BY <1>1 DEF FirstIn, LastIn

(* The ends are elements of the list. *)
LEMMA EndsAreIn ==
  ASSUME NEW S, NEW a \in Seq(S), a # <<>>
  PROVE  FirstIn(a) \in Range(a) /\ LastIn(a) \in Range(a)
<1>1. Len(a) \in Nat \ {0} /\ DOMAIN a = 1 .. Len(a)
  BY EmptySeq, LenProperties
<1> QED BY <1>1 DEF FirstIn, LastIn, Range

(* A node with its subtrees, the list split before and after the node. *)
LEMMA ListedIs ==
  ASSUME NEW t, Shape(t), NEW w, Listed(t, w), NEW n \in Nodes
  PROVE  LET l == w[t.child[n]["left"]]
             q == w[t.child[n]["right"]]
         IN  /\ l \in Seq(Nodes) /\ q \in Seq(Nodes) /\ <<n>> \in Seq(Nodes) /\ w[n] \in Seq(Nodes)
             /\ w[n] = (l \o <<n>>) \o q /\ w[n] = l \o (<<n>> \o q)
             /\ l \o <<n>> \in Seq(Nodes) /\ <<n>> \o q \in Seq(Nodes)
             /\ w[n] # <<>>
<1> DEFINE l == w[t.child[n]["left"]]
           q == w[t.child[n]["right"]]
           o == <<n>>
<1>1. t.child[n]["left"] \in Pointer /\ t.child[n]["right"] \in Pointer /\ n \in Pointer
  BY DEF Shape, TreeOK, Sides, Pointer
<1>2. Visits(t, w)
  BY ListedVisits
<1>3. l \in Seq(Nodes) /\ q \in Seq(Nodes) /\ w[n] \in Seq(Nodes) /\ n \in Range(w[n])
  BY <1>1, <1>2 DEF Visits
<1>4. o \in Seq(Nodes)
  BY Singleton
<1>5. w[n] = (l \o o) \o q
  BY DEF Listed
<1>7. w[n] # <<>>
  BY <1>3, Nothing
<1> HIDE DEF l, q, o
<1>6. (l \o o) \o q = l \o (o \o q) /\ l \o o \in Seq(Nodes) /\ o \o q \in Seq(Nodes)
  BY <1>3, <1>4, ConcatAssociative, ConcatProperties
<1> QED BY <1>3, <1>4, <1>5, <1>6, <1>7 DEF l, q, o

(* The way down on one side ends at the first or the last node of the list. *)
LEMMA FarthestEnds ==
  ASSUME NEW t, Shape(t), NEW w, Listed(t, w), NEW n \in Nodes
  PROVE  Farthest(t, n, "left") = FirstIn(w[n]) /\ Farthest(t, n, "right") = LastIn(w[n])
<1>0. TreeOK(t) /\ "left" \in Sides /\ "right" \in Sides /\ NULL \notin Nodes
  BY NullIsNoNode DEF Shape, Sides
<1>1. PICK r \in [Pointer -> Nat] : \A m \in Nodes, d \in Sides : r[t.child[m][d]] < r[m]
  BY Ranks
<1>2. PICK k, B : Ranked(t, k, B)
  BY DEF Shape
<1>3. \A m \in Nodes, d \in Sides : t.child[m][d] \in Pointer
  BY <1>0 DEF TreeOK
<1>4. w[NULL] = <<>>
  BY DEF Listed
<1>7. ASSUME NEW m \in Nodes PROVE w[m] # <<>>
  BY ListedIs
<1> DEFINE T == {m \in Pointer : m \in Nodes => /\ Farthest(t, m, "left") = FirstIn(w[m])
                                                /\ Farthest(t, m, "right") = LastIn(w[m])}
<1>5. ASSUME NEW m \in Pointer, \A j \in Pointer : r[j] < r[m] => j \in T PROVE m \in T
  <2> SUFFICES ASSUME m \in Nodes
               PROVE  Farthest(t, m, "left") = FirstIn(w[m]) /\ Farthest(t, m, "right") = LastIn(w[m])
    OBVIOUS
  <2> DEFINE a == t.child[m]["left"]
             b == t.child[m]["right"]
             o == <<m>>
  <2>1. /\ a \in Pointer /\ b \in Pointer /\ r[a] < r[m] /\ r[b] < r[m]
        /\ (a # NULL => a \in Nodes /\ a \in T) /\ (b # NULL => b \in Nodes /\ b \in T)
    BY <1>0, <1>1, <1>3, <1>5 DEF Pointer
  <2>2. /\ Farthest(t, m, "left") = IF a = NULL THEN m ELSE Farthest(t, a, "left")
        /\ Farthest(t, m, "right") = IF b = NULL THEN m ELSE Farthest(t, b, "right")
    BY <1>0, <1>2, FarthestUnfolds
  <2>3. /\ w[a] \in Seq(Nodes) /\ w[b] \in Seq(Nodes) /\ o \in Seq(Nodes) /\ w[m] = (w[a] \o o) \o w[b]
        /\ w[m] = w[a] \o (o \o w[b]) /\ w[a] \o o \in Seq(Nodes) /\ o \o w[b] \in Seq(Nodes)
    BY ListedIs
  <2>4. (a # NULL => w[a] # <<>>) /\ (b # NULL => w[b] # <<>>)
    BY <1>7, <2>1
  <2>5. FirstIn(o) = m /\ LastIn(o) = m /\ o # <<>>
    BY SingletonEnds
  <2> HIDE DEF a, b, o
  <2>6. FirstIn(w[m]) = IF w[a] = <<>> THEN m ELSE FirstIn(w[a])
    <3> DEFINE e == o \o w[b]
    <3>1. FirstIn(e) = m /\ e \in Seq(Nodes) /\ w[m] = w[a] \o e
      BY <2>3, <2>5, Ends
    <3> HIDE DEF e
    <3> QED BY <2>3, <3>1, Ends
  <2>7. LastIn(w[m]) = IF w[b] = <<>> THEN m ELSE LastIn(w[b])
    <3> DEFINE e == w[a] \o o
    <3>1. LastIn(e) = m /\ e \in Seq(Nodes) /\ w[m] = e \o w[b]
      BY <2>3, <2>5, Ends
    <3> HIDE DEF e
    <3> QED BY <2>3, <3>1, Ends
  <2> QED BY <1>4, <2>1, <2>2, <2>4, <2>6, <2>7
<1> HIDE DEF T
<1>6. \A m \in Pointer : m \in T
  BY <1>5, ByRank
<1> QED BY <1>6 DEF T, Pointer

----------------------------------------------------------------------------
(* The algebra of lists.  The operators are kept folded: the laws below are  *)
(* all that the proofs use of them.                                          *)
List == Seq(Nodes)
Nil == <<>>
One(x) == <<x>>
Cat(a, b) == a \o b

(* What a concatenation holds, starts and ends with. *)
LEMMA CatLaws ==
  ASSUME NEW a \in List, NEW b \in List
  PROVE  /\ Cat(a, b) \in List
         /\ Cat(a, b) = Nil <=> a = Nil /\ b = Nil
         /\ FirstIn(Cat(a, b)) = IF a = Nil THEN FirstIn(b) ELSE FirstIn(a)
         /\ LastIn(Cat(a, b)) = IF b = Nil THEN LastIn(a) ELSE LastIn(b)
         /\ Range(Cat(a, b)) = Range(a) \cup Range(b)
         /\ Distinct(Cat(a, b)) <=> Distinct(a) /\ Distinct(b) /\ Range(a) \cap Range(b) = {}
         /\ Len(Cat(a, b)) = Len(a) + Len(b)
<1>0. a \in Seq(Nodes) /\ b \in Seq(Nodes)
  BY DEF List
<1>1. a \o b \in Seq(Nodes) /\ Len(a \o b) = Len(a) + Len(b)
  BY <1>0, ConcatProperties
<1>2. Range(a \o b) = Range(a) \cup Range(b)
  BY <1>0, RangeConcatenation
<1>3. Distinct(a \o b) <=> Distinct(a) /\ Distinct(b) /\ Range(a) \cap Range(b) = {}
  BY <1>0, DistinctConcat
<1>4. /\ FirstIn(a \o b) = IF a = <<>> THEN FirstIn(b) ELSE FirstIn(a)
      /\ LastIn(a \o b) = IF b = <<>> THEN LastIn(a) ELSE LastIn(b)
      /\ a \o b = <<>> <=> a = <<>> /\ b = <<>>
  BY <1>0, Ends
<1> QED BY <1>1, <1>2, <1>3, <1>4 DEF Cat, Nil, List

(* Concatenation is associative. *)
LEMMA CatAssociates ==
  ASSUME NEW a \in List, NEW b \in List, NEW c \in List
  PROVE  Cat(Cat(a, b), c) = Cat(a, Cat(b, c))
BY ConcatAssociative DEF Cat, List

(* The empty list is neutral. *)
LEMMA NilLaws ==
  /\ Nil \in List /\ Range(Nil) = {} /\ Distinct(Nil) /\ FirstIn(Nil) = NULL /\ LastIn(Nil) = NULL /\ Len(Nil) = 0
  /\ \A a \in List : Cat(Nil, a) = a /\ Cat(a, Nil) = a
<1>1. Nil \in List /\ Range(Nil) = {} /\ Distinct(Nil) /\ Len(Nil) = 0
  BY Nothing DEF Nil, List
<1>2. FirstIn(Nil) = NULL /\ LastIn(Nil) = NULL
  BY DEF FirstIn, LastIn, Nil
<1>3. \A a \in List : Cat(Nil, a) = a /\ Cat(a, Nil) = a
  BY ConcatEmptySeq DEF Cat, Nil, List
<1> QED BY <1>1, <1>2, <1>3

(* A list of one node. *)
LEMMA OneLaws ==
  ASSUME NEW x \in Nodes
  PROVE  /\ One(x) \in List /\ One(x) # Nil /\ FirstIn(One(x)) = x /\ LastIn(One(x)) = x
         /\ Range(One(x)) = {x} /\ Distinct(One(x)) /\ Len(One(x)) = 1
<1>1. One(x) \in List /\ Range(One(x)) = {x} /\ Distinct(One(x)) /\ Len(One(x)) = 1
  BY Singleton DEF One, List
<1>2. One(x) # Nil /\ FirstIn(One(x)) = x /\ LastIn(One(x)) = x
  BY SingletonEnds DEF One, Nil
<1> QED BY <1>1, <1>2

(* Lists hold nodes. *)
LEMMA ListFacts ==
  ASSUME NEW a \in List
  PROVE  /\ Range(a) \subseteq Nodes /\ Len(a) \in Nat /\ DOMAIN a = 1 .. Len(a)
         /\ a # Nil => FirstIn(a) \in Range(a) /\ LastIn(a) \in Range(a)
         /\ a = Nil <=> Len(a) = 0
         /\ a = Nil <=> Range(a) = {}
<1>0. a \in Seq(Nodes)
  BY DEF List
<1>1. Range(a) \subseteq Nodes /\ Len(a) \in Nat /\ DOMAIN a = 1 .. Len(a)
  BY <1>0, RangeOfSeq, LenProperties
<1>2. a # Nil => FirstIn(a) \in Range(a) /\ LastIn(a) \in Range(a)
  BY <1>0, EndsAreIn DEF Nil
<1>3. a = Nil <=> Len(a) = 0
  BY <1>0, EmptyIs DEF Nil
<1>4. a = Nil => Range(a) = {}
  BY NilLaws
<1> QED BY <1>1, <1>2, <1>3, <1>4

(* A list without repetition splits around a node in one way. *)
LEMMA OneSpot ==
  ASSUME NEW a \in List, NEW b \in List, NEW c \in List, NEW e \in List, NEW x \in Nodes,
         Cat(a, Cat(One(x), b)) = Cat(c, Cat(One(x), e)), Distinct(Cat(a, Cat(One(x), b)))
  PROVE  a = c /\ b = e
BY OnePlace DEF Cat, One, List

(* The list below a node, split before or after the node. *)
LEMMA ListSplits ==
  ASSUME NEW t, Shape(t), NEW w, Listed(t, w)
  PROVE  /\ w[NULL] = Nil /\ \A n \in Pointer : w[n] \in List
         /\ \A n \in Nodes :
              LET l == w[t.child[n]["left"]]
                  q == w[t.child[n]["right"]]
              IN  /\ l \in List /\ q \in List /\ One(n) \in List /\ w[n] \in List /\ w[n] # Nil
                  /\ w[n] = Cat(l, Cat(One(n), q)) /\ w[n] = Cat(Cat(l, One(n)), q)
<1>1. Visits(t, w) /\ w[NULL] = Nil
  BY ListedVisits DEF Listed, Nil
<1>2. \A n \in Pointer : w[n] \in List
  BY <1>1 DEF Visits, List
<1>3. ASSUME NEW n \in Nodes
      PROVE LET l == w[t.child[n]["left"]]
                q == w[t.child[n]["right"]]
            IN  /\ l \in List /\ q \in List /\ One(n) \in List /\ w[n] \in List /\ w[n] # Nil
                /\ w[n] = Cat(l, Cat(One(n), q)) /\ w[n] = Cat(Cat(l, One(n)), q)
  BY ListedIs DEF List, Nil, Cat, One
<1> QED BY <1>1, <1>2, <1>3

(* The way down on a side ends at that end of the list of the subtree. *)
LEMMA FarthestIsEnd ==
  ASSUME NEW t, Shape(t), NEW w, Listed(t, w)
  PROVE  \A n \in Nodes : Farthest(t, n, "left") = FirstIn(w[n]) /\ Farthest(t, n, "right") = LastIn(w[n])
BY FarthestEnds

(* The subtree of n in the list of the whole tree: what stands next to it is *)
(* what rb_next and rb_prev climb to.                                        *)
Around(t, w, n, A, Z) ==
    /\ A \in List /\ Z \in List /\ w[t.root] = Cat(A, Cat(w[n], Z))
    /\ FirstIn(Z) = Ancestor(t, n, "left") /\ LastIn(A) = Ancestor(t, n, "right")

(* Every subtree stands in one piece in the list of the tree. *)
LEMMA AroundIs ==
  ASSUME NEW t, Shape(t), NEW w, Listed(t, w)
  PROVE  \A n \in Nodes : In(t, n) => \E A, Z : Around(t, w, n, A, Z)
<1>0. /\ TreeOK(t) /\ Links(t) /\ "left" \in Sides /\ "right" \in Sides /\ NULL \notin Nodes
      /\ Opposite("left") = "right" /\ Opposite("right") = "left"
      /\ \A m \in Nodes : t.up[m] \in Pointer
  BY NullIsNoNode DEF Shape, Sides, TreeOK, Opposite
<1>1. PICK up \in [Nodes -> Nat] : \A m \in Nodes : t.up[m] # NULL => up[t.up[m]] < up[m]
  BY Ranks
<1>2. PICK k, B : Ranked(t, k, B)
  BY DEF Shape
<1>3. \A m \in Nodes :
        /\ Ancestor(t, m, "left") = IF t.up[m] = NULL \/ m # t.child[t.up[m]]["right"] THEN t.up[m]
                                    ELSE Ancestor(t, t.up[m], "left")
        /\ Ancestor(t, m, "right") = IF t.up[m] = NULL \/ m # t.child[t.up[m]]["left"] THEN t.up[m]
                                     ELSE Ancestor(t, t.up[m], "right")
  <2> TAKE m \in Nodes
  <2>1. Ancestor(t, m, "left") = IF t.up[m] = NULL \/ m # t.child[t.up[m]][Opposite("left")] THEN t.up[m]
                                 ELSE Ancestor(t, t.up[m], "left")
    BY <1>0, <1>2, AncestorIs
  <2>2. Ancestor(t, m, "right") = IF t.up[m] = NULL \/ m # t.child[t.up[m]][Opposite("right")] THEN t.up[m]
                                  ELSE Ancestor(t, t.up[m], "right")
    BY <1>0, <1>2, AncestorIs
  <2> QED BY <1>0, <2>1, <2>2
<1>4. /\ \A m \in Nodes : w[m] \in List
      /\ \A m \in Nodes :
              LET l == w[t.child[m]["left"]]
                  q == w[t.child[m]["right"]]
              IN  /\ l \in List /\ q \in List /\ One(m) \in List
                  /\ w[m] = Cat(l, Cat(One(m), q)) /\ w[m] = Cat(Cat(l, One(m)), q)
  BY ListSplits
<1> DEFINE T == {m \in Nodes : In(t, m) => \E A, Z : Around(t, w, m, A, Z)}
<1>5. ASSUME NEW m \in Nodes, \A j \in Nodes : up[j] < up[m] => j \in T PROVE m \in T
  <2> SUFFICES ASSUME In(t, m) PROVE \E A, Z : Around(t, w, m, A, Z)
    OBVIOUS
  <2>1. CASE t.up[m] = NULL
    <3>1. t.root = m
      BY <2>1 DEF In
    <3>2. Cat(Nil, Cat(w[m], Nil)) = w[m] /\ Nil \in List
      BY <1>4, NilLaws
    <3>3. Around(t, w, m, Nil, Nil)
      BY <1>3, <2>1, <3>1, <3>2, NilLaws DEF Around
    <3> QED BY <3>3
  <2>2. CASE t.up[m] # NULL
    <3> DEFINE p == t.up[m]
               L == w[t.child[p]["left"]]
               R == w[t.child[p]["right"]]
               o == One(p)
    <3>1. p \in Nodes /\ up[p] < up[m]
      BY <1>0, <1>1, <2>2 DEF Pointer
    <3>2. PICK d \in Sides : t.child[p][d] = m /\ t.child[p][Opposite(d)] # m
      BY <1>0, <2>2, HangsOnce DEF HangsFrom
    <3>3. In(t, p)
      BY <1>0, <3>1, <3>2 DEF Links
    <3>4. PICK A, Z : Around(t, w, p, A, Z)
      BY <1>5, <3>1, <3>3
    <3>5. L \in List /\ R \in List /\ o \in List /\ w[p] = Cat(L, Cat(o, R)) /\ w[p] = Cat(Cat(L, o), R)
      BY <1>4, <3>1
    <3>6. FirstIn(o) = p /\ LastIn(o) = p /\ o # Nil
      BY <3>1, OneLaws
    <3>7. A \in List /\ Z \in List /\ w[t.root] = Cat(A, Cat(w[p], Z))
          /\ FirstIn(Z) = Ancestor(t, p, "left") /\ LastIn(A) = Ancestor(t, p, "right")
      BY <3>4 DEF Around
    <3>8. /\ (d = "left" => L = w[m] /\ m # t.child[p]["right"] /\ m = t.child[p]["left"])
          /\ (d = "right" => R = w[m] /\ m # t.child[p]["left"] /\ m = t.child[p]["right"])
      BY <1>0, <3>2
    <3>9. /\ Ancestor(t, m, "left") = IF p = NULL \/ m # t.child[p]["right"] THEN p ELSE Ancestor(t, p, "left")
          /\ Ancestor(t, m, "right") = IF p = NULL \/ m # t.child[p]["left"] THEN p ELSE Ancestor(t, p, "right")
      BY <1>3
    <3>10. p # NULL
      BY <2>2
    <3> HIDE DEF p, L, R, o
    <3>11. CASE d = "left"
      <4> DEFINE K == Cat(o, R)
      <4>1. K \in List /\ w[p] = Cat(L, K) /\ FirstIn(K) = p /\ K # Nil
        BY <3>5, <3>6, CatLaws
      <4> HIDE DEF K
      <4>2. Cat(K, Z) \in List /\ FirstIn(Cat(K, Z)) = p
        BY <3>7, <4>1, CatLaws
      <4>3. w[t.root] = Cat(A, Cat(L, Cat(K, Z)))
        BY <3>5, <3>7, <4>1, CatAssociates
      <4>4. Ancestor(t, m, "left") = p /\ Ancestor(t, m, "right") = Ancestor(t, p, "right")
        BY <3>8, <3>9, <3>10, <3>11
      <4>5. Around(t, w, m, A, Cat(K, Z))
        BY <3>7, <3>8, <3>11, <4>2, <4>3, <4>4 DEF Around
      <4> QED BY <4>5
    <3>12. CASE d = "right"
      <4> DEFINE K == Cat(L, o)
      <4>1. K \in List /\ w[p] = Cat(K, R) /\ LastIn(K) = p /\ K # Nil
        BY <3>5, <3>6, CatLaws
      <4> HIDE DEF K
      <4>2. Cat(A, K) \in List /\ LastIn(Cat(A, K)) = p /\ Cat(R, Z) \in List
        BY <3>5, <3>7, <4>1, CatLaws
      <4>3. w[t.root] = Cat(Cat(A, K), Cat(R, Z))
        BY <3>5, <3>7, <4>1, <4>2, CatAssociates
      <4>4. Ancestor(t, m, "right") = p /\ Ancestor(t, m, "left") = Ancestor(t, p, "left")
        BY <3>8, <3>9, <3>10, <3>12
      <4>5. Around(t, w, m, Cat(A, K), Z)
        BY <3>7, <3>8, <3>12, <4>2, <4>3, <4>4 DEF Around
      <4> QED BY <4>5
    <3> QED BY <3>11, <3>12 DEF Sides
  <2> QED BY <2>1, <2>2
<1> HIDE DEF T
<1>6. \A m \in Nodes : m \in T
  BY <1>5, ByRank
<1> QED BY <1>6 DEF T

(* rb_next and rb_prev name the neighbours in the list. *)
LEMMA NeighboursAre ==
  ASSUME NEW t, Shape(t), NEW w, Listed(t, w), NEW n \in Nodes, In(t, n)
  PROVE  \E A, Z : /\ A \in List /\ Z \in List /\ w[t.root] = Cat(A, Cat(One(n), Z))
                   /\ FirstIn(Z) = rb_next(t, n) /\ LastIn(A) = rb_prev(t, n)
<1> DEFINE a == t.child[n]["left"]
           b == t.child[n]["right"]
           o == One(n)
<1>0. /\ Opposite("left") = "right" /\ Opposite("right") = "left" /\ w[NULL] = Nil
      /\ (a # NULL => a \in Nodes) /\ (b # NULL => b \in Nodes)
  BY DEF Opposite, Listed, Shape, TreeOK, Pointer, Sides, Nil
<1>1. PICK A, Z : Around(t, w, n, A, Z)
  BY AroundIs
<1>2. /\ rb_next(t, n) = IF b # NULL THEN Farthest(t, b, "left") ELSE Ancestor(t, n, "left")
      /\ rb_prev(t, n) = IF a # NULL THEN Farthest(t, a, "right") ELSE Ancestor(t, n, "right")
  BY <1>0 DEF rb_next, rb_prev, Neighbour
<1>4. /\ w[a] \in List /\ w[b] \in List /\ o \in List /\ w[n] = Cat(w[a], Cat(o, w[b]))
      /\ \A m \in Nodes : w[m] # Nil
  BY ListSplits
<1>3. /\ (b # NULL => Farthest(t, b, "left") = FirstIn(w[b]) /\ w[b] # Nil)
      /\ (a # NULL => Farthest(t, a, "right") = LastIn(w[a]) /\ w[a] # Nil)
  BY <1>0, <1>4, FarthestIsEnd
<1>5. /\ A \in List /\ Z \in List /\ w[t.root] = Cat(A, Cat(w[n], Z))
      /\ FirstIn(Z) = Ancestor(t, n, "left") /\ LastIn(A) = Ancestor(t, n, "right")
  BY <1>1 DEF Around
<1> HIDE DEF a, b, o
<1>6. /\ Cat(o, w[b]) \in List /\ Cat(w[b], Z) \in List /\ Cat(A, w[a]) \in List /\ Cat(o, Cat(w[b], Z)) \in List
  BY <1>4, <1>5, CatLaws
<1>7. w[t.root] = Cat(Cat(A, w[a]), Cat(o, Cat(w[b], Z)))
  <2>1. Cat(w[n], Z) = Cat(w[a], Cat(Cat(o, w[b]), Z))
    BY <1>4, <1>5, <1>6, CatAssociates
  <2>2. Cat(Cat(o, w[b]), Z) = Cat(o, Cat(w[b], Z))
    BY <1>4, <1>5, CatAssociates
  <2> QED BY <1>4, <1>5, <1>6, <2>1, <2>2, CatAssociates
<1>9. FirstIn(Cat(w[b], Z)) = rb_next(t, n)
  <2>1. CASE b = NULL
    BY <1>0, <1>2, <1>4, <1>5, <2>1, CatLaws
  <2>2. CASE b # NULL
    BY <1>2, <1>3, <1>4, <1>5, <2>2, CatLaws
  <2> QED BY <2>1, <2>2
<1>10. LastIn(Cat(A, w[a])) = rb_prev(t, n)
  <2>1. CASE a = NULL
    BY <1>0, <1>2, <1>4, <1>5, <2>1, CatLaws
  <2>2. CASE a # NULL
    BY <1>2, <1>3, <1>4, <1>5, <2>2, CatLaws
  <2> QED BY <2>1, <2>2
<1> QED BY <1>6, <1>7, <1>9, <1>10 DEF o

----------------------------------------------------------------------------
(* The order of the nodes, and what each change of the tree does to it.  A   *)
(* tree has one family of lists, so the lists of a changed tree are found by *)
(* writing them down.                                                        *)
Lists(t, w) ==
    /\ w[NULL] = Nil /\ \A n \in Pointer : w[n] \in List
    /\ \A n \in Nodes : w[n] = Cat(w[t.child[n]["left"]], Cat(One(n), w[t.child[n]["right"]]))

Order(t) == OrderFrom(t, t.root)

(* A tree has at most one family of lists. *)
LEMMA ListsUnique ==
  ASSUME NEW t, Shape(t), NEW v, Lists(t, v), NEW w, Lists(t, w)
  PROVE  \A m \in Pointer : v[m] = w[m]
<1>1. PICK r \in [Pointer -> Nat] : \A m \in Nodes, d \in Sides : r[t.child[m][d]] < r[m]
  BY Ranks
<1>2. /\ \A n \in Nodes : t.child[n]["left"] \in Pointer /\ t.child[n]["right"] \in Pointer
      /\ "left" \in Sides /\ "right" \in Sides
  BY DEF Shape, TreeOK, Sides
<1> DEFINE T == {m \in Pointer : v[m] = w[m]}
<1>3. ASSUME NEW m \in Pointer, \A k \in Pointer : r[k] < r[m] => k \in T PROVE m \in T
  <2>1. CASE m = NULL
    BY <2>1 DEF Lists
  <2>2. CASE m # NULL
    <3>1. m \in Nodes
      BY <2>2 DEF Pointer
    <3>2. v[t.child[m]["left"]] = w[t.child[m]["left"]] /\ v[t.child[m]["right"]] = w[t.child[m]["right"]]
      BY <1>1, <1>2, <1>3, <3>1
    <3>3. v[m] = w[m]
      BY <3>1, <3>2 DEF Lists
    <3> QED BY <3>3
  <2> QED BY <2>1, <2>2
<1> HIDE DEF T
<1>4. \A m \in Pointer : m \in T
  BY <1>3, ByRank
<1> QED BY <1>4 DEF T

(* The walk gives it, without repetition and with the nodes of the tree. *)
LEMMA TreeHasLists ==
  ASSUME NEW t, Shape(t)
  PROVE  \E w : Lists(t, w) /\ Listed(t, w)
<1>1. PICK w : Listed(t, w)
  BY WalkUnfolds
<1>2. Lists(t, w)
  BY <1>1, ListSplits DEF Lists
<1> QED BY <1>1, <1>2

(* The lists of a tree are those of the walk. *)
LEMMA ListsAre ==
  ASSUME NEW t, Shape(t), NEW w, Lists(t, w)
  PROVE  /\ Order(t) = w[t.root] /\ Order(t) \in List
         /\ \A m \in Pointer : Distinct(w[m])
         /\ Range(Order(t)) = {n \in Nodes : In(t, n)}
<1>1. PICK v : Listed(t, v) /\ \A m : OrderFrom(t, m) = v[m]
  BY WalkUnfolds
<1>2. Lists(t, v)
  BY <1>1, ListSplits DEF Lists
<1>3. \A m \in Pointer : v[m] = w[m]
  BY <1>2, ListsUnique
<1>4. t.root \in Pointer
  BY DEF Shape, TreeOK
<1>5. Order(t) = v[t.root]
  BY <1>1 DEF Order
<1>6. \A m \in Pointer : Distinct(v[m])
  BY <1>1, ListedDistinct
<1>7. Range(v[t.root]) = {n \in Nodes : In(t, n)}
  BY <1>1, ListedVisits, VisitsAll
<1>8. v[t.root] \in List
  BY <1>2, <1>4 DEF Lists
<1> QED BY <1>3, <1>4, <1>5, <1>6, <1>7, <1>8

(* The same links give the same order. *)
LEMMA SameOrder ==
  ASSUME NEW t, Shape(t), NEW u, Shape(u), u.root = t.root,
         \A m \in Nodes, x \in Sides : u.child[m][x] = t.child[m][x]
  PROVE  Order(u) = Order(t)
<1>1. PICK w : Lists(t, w)
  BY TreeHasLists
<1>2. "left" \in Sides /\ "right" \in Sides
  BY DEF Sides
<1>3. Lists(u, w)
  BY <1>1, <1>2 DEF Lists
<1> QED BY <1>1, <1>3, ListsAre

(* A rotation keeps the order. *)
LEMMA LiftOrder ==
  ASSUME NEW t, Shape(t), NEW p \in Nodes, In(t, p), NEW e \in Sides, NEW c \in Nodes, t.child[p][e] = c,
         NEW u, Shape(u), Lifted(t, u, p, c, e)
  PROVE  Order(u) = Order(t)
<1> DEFINE d == Opposite(e)
           i == t.child[c][d]
           a == t.child[c][e]
           b == t.child[p][d]
<1>0. /\ TreeOK(t) /\ Links(t) /\ NULL \notin Nodes /\ "left" \in Sides /\ "right" \in Sides
      /\ d \in Sides /\ d # e /\ Opposite(d) = e /\ (\A x \in Sides : x = d \/ x = e)
      /\ t.root \in Pointer /\ \A m \in Nodes, x \in Sides : t.child[m][x] \in Pointer
  BY NullIsNoNode, SidesAre DEF Shape, TreeOK, Sides
<1>1. PICK r, B : Ranked(t, r, B)
  BY DEF Shape
<1>2. PICK w : Lists(t, w)
  BY TreeHasLists
<1>3. /\ i \in Pointer /\ a \in Pointer /\ b \in Pointer
      /\ c # p /\ i # c /\ i # p /\ a # c /\ a # p /\ b # p /\ b # c /\ p # NULL /\ c # NULL
      /\ t.up[c] = p
  <2>1. i \in Pointer /\ a \in Pointer /\ b \in Pointer /\ p # NULL /\ c # NULL
    BY <1>0
  <2>2. c # p /\ i # c /\ a # c /\ b # p
    BY <1>0, <1>1, RankedApart
  <2>3. t.up[c] = p /\ b # c
    BY <1>0, <2>1 DEF Links
  <2>4. i # p /\ a # p
    BY <1>0, <1>1, <2>1, RankedApart
  <2> QED BY <2>1, <2>2, <2>3, <2>4
<1>4. /\ u.root = IF t.root = p THEN c ELSE t.root
      /\ \A m \in Nodes, x \in Sides :
           u.child[m][x] = IF m = p /\ x = e THEN i
                           ELSE IF m = c /\ x = d THEN p
                           ELSE IF t.child[m][x] = p THEN c ELSE t.child[m][x]
  BY DEF Lifted
<1>5. t.child[p][d] = b /\ t.child[c][e] = a /\ t.child[c][d] = i /\ t.child[p][e] = c
  OBVIOUS
<1> HIDE DEF d, i, a, b
<1>6. u.child[p][e] = i /\ u.child[p][d] = b /\ u.child[c][d] = p /\ u.child[c][e] = a
  BY <1>0, <1>3, <1>4, <1>5
<1> DEFINE o == One(p)
           k == One(c)
           new == IF e = "left" THEN Cat(w[i], Cat(o, w[b])) ELSE Cat(w[b], Cat(o, w[i]))
           v == [m \in Pointer |-> IF m = p THEN new ELSE IF m = c THEN w[p] ELSE w[m]]
<1>7. o \in List /\ k \in List
  BY OneLaws
<1>8. /\ w[NULL] = Nil /\ w[i] \in List /\ w[a] \in List /\ w[b] \in List /\ w[p] \in List /\ w[c] \in List
      /\ \A m \in Pointer : w[m] \in List
  BY <1>2, <1>3 DEF Lists, Pointer
<1>9. /\ (e = "left" => w[p] = Cat(w[c], Cat(o, w[b])) /\ w[c] = Cat(w[a], Cat(k, w[i])))
      /\ (e = "right" => w[p] = Cat(w[b], Cat(o, w[c])) /\ w[c] = Cat(w[i], Cat(k, w[a])))
  <2>1. (e = "left" => d = "right") /\ (e = "right" => d = "left")
    BY DEF d, Opposite
  <2> QED BY <1>2, <1>5, <2>1 DEF Lists
<1> HIDE DEF o, k
<1>10. new \in List
  BY <1>7, <1>8, CatLaws
<1>11. /\ (e = "left" => w[p] = Cat(w[a], Cat(k, new)))
       /\ (e = "right" => w[p] = Cat(new, Cat(k, w[a])))
  <2>1. CASE e = "left"
    <3>1. Cat(o, w[b]) \in List /\ Cat(k, w[i]) \in List
      BY <1>7, <1>8, CatLaws
    <3>2. Cat(Cat(w[a], Cat(k, w[i])), Cat(o, w[b])) = Cat(w[a], Cat(Cat(k, w[i]), Cat(o, w[b])))
      BY <1>8, <3>1, CatAssociates
    <3>3. Cat(Cat(k, w[i]), Cat(o, w[b])) = Cat(k, Cat(w[i], Cat(o, w[b])))
      BY <1>7, <1>8, <3>1, CatAssociates
    <3> QED BY <1>9, <2>1, <3>2, <3>3
  <2>2. CASE e = "right"
    <3>1. Cat(o, w[i]) \in List /\ Cat(k, w[a]) \in List
      BY <1>7, <1>8, CatLaws
    <3>2. Cat(Cat(w[b], Cat(o, w[i])), Cat(k, w[a])) = Cat(w[b], Cat(Cat(o, w[i]), Cat(k, w[a])))
      BY <1>8, <3>1, CatAssociates
    <3>3. Cat(Cat(o, w[i]), Cat(k, w[a])) = Cat(o, Cat(w[i], Cat(k, w[a])))
      BY <1>7, <1>8, <3>1, CatAssociates
    <3> QED BY <1>9, <2>2, <3>2, <3>3
  <2> QED BY <2>1, <2>2
<1>12. /\ v[p] = new /\ v[c] = w[p] /\ v[i] = w[i] /\ v[a] = w[a] /\ v[b] = w[b]
       /\ \A m \in Pointer : m # p /\ m # c => v[m] = w[m]
       /\ \A m \in Pointer : v[m] \in List
  <2> HIDE DEF new
  <2> QED BY <1>3, <1>8, <1>10 DEF Pointer
<1>13. new = IF e = "left" THEN Cat(w[i], Cat(o, w[b])) ELSE Cat(w[b], Cat(o, w[i]))
  OBVIOUS
<1> HIDE DEF new, v
<1>14. ASSUME NEW m \in Nodes
       PROVE  v[m] = Cat(v[u.child[m]["left"]], Cat(One(m), v[u.child[m]["right"]]))
  <2>1. CASE m = p
    <3>1. CASE e = "left"
      <4>1. u.child[p]["left"] = i /\ u.child[p]["right"] = b
        BY <1>0, <1>6, <3>1
      <4> QED BY <1>12, <1>13, <2>1, <3>1, <4>1 DEF o
    <3>2. CASE e = "right"
      <4>1. u.child[p]["left"] = b /\ u.child[p]["right"] = i
        BY <1>0, <1>6, <3>2
      <4> QED BY <1>12, <1>13, <2>1, <3>2, <4>1 DEF o
    <3> QED BY <3>1, <3>2 DEF Sides
  <2>2. CASE m = c
    <3>1. CASE e = "left"
      <4>1. u.child[c]["left"] = a /\ u.child[c]["right"] = p
        BY <1>0, <1>6, <3>1
      <4> QED BY <1>11, <1>12, <2>2, <3>1, <4>1 DEF k
    <3>2. CASE e = "right"
      <4>1. u.child[c]["left"] = p /\ u.child[c]["right"] = a
        BY <1>0, <1>6, <3>2
      <4> QED BY <1>11, <1>12, <2>2, <3>2, <4>1 DEF k
    <3> QED BY <3>1, <3>2 DEF Sides
  <2>3. CASE m # p /\ m # c
    <3>1. ASSUME NEW x \in Sides PROVE v[u.child[m][x]] = w[t.child[m][x]]
      <4>1. u.child[m][x] = IF t.child[m][x] = p THEN c ELSE t.child[m][x]
        BY <1>4, <2>3
      <4>2. t.child[m][x] \in Pointer /\ t.child[m][x] # c
        BY <1>0, <1>3, <2>3 DEF Links
      <4> QED BY <1>12, <4>1, <4>2
    <3>2. v[m] = w[m]
      BY <1>12, <2>3 DEF Pointer
    <3>3. w[m] = Cat(w[t.child[m]["left"]], Cat(One(m), w[t.child[m]["right"]]))
      BY <1>2 DEF Lists
    <3>4. v[u.child[m]["left"]] = w[t.child[m]["left"]] /\ v[u.child[m]["right"]] = w[t.child[m]["right"]]
      BY <1>0, <3>1
    <3> QED BY <3>2, <3>3, <3>4
  <2> QED BY <2>1, <2>2, <2>3
<1>15. v[NULL] = Nil
  BY <1>3, <1>8, <1>12 DEF Pointer
<1>16. Lists(u, v)
  BY <1>12, <1>14, <1>15 DEF Lists
<1>17. v[u.root] = w[t.root]
  <2>1. t.root # c
    BY <1>0, <1>3 DEF Links
  <2> QED BY <1>0, <1>4, <1>12, <2>1
<1> QED BY <1>2, <1>16, <1>17, ListsAre

----------------------------------------------------------------------------
(* More of the algebra of lists: taking a list apart, leaving an element out *)
(* and renaming elements.                                                    *)
LEMMA Halves ==
  ASSUME NEW a \in List, NEW b \in List
  PROVE  /\ SubSeq(Cat(a, b), 1, Len(a)) = a
         /\ SubSeq(Cat(a, b), Len(a) + 1, Len(Cat(a, b))) = b
<1> DEFINE q == a \o b
<1>1. /\ a \in Seq(Nodes) /\ b \in Seq(Nodes) /\ Len(a) \in Nat /\ Len(b) \in Nat /\ q \in Seq(Nodes)
      /\ Len(q) = Len(a) + Len(b)
      /\ \A i \in 1 .. Len(a) + Len(b) : q[i] = IF i <= Len(a) THEN a[i] ELSE b[i - Len(a)]
  BY ConcatProperties, LenProperties DEF List
<1> HIDE DEF q
<1>2. \A i \in 1 .. Len(a) + Len(b) : q[i] \in Nodes
  BY <1>1, ElementOfSeq
<1>3. SubSeq(q, 1, Len(a)) = a
  <2> DEFINE s == SubSeq(q, 1, Len(a))
             n == Len(a)
  <2>0. n \in Int /\ 1 \in Int
    BY <1>1
  <2>1. \A i \in 1 .. n : q[i] \in Nodes
    BY <1>1, <1>2
  <2>2. /\ s \in Seq(Nodes) /\ Len(s) = (IF 1 <= n THEN n - 1 + 1 ELSE 0)
        /\ \A i \in 1 .. n - 1 + 1 : s[i] = q[1 + i - 1]
    BY <2>0, <2>1, SubSeqProperties
  <2> HIDE DEF s
  <2>3. Len(s) = Len(a)
    BY <1>1, <2>2
  <2>4. ASSUME NEW i \in 1 .. Len(a) PROVE s[i] = a[i]
    <3>1. i \in 1 .. n - 1 + 1 /\ 1 + i - 1 = i /\ i \in 1 .. Len(a) + Len(b) /\ i <= Len(a)
      BY <1>1
    <3> QED BY <1>1, <2>2, <3>1
  <2>5. s = a
    BY <1>1, <2>2, <2>3, <2>4, SeqEqual
  <2> QED BY <2>5 DEF s
<1>4. SubSeq(q, Len(a) + 1, Len(q)) = b
  <2> DEFINE m == Len(a) + 1
             n == Len(q)
             s == SubSeq(q, m, n)
  <2>0. m \in Int /\ n \in Int
    BY <1>1
  <2>1. \A i \in m .. n : q[i] \in Nodes
    BY <1>1, <1>2
  <2>2. /\ s \in Seq(Nodes) /\ Len(s) = (IF m <= n THEN n - m + 1 ELSE 0)
        /\ \A i \in 1 .. n - m + 1 : s[i] = q[m + i - 1]
    BY <2>0, <2>1, SubSeqProperties
  <2> HIDE DEF s
  <2>3. Len(s) = Len(b)
    BY <1>1, <2>2
  <2>4. ASSUME NEW i \in 1 .. Len(b) PROVE s[i] = b[i]
    <3>1. /\ i \in 1 .. n - m + 1 /\ m + i - 1 = Len(a) + i /\ Len(a) + i \in 1 .. Len(a) + Len(b)
          /\ ~(Len(a) + i <= Len(a)) /\ Len(a) + i - Len(a) = i
      BY <1>1
    <3>2. s[i] = q[Len(a) + i]
      BY <2>2, <3>1
    <3> QED BY <1>1, <3>1, <3>2
  <2>5. s = b
    BY <1>1, <2>2, <2>3, <2>4, SeqEqual
  <2> QED BY <2>5 DEF s
<1> QED BY <1>3, <1>4 DEF q, Cat

(* A list taken apart at a place. *)
LEMMA SplitAt ==
  ASSUME NEW q \in List, NEW i \in 1 .. Len(q)
  PROVE  LET A == SubSeq(q, 1, i - 1)
             Z == SubSeq(q, i + 1, Len(q))
         IN  A \in List /\ Z \in List /\ q[i] \in Nodes /\ q = Cat(A, Cat(One(q[i]), Z))
<1> DEFINE A == SubSeq(q, 1, i - 1)
           Z == SubSeq(q, i + 1, Len(q))
<1>1. q \in Seq(Nodes) /\ Len(q) \in Nat /\ i \in Int /\ \A k \in 1 .. Len(q) : q[k] \in Nodes
  BY LenProperties, ElementOfSeq DEF List
<1>2. A \in Seq(Nodes)
  <2>1. 1 \in Int /\ i - 1 \in Int /\ \A k \in 1 .. i - 1 : q[k] \in Nodes
    BY <1>1
  <2> QED BY <2>1, SubSeqProperties
<1>3. Z \in Seq(Nodes)
  <2>1. i + 1 \in Int /\ Len(q) \in Int /\ \A k \in i + 1 .. Len(q) : q[k] \in Nodes
    BY <1>1
  <2> QED BY <2>1, SubSeqProperties
<1>4. SubSeq(q, i, Len(q)) = <<q[i]>> \o Z
  BY <1>1, SubSeqRecursiveFirst
<1>5. A \o SubSeq(q, i, Len(q)) = q
  <2>1. 1 \in 1 .. Len(q) + 1 /\ i - 1 \in 1 - 1 .. Len(q) /\ Len(q) \in i - 1 .. Len(q) /\ i - 1 + 1 = i
    BY <1>1
  <2>2. SubSeq(q, 1, i - 1) \o SubSeq(q, i - 1 + 1, Len(q)) = SubSeq(q, 1, Len(q))
    BY <1>1, <2>1, ConcatAdjacentSubSeq
  <2>3. SubSeq(q, 1, Len(q)) = q
    BY <1>1, SubSeqFull
  <2> QED BY <2>1, <2>2, <2>3
<1> QED BY <1>1, <1>2, <1>3, <1>4, <1>5 DEF List, Cat, One

(* A list taken apart at one of its elements. *)
LEMMA HasSpot ==
  ASSUME NEW q \in List, NEW x \in Range(q)
  PROVE  x \in Nodes /\ \E A, Z \in List : q = Cat(A, Cat(One(x), Z))
<1>1. PICK i \in 1 .. Len(q) : x = q[i]
  BY ListFacts DEF Range
<1> QED BY <1>1, SplitAt

(* The list without x. *)
Without(q, x) ==
    IF x \in Range(q)
    THEN CHOOSE s : \E A, Z \in List : q = Cat(A, Cat(One(x), Z)) /\ s = Cat(A, Z)
    ELSE q

(* Leaving out the one place of x. *)
LEMMA WithoutIs ==
  ASSUME NEW A \in List, NEW Z \in List, NEW x \in Nodes, Distinct(Cat(A, Cat(One(x), Z)))
  PROVE  Without(Cat(A, Cat(One(x), Z)), x) = Cat(A, Z)
<1> DEFINE q == Cat(A, Cat(One(x), Z))
           P(s) == \E B, Y \in List : q = Cat(B, Cat(One(x), Y)) /\ s = Cat(B, Y)
<1>1. x \in Range(q)
  <2>1. One(x) \in List /\ Range(One(x)) = {x}
    BY OneLaws
  <2>2. Cat(One(x), Z) \in List /\ x \in Range(Cat(One(x), Z))
    BY <2>1, CatLaws
  <2> QED BY <2>2, CatLaws
<1>2. P(Cat(A, Z))
  OBVIOUS
<1>3. \A s : P(s) => s = Cat(A, Z)
  BY OneSpot
<1>4. Without(q, x) = CHOOSE s : P(s)
  BY <1>1 DEF Without
<1> HIDE DEF P, q
<1>5. P(CHOOSE s : P(s))
  BY <1>2
<1> QED BY <1>3, <1>4, <1>5 DEF q

(* Leaving out what is not there. *)
LEMMA WithoutNone ==
  ASSUME NEW q, NEW x, x \notin Range(q)
  PROVE  Without(q, x) = q
BY DEF Without

(* Leaving out the only element. *)
LEMMA WithoutOne ==
  ASSUME NEW x \in Nodes
  PROVE  Without(One(x), x) = Nil
<1> DEFINE o == One(x)
<1>1. o \in List /\ Distinct(o) /\ Nil \in List
  BY OneLaws, NilLaws
<1>2. Cat(o, Nil) = o /\ Cat(Nil, o) = o /\ Cat(Nil, Nil) = Nil
  BY <1>1, NilLaws
<1>3. Distinct(Cat(Nil, Cat(One(x), Nil)))
  BY <1>1, <1>2
<1>4. Without(Cat(Nil, Cat(One(x), Nil)), x) = Cat(Nil, Nil)
  BY <1>1, <1>3, WithoutIs
<1> QED BY <1>2, <1>4

(* Leaving x out of a concatenation. *)
LEMMA WithoutCat ==
  ASSUME NEW a \in List, NEW b \in List, Distinct(Cat(a, b)), NEW x \in Nodes
  PROVE  /\ Without(a, x) \in List /\ Without(b, x) \in List
         /\ Without(Cat(a, b), x) = Cat(Without(a, x), Without(b, x))
<1>0. Distinct(a) /\ Distinct(b) /\ Range(a) \cap Range(b) = {} /\ Range(Cat(a, b)) = Range(a) \cup Range(b)
      /\ Cat(a, b) \in List
  BY CatLaws
<1>a. One(x) \in List
  BY OneLaws
<1>1. CASE x \in Range(a)
  <2>1. PICK A \in List, Z \in List : a = Cat(A, Cat(One(x), Z))
    BY <1>1, HasSpot
  <2>2. Without(a, x) = Cat(A, Z)
    BY <1>0, <2>1, WithoutIs
  <2>3. x \notin Range(b)
    BY <1>0, <1>1
  <2>4. Without(b, x) = b
    BY <2>3, WithoutNone
  <2>5. Cat(One(x), Z) \in List /\ Cat(Z, b) \in List /\ Cat(A, Z) \in List
    BY <1>a, CatLaws
  <2>6. Cat(a, b) = Cat(A, Cat(One(x), Cat(Z, b)))
    <3>1. Cat(Cat(A, Cat(One(x), Z)), b) = Cat(A, Cat(Cat(One(x), Z), b))
      BY <2>5, CatAssociates
    <3>2. Cat(Cat(One(x), Z), b) = Cat(One(x), Cat(Z, b))
      BY <1>a, CatAssociates
    <3> QED BY <2>1, <3>1, <3>2
  <2>7. Distinct(Cat(A, Cat(One(x), Cat(Z, b))))
    BY <2>6
  <2>8. Without(Cat(A, Cat(One(x), Cat(Z, b))), x) = Cat(A, Cat(Z, b))
    BY <2>5, <2>7, WithoutIs
  <2>9. Cat(A, Cat(Z, b)) = Cat(Cat(A, Z), b)
    BY CatAssociates
  <2> QED BY <2>2, <2>4, <2>5, <2>6, <2>8, <2>9
<1>2. CASE x \in Range(b)
  <2>1. PICK A \in List, Z \in List : b = Cat(A, Cat(One(x), Z))
    BY <1>2, HasSpot
  <2>2. Without(b, x) = Cat(A, Z)
    BY <1>0, <2>1, WithoutIs
  <2>3. x \notin Range(a)
    BY <1>0, <1>2
  <2>4. Without(a, x) = a
    BY <2>3, WithoutNone
  <2>5. Cat(One(x), Z) \in List /\ Cat(a, A) \in List /\ Cat(A, Z) \in List
    BY <1>a, CatLaws
  <2>6. Cat(a, b) = Cat(Cat(a, A), Cat(One(x), Z))
    BY <2>1, <2>5, CatAssociates
  <2>7. Distinct(Cat(Cat(a, A), Cat(One(x), Z)))
    BY <2>6
  <2>8. Without(Cat(Cat(a, A), Cat(One(x), Z)), x) = Cat(Cat(a, A), Z)
    BY <2>5, <2>7, WithoutIs
  <2>9. Cat(Cat(a, A), Z) = Cat(a, Cat(A, Z))
    BY CatAssociates
  <2> QED BY <2>2, <2>4, <2>5, <2>6, <2>8, <2>9
<1>3. CASE x \notin Range(a) /\ x \notin Range(b)
  <2>1. Without(a, x) = a /\ Without(b, x) = b /\ Without(Cat(a, b), x) = Cat(a, b)
    BY <1>0, <1>3, WithoutNone
  <2> QED BY <2>1
<1> QED BY <1>1, <1>2, <1>3

(* The list with n and s exchanged. *)
Exchanged(q, n, s) == [i \in DOMAIN q |-> Other(n, s, q[i])]

(* Exchanging two nodes, place by place. *)
LEMMA ExchangedIs ==
  ASSUME NEW n \in Nodes, NEW s \in Nodes, NEW a \in List
  PROVE  /\ Exchanged(a, n, s) \in List /\ Len(Exchanged(a, n, s)) = Len(a)
         /\ \A i \in 1 .. Len(a) : Exchanged(a, n, s)[i] = Other(n, s, a[i])
         /\ n \notin Range(a) /\ s \notin Range(a) => Exchanged(a, n, s) = a
<1> DEFINE e == Exchanged(a, n, s)
<1>1. a \in Seq(Nodes) /\ Len(a) \in Nat /\ DOMAIN a = 1 .. Len(a) /\ \A i \in 1 .. Len(a) : a[i] \in Nodes
  BY LenProperties, ElementOfSeq DEF List
<1>2. e = [i \in 1 .. Len(a) |-> Other(n, s, a[i])]
  BY <1>1 DEF Exchanged
<1>3. \A i \in 1 .. Len(a) : Other(n, s, a[i]) \in Nodes
  BY <1>1 DEF Other
<1>4. e \in [1 .. Len(a) -> Nodes]
  BY <1>2, <1>3
<1> HIDE DEF e
<1>5. e \in Seq(Nodes) /\ Len(e) = Len(a)
  BY <1>1, <1>4
<1>6. ASSUME n \notin Range(a), s \notin Range(a) PROVE e = a
  <2>1. \A i \in 1 .. Len(a) : a[i] # n /\ a[i] # s
    BY <1>1, <1>6 DEF Range
  <2>2. \A i \in 1 .. Len(a) : e[i] = a[i]
    BY <1>2, <2>1 DEF Other
  <2> QED BY <1>1, <1>5, <2>2, SeqEqual
<1> QED BY <1>2, <1>5, <1>6 DEF e, List

(* Exchanging two nodes in a concatenation. *)
LEMMA ExchangedCat ==
  ASSUME NEW n \in Nodes, NEW s \in Nodes, NEW a \in List, NEW b \in List
  PROVE  Exchanged(Cat(a, b), n, s) = Cat(Exchanged(a, n, s), Exchanged(b, n, s))
<1> DEFINE f == Exchanged(a, n, s)
           g == Exchanged(b, n, s)
           h == Exchanged(Cat(a, b), n, s)
           k == Cat(f, g)
           q == Cat(a, b)
<1>1. /\ f \in List /\ Len(f) = Len(a) /\ \A i \in 1 .. Len(a) : f[i] = Other(n, s, a[i])
  BY ExchangedIs
<1>2. /\ g \in List /\ Len(g) = Len(b) /\ \A i \in 1 .. Len(b) : g[i] = Other(n, s, b[i])
  BY ExchangedIs
<1>3. q \in List /\ Len(q) = Len(a) + Len(b) /\ Len(a) \in Nat /\ Len(b) \in Nat
      /\ \A i \in 1 .. Len(a) + Len(b) : q[i] = IF i <= Len(a) THEN a[i] ELSE b[i - Len(a)]
  BY ConcatProperties, LenProperties DEF List, Cat
<1> HIDE DEF f, g
<1>4. k \in List /\ Len(k) = Len(f) + Len(g)
      /\ \A i \in 1 .. Len(f) + Len(g) : k[i] = IF i <= Len(f) THEN f[i] ELSE g[i - Len(f)]
  <2>1. f \in Seq(Nodes) /\ g \in Seq(Nodes)
    BY <1>1, <1>2 DEF List
  <2>2. k = f \o g
    BY DEF Cat
  <2>3. f \o g \in Seq(Nodes) /\ Len(f \o g) = Len(f) + Len(g)
        /\ \A i \in 1 .. Len(f) + Len(g) : (f \o g)[i] = IF i <= Len(f) THEN f[i] ELSE g[i - Len(f)]
    BY <2>1, ConcatProperties
  <2> HIDE DEF k
  <2> QED BY <2>2, <2>3 DEF List
<1> HIDE DEF k, q
<1>5. /\ h \in List /\ Len(h) = Len(q) /\ \A i \in 1 .. Len(q) : h[i] = Other(n, s, q[i])
  BY <1>3, ExchangedIs DEF q
<1> HIDE DEF h
<1>6. ASSUME NEW i \in 1 .. Len(q) PROVE h[i] = k[i]
  <2>1. CASE i <= Len(a)
    <3>1. i \in 1 .. Len(a) /\ i \in 1 .. Len(f) + Len(g) /\ i <= Len(f)
      BY <1>1, <1>2, <1>3, <2>1
    <3>2. k[i] = f[i] /\ q[i] = a[i] /\ f[i] = Other(n, s, a[i])
      BY <1>1, <1>3, <1>4, <2>1, <3>1
    <3> QED BY <1>5, <3>2
  <2>2. CASE ~(i <= Len(a))
    <3>1. i - Len(a) \in 1 .. Len(b) /\ i \in 1 .. Len(f) + Len(g) /\ ~(i <= Len(f)) /\ Len(f) = Len(a)
      BY <1>1, <1>2, <1>3, <2>2
    <3>2. k[i] = g[i - Len(a)] /\ q[i] = b[i - Len(a)] /\ g[i - Len(a)] = Other(n, s, b[i - Len(a)])
      BY <1>2, <1>3, <1>4, <2>2, <3>1
    <3> QED BY <1>5, <3>2
  <2> QED BY <2>1, <2>2
<1>7. h = k
  <2>1. h \in Seq(Nodes) /\ k \in Seq(Nodes) /\ Len(h) = Len(k)
    BY <1>1, <1>2, <1>3, <1>4, <1>5 DEF List
  <2> QED BY <1>5, <1>6, <2>1, SeqEqual
<1> QED BY <1>7 DEF h, k, f, g

(* Exchanging two nodes in a list of one. *)
LEMMA ExchangedOne ==
  ASSUME NEW n \in Nodes, NEW s \in Nodes, NEW m \in Nodes
  PROVE  Exchanged(One(m), n, s) = One(Other(n, s, m)) /\ Exchanged(Nil, n, s) = Nil
<1>1. Exchanged(<<m>>, n, s) = <<Other(n, s, m)>>
  BY DEF Exchanged
<1>2. Range(Nil) = {} /\ Nil \in List
  BY NilLaws
<1>3. Exchanged(Nil, n, s) = Nil
  BY <1>2, ExchangedIs
<1> QED BY <1>1, <1>3 DEF One

----------------------------------------------------------------------------
(* A node with at most one child that is cut out of its place leaves the     *)
(* order of the others alone.                                                *)
LinksCut(t, u, n, c) ==
    /\ u.root = IF t.root = n THEN c ELSE t.root
    /\ \A m \in Nodes, x \in Sides :
         u.child[m][x] = IF m = n THEN NULL ELSE IF t.child[m][x] = n THEN c ELSE t.child[m][x]

(* The order after the cut is the order without the node. *)
LEMMA CutOrder ==
  ASSUME NEW t, Shape(t), NEW n, NEW c, OneChild(t, n, c), NEW u, Shape(u), LinksCut(t, u, n, c)
  PROVE  Order(u) = Without(Order(t), n)
<1>0. /\ n \in Nodes /\ c \in Pointer /\ NULL \notin Nodes /\ "left" \in Sides /\ "right" \in Sides
      /\ TreeOK(t) /\ Links(t) /\ t.root \in Pointer
      /\ \A m \in Nodes, x \in Sides : t.child[m][x] \in Pointer
  BY NullIsNoNode DEF OneChild, Shape, TreeOK, Sides
<1>1. PICK w : Lists(t, w)
  BY TreeHasLists
<1>2. /\ w[NULL] = Nil /\ \A m \in Pointer : w[m] \in List /\ Distinct(w[m])
      /\ \A m \in Nodes : w[m] = Cat(w[t.child[m]["left"]], Cat(One(m), w[t.child[m]["right"]]))
  BY <1>1, ListsAre DEF Lists
<1>3. ASSUME NEW m \in Pointer PROVE Without(w[m], n) \in List
  <2>1. w[m] \in List /\ Distinct(w[m]) /\ Nil \in List /\ Cat(w[m], Nil) = w[m]
    BY <1>2, NilLaws
  <2> QED BY <1>0, <2>1, WithoutCat
<1>4. ASSUME NEW m \in Nodes, m # n
      PROVE  Without(w[m], n) = Cat(Without(w[t.child[m]["left"]], n), Cat(One(m), Without(w[t.child[m]["right"]], n)))
  <2> DEFINE l == w[t.child[m]["left"]]
             q == w[t.child[m]["right"]]
             o == One(m)
  <2>1. l \in List /\ q \in List /\ w[m] = Cat(l, Cat(o, q)) /\ Distinct(w[m])
    BY <1>0, <1>2 DEF Pointer
  <2>2. o \in List /\ Range(o) = {m}
    BY OneLaws
  <2> HIDE DEF l, q, o
  <2>3. Cat(o, q) \in List /\ Distinct(Cat(o, q))
    BY <2>1, <2>2, CatLaws
  <2>4. Without(w[m], n) = Cat(Without(l, n), Without(Cat(o, q), n))
    BY <1>0, <2>1, <2>3, WithoutCat
  <2>5. Without(Cat(o, q), n) = Cat(Without(o, n), Without(q, n))
    BY <1>0, <2>1, <2>2, <2>3, WithoutCat
  <2>6. Without(o, n) = o
    BY <1>4, <2>2, WithoutNone
  <2> QED BY <2>4, <2>5, <2>6 DEF l, q, o
<1>5. Without(w[n], n) = w[c] /\ Without(w[c], n) = w[c] /\ c # n
  <2> DEFINE l == w[t.child[n]["left"]]
             q == w[t.child[n]["right"]]
             o == One(n)
  <2>1. l \in List /\ q \in List /\ w[n] = Cat(l, Cat(o, q)) /\ Distinct(w[n])
    BY <1>0, <1>2 DEF Pointer
  <2>2. o \in List /\ Range(o) = {n}
    BY <1>0, OneLaws
  <2>3. PICK d \in Sides : t.child[n][d] = c /\ t.child[n][Opposite(d)] = NULL
    BY DEF OneChild
  <2>4. (l = w[c] /\ q = Nil) \/ (l = Nil /\ q = w[c])
    <3>1. CASE d = "left"
      BY <1>2, <2>3, <3>1 DEF Opposite
    <3>2. CASE d = "right"
      BY <1>2, <2>3, <3>2 DEF Opposite
    <3> QED BY <3>1, <3>2 DEF Sides
  <2>5. Distinct(Cat(l, Cat(One(n), q)))
    BY <2>1
  <2>a. t.child[n][d] # n
    <3>1. PICK r, B : Ranked(t, r, B)
      BY DEF Shape
    <3> QED BY <1>0, <3>1, RankedApart
  <2> HIDE DEF l, q
  <2>6. Without(w[n], n) = Cat(l, q)
    BY <1>0, <2>1, <2>5, WithoutIs
  <2>7. Cat(l, q) = w[c]
    BY <1>0, <1>2, <2>4, NilLaws
  <2> HIDE DEF o
  <2>8. n \notin Range(l) /\ n \notin Range(q)
    <3>1. Cat(o, q) \in List
      BY <2>1, <2>2, CatLaws
    <3>2. Distinct(Cat(o, q)) /\ Range(l) \cap Range(Cat(o, q)) = {}
      BY <2>1, <3>1, CatLaws
    <3>3. Range(Cat(o, q)) = {n} \cup Range(q) /\ {n} \cap Range(q) = {}
      BY <2>1, <2>2, <3>2, CatLaws
    <3> QED BY <3>2, <3>3
  <2>9. Without(w[c], n) = w[c]
    BY <2>4, <2>8, WithoutNone
  <2> QED BY <2>3, <2>6, <2>7, <2>9, <2>a
<1> DEFINE v == [m \in Pointer |-> IF m = n THEN One(n) ELSE Without(w[m], n)]
<1>6. v[n] = One(n) /\ One(n) \in List /\ \A m \in Pointer : m # n => v[m] = Without(w[m], n)
  BY <1>0, OneLaws DEF Pointer
<1>7. \A m \in Pointer : v[m] \in List
  BY <1>3, <1>6
<1> HIDE DEF v
<1>8. v[NULL] = Nil
  <2>1. Range(Nil) = {}
    BY NilLaws
  <2> QED BY <1>0, <1>2, <1>6, <2>1, WithoutNone DEF Pointer
<1>9. ASSUME NEW m \in Pointer PROVE v[IF m = n THEN c ELSE m] = Without(w[m], n)
  BY <1>0, <1>5, <1>6
<1>10. ASSUME NEW m \in Nodes
       PROVE  v[m] = Cat(v[u.child[m]["left"]], Cat(One(m), v[u.child[m]["right"]]))
  <2>1. CASE m = n
    <3>1. u.child[m]["left"] = NULL /\ u.child[m]["right"] = NULL
      BY <1>0, <2>1 DEF LinksCut
    <3>2. Cat(One(n), Nil) = One(n) /\ Cat(Nil, One(n)) = One(n)
      BY <1>6, NilLaws
    <3> QED BY <1>6, <1>8, <2>1, <3>1, <3>2
  <2>2. CASE m # n
    <3>1. v[u.child[m]["left"]] = Without(w[t.child[m]["left"]], n)
      BY <1>0, <1>9, <2>2 DEF LinksCut
    <3>2. v[u.child[m]["right"]] = Without(w[t.child[m]["right"]], n)
      BY <1>0, <1>9, <2>2 DEF LinksCut
    <3>3. v[m] = Without(w[m], n)
      BY <1>6, <2>2 DEF Pointer
    <3> QED BY <1>4, <2>2, <3>1, <3>2, <3>3
  <2> QED BY <2>1, <2>2
<1>11. Lists(u, v)
  BY <1>7, <1>8, <1>10 DEF Lists
<1>12. v[u.root] = Without(w[t.root], n)
  BY <1>0, <1>9 DEF LinksCut
<1> QED BY <1>1, <1>11, <1>12, ListsAre

(* Two nodes exchanged in the tree are exchanged in the order. *)
LEMMA RenamedOrder ==
  ASSUME NEW t, Shape(t), NEW n \in Nodes, NEW s \in Nodes, NEW u, Shape(u), Renamed(t, u, n, s)
  PROVE  Order(u) = Exchanged(Order(t), n, s)
<1> DEFINE O(m) == Other(n, s, m)
<1>0. /\ NULL \notin Nodes /\ "left" \in Sides /\ "right" \in Sides /\ t.root \in Pointer
      /\ \A m \in Nodes, x \in Sides : t.child[m][x] \in Pointer
  BY NullIsNoNode DEF Shape, TreeOK, Sides
<1>1. /\ \A m \in Pointer : O(m) \in Pointer /\ O(O(m)) = m
      /\ \A m \in Nodes : O(m) \in Nodes /\ O(O(m)) = m
      /\ O(NULL) = NULL
  BY <1>0 DEF Other, Pointer
<1>2. PICK w : Lists(t, w)
  BY TreeHasLists
<1>3. /\ w[NULL] = Nil /\ \A m \in Pointer : w[m] \in List
      /\ \A m \in Nodes : w[m] = Cat(w[t.child[m]["left"]], Cat(One(m), w[t.child[m]["right"]]))
  BY <1>2 DEF Lists
<1>4. /\ u.root = O(t.root)
      /\ \A m \in Nodes, x \in Sides : u.child[m][x] = O(t.child[O(m)][x])
  BY DEF Renamed
<1> DEFINE v == [m \in Pointer |-> Exchanged(w[O(m)], n, s)]
<1> HIDE DEF O
<1>5. \A m \in Pointer : v[m] = Exchanged(w[O(m)], n, s) /\ v[m] \in List
  BY <1>1, <1>3, ExchangedIs
<1>6. v[NULL] = Nil
  <2>1. Exchanged(One(n), n, s) = One(Other(n, s, n)) /\ Exchanged(Nil, n, s) = Nil
    BY ExchangedOne
  <2>2. NULL \in Pointer
    BY DEF Pointer
  <2> QED BY <1>1, <1>3, <1>5, <2>1, <2>2
<1> HIDE DEF v
<1>7. ASSUME NEW m \in Nodes
       PROVE  v[m] = Cat(v[u.child[m]["left"]], Cat(One(m), v[u.child[m]["right"]]))
  <2> DEFINE k == O(m)
             a == t.child[k]["left"]
             b == t.child[k]["right"]
             o == One(k)
  <2>1. k \in Nodes /\ O(k) = m /\ m \in Pointer
    BY <1>1 DEF Pointer
  <2>2. a \in Pointer /\ b \in Pointer /\ w[k] = Cat(w[a], Cat(o, w[b]))
    BY <1>0, <1>3, <2>1
  <2>3. u.child[m]["left"] = O(a) /\ u.child[m]["right"] = O(b)
    BY <1>0, <1>4
  <2>4. o \in List /\ Exchanged(o, n, s) = One(m)
    BY <2>1, OneLaws, ExchangedOne DEF O
  <2>5. v[m] = Exchanged(w[k], n, s)
    BY <1>5, <2>1
  <2> HIDE DEF k, a, b, o
  <2>6. w[a] \in List /\ w[b] \in List /\ Cat(o, w[b]) \in List
    BY <1>3, <2>2, <2>4, CatLaws
  <2>7. Exchanged(Cat(w[a], Cat(o, w[b])), n, s) = Cat(Exchanged(w[a], n, s), Exchanged(Cat(o, w[b]), n, s))
    BY <2>6, ExchangedCat
  <2>8. Exchanged(Cat(o, w[b]), n, s) = Cat(Exchanged(o, n, s), Exchanged(w[b], n, s))
    BY <2>4, <2>6, ExchangedCat
  <2>9. v[O(a)] = Exchanged(w[a], n, s) /\ v[O(b)] = Exchanged(w[b], n, s)
    BY <1>1, <1>5, <2>2
  <2> QED BY <2>2, <2>3, <2>4, <2>5, <2>7, <2>8, <2>9
<1>8. Lists(u, v)
  BY <1>5, <1>6, <1>7 DEF Lists
<1>9. v[u.root] = Exchanged(w[t.root], n, s)
  BY <1>0, <1>1, <1>4, <1>5
<1> QED BY <1>2, <1>8, <1>9, ListsAre

----------------------------------------------------------------------------
(* The first and the last element, split off. *)
LEMMA EndsSplit ==
  ASSUME NEW q \in List, q # Nil
  PROVE  /\ FirstIn(q) \in Nodes /\ \E Z \in List : q = Cat(One(FirstIn(q)), Z)
         /\ LastIn(q) \in Nodes /\ \E A \in List : q = Cat(A, One(LastIn(q)))
<1>1. Len(q) \in Nat /\ Len(q) # 0 /\ q # <<>>
  BY ListFacts DEF Nil
<1>2. FirstIn(q) = q[1] /\ LastIn(q) = q[Len(q)] /\ 1 \in 1 .. Len(q) /\ Len(q) \in 1 .. Len(q)
  BY <1>1 DEF FirstIn, LastIn
<1>3. FirstIn(q) \in Nodes /\ \E Z \in List : q = Cat(One(FirstIn(q)), Z)
  <2> DEFINE A == SubSeq(q, 1, 1 - 1)
             Z == SubSeq(q, 1 + 1, Len(q))
  <2>1. A \in List /\ Z \in List /\ q[1] \in Nodes /\ q = Cat(A, Cat(One(q[1]), Z))
    BY <1>2, SplitAt
  <2>2. A = Nil
    <3>1. 1 \in Int /\ 1 - 1 \in Int /\ 1 - 1 < 1
      OBVIOUS
    <3> QED BY <3>1, SubSeqEmpty DEF Nil
  <2>3. One(q[1]) \in List
    BY <2>1, OneLaws
  <2> HIDE DEF A, Z
  <2>4. Cat(One(q[1]), Z) \in List
    BY <2>1, <2>3, CatLaws
  <2>5. q = Cat(One(q[1]), Z)
    BY <2>1, <2>2, <2>4, NilLaws
  <2> QED BY <1>2, <2>1, <2>5
<1>4. LastIn(q) \in Nodes /\ \E A \in List : q = Cat(A, One(LastIn(q)))
  <2> DEFINE n == Len(q)
             A == SubSeq(q, 1, n - 1)
             Z == SubSeq(q, n + 1, Len(q))
  <2>1. A \in List /\ Z \in List /\ q[n] \in Nodes /\ q = Cat(A, Cat(One(q[n]), Z))
    BY <1>2, SplitAt
  <2>2. Z = Nil
    <3>1. n + 1 \in Int /\ Len(q) \in Int /\ Len(q) < n + 1
      BY <1>1
    <3> QED BY <3>1, SubSeqEmpty DEF Nil
  <2>3. One(q[n]) \in List
    BY <2>1, OneLaws
  <2>a. LastIn(q) = q[n]
    BY <1>2
  <2> HIDE DEF A, Z, n
  <2>5. q = Cat(A, One(q[n]))
    BY <2>1, <2>2, <2>3, NilLaws
  <2> QED BY <2>1, <2>5, <2>a
<1> QED BY <1>3, <1>4

(* Where a new leaf goes in the order: next to its parent. *)
LEMMA LeafOrder ==
  ASSUME NEW t, Shape(t), NEW n \in Nodes, ~In(t, n), NEW p \in Pointer, NEW d \in Sides,
         NEW u, Shape(u), NewNode(t, u, n, p, d),
         IF p = NULL THEN t.root = NULL ELSE In(t, p) /\ t.child[p][d] = NULL,
         NEW A \in List, NEW Z \in List, Order(t) = Cat(A, Z),
         p # NULL => IF d = "left" THEN FirstIn(Z) = p ELSE LastIn(A) = p
  PROVE  Order(u) = Cat(A, Cat(One(n), Z))
<1>0. /\ NULL \notin Nodes /\ n # NULL /\ "left" \in Sides /\ "right" \in Sides
      /\ TreeOK(t) /\ Links(t) /\ TreeOK(u) /\ Links(u) /\ (p # NULL => p \in Nodes) /\ n # p
      /\ Opposite("left") = "right" /\ Opposite("right") = "left" /\ Opposite(d) \in Sides /\ Opposite(d) # d
  BY NullIsNoNode, SidesAre DEF Shape, Sides, Pointer, Opposite
<1>1. /\ t.up[n] = NULL /\ t.root # n /\ (\A x \in Sides : t.child[n][x] = NULL)
      /\ \A m \in Nodes, x \in Sides : t.child[m][x] # n
  BY <1>0 DEF In, Links
<1>2. /\ u.root = IF p = NULL THEN n ELSE t.root
      /\ \A m \in Nodes, x \in Sides : u.child[m][x] = IF m = p /\ x = d THEN n ELSE t.child[m][x]
      /\ u.up[n] = p
  BY DEF NewNode
<1>3. \A x \in Sides : u.child[n][x] = NULL
  BY <1>0, <1>1, <1>2
<1>4. In(u, n)
  BY <1>2 DEF In
<1>5. OneChild(u, n, NULL)
  BY <1>0, <1>3, <1>4 DEF OneChild, Pointer
<1>6. LinksCut(u, t, n, NULL)
  BY <1>0, <1>1, <1>2, <1>3 DEF LinksCut
<1>7. Order(t) = Without(Order(u), n)
  BY <1>5, <1>6, CutOrder
<1>8. PICK w : Lists(u, w) /\ Listed(u, w)
  BY TreeHasLists
<1>9. Order(u) = w[u.root] /\ Distinct(Order(u)) /\ Order(u) \in List
  BY <1>8, ListsAre DEF TreeOK, Shape
<1>10. PICK B, Y : /\ B \in List /\ Y \in List /\ w[u.root] = Cat(B, Cat(One(n), Y))
                   /\ FirstIn(Y) = rb_next(u, n) /\ LastIn(B) = rb_prev(u, n)
  BY <1>4, <1>8, NeighboursAre
<1>11. Order(u) = Cat(B, Cat(One(n), Y)) /\ Distinct(Cat(B, Cat(One(n), Y)))
  BY <1>9, <1>10
<1>12. Without(Cat(B, Cat(One(n), Y)), n) = Cat(B, Y)
  BY <1>10, <1>11, WithoutIs
<1>13. Cat(A, Z) = Cat(B, Y)
  BY <1>7, <1>11, <1>12
<1>14. Distinct(Cat(B, Y))
  <2> DEFINE o == One(n)
  <2>1. o \in List
    BY OneLaws
  <2>2. Cat(B, Cat(o, Y)) = Order(u)
    BY <1>11
  <2> HIDE DEF o
  <2>3. Cat(o, Y) \in List /\ Distinct(Cat(B, Cat(o, Y)))
    BY <1>9, <1>10, <2>1, <2>2, CatLaws
  <2>4. Distinct(B) /\ Distinct(Cat(o, Y)) /\ Range(B) \cap Range(Cat(o, Y)) = {}
    BY <1>10, <2>3, CatLaws
  <2>5. Distinct(Y) /\ Range(Cat(o, Y)) = Range(o) \cup Range(Y)
    BY <1>10, <2>1, <2>4, CatLaws
  <2>6. Range(B) \cap Range(Y) = {}
    BY <2>4, <2>5
  <2> QED BY <1>10, <2>4, <2>5, <2>6, CatLaws
<1>15. CASE p = NULL
  <2>1. PICK z : Lists(t, z)
    BY TreeHasLists
  <2>2. Order(t) = z[t.root] /\ t.root = NULL /\ z[NULL] = Nil
    BY <1>15, <2>1, ListsAre DEF Lists
  <2>a. Cat(A, Z) = Nil /\ Cat(B, Y) = Nil
    BY <1>13, <2>2
  <2>b. A = Nil /\ Z = Nil
    BY <2>a, CatLaws
  <2>c. B = Nil /\ Y = Nil
    BY <1>10, <2>a, CatLaws
  <2>3. A = Nil /\ Z = Nil /\ B = Nil /\ Y = Nil
    BY <2>b, <2>c
  <2> QED BY <1>11, <2>3
<1>16. CASE p # NULL
  <2>0. p \in Nodes /\ u.child[p][d] = n
    BY <1>0, <1>2, <1>16
  <2>1. PICK k, K : Ranked(u, k, K)
    BY DEF Shape
  <2>2. /\ Ancestor(u, n, "left") = IF u.up[n] = NULL \/ n # u.child[u.up[n]][Opposite("left")] THEN u.up[n]
                                    ELSE Ancestor(u, u.up[n], "left")
        /\ Ancestor(u, n, "right") = IF u.up[n] = NULL \/ n # u.child[u.up[n]][Opposite("right")] THEN u.up[n]
                                     ELSE Ancestor(u, u.up[n], "right")
    BY <1>0, <2>1, AncestorIs
  <2>3. rb_next(u, n) = Ancestor(u, n, "left") /\ rb_prev(u, n) = Ancestor(u, n, "right")
    BY <1>0, <1>3 DEF rb_next, rb_prev, Neighbour
  <2>4. u.child[p][Opposite(d)] # n
    BY <1>0, <1>1, <1>2, <2>0
  <2>5. CASE d = "left"
    <3>1. FirstIn(Y) = p /\ FirstIn(Z) = p
      BY <1>0, <1>2, <1>10, <1>16, <2>2, <2>3, <2>4, <2>5
    <3>2. Y # Nil /\ Z # Nil
      BY <1>16, <3>1, NilLaws
    <3>3. PICK Y1 \in List : Y = Cat(One(p), Y1)
      BY <1>10, <3>1, <3>2, EndsSplit
    <3>4. PICK Z1 \in List : Z = Cat(One(p), Z1)
      BY <3>1, <3>2, EndsSplit
    <3>5. Cat(B, Cat(One(p), Y1)) = Cat(A, Cat(One(p), Z1)) /\ Distinct(Cat(B, Cat(One(p), Y1)))
      BY <1>13, <1>14, <3>3, <3>4
    <3>6. B = A /\ Y1 = Z1
      BY <1>10, <2>0, <3>5, OneSpot
    <3> QED BY <1>11, <3>3, <3>4, <3>6
  <2>6. CASE d = "right"
    <3>1. LastIn(B) = p /\ LastIn(A) = p
      BY <1>0, <1>2, <1>10, <1>16, <2>2, <2>3, <2>4, <2>6
    <3>2. B # Nil /\ A # Nil
      BY <1>16, <3>1, NilLaws
    <3>3. PICK B1 \in List : B = Cat(B1, One(p))
      BY <1>10, <3>1, <3>2, EndsSplit
    <3>4. PICK A1 \in List : A = Cat(A1, One(p))
      BY <3>1, <3>2, EndsSplit
    <3>a. One(p) \in List
      BY <2>0, OneLaws
    <3>5. Cat(B, Y) = Cat(B1, Cat(One(p), Y)) /\ Cat(A, Z) = Cat(A1, Cat(One(p), Z))
      BY <1>10, <3>3, <3>4, <3>a, CatAssociates
    <3>6. Cat(B1, Cat(One(p), Y)) = Cat(A1, Cat(One(p), Z)) /\ Distinct(Cat(B1, Cat(One(p), Y)))
      BY <1>13, <1>14, <3>5
    <3>7. B1 = A1 /\ Y = Z
      BY <1>10, <2>0, <3>6, OneSpot
    <3> QED BY <1>11, <3>3, <3>4, <3>7
  <2> QED BY <2>5, <2>6 DEF Sides
<1> QED BY <1>15, <1>16

(* What __rb_erase_augmented does to the order. *)
LEMMA SuccessorOrder ==
  ASSUME NEW t, Shape(t), NEW n \in Nodes, NEW s \in Nodes, n # s,
         NEW v, Shape(v), NEW u, Shape(u), Order(v) = Without(Order(t), s), Renamed(v, u, n, s),
         NEW A \in List, NEW Z \in List, Order(t) = Cat(A, Cat(One(n), Cat(One(s), Z)))
  PROVE  Order(u) = Without(Order(t), n)
<1> DEFINE o == One(n)
           k == One(s)
<1>1. o \in List /\ k \in List /\ Range(o) = {n} /\ Range(k) = {s}
  BY OneLaws
<1>2. Distinct(Order(t))
  <2>1. PICK w : Lists(t, w)
    BY TreeHasLists
  <2> QED BY <2>1, ListsAre DEF Shape, TreeOK
<1>3. Order(t) = Cat(A, Cat(o, Cat(k, Z)))
  OBVIOUS
<1> HIDE DEF o, k
<1>4. Cat(k, Z) \in List /\ Cat(A, o) \in List /\ Cat(o, Cat(k, Z)) \in List /\ Cat(o, Z) \in List
  BY <1>1, CatLaws
<1>5. Order(t) = Cat(Cat(A, o), Cat(k, Z))
  BY <1>1, <1>3, <1>4, CatAssociates
<1>6. Without(Order(t), s) = Cat(Cat(A, o), Z)
  <2>1. Distinct(Cat(Cat(A, o), Cat(One(s), Z)))
    BY <1>2, <1>5 DEF k
  <2>2. Without(Cat(Cat(A, o), Cat(One(s), Z)), s) = Cat(Cat(A, o), Z)
    BY <1>4, <2>1, WithoutIs
  <2> QED BY <1>5, <2>2 DEF k
<1>7. Without(Order(t), n) = Cat(A, Cat(k, Z))
  <2>1. Distinct(Cat(A, Cat(One(n), Cat(k, Z))))
    BY <1>2, <1>3 DEF o
  <2>2. Without(Cat(A, Cat(One(n), Cat(k, Z))), n) = Cat(A, Cat(k, Z))
    BY <1>4, <2>1, WithoutIs
  <2> QED BY <1>3, <2>2 DEF o
<1>8. n \notin Range(A) /\ s \notin Range(A) /\ n \notin Range(Z) /\ s \notin Range(Z)
  <2>a. Range(Cat(k, Z)) = Range(k) \cup Range(Z)
    BY <1>1, CatLaws
  <2>b. Range(Cat(o, Cat(k, Z))) = Range(o) \cup Range(Cat(k, Z))
    BY <1>1, <1>4, CatLaws
  <2>1. Range(Cat(o, Cat(k, Z))) = {n} \cup Range(Cat(k, Z)) /\ Range(Cat(k, Z)) = {s} \cup Range(Z)
    BY <1>1, <2>a, <2>b
  <2>2. Range(A) \cap Range(Cat(o, Cat(k, Z))) = {} /\ Distinct(Cat(o, Cat(k, Z)))
    BY <1>2, <1>3, <1>4, CatLaws
  <2>3. {n} \cap Range(Cat(k, Z)) = {} /\ Distinct(Cat(k, Z))
    BY <1>1, <1>4, <2>2, CatLaws
  <2>4. {s} \cap Range(Z) = {}
    BY <1>1, <2>3, CatLaws
  <2> QED BY <2>1, <2>2, <2>3, <2>4
<1>9. Order(u) = Exchanged(Cat(Cat(A, o), Z), n, s)
  BY <1>6, RenamedOrder
<1>10. Exchanged(A, n, s) = A /\ Exchanged(Z, n, s) = Z
  BY <1>8, ExchangedIs
<1>11. Exchanged(o, n, s) = k
  <2>1. Exchanged(One(n), n, s) = One(Other(n, s, n))
    BY ExchangedOne
  <2>2. Other(n, s, n) = s
    BY DEF Other
  <2> QED BY <2>1, <2>2 DEF o, k
<1>12. Exchanged(Cat(Cat(A, o), Z), n, s) = Cat(Exchanged(Cat(A, o), n, s), Exchanged(Z, n, s))
  BY <1>4, ExchangedCat
<1>13. Exchanged(Cat(A, o), n, s) = Cat(Exchanged(A, n, s), Exchanged(o, n, s))
  BY <1>1, ExchangedCat
<1>14. Order(u) = Cat(Cat(A, k), Z)
  BY <1>9, <1>10, <1>11, <1>12, <1>13
<1>15. Cat(Cat(A, k), Z) = Cat(A, Cat(k, Z))
  BY <1>1, CatAssociates
<1> QED BY <1>7, <1>14, <1>15

(* So it is after every removal. *)
LEMMA EraseOrder ==
  ASSUME NEW t, Shape(t), RedBlack(t, NULL, NULL, "left"), NEW n \in Nodes, In(t, n),
         NEW e, e = IF NULL \in {t.child[n].left, t.child[n].right}
                    THEN EraseLeafward(t, n) ELSE EraseInner(t, n)
  PROVE  Order(Detached(e.tree, n)) = Without(Order(t), n)
<1> DEFINE u == Detached(e.tree, n)
<1>0. /\ TreeOK(t) /\ Links(t) /\ NULL \notin Nodes /\ "left" \in Sides /\ "right" \in Sides
      /\ t.child[n].left = t.child[n]["left"] /\ t.child[n].right = t.child[n]["right"]
  BY NullIsNoNode DEF Shape, TreeOK, Sides
<1>a. Shape(u)
  BY EraseKeeps
<1>1. CASE NULL \in {t.child[n].left, t.child[n].right}
  <2>1. PICK c : OneChild(t, n, c) /\ CutOut(t, u, n, c)
    BY <1>1, LeafwardIs
  <2> HIDE DEF u
  <2>2. LinksCut(t, u, n, c)
    BY <2>1 DEF CutOut, LinksCut
  <2>3. Order(u) = Without(Order(t), n)
    BY <1>a, <2>1, <2>2, CutOrder
  <2> QED BY <2>3 DEF u
<1>2. CASE NULL \notin {t.child[n].left, t.child[n].right}
  <2>0. t.child[n]["left"] # NULL /\ t.child[n]["right"] # NULL /\ e = EraseInner(t, n)
    BY <1>0, <1>2
  <2>1. PICK s, c, k : /\ s = Farthest(t, t.child[n]["right"], "left") /\ Successor(t, n, s, c)
                       /\ k = IF s = t.child[n]["right"] THEN s ELSE t.up[s]
                       /\ InnerCut(t, u, n, s, c, k)
    BY <2>0, InnerCutIs
  <2> HIDE DEF u
  <2> DEFINE v == Cut(t, s, c)
             z == IF c = NULL /\ t.black[s] THEN t.up[s] ELSE NULL
  <2>2. /\ OneChild(t, s, c) /\ s \in Nodes /\ c \in Pointer /\ In(t, s) /\ s # n
        /\ t.up[s] # NULL /\ t.up[s] \in Nodes
    <3>1. s \in Nodes /\ c \in Pointer /\ In(t, s) /\ c = t.child[s]["right"] /\ t.child[s]["left"] = NULL /\ s # n
      BY <2>1 DEF Successor
    <3>2. OneChild(t, s, c)
      BY <3>1 DEF OneChild, Sides, Opposite
    <3>3. t.up[s] # NULL /\ t.up[s] \in Nodes
      BY <1>0, <2>1 DEF Successor
    <3> QED BY <3>1, <3>2, <3>3
  <2>3. CutOut(t, v, s, c)
    BY <1>0, <2>2, CutIsCutOut
  <2> HIDE DEF v
  <2>4. Shape(v)
    BY <2>2, <2>3, CutKeepsShape
  <2>5. PICK d \in Sides : t.child[t.up[s]][d] = s
    BY <1>0, <2>2 DEF Links
  <2>6. c # NULL => t.black[s]
    <3>1. z # NULL => d \in Sides /\ t.child[z][d] = s
      BY <2>5
    <3> HIDE DEF z
    <3>2. z = IF c = NULL /\ t.black[s] THEN t.up[s] ELSE NULL
      BY DEF z
    <3> QED BY <2>2, <2>3, <3>1, <3>2, CutKeepsRules
  <2>7. Renamed(v, u, n, s)
    BY <2>0, <2>1, <2>3, <2>6, InnerCutRenames
  <2>8. LinksCut(t, v, s, c)
    BY <2>3 DEF CutOut, LinksCut
  <2>9. Order(v) = Without(Order(t), s)
    BY <2>2, <2>4, <2>8, CutOrder
  <2>10. PICK w : Lists(t, w) /\ Listed(t, w)
    BY TreeHasLists
  <2>11. PICK A, Y : /\ A \in List /\ Y \in List /\ w[t.root] = Cat(A, Cat(One(n), Y))
                     /\ FirstIn(Y) = rb_next(t, n)
    BY <2>10, NeighboursAre
  <2>12. rb_next(t, n) = s
    <3>1. Opposite("left") = "right"
      BY DEF Opposite
    <3> QED BY <2>0, <2>1, <3>1 DEF rb_next, Neighbour
  <2>13. Y # Nil
    BY <1>0, <2>2, <2>11, <2>12, NilLaws
  <2>14. PICK Z \in List : Y = Cat(One(s), Z)
    BY <2>11, <2>12, <2>13, EndsSplit
  <2>15. Order(t) = Cat(A, Cat(One(n), Cat(One(s), Z)))
    BY <2>10, <2>11, <2>14, ListsAre
  <2>16. Order(u) = Without(Order(t), n)
    BY <1>a, <2>2, <2>4, <2>7, <2>9, <2>11, <2>14, <2>15, SuccessorOrder
  <2> QED BY <2>16 DEF u
<1> QED BY <1>1, <1>2

----------------------------------------------------------------------------
(* Lists in the order of their keys. *)
Ordered(q) == \A i, j \in DOMAIN q : i < j => Key[q[i]] <= Key[q[j]]
Before(a, b) == \A x \in Range(a), y \in Range(b) : Key[x] <= Key[y]

(* Two lists are in order one behind the other if each is, and no key of the *)
(* first is beyond one of the second.                                        *)
LEMMA OrderedCat ==
  ASSUME NEW a \in List, NEW b \in List
  PROVE  Ordered(Cat(a, b)) <=> Ordered(a) /\ Ordered(b) /\ Before(a, b)
<1> DEFINE c == Cat(a, b)
<1>1. /\ Len(a) \in Nat /\ Len(b) \in Nat
      /\ DOMAIN a = 1 .. Len(a) /\ DOMAIN b = 1 .. Len(b) /\ DOMAIN c = 1 .. Len(a) + Len(b)
      /\ \A i \in 1 .. Len(a) + Len(b) : c[i] = IF i <= Len(a) THEN a[i] ELSE b[i - Len(a)]
  BY ConcatProperties, LenProperties DEF List, Cat
<1> HIDE DEF c
<1>4. ASSUME NEW i \in 1 .. Len(b) PROVE c[i + Len(a)] = b[i] /\ i + Len(a) \in DOMAIN c
  <2>1. i + Len(a) \in 1 .. Len(a) + Len(b) /\ ~(i + Len(a) <= Len(a)) /\ (i + Len(a)) - Len(a) = i
    BY <1>1
  <2> QED BY <1>1, <2>1
<1>2. ASSUME Ordered(c) PROVE Ordered(a) /\ Ordered(b) /\ Before(a, b)
  <2>1. Ordered(a)
    <3> SUFFICES ASSUME NEW i \in 1 .. Len(a), NEW j \in 1 .. Len(a), i < j PROVE Key[a[i]] <= Key[a[j]]
      BY <1>1 DEF Ordered
    <3>1. c[i] = a[i] /\ c[j] = a[j] /\ i \in DOMAIN c /\ j \in DOMAIN c
      BY <1>1
    <3>2. Key[c[i]] <= Key[c[j]]
      BY <1>2, <3>1 DEF Ordered
    <3> QED BY <3>1, <3>2
  <2>2. Ordered(b)
    <3> SUFFICES ASSUME NEW i \in 1 .. Len(b), NEW j \in 1 .. Len(b), i < j PROVE Key[b[i]] <= Key[b[j]]
      BY <1>1 DEF Ordered
    <3>1. c[i + Len(a)] = b[i] /\ c[j + Len(a)] = b[j] /\ i + Len(a) \in DOMAIN c /\ j + Len(a) \in DOMAIN c
      BY <1>4
    <3>2. i + Len(a) < j + Len(a)
      BY <1>1
    <3>3. Key[c[i + Len(a)]] <= Key[c[j + Len(a)]]
      BY <1>2, <3>1, <3>2 DEF Ordered
    <3> QED BY <3>1, <3>3
  <2>3. ASSUME NEW x \in Range(a), NEW y \in Range(b) PROVE Key[x] <= Key[y]
    <3>1. PICK i \in 1 .. Len(a) : x = a[i]
      BY <1>1 DEF Range
    <3>2. PICK j \in 1 .. Len(b) : y = b[j]
      BY <1>1 DEF Range
    <3>3. c[i] = x /\ i \in DOMAIN c
      BY <1>1, <3>1
    <3>4. c[j + Len(a)] = y /\ j + Len(a) \in DOMAIN c
      BY <1>4, <3>2
    <3>5. i < j + Len(a)
      BY <1>1
    <3>6. Key[c[i]] <= Key[c[j + Len(a)]]
      BY <1>2, <3>3, <3>4, <3>5 DEF Ordered
    <3> QED BY <3>3, <3>4, <3>6
  <2> QED BY <2>1, <2>2, <2>3 DEF Before
<1>3. ASSUME Ordered(a), Ordered(b), Before(a, b) PROVE Ordered(c)
  <2> SUFFICES ASSUME NEW i \in 1 .. Len(a) + Len(b), NEW j \in 1 .. Len(a) + Len(b), i < j
               PROVE  Key[c[i]] <= Key[c[j]]
    BY <1>1 DEF Ordered
  <2>1. CASE j <= Len(a)
    <3>1. c[i] = a[i] /\ c[j] = a[j] /\ i \in DOMAIN a /\ j \in DOMAIN a
      BY <1>1, <2>1
    <3>2. Key[a[i]] <= Key[a[j]]
      BY <1>3, <3>1 DEF Ordered
    <3> QED BY <3>1, <3>2
  <2>2. CASE i <= Len(a) /\ ~(j <= Len(a))
    <3>1. c[i] = a[i] /\ c[j] = b[j - Len(a)] /\ i \in DOMAIN a /\ j - Len(a) \in DOMAIN b
      BY <1>1, <2>2
    <3>2. c[i] \in Range(a) /\ c[j] \in Range(b)
      BY <3>1 DEF Range
    <3> QED BY <1>3, <3>2 DEF Before
  <2>3. CASE ~(i <= Len(a))
    <3>1. c[i] = b[i - Len(a)] /\ c[j] = b[j - Len(a)] /\ i - Len(a) \in DOMAIN b /\ j - Len(a) \in DOMAIN b
          /\ i - Len(a) < j - Len(a)
      BY <1>1, <2>3
    <3>2. Key[b[i - Len(a)]] <= Key[b[j - Len(a)]]
      BY <1>3, <3>1 DEF Ordered
    <3> QED BY <3>1, <3>2
  <2> QED BY <2>1, <2>2, <2>3
<1> QED BY <1>2, <1>3 DEF c

(* Lists of at most one node are in order. *)
LEMMA OrderedSmall ==
  Ordered(Nil) /\ \A x \in Nodes : Ordered(One(x))
BY DEF Ordered, Nil, One

----------------------------------------------------------------------------
(* Rebalancing never changes the order of the nodes. *)

(* The end of the insertion. *)
LEMMA InsertDoneOrder ==
  ASSUME RbInv, Shape(tree'), rb_insert_done
  PROVE  Order(tree') = Order(tree)
<1>1. /\ rb.at = "insert"
      /\ tree' = IF rb.parent = NULL THEN rb_set_parent_color(tree, rb.node, NULL, TRUE) ELSE tree
  BY DEF rb_insert_done
<1>2. Shape(tree) /\ rb.node \in Nodes /\ rb.node \in Pointer /\ NULL \in Pointer /\ TRUE \in BOOLEAN /\ TreeOK(tree)
  BY <1>1 DEF RbInv, Loops, Shape, Pointer
<1>3. CASE rb.parent = NULL
  <2>1. Painted(tree, tree', rb.node, NULL, TRUE)
    BY <1>1, <1>2, <1>3, PaintedIs
  <2>2. tree'.root = tree.root /\ tree'.child = tree.child
    BY <2>1 DEF Painted
  <2> QED BY <1>2, <2>2, SameOrder
<1>4. CASE rb.parent # NULL
  BY <1>1, <1>4
<1> QED BY <1>3, <1>4

(* Painting leaves the links alone. *)
LEMMA PaintKeepsLinks ==
  ASSUME NEW t, TreeOK(t), NEW n \in Nodes, NEW p \in Pointer, NEW b \in BOOLEAN
  PROVE  LET u == rb_set_parent_color(t, n, p, b) IN TreeOK(u) /\ u.root = t.root /\ u.child = t.child
<1>1. n \in Pointer
  BY DEF Pointer
<1>2. Painted(t, rb_set_parent_color(t, n, p, b), n, p, b)
  BY <1>1, PaintedIs
<1> QED BY <1>2 DEF Painted

(* Case 1 of the insertion. *)
LEMMA InsertFlipOrder ==
  ASSUME RbInv, Shape(tree'), rb_insert_flip
  PROVE  Order(tree') = Order(tree)
<1> DEFINE p == rb.parent
           g == Gparent
           c == Uncle
           v == rb_set_parent_color(tree, c, g, TRUE)
           w == rb_set_parent_color(v, p, g, TRUE)
<1>1. RedParent /\ IsRed(tree, c) /\ tree' = rb_set_parent_color(w, g, tree.up[g], FALSE)
  BY DEF rb_insert_flip
<1>2. p \in Nodes /\ g \in Nodes /\ c \in Pointer
  BY <1>1, RedParentIs
<1>3. Shape(tree) /\ TreeOK(tree) /\ TRUE \in BOOLEAN /\ FALSE \in BOOLEAN
  BY DEF RbInv, Shape
<1>4. c \in Nodes /\ g \in Pointer /\ tree.up[g] \in Pointer
  BY <1>1, <1>2, <1>3, IsBlackIs DEF TreeOK, Pointer
<1> HIDE DEF p, g, c
<1>5. TreeOK(v) /\ v.root = tree.root /\ v.child = tree.child
  BY <1>3, <1>4, PaintKeepsLinks
<1> HIDE DEF v
<1>6. TreeOK(w) /\ w.root = v.root /\ w.child = v.child
  BY <1>2, <1>3, <1>4, <1>5, PaintKeepsLinks
<1> HIDE DEF w
<1>7. tree'.root = w.root /\ tree'.child = w.child
  BY <1>1, <1>2, <1>3, <1>4, <1>6, PaintKeepsLinks
<1> QED BY <1>3, <1>5, <1>6, <1>7, SameOrder

(* Two rotations, one after the other. *)
LEMMA LiftsOrder ==
  ASSUME NEW t, Shape(t), NEW p \in Nodes, In(t, p), NEW e \in Sides, NEW c \in Nodes, t.child[p][e] = c,
         NEW g \in Nodes, In(t, g), NEW d \in Sides, t.child[g][d] = p,
         NEW u, Shape(u), Lifted(Lift(t, p, c, e), u, g, c, d)
  PROVE  Order(u) = Order(t)
<1> DEFINE v == Lift(t, p, c, e)
<1>1. TreeOK(t) /\ Links(t) /\ \E r, B : Ranked(t, r, B)
  BY DEF Shape
<1>2. TreeOK(v) /\ Lifted(t, v, p, c, e)
  BY <1>1, LiftIsLifted
<1> HIDE DEF v
<1>3. Shape(v) /\ In(v, g)
  BY <1>2, LiftKeepsShape
<1>4. v.child[g][d] = c
  <2>1. g # p /\ g # c
    <3>1. PICK r, B : Ranked(t, r, B)
      BY <1>1
    <3>2. B \in Nat /\ r \in [Nodes -> 0 .. B] /\ r[p] < r[g] /\ r[c] < r[p]
      BY <3>1, NullIsNoNode DEF Ranked
    <3> QED BY <3>2
  <2> QED BY <1>2, <2>1 DEF Lifted
<1>5. Order(v) = Order(t)
  BY <1>2, <1>3, LiftOrder
<1>6. Lifted(v, u, g, c, d)
  BY DEF v
<1>7. Order(u) = Order(v)
  BY <1>3, <1>4, <1>6, LiftOrder
<1> QED BY <1>5, <1>7

(* Cases 2 and 3 of the insertion. *)
LEMMA InsertRotateOrder ==
  ASSUME RbInv, Shape(tree'), rb_insert_rotate
  PROVE  Order(tree') = Order(tree)
<1> DEFINE n == rb.node
           p == rb.parent
           g == Gparent
           d == ParentSide
<1>1. /\ RedParent
      /\ tree' = IF n = tree.child[p][Opposite(d)] THEN RotateOuter(RotateInner(tree, n, p, d), n, g, d)
                 ELSE RotateOuter(tree, p, g, d)
  BY DEF rb_insert_rotate
<1>2. /\ n \in Nodes /\ p \in Nodes /\ g \in Nodes /\ d \in Sides
      /\ In(tree, p) /\ In(tree, g) /\ tree.child[g][d] = p
  BY <1>1, RedParentIs
<1>3. Shape(tree) /\ TreeOK(tree) /\ Links(tree) /\ Opposite(d) \in Sides
  BY <1>2, SidesAre DEF RbInv, Shape
<1>4. PICK r, B : Ranked(tree, r, B)
  BY <1>3 DEF Shape
<1> HIDE DEF n, p, g, d
<1>5. CASE n = tree.child[p][Opposite(d)]
  <2>1. InnerDone(tree, tree', n, p, g, d)
    BY <1>1, <1>2, <1>3, <1>4, <1>5, RotateInnerIs
  <2>2. Lifted(Lift(tree, p, n, Opposite(d)), tree', g, n, d)
    BY <2>1 DEF InnerDone
  <2> QED BY <1>2, <1>3, <1>5, <2>2, LiftsOrder
<1>6. CASE n # tree.child[p][Opposite(d)]
  <2>1. OuterDone(tree, tree', p, g, d)
    BY <1>1, <1>2, <1>3, <1>4, <1>6, RotateOuterIs
  <2>2. Lifted(tree, tree', g, p, d)
    BY <2>1 DEF OuterDone
  <2> QED BY <1>2, <1>3, <2>2, LiftOrder
<1> QED BY <1>5, <1>6

(* Case 1 of the removal. *)
LEMMA RedSiblingOrder ==
  ASSUME RbInv, Shape(tree'), rb_erase_red_sibling
  PROVE  Order(tree') = Order(tree)
<1> DEFINE p == rb.parent
           d == NodeSide
           s == Sibling
<1>1. /\ rb.at = "erase"
      /\ tree' = LiftSibling(rb_set_parent_color(tree, tree.child[s][d], p, TRUE), p, s, d, FALSE)
  BY DEF rb_erase_red_sibling
<1>2. EraseAt(tree, rb.node, p, d, s)
  BY <1>1, EraseIs
<1>3. Shape(tree) /\ TreeOK(tree) /\ Links(tree)
  BY DEF RbInv, Shape
<1>4. PICK r, B : Ranked(tree, r, B)
  BY <1>3 DEF Shape
<1> HIDE DEF p, d, s
<1>5. p \in Nodes /\ d \in Sides /\ In(tree, p) /\ s \in Nodes /\ s = tree.child[p][Opposite(d)] /\ Opposite(d) \in Sides
  BY <1>2, SidesAre DEF EraseAt
<1>6. RedSiblingDone(tree, tree', p, s, d)
  BY <1>1, <1>3, <1>4, <1>5, RedSiblingIs
<1>7. Lifted(tree, tree', p, s, Opposite(d))
  BY <1>6 DEF RedSiblingDone
<1> QED BY <1>3, <1>5, <1>7, LiftOrder

(* Case 2 of the removal. *)
LEMMA EraseFlipOrder ==
  ASSUME RbInv, Shape(tree'), rb_erase_flip
  PROVE  Order(tree') = Order(tree)
<1> DEFINE p == rb.parent
           s == Sibling
           v == rb_set_parent_color(tree, s, p, FALSE)
<1>1. rb.at = "erase" /\ tree' = [v EXCEPT !.black[p] = TRUE]
  BY DEF rb_erase_flip, BlackSibling
<1>2. EraseAt(tree, rb.node, p, NodeSide, s)
  BY <1>1, EraseIs
<1>3. Shape(tree) /\ TreeOK(tree) /\ FALSE \in BOOLEAN
  BY DEF RbInv, Shape
<1> HIDE DEF p, s
<1>4. s \in Nodes /\ p \in Pointer
  BY <1>2 DEF EraseAt, Pointer
<1>5. TreeOK(v) /\ v.root = tree.root /\ v.child = tree.child
  BY <1>3, <1>4, PaintKeepsLinks
<1> HIDE DEF v
<1>6. tree'.root = v.root /\ tree'.child = v.child
  BY <1>1, <1>5 DEF TreeOK
<1> QED BY <1>3, <1>5, <1>6, SameOrder

(* Cases 3 and 4 of the removal. *)
LEMMA EraseRotateOrder ==
  ASSUME RbInv, Shape(tree'), rb_erase_rotate
  PROVE  Order(tree') = Order(tree)
<1> DEFINE p == rb.parent
           d == NodeSide
           s == Sibling
           near == tree.child[s][d]
           far == tree.child[s][Opposite(d)]
<1>1. /\ rb.at = "erase" /\ ~(IsBlack(tree, near) /\ IsBlack(tree, far))
      /\ tree' = IF IsBlack(tree, far)
                 THEN LiftBlackSibling(LiftNephew(tree, p, s, d), p, near, s, d)
                 ELSE LiftBlackSibling(tree, p, s, far, d)
  BY DEF rb_erase_rotate, BlackSibling, Near, Far
<1>2. EraseAt(tree, rb.node, p, d, s)
  BY <1>1, EraseIs
<1>3. Shape(tree) /\ TreeOK(tree) /\ Links(tree)
  BY DEF RbInv, Shape
<1>4. PICK r, B : Ranked(tree, r, B)
  BY <1>3 DEF Shape
<1> HIDE DEF p, d, s
<1>5. /\ p \in Nodes /\ d \in Sides /\ In(tree, p) /\ s \in Nodes /\ tree.child[p][Opposite(d)] = s /\ In(tree, s)
      /\ Opposite(d) \in Sides
  BY <1>2, SidesAre DEF EraseAt
<1>6. near \in Pointer /\ far \in Pointer
  BY <1>3, <1>5 DEF TreeOK
<1>7. CASE IsBlack(tree, far)
  <2>1. near \in Nodes /\ tree' = LiftBlackSibling(LiftNephew(tree, p, s, d), p, near, s, d) /\ tree.child[s][d] = near
    BY <1>1, <1>6, <1>7, NullIsNoNode DEF IsBlack, Pointer
  <2> HIDE DEF near, far
  <2>2. NephewDone(tree, tree', p, s, near, d)
    BY <1>3, <1>4, <1>5, <2>1, LiftNephewIs
  <2>3. Lifted(Lift(tree, s, near, d), tree', p, near, Opposite(d))
    BY <2>2 DEF NephewDone
  <2> QED BY <1>3, <1>5, <2>1, <2>3, LiftsOrder
<1>8. CASE ~IsBlack(tree, far)
  <2>1. far \in Nodes /\ tree' = LiftBlackSibling(tree, p, s, far, d) /\ tree.child[s][Opposite(d)] = far
    BY <1>1, <1>6, <1>8 DEF IsBlack, Pointer
  <2> HIDE DEF near, far
  <2>2. BlackSiblingDone(tree, tree, tree', p, s, far, d)
    BY <1>3, <1>4, <1>5, <2>1, LiftBlackSiblingIs
  <2>3. Lifted(tree, tree', p, s, Opposite(d))
    BY <2>2 DEF BlackSiblingDone
  <2> QED BY <1>3, <1>5, <2>3, LiftOrder
<1> QED BY <1>7, <1>8

(* The steps of the loops, as the queue sees them: nothing happens. *)
LEMMA RebalanceOrder ==
  ASSUME RbInv, RbInv',
         \/ rb_insert_done \/ rb_insert_flip \/ rb_insert_rotate
         \/ rb_erase_red_sibling \/ rb_erase_flip \/ rb_erase_rotate
  PROVE  Order(tree') = Order(tree) /\ leftmost' = leftmost /\ rb'.at \notin {"left", "right"}
<1>0. Shape(tree')
  BY DEF RbInv
<1>1. CASE rb_insert_done
  BY <1>0, <1>1, InsertDoneOrder DEF rb_insert_done, Idle
<1>2. CASE rb_insert_flip
  <2>1. rb'.at = rb.at /\ rb.at = "insert"
    <3>1. rb \in [at : {"idle", "left", "right", "insert", "erase"}, node : Pointer, parent : Pointer]
      BY DEF RbInv, RbTypes
    <3> QED BY <1>2, <3>1 DEF rb_insert_flip, RedParent
  <2> QED BY <1>0, <1>2, <2>1, InsertFlipOrder DEF rb_insert_flip
<1>3. CASE rb_insert_rotate
  BY <1>0, <1>3, InsertRotateOrder DEF rb_insert_rotate, Idle
<1>4. CASE rb_erase_red_sibling
  BY <1>0, <1>4, RedSiblingOrder DEF rb_erase_red_sibling
<1>5. CASE rb_erase_flip
  <2>1. rb'.at \in {"idle", "erase"}
    <3>1. rb \in [at : {"idle", "left", "right", "insert", "erase"}, node : Pointer, parent : Pointer]
      BY DEF RbInv, RbTypes
    <3> QED BY <1>5, <3>1 DEF rb_erase_flip, BlackSibling, Idle
  <2> QED BY <1>0, <1>5, <2>1, EraseFlipOrder DEF rb_erase_flip
<1>6. CASE rb_erase_rotate
  BY <1>0, <1>6, EraseRotateOrder DEF rb_erase_rotate, Idle
<1> QED BY <1>1, <1>2, <1>3, <1>4, <1>5, <1>6

----------------------------------------------------------------------------
(* The way down of rb_add_cached: A is what the way has left behind on its   *)
(* left, Z what is on its right, and the free link will be between them.     *)
OnWay(t, w, n, p, l, at, A, Z) ==
    /\ A \in List /\ Z \in List /\ Order(t) = Cat(A, Cat(w[l], Z))
    /\ \A x \in Range(A) : Key[x] <= Key[n]
    /\ \A x \in Range(Z) : Key[n] < Key[x]
    /\ at = "left" <=> A = Nil
    /\ p = NULL => A = Nil /\ Z = Nil
    /\ p # NULL => IF Side(n, p) = "left" THEN FirstIn(Z) = p ELSE LastIn(A) = p

OrdInv ==
    /\ Ordered(Order(tree)) /\ leftmost = FirstIn(Order(tree))
    /\ rb.at \in {"left", "right"} =>
         \E w, A, Z : Lists(tree, w) /\ OnWay(tree, w, rb.node, rb.parent, Link, rb.at, A, Z)

(* Keys can be compared. *)
LEMMA KeysAreNumbers == \A n \in Nodes : Key[n] \in Int
BY RbAssumption

(* The keys on both sides of a node, in a list in order. *)
LEMMA KeysAround ==
  ASSUME NEW L \in List, NEW R \in List, NEW m \in Nodes, Ordered(Cat(L, Cat(One(m), R)))
  PROVE  /\ \A x \in Range(L) : Key[x] <= Key[m]
         /\ \A x \in Range(R) : Key[m] <= Key[x]
<1> DEFINE o == One(m)
<1>1. o \in List /\ Range(o) = {m} /\ Ordered(Cat(L, Cat(o, R)))
  BY OneLaws
<1> HIDE DEF o
<1>2. Cat(o, R) \in List /\ Range(Cat(o, R)) = Range(o) \cup Range(R)
  BY <1>1, CatLaws
<1>3. Ordered(Cat(o, R)) /\ Before(L, Cat(o, R))
  BY <1>1, <1>2, OrderedCat
<1>4. Before(o, R)
  BY <1>1, <1>3, OrderedCat
<1>5. \A x \in Range(L) : Key[x] <= Key[m]
  BY <1>1, <1>2, <1>3 DEF Before
<1>6. \A x \in Range(R) : Key[m] <= Key[x]
  BY <1>1, <1>4 DEF Before
<1> QED BY <1>5, <1>6

(* One round of the way down keeps the new node between A and Z. *)
LEMMA DescendOrder ==
  ASSUME NEW t, Shape(t), NEW w, Lists(t, w), NEW n \in Nodes, NEW p, NEW l \in Nodes, NEW at,
         NEW A, NEW Z, OnWay(t, w, n, p, l, at, A, Z), Ordered(Order(t)),
         NEW b, b = IF Side(n, l) = "right" THEN "right" ELSE at
  PROVE  \E B, Y : OnWay(t, w, n, l, t.child[l][Side(n, l)], b, B, Y)
<1> DEFINE L == w[t.child[l]["left"]]
           R == w[t.child[l]["right"]]
           o == One(l)
<1>0. t.child[l]["left"] \in Pointer /\ t.child[l]["right"] \in Pointer /\ l # NULL /\ l \in Pointer
  BY NullIsNoNode DEF Shape, TreeOK, Sides, Pointer
<1>1. L \in List /\ R \in List /\ w[l] \in List /\ w[l] = Cat(L, Cat(o, R))
  BY <1>0 DEF Lists
<1>2. o \in List /\ o # Nil /\ FirstIn(o) = l /\ LastIn(o) = l /\ Range(o) = {l}
  BY OneLaws
<1>3. /\ A \in List /\ Z \in List /\ Order(t) = Cat(A, Cat(w[l], Z))
      /\ \A x \in Range(A) : Key[x] <= Key[n]
      /\ \A x \in Range(Z) : Key[n] < Key[x]
      /\ at = "left" <=> A = Nil
  BY DEF OnWay
<1>4. Range(L) \subseteq Nodes /\ Range(R) \subseteq Nodes
  BY <1>1, ListFacts
<1>5. (\A x \in Range(L) : Key[x] <= Key[l]) /\ (\A x \in Range(R) : Key[l] <= Key[x])
  <2> DEFINE k == w[l]
  <2>1. k \in List /\ k = Cat(L, Cat(One(l), R)) /\ Ordered(Cat(A, Cat(k, Z)))
    BY <1>1, <1>3
  <2> HIDE DEF k, L, R
  <2>2. Cat(k, Z) \in List
    BY <1>3, <2>1, CatLaws
  <2>3. Ordered(Cat(k, Z))
    BY <1>3, <2>1, <2>2, OrderedCat
  <2>4. Ordered(k)
    BY <1>3, <2>1, <2>3, OrderedCat
  <2> QED BY <1>1, <2>1, <2>4, KeysAround
<1>6. Key[n] \in Int /\ Key[l] \in Int /\ (\A x \in Range(L) : Key[x] \in Int) /\ (\A x \in Range(R) : Key[x] \in Int)
  BY <1>4, KeysAreNumbers
<1> HIDE DEF L, R, o
<1>7. CASE Key[n] < Key[l]
  <2> DEFINE k == Cat(o, R)
             Y == Cat(k, Z)
  <2>1. Side(n, l) = "left" /\ b = at
    BY <1>7 DEF Side
  <2>2. k \in List /\ Range(k) = Range(o) \cup Range(R) /\ k # Nil /\ FirstIn(k) = l
    BY <1>1, <1>2, CatLaws
  <2>3. w[l] = Cat(L, k)
    BY <1>1
  <2> HIDE DEF k
  <2>4. Y \in List /\ Range(Y) = Range(k) \cup Range(Z) /\ FirstIn(Y) = l
    BY <1>3, <2>2, CatLaws
  <2>5. Cat(w[l], Z) = Cat(L, Y)
    BY <1>1, <1>3, <2>2, <2>3, CatAssociates
  <2> HIDE DEF Y
  <2>6. \A x \in Range(Y) : Key[n] < Key[x]
    <3>1. \A x \in Range(R) : Key[n] < Key[x]
      BY <1>5, <1>6, <1>7
    <3> QED BY <1>2, <1>3, <1>7, <2>2, <2>4, <3>1
  <2>7. w[t.child[l]["left"]] = L
    BY DEF L
  <2>8. Order(t) = Cat(A, Cat(w[t.child[l]["left"]], Y))
    BY <1>3, <2>5, <2>7
  <2>9. OnWay(t, w, n, l, t.child[l]["left"], b, A, Y)
    BY <1>0, <1>3, <2>1, <2>4, <2>6, <2>8 DEF OnWay
  <2> QED BY <2>1, <2>9
<1>8. CASE ~(Key[n] < Key[l])
  <2> DEFINE k == Cat(L, o)
             B == Cat(A, k)
  <2>1. Side(n, l) = "right" /\ b = "right" /\ Side(n, l) # "left" /\ b # "left"
    BY <1>8 DEF Side
  <2>2. k \in List /\ Range(k) = Range(L) \cup Range(o) /\ k # Nil /\ LastIn(k) = l
    BY <1>1, <1>2, CatLaws
  <2>3. w[l] = Cat(k, R)
    BY <1>1, <1>2, CatAssociates
  <2> HIDE DEF k
  <2>4. B \in List /\ Range(B) = Range(A) \cup Range(k) /\ LastIn(B) = l /\ B # Nil
    BY <1>3, <2>2, CatLaws
  <2>a. Cat(R, Z) \in List
    BY <1>1, <1>3, CatLaws
  <2>5. Cat(w[l], Z) = Cat(k, Cat(R, Z))
    BY <1>1, <1>3, <2>2, <2>3, CatAssociates
  <2>b. Cat(B, Cat(R, Z)) = Cat(A, Cat(k, Cat(R, Z)))
    BY <1>3, <2>2, <2>a, CatAssociates
  <2> HIDE DEF B
  <2>6. \A x \in Range(B) : Key[x] <= Key[n]
    <3>1. \A x \in Range(L) : Key[x] <= Key[n]
      BY <1>5, <1>6, <1>8
    <3>2. Key[l] <= Key[n]
      BY <1>6, <1>8
    <3> QED BY <1>2, <1>3, <2>2, <2>4, <3>1, <3>2
  <2>7. w[t.child[l]["right"]] = R
    BY DEF R
  <2>8. Order(t) = Cat(B, Cat(w[t.child[l]["right"]], Z))
    BY <1>3, <2>5, <2>7, <2>b
  <2>9. OnWay(t, w, n, l, t.child[l]["right"], b, B, Z)
    BY <1>0, <1>3, <2>1, <2>4, <2>6, <2>8 DEF OnWay
  <2> QED BY <2>1, <2>9
<1> QED BY <1>7, <1>8

(* The list with a new node in it. *)
LEMMA InsertOrdered ==
  ASSUME NEW A \in List, NEW Z \in List, NEW n \in Nodes, Ordered(Cat(A, Z)),
         \A x \in Range(A) : Key[x] <= Key[n],
         \A x \in Range(Z) : Key[n] < Key[x]
  PROVE  Ordered(Cat(A, Cat(One(n), Z)))
<1> DEFINE o == One(n)
           k == Cat(o, Z)
<1>1. o \in List /\ Range(o) = {n} /\ Ordered(o)
  BY OneLaws, OrderedSmall
<1>2. Ordered(A) /\ Ordered(Z) /\ Before(A, Z)
  BY OrderedCat
<1>3. Before(o, Z)
  <2>1. Range(Z) \subseteq Nodes
    BY ListFacts
  <2>2. \A x \in Range(Z) : Key[n] <= Key[x]
    BY <2>1, KeysAreNumbers
  <2> QED BY <1>1, <2>2 DEF Before
<1> HIDE DEF o
<1>4. k \in List /\ Range(k) = Range(o) \cup Range(Z)
  BY <1>1, CatLaws
<1>5. Ordered(k)
  BY <1>1, <1>2, <1>3, OrderedCat
<1> HIDE DEF k
<1>6. Before(A, k)
  BY <1>1, <1>2, <1>4 DEF Before
<1>7. Ordered(Cat(A, k))
  BY <1>2, <1>4, <1>5, <1>6, OrderedCat
<1> QED BY <1>7 DEF k, o

----------------------------------------------------------------------------
(* The steps that the queue does not see keep the order, and the way down    *)
(* stays on its way.                                                         *)

(* The empty tree is in order. *)
LEMMA OrdInitially == RbInit /\ RbInv => OrdInv
<1> SUFFICES ASSUME RbInit, RbInv PROVE OrdInv
  OBVIOUS
<1>1. Shape(tree) /\ tree.root = NULL /\ leftmost = NULL /\ rb.at = "idle"
  BY DEF RbInit, RbInv, Idle
<1>2. PICK w : Lists(tree, w)
  BY <1>1, TreeHasLists
<1>3. Order(tree) = Nil
  BY <1>1, <1>2, ListsAre DEF Lists
<1>4. Ordered(Nil) /\ FirstIn(Nil) = NULL
  BY OrderedSmall, NilLaws
<1> QED BY <1>1, <1>3, <1>4 DEF OrdInv

(* An insertion starts with nothing behind it and all before it. *)
LEMMA OrdAdd ==
  ASSUME RbInv, OrdInv, NEW n \in Nodes, rb_add_cached(n)
  PROVE  OrdInv'
<1>1. tree' = tree /\ leftmost' = leftmost /\ rb' = [at |-> "left", node |-> n, parent |-> NULL]
  BY DEF rb_add_cached
<1>2. Shape(tree) /\ tree.root \in Pointer
  BY DEF RbInv, Shape, TreeOK
<1>3. PICK w : Lists(tree, w)
  BY <1>2, TreeHasLists
<1>4. w[tree.root] \in List /\ Order(tree) = w[tree.root] /\ Nil \in List /\ Range(Nil) = {}
  BY <1>2, <1>3, ListsAre, NilLaws DEF Lists
<1>5. Cat(Nil, Cat(w[tree.root], Nil)) = w[tree.root]
  BY <1>4, NilLaws
<1>6. OnWay(tree, w, n, NULL, tree.root, "left", Nil, Nil)
  BY <1>4, <1>5 DEF OnWay
<1>7. Link' = tree.root
  BY <1>1 DEF Link
<1>8. Ordered(Order(tree)) /\ leftmost = FirstIn(Order(tree))
  BY DEF OrdInv
<1>9. \E v, A, Z : Lists(tree', v) /\ OnWay(tree', v, rb'.node, rb'.parent, Link', rb'.at, A, Z)
  BY <1>1, <1>3, <1>6, <1>7
<1> QED BY <1>1, <1>8, <1>9 DEF OrdInv

(* One round of the way down. *)
LEMMA OrdDescend ==
  ASSUME RbInv, OrdInv, rb_add_descend
  PROVE  OrdInv'
<1>1. /\ rb.at \in {"left", "right"} /\ Link # NULL /\ tree' = tree /\ leftmost' = leftmost
      /\ rb' = [rb EXCEPT !.parent = Link, !.at = IF Side(rb.node, Link) = "right" THEN "right" ELSE rb.at]
  BY DEF rb_add_descend, Descending
<1>2. Link \in Nodes /\ Shape(tree) /\ rb.node \in Nodes
      /\ rb \in [at : {"idle", "left", "right", "insert", "erase"}, node : Pointer, parent : Pointer]
  BY <1>1, LinkIs DEF RbInv, RbTypes, Loops, Pointer
<1>3. PICK w, A, Z : Lists(tree, w) /\ OnWay(tree, w, rb.node, rb.parent, Link, rb.at, A, Z)
  BY <1>1 DEF OrdInv
<1>4. Ordered(Order(tree)) /\ leftmost = FirstIn(Order(tree))
  BY DEF OrdInv
<1> DEFINE b == IF Side(rb.node, Link) = "right" THEN "right" ELSE rb.at
<1>5. rb'.node = rb.node /\ rb'.parent = Link /\ rb'.at = b
  BY <1>1, <1>2
<1>6. PICK B, Y : OnWay(tree, w, rb.node, Link, tree.child[Link][Side(rb.node, Link)], b, B, Y)
  BY <1>2, <1>3, <1>4, DescendOrder
<1>7. Link' = tree.child[Link][Side(rb.node, Link)]
  <2>1. Link' = IF rb'.parent = NULL THEN tree'.root ELSE tree'.child[rb'.parent][Side(rb'.node, rb'.parent)]
    BY DEF Link, Side
  <2> QED BY <1>1, <1>5, <2>1
<1> HIDE DEF b
<1>8. \E v, C, X : Lists(tree', v) /\ OnWay(tree', v, rb'.node, rb'.parent, Link', rb'.at, C, X)
  BY <1>1, <1>3, <1>5, <1>6, <1>7
<1> QED BY <1>1, <1>4, <1>8 DEF OrdInv

(* At the free link the node goes between A and Z. *)
LEMMA OrdLink ==
  ASSUME RbInv, RbInv', OrdInv, rb_link_node
  PROVE  /\ OrdInv'
         /\ rb.node \in Nodes /\ rb.node \notin Range(Order(tree))
         /\ \E A, Z : /\ A \in List /\ Z \in List /\ Order(tree) = Cat(A, Z)
                      /\ Order(tree') = Cat(A, Cat(One(rb.node), Z))
                      /\ \A x \in Range(A) : Key[x] <= Key[rb.node]
                      /\ \A x \in Range(Z) : Key[rb.node] < Key[x]
<1> DEFINE n == rb.node
           p == rb.parent
           d == Side(n, p)
           v == [tree EXCEPT !.child[n] = [x \in Sides |-> NULL]]
           o == One(n)
<1>1. /\ rb.at \in {"left", "right"} /\ Link = NULL /\ leftmost' = (IF rb.at = "left" THEN n ELSE leftmost)
      /\ rb' = [rb EXCEPT !.at = "insert"]
      /\ tree' = rb_set_parent_color(IF p = NULL THEN [v EXCEPT !.root = n] ELSE Linked(v, p, d, n),
                                     n, p, FALSE)
  BY DEF rb_link_node, Descending
<1>2. /\ n \in Nodes /\ ~In(tree, n) /\ (p # NULL => In(tree, p)) /\ p \in Pointer /\ d \in Sides
      /\ TreeOK(tree) /\ Links(tree) /\ Shape(tree)
      /\ rb \in [at : {"idle", "left", "right", "insert", "erase"}, node : Pointer, parent : Pointer]
  BY <1>1 DEF RbInv, RbTypes, Loops, Shape, Side, Sides
<1>3. p # n
  BY <1>2, NullIsNoNode
<1>4. IF p = NULL THEN tree.root = NULL ELSE In(tree, p) /\ tree.child[p][d] = NULL
  BY <1>1, <1>2 DEF Link
<1>5. PICK w, A, Z : Lists(tree, w) /\ OnWay(tree, w, n, p, NULL, rb.at, A, Z)
  BY <1>1 DEF OrdInv
<1>6. Ordered(Order(tree)) /\ leftmost = FirstIn(Order(tree)) /\ Shape(tree')
  BY DEF OrdInv, RbInv
<1>a. rb'.at = "insert"
  BY <1>1, <1>2
<1>b. d = Side(n, p)
  OBVIOUS
<1>c. n \notin Range(Order(tree))
  BY <1>2, <1>5, ListsAre
<1> HIDE DEF n, p, d
<1>7. NewNode(tree, tree', n, p, d)
  BY <1>1, <1>2, <1>3, LinkNodeIs
<1>8. A \in List /\ Z \in List /\ w[NULL] = Nil
  BY <1>5 DEF OnWay, Lists
<1>9. Order(tree) = Cat(A, Z)
  BY <1>5, <1>8, NilLaws DEF OnWay
<1>10. p # NULL => IF d = "left" THEN FirstIn(Z) = p ELSE LastIn(A) = p
  BY <1>5, <1>b DEF OnWay
<1>11. Order(tree') = Cat(A, Cat(o, Z))
  BY <1>2, <1>4, <1>6, <1>7, <1>8, <1>9, <1>10, LeafOrder
<1>12. (\A x \in Range(A) : Key[x] <= Key[n]) /\ (\A x \in Range(Z) : Key[n] < Key[x]) /\ (rb.at = "left" <=> A = Nil)
  BY <1>5 DEF OnWay
<1>13. Ordered(Order(tree'))
  <2>1. Ordered(Cat(A, Z))
    BY <1>6, <1>9
  <2> QED BY <1>2, <1>8, <1>11, <1>12, <2>1, InsertOrdered
<1>14. leftmost' = FirstIn(Order(tree'))
  <2>1. o \in List /\ o # Nil /\ FirstIn(o) = n
    BY <1>2, OneLaws
  <2> HIDE DEF o
  <2>2. Cat(o, Z) \in List /\ FirstIn(Cat(o, Z)) = n
    BY <1>8, <2>1, CatLaws
  <2>3. FirstIn(Order(tree')) = IF A = Nil THEN n ELSE FirstIn(A)
    <3> DEFINE k == Cat(o, Z)
    <3>1. k \in List /\ FirstIn(k) = n /\ Order(tree') = Cat(A, k)
      BY <1>11, <2>2
    <3> HIDE DEF k
    <3>2. FirstIn(Cat(A, k)) = IF A = Nil THEN FirstIn(k) ELSE FirstIn(A)
      BY <1>8, <3>1, CatLaws
    <3> QED BY <3>1, <3>2
  <2>4. FirstIn(Order(tree)) = IF A = Nil THEN FirstIn(Z) ELSE FirstIn(A)
    BY <1>8, <1>9, CatLaws
  <2> QED BY <1>1, <1>6, <1>12, <2>3, <2>4
<1>15. OrdInv'
  BY <1>13, <1>14, <1>a DEF OrdInv
<1>16. n = rb.node
  BY DEF n
<1> QED BY <1>2, <1>8, <1>9, <1>11, <1>12, <1>15, <1>16, <1>c

(* rb_erase_cached takes the node out of the order and leaves the others     *)
(* where they were.                                                          *)
LEMMA OrdErase ==
  ASSUME RbInv, RbInv', OrdInv, NEW n \in Nodes, rb_erase_cached(n)
  PROVE  /\ OrdInv'
         /\ \E A, Z : /\ A \in List /\ Z \in List /\ Order(tree) = Cat(A, Cat(One(n), Z))
                      /\ Order(tree') = Cat(A, Z)
<1> DEFINE e == IF NULL \in {tree.child[n].left, tree.child[n].right}
                THEN EraseLeafward(tree, n) ELSE EraseInner(tree, n)
           o == One(n)
<1>1. /\ rb.at = "idle" /\ In(tree, n) /\ tree' = Detached(e.tree, n)
      /\ leftmost' = (IF leftmost = n THEN rb_next(tree, n) ELSE leftmost)
      /\ rb'.at \notin {"left", "right"}
  BY DEF rb_erase_cached, Idle, InTree, In
<1>2. Shape(tree) /\ RedBlack(tree, NULL, NULL, "left")
  BY <1>1 DEF RbInv, Rules
<1>3. Ordered(Order(tree)) /\ leftmost = FirstIn(Order(tree))
  BY DEF OrdInv
<1>4. PICK w : Lists(tree, w) /\ Listed(tree, w)
  BY <1>2, TreeHasLists
<1>5. PICK A, Z : /\ A \in List /\ Z \in List /\ w[tree.root] = Cat(A, Cat(One(n), Z))
                  /\ FirstIn(Z) = rb_next(tree, n)
  BY <1>1, <1>2, <1>4, NeighboursAre
<1>6. Order(tree) = Cat(A, Cat(One(n), Z)) /\ Distinct(Order(tree))
  BY <1>2, <1>4, <1>5, ListsAre DEF Shape, TreeOK
<1>7. Order(tree') = Without(Order(tree), n)
  <2> HIDE DEF e
  <2>1. e = IF NULL \in {tree.child[n].left, tree.child[n].right}
            THEN EraseLeafward(tree, n) ELSE EraseInner(tree, n)
    BY DEF e
  <2> QED BY <1>1, <1>2, <2>1, EraseOrder
<1>8. Order(tree') = Cat(A, Z)
  <2>1. Without(Cat(A, Cat(One(n), Z)), n) = Cat(A, Z)
    BY <1>5, <1>6, WithoutIs
  <2> QED BY <1>6, <1>7, <2>1
<1>9. o \in List /\ o # Nil /\ FirstIn(o) = n /\ Range(o) = {n}
  BY OneLaws
<1>10. Order(tree) = Cat(A, Cat(o, Z))
  BY <1>6
<1> HIDE DEF e, o
<1>11. Cat(o, Z) \in List /\ FirstIn(Cat(o, Z)) = n /\ Range(Cat(o, Z)) = Range(o) \cup Range(Z)
  BY <1>5, <1>9, CatLaws
<1>12. Ordered(Cat(A, Z))
  <2>1. Ordered(A) /\ Ordered(Cat(o, Z)) /\ Before(A, Cat(o, Z))
    BY <1>3, <1>5, <1>10, <1>11, OrderedCat
  <2>2. Ordered(Z)
    BY <1>5, <1>9, <2>1, OrderedCat
  <2>3. Before(A, Z)
    BY <1>11, <2>1 DEF Before
  <2> QED BY <1>5, <2>1, <2>2, <2>3, OrderedCat
<1>13. leftmost' = FirstIn(Order(tree'))
  <2>1. FirstIn(Order(tree)) = IF A = Nil THEN n ELSE FirstIn(A)
    <3> DEFINE k == Cat(o, Z)
    <3>1. k \in List /\ FirstIn(k) = n /\ Order(tree) = Cat(A, k)
      BY <1>10, <1>11
    <3> HIDE DEF k
    <3>2. FirstIn(Cat(A, k)) = IF A = Nil THEN FirstIn(k) ELSE FirstIn(A)
      BY <1>5, <3>1, CatLaws
    <3> QED BY <3>1, <3>2
  <2>2. FirstIn(Order(tree')) = IF A = Nil THEN FirstIn(Z) ELSE FirstIn(A)
    BY <1>5, <1>8, CatLaws
  <2>3. A # Nil => FirstIn(A) # n
    <3>1. Range(A) \cap Range(Cat(o, Z)) = {}
      BY <1>5, <1>6, <1>10, <1>11, CatLaws
    <3>2. A # Nil => FirstIn(A) \in Range(A)
      BY <1>5, ListFacts
    <3> QED BY <1>9, <1>11, <3>1, <3>2
  <2> QED BY <1>1, <1>3, <1>5, <2>1, <2>2, <2>3
<1>14. OrdInv'
  BY <1>1, <1>8, <1>12, <1>13 DEF OrdInv
<1> QED BY <1>5, <1>6, <1>8, <1>14

----------------------------------------------------------------------------
(* The queue that timer.c relies on *)

(* The elements of two lists one behind the other. *)
LEMMA CatAt ==
  ASSUME NEW a \in List, NEW b \in List
  PROVE  /\ Len(a) \in Nat /\ Len(b) \in Nat /\ Len(Cat(a, b)) = Len(a) + Len(b)
         /\ DOMAIN Cat(a, b) = 1 .. Len(a) + Len(b)
         /\ \A i \in 1 .. Len(a) + Len(b) : Cat(a, b)[i] = IF i <= Len(a) THEN a[i] ELSE b[i - Len(a)]
BY ConcatProperties, LenProperties DEF List, Cat

(* The list with a node more or less, as the queue writes it. *)
Added(q, r, n) ==
    \E i \in 0 .. Len(q) :
      /\ \A j \in DOMAIN q : j <= i <=> Key[q[j]] <= Key[n]
      /\ r = SubSeq(q, 1, i) \o <<n>> \o SubSeq(q, i + 1, Len(q))
Erased(q, r, n) ==
    \E i \in DOMAIN q : q[i] = n /\ r = SubSeq(q, 1, i - 1) \o SubSeq(q, i + 1, Len(q))

(* A node put between A and Z is added as the queue adds it. *)
LEMMA QueueAdds ==
  ASSUME NEW A \in List, NEW Z \in List, NEW n \in Nodes, NEW q, q = Cat(A, Z),
         NEW r, r = Cat(A, Cat(One(n), Z)),
         \A x \in Range(A) : Key[x] <= Key[n], \A x \in Range(Z) : Key[n] < Key[x]
  PROVE  Added(q, r, n)
<1>1. SubSeq(q, 1, Len(A)) = A /\ SubSeq(q, Len(A) + 1, Len(q)) = Z
  BY Halves
<1>2. /\ Len(A) \in Nat /\ Len(Z) \in Nat /\ Len(q) = Len(A) + Len(Z) /\ DOMAIN q = 1 .. Len(q)
      /\ DOMAIN A = 1 .. Len(A) /\ DOMAIN Z = 1 .. Len(Z)
      /\ \A i \in 1 .. Len(A) + Len(Z) : q[i] = IF i <= Len(A) THEN A[i] ELSE Z[i - Len(A)]
  BY ConcatProperties, LenProperties DEF List, Cat
<1>3. r = A \o <<n>> \o Z
  <2>1. One(n) \in List
    BY OneLaws
  <2>2. r = Cat(Cat(A, One(n)), Z)
    BY <2>1, CatAssociates
  <2> QED BY <2>2 DEF Cat, One
<1>4. ASSUME NEW j \in DOMAIN q PROVE j <= Len(A) <=> Key[q[j]] <= Key[n]
  <2>1. CASE j <= Len(A)
    <3>1. q[j] = A[j] /\ j \in DOMAIN A
      BY <1>2, <2>1
    <3>2. q[j] \in Range(A)
      BY <3>1 DEF Range
    <3> QED BY <2>1, <3>2
  <2>2. CASE ~(j <= Len(A))
    <3>1. q[j] = Z[j - Len(A)] /\ j - Len(A) \in DOMAIN Z
      BY <1>2, <2>2
    <3>2. q[j] \in Range(Z)
      BY <3>1 DEF Range
    <3>3. Key[n] < Key[q[j]] /\ q[j] \in Nodes
      BY <3>2, ListFacts
    <3>4. Key[n] \in Int /\ Key[q[j]] \in Int
      BY <3>3, KeysAreNumbers
    <3> QED BY <2>2, <3>3, <3>4
  <2> QED BY <2>1, <2>2
<1>5. Len(A) \in 0 .. Len(q)
  BY <1>2
<1> QED BY <1>1, <1>3, <1>4, <1>5 DEF Added

(* A node left out is erased as the queue erases it. *)
LEMMA QueueErases ==
  ASSUME NEW A \in List, NEW Z \in List, NEW n \in Nodes, NEW q, q = Cat(A, Cat(One(n), Z)),
         NEW r, r = Cat(A, Z)
  PROVE  Erased(q, r, n)
<1> DEFINE o == One(n)
           k == Cat(o, Z)
           c == Cat(A, o)
           i == Len(A) + 1
<1>1. o \in List /\ Len(o) = 1 /\ o[1] = n
  BY OneLaws DEF One
<1> HIDE DEF o
<1>a. k \in List /\ Len(k) = 1 + Len(Z)
  <2>1. k \in List /\ Len(k) = Len(o) + Len(Z)
    BY <1>1, CatLaws
  <2> QED BY <1>1, <2>1
<1>b. c \in List /\ Len(c) = Len(A) + 1
  <2>1. c \in List /\ Len(c) = Len(A) + Len(o)
    BY <1>1, CatLaws
  <2> QED BY <1>1, <2>1
<1>2. k \in List /\ c \in List /\ Len(k) = 1 + Len(Z) /\ Len(c) = Len(A) + 1
  BY <1>a, <1>b
<1>3. q = Cat(A, k) /\ q = Cat(c, Z)
  BY <1>1, CatAssociates DEF o
<1>4. k[1] = n
  BY <1>1, ConcatProperties DEF k, Cat, List
<1> HIDE DEF k, c
<1>5. /\ Len(A) \in Nat /\ Len(Z) \in Nat /\ Len(q) = Len(A) + Len(k) /\ DOMAIN q = 1 .. Len(q)
      /\ \A j \in 1 .. Len(A) + Len(k) : q[j] = IF j <= Len(A) THEN A[j] ELSE k[j - Len(A)]
  <2>1. Len(Z) \in Nat
    BY ListFacts
  <2>2. /\ Len(A) \in Nat /\ Len(Cat(A, k)) = Len(A) + Len(k) /\ DOMAIN Cat(A, k) = 1 .. Len(A) + Len(k)
        /\ \A j \in 1 .. Len(A) + Len(k) : Cat(A, k)[j] = IF j <= Len(A) THEN A[j] ELSE k[j - Len(A)]
    BY <1>2, CatAt
  <2> QED BY <1>3, <2>1, <2>2
<1>6. i \in DOMAIN q /\ i - 1 = Len(A) /\ ~(i <= Len(A)) /\ i - Len(A) = 1 /\ i = Len(c)
  BY <1>2, <1>5
<1>7. q[i] = n
  BY <1>2, <1>4, <1>5, <1>6
<1>8. SubSeq(q, 1, Len(A)) = A
  <2>1. SubSeq(Cat(A, k), 1, Len(A)) = A
    BY <1>2, Halves
  <2> QED BY <1>3, <2>1
<1>9. SubSeq(q, Len(c) + 1, Len(q)) = Z
  <2>1. SubSeq(Cat(c, Z), Len(c) + 1, Len(Cat(c, Z))) = Z
    BY <1>2, Halves
  <2> QED BY <1>3, <2>1
<1>10. r = SubSeq(q, 1, i - 1) \o SubSeq(q, i + 1, Len(q))
  BY <1>6, <1>8, <1>9 DEF Cat
<1> QED BY <1>6, <1>7, <1>10 DEF Erased

(* The order is what the mapping gives the queue. *)
LEMMA OrderIsInOrder == InOrder = Order(tree)
BY DEF InOrder, Order, OrderFrom

(* The head of the queue is the first node of the list. *)
LEMMA FirstOfIs ==
  ASSUME NEW q \in List
  PROVE  Queue!FirstOf(q) = FirstIn(q)
BY DEF Queue!FirstOf, FirstIn, List

(* Each step of the tree is a step of the queue, or none. *)
LEMMA QueueStep ==
  ASSUME RbInv, RbInv', OrdInv, [RbNext]_rbVars
  PROVE  OrdInv' /\ [Queue!QueueNext]_(Queue!QueueVars)
<1>1. InOrder = Order(tree) /\ InOrder' = Order(tree')
  <2>1. InOrder = Order(tree)
    BY OrderIsInOrder
  <2>2. InOrder' = Order(tree')
    BY DEF InOrder, Order, OrderFrom
  <2> QED BY <2>1, <2>2
<1>a. Order(tree) \in List /\ Order(tree') \in List
  <2>1. Shape(tree) /\ Shape(tree')
    BY DEF RbInv
  <2>2. (\E w : Lists(tree, w)) /\ (\E w : Lists(tree', w))
    BY <2>1, TreeHasLists
  <2> QED BY <2>1, <2>2, ListsAre
<1>2. ASSUME Order(tree') = Order(tree), leftmost' = leftmost PROVE [Queue!QueueNext]_(Queue!QueueVars)
  BY <1>1, <1>2 DEF Queue!QueueVars
<1>3. OrdInv' => leftmost' = Queue!FirstOf(Order(tree'))
  <2>1. Queue!FirstOf(Order(tree')) = FirstIn(Order(tree'))
    BY <1>a, FirstOfIs
  <2> QED BY <2>1 DEF OrdInv
<1>4. CASE UNCHANGED rbVars
  <2>1. tree' = tree /\ leftmost' = leftmost /\ rb' = rb /\ Link' = Link
    BY <1>4 DEF rbVars, Link
  <2>2. OrdInv'
    BY <2>1 DEF OrdInv
  <2> QED BY <1>2, <2>1, <2>2
<1>5. ASSUME NEW n \in Nodes, rb_add_cached(n) PROVE OrdInv' /\ [Queue!QueueNext]_(Queue!QueueVars)
  <2>1. tree' = tree /\ leftmost' = leftmost
    BY <1>5 DEF rb_add_cached
  <2> QED BY <1>2, <1>5, <2>1, OrdAdd
<1>6. CASE rb_add_descend
  <2>1. tree' = tree /\ leftmost' = leftmost
    BY <1>6 DEF rb_add_descend
  <2> QED BY <1>2, <1>6, <2>1, OrdDescend
<1>7. CASE rb_link_node
  <2> DEFINE n == rb.node
             q == Order(tree)
             r == Order(tree')
  <2>1. OrdInv' /\ n \in Nodes /\ n \notin Range(q)
    BY <1>7, OrdLink
  <2>2. PICK A, Z : /\ A \in List /\ Z \in List /\ q = Cat(A, Z) /\ r = Cat(A, Cat(One(n), Z))
                    /\ \A x \in Range(A) : Key[x] <= Key[n]
                    /\ \A x \in Range(Z) : Key[n] < Key[x]
    BY <1>7, OrdLink
  <2>a. q = InOrder /\ r = InOrder' /\ leftmost' = Queue!FirstOf(r)
    BY <1>1, <1>3, <2>1
  <2> HIDE DEF n, q, r
  <2>3. Added(q, r, n)
    BY <2>1, <2>2, QueueAdds
  <2>4. n \notin {q[i] : i \in DOMAIN q}
    BY <2>1 DEF Range
  <2>5. Queue!Add(n)
    BY <2>3, <2>4, <2>a DEF Queue!Add, Queue!Queued, Added
  <2>6. Queue!QueueNext
    BY <2>1, <2>5 DEF Queue!QueueNext
  <2> QED BY <2>1, <2>6
<1>8. ASSUME NEW n \in Nodes, rb_erase_cached(n) PROVE OrdInv' /\ [Queue!QueueNext]_(Queue!QueueVars)
  <2> DEFINE q == Order(tree)
             r == Order(tree')
  <2>1. OrdInv'
    BY <1>8, OrdErase
  <2>2. PICK A, Z : A \in List /\ Z \in List /\ q = Cat(A, Cat(One(n), Z)) /\ r = Cat(A, Z)
    BY <1>8, OrdErase
  <2>a. q = InOrder /\ r = InOrder' /\ leftmost' = Queue!FirstOf(r)
    BY <1>1, <1>3, <2>1
  <2> HIDE DEF q, r
  <2>3. Erased(q, r, n)
    BY <2>2, QueueErases
  <2>4. Queue!Erase(n)
    BY <2>3, <2>a DEF Queue!Erase, Erased
  <2>5. Queue!QueueNext
    BY <2>4 DEF Queue!QueueNext
  <2> QED BY <2>1, <2>5
<1>9. CASE \/ rb_insert_done \/ rb_insert_flip \/ rb_insert_rotate
           \/ rb_erase_red_sibling \/ rb_erase_flip \/ rb_erase_rotate
  <2>1. Order(tree') = Order(tree) /\ leftmost' = leftmost /\ rb'.at \notin {"left", "right"}
    BY <1>9, RebalanceOrder
  <2>2. OrdInv'
    BY <2>1 DEF OrdInv
  <2> QED BY <1>2, <2>1, <2>2
<1> QED BY <1>4, <1>5, <1>6, <1>7, <1>8, <1>9 DEF RbNext

(* The empty tree is the empty queue. *)
LEMMA QueueInitially == RbInit /\ RbInv => Queue!QueueInit
<1> SUFFICES ASSUME RbInit, RbInv PROVE Queue!QueueInit
  OBVIOUS
<1>1. Shape(tree) /\ tree.root = NULL /\ leftmost = NULL
  BY DEF RbInit, RbInv
<1>2. PICK w : Lists(tree, w)
  BY <1>1, TreeHasLists
<1>3. Order(tree) = Nil
  BY <1>1, <1>2, ListsAre DEF Lists
<1>4. InOrder = <<>>
  BY <1>3, OrderIsInOrder DEF Nil
<1> QED BY <1>1, <1>4 DEF Queue!QueueInit

(***************************************************************************)
(* The tree implements the queue timer.c relies on: rb_add_cached puts a   *)
(* node behind all nodes whose key is not greater, rb_erase_cached takes   *)
(* out the node it is given and no other, rebalancing changes nothing, and *)
(* rb_first_cached is always the head of the queue, the earliest deadline. *)
(***************************************************************************)
THEOREM RbImplementsTimerQueue == RbSpec => ImplementsTimerQueue
<1>1. RbInv /\ RbInv' /\ OrdInv /\ [RbNext]_rbVars => OrdInv' /\ [Queue!QueueNext]_(Queue!QueueVars)
  BY QueueStep
<1> QED BY <1>1, RbInvariant, OrdInitially, QueueInitially, PTL DEF RbSpec, ImplementsTimerQueue, Queue!QueueSpec

----------------------------------------------------------------------------
(* The walks.  Postorder lists hold the children before their parent. *)
Posts(t, w) ==
    /\ w[NULL] = Nil /\ \A n \in Pointer : w[n] \in List
    /\ \A n \in Nodes : w[n] = Cat(w[t.child[n]["left"]], Cat(w[t.child[n]["right"]], One(n)))

(* Every tree has postorder lists. *)
LEMMA PostUnfolds ==
  ASSUME NEW t, Shape(t)
  PROVE  \E w : /\ w[NULL] = Nil
                /\ \A n \in Nodes : w[n] = Cat(w[t.child[n]["left"]], Cat(w[t.child[n]["right"]], One(n)))
<1>1. PICK r \in [Pointer -> Nat] : \A n \in Nodes, d \in Sides : r[t.child[n][d]] < r[n]
  BY Ranks
<1>2. /\ \A n \in Nodes : /\ t.child[n].left = t.child[n]["left"] /\ t.child[n].right = t.child[n]["right"]
                          /\ t.child[n]["left"] \in Pointer /\ t.child[n]["right"] \in Pointer
      /\ "left" \in Sides /\ "right" \in Sides
  BY DEF Shape, TreeOK, Sides
<1> DEFINE R == {ss \in Pointer \X Pointer : r[ss[1]] < r[ss[2]]}
           Step(g, n) == IF n = NULL THEN Nil ELSE Cat(g[t.child[n].left], Cat(g[t.child[n].right], One(n)))
           F == CHOOSE f : f = [n \in Pointer |-> Step(f, n)]
<1>3. IsWellFoundedOn(R, Pointer)
  BY RankWellFounded
<1>4. WFDefOn(R, Pointer, Step)
  <2> SUFFICES ASSUME NEW g, NEW h, NEW x \in Pointer, \A y \in SetLessThan(x, R, Pointer) : g[y] = h[y]
               PROVE  Step(g, x) = Step(h, x)
    BY DEF WFDefOn
  <2>1. x # NULL => x \in Nodes
    BY DEF Pointer
  <2>2. x # NULL => /\ t.child[x].left \in SetLessThan(x, R, Pointer)
                    /\ t.child[x].right \in SetLessThan(x, R, Pointer)
    BY <1>1, <1>2, <2>1 DEF SetLessThan
  <2> QED BY <2>2
<1>5. OpDefinesFcn(F, Pointer, Step)
  BY DEF OpDefinesFcn
<1> HIDE DEF R, Step, F
<1>7. WFInductiveDefines(F, Pointer, Step)
  BY <1>3, <1>4, <1>5, WFInductiveDef
<1>8. \A n \in Pointer : F[n] = Step(F, n)
  BY <1>7 DEF WFInductiveDefines
<1>9. F[NULL] = Nil
  BY <1>8 DEF Step, Pointer
<1>10. ASSUME NEW n \in Nodes PROVE F[n] = Cat(F[t.child[n]["left"]], Cat(F[t.child[n]["right"]], One(n)))
  <2>1. n # NULL /\ n \in Pointer
    BY NullIsNoNode DEF Pointer
  <2>2. F[n] = Cat(F[t.child[n].left], Cat(F[t.child[n].right], One(n)))
    BY <1>8, <2>1 DEF Step
  <2> QED BY <1>2, <2>2
<1> QED BY <1>9, <1>10

(* They hold the nodes that the lists in order hold, once each. *)
LEMMA PostsAre ==
  ASSUME NEW t, Shape(t), NEW v, Lists(t, v)
  PROVE  \E w : Posts(t, w) /\ \A m \in Pointer : /\ Range(w[m]) = Range(v[m]) /\ Len(w[m]) = Len(v[m])
                                                  /\ Distinct(w[m])
<1>1. PICK r \in [Pointer -> Nat] : \A n \in Nodes, d \in Sides : r[t.child[n][d]] < r[n]
  BY Ranks
<1>2. /\ \A n \in Nodes : t.child[n]["left"] \in Pointer /\ t.child[n]["right"] \in Pointer
      /\ "left" \in Sides /\ "right" \in Sides
  BY DEF Shape, TreeOK, Sides
<1>3. PICK w : /\ w[NULL] = Nil
               /\ \A n \in Nodes : w[n] = Cat(w[t.child[n]["left"]], Cat(w[t.child[n]["right"]], One(n)))
  BY PostUnfolds
<1>4. /\ \A m \in Pointer : Distinct(v[m]) /\ v[m] \in List
      /\ v[NULL] = Nil
      /\ \A n \in Nodes : v[n] = Cat(v[t.child[n]["left"]], Cat(One(n), v[t.child[n]["right"]]))
  BY ListsAre DEF Lists
<1> DEFINE P(m) == w[m] \in List /\ Range(w[m]) = Range(v[m]) /\ Len(w[m]) = Len(v[m]) /\ Distinct(w[m])
           T == {m \in Pointer : P(m)}
<1>5. ASSUME NEW m \in Pointer, \A k \in Pointer : r[k] < r[m] => k \in T PROVE m \in T
  <2>1. CASE m = NULL
    BY <1>3, <1>4, <2>1, NilLaws
  <2>2. CASE m # NULL
    <3> DEFINE l == t.child[m]["left"]
               q == t.child[m]["right"]
               o == One(m)
               wl == w[l]
               wq == w[q]
               vl == v[l]
               vq == v[q]
               k == Cat(wq, o)
               j == Cat(o, vq)
    <3>1. m \in Nodes
      BY <2>2 DEF Pointer
    <3>2. P(l) /\ P(q) /\ l \in Pointer /\ q \in Pointer
      BY <1>1, <1>2, <1>5, <3>1
    <3>3. o \in List /\ Range(o) = {m} /\ Distinct(o) /\ Len(o) = 1
      BY <3>1, OneLaws
    <3>4. w[m] = Cat(wl, k) /\ v[m] = Cat(vl, j) /\ vl \in List /\ vq \in List /\ v[m] \in List /\ Distinct(v[m])
      BY <1>3, <1>4, <3>1, <3>2
    <3>5. /\ wl \in List /\ Range(wl) = Range(vl) /\ Len(wl) = Len(vl) /\ Distinct(wl)
          /\ wq \in List /\ Range(wq) = Range(vq) /\ Len(wq) = Len(vq) /\ Distinct(wq)
      BY <3>2
    <3> HIDE DEF l, q, o, wl, wq, vl, vq
    <3>6. k \in List /\ Range(k) = Range(wq) \cup Range(o) /\ Len(k) = Len(wq) + Len(o)
      BY <3>3, <3>5, CatLaws
    <3>7. j \in List /\ Range(j) = Range(o) \cup Range(vq) /\ Len(j) = Len(o) + Len(vq)
          /\ (Distinct(j) <=> Distinct(o) /\ Distinct(vq) /\ Range(o) \cap Range(vq) = {})
      BY <3>3, <3>4, CatLaws
    <3>k. Distinct(k) <=> Distinct(wq) /\ Distinct(o) /\ Range(wq) \cap Range(o) = {}
      BY <3>3, <3>5, CatLaws
    <3> HIDE DEF k, j
    <3>8. /\ w[m] \in List /\ Range(w[m]) = Range(wl) \cup Range(k) /\ Len(w[m]) = Len(wl) + Len(k)
          /\ (Distinct(w[m]) <=> Distinct(wl) /\ Distinct(k) /\ Range(wl) \cap Range(k) = {})
      <4>1. /\ Cat(wl, k) \in List /\ Range(Cat(wl, k)) = Range(wl) \cup Range(k) /\ Len(Cat(wl, k)) = Len(wl) + Len(k)
            /\ (Distinct(Cat(wl, k)) <=> Distinct(wl) /\ Distinct(k) /\ Range(wl) \cap Range(k) = {})
        BY <3>5, <3>6, CatLaws
      <4> QED BY <3>4, <4>1
    <3>9. /\ Range(v[m]) = Range(vl) \cup Range(j) /\ Len(v[m]) = Len(vl) + Len(j)
          /\ Distinct(j) /\ Range(vl) \cap Range(j) = {}
      <4>1. /\ Range(Cat(vl, j)) = Range(vl) \cup Range(j) /\ Len(Cat(vl, j)) = Len(vl) + Len(j)
            /\ (Distinct(Cat(vl, j)) <=> Distinct(vl) /\ Distinct(j) /\ Range(vl) \cap Range(j) = {})
        BY <3>4, <3>7, CatLaws
      <4> QED BY <3>4, <4>1
    <3>10. Range(k) = Range(j) /\ Distinct(k)
      BY <3>3, <3>5, <3>6, <3>7, <3>9, <3>k
    <3>11. Len(k) = Len(j)
      <4>1. Len(wq) \in Nat
        BY <3>5, ListFacts
      <4> QED BY <3>3, <3>5, <3>6, <3>7, <4>1
    <3>12. P(m)
      BY <3>5, <3>8, <3>9, <3>10, <3>11
    <3> QED BY <3>12
  <2> QED BY <2>1, <2>2
<1> HIDE DEF T
<1>6. \A m \in Pointer : m \in T
  BY <1>5, ByRank
<1>7. \A m \in Pointer : P(m)
  BY <1>6 DEF T
<1>8. Posts(t, w)
  BY <1>3, <1>7 DEF Posts
<1> QED BY <1>7, <1>8

(* rb_left_deepest_node, unfolded: the first node of the postorder list. *)
LEMMA DeepestUnfolds ==
  ASSUME NEW t, Shape(t)
  PROVE  \A m \in Nodes :
           rb_left_deepest_node(t, m) =
             IF t.child[m]["left"] # NULL THEN rb_left_deepest_node(t, t.child[m]["left"])
             ELSE IF t.child[m]["right"] # NULL THEN rb_left_deepest_node(t, t.child[m]["right"]) ELSE m
<1>1. PICK r, B : Ranked(t, r, B)
  BY DEF Shape
<1> DEFINE R == {ss \in Nodes \X Nodes : r[ss[1]] < r[ss[2]]}
           Step(g, m) == IF t.child[m].left # NULL THEN g[t.child[m].left]
                         ELSE IF t.child[m].right # NULL THEN g[t.child[m].right] ELSE m
           F == CHOOSE f : f = [m \in Nodes |-> Step(f, m)]
<1>0. /\ r \in [Nodes -> Nat]
      /\ \A m \in Nodes, d \in Sides : t.child[m][d] \in Pointer /\ (t.child[m][d] # NULL => r[t.child[m][d]] < r[m])
      /\ "left" \in Sides /\ "right" \in Sides
      /\ \A m \in Nodes : t.child[m].left = t.child[m]["left"] /\ t.child[m].right = t.child[m]["right"]
  BY <1>1 DEF Shape, TreeOK, Ranked, Sides
<1>2. IsWellFoundedOn(R, Nodes)
  BY <1>0, RankWellFounded
<1>3. WFDefOn(R, Nodes, Step)
  <2> SUFFICES ASSUME NEW g, NEW h, NEW x \in Nodes, \A y \in SetLessThan(x, R, Nodes) : g[y] = h[y]
               PROVE  Step(g, x) = Step(h, x)
    BY DEF WFDefOn
  <2>1. /\ t.child[x].left # NULL => t.child[x].left \in SetLessThan(x, R, Nodes)
        /\ t.child[x].right # NULL => t.child[x].right \in SetLessThan(x, R, Nodes)
    BY <1>0, NullIsNoNode DEF SetLessThan, Pointer
  <2> QED BY <2>1
<1>4. OpDefinesFcn(F, Nodes, Step)
  BY DEF OpDefinesFcn
<1>5. \A m : rb_left_deepest_node(t, m) = F[m]
  BY DEF rb_left_deepest_node
<1> HIDE DEF R, Step, F
<1>6. WFInductiveDefines(F, Nodes, Step)
  BY <1>2, <1>3, <1>4, WFInductiveDef
<1>7. \A m \in Nodes : F[m] = Step(F, m)
  BY <1>6 DEF WFInductiveDefines
<1> TAKE m \in Nodes
<1>8. F[m] = IF t.child[m].left # NULL THEN F[t.child[m].left]
             ELSE IF t.child[m].right # NULL THEN F[t.child[m].right] ELSE m
  BY <1>7 DEF Step
<1>9. t.child[m].left = t.child[m]["left"] /\ t.child[m].right = t.child[m]["right"]
  BY <1>0
<1> QED BY <1>5, <1>8, <1>9

(* rb_left_deepest_node finds the first node of the postorder list. *)
LEMMA DeepestIsFirst ==
  ASSUME NEW t, Shape(t), NEW w, Posts(t, w)
  PROVE  \A m \in Nodes : rb_left_deepest_node(t, m) = FirstIn(w[m]) /\ LastIn(w[m]) = m /\ w[m] # Nil
<1>1. PICK r \in [Pointer -> Nat] : \A n \in Nodes, d \in Sides : r[t.child[n][d]] < r[n]
  BY Ranks
<1>2. /\ \A n \in Nodes : t.child[n]["left"] \in Pointer /\ t.child[n]["right"] \in Pointer
      /\ "left" \in Sides /\ "right" \in Sides /\ NULL \notin Nodes
  BY NullIsNoNode DEF Shape, TreeOK, Sides
<1>3. /\ w[NULL] = Nil /\ \A n \in Pointer : w[n] \in List
      /\ \A n \in Nodes : w[n] = Cat(w[t.child[n]["left"]], Cat(w[t.child[n]["right"]], One(n)))
  BY DEF Posts
<1> DEFINE P(m) == rb_left_deepest_node(t, m) = FirstIn(w[m]) /\ LastIn(w[m]) = m /\ w[m] # Nil
           T == {m \in Pointer : m \in Nodes => P(m)}
<1>4. ASSUME NEW m \in Pointer, \A k \in Pointer : r[k] < r[m] => k \in T PROVE m \in T
  <2> SUFFICES ASSUME m \in Nodes PROVE P(m)
    OBVIOUS
  <2> DEFINE l == t.child[m]["left"]
             q == t.child[m]["right"]
             o == One(m)
             wl == w[l]
             wq == w[q]
             k == Cat(wq, o)
  <2>1. l \in Pointer /\ q \in Pointer /\ (l # NULL => P(l)) /\ (q # NULL => P(q))
    <3>1. l \in Pointer /\ q \in Pointer /\ r[l] < r[m] /\ r[q] < r[m]
      BY <1>1, <1>2
    <3>2. l \in T /\ q \in T
      BY <1>4, <3>1
    <3>3. (l # NULL => l \in Nodes) /\ (q # NULL => q \in Nodes)
      BY <3>1 DEF Pointer
    <3> QED BY <3>1, <3>2, <3>3
  <2>2. o \in List /\ o # Nil /\ FirstIn(o) = m /\ LastIn(o) = m
    BY OneLaws
  <2>3. wl \in List /\ wq \in List /\ w[m] = Cat(wl, k) /\ (l = NULL => wl = Nil) /\ (q = NULL => wq = Nil)
        /\ (l # NULL => wl # Nil /\ FirstIn(wl) = rb_left_deepest_node(t, l))
        /\ (q # NULL => wq # Nil /\ FirstIn(wq) = rb_left_deepest_node(t, q))
    BY <1>3, <2>1
  <2>4. rb_left_deepest_node(t, m) =
             IF l # NULL THEN rb_left_deepest_node(t, l) ELSE IF q # NULL THEN rb_left_deepest_node(t, q) ELSE m
    BY DeepestUnfolds
  <2> HIDE DEF l, q, o, wl, wq
  <2>5. k \in List /\ k # Nil /\ LastIn(k) = m /\ FirstIn(k) = IF wq = Nil THEN m ELSE FirstIn(wq)
    <3>1. /\ k \in List /\ (k = Nil <=> wq = Nil /\ o = Nil)
          /\ LastIn(k) = IF o = Nil THEN LastIn(wq) ELSE LastIn(o)
      BY <2>2, <2>3, CatLaws
    <3>2. FirstIn(k) = IF wq = Nil THEN FirstIn(o) ELSE FirstIn(wq)
      BY <2>2, <2>3, CatLaws, ZenonT(60)
    <3> HIDE DEF k
    <3> QED BY <2>2, <3>1, <3>2
  <2> HIDE DEF k
  <2>6. /\ FirstIn(Cat(wl, k)) = IF wl = Nil THEN FirstIn(k) ELSE FirstIn(wl)
        /\ LastIn(Cat(wl, k)) = m /\ Cat(wl, k) # Nil
    BY <2>3, <2>5, CatLaws
  <2>7. rb_left_deepest_node(t, m) = FirstIn(Cat(wl, k))
    BY <2>3, <2>4, <2>5, <2>6
  <2> QED BY <2>3, <2>6, <2>7
<1> HIDE DEF T
<1>5. \A m \in Pointer : m \in T
  BY <1>4, ByRank
<1> QED BY <1>5 DEF T, Pointer

(* The subtree of a node in the postorder list of the tree: what follows is  *)
(* what rb_next_postorder goes to.                                           *)
Followed(t, w, n, A, Z) ==
    /\ A \in List /\ Z \in List /\ w[t.root] = Cat(A, Cat(w[n], Z))
    /\ FirstIn(Z) = rb_next_postorder(t, n)

(* Every subtree stands in one piece in the postorder list of the tree. *)
LEMMA FollowedIs ==
  ASSUME NEW t, Shape(t), NEW w, Posts(t, w)
  PROVE  \A n \in Nodes : In(t, n) => \E A, Z : Followed(t, w, n, A, Z)
<1>0. /\ TreeOK(t) /\ Links(t) /\ "left" \in Sides /\ "right" \in Sides /\ NULL \notin Nodes
      /\ Opposite("left") = "right" /\ Opposite("right") = "left"
      /\ \A m \in Nodes : t.up[m] \in Pointer /\ t.child[m]["left"] \in Pointer /\ t.child[m]["right"] \in Pointer
      /\ \A m \in Nodes : t.child[m].left = t.child[m]["left"] /\ t.child[m].right = t.child[m]["right"]
  BY NullIsNoNode DEF Shape, Sides, TreeOK, Opposite
<1>1. PICK up \in [Nodes -> Nat] : \A m \in Nodes : t.up[m] # NULL => up[t.up[m]] < up[m]
  BY Ranks
<1>3. /\ w[NULL] = Nil /\ \A n \in Pointer : w[n] \in List
      /\ \A n \in Nodes : w[n] \in List
      /\ \A n \in Nodes : w[n] = Cat(w[t.child[n]["left"]], Cat(w[t.child[n]["right"]], One(n)))
  BY DEF Posts, Pointer
<1> DEFINE T == {m \in Nodes : In(t, m) => \E A, Z : Followed(t, w, m, A, Z)}
<1>5. ASSUME NEW m \in Nodes, \A j \in Nodes : up[j] < up[m] => j \in T PROVE m \in T
  <2> SUFFICES ASSUME In(t, m) PROVE \E A, Z : Followed(t, w, m, A, Z)
    OBVIOUS
  <2>1. CASE t.up[m] = NULL
    <3>1. t.root = m /\ rb_next_postorder(t, m) = NULL
      BY <2>1 DEF In, rb_next_postorder
    <3>2. Cat(Nil, Cat(w[m], Nil)) = w[m] /\ Nil \in List
      BY <1>3, NilLaws
    <3>3. Followed(t, w, m, Nil, Nil)
      BY <3>1, <3>2, NilLaws DEF Followed
    <3> QED BY <3>3
  <2>2. CASE t.up[m] # NULL
    <3> DEFINE p == t.up[m]
               q == t.child[p]["right"]
               L == w[t.child[p]["left"]]
               R == w[q]
               o == One(p)
    <3>1. p \in Nodes /\ up[p] < up[m]
      BY <1>0, <1>1, <2>2 DEF Pointer
    <3>2. PICK d \in Sides : t.child[p][d] = m /\ t.child[p][Opposite(d)] # m
      BY <1>0, <2>2, HangsOnce DEF HangsFrom
    <3>3. In(t, p)
      BY <1>0, <3>1, <3>2 DEF Links
    <3>4. PICK A, Z : Followed(t, w, p, A, Z)
      BY <1>5, <3>1, <3>3
    <3>5. L \in List /\ R \in List /\ w[p] = Cat(L, Cat(R, o)) /\ (q # NULL => q \in Nodes) /\ (q = NULL => R = Nil)
      BY <1>0, <1>3, <3>1 DEF Pointer
    <3>6. FirstIn(o) = p /\ o # Nil /\ o \in List
      BY <3>1, OneLaws
    <3>7. A \in List /\ Z \in List /\ w[t.root] = Cat(A, Cat(w[p], Z))
      BY <3>4 DEF Followed
    <3>8. /\ (d = "left" => L = w[m] /\ m # q /\ m = t.child[p]["left"])
          /\ (d = "right" => R = w[m] /\ m # t.child[p]["left"])
      BY <1>0, <3>2
    <3>9. rb_next_postorder(t, m) = IF m = t.child[p]["left"] /\ q # NULL THEN rb_left_deepest_node(t, q) ELSE p
      <4>1. rb_next_postorder(t, m) = IF p # NULL /\ m = t.child[p].left /\ t.child[p].right # NULL
                                      THEN rb_left_deepest_node(t, t.child[p].right) ELSE p
        BY DEF rb_next_postorder
      <4>2. t.child[p].left = t.child[p]["left"] /\ t.child[p].right = q
        BY <1>0, <3>1
      <4> HIDE DEF p, q
      <4> QED BY <1>0, <3>1, <4>1, <4>2
    <3>10. q # NULL => rb_left_deepest_node(t, q) = FirstIn(R) /\ R # Nil
      BY <3>5, DeepestIsFirst
    <3> HIDE DEF p, q, L, R, o
    <3>11. CASE d = "left"
      <4> DEFINE K == Cat(R, o)
      <4>1. K \in List /\ w[p] = Cat(L, K) /\ K # Nil /\ FirstIn(K) = IF R = Nil THEN p ELSE FirstIn(R)
        BY <3>5, <3>6, CatLaws
      <4> HIDE DEF K
      <4>2. Cat(K, Z) \in List /\ FirstIn(Cat(K, Z)) = FirstIn(K)
        BY <3>7, <4>1, CatLaws
      <4>3. w[t.root] = Cat(A, Cat(L, Cat(K, Z)))
        BY <3>5, <3>7, <4>1, CatAssociates
      <4>4. rb_next_postorder(t, m) = FirstIn(K)
        BY <3>5, <3>8, <3>9, <3>10, <3>11, <4>1
      <4>5. Followed(t, w, m, A, Cat(K, Z))
        BY <3>7, <3>8, <3>11, <4>2, <4>3, <4>4 DEF Followed
      <4> QED BY <4>5
    <3>12. CASE d = "right"
      <4>1. Cat(A, L) \in List /\ Cat(o, Z) \in List /\ FirstIn(Cat(o, Z)) = p
        BY <3>5, <3>6, <3>7, CatLaws
      <4>a. Cat(R, o) \in List /\ Cat(R, Cat(o, Z)) \in List
        BY <3>5, <3>6, <4>1, CatLaws
      <4>b. Cat(Cat(L, Cat(R, o)), Z) = Cat(L, Cat(Cat(R, o), Z))
        BY <3>5, <3>7, <4>a, CatAssociates
      <4>c. Cat(Cat(R, o), Z) = Cat(R, Cat(o, Z))
        BY <3>5, <3>6, <3>7, CatAssociates
      <4>d. Cat(Cat(A, L), Cat(R, Cat(o, Z))) = Cat(A, Cat(L, Cat(R, Cat(o, Z))))
        BY <3>5, <3>7, <4>a, CatAssociates
      <4>3. w[t.root] = Cat(Cat(A, L), Cat(R, Cat(o, Z)))
        BY <3>5, <3>7, <4>b, <4>c, <4>d
      <4>4. rb_next_postorder(t, m) = p
        BY <3>8, <3>9, <3>12
      <4>5. Followed(t, w, m, Cat(A, L), Cat(o, Z))
        BY <3>7, <3>8, <3>12, <4>1, <4>3, <4>4 DEF Followed
      <4> QED BY <4>5
    <3> QED BY <3>11, <3>12 DEF Sides
  <2> QED BY <2>1, <2>2
<1> HIDE DEF T
<1>6. \A m \in Nodes : m \in T
  BY <1>5, ByRank
<1> QED BY <1>6 DEF T

(* A node with what comes before it, its children among it, and behind it. *)
LEMMA PostNeighbours ==
  ASSUME NEW t, Shape(t), NEW w, Posts(t, w), NEW n \in Nodes, In(t, n)
  PROVE  \E A, Z : /\ A \in List /\ Z \in List /\ w[t.root] = Cat(A, Cat(One(n), Z))
                   /\ FirstIn(Z) = rb_next_postorder(t, n)
                   /\ \A d \in Sides : t.child[n][d] # NULL => t.child[n][d] \in Range(A)
<1> DEFINE l == t.child[n]["left"]
           q == t.child[n]["right"]
           L == w[l]
           R == w[q]
           o == One(n)
           K == Cat(L, R)
<1>0. l \in Pointer /\ q \in Pointer /\ (l # NULL => l \in Nodes) /\ (q # NULL => q \in Nodes) /\ NULL \notin Nodes
  BY NullIsNoNode DEF Shape, TreeOK, Sides, Pointer
<1>1. PICK A, Z : Followed(t, w, n, A, Z)
  BY FollowedIs
<1>2. A \in List /\ Z \in List /\ w[t.root] = Cat(A, Cat(w[n], Z)) /\ FirstIn(Z) = rb_next_postorder(t, n)
  BY <1>1 DEF Followed
<1>3. L \in List /\ R \in List /\ w[n] = Cat(L, Cat(R, o))
  BY <1>0 DEF Posts
<1>4. o \in List
  BY OneLaws
<1>5. (l # NULL => l \in Range(L)) /\ (q # NULL => q \in Range(R))
  <2>1. ASSUME NEW x \in Nodes PROVE x \in Range(w[x])
    <3>1. w[x] # Nil /\ LastIn(w[x]) = x
      BY DeepestIsFirst
    <3>2. w[x] \in List
      BY DEF Posts, Pointer
    <3> QED BY <3>1, <3>2, ListFacts
  <2> QED BY <1>0, <2>1
<1> HIDE DEF L, R, o
<1>6. K \in List /\ Range(K) = Range(L) \cup Range(R)
  BY <1>3, CatLaws
<1>7. w[n] = Cat(K, o)
  BY <1>3, <1>4, CatAssociates
<1>8. \A d \in Sides : t.child[n][d] # NULL => t.child[n][d] \in Range(K)
  BY <1>5, <1>6 DEF Sides
<1> HIDE DEF K, l, q
<1>9. Cat(A, K) \in List /\ Range(Cat(A, K)) = Range(A) \cup Range(K)
  BY <1>2, <1>6, CatLaws
<1>a. Cat(o, Z) \in List
  BY <1>2, <1>4, CatLaws
<1>10. Cat(w[n], Z) = Cat(K, Cat(o, Z))
  BY <1>2, <1>4, <1>6, <1>7, CatAssociates
<1>11. Cat(Cat(A, K), Cat(o, Z)) = Cat(A, Cat(K, Cat(o, Z)))
  BY <1>2, <1>6, <1>a, CatAssociates
<1>12. w[t.root] = Cat(Cat(A, K), Cat(One(n), Z))
  BY <1>2, <1>10, <1>11 DEF o
<1>13. \A d \in Sides : t.child[n][d] # NULL => t.child[n][d] \in Range(Cat(A, K))
  BY <1>8, <1>9
<1> QED BY <1>2, <1>9, <1>12, <1>13

(* The place of a node in a list without repetition. *)
LEMMA SpotIs ==
  ASSUME NEW A \in List, NEW Z \in List, NEW x \in Nodes, NEW q, q = Cat(A, Cat(One(x), Z)), Distinct(q),
         NEW i \in 1 .. Len(q), q[i] = x
  PROVE  /\ i = Len(A) + 1
         /\ FirstIn(Z) = IF i < Len(q) THEN q[i + 1] ELSE NULL
         /\ LastIn(A) = IF 1 < i THEN q[i - 1] ELSE NULL
         /\ \A j \in 1 .. Len(q) : q[j] \in Range(A) => j < i
<1> DEFINE o == One(x)
           c == Cat(o, Z)
<1>1. o \in List /\ Len(o) = 1 /\ o[1] = x
  BY OneLaws DEF One
<1> HIDE DEF o
<1>2. /\ Len(Z) \in Nat /\ Len(c) = 1 + Len(Z)
      /\ \A j \in 1 .. 1 + Len(Z) : c[j] = IF j <= 1 THEN o[j] ELSE Z[j - 1]
  <2>1. /\ Len(Z) \in Nat /\ Len(c) = Len(o) + Len(Z)
        /\ \A j \in 1 .. Len(o) + Len(Z) : c[j] = IF j <= Len(o) THEN o[j] ELSE Z[j - Len(o)]
    BY <1>1, CatAt
  <2> HIDE DEF c
  <2> QED BY <1>1, <2>1
<1>3. c \in List
  BY <1>1, CatLaws
<1>4. q = Cat(A, c)
  BY DEF o
<1> HIDE DEF c
<1>5. /\ Len(A) \in Nat /\ Len(Cat(A, c)) = Len(A) + Len(c) /\ DOMAIN Cat(A, c) = 1 .. Len(A) + Len(c)
      /\ \A j \in 1 .. Len(A) + Len(c) : Cat(A, c)[j] = IF j <= Len(A) THEN A[j] ELSE c[j - Len(A)]
  BY <1>3, CatAt
<1>6. /\ Len(q) = Len(A) + 1 + Len(Z) /\ DOMAIN q = 1 .. Len(q)
      /\ \A j \in 1 .. Len(q) : q[j] = IF j <= Len(A) THEN A[j] ELSE c[j - Len(A)]
  BY <1>2, <1>4, <1>5
<1>7. i = Len(A) + 1
  <2>1. Len(A) + 1 \in 1 .. Len(q) /\ ~(Len(A) + 1 <= Len(A)) /\ (Len(A) + 1) - Len(A) = 1 /\ 1 \in 1 .. 1 + Len(Z)
    BY <1>2, <1>5, <1>6
  <2>2. q[Len(A) + 1] = c[1] /\ c[1] = o[1]
    BY <1>2, <1>6, <2>1
  <2> QED BY <1>1, <1>6, <2>1, <2>2 DEF Distinct
<1>8. FirstIn(Z) = IF i < Len(q) THEN q[i + 1] ELSE NULL
  <2>1. CASE i < Len(q)
    <3>1. i + 1 \in 1 .. Len(q) /\ ~(i + 1 <= Len(A)) /\ (i + 1) - Len(A) = 2 /\ 2 \in 1 .. 1 + Len(Z) /\ Len(Z) # 0
      BY <1>2, <1>5, <1>6, <1>7, <2>1
    <3>2. q[i + 1] = c[2] /\ c[2] = Z[1]
      BY <1>2, <1>6, <3>1
    <3>3. Z # <<>>
      BY <3>1
    <3> QED BY <2>1, <3>2, <3>3 DEF FirstIn
  <2>2. CASE ~(i < Len(q))
    <3>1. Len(Z) = 0
      BY <1>2, <1>5, <1>6, <1>7, <2>2
    <3>2. Z = Nil
      BY <3>1, ListFacts
    <3> QED BY <2>2, <3>2, NilLaws
  <2> QED BY <2>1, <2>2
<1>9. LastIn(A) = IF 1 < i THEN q[i - 1] ELSE NULL
  <2>1. CASE 1 < i
    <3>1. i - 1 \in 1 .. Len(q) /\ i - 1 <= Len(A) /\ i - 1 = Len(A) /\ Len(A) # 0
      BY <1>2, <1>5, <1>6, <1>7, <2>1
    <3>2. q[i - 1] = A[Len(A)]
      BY <1>6, <3>1
    <3>3. A # <<>>
      BY <3>1
    <3> QED BY <2>1, <3>2, <3>3 DEF LastIn
  <2>2. CASE ~(1 < i)
    <3>1. Len(A) = 0
      BY <1>5, <1>7, <2>2
    <3>2. A = Nil
      BY <3>1, ListFacts
    <3> QED BY <2>2, <3>2, NilLaws
  <2> QED BY <2>1, <2>2
<1>10. ASSUME NEW j \in 1 .. Len(q), q[j] \in Range(A) PROVE j < i
  <2>1. PICK k \in 1 .. Len(A) : A[k] = q[j]
    BY <1>10, ListFacts DEF Range
  <2>2. k \in 1 .. Len(q) /\ k <= Len(A)
    BY <1>2, <1>5, <1>6
  <2>3. q[k] = q[j]
    BY <1>6, <2>1, <2>2
  <2>4. k = j
    BY <1>6, <2>2, <2>3 DEF Distinct
  <2> QED BY <1>5, <1>7, <2>2, <2>4
<1> QED BY <1>7, <1>8, <1>9, <1>10

(* The sequence rb_first_postorder and rb_next_postorder go through. *)
PostWalk(t, n) ==
    LET post[i \in 1 .. n] == IF i = 1 THEN rb_first_postorder(t) ELSE rb_next_postorder(t, post[i - 1]) IN post

(* The walk in postorder, one node at a time. *)
LEMMA PostWalkUnfolds ==
  ASSUME NEW t, NEW n \in Nat
  PROVE  \A i \in 1 .. n :
           PostWalk(t, n)[i] = IF i = 1 THEN rb_first_postorder(t) ELSE rb_next_postorder(t, PostWalk(t, n)[i - 1])
<1> DEFINE S == 1 .. n
           r == [i \in S |-> i]
           R == {ss \in S \X S : r[ss[1]] < r[ss[2]]}
           Step(g, i) == IF i = 1 THEN rb_first_postorder(t) ELSE rb_next_postorder(t, g[i - 1])
           F == CHOOSE f : f = [i \in S |-> Step(f, i)]
<1>1. r \in [S -> Nat] /\ \A i \in S : i # 1 => i - 1 \in S /\ r[i - 1] < r[i]
  OBVIOUS
<1>5. PostWalk(t, n) = F
  BY DEF PostWalk
<1> HIDE DEF r, S
<1>2. IsWellFoundedOn(R, S)
  BY <1>1, RankWellFounded
<1>3. WFDefOn(R, S, Step)
  <2> SUFFICES ASSUME NEW g, NEW h, NEW x \in S, \A y \in SetLessThan(x, R, S) : g[y] = h[y]
               PROVE  Step(g, x) = Step(h, x)
    BY DEF WFDefOn
  <2>1. x # 1 => x - 1 \in SetLessThan(x, R, S)
    BY <1>1 DEF SetLessThan
  <2> QED BY <2>1
<1>4. OpDefinesFcn(F, S, Step)
  BY DEF OpDefinesFcn
<1> HIDE DEF R, Step, F
<1>6. WFInductiveDefines(F, S, Step)
  BY <1>2, <1>3, <1>4, WFInductiveDef
<1>7. \A i \in S : F[i] = Step(F, i)
  BY <1>6 DEF WFInductiveDefines
<1> QED BY <1>5, <1>7 DEF Step, S

(* The walk in postorder is the postorder list. *)
LEMMA PostWalkIs ==
  ASSUME NEW t, Shape(t), NEW w, Posts(t, w), NEW n, n = Len(w[t.root]),
         Distinct(w[t.root]), \A m \in Range(w[t.root]) : In(t, m)
  PROVE  \A i \in 1 .. n : PostWalk(t, n)[i] = w[t.root][i]
<1> DEFINE q == w[t.root]
           f == PostWalk(t, n)
<1>0. t.root \in Pointer /\ (t.root # NULL => t.root \in Nodes) /\ w[NULL] = Nil /\ \A m \in Pointer : w[m] \in List
  BY DEF Shape, TreeOK, Pointer, Posts
<1>1. q \in List /\ n \in Nat /\ n = Len(q) /\ DOMAIN q = 1 .. n /\ Range(q) \subseteq Nodes
  BY <1>0, ListFacts
<1>2. \A i \in 1 .. n : f[i] = IF i = 1 THEN rb_first_postorder(t) ELSE rb_next_postorder(t, f[i - 1])
  BY <1>1, PostWalkUnfolds
<1>3. n > 0 => rb_first_postorder(t) = q[1]
  <2> SUFFICES ASSUME n > 0 PROVE rb_first_postorder(t) = q[1]
    OBVIOUS
  <2>1. q # Nil
    BY <1>1, ListFacts
  <2>2. t.root \in Nodes /\ t.root # NULL
    BY <1>0, <2>1
  <2>3. rb_first_postorder(t) = FirstIn(q)
    BY <2>2, DeepestIsFirst DEF rb_first_postorder
  <2> QED BY <2>1, <2>3 DEF FirstIn, Nil
<1>4. ASSUME NEW i \in 1 .. n - 1 PROVE rb_next_postorder(t, q[i]) = q[i + 1]
  <2>1. i \in 1 .. Len(q) /\ i < Len(q)
    BY <1>1
  <2>2. q[i] \in Nodes /\ In(t, q[i])
    BY <1>1, <2>1 DEF Range
  <2>3. PICK A, Z : /\ A \in List /\ Z \in List /\ q = Cat(A, Cat(One(q[i]), Z))
                    /\ FirstIn(Z) = rb_next_postorder(t, q[i])
    BY <2>2, PostNeighbours
  <2> DEFINE x == q[i]
  <2>4. x \in Nodes /\ q = Cat(A, Cat(One(x), Z)) /\ q[i] = x /\ FirstIn(Z) = rb_next_postorder(t, x)
    BY <2>2, <2>3
  <2> HIDE DEF x, q
  <2>5. Distinct(q)
    BY DEF q
  <2>6. FirstIn(Z) = IF i < Len(q) THEN q[i + 1] ELSE NULL
    BY <2>1, <2>3, <2>4, <2>5, SpotIs
  <2> QED BY <2>1, <2>4, <2>6
<1> HIDE DEF q, f
<1> DEFINE T == {k \in Nat : k \in 1 .. n => f[k] = q[k]}
<1>5. ASSUME NEW k \in Nat, \A l \in Nat : l < k => l \in T PROVE k \in T
  <2> SUFFICES ASSUME k \in 1 .. n PROVE f[k] = q[k]
    OBVIOUS
  <2>1. CASE k = 1
    BY <1>1, <1>2, <1>3, <2>1
  <2>2. CASE k # 1
    <3>1. k - 1 \in Nat /\ k - 1 < k /\ k - 1 \in 1 .. n - 1 /\ k - 1 \in 1 .. n /\ (k - 1) + 1 = k
      BY <1>1, <2>2
    <3>2. f[k - 1] = q[k - 1]
      BY <1>5, <3>1
    <3>3. f[k] = rb_next_postorder(t, f[k - 1])
      BY <1>2, <2>2
    <3>4. rb_next_postorder(t, q[k - 1]) = q[(k - 1) + 1]
      BY <1>4, <3>1
    <3> QED BY <3>1, <3>2, <3>3, <3>4
  <2> QED BY <2>1, <2>2
<1> HIDE DEF T
<1>6. \A k \in Nat : k \in T
  BY <1>5, NumbersFromBelow
<1>7. \A i \in 1 .. n : f[i] = q[i]
  BY <1>1, <1>6 DEF T
<1> QED BY <1>7 DEF f, q

(* The neighbours in order, by their places. *)
LEMMA NeighboursByPlace ==
  ASSUME NEW t, Shape(t), NEW q, q = Order(t), NEW i \in 1 .. Len(q)
  PROVE  /\ rb_next(t, q[i]) = IF i < Len(q) THEN q[i + 1] ELSE NULL
         /\ rb_prev(t, q[i]) = IF 1 < i THEN q[i - 1] ELSE NULL
<1>1. PICK w : Lists(t, w) /\ Listed(t, w)
  BY TreeHasLists
<1>2. q \in List /\ q = w[t.root] /\ Distinct(q) /\ Range(q) = {n \in Nodes : In(t, n)}
  BY <1>1, ListsAre DEF Shape, TreeOK
<1>3. q[i] \in Range(q)
  BY <1>2, ListFacts DEF Range
<1> DEFINE x == q[i]
<1>4. x \in Nodes /\ In(t, x)
  BY <1>2, <1>3
<1>5. q[i] = x
  OBVIOUS
<1> HIDE DEF x
<1>6. PICK A, Z : /\ A \in List /\ Z \in List /\ q = Cat(A, Cat(One(x), Z))
                  /\ FirstIn(Z) = rb_next(t, x) /\ LastIn(A) = rb_prev(t, x)
  BY <1>1, <1>2, <1>4, NeighboursAre
<1>7. /\ FirstIn(Z) = IF i < Len(q) THEN q[i + 1] ELSE NULL
      /\ LastIn(A) = IF 1 < i THEN q[i - 1] ELSE NULL
  BY <1>2, <1>4, <1>5, <1>6, SpotIs
<1> QED BY <1>5, <1>6, <1>7

(* The invariant is all the walks rely on. *)
LEMMA WalksFollow == RbInv => Walks
<1> SUFFICES ASSUME RbInv PROVE Walks
  OBVIOUS
<1> DEFINE t == tree
           q == InOrder
           n == Len(q)
           post == PostWalk(t, n)
<1>1. Shape(t) /\ q = Order(t)
  BY OrderIsInOrder DEF RbInv
<1>2. SUFFICES /\ n = 0 => rb_first(t) = NULL /\ rb_last(t) = NULL
               /\ n > 0 => /\ rb_first(t) = q[1] /\ rb_last(t) = q[n]
                           /\ rb_next(t, q[n]) = NULL /\ rb_prev(t, q[1]) = NULL
                           /\ post[n] = t.root
               /\ \A i \in 1 .. n - 1 : rb_next(t, q[i]) = q[i + 1] /\ rb_prev(t, q[i + 1]) = q[i]
               /\ \A i, j \in 1 .. n : t.up[post[i]] = post[j] => i < j
  BY DEF Walks, PostWalk
<1> HIDE DEF t, q, n, post
<1>3. PICK v : Lists(t, v) /\ Listed(t, v)
  BY <1>1, TreeHasLists
<1>4. /\ q \in List /\ q = v[t.root] /\ Range(q) = {m \in Nodes : In(t, m)}
      /\ t.root \in Pointer /\ (t.root # NULL => t.root \in Nodes) /\ v[NULL] = Nil
  BY <1>1, <1>3, ListsAre DEF Shape, TreeOK, Pointer, Lists
<1>5. n \in Nat /\ n = Len(q)
  BY <1>4, ListFacts DEF n
<1>6. PICK w : Posts(t, w) /\ \A m \in Pointer : /\ Range(w[m]) = Range(v[m]) /\ Len(w[m]) = Len(v[m])
                                                 /\ Distinct(w[m])
  BY <1>1, <1>3, PostsAre
<1> DEFINE p == w[t.root]
<1>7. p \in List /\ Len(p) = n /\ Range(p) = {m \in Nodes : In(t, m)} /\ Distinct(p) /\ DOMAIN p = 1 .. n
  BY <1>4, <1>5, <1>6, ListFacts DEF Posts
<1>8. \A i \in 1 .. n : post[i] = p[i]
  BY <1>1, <1>6, <1>7, PostWalkIs DEF post
<1>9. n = 0 => rb_first(t) = NULL /\ rb_last(t) = NULL
  <2> SUFFICES ASSUME n = 0 PROVE rb_first(t) = NULL /\ rb_last(t) = NULL
    OBVIOUS
  <2>1. q = Nil
    BY <1>4, <1>5, ListFacts
  <2>2. t.root = NULL
    <3>1. t.root # NULL => t.root \in Range(q)
      BY <1>4 DEF In
    <3> QED BY <2>1, <3>1, NilLaws
  <2> QED BY <2>2 DEF rb_first, rb_last
<1>10. ASSUME n > 0
       PROVE  /\ rb_first(t) = q[1] /\ rb_last(t) = q[n] /\ rb_next(t, q[n]) = NULL /\ rb_prev(t, q[1]) = NULL
              /\ post[n] = t.root
  <2>1. q # Nil /\ p # Nil
    BY <1>4, <1>5, <1>7, <1>10, ListFacts
  <2>2. t.root \in Nodes /\ t.root # NULL
    BY <1>4, <2>1
  <2>3. rb_first(t) = FirstIn(q) /\ rb_last(t) = LastIn(q)
    BY <1>1, <1>3, <1>4, <2>2, FarthestIsEnd DEF rb_first, rb_last
  <2>4. rb_first(t) = q[1] /\ rb_last(t) = q[n]
    BY <1>5, <2>1, <2>3 DEF FirstIn, LastIn, Nil
  <2>5. rb_next(t, q[n]) = NULL /\ rb_prev(t, q[1]) = NULL
    <3>1. n \in 1 .. Len(q) /\ 1 \in 1 .. Len(q) /\ ~(n < Len(q)) /\ ~(1 < 1)
      BY <1>5, <1>10
    <3>2. rb_next(t, q[n]) = IF n < Len(q) THEN q[n + 1] ELSE NULL
      BY <1>1, <3>1, NeighboursByPlace
    <3>3. rb_prev(t, q[1]) = IF 1 < 1 THEN q[1 - 1] ELSE NULL
      BY <1>1, <3>1, NeighboursByPlace
    <3> QED BY <3>1, <3>2, <3>3
  <2>6. post[n] = t.root
    <3>1. LastIn(p) = t.root
      BY <1>1, <1>6, <2>2, DeepestIsFirst
    <3>2. LastIn(p) = p[n]
      BY <1>7, <2>1 DEF LastIn, Nil
    <3>3. n \in 1 .. n
      BY <1>5, <1>10
    <3> QED BY <1>8, <3>1, <3>2, <3>3
  <2> QED BY <2>4, <2>5, <2>6
<1>11. ASSUME NEW i \in 1 .. n - 1 PROVE rb_next(t, q[i]) = q[i + 1] /\ rb_prev(t, q[i + 1]) = q[i]
  <2>1. i \in 1 .. Len(q) /\ i + 1 \in 1 .. Len(q) /\ i < Len(q) /\ 1 < i + 1 /\ (i + 1) - 1 = i
    BY <1>5
  <2>2. rb_next(t, q[i]) = IF i < Len(q) THEN q[i + 1] ELSE NULL
    BY <1>1, <2>1, NeighboursByPlace
  <2>3. rb_prev(t, q[i + 1]) = IF 1 < i + 1 THEN q[(i + 1) - 1] ELSE NULL
    BY <1>1, <2>1, NeighboursByPlace
  <2> QED BY <2>1, <2>2, <2>3
<1>12. ASSUME NEW i \in 1 .. n, NEW j \in 1 .. n, t.up[post[i]] = post[j] PROVE i < j
  <2> DEFINE c == p[i]
             x == p[j]
  <2>1. c \in Nodes /\ x \in Nodes /\ In(t, c) /\ In(t, x) /\ t.up[c] = x
    <3>1. c \in Range(p) /\ x \in Range(p)
      BY <1>7 DEF Range
    <3> QED BY <1>7, <1>8, <1>12, <3>1
  <2>2. PICK d \in Sides : t.child[x][d] = c
    BY <1>1, <2>1, NullIsNoNode DEF Shape, Links
  <2>3. PICK A, Z : /\ A \in List /\ Z \in List /\ w[t.root] = Cat(A, Cat(One(x), Z))
                    /\ \A e \in Sides : t.child[x][e] # NULL => t.child[x][e] \in Range(A)
    BY <1>1, <1>6, <2>1, PostNeighbours
  <2>4. c \in Range(A)
    BY <2>1, <2>2, <2>3, NullIsNoNode
  <2>5. p[i] = c /\ p[j] = x /\ p = Cat(A, Cat(One(x), Z)) /\ i \in 1 .. Len(p) /\ j \in 1 .. Len(p)
    BY <1>7, <2>3
  <2> HIDE DEF c, x, p
  <2>6. \A k \in 1 .. Len(p) : p[k] \in Range(A) => k < j
    BY <1>7, <2>1, <2>3, <2>5, SpotIs
  <2> QED BY <2>4, <2>5, <2>6
<1> QED BY <1>9, <1>10, <1>11, <1>12

(***************************************************************************)
(* rb_first, rb_next, rb_prev and rb_last go through the nodes in the      *)
(* order of the queue, from either end, and rb_first_postorder and         *)
(* rb_next_postorder go through all of them with the children before their *)
(* parent.                                                                 *)
(***************************************************************************)
THEOREM WalksVisitInOrder == RbSpec => []Walks
BY RbInvariant, WalksFollow, PTL

=============================================================================
