---------------------------- MODULE SupportProofs ----------------------------
(***************************************************************************)
(* Proofs about two of the components that Support runs side by side.      *)
(*                                                                         *)
(*   Heap, for any number of callers, orders and sizes of blocks: a block  *)
(*   keeps its data, and no byte is handed out twice.                      *)
(*                                                                         *)
(*   Mappings, for any layout of the address space, any kernel image and   *)
(*   any memory map: the shadow follows the area it shadows, and code      *)
(*   stays read-only.                                                      *)
(*                                                                         *)
(* The third, the red-black tree, has RbTreeProofs and RbOrderProofs.      *)
(***************************************************************************)
EXTENDS Heap, Mappings, WellFoundedInduction, PowersProofs

(***************************************************************************)
(* The regions.  A pointer is placed in a region once the region has given *)
(* it out.                                                                 *)
(***************************************************************************)
InRegion(h, o, x) == x \in Int /\ RegionBottom(h, o) <= x /\ x < RegionTop(h, o)
Placed(w, h, o, x) == InRegion(h, o, x) /\ x < w[h][o]
Known(w, x) == \E h \in Heaps : \E o \in OrdersOf(h) : Placed(w, h, o, x)
IsFree(f, x) ==
    \E h \in Heaps : \E o \in OrdersOf(h) : \E i \in 1 .. Len(f[h][o]) : f[h][o][i] = x

ByRegion(f) == f = [h \in Heaps |-> [o \in OrdersOf(h) |-> f[h][o]]]

(* The lists f and the watermarks w of the regions. *)
RegionOK(f, w, h, o) ==
    /\ f[h][o] \in Seq(Int)
    /\ w[h][o] \in Int /\ RegionBottom(h, o) <= w[h][o]
    /\ \A i \in 1 .. Len(f[h][o]) : Placed(w, h, o, f[h][o][i])
    /\ \A i, j \in 1 .. Len(f[h][o]) : f[h][o][i] = f[h][o][j] => i = j

RegionsOK(f, w) ==
    /\ ByRegion(f) /\ ByRegion(w)
    /\ \A h \in Heaps : \A o \in OrdersOf(h) : RegionOK(f, w, h, o)

----------------------------------------------------------------------------
(* Where the regions lie. *)
LEMMA RegionBounds ==
  ASSUME NEW h \in Heaps, NEW o \in OrdersOf(h)
  PROVE  /\ o \in Nat /\ HeapBase[h] \in Nat \ {0} /\ HeapTop(h) \in Nat
         /\ RegionBottom(h, o) \in Nat \ {0} /\ HeapBase[h] <= RegionBottom(h, o)
         /\ RegionTop(h, o) = RegionBottom(h, o) + RegionBytes
         /\ RegionTop(h, o) <= HeapTop(h)
<1> USE HeapAssumption
<1>1. HeapBase[h] \in Nat \ {0} /\ OrderCount[h] \in Nat /\ RegionBytes \in Nat \ {0}
  OBVIOUS
<1>2. o \in Nat /\ o + 1 <= OrderCount[h]
  BY <1>1 DEF OrdersOf
<1>3. (o + 1) * RegionBytes <= OrderCount[h] * RegionBytes
  BY <1>1, <1>2, Scaled
<1>4. (o + 1) * RegionBytes = o * RegionBytes + RegionBytes
  BY <1>1, <1>2
<1>5. o * RegionBytes \in Nat /\ OrderCount[h] * RegionBytes \in Nat
  BY <1>1, <1>2
<1> QED BY <1>1, <1>2, <1>3, <1>4, <1>5 DEF RegionBottom, RegionTop, HeapTop

(* Of two regions, one ends before the other begins. *)
LEMMA RegionsApart ==
  ASSUME NEW h \in Heaps, NEW o \in OrdersOf(h), NEW g \in Heaps, NEW u \in OrdersOf(g),
         NEW x, NEW y, InRegion(h, o, x), InRegion(g, u, y), x <= y
  PROVE  (h = g /\ o = u) \/ RegionTop(h, o) <= RegionBottom(g, u)
<1> USE HeapAssumption
<1>1. /\ RegionBottom(h, o) \in Nat /\ HeapBase[h] <= RegionBottom(h, o)
      /\ RegionTop(h, o) \in Nat /\ RegionTop(h, o) <= HeapTop(h)
      /\ HeapBase[h] \in Nat /\ HeapTop(h) \in Nat /\ o \in Nat
  BY RegionBounds
<1>2. /\ RegionBottom(g, u) \in Nat /\ HeapBase[g] <= RegionBottom(g, u)
      /\ RegionTop(g, u) \in Nat /\ RegionTop(g, u) <= HeapTop(g)
      /\ HeapBase[g] \in Nat /\ HeapTop(g) \in Nat /\ u \in Nat
  BY RegionBounds
<1>3. x \in Int /\ y \in Int
  BY DEF InRegion
<1>4. CASE h # g
  <2>1. HeapTop(h) <= HeapBase[g] \/ HeapTop(g) <= HeapBase[h]
    BY <1>4 DEF Heaps
  <2> QED BY <1>1, <1>2, <1>3, <2>1 DEF InRegion
<1>5. CASE h = g
  <2>1. CASE o < u
    <3>1. (o + 1) * RegionBytes <= u * RegionBytes
      BY <1>1, <1>2, <2>1, Scaled
    <3>2. (o + 1) * RegionBytes \in Int /\ u * RegionBytes \in Int
      BY <1>1, <1>2
    <3> QED BY <1>2, <1>5, <3>1, <3>2 DEF RegionTop, RegionBottom
  <2>2. CASE u < o
    <3>1. (u + 1) * RegionBytes <= o * RegionBytes
      BY <1>1, <1>2, <2>2, Scaled
    <3>2. (u + 1) * RegionBytes \in Int /\ o * RegionBytes \in Int
      BY <1>1, <1>2
    <3>3. RegionTop(g, u) <= RegionBottom(h, o)
      BY <1>2, <1>5, <3>1, <3>2 DEF RegionTop, RegionBottom
    <3> QED BY <1>1, <1>2, <1>3, <3>3 DEF InRegion
  <2> QED BY <1>1, <1>2, <1>5, <2>1, <2>2
<1> QED BY <1>4, <1>5

LEMMA OneRegion ==
  ASSUME NEW h \in Heaps, NEW o \in OrdersOf(h), NEW g \in Heaps, NEW u \in OrdersOf(g),
         NEW x, InRegion(h, o, x), InRegion(g, u, x)
  PROVE  h = g /\ o = u
<1>1. /\ x \in Int /\ RegionTop(h, o) \in Int /\ RegionBottom(g, u) \in Int
      /\ x < RegionTop(h, o) /\ RegionBottom(g, u) <= x
  BY RegionBounds, HeapAssumption DEF InRegion
<1>2. x <= x
  BY <1>1
<1>3. (h = g /\ o = u) \/ RegionTop(h, o) <= RegionBottom(g, u)
  BY <1>2, RegionsApart
<1> QED BY <1>1, <1>3

(* The order of a pointer is that of its region, and content has a cell for it. *)
LEMMA OrderOfPointer ==
  ASSUME NEW h \in Heaps, NEW o \in OrdersOf(h), NEW x, InRegion(h, o, x)
  PROVE  order_of_pointer(h, x) = o /\ x \in BlockAddresses /\ x # 0
<1> USE HeapAssumption
<1>1. /\ o \in Nat /\ HeapBase[h] \in Nat /\ x \in Int /\ RegionBottom(h, o) \in Nat \ {0}
      /\ RegionBottom(h, o) <= x /\ x < RegionBottom(h, o) + RegionBytes
  BY RegionBounds DEF InRegion
<1>2. PICK k \in Int : k = x - RegionBottom(h, o)
  BY <1>1
<1>3. 0 <= k /\ k < RegionBytes /\ x = RegionBottom(h, o) + k
  BY <1>1, <1>2
<1>4. order_of_pointer(h, x) = o
  <2>1. x - HeapBase[h] = o * RegionBytes + k
    BY <1>1, <1>2 DEF RegionBottom
  <2>2. x - HeapBase[h] \in Int
    BY <1>1
  <2>3. PICK a \in Int : a = x - HeapBase[h]
    BY <2>2
  <2>4. a = o * RegionBytes + k /\ o \in Int
    BY <1>1, <2>1, <2>3
  <2>5. a \div RegionBytes = o
    BY <1>2, <1>3, <2>4, Remainder
  <2> QED BY <2>3, <2>5 DEF order_of_pointer
<1>5. x \in BlockAddresses
  <2>1. <<h, o>> \in HeapRegions /\ <<h, o>>[1] = h /\ <<h, o>>[2] = o
    BY DEF HeapRegions
  <2>2. k \in 0 .. RegionBytes - 1
    BY <1>3
  <2>3. \E z \in HeapRegions : \E j \in 0 .. RegionBytes - 1 : x = RegionBottom(z[1], z[2]) + j
    <3>1. x = RegionBottom(<<h, o>>[1], <<h, o>>[2]) + k
      BY <1>3, <2>1
    <3> QED BY <2>1, <2>2, <3>1, Zenon
  <2> HIDE DEF RegionBottom
  <2> QED BY <2>3 DEF BlockAddresses
<1> QED BY <1>1, <1>4, <1>5

----------------------------------------------------------------------------
(* Lists of free blocks. *)

LEMMA Popped ==
  ASSUME NEW s \in Seq(Int), s # <<>>
  PROVE  /\ Head(s) = s[1] /\ 1 \in 1 .. Len(s) /\ Tail(s) \in Seq(Int)
         /\ Len(Tail(s)) = Len(s) - 1
         /\ \A i \in 1 .. Len(Tail(s)) : /\ i + 1 \in 1 .. Len(s) /\ i + 1 # 1
                                         /\ Tail(s)[i] = s[i + 1]
OBVIOUS

LEMMA Pushed ==
  ASSUME NEW s \in Seq(Int), NEW p \in Int
  PROVE  /\ <<p>> \o s \in Seq(Int) /\ Len(<<p>> \o s) = Len(s) + 1
         /\ (<<p>> \o s)[1] = p
         /\ \A i \in 1 .. Len(<<p>> \o s) :
              \/ i = 1
              \/ i - 1 \in 1 .. Len(s) /\ (<<p>> \o s)[i] = s[i - 1]
         /\ \A i \in 1 .. Len(s) :
              i + 1 \in 1 .. Len(<<p>> \o s) /\ (<<p>> \o s)[i + 1] = s[i]
OBVIOUS

(* What one assignment to an entry of freelist or watermark leaves. *)
SetEntry(f, h, o, v) == [f EXCEPT ![h][o] = v]

LEMMA EntrySet ==
  ASSUME NEW f, NEW g, NEW h \in Heaps, NEW o \in OrdersOf(h), NEW v,
         ByRegion(f), g = SetEntry(f, h, o, v)
  PROVE  /\ ByRegion(g)
         /\ \A k \in Heaps : \A u \in OrdersOf(k) :
              g[k][u] = IF k = h /\ u = o THEN v ELSE f[k][u]
<1>1. /\ DOMAIN f = Heaps /\ \A k \in Heaps : f[k] = [u \in OrdersOf(k) |-> f[k][u]]
  BY DEF ByRegion
<1>2. DOMAIN f[h] = OrdersOf(h)
  BY <1>1
<1>3. g[h] = [f[h] EXCEPT ![o] = v] /\ \A k \in Heaps : k # h => g[k] = f[k]
  BY <1>1 DEF SetEntry
<1>4. g = [k \in Heaps |-> g[k]]
  BY <1>1 DEF SetEntry
<1>5. \A k \in Heaps : g[k] = [u \in OrdersOf(k) |-> g[k][u]]
  BY <1>1, <1>2, <1>3
<1>6. ByRegion(g)
  BY <1>4, <1>5 DEF ByRegion
<1> QED BY <1>2, <1>3, <1>6

(***************************************************************************)
(* The locked part of an allocation turns f and w into g and z: the block  *)
(* is one that nobody has, and every pointer given out stays so.           *)
(***************************************************************************)
Took(f, w, g, z, h, o, p) ==
    /\ RegionsOK(g, z)
    /\ \A k \in Heaps : \A u \in OrdersOf(k) : w[k][u] <= z[k][u]
    /\ \A x : IsFree(g, x) => IsFree(f, x)
    /\ p # 0 => /\ Placed(z, h, o, p) /\ ~IsFree(g, p)
                /\ \A x : Known(w, x) /\ ~IsFree(f, x) => x # p

LEMMA TakePopped ==
  ASSUME NEW f, NEW w, NEW g, NEW h \in Heaps, NEW o \in OrdersOf(h),
         RegionsOK(f, w), f[h][o] # <<>>, g = SetEntry(f, h, o, Tail(f[h][o]))
  PROVE  Took(f, w, g, w, h, o, Head(f[h][o]))
<1>1. PICK s : s = f[h][o]
  OBVIOUS
<1>2. RegionOK(f, w, h, o) /\ s \in Seq(Int) /\ s # <<>>
  BY <1>1 DEF RegionsOK, RegionOK
<1>0. PICK t : t = Tail(s)
  OBVIOUS
<1>3. /\ Head(s) = s[1] /\ 1 \in 1 .. Len(s) /\ t \in Seq(Int)
      /\ \A i \in 1 .. Len(t) : i + 1 \in 1 .. Len(s) /\ i + 1 # 1 /\ t[i] = s[i + 1]
  BY <1>0, <1>2, Popped
<1>4. /\ ByRegion(g)
      /\ \A k \in Heaps : \A u \in OrdersOf(k) :
           g[k][u] = IF k = h /\ u = o THEN t ELSE f[k][u]
  <2>1. ByRegion(f) /\ g = SetEntry(f, h, o, t)
    BY <1>0, <1>1 DEF RegionsOK
  <2> QED BY <2>1, EntrySet
<1>5. /\ \A i \in 1 .. Len(s) : Placed(w, h, o, s[i])
      /\ \A i, j \in 1 .. Len(s) : s[i] = s[j] => i = j
  BY <1>1, <1>2 DEF RegionOK
<1>6. ASSUME NEW k \in Heaps, NEW u \in OrdersOf(k)
      PROVE  RegionOK(g, w, k, u)
  <2>0. RegionOK(f, w, k, u)
    BY DEF RegionsOK
  <2>1. CASE k = h /\ u = o
    <3>1. g[k][u] = t
      BY <1>4, <2>1
    <3>2. ASSUME NEW i \in 1 .. Len(t) PROVE Placed(w, h, o, t[i])
      BY <1>3, <1>5
    <3>3. ASSUME NEW i \in 1 .. Len(t), NEW j \in 1 .. Len(t), t[i] = t[j]
          PROVE  i = j
      <4>1. i + 1 = j + 1
        BY <1>3, <1>5, <3>3
      <4> QED BY <1>3, <4>1
    <3>4. w[k][u] \in Int /\ RegionBottom(k, u) <= w[k][u]
      BY <2>0 DEF RegionOK
    <3>5. \A i \in 1 .. Len(g[k][u]) : Placed(w, k, u, g[k][u][i])
      BY <2>1, <3>1, <3>2
    <3>6. \A i, j \in 1 .. Len(g[k][u]) : g[k][u][i] = g[k][u][j] => i = j
      BY <3>1, <3>3
    <3> QED BY <1>3, <3>1, <3>4, <3>5, <3>6 DEF RegionOK
  <2>2. CASE ~(k = h /\ u = o)
    <3>1. g[k][u] = f[k][u]
      BY <1>4, <2>2
    <3> QED BY <2>0, <3>1 DEF RegionOK
  <2> QED BY <2>1, <2>2
<1>7. RegionsOK(g, w)
  BY <1>4, <1>6 DEF RegionsOK
<1>8. ASSUME NEW x, IsFree(g, x) PROVE IsFree(f, x) /\ x # Head(s)
  <2>1. PICK k \in Heaps : \E u \in OrdersOf(k) : \E i \in 1 .. Len(g[k][u]) : g[k][u][i] = x
    BY <1>8 DEF IsFree
  <2>2. PICK u \in OrdersOf(k) : \E i \in 1 .. Len(g[k][u]) : g[k][u][i] = x
    BY <2>1
  <2>3. PICK i \in 1 .. Len(g[k][u]) : g[k][u][i] = x
    BY <2>2
  <2>4. CASE k = h /\ u = o
    <3>1. i \in 1 .. Len(t) /\ t[i] = x
      BY <1>4, <2>3, <2>4
    <3>2. i + 1 \in 1 .. Len(s) /\ i + 1 # 1 /\ s[i + 1] = x
      BY <1>3, <3>1
    <3>3. x # s[1]
      BY <1>3, <1>5, <3>2
    <3> QED BY <1>1, <1>3, <3>2, <3>3 DEF IsFree
  <2>5. CASE ~(k = h /\ u = o)
    <3>1. g[k][u] = f[k][u]
      BY <1>4, <2>5
    <3>2. i \in 1 .. Len(f[k][u]) /\ f[k][u][i] = x
      BY <2>3, <3>1
    <3>3. Placed(w, k, u, x) /\ Placed(w, h, o, Head(s))
      BY <1>3, <1>5, <3>2 DEF RegionsOK, RegionOK
    <3>4. x # Head(s)
      BY <2>5, <3>3, OneRegion DEF Placed
    <3> QED BY <3>2, <3>4 DEF IsFree
  <2> QED BY <2>4, <2>5
<1>9. IsFree(f, Head(s))
  BY <1>1, <1>3 DEF IsFree
<1>10. Placed(w, h, o, Head(s))
  BY <1>3, <1>5
<1>11. \A k \in Heaps : \A u \in OrdersOf(k) : w[k][u] <= w[k][u]
  BY DEF RegionsOK, RegionOK
<1> QED BY <1>1, <1>7, <1>8, <1>9, <1>10, <1>11 DEF Took

LEMMA TakeFresh ==
  ASSUME NEW f, NEW w, NEW z, NEW h \in Heaps, NEW o \in OrdersOf(h), NEW n \in Nat \ {0},
         RegionsOK(f, w), w[h][o] < RegionTop(h, o), z = SetEntry(w, h, o, w[h][o] + n)
  PROVE  Took(f, w, f, z, h, o, w[h][o])
<1>1. PICK p : p = w[h][o]
  OBVIOUS
<1>2. RegionOK(f, w, h, o) /\ p \in Int /\ RegionBottom(h, o) <= p /\ p < p + n
  BY <1>1 DEF RegionsOK, RegionOK
<1>3. /\ ByRegion(z)
      /\ \A k \in Heaps : \A u \in OrdersOf(k) :
           z[k][u] = IF k = h /\ u = o THEN p + n ELSE w[k][u]
  <2>1. ByRegion(w) /\ z = SetEntry(w, h, o, p + n)
    BY <1>1 DEF RegionsOK
  <2> QED BY <2>1, EntrySet
<1>4. InRegion(h, o, p)
  BY <1>1, <1>2 DEF InRegion
<1>5. ASSUME NEW k \in Heaps, NEW u \in OrdersOf(k)
      PROVE  w[k][u] <= z[k][u] /\ RegionOK(f, z, k, u)
  <2>1. RegionOK(f, w, k, u)
    BY DEF RegionsOK
  <2>2. w[k][u] \in Int /\ z[k][u] \in Int /\ w[k][u] <= z[k][u]
    BY <1>1, <1>2, <1>3, <2>1 DEF RegionOK
  <2>3. \A x : Placed(w, k, u, x) => Placed(z, k, u, x)
    BY <2>2 DEF Placed, InRegion
  <2>4. RegionBottom(k, u) \in Int
    BY RegionBounds
  <2> QED BY <2>1, <2>2, <2>3, <2>4 DEF RegionOK
<1>6. RegionsOK(f, z)
  BY <1>3, <1>5 DEF RegionsOK
<1>7. Placed(z, h, o, p)
  BY <1>2, <1>3, <1>4 DEF Placed
<1>8. ASSUME NEW x, Known(w, x) PROVE x # p
  <2>1. PICK k \in Heaps : \E u \in OrdersOf(k) : Placed(w, k, u, x)
    BY <1>8 DEF Known
  <2>2. PICK u \in OrdersOf(k) : Placed(w, k, u, x)
    BY <2>1
  <2>3. CASE x = p
    <3>1. k = h /\ u = o
      BY <1>4, <2>2, <2>3, OneRegion DEF Placed
    <3> QED BY <1>1, <1>2, <2>2, <2>3, <3>1 DEF Placed
  <2> QED BY <2>3
<1>9. ASSUME IsFree(f, p) PROVE FALSE
  <2>1. PICK k \in Heaps : \E u \in OrdersOf(k) : \E i \in 1 .. Len(f[k][u]) : f[k][u][i] = p
    BY <1>9 DEF IsFree
  <2>2. PICK u \in OrdersOf(k) : \E i \in 1 .. Len(f[k][u]) : f[k][u][i] = p
    BY <2>1
  <2>3. Placed(w, k, u, p)
    BY <2>2 DEF RegionsOK, RegionOK
  <2> QED BY <1>8, <2>3 DEF Known
<1> QED BY <1>1, <1>5, <1>6, <1>7, <1>8, <1>9 DEF Took

LEMMA Freed ==
  ASSUME NEW f, NEW w, NEW g, NEW h \in Heaps, NEW o \in OrdersOf(h), NEW p,
         RegionsOK(f, w), Placed(w, h, o, p), ~IsFree(f, p),
         g = SetEntry(f, h, o, <<p>> \o f[h][o])
  PROVE  RegionsOK(g, w) /\ \A x : IsFree(g, x) => IsFree(f, x) \/ x = p
<1>1. PICK s : s = f[h][o]
  OBVIOUS
<1>2. s \in Seq(Int) /\ p \in Int
  BY <1>1 DEF RegionsOK, RegionOK, Placed, InRegion
<1>3. PICK t : t = <<p>> \o s
  OBVIOUS
<1>4. /\ t \in Seq(Int) /\ t[1] = p
      /\ \A i \in 1 .. Len(t) : i = 1 \/ (i - 1 \in 1 .. Len(s) /\ t[i] = s[i - 1])
  BY <1>2, <1>3, Pushed
<1>5. /\ ByRegion(g)
      /\ \A k \in Heaps : \A u \in OrdersOf(k) :
           g[k][u] = IF k = h /\ u = o THEN t ELSE f[k][u]
  <2>1. ByRegion(f) /\ g = SetEntry(f, h, o, t)
    BY <1>1, <1>3 DEF RegionsOK
  <2> QED BY <2>1, EntrySet
<1>6. /\ \A i \in 1 .. Len(s) : Placed(w, h, o, s[i]) /\ s[i] # p
      /\ \A i, j \in 1 .. Len(s) : s[i] = s[j] => i = j
  BY <1>1 DEF RegionsOK, RegionOK, IsFree
<1>7. ASSUME NEW k \in Heaps, NEW u \in OrdersOf(k)
      PROVE  RegionOK(g, w, k, u)
  <2>1. RegionOK(f, w, k, u)
    BY DEF RegionsOK
  <2>2. CASE k = h /\ u = o
    <3>1. g[k][u] = t
      BY <1>5, <2>2
    <3>2. ASSUME NEW i \in 1 .. Len(t) PROVE Placed(w, h, o, t[i])
      BY <1>4, <1>6
    <3>3. ASSUME NEW i \in 1 .. Len(t), NEW j \in 1 .. Len(t), t[i] = t[j] PROVE i = j
      <4>1. CASE i = 1 \/ j = 1
        BY <1>4, <1>6, <3>3, <4>1
      <4>2. CASE i # 1 /\ j # 1
        <5>1. i - 1 = j - 1
          BY <1>4, <1>6, <3>3, <4>2
        <5> QED BY <1>4, <5>1
      <4> QED BY <4>1, <4>2
    <3>4. \A i \in 1 .. Len(g[k][u]) : Placed(w, k, u, g[k][u][i])
      BY <2>2, <3>1, <3>2
    <3>5. \A i, j \in 1 .. Len(g[k][u]) : g[k][u][i] = g[k][u][j] => i = j
      BY <3>1, <3>3
    <3> QED BY <1>4, <2>1, <3>1, <3>4, <3>5 DEF RegionOK
  <2>3. CASE ~(k = h /\ u = o)
    <3>1. g[k][u] = f[k][u]
      BY <1>5, <2>3
    <3> QED BY <2>1, <3>1 DEF RegionOK
  <2> QED BY <2>2, <2>3
<1>8. RegionsOK(g, w)
  BY <1>5, <1>7 DEF RegionsOK
<1>9. ASSUME NEW x, IsFree(g, x) PROVE IsFree(f, x) \/ x = p
  <2>1. PICK k \in Heaps : \E u \in OrdersOf(k) : \E i \in 1 .. Len(g[k][u]) : g[k][u][i] = x
    BY <1>9 DEF IsFree
  <2>2. PICK u \in OrdersOf(k) : \E i \in 1 .. Len(g[k][u]) : g[k][u][i] = x
    BY <2>1
  <2>3. PICK i \in 1 .. Len(g[k][u]) : g[k][u][i] = x
    BY <2>2
  <2>4. CASE k = h /\ u = o
    <3>1. i \in 1 .. Len(t) /\ t[i] = x
      BY <1>5, <2>3, <2>4
    <3>2. x = p \/ \E j \in 1 .. Len(s) : s[j] = x
      BY <1>4, <3>1
    <3> QED BY <1>1, <3>2 DEF IsFree
  <2>5. CASE ~(k = h /\ u = o)
    <3>1. g[k][u] = f[k][u]
      BY <1>5, <2>5
    <3> QED BY <2>3, <3>1 DEF IsFree
  <2> QED BY <2>4, <2>5
<1> QED BY <1>8, <1>9

----------------------------------------------------------------------------
(* The sizes a caller may pass to the allocator, after the smallest block. *)
SizeOK(size) == size \in Int /\ size <= Pow2[2 * IntBits]

(* The class of a size: the first power of two that is large enough. *)
LEMMA ShiftOf ==
  ASSUME NEW size, SizeOK(size)
  PROVE  /\ Shift(size) \in 0 .. 2 * IntBits /\ Pow2[Shift(size)] >= size
         /\ \A s \in 0 .. 2 * IntBits : Pow2[s] >= size => Shift(size) <= s
         /\ AlignedShift(size) \in Nat /\ AlignedShift(size) < IntBits
<1> USE HeapAssumption
<1> DEFINE T == {s \in 0 .. 2 * IntBits : Pow2[s] >= size}
<1>1. 2 * IntBits \in Nat
  OBVIOUS
<1>2. 2 * IntBits \in T /\ T \in SUBSET Nat
  BY <1>1, PowPositive DEF SizeOK
<1>3. PICK k \in T : \A l \in T : k <= l
  <2> HIDE DEF T
  <2> QED BY <1>2, LeastNumber
<1>4. Shift(size) = CHOOSE m \in T : \A l \in T : m <= l
  BY DEF Shift, Min
<1>5. Shift(size) \in T /\ \A l \in T : Shift(size) <= l
  <2> HIDE DEF T
  <2> QED BY <1>3, <1>4
<1>6. Shift(size) \in Nat
  BY <1>5
<1>7. AlignedShift(size) \in Nat /\ AlignedShift(size) < IntBits
  BY <1>6 DEF AlignedShift
<1> QED BY <1>5, <1>7

LEMMA MinSize ==
  ASSUME NEW h \in Heaps, NEW size \in AllocSizes
  PROVE  /\ SizeOK(size) /\ SizeOK(AtLeastMin(h, size)) /\ size <= AtLeastMin(h, size)
         /\ Pow2[MinShift[h]] <= AtLeastMin(h, size)
<1> USE HeapAssumption
<1>1. MinShift[h] \in Nat /\ 2 * IntBits \in Nat /\ MinShift[h] <= 2 * IntBits
  OBVIOUS
<1>2. Pow2[MinShift[h]] \in Nat /\ Pow2[2 * IntBits] \in Nat /\ Pow2[MinShift[h]] <= Pow2[2 * IntBits]
  BY <1>1, PowPositive, PowOrder
<1>3. size \in Nat /\ size <= Pow2[2 * IntBits]
  BY <1>2
<1> QED BY <1>2, <1>3 DEF AtLeastMin, SizeOK

LEMMA OrderOfSize ==
  ASSUME NEW h \in Heaps, NEW size, SizeOK(size), ~TooLarge(h, size)
  PROVE  order_of_size(h, size) \in OrdersOf(h)
<1> USE HeapAssumption
<1>1. AlignedShift(size) \in Nat /\ MinShift[h] \in Nat /\ OrderCount[h] \in Nat \ {0}
  BY ShiftOf
<1> QED BY <1>1 DEF order_of_size, TooLarge, OrdersOf

(* The locked part of mem_alloc and tdn_host_gc_alloc. *)
LEMMA Taken ==
  ASSUME NEW h \in Heaps, NEW o \in OrdersOf(h), NEW size, SizeOK(size),
         RegionsOK(freelist, watermark), Take_block(h, o, size)
  PROVE  Took(freelist, watermark, freelist', watermark', h, o, Next_block(h, o))
<1>1. CASE freelist[h][o] # <<>>
  <2>1. Next_block(h, o) = Head(freelist[h][o])
    BY <1>1 DEF Next_block
  <2>2. freelist' = SetEntry(freelist, h, o, Tail(freelist[h][o])) /\ watermark' = watermark
    BY <1>1 DEF Take_block, SetEntry
  <2> QED BY <1>1, <2>1, <2>2, TakePopped
<1>2. CASE freelist[h][o] = <<>> /\ watermark[h][o] < RegionTop(h, o)
  <2>1. Next_block(h, o) = watermark[h][o]
    BY <1>2 DEF Next_block
  <2>2. PICK n \in Nat \ {0} : n = Pow2[AlignedShift(size)]
    BY ShiftOf, PowPositive
  <2>3. watermark' = SetEntry(watermark, h, o, watermark[h][o] + n) /\ freelist' = freelist
    BY <1>2, <2>2 DEF Take_block, SetEntry
  <2> QED BY <1>2, <2>1, <2>3, TakeFresh
<1>3. CASE freelist[h][o] = <<>> /\ ~(watermark[h][o] < RegionTop(h, o))
  <2>1. Next_block(h, o) = 0
    BY <1>3 DEF Next_block
  <2>2. watermark' = SetEntry(watermark, h, o, watermark[h][o]) /\ freelist' = freelist
    BY <1>3 DEF Take_block, SetEntry
  <2>3. watermark' = watermark
    <3>1. /\ ByRegion(watermark')
          /\ \A k \in Heaps : \A u \in OrdersOf(k) :
               watermark'[k][u] = IF k = h /\ u = o THEN watermark[h][o] ELSE watermark[k][u]
      BY <2>2, EntrySet DEF RegionsOK
    <3>2. \A k \in Heaps : \A u \in OrdersOf(k) : watermark'[k][u] = watermark[k][u]
      BY <3>1
    <3> QED BY <3>1, <3>2 DEF ByRegion, RegionsOK
  <2>4. \A k \in Heaps : \A u \in OrdersOf(k) : watermark[k][u] <= watermark[k][u]
    BY DEF RegionsOK, RegionOK
  <2> QED BY <2>1, <2>2, <2>3, <2>4 DEF Took
<1> QED BY <1>1, <1>2, <1>3

----------------------------------------------------------------------------
(***************************************************************************)
(* The inductive invariant: every pointer a caller has, as a block or as   *)
(* the new block of a mem_realloc, was given out by a region, is not free  *)
(* and nobody else's; the old block of a mem_realloc is still the caller's. *)
(***************************************************************************)
Blocks == [heap : Heaps, ptr : Int, size : AllocSizes, owner : Callers, var : 1 .. MaxBlocks]
CallRecords ==
    [at : {"idle", "copy", "free", "stack", "stopped"}, old : Int, new : Int, size : AllocSizes \cup {0}]
Used(f, w, h, x) == (\E o \in OrdersOf(h) : Placed(w, h, o, x)) /\ ~IsFree(f, x)

BlocksOK(f, w, B) ==
    /\ B \subseteq Blocks
    /\ \A b \in B : Used(f, w, b.heap, b.ptr)
    /\ \A a, b \in B : a.ptr = b.ptr => a = b

CallOK(f, w, B, k, c) ==
    /\ k \in CallRecords
    /\ Moving(k) => /\ k.size \in AllocSizes /\ Used(f, w, "mem", k.new)
                    /\ \A b \in B : b.ptr # k.new
                    /\ \E b \in B : b.owner = c /\ b.heap = "mem" /\ b.ptr = k.old

CallsOK(f, w, B, cl) ==
    /\ cl = [c \in Callers |-> cl[c]]
    /\ \A c \in Callers : CallOK(f, w, B, cl[c], c)
    /\ \A c, d \in Callers : Moving(cl[c]) /\ Moving(cl[d]) /\ cl[c].new = cl[d].new => c = d

HeapOK(f, w, B, cl) ==
    RegionsOK(f, w) /\ BlocksOK(f, w, B) /\ CallsOK(f, w, B, cl)

(* Small stacks are below the watermark and distinct. *)
StacksOK ==
    /\ m_small_stack_watermark \in Nat \ {0}
    /\ stacks \in [Callers -> Nat]
    /\ \A c \in Callers :
         /\ stacks[c] < m_small_stack_watermark
         /\ call[c].at = "stack" => call[c].new \in 1 .. m_small_stack_watermark - 1
    /\ \A c, d \in Callers : c # d =>
         /\ stacks[c] # 0 => stacks[c] # stacks[d]
         /\ call[c].at = "stack" => call[c].new # stacks[d]
         /\ call[c].at = "stack" /\ call[d].at = "stack" => call[c].new # call[d].new

HeapInv == HeapOK(freelist, watermark, blocks, call) /\ StacksOK

(* A used pointer is an address of its heap. *)
LEMMA UsedAddress ==
  ASSUME NEW f, NEW w, NEW h \in Heaps, NEW x, Used(f, w, h, x)
  PROVE  x \in Int /\ x # 0 /\ x \in BlockAddresses /\ Known(w, x) /\ ~IsFree(f, x)
<1>1. PICK o \in OrdersOf(h) : Placed(w, h, o, x)
  BY DEF Used
<1>2. InRegion(h, o, x) /\ x \in Int
  BY <1>1 DEF Placed, InRegion
<1> QED BY <1>1, <1>2, OrderOfPointer DEF Used, Known

(* What is used stays so when a block is taken, and is not that block. *)
LEMMA UsedThen ==
  ASSUME NEW f, NEW w, NEW g, NEW z, NEW h \in Heaps, NEW o \in OrdersOf(h), NEW p,
         Took(f, w, g, z, h, o, p), RegionsOK(f, w)
  PROVE  /\ \A k \in Heaps : \A x : Used(f, w, k, x) => Used(g, z, k, x) /\ (p # 0 => x # p)
         /\ p # 0 => Used(g, z, h, p)
<1>1. ASSUME NEW k \in Heaps, NEW x, Used(f, w, k, x)
      PROVE  Used(g, z, k, x) /\ (p # 0 => x # p)
  <2>1. PICK u \in OrdersOf(k) : Placed(w, k, u, x)
    BY <1>1 DEF Used
  <2>2. w[k][u] \in Int /\ z[k][u] \in Int /\ w[k][u] <= z[k][u]
    BY DEF Took, RegionsOK, RegionOK
  <2>3. Placed(z, k, u, x)
    BY <2>1, <2>2 DEF Placed, InRegion
  <2>4. ~IsFree(g, x)
    BY <1>1 DEF Used, Took
  <2>5. Known(w, x) /\ ~IsFree(f, x)
    BY <1>1, UsedAddress
  <2>6. p # 0 => x # p
    BY <2>5 DEF Took
  <2> QED BY <2>3, <2>4, <2>6 DEF Used
<1>2. p # 0 => Used(g, z, h, p)
  BY DEF Took, Used
<1> QED BY <1>1, <1>2

(* An allocation that fails, or whose block is not yet in use. *)
LEMMA TakeKeeps ==
  ASSUME NEW f, NEW w, NEW g, NEW z, NEW B, NEW cl,
         NEW h \in Heaps, NEW o \in OrdersOf(h), NEW p,
         HeapOK(f, w, B, cl), Took(f, w, g, z, h, o, p)
  PROVE  HeapOK(g, z, B, cl)
<1>1. \A k \in Heaps : \A x : Used(f, w, k, x) => Used(g, z, k, x)
  BY UsedThen DEF HeapOK
<1>2. BlocksOK(g, z, B)
  <2>1. \A b \in B : b.heap \in Heaps
    BY DEF HeapOK, BlocksOK, Blocks
  <2> QED BY <1>1, <2>1 DEF HeapOK, BlocksOK
<1>3. CallsOK(g, z, B, cl)
  <2>1. ASSUME NEW c \in Callers PROVE CallOK(g, z, B, cl[c], c)
    <3>1. CallOK(f, w, B, cl[c], c)
      BY DEF HeapOK, CallsOK
    <3>2. "mem" \in Heaps
      BY DEF Heaps
    <3> QED BY <1>1, <3>1, <3>2 DEF CallOK
  <2> QED BY <2>1 DEF HeapOK, CallsOK
<1> QED BY <1>2, <1>3 DEF HeapOK, Took

(* The block goes to a caller. *)
LEMMA GiveKeeps ==
  ASSUME NEW h \in Heaps, NEW o \in OrdersOf(h), NEW p, p # 0,
         NEW c \in Callers, NEW size \in AllocSizes, NEW v \in 1 .. MaxBlocks,
         HeapOK(freelist, watermark, blocks, call),
         Took(freelist, watermark, freelist', watermark', h, o, p),
         NEW D, D = blocks \cup {Block(h, p, size, c, v)}
  PROVE  HeapOK(freelist', watermark', D, call)
<1>1. HeapOK(freelist', watermark', blocks, call)
  BY TakeKeeps
<1>0. Used(freelist', watermark', h, p)
  BY UsedThen DEF HeapOK
<1>2. /\ Used(freelist', watermark', h, p) /\ p \in Int /\ p \in BlockAddresses
  BY <1>0, UsedAddress
<1>3. \A k \in Heaps : \A x : Used(freelist, watermark, k, x) => x # p
  BY UsedThen DEF HeapOK
<1>4. PICK n : n = Block(h, p, size, c, v)
  OBVIOUS
<1>5. n \in Blocks /\ n.heap = h /\ n.ptr = p /\ n.owner = c
  BY <1>2, <1>4 DEF Block, Blocks
<1>6. \A b \in blocks : b.ptr # p
  <2>1. \A b \in blocks : b.heap \in Heaps /\ Used(freelist, watermark, b.heap, b.ptr)
    BY DEF HeapOK, BlocksOK, Blocks
  <2> QED BY <1>3, <2>1
<1>7. \A d \in Callers : Moving(call[d]) => call[d].new # p
  <2>1. \A d \in Callers : Moving(call[d]) => Used(freelist, watermark, "mem", call[d].new)
    BY DEF HeapOK, CallsOK, CallOK
  <2>2. "mem" \in Heaps
    BY DEF Heaps
  <2> QED BY <1>3, <2>1, <2>2
<1>9. BlocksOK(freelist', watermark', D)
  <2>1. D \subseteq Blocks
    BY <1>4, <1>5 DEF HeapOK, BlocksOK
  <2>2. \A b \in D : Used(freelist', watermark', b.heap, b.ptr)
    BY <1>1, <1>2, <1>4, <1>5 DEF HeapOK, BlocksOK
  <2>3. \A a, b \in D : a.ptr = b.ptr => a = b
    BY <1>1, <1>4, <1>5, <1>6 DEF HeapOK, BlocksOK
  <2> QED BY <2>1, <2>2, <2>3 DEF BlocksOK
<1>10. CallsOK(freelist', watermark', D, call)
  <2>1. ASSUME NEW d \in Callers PROVE CallOK(freelist', watermark', D, call[d], d)
    <3>1. CallOK(freelist', watermark', blocks, call[d], d)
      BY <1>1 DEF HeapOK, CallsOK
    <3>2. CASE ~Moving(call[d])
      BY <3>1, <3>2 DEF CallOK, Moving
    <3>3. CASE Moving(call[d])
      <4>1. Used(freelist', watermark', "mem", call[d].new) /\ call[d].new # p
        BY <1>7, <3>1, <3>3 DEF CallOK
      <4>3. \A b \in D : b.ptr # call[d].new
        BY <1>4, <1>5, <3>1, <3>3, <4>1 DEF CallOK
      <4>4. \E b \in D : b.owner = d /\ b.heap = "mem" /\ b.ptr = call[d].old
        BY <3>1, <3>3 DEF CallOK
      <4> QED BY <3>1, <4>1, <4>3, <4>4 DEF CallOK
    <3> QED BY <3>2, <3>3
  <2> QED BY <1>1, <2>1 DEF HeapOK, CallsOK
<1> QED BY <1>1, <1>9, <1>10 DEF HeapOK

(* A caller's call ends, or is one that moves no block. *)
LEMMA CallKeeps ==
  ASSUME NEW f, NEW w, NEW B, NEW cl, NEW c \in Callers, NEW r \in CallRecords, ~Moving(r),
         HeapOK(f, w, B, cl), NEW l, l = [cl EXCEPT ![c] = r]
  PROVE  HeapOK(f, w, B, l)
<1>1. /\ l = [d \in Callers |-> l[d]] /\ l[c] = r /\ \A d \in Callers : d # c => l[d] = cl[d]
  BY DEF HeapOK, CallsOK
<1>2. ASSUME NEW d \in Callers PROVE CallOK(f, w, B, l[d], d)
  <2>1. CASE d = c
    BY <1>1, <2>1 DEF CallOK, Moving
  <2>2. CASE d # c
    BY <1>1, <2>2 DEF HeapOK, CallsOK
  <2> QED BY <2>1, <2>2
<1>3. \A d, e \in Callers : Moving(l[d]) /\ Moving(l[e]) /\ l[d].new = l[e].new => d = e
  BY <1>1 DEF HeapOK, CallsOK
<1> QED BY <1>1, <1>2, <1>3 DEF HeapOK, CallsOK

(* mem_realloc allocates the new block. *)
LEMMA MoveKeeps ==
  ASSUME NEW o \in OrdersOf("mem"), NEW p, p # 0,
         NEW c \in Callers, NEW b \in blocks, b.owner = c, b.heap = "mem", NEW size \in AllocSizes,
         HeapOK(freelist, watermark, blocks, call),
         Took(freelist, watermark, freelist', watermark', "mem", o, p),
         NEW l, l = [call EXCEPT ![c] = [at |-> "copy", old |-> b.ptr, new |-> p, size |-> size]]
  PROVE  HeapOK(freelist', watermark', blocks, l)
<1>0. "mem" \in Heaps
  BY DEF Heaps
<1>1. HeapOK(freelist', watermark', blocks, call)
  BY <1>0, TakeKeeps
<1>2. Used(freelist', watermark', "mem", p) /\ p \in Int
  BY <1>0, UsedThen, UsedAddress DEF HeapOK
<1>3. \A k \in Heaps : \A x : Used(freelist, watermark, k, x) => x # p
  BY <1>0, UsedThen DEF HeapOK
<1>4. \A a \in blocks : a.ptr # p
  <2>1. \A a \in blocks : a.heap \in Heaps /\ Used(freelist, watermark, a.heap, a.ptr)
    BY DEF HeapOK, BlocksOK, Blocks
  <2> QED BY <1>3, <2>1
<1>5. \A d \in Callers : Moving(call[d]) => call[d].new # p
  <2>1. \A d \in Callers : Moving(call[d]) => Used(freelist, watermark, "mem", call[d].new)
    BY DEF HeapOK, CallsOK, CallOK
  <2> QED BY <1>0, <1>3, <2>1
<1>6. PICK r : r = [at |-> "copy", old |-> b.ptr, new |-> p, size |-> size]
  OBVIOUS
<1>7. /\ r \in CallRecords /\ r.at = "copy" /\ r.old = b.ptr /\ r.new = p /\ r.size = size
  <2>1. b.ptr \in Int
    BY DEF HeapOK, BlocksOK, Blocks
  <2> QED BY <1>2, <1>6, <2>1 DEF CallRecords
<1>8. /\ l = [d \in Callers |-> l[d]] /\ l[c] = r /\ \A d \in Callers : d # c => l[d] = call[d]
  BY <1>6 DEF HeapOK, CallsOK
<1>9. CallOK(freelist', watermark', blocks, r, c)
  BY <1>2, <1>4, <1>7 DEF CallOK, Moving
<1>10. \A d \in Callers : CallOK(freelist', watermark', blocks, l[d], d)
  BY <1>1, <1>8, <1>9 DEF HeapOK, CallsOK
<1>11. \A d, e \in Callers : Moving(l[d]) /\ Moving(l[e]) /\ l[d].new = l[e].new => d = e
  BY <1>1, <1>5, <1>7, <1>8 DEF HeapOK, CallsOK
<1> QED BY <1>1, <1>8, <1>10, <1>11 DEF HeapOK, CallsOK

(* mem_realloc copies. *)
LEMMA CopyKeeps ==
  ASSUME NEW f, NEW w, NEW B, NEW cl, NEW c \in Callers, cl[c].at = "copy",
         HeapOK(f, w, B, cl),
         NEW l, l = [cl EXCEPT ![c].at = "free"]
  PROVE  HeapOK(f, w, B, l)
<1>0. PICK k : k = cl[c]
  OBVIOUS
<1>1. CallOK(f, w, B, k, c) /\ Moving(k) /\ k \in CallRecords
  BY <1>0 DEF HeapOK, CallsOK, CallOK, Moving
<1>6. PICK r : r = [k EXCEPT !.at = "free"]
  OBVIOUS
<1>7. r \in CallRecords /\ r.at = "free" /\ r.new = k.new /\ r.old = k.old /\ r.size = k.size
  BY <1>1, <1>6 DEF CallRecords
<1>8. /\ l = [d \in Callers |-> l[d]] /\ l[c] = r /\ \A d \in Callers : d # c => l[d] = cl[d]
  BY <1>0, <1>6 DEF HeapOK, CallsOK
<1>10. CallOK(f, w, B, r, c)
  BY <1>1, <1>7 DEF CallOK, Moving
<1>12. \A d \in Callers : CallOK(f, w, B, l[d], d)
  BY <1>8, <1>10 DEF HeapOK, CallsOK
<1>13. \A d, a \in Callers : Moving(l[d]) /\ Moving(l[a]) /\ l[d].new = l[a].new => d = a
  <2>1. \A d \in Callers : (Moving(l[d]) <=> Moving(cl[d])) /\ (Moving(l[d]) => l[d].new = cl[d].new)
    BY <1>0, <1>1, <1>7, <1>8 DEF Moving
  <2> QED BY <2>1 DEF HeapOK, CallsOK
<1> QED BY <1>8, <1>12, <1>13 DEF HeapOK, CallsOK

(* A caller that is not moving a block frees one. *)
LEMMA FreeKeeps ==
  ASSUME NEW f, NEW w, NEW B, NEW cl, NEW c \in Callers, ~Moving(cl[c]),
         NEW b \in B, b.owner = c, b.heap = "mem", HeapOK(f, w, B, cl),
         NEW g, g = SetEntry(f, "mem", order_of_pointer("mem", b.ptr),
                             <<b.ptr>> \o f["mem"][order_of_pointer("mem", b.ptr)])
  PROVE  HeapOK(g, w, B \ {b}, cl)
<1>0. "mem" \in Heaps
  BY DEF Heaps
<1>1. Used(f, w, "mem", b.ptr) /\ b.ptr \in BlockAddresses
  BY <1>0, UsedAddress DEF HeapOK, BlocksOK
<1>2. PICK o \in OrdersOf("mem") : Placed(w, "mem", o, b.ptr)
  BY <1>1 DEF Used
<1>3. order_of_pointer("mem", b.ptr) = o
  BY <1>0, <1>2, OrderOfPointer DEF Placed
<1>4. RegionsOK(g, w) /\ \A x : IsFree(g, x) => IsFree(f, x) \/ x = b.ptr
  <2>1. ~IsFree(f, b.ptr) /\ RegionsOK(f, w)
    BY <1>1 DEF Used, HeapOK
  <2>2. g = SetEntry(f, "mem", o, <<b.ptr>> \o f["mem"][o])
    BY <1>3
  <2> QED BY <1>0, <1>2, <2>1, <2>2, Freed
<1>5. \A k \in Heaps : \A x : Used(f, w, k, x) /\ x # b.ptr => Used(g, w, k, x)
  BY <1>4 DEF Used
<1>7. BlocksOK(g, w, B \ {b})
  <2>1. ASSUME NEW a \in B \ {b} PROVE Used(g, w, a.heap, a.ptr)
    <3>1. Used(f, w, a.heap, a.ptr) /\ a.heap \in Heaps /\ a.ptr # b.ptr
      BY DEF HeapOK, BlocksOK, Blocks
    <3> QED BY <1>5, <3>1
  <2> QED BY <2>1 DEF HeapOK, BlocksOK
<1>8. ASSUME NEW d \in Callers PROVE CallOK(g, w, B \ {b}, cl[d], d)
  <2>1. CallOK(f, w, B, cl[d], d)
    BY DEF HeapOK, CallsOK
  <2>2. CASE Moving(cl[d])
    <3>1. Used(f, w, "mem", cl[d].new) /\ cl[d].new # b.ptr
      BY <2>1, <2>2 DEF CallOK
    <3>3. Used(g, w, "mem", cl[d].new)
      BY <1>0, <1>5, <3>1
    <3>4. \E a \in B \ {b} : a.owner = d /\ a.heap = "mem" /\ a.ptr = cl[d].old
      BY <2>1, <2>2 DEF CallOK
    <3> QED BY <2>1, <2>2, <3>3, <3>4 DEF CallOK
  <2>3. CASE ~Moving(cl[d])
    BY <2>1, <2>3 DEF CallOK, Moving
  <2> QED BY <2>2, <2>3
<1> QED BY <1>4, <1>7, <1>8 DEF HeapOK, CallsOK

(* mem_realloc returns the same pointer. *)
LEMMA InPlaceKeeps ==
  ASSUME NEW f, NEW w, NEW B, NEW cl, NEW c \in Callers, ~Moving(cl[c]),
         NEW b \in B, b.owner = c, b.heap = "mem", NEW size \in AllocSizes, HeapOK(f, w, B, cl),
         NEW D, D = (B \ {b}) \cup {Block("mem", b.ptr, size, c, b.var)}
  PROVE  HeapOK(f, w, D, cl)
<1>1. PICK n : n = Block("mem", b.ptr, size, c, b.var)
  OBVIOUS
<1>2. n \in Blocks /\ n.heap = "mem" /\ n.ptr = b.ptr /\ n.owner = c
  <2>1. b.ptr \in Int /\ b.var \in 1 .. MaxBlocks
    BY DEF HeapOK, BlocksOK, Blocks
  <2> QED BY <1>1, <2>1 DEF Block, Blocks, Heaps
<1>3. \A a \in D : a = n \/ a \in B \ {b}
  BY <1>1
<1>4. BlocksOK(f, w, D)
  <2>1. D \subseteq Blocks
    BY <1>2, <1>3 DEF HeapOK, BlocksOK
  <2>2. \A a \in D : Used(f, w, a.heap, a.ptr)
    BY <1>2, <1>3 DEF HeapOK, BlocksOK
  <2>3. \A a, d \in D : a.ptr = d.ptr => a = d
    BY <1>2, <1>3 DEF HeapOK, BlocksOK
  <2> QED BY <2>1, <2>2, <2>3 DEF HeapOK, BlocksOK
<1>5. ASSUME NEW d \in Callers PROVE CallOK(f, w, D, cl[d], d)
  <2>1. CallOK(f, w, B, cl[d], d)
    BY DEF HeapOK, CallsOK
  <2>2. CASE Moving(cl[d])
    <3>1. \A a \in D : a.ptr # cl[d].new
      BY <1>2, <1>3, <2>1, <2>2 DEF CallOK
    <3>2. \E a \in D : a.owner = d /\ a.heap = "mem" /\ a.ptr = cl[d].old
      BY <2>1, <2>2 DEF CallOK
    <3> QED BY <2>1, <2>2, <3>1, <3>2 DEF CallOK
  <2>3. CASE ~Moving(cl[d])
    BY <2>1, <2>3 DEF CallOK, Moving
  <2> QED BY <2>2, <2>3
<1> QED BY <1>4, <1>5 DEF HeapOK, CallsOK

(* The block a mem_realloc has filled becomes the caller's. *)
LEMMA AdoptKeeps ==
  ASSUME NEW f, NEW w, NEW B, NEW cl, NEW c \in Callers, cl[c].at = "free",
         HeapOK(f, w, B, cl),
         NEW v \in 1 .. MaxBlocks,
         NEW D, D = B \cup {Block("mem", cl[c].new, cl[c].size, c, v)},
         NEW l, l = [cl EXCEPT ![c] = NoCall]
  PROVE  HeapOK(f, w, D, l)
<1>0. PICK k : k = cl[c]
  OBVIOUS
<1>1. CallOK(f, w, B, k, c) /\ Moving(k) /\ k.at = "free" /\ k \in CallRecords
  BY <1>0 DEF HeapOK, CallsOK, CallOK, Moving
<1>2. /\ Used(f, w, "mem", k.new) /\ k.new \in Int /\ k.size \in AllocSizes
      /\ \A b \in B : b.ptr # k.new
  BY <1>1 DEF CallOK, CallRecords
<1>3. PICK n : n = Block("mem", k.new, k.size, c, v)
  OBVIOUS
<1>4. n \in Blocks /\ n.heap = "mem" /\ n.ptr = k.new /\ n.owner = c
  BY <1>2, <1>3 DEF Block, Blocks, Heaps
<1>5. \A a : a \in D <=> a = n \/ a \in B
  BY <1>0, <1>3
<1>6. BlocksOK(f, w, D)
  <2>1. D \subseteq Blocks
    BY <1>4, <1>5 DEF HeapOK, BlocksOK
  <2>2. \A a \in D : Used(f, w, a.heap, a.ptr)
    BY <1>2, <1>4, <1>5 DEF HeapOK, BlocksOK
  <2>3. \A a, d \in D : a.ptr = d.ptr => a = d
    BY <1>2, <1>4, <1>5 DEF HeapOK, BlocksOK
  <2> QED BY <2>1, <2>2, <2>3 DEF HeapOK, BlocksOK
<1>7. /\ l = [d \in Callers |-> l[d]] /\ l[c] = NoCall /\ \A d \in Callers : d # c => l[d] = cl[d]
  BY DEF HeapOK, CallsOK
<1>8. NoCall \in CallRecords /\ ~Moving(NoCall) /\ NoCall.at # "free"
  BY DEF NoCall, CallRecords, Moving
<1>9. ASSUME NEW d \in Callers PROVE CallOK(f, w, D, l[d], d)
  <2>1. CASE d = c
    BY <1>7, <1>8, <2>1 DEF CallOK
  <2>2. CASE d # c
    <3>1. CallOK(f, w, B, cl[d], d) /\ l[d] = cl[d]
      BY <1>7, <2>2 DEF HeapOK, CallsOK
    <3>2. CASE Moving(cl[d])
      <4>1. cl[d].new # k.new
        BY <1>0, <1>1, <2>2, <3>2 DEF HeapOK, CallsOK
      <4>2. \A a \in D : a.ptr # cl[d].new
        BY <1>4, <1>5, <3>1, <3>2, <4>1 DEF CallOK
      <4> QED BY <1>5, <3>1, <3>2, <4>2 DEF CallOK
    <3>3. CASE ~Moving(cl[d])
      BY <3>1, <3>3 DEF CallOK, Moving
    <3> QED BY <3>2, <3>3
  <2> QED BY <2>1, <2>2
<1>10. \A d, a \in Callers : Moving(l[d]) /\ Moving(l[a]) /\ l[d].new = l[a].new => d = a
  BY <1>7, <1>8 DEF HeapOK, CallsOK
<1> QED BY <1>6, <1>7, <1>9, <1>10 DEF HeapOK, CallsOK

----------------------------------------------------------------------------
LEMMA HeapInitInv == HeapInit => HeapInv
<1> SUFFICES ASSUME HeapInit PROVE HeapInv
  OBVIOUS
<1> USE HeapAssumption DEF HeapInit
<1>1. RegionsOK(freelist, watermark)
  <2>1. ASSUME NEW h \in Heaps, NEW o \in OrdersOf(h) PROVE RegionOK(freelist, watermark, h, o)
    <3>1. freelist[h][o] = <<>> /\ watermark[h][o] = RegionBottom(h, o) /\ RegionBottom(h, o) \in Nat
      BY RegionBounds
    <3> QED BY <3>1 DEF RegionOK
  <2> QED BY <2>1 DEF RegionsOK, ByRegion
<1>2. BlocksOK(freelist, watermark, blocks)
  BY DEF BlocksOK
<1>3. NoCall \in CallRecords /\ ~Moving(NoCall) /\ NoCall.at # "free"
  BY DEF NoCall, CallRecords, Moving
<1>4. CallsOK(freelist, watermark, blocks, call)
  <2>1. \A c \in Callers : call[c] = NoCall
    OBVIOUS
  <2>2. call = [c \in Callers |-> call[c]]
    OBVIOUS
  <2> QED BY <1>3, <2>1, <2>2 DEF CallsOK, CallOK
<1>5. StacksOK
  <2>1. \A c \in Callers : stacks[c] = 0 /\ call[c].at = "idle"
    BY DEF NoCall
  <2>2. m_small_stack_watermark \in Nat \ {0} /\ stacks \in [Callers -> Nat]
    OBVIOUS
  <2> QED BY <2>1, <2>2 DEF StacksOK
<1> QED BY <1>1, <1>2, <1>4, <1>5 DEF HeapInv, HeapOK

(* What a caller that is in no call is not doing. *)
LEMMA IdleNotMoving ==
  ASSUME NEW c \in Callers, Free(c)
  PROVE  ~Moving(call[c])
BY DEF Free, Moving

(* The block of an allocation goes to a caller, unless there is none. *)
LEMMA AllocStep ==
  ASSUME HeapInv, NEW h \in Heaps, NEW c \in Callers, NEW request \in AllocSizes,
         NEW v \in 1 .. MaxBlocks, NEW o, o = order_of_size(h, AtLeastMin(h, request)), ~TooLarge(h, AtLeastMin(h, request)),
         Take_block(h, o, AtLeastMin(h, request)), GiveTo(h, c, v, Next_block(h, o), request)
  PROVE  HeapOK(freelist', watermark', blocks', call)
<1>1. SizeOK(AtLeastMin(h, request)) /\ o \in OrdersOf(h)
  BY MinSize, OrderOfSize
<1>2. PICK p : p = Next_block(h, o)
  OBVIOUS
<1>3. Took(freelist, watermark, freelist', watermark', h, o, p)
  BY <1>1, <1>2, Taken DEF HeapInv, HeapOK
<1>4. CASE p = 0
  <2>1. blocks' = blocks
    BY <1>2, <1>4 DEF GiveTo
  <2> QED BY <1>1, <1>3, <2>1, TakeKeeps DEF HeapInv
<1>5. CASE p # 0
  <2>1. PICK D : D = blocks \cup {Block(h, p, request, c, v)}
    OBVIOUS
  <2>2. blocks' = D
    BY <1>2, <1>5, <2>1 DEF GiveTo
  <2>3. HeapOK(freelist', watermark', D, call)
    BY <1>1, <1>3, <1>5, <2>1, GiveKeeps DEF HeapInv
  <2> QED BY <2>2, <2>3
<1> QED BY <1>4, <1>5

LEMMA HeapOKStep ==
  ASSUME HeapInv, NEW c \in Callers, HeapStep(c)
  PROVE  HeapOK(freelist', watermark', blocks', call')
<1>0. "mem" \in Heaps /\ "gc" \in Heaps
  BY DEF Heaps
<1>9. NoCall \in CallRecords /\ ~Moving(NoCall)
  BY DEF NoCall, CallRecords, Moving
<1>1. ASSUME NEW v \in NextVar(c), NEW size \in AllocSizes, mem_alloc(c, v, size) PROVE HeapOK(freelist', watermark', blocks', call')
  <2>1. PICK o : o = order_of_size("mem", AtLeastMin("mem", size))
    OBVIOUS
  <2>2. /\ ~TooLarge("mem", AtLeastMin("mem", size)) /\ Take_block("mem", o, AtLeastMin("mem", size))
        /\ GiveTo("mem", c, v, Next_block("mem", o), size) /\ call' = call
    BY <1>1, <2>1 DEF mem_alloc
  <2>3. v \in 1 .. MaxBlocks
    BY DEF NextVar, FreeVars
  <2> QED BY <1>0, <2>1, <2>2, <2>3, AllocStep DEF HeapInv
<1>2. ASSUME NEW v \in NextVar(c), NEW size \in AllocSizes, tdn_host_gc_alloc(c, v, size) PROVE HeapOK(freelist', watermark', blocks', call')
  <2>1. PICK o : o = order_of_size("gc", AtLeastMin("gc", size))
    OBVIOUS
  <2>2. /\ ~TooLarge("gc", AtLeastMin("gc", size)) /\ Take_block("gc", o, AtLeastMin("gc", size))
        /\ GiveTo("gc", c, v, Next_block("gc", o), size)
    BY <1>2, <2>1 DEF tdn_host_gc_alloc
  <2>3. PICK a \in {"idle", "stopped"} : call' = [call EXCEPT ![c].at = a]
    BY <1>2 DEF tdn_host_gc_alloc
  <2>8. v \in 1 .. MaxBlocks
    BY DEF NextVar, FreeVars
  <2>4. HeapOK(freelist', watermark', blocks', call)
    BY <1>0, <2>1, <2>2, <2>8, AllocStep
  <2>5. PICK r : r = [call[c] EXCEPT !.at = a]
    OBVIOUS
  <2>6. r \in CallRecords /\ ~Moving(r)
    <3>1. call[c] \in CallRecords
      BY DEF HeapInv, HeapOK, CallsOK, CallOK
    <3> QED BY <2>5, <3>1 DEF CallRecords, Moving
  <2>7. call' = [call EXCEPT ![c] = r]
    BY <2>3, <2>5
  <2> QED BY <2>4, <2>6, <2>7, CallKeeps DEF HeapInv
<1>3. ASSUME NEW b \in blocks, mem_free(c, b) PROVE HeapOK(freelist', watermark', blocks', call')
  <2>1. b.owner = c /\ b.heap = "mem" /\ ~Moving(call[c])
    BY <1>3, IdleNotMoving DEF mem_free, Owned
  <2>2. PICK o : o = order_of_pointer("mem", b.ptr)
    OBVIOUS
  <2>3. /\ freelist' = SetEntry(freelist, "mem", o, <<b.ptr>> \o freelist["mem"][o])
        /\ watermark' = watermark
        /\ blocks' = blocks \ {b} /\ call' = call
    BY <1>3, <2>2 DEF mem_free, Push, SetEntry
  <2> QED BY <2>1, <2>2, <2>3, FreeKeeps DEF HeapInv
<1>4. ASSUME NEW b \in blocks, NEW size \in AllocSizes, realloc_in_place(c, b, size) PROVE HeapOK(freelist', watermark', blocks', call')
  <2>1. b.owner = c /\ b.heap = "mem" /\ ~Moving(call[c])
    BY <1>4, IdleNotMoving DEF realloc_in_place, Owned
  <2>2. /\ blocks' = (blocks \ {b}) \cup {Block("mem", b.ptr, size, c, b.var)}
        /\ freelist' = freelist /\ watermark' = watermark /\ call' = call
    BY <1>4 DEF realloc_in_place, regionVars
  <2> QED BY <2>1, <2>2, InPlaceKeeps DEF HeapInv
<1>5. ASSUME NEW b \in blocks, NEW size \in AllocSizes, realloc_move(c, b, size) PROVE HeapOK(freelist', watermark', blocks', call')
  <2>1. b.owner = c /\ b.heap = "mem"
    BY <1>5 DEF realloc_move, Owned
  <2>2. PICK o : o = order_of_size("mem", size)
    OBVIOUS
  <2>3. PICK p : p = Next_block("mem", o)
    OBVIOUS
  <2>4. ~TooLarge("mem", size) /\ Take_block("mem", o, size) /\ blocks' = blocks
    BY <1>5, <2>2 DEF realloc_move
  <2>5. SizeOK(size) /\ o \in OrdersOf("mem")
    BY <1>0, <2>2, <2>4, MinSize, OrderOfSize
  <2>6. Took(freelist, watermark, freelist', watermark', "mem", o, p)
    BY <1>0, <2>3, <2>4, <2>5, Taken DEF HeapInv, HeapOK
  <2>7. CASE p = 0
    <3>1. call' = [call EXCEPT ![c] = NoCall]
      BY <1>5, <2>2, <2>3, <2>7 DEF realloc_move
    <3>2. HeapOK(freelist', watermark', blocks', call)
      BY <1>0, <2>4, <2>5, <2>6, TakeKeeps DEF HeapInv
    <3> QED BY <1>9, <3>1, <3>2, CallKeeps DEF HeapInv
  <2>8. CASE p # 0
    <3>1. PICK l : l = [call EXCEPT ![c] = [at |-> "copy", old |-> b.ptr, new |-> p, size |-> size]]
      OBVIOUS
    <3>2. call' = l
      BY <1>5, <2>2, <2>3, <2>8, <3>1 DEF realloc_move
    <3>3. HeapOK(freelist', watermark', blocks, l)
      BY <2>1, <2>5, <2>6, <2>8, <3>1, MoveKeeps DEF HeapInv
    <3> QED BY <2>4, <3>2, <3>3
  <2> QED BY <2>7, <2>8
<1>6. ASSUME realloc_copy(c) PROVE HeapOK(freelist', watermark', blocks', call')
  <2>1. /\ call[c].at = "copy" /\ call' = [call EXCEPT ![c].at = "free"]
        /\ freelist' = freelist /\ watermark' = watermark /\ blocks' = blocks
    BY <1>6 DEF realloc_copy, regionVars
  <2> QED BY <2>1, CopyKeeps DEF HeapInv
<1>7. ASSUME NEW b \in blocks, realloc_free(c, b) PROVE HeapOK(freelist', watermark', blocks', call')
  <2>1. PICK k : k = call[c]
    OBVIOUS
  <2>2. PICK n : n = Block("mem", k.new, k.size, c, b.var)
    OBVIOUS
  <2>3. PICK l : l = [call EXCEPT ![c] = NoCall]
    OBVIOUS
  <2>4. PICK o : o = order_of_pointer("mem", b.ptr)
    OBVIOUS
  <2>5. /\ k.at = "free" /\ call' = l /\ watermark' = watermark
        /\ b.owner = c /\ b.heap = "mem" /\ b.ptr = k.old
        /\ freelist' = SetEntry(freelist, "mem", o, <<b.ptr>> \o freelist["mem"][o])
        /\ blocks' = (blocks \ {b}) \cup {n}
    BY <1>7, <2>1, <2>2, <2>3, <2>4 DEF realloc_free, Push, SetEntry, Owned
  <2>6. PICK D : D = blocks \cup {n}
    OBVIOUS
  <2>7. b.var \in 1 .. MaxBlocks
    BY DEF HeapInv, HeapOK, BlocksOK, Blocks
  <2>8. HeapOK(freelist, watermark, D, l)
    BY <2>1, <2>2, <2>3, <2>5, <2>6, <2>7, AdoptKeeps DEF HeapInv
  <2>9. ~Moving(l[c])
    <3>1. l[c] = NoCall
      BY <2>3 DEF HeapInv, HeapOK, CallsOK
    <3> QED BY <1>9, <3>1
  <2>10. b.ptr # k.new
    BY <2>1, <2>5 DEF HeapInv, HeapOK, CallsOK, CallOK, Moving
  <2>11. blocks' = D \ {b}
    <3>1. n # b
      BY <2>2, <2>10 DEF Block
    <3> QED BY <2>5, <2>6, <3>1
  <2>12. HeapOK(freelist', watermark, D \ {b}, l)
    BY <2>4, <2>5, <2>6, <2>8, <2>9, FreeKeeps
  <2> QED BY <2>5, <2>11, <2>12
<1>8. ASSUME small_stack_add(c) \/ small_stack_add_again(c) PROVE HeapOK(freelist', watermark', blocks', call')
  <2>1. freelist' = freelist /\ watermark' = watermark /\ blocks' = blocks
    BY <1>8 DEF small_stack_add, small_stack_add_again, regionVars
  <2>2. PICK r : r = [NoCall EXCEPT !.at = "stack", !.new = m_small_stack_watermark]
    OBVIOUS
  <2>3. r \in CallRecords /\ ~Moving(r)
    <3>1. m_small_stack_watermark \in Int
      BY DEF HeapInv, StacksOK
    <3>2. r = [at |-> "stack", old |-> 0, new |-> m_small_stack_watermark, size |-> 0]
      BY <2>2 DEF NoCall
    <3> QED BY <3>1, <3>2 DEF CallRecords, Moving
  <2>4. call' = [call EXCEPT ![c] = r] \/ call' = [call EXCEPT ![c] = NoCall]
    BY <1>8, <2>2 DEF small_stack_add, small_stack_add_again
  <2> QED BY <1>9, <2>1, <2>3, <2>4, CallKeeps DEF HeapInv
<1> QED BY <1>1, <1>2, <1>3, <1>4, <1>5, <1>6, <1>7, <1>8 DEF HeapStep

(* small_stack_alloc hands out addresses below the watermark once; other   *)
(* calls leave the stacks alone.                                           *)
LEMMA StacksStep ==
  ASSUME HeapInv, NEW c \in Callers, HeapStep(c)
  PROVE  StacksOK'
<1> USE HeapAssumption
<1>0. call = [d \in Callers |-> call[d]] /\ call[c] \in CallRecords
  BY DEF HeapInv, HeapOK, CallsOK, CallOK
<1>1. CASE small_stack_add(c)
  <2>1. /\ call[c].at = "idle" /\ stacks[c] = 0 /\ stacks' = stacks
        /\ m_small_stack_watermark' = m_small_stack_watermark + StackBytes
    BY <1>1 DEF small_stack_add, Free
  <2>2. /\ call'[c].at = "stack" /\ call'[c].new = m_small_stack_watermark
        /\ \A d \in Callers : d # c => call'[d] = call[d]
    BY <1>0, <1>1 DEF small_stack_add, NoCall
  <2> QED BY <2>1, <2>2 DEF HeapInv, StacksOK
<1>2. CASE small_stack_add_again(c)
  <2>1. /\ call[c].at = "stack" /\ stacks' = [stacks EXCEPT ![c] = call[c].new]
        /\ m_small_stack_watermark' = m_small_stack_watermark + StackBytes
    BY <1>2 DEF small_stack_add_again
  <2>2. call'[c].at = "idle" /\ \A d \in Callers : d # c => call'[d] = call[d]
    BY <1>0, <1>2 DEF small_stack_add_again, NoCall
  <2>3. /\ stacks' \in [Callers -> Nat] /\ stacks'[c] = call[c].new
        /\ \A d \in Callers : d # c => stacks'[d] = stacks[d]
    BY <2>1 DEF HeapInv, StacksOK
  <2> QED BY <2>1, <2>2, <2>3 DEF HeapInv, StacksOK
<1>3. CASE ~small_stack_add(c) /\ ~small_stack_add_again(c)
  <2>1. /\ stacks' = stacks /\ m_small_stack_watermark' = m_small_stack_watermark
        /\ \A d \in Callers : d # c => call'[d] = call[d]
        /\ call'[c].at = "stack" => call'[c] = call[c]
    <3>1. CASE \E v \in NextVar(c), size \in AllocSizes : mem_alloc(c, v, size)
      BY <3>1 DEF mem_alloc, stackVars
    <3>2. CASE \E v \in NextVar(c), size \in AllocSizes : tdn_host_gc_alloc(c, v, size)
      <4>1. PICK a \in {"idle", "stopped"} : call' = [call EXCEPT ![c].at = a]
        BY <3>2 DEF tdn_host_gc_alloc
      <4>2. stacks' = stacks /\ m_small_stack_watermark' = m_small_stack_watermark
        BY <3>2 DEF tdn_host_gc_alloc, stackVars
      <4> QED BY <1>0, <4>1, <4>2 DEF CallRecords
    <3>3. CASE \E b \in blocks : mem_free(c, b)
      BY <3>3 DEF mem_free, stackVars
    <3>4. CASE \E b \in blocks, size \in AllocSizes : realloc_in_place(c, b, size)
      BY <3>4 DEF realloc_in_place, stackVars
    <3>5. CASE \E b \in blocks, size \in AllocSizes : realloc_move(c, b, size)
      BY <1>0, <3>5 DEF realloc_move, stackVars, NoCall
    <3>6. CASE realloc_copy(c)
      BY <1>0, <3>6 DEF realloc_copy, stackVars, CallRecords
    <3>7. CASE \E b \in blocks : realloc_free(c, b)
      BY <1>0, <3>7 DEF realloc_free, stackVars, NoCall
    <3> QED BY <1>3, <3>1, <3>2, <3>3, <3>4, <3>5, <3>6, <3>7 DEF HeapStep
  <2>2. \A d \in Callers : call'[d].at = "stack" => call'[d] = call[d]
    BY <2>1
  <2> QED BY <2>1, <2>2 DEF HeapInv, StacksOK
<1> QED BY <1>1, <1>2, <1>3

LEMMA HeapInductive == HeapSpec => []HeapInv
<1>1. HeapInv /\ [HeapNext]_heapVars => HeapInv'
  <2> SUFFICES ASSUME HeapInv, [HeapNext]_heapVars PROVE HeapInv'
    OBVIOUS
  <2>1. CASE HeapNext
    <3>1. PICK c \in Callers : HeapStep(c)
      BY <2>1 DEF HeapNext
    <3> QED BY <3>1, HeapOKStep, StacksStep DEF HeapInv
  <2>2. CASE UNCHANGED heapVars
    <3>1. /\ freelist' = freelist /\ watermark' = watermark /\ blocks' = blocks
          /\ call' = call /\ stacks' = stacks
          /\ m_small_stack_watermark' = m_small_stack_watermark
      BY <2>2 DEF heapVars
    <3>2. StacksOK'
      BY <3>1 DEF HeapInv, StacksOK
    <3> QED BY <3>1, <3>2 DEF HeapInv
  <2> QED BY <2>1, <2>2
<1> QED BY HeapInitInv, <1>1, PTL DEF HeapSpec

----------------------------------------------------------------------------
(***************************************************************************)
(* No byte is handed out twice as long as no request is so large that its  *)
(* power of two wraps around in an int.                                    *)
(***************************************************************************)
NoWrap == \A size \in AllocSizes : size <= Pow2[IntBits - 1]

(* A pointer is a multiple of the block size away from its region's start. *)
Aligned(h, o, x) == Multiple(x - RegionBottom(h, o), ClassBytes(h, o))
Fits(h, x, size) ==
    \E o \in OrdersOf(h) : InRegion(h, o, x) /\ Aligned(h, o, x) /\ size <= ClassBytes(h, o)

ListsFit(f, w) ==
    \A h \in Heaps : \A o \in OrdersOf(h) :
        /\ Aligned(h, o, w[h][o]) /\ w[h][o] <= RegionTop(h, o)
        /\ \A i \in 1 .. Len(f[h][o]) : Aligned(h, o, f[h][o][i])

HoldersFit ==
    /\ \A b \in blocks : Fits(b.heap, b.ptr, b.size)
    /\ \A c \in Callers : Moving(call[c]) => Fits("mem", call[c].new, call[c].size)

FitInv == ListsFit(freelist, watermark) /\ HoldersFit

(* A region is a multiple of its blocks. *)
LEMMA ClassDivides ==
  ASSUME NEW h \in Heaps, NEW o \in OrdersOf(h)
  PROVE  /\ ClassBytes(h, o) \in Nat \ {0} /\ Pow2[MinShift[h]] <= ClassBytes(h, o)
         /\ Aligned(h, o, RegionBottom(h, o)) /\ Aligned(h, o, RegionTop(h, o))
<1> USE HeapAssumption
<1>1. PICK n \in Nat : n = MinShift[h] + OrderCount[h] - 1
  OBVIOUS
<1>2. o + MinShift[h] \in Nat /\ o + MinShift[h] <= n /\ MinShift[h] \in Nat /\ MinShift[h] <= o + MinShift[h]
  BY <1>1 DEF OrdersOf
<1>3. PICK s \in Nat \ {0} : s = ClassBytes(h, o)
  BY <1>2, PowPositive DEF ClassBytes
<1>4. PICK t \in Nat \ {0} : t = Pow2[n]
  BY PowPositive
<1>5. Multiple(t, s)
  BY <1>2, <1>3, <1>4, PowDivides DEF ClassBytes
<1>6. RegionBytes % t = 0
  BY <1>1, <1>4
<1>7. Multiple(RegionBytes, t)
  BY <1>6, MultipleMod
<1>8. Multiple(RegionBytes, s)
  BY <1>5, <1>7, MultipleOfMultiple
<1>9. RegionTop(h, o) - RegionBottom(h, o) = RegionBytes /\ RegionBottom(h, o) - RegionBottom(h, o) = 0
  BY RegionBounds
<1>10. Multiple(0, s)
  <2>1. 0 = 0 * s /\ 0 \in Int
    OBVIOUS
  <2> QED BY <2>1 DEF Multiple
<1>11. Pow2[MinShift[h]] <= ClassBytes(h, o)
  BY <1>2, PowOrder DEF ClassBytes
<1> QED BY <1>3, <1>8, <1>9, <1>10, <1>11 DEF Aligned

(* Between two aligned places there is room for a block. *)
LEMMA RoomBetween ==
  ASSUME NEW h \in Heaps, NEW o \in OrdersOf(h), NEW x \in Int, NEW y \in Int, x < y,
         Aligned(h, o, x), Aligned(h, o, y)
  PROVE  x + ClassBytes(h, o) <= y /\ Aligned(h, o, x + ClassBytes(h, o))
<1>1. PICK s \in Nat \ {0} : s = ClassBytes(h, o)
  BY ClassDivides
<1>2. PICK b \in Int : b = RegionBottom(h, o)
  BY RegionBounds
<1>3. Multiple(x - b, s) /\ Multiple(y - b, s)
  BY <1>1, <1>2 DEF Aligned
<1>4. x - b \in Int /\ y - b \in Int /\ x - b < y - b
  OBVIOUS
<1>5. (x - b) + s <= y - b
  BY <1>3, <1>4, MultipleGap
<1>6. Multiple(s, s)
  <2>1. s = 1 * s /\ 1 \in Int
    OBVIOUS
  <2> QED BY <2>1 DEF Multiple
<1>7. Multiple((x - b) + s, s)
  BY <1>3, <1>4, <1>6, MultipleSum
<1>8. (x - b) + s = (x + s) - b
  OBVIOUS
<1>9. Multiple((x + s) - b, s)
  BY <1>7, <1>8
<1> QED BY <1>1, <1>2, <1>5, <1>9 DEF Aligned

(* Two blocks at different addresses do not overlap. *)
LEMMA FitApart ==
  ASSUME NEW h \in Heaps, NEW g \in Heaps, NEW x, NEW y, NEW n \in Int, NEW m,
         Fits(h, x, n), Fits(g, y, m), x < y
  PROVE  x + n <= y
<1>1. PICK o \in OrdersOf(h) : InRegion(h, o, x) /\ Aligned(h, o, x) /\ n <= ClassBytes(h, o)
  BY DEF Fits
<1>2. PICK u \in OrdersOf(g) : InRegion(g, u, y) /\ Aligned(g, u, y)
  BY DEF Fits
<1>3. x \in Int /\ y \in Int /\ ClassBytes(h, o) \in Nat
  BY <1>1, <1>2, ClassDivides DEF InRegion
<1>4. CASE h = g /\ o = u
  <2>1. Aligned(h, o, y)
    BY <1>2, <1>4
  <2>2. x + ClassBytes(h, o) <= y
    BY <1>1, <1>3, <2>1, RoomBetween
  <2> QED BY <1>1, <1>3, <2>2
<1>5. CASE ~(h = g /\ o = u)
  <2>0. x <= y
    BY <1>3
  <2>1. RegionTop(h, o) <= RegionBottom(g, u)
    BY <1>1, <1>2, <1>5, <2>0, RegionsApart
  <2>2. /\ RegionTop(h, o) \in Int /\ RegionBottom(g, u) \in Int /\ x < RegionTop(h, o)
        /\ RegionBottom(g, u) <= y
    BY <1>1, <1>2, RegionBounds, HeapAssumption DEF InRegion
  <2>3. x + ClassBytes(h, o) <= RegionTop(h, o)
    BY <1>1, <1>3, <2>2, ClassDivides, RoomBetween
  <2> QED BY <1>1, <1>3, <2>1, <2>2, <2>3
<1> QED BY <1>4, <1>5

(* Without wrapping around, a size is served by the region of its class. *)
LEMMA ClassOfSize ==
  ASSUME NEW h \in Heaps, NEW size \in Int, Pow2[MinShift[h]] <= size, size <= Pow2[IntBits - 1],
         SizeOK(size), ~TooLarge(h, size), NEW o, o = order_of_size(h, size)
  PROVE  o \in OrdersOf(h) /\ Pow2[AlignedShift(size)] = ClassBytes(h, o) /\ size <= ClassBytes(h, o)
<1> USE HeapAssumption
<1>1. IntBits - 1 \in Nat /\ IntBits - 1 \in 0 .. 2 * IntBits /\ MinShift[h] \in Nat
  OBVIOUS
<1>2. PICK s \in Nat : /\ s = Shift(size) /\ Pow2[s] >= size
                       /\ \A t \in 0 .. 2 * IntBits : Pow2[t] >= size => s <= t
  BY ShiftOf
<1>3. s <= IntBits - 1
  <2>1. Pow2[IntBits - 1] >= size
    BY <1>1, PowPositive
  <2> QED BY <1>1, <1>2, <2>1
<1>4. AlignedShift(size) = s
  <2>1. s = 0 * IntBits + s /\ 0 <= s /\ s < IntBits /\ 0 \in Int /\ s \in Int
    BY <1>3
  <2>2. s % IntBits = s
    BY <2>1, Remainder
  <2> QED BY <1>2, <2>2 DEF AlignedShift
<1>5. MinShift[h] <= s
  <2>1. Pow2[MinShift[h]] <= Pow2[s]
    BY <1>1, <1>2, PowPositive
  <2> QED BY <1>1, <2>1, PowOrder
<1>6. o = s - MinShift[h] /\ o + MinShift[h] = s
  BY <1>1, <1>4, <1>5 DEF order_of_size
<1>7. o \in OrdersOf(h)
  BY OrderOfSize
<1> QED BY <1>2, <1>4, <1>6, <1>7, PowPositive DEF ClassBytes

(* An allocation keeps the lists, and its block fits. *)
LEMMA TakeFits ==
  ASSUME NEW h \in Heaps, NEW o \in OrdersOf(h), NEW size, NEW n \in Int, n <= ClassBytes(h, o),
         Pow2[AlignedShift(size)] = ClassBytes(h, o), NEW p, p = Next_block(h, o),
         RegionsOK(freelist, watermark), ListsFit(freelist, watermark), Take_block(h, o, size)
  PROVE  ListsFit(freelist', watermark') /\ (p # 0 => Fits(h, p, n))
<1>1. PICK s : s = freelist[h][o]
  OBVIOUS
<1>2. PICK v \in Int : v = watermark[h][o] /\ RegionBottom(h, o) <= v
  BY DEF RegionsOK, RegionOK
<1>3. /\ s \in Seq(Int) /\ Aligned(h, o, v) /\ v <= RegionTop(h, o)
      /\ \A i \in 1 .. Len(s) : Aligned(h, o, s[i]) /\ InRegion(h, o, s[i])
  BY <1>1, <1>2 DEF ListsFit, RegionsOK, RegionOK, Placed
<1>4. CASE s # <<>>
  <2>0. PICK t : t = Tail(s)
    OBVIOUS
  <2>1. /\ p = s[1] /\ 1 \in 1 .. Len(s) /\ t \in Seq(Int)
        /\ \A i \in 1 .. Len(t) : i + 1 \in 1 .. Len(s) /\ t[i] = s[i + 1]
    BY <1>1, <1>3, <1>4, <2>0, Popped DEF Next_block
  <2>2. freelist' = SetEntry(freelist, h, o, t) /\ watermark' = watermark
    BY <1>1, <1>4, <2>0 DEF Take_block, SetEntry
  <2>3. \A k \in Heaps : \A u \in OrdersOf(k) :
          freelist'[k][u] = IF k = h /\ u = o THEN t ELSE freelist[k][u]
    BY <2>2, EntrySet DEF RegionsOK
  <2>4. \A i \in 1 .. Len(t) : Aligned(h, o, t[i])
    BY <1>3, <2>1
  <2>5. ListsFit(freelist', watermark')
    <3> SUFFICES ASSUME NEW k \in Heaps, NEW u \in OrdersOf(k)
                 PROVE  /\ Aligned(k, u, watermark'[k][u]) /\ watermark'[k][u] <= RegionTop(k, u)
                        /\ \A i \in 1 .. Len(freelist'[k][u]) : Aligned(k, u, freelist'[k][u][i])
      BY DEF ListsFit
    <3>1. CASE k = h /\ u = o
      <4>1. freelist'[k][u] = t
        BY <2>3, <3>1
      <4> QED BY <2>2, <2>4, <3>1, <4>1 DEF ListsFit
    <3>2. CASE ~(k = h /\ u = o)
      <4>1. freelist'[k][u] = freelist[k][u]
        BY <2>3, <3>2
      <4> QED BY <2>2, <4>1 DEF ListsFit
    <3> QED BY <3>1, <3>2
  <2>6. Fits(h, p, n)
    BY <1>3, <2>1 DEF Fits
  <2> QED BY <2>5, <2>6
<1>5. CASE s = <<>> /\ v < RegionTop(h, o)
  <2>1. p = v
    BY <1>1, <1>2, <1>5 DEF Next_block
  <2>2. PICK a : a = v + ClassBytes(h, o)
    OBVIOUS
  <2>3. watermark' = SetEntry(watermark, h, o, a) /\ freelist' = freelist
    BY <1>1, <1>2, <1>5, <2>2 DEF Take_block, SetEntry
  <2>4. \A k \in Heaps : \A u \in OrdersOf(k) :
          watermark'[k][u] = IF k = h /\ u = o THEN a ELSE watermark[k][u]
    BY <2>3, EntrySet DEF RegionsOK
  <2>5. Aligned(h, o, a) /\ a <= RegionTop(h, o)
    <3>1. RegionTop(h, o) \in Int
      BY RegionBounds, HeapAssumption
    <3> QED BY <1>3, <1>5, <2>2, <3>1, ClassDivides, RoomBetween
  <2>6. ListsFit(freelist', watermark')
    BY <2>3, <2>4, <2>5 DEF ListsFit
  <2>7. Fits(h, p, n)
    BY <1>2, <1>3, <1>5, <2>1 DEF Fits, InRegion
  <2> QED BY <2>6, <2>7
<1>6. CASE s = <<>> /\ ~(v < RegionTop(h, o))
  <2>1. p = 0
    BY <1>1, <1>2, <1>6 DEF Next_block
  <2>2. watermark' = SetEntry(watermark, h, o, watermark[h][o]) /\ freelist' = freelist
    BY <1>1, <1>2, <1>6 DEF Take_block, SetEntry
  <2>3. \A k \in Heaps : \A u \in OrdersOf(k) :
          watermark'[k][u] = IF k = h /\ u = o THEN watermark[h][o] ELSE watermark[k][u]
    <3>1. ByRegion(watermark)
      BY DEF RegionsOK
    <3> QED BY <2>2, <3>1, EntrySet
  <2>4. ListsFit(freelist', watermark')
    BY <1>2, <2>2, <2>3 DEF ListsFit
  <2> QED BY <2>1, <2>4
<1> QED BY <1>4, <1>5, <1>6

(* A block that is freed fits into its list. *)
LEMMA FreeFits ==
  ASSUME RegionsOK(freelist, watermark), ListsFit(freelist, watermark),
         NEW p, NEW n, Fits("mem", p, n), NEW o, o = order_of_pointer("mem", p),
         NEW g, g = SetEntry(freelist, "mem", o, <<p>> \o freelist["mem"][o])
  PROVE  ListsFit(g, watermark)
<1>0. "mem" \in Heaps
  BY DEF Heaps
<1>1. PICK u \in OrdersOf("mem") : InRegion("mem", u, p) /\ Aligned("mem", u, p)
  BY DEF Fits
<1>2. o = u /\ o \in OrdersOf("mem") /\ Aligned("mem", o, p) /\ p \in Int
  BY <1>0, <1>1, OrderOfPointer DEF InRegion
<1>3. PICK s : s = freelist["mem"][o]
  OBVIOUS
<1>4. PICK t : t = <<p>> \o s
  OBVIOUS
<1>5. s \in Seq(Int) /\ \A i \in 1 .. Len(s) : Aligned("mem", o, s[i])
  BY <1>0, <1>2, <1>3 DEF RegionsOK, RegionOK, ListsFit
<1>6. /\ t[1] = p
      /\ \A i \in 1 .. Len(t) : i = 1 \/ (i - 1 \in 1 .. Len(s) /\ t[i] = s[i - 1])
  BY <1>2, <1>4, <1>5, Pushed
<1>7. \A i \in 1 .. Len(t) : Aligned("mem", o, t[i])
  BY <1>2, <1>5, <1>6
<1>8. \A k \in Heaps : \A v \in OrdersOf(k) :
        g[k][v] = IF k = "mem" /\ v = o THEN t ELSE freelist[k][v]
  <2>1. ByRegion(freelist) /\ g = SetEntry(freelist, "mem", o, t)
    BY <1>3, <1>4 DEF RegionsOK
  <2> QED BY <1>0, <1>2, <2>1, EntrySet
<1> SUFFICES ASSUME NEW k \in Heaps, NEW v \in OrdersOf(k)
             PROVE  \A i \in 1 .. Len(g[k][v]) : Aligned(k, v, g[k][v][i])
  BY DEF ListsFit
<1>9. CASE k = "mem" /\ v = o
  <2>1. g[k][v] = t
    BY <1>8, <1>9
  <2> QED BY <1>7, <1>9, <2>1
<1>10. CASE ~(k = "mem" /\ v = o)
  <2>1. g[k][v] = freelist[k][v]
    BY <1>8, <1>10
  <2> QED BY <2>1 DEF ListsFit
<1> QED BY <1>9, <1>10

(* mem_alloc and tdn_host_gc_alloc. *)
LEMMA AllocFits ==
  ASSUME NoWrap, HeapInv, FitInv, NEW h \in Heaps, NEW c \in Callers, NEW request \in AllocSizes,
         NEW v, NEW o, o = order_of_size(h, AtLeastMin(h, request)), ~TooLarge(h, AtLeastMin(h, request)),
         Take_block(h, o, AtLeastMin(h, request)), GiveTo(h, c, v, Next_block(h, o), request)
  PROVE  ListsFit(freelist', watermark') /\ \A b \in blocks' : Fits(b.heap, b.ptr, b.size)
<1> USE HeapAssumption
<1>1. PICK size : size = AtLeastMin(h, request)
  OBVIOUS
<1>2. SizeOK(size) /\ size \in Int /\ Pow2[MinShift[h]] <= size /\ request <= size
  BY <1>1, MinSize DEF SizeOK
<1>3. size <= Pow2[IntBits - 1]
  <2>1. IntBits - 1 \in Nat /\ MinShift[h] \in Nat /\ MinShift[h] <= IntBits - 1
    OBVIOUS
  <2>2. Pow2[MinShift[h]] <= Pow2[IntBits - 1]
    BY <2>1, PowOrder
  <2>3. request <= Pow2[IntBits - 1]
    BY DEF NoWrap
  <2> QED BY <1>1, <2>2, <2>3 DEF AtLeastMin
<1>4. o \in OrdersOf(h) /\ Pow2[AlignedShift(size)] = ClassBytes(h, o) /\ size <= ClassBytes(h, o)
  BY <1>1, <1>2, <1>3, ClassOfSize
<1>5. request \in Int /\ request <= ClassBytes(h, o)
  <2>1. request \in Int /\ ClassBytes(h, o) \in Int
    BY <1>4, ClassDivides
  <2> QED BY <1>2, <1>4, <2>1
<1>6. PICK p : p = Next_block(h, o)
  OBVIOUS
<1>7. ListsFit(freelist', watermark') /\ (p # 0 => Fits(h, p, request))
  <2>1. Take_block(h, o, size) /\ RegionsOK(freelist, watermark) /\ ListsFit(freelist, watermark)
    BY <1>1 DEF HeapInv, HeapOK, FitInv
  <2> QED BY <1>4, <1>5, <1>6, <2>1, TakeFits
<1>8. CASE p = 0
  <2>1. blocks' = blocks
    BY <1>6, <1>8 DEF GiveTo
  <2> QED BY <1>7, <2>1 DEF FitInv, HoldersFit
<1>9. CASE p # 0
  <2>1. PICK n : n = Block(h, p, request, c, v)
    OBVIOUS
  <2>2. blocks' = blocks \cup {n} /\ n.heap = h /\ n.ptr = p /\ n.size = request
    BY <1>6, <1>9, <2>1 DEF GiveTo, Block
  <2> QED BY <1>7, <1>9, <2>2 DEF FitInv, HoldersFit
<1> QED BY <1>8, <1>9

LEMMA FitStep ==
  ASSUME NoWrap, HeapInv, FitInv, NEW c \in Callers, HeapStep(c)
  PROVE  FitInv'
<1> USE HeapAssumption
<1>0. "mem" \in Heaps /\ "gc" \in Heaps
  BY DEF Heaps
<1>9. ~Moving(NoCall)
  BY DEF NoCall, Moving
<1>10. /\ call = [d \in Callers |-> call[d]] /\ call[c] \in CallRecords
       /\ RegionsOK(freelist, watermark) /\ ListsFit(freelist, watermark)
       /\ \A b \in blocks : Fits(b.heap, b.ptr, b.size)
       /\ \A d \in Callers : Moving(call[d]) => Fits("mem", call[d].new, call[d].size)
  BY DEF HeapInv, HeapOK, CallsOK, CallOK, FitInv, HoldersFit
<1>1. ASSUME NEW v \in NextVar(c), NEW size \in AllocSizes, mem_alloc(c, v, size) PROVE FitInv'
  <2>1. PICK o : o = order_of_size("mem", AtLeastMin("mem", size))
    OBVIOUS
  <2>2. /\ ~TooLarge("mem", AtLeastMin("mem", size)) /\ Take_block("mem", o, AtLeastMin("mem", size))
        /\ GiveTo("mem", c, v, Next_block("mem", o), size) /\ call' = call
    BY <1>1, <2>1 DEF mem_alloc
  <2>3. ListsFit(freelist', watermark') /\ \A b \in blocks' : Fits(b.heap, b.ptr, b.size)
    BY <1>0, <2>1, <2>2, AllocFits
  <2> QED BY <1>10, <2>2, <2>3 DEF FitInv, HoldersFit
<1>2. ASSUME NEW v \in NextVar(c), NEW size \in AllocSizes, tdn_host_gc_alloc(c, v, size) PROVE FitInv'
  <2>1. PICK o : o = order_of_size("gc", AtLeastMin("gc", size))
    OBVIOUS
  <2>2. /\ ~TooLarge("gc", AtLeastMin("gc", size)) /\ Take_block("gc", o, AtLeastMin("gc", size))
        /\ GiveTo("gc", c, v, Next_block("gc", o), size)
    BY <1>2, <2>1 DEF tdn_host_gc_alloc
  <2>3. ListsFit(freelist', watermark') /\ \A b \in blocks' : Fits(b.heap, b.ptr, b.size)
    BY <1>0, <2>1, <2>2, AllocFits
  <2>4. PICK a \in {"idle", "stopped"} : call' = [call EXCEPT ![c].at = a]
    BY <1>2 DEF tdn_host_gc_alloc
  <2>5. call'[c].at = a /\ \A d \in Callers : d # c => call'[d] = call[d]
    BY <1>10, <2>4 DEF CallRecords
  <2>6. \A d \in Callers : Moving(call'[d]) => call'[d] = call[d]
    BY <2>5 DEF Moving
  <2> QED BY <1>10, <2>3, <2>6 DEF FitInv, HoldersFit
<1>3. ASSUME NEW b \in blocks, mem_free(c, b) PROVE FitInv'
  <2>1. PICK o : o = order_of_pointer("mem", b.ptr)
    OBVIOUS
  <2>2. /\ freelist' = SetEntry(freelist, "mem", o, <<b.ptr>> \o freelist["mem"][o])
        /\ watermark' = watermark /\ blocks' = blocks \ {b} /\ call' = call /\ b.heap = "mem"
    BY <1>3, <2>1 DEF mem_free, Push, SetEntry, Owned
  <2>3. ListsFit(freelist', watermark')
    <3>1. Fits("mem", b.ptr, b.size)
      BY <1>10, <2>2
    <3> QED BY <1>10, <2>1, <2>2, <3>1, FreeFits
  <2> QED BY <1>10, <2>2, <2>3 DEF FitInv, HoldersFit
<1>4. ASSUME NEW b \in blocks, NEW size \in AllocSizes, realloc_in_place(c, b, size) PROVE FitInv'
  <2>1. PICK n : n = Block("mem", b.ptr, size, c, b.var)
    OBVIOUS
  <2>2. /\ blocks' = (blocks \ {b}) \cup {n} /\ b.heap = "mem"
        /\ freelist' = freelist /\ watermark' = watermark /\ call' = call
        /\ size <= ClassBytes("mem", order_of_pointer("mem", b.ptr))
    BY <1>4, <2>1 DEF realloc_in_place, regionVars, Owned, old_max_size
  <2>3. PICK o \in OrdersOf("mem") : InRegion("mem", o, b.ptr) /\ Aligned("mem", o, b.ptr)
    BY <1>10, <2>2 DEF Fits
  <2>4. order_of_pointer("mem", b.ptr) = o
    BY <1>0, <2>3, OrderOfPointer
  <2>5. Fits("mem", b.ptr, size)
    BY <2>2, <2>3, <2>4 DEF Fits
  <2>6. n.heap = "mem" /\ n.ptr = b.ptr /\ n.size = size
    BY <2>1 DEF Block
  <2> QED BY <1>10, <2>2, <2>5, <2>6 DEF FitInv, HoldersFit
<1>5. ASSUME NEW b \in blocks, NEW size \in AllocSizes, realloc_move(c, b, size) PROVE FitInv'
  <2>1. PICK o : o = order_of_size("mem", size)
    OBVIOUS
  <2>2. PICK p : p = Next_block("mem", o)
    OBVIOUS
  <2>3. /\ ~TooLarge("mem", size) /\ Take_block("mem", o, size) /\ blocks' = blocks
        /\ b.heap = "mem" /\ ~(size <= ClassBytes("mem", order_of_pointer("mem", b.ptr)))
    <3>1. size > old_max_size(b.ptr)
      BY <1>5 DEF realloc_move
    <3>2. size \in Int /\ old_max_size(b.ptr) \in Int
      <4>1. PICK u \in OrdersOf("mem") : InRegion("mem", u, b.ptr)
        BY <1>5, <1>10 DEF realloc_move, Owned, Fits
      <4>2. old_max_size(b.ptr) = ClassBytes("mem", u)
        BY <1>0, <4>1, OrderOfPointer DEF old_max_size
      <4> QED BY <1>0, <4>2, ClassDivides
    <3> QED BY <1>5, <2>1, <3>1, <3>2 DEF realloc_move, Owned, old_max_size
  <2>4. SizeOK(size) /\ size \in Int /\ size <= Pow2[IntBits - 1]
    BY <1>0, MinSize DEF SizeOK, NoWrap
  <2>5. Pow2[MinShift["mem"]] <= size
    <3>1. PICK u \in OrdersOf("mem") : InRegion("mem", u, b.ptr)
      BY <1>10, <2>3 DEF Fits
    <3>2. order_of_pointer("mem", b.ptr) = u
      BY <1>0, <3>1, OrderOfPointer
    <3>3. ClassBytes("mem", u) \in Int /\ Pow2[MinShift["mem"]] <= ClassBytes("mem", u)
      BY <1>0, ClassDivides
    <3>4. Pow2[MinShift["mem"]] \in Int
      BY <1>0, PowPositive
    <3> QED BY <2>3, <2>4, <3>2, <3>3, <3>4
  <2>6. o \in OrdersOf("mem") /\ Pow2[AlignedShift(size)] = ClassBytes("mem", o) /\ size <= ClassBytes("mem", o)
    BY <1>0, <2>1, <2>3, <2>4, <2>5, ClassOfSize
  <2>7. ListsFit(freelist', watermark') /\ (p # 0 => Fits("mem", p, size))
    BY <1>0, <1>10, <2>2, <2>3, <2>4, <2>6, TakeFits
  <2>8. \A d \in Callers : d # c => call'[d] = call[d]
    BY <1>5, <1>10 DEF realloc_move
  <2>9. Moving(call'[c]) => Fits("mem", call'[c].new, call'[c].size)
    <3>1. CASE p = 0
      <4>1. call'[c] = NoCall
        BY <1>5, <1>10, <2>1, <2>2, <3>1 DEF realloc_move
      <4> QED BY <1>9, <4>1
    <3>2. CASE p # 0
      <4>1. call'[c].new = p /\ call'[c].size = size
        BY <1>5, <1>10, <2>1, <2>2, <3>2 DEF realloc_move
      <4> QED BY <2>7, <3>2, <4>1
    <3> QED BY <3>1, <3>2
  <2> QED BY <1>10, <2>3, <2>7, <2>8, <2>9 DEF FitInv, HoldersFit
<1>6. ASSUME realloc_copy(c) PROVE FitInv'
  <2>1. freelist' = freelist /\ watermark' = watermark /\ blocks' = blocks /\ call[c].at = "copy"
    BY <1>6 DEF realloc_copy, regionVars
  <2>2. /\ call'[c].new = call[c].new /\ call'[c].size = call[c].size
        /\ \A d \in Callers : d # c => call'[d] = call[d]
    BY <1>6, <1>10 DEF realloc_copy, CallRecords
  <2>3. Moving(call[c])
    BY <2>1 DEF Moving
  <2> QED BY <1>10, <2>1, <2>2, <2>3 DEF FitInv, HoldersFit
<1>7. ASSUME NEW b \in blocks, realloc_free(c, b) PROVE FitInv'
  <2>1. PICK k : k = call[c]
    OBVIOUS
  <2>2. PICK n : n = Block("mem", k.new, k.size, c, b.var)
    OBVIOUS
  <2>3. PICK o : o = order_of_pointer("mem", k.old)
    OBVIOUS
  <2>4. /\ k.at = "free" /\ call' = [call EXCEPT ![c] = NoCall] /\ watermark' = watermark
        /\ freelist' = SetEntry(freelist, "mem", o, <<k.old>> \o freelist["mem"][o])
        /\ blocks' = (blocks \ {b}) \cup {n} /\ b.heap = "mem" /\ b.ptr = k.old
    BY <1>7, <2>1, <2>2, <2>3 DEF realloc_free, Push, SetEntry, Owned
  <2>5. Moving(k)
    BY <2>4 DEF Moving
  <2>7. ListsFit(freelist', watermark')
    <3>1. Fits("mem", k.old, b.size)
      BY <1>10, <2>4
    <3> QED BY <1>10, <2>3, <2>4, <3>1, FreeFits
  <2>8. Fits("mem", k.new, k.size) /\ n.heap = "mem" /\ n.ptr = k.new /\ n.size = k.size
    BY <1>10, <2>1, <2>2, <2>5 DEF Block
  <2>9. call'[c] = NoCall /\ \A d \in Callers : d # c => call'[d] = call[d]
    BY <1>10, <2>4
  <2>10. \A a \in blocks' : a = n \/ a \in blocks
    BY <2>4
  <2>11. \A a \in blocks' : Fits(a.heap, a.ptr, a.size)
    BY <1>10, <2>8, <2>10
  <2>12. \A d \in Callers : Moving(call'[d]) => Fits("mem", call'[d].new, call'[d].size)
    BY <1>9, <1>10, <2>9
  <2> QED BY <2>7, <2>11, <2>12 DEF FitInv, HoldersFit
<1>8. ASSUME small_stack_add(c) \/ small_stack_add_again(c) PROVE FitInv'
  <2>1. freelist' = freelist /\ watermark' = watermark /\ blocks' = blocks
    BY <1>8 DEF small_stack_add, small_stack_add_again, regionVars
  <2>2. ~Moving(call'[c]) /\ \A d \in Callers : d # c => call'[d] = call[d]
    <3>1. CASE small_stack_add(c)
      <4>1. call'[c].at = "stack" /\ \A d \in Callers : d # c => call'[d] = call[d]
        BY <1>10, <3>1 DEF small_stack_add, NoCall
      <4> QED BY <4>1 DEF Moving
    <3>2. CASE small_stack_add_again(c)
      <4>1. call'[c] = NoCall /\ \A d \in Callers : d # c => call'[d] = call[d]
        BY <1>10, <3>2 DEF small_stack_add_again
      <4> QED BY <1>9, <4>1
    <3> QED BY <1>8, <3>1, <3>2
  <2> QED BY <1>10, <2>1, <2>2 DEF FitInv, HoldersFit
<1> QED BY <1>1, <1>2, <1>3, <1>4, <1>5, <1>6, <1>7, <1>8 DEF HeapStep

LEMMA FitInit == HeapInit => FitInv
<1> SUFFICES ASSUME HeapInit PROVE FitInv
  OBVIOUS
<1>1. ASSUME NEW h \in Heaps, NEW o \in OrdersOf(h)
      PROVE  /\ Aligned(h, o, watermark[h][o]) /\ watermark[h][o] <= RegionTop(h, o)
             /\ Len(freelist[h][o]) = 0
  <2>1. watermark[h][o] = RegionBottom(h, o) /\ freelist[h][o] = <<>>
    BY DEF HeapInit
  <2>2. RegionBottom(h, o) <= RegionTop(h, o)
    BY RegionBounds, HeapAssumption
  <2> QED BY <2>1, <2>2, ClassDivides
<1>2. \A c \in Callers : ~Moving(call[c])
  BY DEF HeapInit, NoCall, Moving
<1>3. blocks = {}
  BY DEF HeapInit
<1> QED BY <1>1, <1>2, <1>3 DEF FitInv, ListsFit, HoldersFit

----------------------------------------------------------------------------
(* A block in use is all bytes of its class. *)
LEMMA FitsClass ==
  ASSUME NEW h \in Heaps, NEW p, NEW n, Fits(h, p, n)
  PROVE  LET s == ClassBytes(h, order_of_pointer(h, p)) IN s \in Nat \ {0} /\ Fits(h, p, s) /\ n <= s
<1>1. PICK o \in OrdersOf(h) : InRegion(h, o, p) /\ Aligned(h, o, p) /\ n <= ClassBytes(h, o)
  BY DEF Fits
<1>2. order_of_pointer(h, p) = o
  BY <1>1, OrderOfPointer
<1>3. ClassBytes(h, o) \in Nat \ {0}
  BY ClassDivides
<1>4. ClassBytes(h, o) <= ClassBytes(h, o)
  BY <1>3
<1> QED BY <1>1, <1>2, <1>3, <1>4 DEF Fits

(* Who has the block x: a caller, a mem_realloc or a free list. *)
OfBlock(x, b) == b \in blocks /\ x = Holding(<<"caller", b.owner, b.var>>, b.heap, b.ptr)
OfCall(x, c) == c \in Callers /\ Moving(call[c]) /\ x = Holding(<<"realloc", c>>, "mem", call[c].new)
OfList(x, h, o, i) ==
    /\ h \in Heaps /\ o \in OrdersOf(h) /\ i \in 1 .. Len(freelist[h][o])
    /\ x = Holding(<<"free", <<h, o>>, i>>, h, freelist[h][o][i])

LEMMA Holders ==
  ASSUME NEW x \in Holdings, RegionsOK(freelist, watermark)
  PROVE  (\E b : OfBlock(x, b)) \/ (\E c : OfCall(x, c)) \/ (\E h, o, i : OfList(x, h, o, i))
<1>1. CASE x \in {Holding(<<"caller", b.owner, b.var>>, b.heap, b.ptr) : b \in blocks}
  BY <1>1 DEF OfBlock
<1>2. CASE x \in {Holding(<<"realloc", c>>, "mem", call[c].new) : c \in {d \in Callers : Moving(call[d])}}
  BY <1>2 DEF OfCall
<1>3. CASE x \in UNION {{Holding(<<"free", z, i>>, z[1], freelist[z[1]][z[2]][i]) :
                            i \in DOMAIN freelist[z[1]][z[2]]} : z \in HeapRegions}
  <2>1. PICK z \in HeapRegions : \E i \in DOMAIN freelist[z[1]][z[2]] :
                                    x = Holding(<<"free", z, i>>, z[1], freelist[z[1]][z[2]][i])
    BY <1>3
  <2>2. PICK i \in DOMAIN freelist[z[1]][z[2]] : x = Holding(<<"free", z, i>>, z[1], freelist[z[1]][z[2]][i])
    BY <2>1
  <2>3. PICK h \in Heaps : \E o \in OrdersOf(h) : z = <<h, o>>
    BY DEF HeapRegions
  <2>6. PICK o \in OrdersOf(h) : z = <<h, o>>
    BY <2>3
  <2>4. freelist[h][o] \in Seq(Int) /\ z[1] = h /\ z[2] = o
    BY <2>6 DEF RegionsOK, RegionOK
  <2>5. i \in 1 .. Len(freelist[h][o])
    BY <2>2, <2>4, SMTT(60)
  <2> QED BY <2>2, <2>4, <2>5, <2>6 DEF OfList
<1> QED BY <1>1, <1>2, <1>3 DEF Holdings

(* What a holding is, in terms of its pointer. *)
LEMMA HoldingFits ==
  ASSUME NEW x \in Holdings, HeapInv, FitInv
  PROVE  x.first \in Int /\ x.bytes \in Nat \ {0} /\ \E h \in Heaps : Fits(h, x.first, x.bytes)
<1>0. RegionsOK(freelist, watermark)
  BY DEF HeapInv, HeapOK
<1>1. ASSUME NEW h \in Heaps, NEW p, NEW n, NEW who, Fits(h, p, n), x = Holding(who, h, p)
      PROVE  x.first \in Int /\ x.bytes \in Nat \ {0} /\ \E g \in Heaps : Fits(g, x.first, x.bytes)
  <2>1. x.first = p /\ x.bytes = ClassBytes(h, order_of_pointer(h, p))
    BY <1>1 DEF Holding
  <2>2. p \in Int
    BY <1>1 DEF Fits, InRegion
  <2> QED BY <1>1, <2>1, <2>2, FitsClass
<1>2. CASE \E b : OfBlock(x, b)
  <2>1. PICK b \in blocks : x = Holding(<<"caller", b.owner, b.var>>, b.heap, b.ptr)
    BY <1>2 DEF OfBlock
  <2>2. b.heap \in Heaps /\ Fits(b.heap, b.ptr, b.size)
    BY DEF HeapInv, HeapOK, BlocksOK, Blocks, FitInv, HoldersFit
  <2> QED BY <1>1, <2>1, <2>2
<1>3. CASE \E c : OfCall(x, c)
  <2>1. PICK c \in Callers : Moving(call[c]) /\ x = Holding(<<"realloc", c>>, "mem", call[c].new)
    BY <1>3 DEF OfCall
  <2>2. Fits("mem", call[c].new, call[c].size) /\ "mem" \in Heaps
    BY <2>1 DEF FitInv, HoldersFit, Heaps
  <2> QED BY <1>1, <2>1, <2>2
<1>4. CASE \E h, o, i : OfList(x, h, o, i)
  <2>1. PICK h, o, i : OfList(x, h, o, i)
    BY <1>4
  <2>2. h \in Heaps /\ o \in OrdersOf(h) /\ i \in 1 .. Len(freelist[h][o])
    BY <2>1 DEF OfList
  <2>3. InRegion(h, o, freelist[h][o][i]) /\ Aligned(h, o, freelist[h][o][i])
    BY <1>0, <2>2 DEF RegionsOK, RegionOK, Placed, FitInv, ListsFit
  <2>4. 0 <= ClassBytes(h, o)
    BY <2>2, ClassDivides
  <2>5. Fits(h, freelist[h][o][i], 0)
    BY <2>2, <2>3, <2>4 DEF Fits
  <2> QED BY <1>1, <2>1, <2>2, <2>5 DEF OfList
<1> QED BY <1>0, <1>2, <1>3, <1>4, Holders

(* Two holders never have the same pointer. *)
LEMMA HoldersDistinct ==
  ASSUME NEW x \in Holdings, NEW y \in Holdings, HeapInv, x.first = y.first
  PROVE  x = y
<1>0. RegionsOK(freelist, watermark)
  BY DEF HeapInv, HeapOK
<1>1. ASSUME NEW z, NEW b, OfBlock(z, b)
      PROVE  /\ b \in blocks /\ z = Holding(<<"caller", b.owner, b.var>>, b.heap, b.ptr)
             /\ z.first = b.ptr /\ ~IsFree(freelist, z.first)
  BY <1>1 DEF OfBlock, Holding, HeapInv, HeapOK, BlocksOK, Used
<1>2. ASSUME NEW z, NEW c, OfCall(z, c)
      PROVE  /\ c \in Callers /\ Moving(call[c]) /\ z = Holding(<<"realloc", c>>, "mem", call[c].new)
             /\ z.first = call[c].new /\ ~IsFree(freelist, z.first) /\ \A b \in blocks : b.ptr # z.first
  BY <1>2 DEF OfCall, Holding, HeapInv, HeapOK, CallsOK, CallOK, Used
<1>3. ASSUME NEW z, NEW h, NEW o, NEW i, OfList(z, h, o, i)
      PROVE  /\ h \in Heaps /\ o \in OrdersOf(h) /\ i \in 1 .. Len(freelist[h][o])
             /\ z = Holding(<<"free", <<h, o>>, i>>, h, freelist[h][o][i])
             /\ z.first = freelist[h][o][i] /\ IsFree(freelist, z.first) /\ InRegion(h, o, z.first)
  <2>1. /\ h \in Heaps /\ o \in OrdersOf(h) /\ i \in 1 .. Len(freelist[h][o])
        /\ z = Holding(<<"free", <<h, o>>, i>>, h, freelist[h][o][i])
    BY <1>3 DEF OfList
  <2>2. z.first = freelist[h][o][i]
    BY <2>1 DEF Holding
  <2>3. InRegion(h, o, freelist[h][o][i])
    BY <1>0, <2>1 DEF RegionsOK, RegionOK, Placed
  <2> QED BY <2>1, <2>2, <2>3 DEF IsFree
<1>7. (\E b : OfBlock(y, b)) \/ (\E c : OfCall(y, c)) \/ (\E h, o, i : OfList(y, h, o, i))
  BY <1>0, Holders
<1>4. CASE \E b : OfBlock(x, b)
  <2>1. PICK b : OfBlock(x, b)
    BY <1>4
  <2>6. b \in blocks /\ b.ptr = y.first /\ ~IsFree(freelist, y.first)
    BY <1>1, <2>1
  <2>7. ~(\E c : OfCall(y, c))
    BY <1>2, <2>6
  <2>8. ~(\E h, o, i : OfList(y, h, o, i))
    BY <1>3, <2>6
  <2>2. ~(\E c : OfCall(y, c)) /\ ~(\E h, o, i : OfList(y, h, o, i))
    BY <2>7, <2>8
  <2>3. PICK a : OfBlock(y, a)
    BY <1>7, <2>2
  <2>5. a \in blocks /\ b \in blocks /\ a.ptr = b.ptr
    BY <1>1, <2>1, <2>3
  <2>4. a = b
    BY <2>5 DEF HeapInv, HeapOK, BlocksOK
  <2> QED BY <2>1, <2>3, <2>4 DEF OfBlock
<1>5. CASE \E c : OfCall(x, c)
  <2>1. PICK c : OfCall(x, c)
    BY <1>5
  <2>2. ~(\E b : OfBlock(y, b)) /\ ~(\E h, o, i : OfList(y, h, o, i))
    BY <1>1, <1>2, <1>3, <2>1
  <2>3. PICK d : OfCall(y, d)
    BY <1>7, <2>2
  <2>4. c = d
    BY <1>2, <2>1, <2>3 DEF HeapInv, HeapOK, CallsOK
  <2> QED BY <2>1, <2>3, <2>4 DEF OfCall
<1>6. CASE \E h, o, i : OfList(x, h, o, i)
  <2>1. PICK h, o, i : OfList(x, h, o, i)
    BY <1>6
  <2>2. ~(\E b : OfBlock(y, b)) /\ ~(\E c : OfCall(y, c))
    BY <1>1, <1>2, <1>3, <2>1
  <2>3. PICK g, u, j : OfList(y, g, u, j)
    BY <1>7, <2>2
  <2>4. /\ h \in Heaps /\ o \in OrdersOf(h) /\ InRegion(h, o, x.first) /\ x.first = freelist[h][o][i]
        /\ g \in Heaps /\ u \in OrdersOf(g) /\ InRegion(g, u, x.first) /\ x.first = freelist[g][u][j]
        /\ i \in 1 .. Len(freelist[h][o]) /\ j \in 1 .. Len(freelist[g][u])
    <3>1. /\ h \in Heaps /\ o \in OrdersOf(h) /\ InRegion(h, o, x.first) /\ x.first = freelist[h][o][i]
          /\ i \in 1 .. Len(freelist[h][o])
      <4>1. /\ h \in Heaps /\ o \in OrdersOf(h) /\ i \in 1 .. Len(freelist[h][o])
            /\ x.first = freelist[h][o][i]
        BY <2>1 DEF OfList, Holding
      <4> QED BY <1>0, <4>1 DEF RegionsOK, RegionOK, Placed
    <3>2. /\ g \in Heaps /\ u \in OrdersOf(g) /\ InRegion(g, u, y.first) /\ y.first = freelist[g][u][j]
          /\ j \in 1 .. Len(freelist[g][u])
      <4>1. /\ g \in Heaps /\ u \in OrdersOf(g) /\ j \in 1 .. Len(freelist[g][u])
            /\ y.first = freelist[g][u][j]
        BY <2>3 DEF OfList, Holding
      <4> QED BY <1>0, <4>1 DEF RegionsOK, RegionOK, Placed
    <3> QED BY <3>1, <3>2
  <2>5. h = g /\ o = u
    BY <2>4, OneRegion
  <2>6. RegionOK(freelist, watermark, h, o)
    BY <1>0, <2>4 DEF RegionsOK
  <2>7. i = j
    BY <2>4, <2>5, <2>6 DEF RegionOK
  <2> QED BY <2>1, <2>3, <2>5, <2>7 DEF OfList
<1> QED BY <1>0, <1>4, <1>5, <1>6, Holders

LEMMA HoldingsApart ==
  ASSUME HeapInv, FitInv, NEW x \in Holdings, NEW y \in Holdings, x # y
  PROVE  ~Overlap(x, y)
<1>1. PICK h \in Heaps : x.first \in Int /\ x.bytes \in Int /\ Fits(h, x.first, x.bytes)
  BY HoldingFits
<1>2. PICK g \in Heaps : y.first \in Int /\ y.bytes \in Int /\ Fits(g, y.first, y.bytes)
  BY HoldingFits
<1>3. x.first # y.first
  BY HoldersDistinct
<1>4. CASE x.first < y.first
  <2>1. x.first + x.bytes <= y.first
    BY <1>1, <1>2, <1>4, FitApart
  <2> QED BY <1>1, <1>2, <2>1 DEF Overlap
<1>5. CASE y.first < x.first
  <2>1. y.first + y.bytes <= x.first
    BY <1>1, <1>2, <1>5, FitApart
  <2> QED BY <1>1, <1>2, <2>1 DEF Overlap
<1> QED BY <1>1, <1>2, <1>3, <1>4, <1>5

LEMMA FitHandedOut ==
  ASSUME HeapInv, FitInv
  PROVE  HandedOutOnce
<1>0. RegionsOK(freelist, watermark)
  BY DEF HeapInv, HeapOK
<1>1. InRegions
  <2> SUFFICES ASSUME NEW h \in Heaps, NEW o \in OrdersOf(h)
               PROVE  /\ watermark[h][o] \in RegionBottom(h, o) .. RegionTop(h, o)
                      /\ \A i \in DOMAIN freelist[h][o] :
                           /\ freelist[h][o][i] \in RegionBottom(h, o) .. watermark[h][o] - 1
                           /\ (freelist[h][o][i] - RegionBottom(h, o)) % ClassBytes(h, o) = 0
    BY DEF InRegions
  <2>1. RegionOK(freelist, watermark, h, o) /\ RegionBottom(h, o) \in Int /\ RegionTop(h, o) \in Int
    BY <1>0, RegionBounds, HeapAssumption DEF RegionsOK
  <2>2. watermark[h][o] \in RegionBottom(h, o) .. RegionTop(h, o)
    BY <2>1 DEF RegionOK, FitInv, ListsFit
  <2>3. ASSUME NEW i \in DOMAIN freelist[h][o]
        PROVE  /\ freelist[h][o][i] \in RegionBottom(h, o) .. watermark[h][o] - 1
               /\ (freelist[h][o][i] - RegionBottom(h, o)) % ClassBytes(h, o) = 0
    <3>1. i \in 1 .. Len(freelist[h][o])
      BY <2>1, SMTT(60) DEF RegionOK
    <3>2. PICK p : p = freelist[h][o][i]
      OBVIOUS
    <3>3. Placed(watermark, h, o, p) /\ Aligned(h, o, p) /\ watermark[h][o] \in Int
      BY <2>1, <3>1, <3>2 DEF RegionOK, FitInv, ListsFit
    <3>4. p \in RegionBottom(h, o) .. watermark[h][o] - 1
      BY <2>1, <3>3 DEF Placed, InRegion
    <3>5. PICK d \in Int : d = p - RegionBottom(h, o)
      BY <2>1, <3>4
    <3>6. PICK s \in Nat \ {0} : s = ClassBytes(h, o)
      BY ClassDivides
    <3>7. Multiple(d, s)
      BY <3>3, <3>5, <3>6 DEF Aligned
    <3>8. d % s = 0
      BY <3>7, MultipleMod
    <3> QED BY <3>2, <3>4, <3>5, <3>6, <3>8
  <2> QED BY <2>2, <2>3
<1>2. \A b \in blocks : b.size <= ClassBytes(b.heap, order_of_pointer(b.heap, b.ptr))
  <2> SUFFICES ASSUME NEW b \in blocks
               PROVE  b.size <= ClassBytes(b.heap, order_of_pointer(b.heap, b.ptr))
    OBVIOUS
  <2>1. b.heap \in Heaps /\ Fits(b.heap, b.ptr, b.size)
    BY DEF HeapInv, HeapOK, BlocksOK, Blocks, FitInv, HoldersFit
  <2>2. PICK o \in OrdersOf(b.heap) : InRegion(b.heap, o, b.ptr) /\ b.size <= ClassBytes(b.heap, o)
    BY <2>1 DEF Fits
  <2> QED BY <2>1, <2>2, OrderOfPointer
<1>4. \A c, d \in Callers : c # d /\ stacks[c] # 0 => stacks[c] # stacks[d]
  BY DEF HeapInv, StacksOK
<1> QED BY <1>1, <1>2, <1>4, HoldingsApart DEF HandedOutOnce

(* As long as no class wraps, blocks stay aligned. *)
LEMMA FitInductive == NoWrap /\ HeapSpec => []FitInv
<1> SUFFICES ASSUME NoWrap PROVE HeapSpec => []FitInv
  OBVIOUS
<1>1. HeapInv /\ FitInv /\ [HeapNext]_heapVars => FitInv'
  <2> SUFFICES ASSUME HeapInv, FitInv, [HeapNext]_heapVars PROVE FitInv'
    OBVIOUS
  <2>1. CASE HeapNext
    BY <2>1, FitStep DEF HeapNext
  <2>2. CASE UNCHANGED heapVars
    BY <2>2 DEF heapVars, FitInv, HoldersFit
  <2> QED BY <2>1, <2>2
<1> QED BY <1>1, FitInit, HeapInductive, PTL DEF HeapSpec

(***************************************************************************)
(* As long as no request is so large that its power of two wraps around,   *)
(* no two holders share a byte of the heap or of the objects: callers, two *)
(* variables of the same caller, a mem_realloc under way and the free      *)
(* lists; and every core has its own small stack, whatever mem_alloc,      *)
(* mem_free, mem_realloc and small_stack_alloc of any number of threads    *)
(* interleave to.                                                          *)
(***************************************************************************)
THEOREM HeapHandsOutOnce == NoWrap /\ HeapSpec => []HandedOutOnce
<1>1. HeapInv /\ FitInv => HandedOutOnce
  BY FitHandedOut
<1> QED BY <1>1, FitInductive, HeapInductive, PTL

----------------------------------------------------------------------------
(***************************************************************************)
(* What the blocks contain.  The bytes of a block belong to no other; the  *)
(* copy of a mem_realloc fits into the new block, and once it is made the  *)
(* new block starts with what the owner wrote.                             *)
(***************************************************************************)
CopyFits == \A c \in Callers : Moving(call[c]) => old_max_size(call[c].old) <= call[c].size
CopyMade ==
    \A c \in Callers : call[c].at = "free" =>
        \A b \in blocks : b.owner = c /\ b.ptr = call[c].old =>
            \A i \in 0 .. b.size - 1 : content[call[c].new + i] = c

DataInv ==
    /\ DOMAIN content = BlockAddresses
    /\ CopyFits /\ CopyMade /\ DataIntact

(* The bytes of a block are addresses of its heap, and of no other block. *)
LEMMA FitBytes ==
  ASSUME NEW h \in Heaps, NEW p, NEW n \in Int, Fits(h, p, n)
  PROVE  p \in Int /\ Bytes(p, n) \subseteq BlockAddresses
<1>1. PICK o \in OrdersOf(h) : InRegion(h, o, p) /\ Aligned(h, o, p) /\ n <= ClassBytes(h, o)
  BY DEF Fits
<1>2. /\ p \in Int /\ RegionBottom(h, o) \in Int /\ RegionTop(h, o) \in Int
      /\ RegionBottom(h, o) <= p /\ p < RegionTop(h, o)
  BY <1>1, RegionBounds, HeapAssumption DEF InRegion
<1>3. ClassBytes(h, o) \in Int /\ p + ClassBytes(h, o) <= RegionTop(h, o)
  BY <1>1, <1>2, ClassDivides, RoomBetween
<1>4. ASSUME NEW a \in Bytes(p, n) PROVE a \in BlockAddresses
  <2>1. InRegion(h, o, a)
    BY <1>1, <1>2, <1>3 DEF Bytes, InRegion
  <2> QED BY <2>1, OrderOfPointer
<1> QED BY <1>2, <1>4

LEMMA BytesApart ==
  ASSUME NEW h \in Heaps, NEW g \in Heaps, NEW p, NEW q, NEW n \in Int, NEW m \in Int,
         Fits(h, p, n), Fits(g, q, m), p # q
  PROVE  \A a \in Bytes(p, n) : a \notin Bytes(q, m)
<1>1. p \in Int /\ q \in Int
  BY FitBytes
<1>2. CASE p < q
  <2>1. p + n <= q
    BY <1>2, FitApart
  <2> QED BY <1>1, <2>1 DEF Bytes
<1>3. CASE q < p
  <2>1. q + m <= p
    BY <1>3, FitApart
  <2> QED BY <1>1, <2>1 DEF Bytes
<1> QED BY <1>1, <1>2, <1>3

(* What the invariants say of the blocks and of the calls. *)
LEMMA HolderFacts ==
  ASSUME HeapInv, FitInv
  PROVE  /\ \A b \in blocks : /\ b.heap \in Heaps /\ b.owner \in Callers /\ b.size \in Nat
                              /\ Fits(b.heap, b.ptr, b.size)
         /\ \A a, b \in blocks : a.ptr = b.ptr => a = b
         /\ \A c \in Callers : Moving(call[c]) =>
              /\ call[c].size \in Nat /\ Fits("mem", call[c].new, call[c].size)
              /\ \A b \in blocks : b.ptr # call[c].new
              /\ \E b \in blocks : b.owner = c /\ b.heap = "mem" /\ b.ptr = call[c].old
         /\ \A c, d \in Callers : Moving(call[c]) /\ Moving(call[d]) /\ call[c].new = call[d].new => c = d
         /\ call = [c \in Callers |-> call[c]]
<1>1. AllocSizes \subseteq Nat
  BY HeapAssumption
<1> QED BY <1>1 DEF HeapInv, HeapOK, BlocksOK, Blocks, CallsOK, CallOK, FitInv, HoldersFit

(***************************************************************************)
(* Writing the bytes of one block, or of none that is in use, disturbs no  *)
(* other block and no copy that was made in another.                       *)
(***************************************************************************)
LEMMA OthersIntact ==
  ASSUME HeapInv, FitInv, DataInv, NEW h \in Heaps, NEW p, NEW n \in Int, Fits(h, p, n),
         NEW mem, DOMAIN mem = BlockAddresses,
         \A a \in BlockAddresses : a \notin Bytes(p, n) => mem[a] = content[a]
  PROVE  /\ \A b \in blocks : b.ptr # p => \A a \in Bytes(b.ptr, b.size) : mem[a] = b.owner
         /\ \A c \in Callers : call[c].at = "free" /\ call[c].new # p =>
              \A b \in blocks : b.owner = c /\ b.ptr = call[c].old =>
                \A i \in 0 .. b.size - 1 : mem[call[c].new + i] = c
<1>1. ASSUME NEW b \in blocks, b.ptr # p, NEW a \in Bytes(b.ptr, b.size)
      PROVE  mem[a] = b.owner
  <2>1. b.heap \in Heaps /\ b.size \in Int /\ Fits(b.heap, b.ptr, b.size)
    BY HolderFacts
  <2>2. a \in BlockAddresses /\ a \notin Bytes(p, n)
    BY <1>1, <2>1, FitBytes, BytesApart
  <2>3. content[a] = b.owner
    BY DEF DataInv, DataIntact
  <2> QED BY <2>2, <2>3
<1>2. ASSUME NEW c \in Callers, call[c].at = "free", call[c].new # p,
             NEW b \in blocks, b.owner = c, b.ptr = call[c].old, NEW i \in 0 .. b.size - 1
      PROVE  mem[call[c].new + i] = c
  <2> DEFINE k == call[c]
  <2>1. Moving(k) /\ "mem" \in Heaps
    BY <1>2 DEF Moving, Heaps
  <2>2. k.size \in Int /\ Fits("mem", k.new, k.size)
    BY <2>1, HolderFacts
  <2>3. b.heap = "mem" /\ b.size \in Int /\ Fits("mem", b.ptr, b.size)
    <3>1. PICK d \in blocks : d.heap = "mem" /\ d.ptr = k.old
      BY <2>1, HolderFacts
    <3>2. d = b
      BY <1>2, <3>1, HolderFacts
    <3> QED BY <3>1, <3>2, HolderFacts
  <2>4. old_max_size(b.ptr) \in Int /\ b.size <= old_max_size(b.ptr)
    BY <2>1, <2>3, FitsClass DEF old_max_size
  <2>5. old_max_size(b.ptr) <= k.size
    BY <1>2, <2>1 DEF DataInv, CopyFits
  <2>6. k.new \in Int
    BY <2>1, <2>2, FitBytes
  <2>7. k.new + i \in Bytes(k.new, k.size)
    BY <2>2, <2>3, <2>4, <2>5, <2>6 DEF Bytes
  <2>8. k.new + i \in BlockAddresses /\ k.new + i \notin Bytes(p, n)
    BY <1>2, <2>1, <2>2, <2>7, FitBytes, BytesApart
  <2>9. content[k.new + i] = c
    BY <1>2 DEF DataInv, CopyMade
  <2> QED BY <2>8, <2>9
<1> QED BY <1>1, <1>2

(* What writing makes of memory. *)
LEMMA WrittenIs ==
  ASSUME NEW mem, DOMAIN mem = BlockAddresses, NEW p, NEW n, NEW x
  PROVE  /\ DOMAIN Written(mem, p, n, x) = BlockAddresses
         /\ \A a \in BlockAddresses : a \in Bytes(p, n) => Written(mem, p, n, x)[a] = x
         /\ \A a \in BlockAddresses : a \notin Bytes(p, n) => Written(mem, p, n, x)[a] = mem[a]
BY DEF Written

(* mem_alloc and tdn_host_gc_alloc. *)
LEMMA AllocData ==
  ASSUME NoWrap, HeapInv, FitInv, DataInv, NEW h \in Heaps, NEW c \in Callers, NEW request \in AllocSizes,
         NEW v, NEW o, o = order_of_size(h, AtLeastMin(h, request)), ~TooLarge(h, AtLeastMin(h, request)),
         Take_block(h, o, AtLeastMin(h, request)), GiveTo(h, c, v, Next_block(h, o), request),
         \A d \in Callers : Moving(call[d]) \/ Moving(call'[d]) => call'[d] = call[d]
  PROVE  DataInv'
<1>1. SizeOK(AtLeastMin(h, request)) /\ o \in OrdersOf(h)
  BY MinSize, OrderOfSize
<1>2. PICK p : p = Next_block(h, o)
  OBVIOUS
<1>3. Took(freelist, watermark, freelist', watermark', h, o, p)
  BY <1>1, <1>2, Taken DEF HeapInv, HeapOK
<1>4. CopyFits'
  BY DEF DataInv, CopyFits, old_max_size
<1>5. CASE p = 0
  <2>1. blocks' = blocks /\ content' = content
    BY <1>2, <1>5 DEF GiveTo
  <2>2. CopyMade'
    <3>1. \A d \in Callers : call'[d].at = "free" => call'[d] = call[d]
      BY DEF Moving
    <3> QED BY <2>1, <3>1 DEF DataInv, CopyMade
  <2> QED BY <1>4, <2>1, <2>2 DEF DataInv, DataIntact
<1>6. CASE p # 0
  <2>1. PICK n : n = Block(h, p, request, c, v)
    OBVIOUS
  <2>2. /\ blocks' = blocks \cup {n} /\ content' = Written(content, p, request, c)
        /\ n.ptr = p /\ n.size = request /\ n.owner = c /\ n.heap = h
    BY <1>2, <1>6, <2>1 DEF GiveTo, Block
  <2>3. Fits(h, p, request) /\ request \in Int
    <3>1. Fits(n.heap, n.ptr, n.size)
      BY <2>2, AllocFits
    <3> QED BY <2>2, <3>1, HeapAssumption
  <2>4. \A k \in Heaps : \A x : Used(freelist, watermark, k, x) => x # p
    BY <1>1, <1>3, <1>6, UsedThen DEF HeapInv, HeapOK
  <2>5. \A b \in blocks : b.ptr # p
    BY <2>4 DEF HeapInv, HeapOK, BlocksOK, Blocks
  <2>6. \A d \in Callers : Moving(call[d]) => call[d].new # p /\ call[d].old # p
    <3>1. ASSUME NEW d \in Callers, Moving(call[d]) PROVE call[d].new # p
      BY <2>4, <3>1 DEF HeapInv, HeapOK, CallsOK, CallOK, Heaps
    <3>2. ASSUME NEW d \in Callers, Moving(call[d]) PROVE call[d].old # p
      <4>1. PICK b \in blocks : b.ptr = call[d].old
        BY <3>2, HolderFacts
      <4> QED BY <2>5, <4>1
    <3> QED BY <3>1, <3>2
  <2>7. /\ DOMAIN content' = BlockAddresses
        /\ \A a \in BlockAddresses : a \in Bytes(p, request) => content'[a] = c
        /\ \A a \in BlockAddresses : a \notin Bytes(p, request) => content'[a] = content[a]
    BY <2>2, WrittenIs DEF DataInv
  <2>8. /\ \A b \in blocks : b.ptr # p => \A a \in Bytes(b.ptr, b.size) : content'[a] = b.owner
        /\ \A d \in Callers : call[d].at = "free" /\ call[d].new # p =>
              \A b \in blocks : b.owner = d /\ b.ptr = call[d].old =>
                \A i \in 0 .. b.size - 1 : content'[call[d].new + i] = d
    BY <2>3, <2>7, OthersIntact
  <2>9. DataIntact'
    <3>1. ASSUME NEW b \in blocks', NEW a \in Bytes(b.ptr, b.size) PROVE content'[a] = b.owner
      <4>1. CASE b \in blocks
        BY <2>5, <2>8, <3>1, <4>1
      <4>2. CASE b = n
        <5>1. a \in Bytes(p, request) /\ a \in BlockAddresses
          BY <2>2, <2>3, <3>1, <4>2, FitBytes
        <5> QED BY <2>2, <2>7, <4>2, <5>1
      <4> QED BY <2>2, <3>1, <4>1, <4>2
    <3> QED BY <3>1 DEF DataIntact
  <2>10. CopyMade'
    <3>1. ASSUME NEW d \in Callers, call'[d].at = "free", NEW b \in blocks', b.owner = d, b.ptr = call'[d].old,
                 NEW i \in 0 .. b.size - 1
          PROVE  content'[call'[d].new + i] = d
      <4>1. Moving(call'[d])
        BY <3>1 DEF Moving
      <4>2. call'[d] = call[d] /\ Moving(call[d])
        BY <4>1
      <4>3. b # n
        BY <2>2, <2>6, <3>1, <4>2
      <4> QED BY <2>2, <2>6, <2>8, <3>1, <4>2, <4>3
    <3> QED BY <3>1 DEF CopyMade
  <2> QED BY <1>4, <2>7, <2>9, <2>10 DEF DataInv
<1> QED BY <1>5, <1>6

LEMMA DataStep ==
  ASSUME NoWrap, HeapInv, FitInv, DataInv, NEW c \in Callers, HeapStep(c)
  PROVE  DataInv'
<1> USE HeapAssumption
<1>0. "mem" \in Heaps /\ "gc" \in Heaps /\ DOMAIN content = BlockAddresses
  BY DEF Heaps, DataInv
<1>9. ~Moving(NoCall) /\ NoCall.at # "free"
  BY DEF NoCall, Moving
<1>10. call = [d \in Callers |-> call[d]] /\ call[c] \in CallRecords
  BY DEF HeapInv, HeapOK, CallsOK, CallOK
<1>11. LinkBytes \in Int /\ \A b \in blocks : b.heap = "mem" => Fits("mem", b.ptr, LinkBytes)
  <2>1. LinkBytes \in Int
    BY <1>0, PowPositive DEF LinkBytes
  <2>2. ASSUME NEW b \in blocks, b.heap = "mem" PROVE Fits("mem", b.ptr, LinkBytes)
    <3>1. PICK o \in OrdersOf("mem") : InRegion("mem", o, b.ptr) /\ Aligned("mem", o, b.ptr)
      BY <2>2, HolderFacts DEF Fits
    <3>2. LinkBytes <= ClassBytes("mem", o)
      BY <1>0, ClassDivides DEF LinkBytes
    <3> QED BY <3>1, <3>2 DEF Fits
  <2> QED BY <2>1, <2>2
<1>1. ASSUME NEW v \in NextVar(c), NEW size \in AllocSizes, mem_alloc(c, v, size) PROVE DataInv'
  <2>1. PICK o : o = order_of_size("mem", AtLeastMin("mem", size))
    OBVIOUS
  <2>2. /\ ~TooLarge("mem", AtLeastMin("mem", size)) /\ Take_block("mem", o, AtLeastMin("mem", size))
        /\ GiveTo("mem", c, v, Next_block("mem", o), size) /\ call' = call
    BY <1>1, <2>1 DEF mem_alloc
  <2>3. \A d \in Callers : Moving(call[d]) \/ Moving(call'[d]) => call'[d] = call[d]
    BY <2>2
  <2> QED BY <1>0, <2>1, <2>2, <2>3, AllocData
<1>2. ASSUME NEW v \in NextVar(c), NEW size \in AllocSizes, tdn_host_gc_alloc(c, v, size) PROVE DataInv'
  <2>1. PICK o : o = order_of_size("gc", AtLeastMin("gc", size))
    OBVIOUS
  <2>2. /\ ~TooLarge("gc", AtLeastMin("gc", size)) /\ Take_block("gc", o, AtLeastMin("gc", size))
        /\ GiveTo("gc", c, v, Next_block("gc", o), size) /\ Free(c)
    BY <1>2, <2>1 DEF tdn_host_gc_alloc
  <2>3. PICK a \in {"idle", "stopped"} : call' = [call EXCEPT ![c].at = a]
    BY <1>2 DEF tdn_host_gc_alloc
  <2>4. call'[c].at = a /\ \A d \in Callers : d # c => call'[d] = call[d]
    BY <1>10, <2>3 DEF CallRecords
  <2>5. \A d \in Callers : Moving(call[d]) \/ Moving(call'[d]) => call'[d] = call[d]
    BY <2>2, <2>4, IdleNotMoving DEF Moving
  <2> QED BY <1>0, <2>1, <2>2, <2>5, AllocData
<1>3. ASSUME NEW b \in blocks, mem_free(c, b) PROVE DataInv'
  <2>1. /\ b.heap = "mem" /\ blocks' = blocks \ {b} /\ call' = call
        /\ content' = Written(content, b.ptr, LinkBytes, 0)
    BY <1>3 DEF mem_free, Owned, LinkStored
  <2>2. /\ DOMAIN content' = BlockAddresses
        /\ \A a \in BlockAddresses : a \notin Bytes(b.ptr, LinkBytes) => content'[a] = content[a]
    BY <1>0, <2>1, WrittenIs
  <2>3. /\ \A d \in blocks : d.ptr # b.ptr => \A a \in Bytes(d.ptr, d.size) : content'[a] = d.owner
        /\ \A e \in Callers : call[e].at = "free" /\ call[e].new # b.ptr =>
              \A d \in blocks : d.owner = e /\ d.ptr = call[e].old =>
                \A i \in 0 .. d.size - 1 : content'[call[e].new + i] = e
    BY <1>0, <1>11, <2>1, <2>2, OthersIntact
  <2>4. DataIntact'
    <3>1. \A d \in blocks' : d \in blocks /\ d.ptr # b.ptr
      BY <2>1, HolderFacts
    <3> QED BY <2>3, <3>1 DEF DataIntact
  <2>5. CopyMade'
    <3>1. \A e \in Callers : call[e].at = "free" => call[e].new # b.ptr
      BY HolderFacts DEF Moving
    <3> QED BY <2>1, <2>3, <3>1 DEF CopyMade
  <2>6. CopyFits'
    BY <2>1 DEF DataInv, CopyFits, old_max_size
  <2> QED BY <2>2, <2>4, <2>5, <2>6 DEF DataInv
<1>4. ASSUME NEW b \in blocks, NEW size \in AllocSizes, realloc_in_place(c, b, size) PROVE DataInv'
  <2>1. PICK n : n = Block("mem", b.ptr, size, c, b.var)
    OBVIOUS
  <2>2. /\ b.heap = "mem" /\ b.owner = c /\ Free(c) /\ blocks' = (blocks \ {b}) \cup {n} /\ call' = call
        /\ content' = Written(content, b.ptr + b.size, size - b.size, c)
        /\ n.ptr = b.ptr /\ n.size = size /\ n.owner = c
    BY <1>4, <2>1 DEF realloc_in_place, Owned, Block
  <2>3. size \in Int /\ b.size \in Int /\ Fits("mem", b.ptr, size) /\ b.ptr \in Int
    <3>1. PICK o \in OrdersOf("mem") : InRegion("mem", o, b.ptr) /\ Aligned("mem", o, b.ptr)
      BY <2>2, HolderFacts DEF Fits
    <3>2. order_of_pointer("mem", b.ptr) = o
      BY <1>0, <3>1, OrderOfPointer
    <3>3. size <= ClassBytes("mem", o)
      BY <1>4, <3>2 DEF realloc_in_place, old_max_size
    <3> QED BY <3>1, <3>3, HolderFacts DEF Fits, InRegion
  <2>4. /\ DOMAIN content' = BlockAddresses
        /\ \A a \in BlockAddresses : a \in Bytes(b.ptr + b.size, size - b.size) => content'[a] = c
        /\ \A a \in BlockAddresses : a \notin Bytes(b.ptr + b.size, size - b.size) => content'[a] = content[a]
    BY <1>0, <2>2, WrittenIs
  <2>5. \A a \in BlockAddresses : a \notin Bytes(b.ptr, size) => content'[a] = content[a]
    <3>1. \A a : a \in Bytes(b.ptr + b.size, size - b.size) => a \in Bytes(b.ptr, size)
      <4>1. b.size \in Nat
        BY HolderFacts
      <4> QED BY <2>3, <4>1 DEF Bytes
    <3> QED BY <2>4, <3>1
  <2>6. /\ \A d \in blocks : d.ptr # b.ptr => \A a \in Bytes(d.ptr, d.size) : content'[a] = d.owner
        /\ \A e \in Callers : call[e].at = "free" /\ call[e].new # b.ptr =>
              \A d \in blocks : d.owner = e /\ d.ptr = call[e].old =>
                \A i \in 0 .. d.size - 1 : content'[call[e].new + i] = e
    BY <1>0, <2>3, <2>4, <2>5, OthersIntact
  <2>7. DataIntact'
    <3>1. ASSUME NEW d \in blocks', NEW a \in Bytes(d.ptr, d.size) PROVE content'[a] = d.owner
      <4>1. CASE d = n
        <5>1. a \in Bytes(b.ptr, size) /\ a \in BlockAddresses
          BY <1>0, <2>2, <2>3, <3>1, <4>1, FitBytes
        <5>2. CASE a \in Bytes(b.ptr + b.size, size - b.size)
          BY <2>2, <2>4, <4>1, <5>1, <5>2
        <5>3. CASE a \notin Bytes(b.ptr + b.size, size - b.size)
          <6>1. a \in Bytes(b.ptr, b.size)
            BY <2>3, <5>1, <5>3 DEF Bytes
          <6>2. content[a] = c
            BY <2>2, <6>1 DEF DataInv, DataIntact
          <6> QED BY <2>2, <2>4, <4>1, <5>1, <5>3, <6>2
        <5> QED BY <5>2, <5>3
      <4>2. CASE d # n
        <5>1. d \in blocks /\ d.ptr # b.ptr
          BY <2>2, <3>1, <4>2, HolderFacts
        <5> QED BY <2>6, <3>1, <5>1
      <4> QED BY <4>1, <4>2
    <3> QED BY <3>1 DEF DataIntact
  <2>8. CopyMade'
    <3>1. ASSUME NEW e \in Callers, call'[e].at = "free", NEW d \in blocks', d.owner = e, d.ptr = call'[e].old,
                 NEW i \in 0 .. d.size - 1
          PROVE  content'[call'[e].new + i] = e
      <4>1. call[e] = call'[e] /\ Moving(call[e])
        BY <2>2, <3>1 DEF Moving
      <4>2. e # c
        BY <2>2, <4>1, IdleNotMoving
      <4>3. d \in blocks /\ call[e].new # b.ptr
        BY <2>2, <3>1, <4>1, <4>2, HolderFacts
      <4> QED BY <2>6, <3>1, <4>1, <4>3
    <3> QED BY <3>1 DEF CopyMade
  <2>9. CopyFits'
    BY <2>2 DEF DataInv, CopyFits, old_max_size
  <2> QED BY <2>4, <2>7, <2>8, <2>9 DEF DataInv
<1>5. ASSUME NEW b \in blocks, NEW size \in AllocSizes, realloc_move(c, b, size) PROVE DataInv'
  <2>1. /\ b.heap = "mem" /\ blocks' = blocks /\ content' = content /\ size > old_max_size(b.ptr)
    BY <1>5 DEF realloc_move, Owned
  <2>2. \A d \in Callers : d # c => call'[d] = call[d]
    BY <1>5, <1>10 DEF realloc_move
  <2>3. call'[c] = NoCall \/ (call'[c].at = "copy" /\ call'[c].old = b.ptr /\ call'[c].size = size)
    BY <1>5, <1>10 DEF realloc_move
  <2>4. CopyFits'
    <3>1. ASSUME Moving(call'[c]) PROVE old_max_size(call'[c].old) <= call'[c].size
      <4>1. call'[c].old = b.ptr /\ call'[c].size = size
        BY <1>9, <2>3, <3>1
      <4>2. old_max_size(b.ptr) \in Int /\ size \in Int
        BY <1>0, <2>1, HolderFacts, FitsClass DEF old_max_size
      <4> QED BY <2>1, <4>1, <4>2
    <3> QED BY <2>2, <3>1 DEF DataInv, CopyFits, old_max_size
  <2>5. CopyMade'
    <3>1. call'[c].at # "free"
      BY <1>9, <2>3
    <3> QED BY <2>1, <2>2, <3>1 DEF DataInv, CopyMade
  <2> QED BY <1>0, <2>1, <2>4, <2>5 DEF DataInv, DataIntact
<1>6. ASSUME realloc_copy(c) PROVE DataInv'
  <2>1. PICK k : k = call[c]
    OBVIOUS
  <2>2. PICK m : m = old_max_size(k.old)
    OBVIOUS
  <2>3. /\ k.at = "copy" /\ blocks' = blocks /\ content' = memcpy(content, k.new, k.old, m)
        /\ call' = [call EXCEPT ![c].at = "free"]
    BY <1>6, <2>1, <2>2 DEF realloc_copy
  <2>4. /\ call'[c].new = k.new /\ call'[c].old = k.old /\ call'[c].size = k.size
        /\ \A d \in Callers : d # c => call'[d] = call[d]
    BY <1>10, <2>1, <2>3 DEF CallRecords
  <2>5. Moving(k)
    BY <2>3 DEF Moving
  <2>6. PICK o \in blocks : o.owner = c /\ o.heap = "mem" /\ o.ptr = k.old
    BY <2>1, <2>5, HolderFacts
  <2>7. /\ m \in Int /\ o.size \in Int /\ o.size <= m /\ Fits("mem", k.new, k.size) /\ k.size \in Int
        /\ k.new \in Int /\ k.old \in Int /\ m <= k.size
    <3>1. Fits("mem", o.ptr, o.size) /\ o.size \in Int
      BY <2>6, HolderFacts
    <3>2. m \in Int /\ o.size <= m
      BY <1>0, <2>2, <2>6, <3>1, FitsClass DEF old_max_size
    <3>3. Fits("mem", k.new, k.size) /\ k.size \in Int
      BY <2>1, <2>5, HolderFacts
    <3>4. k.new \in Int /\ k.old \in Int
      BY <1>0, <2>6, <3>1, <3>3, FitBytes
    <3>5. m <= k.size
      BY <2>1, <2>2, <2>5 DEF DataInv, CopyFits
    <3> QED BY <3>1, <3>2, <3>3, <3>4, <3>5
  <2>8. /\ DOMAIN content' = BlockAddresses
        /\ \A a \in BlockAddresses : a \notin Bytes(k.new, m) => content'[a] = content[a]
        /\ \A a \in BlockAddresses : a \in Bytes(k.new, m) => content'[a] = content[a - k.new + k.old]
    BY <1>0, <2>3 DEF memcpy
  <2>9. \A a \in BlockAddresses : a \notin Bytes(k.new, k.size) => content'[a] = content[a]
    BY <2>7, <2>8 DEF Bytes
  <2>10. /\ \A d \in blocks : d.ptr # k.new => \A a \in Bytes(d.ptr, d.size) : content'[a] = d.owner
         /\ \A e \in Callers : call[e].at = "free" /\ call[e].new # k.new =>
              \A d \in blocks : d.owner = e /\ d.ptr = call[e].old =>
                \A i \in 0 .. d.size - 1 : content'[call[e].new + i] = e
    BY <1>0, <2>7, <2>8, <2>9, OthersIntact
  <2>11. DataIntact'
    <3>1. \A d \in blocks : d.ptr # k.new
      BY <2>1, <2>5, HolderFacts
    <3> QED BY <2>3, <2>10, <3>1 DEF DataIntact
  <2>12. CopyFits'
    <3>1. \A d \in Callers : Moving(call'[d]) => Moving(call[d])
      BY <2>1, <2>4, <2>5
    <3>2. \A d \in Callers : call'[d].old = call[d].old /\ call'[d].size = call[d].size
      BY <2>1, <2>4
    <3> QED BY <3>1, <3>2 DEF DataInv, CopyFits, old_max_size
  <2>13. CopyMade'
    <3>1. ASSUME NEW e \in Callers, call'[e].at = "free", NEW d \in blocks', d.owner = e, d.ptr = call'[e].old,
                 NEW i \in 0 .. d.size - 1
          PROVE  content'[call'[e].new + i] = e
      <4>1. CASE e = c
        <5>1. d = o
          BY <2>3, <2>4, <2>6, <3>1, <4>1, HolderFacts
        <5>2. k.new + i \in Bytes(k.new, m) /\ k.new + i \in Bytes(k.new, k.size)
          BY <2>7, <5>1 DEF Bytes
        <5>3. k.new + i \in BlockAddresses
          BY <1>0, <2>7, <5>2, FitBytes
        <5>4. content'[k.new + i] = content[(k.new + i) - k.new + k.old]
          BY <2>8, <5>2, <5>3
        <5>5. (k.new + i) - k.new + k.old = k.old + i
          BY <2>7
        <5>6. k.old + i \in Bytes(o.ptr, o.size)
          BY <2>6, <2>7, <5>1 DEF Bytes
        <5>7. content[k.old + i] = c
          BY <2>6, <5>6 DEF DataInv, DataIntact
        <5> QED BY <2>4, <4>1, <5>4, <5>5, <5>7
      <4>2. CASE e # c
        <5>1. call'[e] = call[e] /\ Moving(call[e])
          BY <2>4, <3>1, <4>2 DEF Moving
        <5>2. call[e].new # k.new
          BY <2>1, <2>5, <4>2, <5>1, HolderFacts
        <5>3. call[e].at = "free" /\ d \in blocks /\ d.owner = e /\ d.ptr = call[e].old
          BY <2>3, <3>1, <5>1
        <5>4. content'[call[e].new + i] = e
          BY <2>10, <3>1, <5>2, <5>3
        <5> QED BY <5>1, <5>4
      <4> QED BY <4>1, <4>2
    <3> QED BY <3>1 DEF CopyMade
  <2> QED BY <2>8, <2>11, <2>12, <2>13 DEF DataInv
<1>7. ASSUME NEW b \in blocks, realloc_free(c, b) PROVE DataInv'
  <2>1. PICK k : k = call[c]
    OBVIOUS
  <2>2. PICK n : n = Block("mem", k.new, k.size, c, b.var)
    OBVIOUS
  <2>3. PICK mem : mem = Written(content, k.old, LinkBytes, 0)
    OBVIOUS
  <2>4. /\ k.at = "free" /\ b.owner = c /\ b.heap = "mem" /\ b.ptr = k.old
        /\ blocks' = (blocks \ {b}) \cup {n} /\ call' = [call EXCEPT ![c] = NoCall]
        /\ content' = Written(mem, k.new + b.size, k.size - b.size, c)
        /\ n.ptr = k.new /\ n.size = k.size /\ n.owner = c
    BY <1>7, <2>1, <2>2, <2>3 DEF realloc_free, Owned, LinkStored, Block
  <2>5. call'[c] = NoCall /\ \A d \in Callers : d # c => call'[d] = call[d]
    BY <1>10, <2>4
  <2>6. Moving(k)
    BY <2>4 DEF Moving
  <2>7. /\ Fits("mem", k.new, k.size) /\ k.size \in Int /\ k.new \in Int /\ b.size \in Nat
        /\ Fits("mem", k.old, LinkBytes) /\ k.old # k.new
    <3>1. Fits("mem", k.new, k.size) /\ k.size \in Int /\ k.old # k.new
      BY <2>1, <2>4, <2>6, HolderFacts
    <3>2. k.new \in Int
      BY <1>0, <3>1, FitBytes
    <3> QED BY <1>11, <2>4, <3>1, <3>2, HolderFacts
  <2>8. /\ DOMAIN mem = BlockAddresses
        /\ \A a \in BlockAddresses : a \notin Bytes(k.old, LinkBytes) => mem[a] = content[a]
    BY <1>0, <2>3, WrittenIs
  <2>9. /\ DOMAIN content' = BlockAddresses
        /\ \A a \in BlockAddresses : a \in Bytes(k.new + b.size, k.size - b.size) => content'[a] = c
        /\ \A a \in BlockAddresses : a \notin Bytes(k.new + b.size, k.size - b.size) => content'[a] = mem[a]
    BY <2>4, <2>8, WrittenIs
  <2>10. \A a \in BlockAddresses : a \notin Bytes(k.new, k.size) => content'[a] = mem[a]
    <3>1. \A a : a \in Bytes(k.new + b.size, k.size - b.size) => a \in Bytes(k.new, k.size)
      BY <2>7 DEF Bytes
    <3> QED BY <2>9, <3>1
  <2>11. ASSUME NEW h \in Heaps, NEW p, NEW s \in Int, Fits(h, p, s), p # k.old, p # k.new,
                NEW a \in Bytes(p, s)
         PROVE  content'[a] = content[a]
    <3>1. a \in BlockAddresses /\ a \notin Bytes(k.old, LinkBytes) /\ a \notin Bytes(k.new, k.size)
      BY <1>0, <1>11, <2>7, <2>11, FitBytes, BytesApart
    <3> QED BY <2>8, <2>10, <3>1
  <2>12. DataIntact'
    <3>1. ASSUME NEW d \in blocks', NEW a \in Bytes(d.ptr, d.size) PROVE content'[a] = d.owner
      <4>1. CASE d = n
        <5>1. a \in Bytes(k.new, k.size) /\ a \in BlockAddresses
          BY <1>0, <2>4, <2>7, <3>1, <4>1, FitBytes
        <5>2. CASE a \in Bytes(k.new + b.size, k.size - b.size)
          BY <2>4, <2>9, <4>1, <5>1, <5>2
        <5>3. CASE a \notin Bytes(k.new + b.size, k.size - b.size)
          <6>1. PICK i \in 0 .. b.size - 1 : a = k.new + i
            <7>1. a - k.new \in 0 .. b.size - 1 /\ a = k.new + (a - k.new)
              BY <2>7, <5>1, <5>3 DEF Bytes
            <7> QED BY <7>1
          <6>2. content[a] = c
            BY <2>1, <2>4, <6>1 DEF DataInv, CopyMade
          <6>3. a \notin Bytes(k.old, LinkBytes)
            BY <1>0, <1>11, <2>7, <5>1, BytesApart
          <6> QED BY <2>4, <2>8, <2>9, <4>1, <5>1, <5>3, <6>2, <6>3
        <5> QED BY <5>2, <5>3
      <4>2. CASE d # n
        <5>1. d \in blocks /\ d.ptr # k.old /\ d.ptr # k.new
          BY <2>1, <2>4, <2>6, <3>1, <4>2, HolderFacts
        <5>2. content[a] = d.owner
          BY <3>1, <5>1 DEF DataInv, DataIntact
        <5>3. d.heap \in Heaps /\ d.size \in Int /\ Fits(d.heap, d.ptr, d.size)
          BY <5>1, HolderFacts
        <5> QED BY <2>11, <3>1, <5>1, <5>2, <5>3
      <4> QED BY <4>1, <4>2
    <3> QED BY <3>1 DEF DataIntact
  <2>13. CopyFits'
    BY <1>9, <2>5 DEF DataInv, CopyFits, old_max_size
  <2>14. CopyMade'
    <3>1. ASSUME NEW e \in Callers, call'[e].at = "free", NEW d \in blocks', d.owner = e, d.ptr = call'[e].old,
                 NEW i \in 0 .. d.size - 1
          PROVE  content'[call'[e].new + i] = e
      <4>1. e # c /\ call'[e] = call[e]
        BY <1>9, <2>5, <3>1
      <4>2. d \in blocks
        BY <2>4, <3>1, <4>1
      <4>3. Moving(call[e])
        BY <3>1, <4>1 DEF Moving
      <4>4. call[e].new # k.old /\ call[e].new # k.new
        BY <2>1, <2>4, <2>6, <4>1, <4>3, HolderFacts
      <4>5. /\ \A f \in blocks : f.ptr # k.old => \A a \in Bytes(f.ptr, f.size) : mem[a] = f.owner
            /\ \A g \in Callers : call[g].at = "free" /\ call[g].new # k.old =>
                  \A f \in blocks : f.owner = g /\ f.ptr = call[g].old =>
                    \A j \in 0 .. f.size - 1 : mem[call[g].new + j] = g
        BY <1>0, <1>11, <2>7, <2>8, OthersIntact
      <4>6. mem[call[e].new + i] = e
        BY <3>1, <4>1, <4>2, <4>4, <4>5
      <4>7. call[e].new + i \in Bytes(call[e].new, call[e].size)
        <5>1. Fits("mem", call[e].new, call[e].size) /\ call[e].size \in Int /\ call[e].new \in Int
          BY <1>0, <4>3, HolderFacts, FitBytes
        <5>2. PICK f \in blocks : f.heap = "mem" /\ f.ptr = call[e].old
          BY <4>3, HolderFacts
        <5>3. f = d
          BY <3>1, <4>1, <4>2, <5>2, HolderFacts
        <5>4. d.size \in Int /\ old_max_size(d.ptr) \in Int /\ d.size <= old_max_size(d.ptr)
          BY <1>0, <5>2, <5>3, HolderFacts, FitsClass DEF old_max_size
        <5>5. old_max_size(d.ptr) <= call[e].size
          BY <3>1, <4>1, <4>3 DEF DataInv, CopyFits
        <5> QED BY <5>1, <5>4, <5>5 DEF Bytes
      <4>8. /\ call[e].new + i \in BlockAddresses
            /\ call[e].new + i \notin Bytes(k.new, k.size)
        <5>1. Fits("mem", call[e].new, call[e].size) /\ call[e].size \in Int
          BY <4>3, HolderFacts
        <5> QED BY <1>0, <2>7, <4>4, <4>7, <5>1, FitBytes, BytesApart
      <4> QED BY <2>10, <4>1, <4>6, <4>8
    <3> QED BY <3>1 DEF CopyMade
  <2> QED BY <2>9, <2>12, <2>13, <2>14 DEF DataInv
<1>8. ASSUME small_stack_add(c) \/ small_stack_add_again(c) PROVE DataInv'
  <2>1. blocks' = blocks /\ content' = content
    BY <1>8 DEF small_stack_add, small_stack_add_again
  <2>2. /\ ~Moving(call'[c]) /\ call'[c].at # "free"
        /\ \A d \in Callers : d # c => call'[d] = call[d]
    <3>1. CASE small_stack_add(c)
      <4>1. call'[c].at = "stack" /\ \A d \in Callers : d # c => call'[d] = call[d]
        BY <1>10, <3>1 DEF small_stack_add, NoCall
      <4> QED BY <4>1 DEF Moving
    <3>2. CASE small_stack_add_again(c)
      <4>1. call'[c] = NoCall /\ \A d \in Callers : d # c => call'[d] = call[d]
        BY <1>10, <3>2 DEF small_stack_add_again
      <4> QED BY <1>9, <4>1
    <3> QED BY <1>8, <3>1, <3>2
  <2>3. CopyFits'
    BY <2>2 DEF DataInv, CopyFits, old_max_size
  <2>4. CopyMade'
    BY <2>1, <2>2 DEF DataInv, CopyMade
  <2> QED BY <1>0, <2>1, <2>3, <2>4 DEF DataInv, DataIntact
<1> QED BY <1>1, <1>2, <1>3, <1>4, <1>5, <1>6, <1>7, <1>8 DEF HeapStep

(***************************************************************************)
(* As long as no request is so large that its power of two wraps around, a *)
(* block of the heap holds, in every byte its owner asked for, what the    *)
(* owner wrote: across the copies of mem_realloc, the links of mem_free    *)
(* and what the owners of other blocks write.                              *)
(***************************************************************************)
THEOREM HeapKeepsData == NoWrap /\ HeapSpec => []DataIntact
<1> SUFFICES ASSUME NoWrap PROVE HeapSpec => []DataIntact
  OBVIOUS
<1>1. HeapInit => DataInv
  <2> SUFFICES ASSUME HeapInit PROVE DataInv
    OBVIOUS
  <2>1. DOMAIN content = BlockAddresses /\ blocks = {} /\ \A c \in Callers : call[c].at = "idle"
    BY DEF HeapInit, NoCall
  <2> QED BY <2>1 DEF DataInv, CopyFits, CopyMade, DataIntact, Moving
<1>2. HeapInv /\ FitInv /\ DataInv /\ [HeapNext]_heapVars => DataInv'
  <2> SUFFICES ASSUME HeapInv, FitInv, DataInv, [HeapNext]_heapVars PROVE DataInv'
    OBVIOUS
  <2>1. CASE HeapNext
    BY <2>1, DataStep DEF HeapNext
  <2>2. CASE UNCHANGED heapVars
    BY <2>2 DEF heapVars, DataInv, CopyFits, CopyMade, DataIntact, old_max_size
  <2> QED BY <2>1, <2>2
<1>3. DataInv => DataIntact
  BY DEF DataInv
<1>4. NoWrap /\ HeapSpec => []FitInv
  BY FitInductive
<1> QED BY <1>1, <1>2, <1>3, <1>4, HeapInductive, PTL DEF HeapSpec

----------------------------------------------------------------------------
(***************************************************************************)
(* Mappings.                                                               *)
(***************************************************************************)
AllSlots == 0 .. 2 * Slots
Offsets == 0 .. SlotPages - 1
Offset(v) == v % SlotPages
TopEntries == [present : BOOLEAN, table : Nat, w : BOOLEAN, nx : BOOLEAN]
PageEntries == [present : BOOLEAN, frame : Int, w : BOOLEAN, x : BOOLEAN]

(* Page tables: every top-level entry that is present has a table. *)
TablesOK(m) ==
    /\ m \in [pml4 : [AllSlots -> TopEntries], tables : Seq([Offsets -> PageEntries])]
    /\ \A s \in AllSlots : m.pml4[s].present => m.pml4[s].table \in 1 .. Len(m.tables)

(* Only a top-level entry and its copy share a table. *)
Twins(s, u) ==
    \/ s = u
    \/ u < Slots /\ s = u + Slots
    \/ s < Slots /\ u = s + Slots

Apart(m) ==
    \A s, u \in AllSlots :
        m.pml4[s].present /\ m.pml4[u].present /\ m.pml4[s].table = m.pml4[u].table
            => Twins(s, u)

(* The last-level entry behind a top-level one. *)
Low(m, s, i) == IF m.pml4[s].present THEN m.tables[m.pml4[s].table][i] ELSE NoPage

PageEntry(f, w, x) == [present |-> TRUE, frame |-> f, w |-> w, x |-> x]

----------------------------------------------------------------------------
(* Arithmetic of virtual pages. *)

(* A virtual page is an offset behind a top-level entry, and one only. *)
LEMMA PageNumbers ==
  ASSUME NEW v \in VirtPages
  PROVE  /\ v \in Nat /\ Slot(v) \in AllSlots /\ Offset(v) \in Offsets
         /\ v = Slot(v) * SlotPages + Offset(v)
<1> USE MappingsAssumption
<1>1. v \in Nat /\ v < (2 * Slots + 1) * SlotPages
  BY DEF VirtPages
<1>2. Offset(v) \in Offsets
  BY <1>1 DEF Offset, Offsets
<1>3. Slot(v) \in Nat
  BY <1>1 DEF Slot
<1>4. v = Slot(v) * SlotPages + Offset(v)
  BY <1>1, <1>2, <1>3, Division DEF Slot, Offset, Offsets
<1>5. Slot(v) < 2 * Slots + 1
  <2> DEFINE n == 2 * Slots + 1
  <2>1. n \in Nat /\ Slot(v) * SlotPages + Offset(v) < n * SlotPages
    BY <1>1, <1>4
  <2> HIDE DEF n
  <2>2. Slot(v) < n
    BY <1>2, <1>3, <2>1 DEF Offsets
  <2> QED BY <2>2 DEF n
<1>6. Slot(v) \in AllSlots
  BY <1>3, <1>5 DEF AllSlots
<1> QED BY <1>1, <1>2, <1>4, <1>6

(* The page at an offset behind a top-level entry. *)
LEMMA PageAt ==
  ASSUME NEW s \in AllSlots, NEW i \in Offsets
  PROVE  /\ s * SlotPages + i \in VirtPages
         /\ Slot(s * SlotPages + i) = s
         /\ Offset(s * SlotPages + i) = i
<1> USE MappingsAssumption
<1>1. s \in Nat /\ s <= 2 * Slots /\ i \in Nat /\ i < SlotPages /\ SlotPages \in Nat \ {0}
  BY DEF AllSlots, Offsets
<1>2. s * SlotPages \in Nat /\ s * SlotPages <= 2 * Slots * SlotPages
  BY <1>1
<1>3. (2 * Slots + 1) * SlotPages = 2 * Slots * SlotPages + SlotPages
  OBVIOUS
<1>4. s * SlotPages + i \in VirtPages
  BY <1>1, <1>2, <1>3 DEF VirtPages
<1>5. (s * SlotPages + i) \div SlotPages = s /\ (s * SlotPages + i) % SlotPages = i
  BY <1>1
<1> QED BY <1>4, <1>5 DEF Slot, Offset

(* A page and its shadow. *)
LEMMA ShadowPage ==
  ASSUME NEW v \in Shadowed
  PROVE  /\ v \in VirtPages /\ Slot(v) \in 0 .. Slots - 1
         /\ Shadow(v) \in VirtPages
         /\ Slot(Shadow(v)) = Slot(v) + Slots
         /\ Offset(Shadow(v)) = Offset(v)
<1> USE MappingsAssumption
<1>1. v \in Nat /\ v < Slots * SlotPages
  BY DEF Shadowed
<1>2. (2 * Slots + 1) * SlotPages = Slots * SlotPages + Slots * SlotPages + SlotPages
  OBVIOUS
<1>3. Slots * SlotPages \in Nat
  OBVIOUS
<1>4. v \in VirtPages
  BY <1>1, <1>2, <1>3 DEF VirtPages
<1>5. Slot(v) \in Nat /\ Offset(v) \in Offsets /\ v = Slot(v) * SlotPages + Offset(v)
  BY <1>4, PageNumbers DEF AllSlots
<1>6. Slot(v) < Slots
  BY <1>1, <1>5 DEF Offsets
<1>7. Slot(v) + Slots \in AllSlots
  BY <1>5, <1>6 DEF AllSlots
<1>8. Shadow(v) = (Slot(v) + Slots) * SlotPages + Offset(v)
  BY <1>5 DEF Shadow, Offsets
<1>9. /\ Shadow(v) \in VirtPages /\ Slot(Shadow(v)) = Slot(v) + Slots
      /\ Offset(Shadow(v)) = Offset(v)
  BY <1>5, <1>7, <1>8, PageAt
<1> QED BY <1>4, <1>5, <1>6, <1>9

----------------------------------------------------------------------------
(* Mapping pages.  n is m with an entry e for page v. *)
Maps(m, n, v, e) ==
    /\ TablesOK(n) /\ Apart(n)
    /\ \A s \in AllSlots : m.pml4[s].present => n.pml4[s] = m.pml4[s]
    /\ \A s \in AllSlots : n.pml4[s].present => m.pml4[s].present \/ s = Slot(v)
    /\ Low(n, Slot(v), Offset(v)) = e
    /\ \A s \in AllSlots, i \in Offsets :
         \/ Low(n, s, i) = Low(m, s, i)
         \/ Low(n, s, i) = e /\ i = Offset(v) /\ Twins(s, Slot(v))

(* get_next_level adds an empty table where there is none. *)
LEMMA NextLevel ==
  ASSUME NEW m, TablesOK(m), Apart(m), NEW s \in AllSlots
  PROVE  LET n == get_next_level(m, s) IN
         /\ TablesOK(n) /\ Apart(n)
         /\ n.pml4[s].present
         /\ \A u \in AllSlots : m.pml4[u].present \/ u # s => n.pml4[u] = m.pml4[u]
         /\ \A u \in AllSlots, i \in Offsets : Low(n, u, i) = Low(m, u, i)
<1> DEFINE n == get_next_level(m, s)
<1>1. CASE m.pml4[s].present
  BY <1>1 DEF get_next_level
<1>2. CASE ~m.pml4[s].present
  <2> DEFINE top == [present |-> TRUE, table |-> Len(m.tables) + 1, w |-> TRUE, nx |-> FALSE]
  <2>1. n = [pml4 |-> [m.pml4 EXCEPT ![s] = top], tables |-> Append(m.tables, EmptyTable)]
    BY <1>2 DEF get_next_level
  <2>2. n.pml4 = [m.pml4 EXCEPT ![s] = top] /\ n.tables = Append(m.tables, EmptyTable)
    BY <2>1
  <2> HIDE DEF n
  <2>3. m.pml4 \in [AllSlots -> TopEntries] /\ m.tables \in Seq([Offsets -> PageEntries])
    BY DEF TablesOK
  <2>4. n.pml4[s] = top /\ \A u \in AllSlots : u # s => n.pml4[u] = m.pml4[u]
    BY <2>2, <2>3
  <2>5. EmptyTable \in [Offsets -> PageEntries]
    BY DEF EmptyTable, Offsets, PageEntries, NoPage
  <2>6. top \in TopEntries
    BY <2>3 DEF TopEntries
  <2>7. /\ Len(n.tables) = Len(m.tables) + 1
        /\ n.tables \in Seq([Offsets -> PageEntries])
        /\ n.tables[Len(m.tables) + 1] = EmptyTable
        /\ \A k \in 1 .. Len(m.tables) : n.tables[k] = m.tables[k]
    BY <2>2, <2>3, <2>5
  <2>8. n.pml4 \in [AllSlots -> TopEntries]
    BY <2>2, <2>3, <2>6
  <2>9. n \in [pml4 : [AllSlots -> TopEntries], tables : Seq([Offsets -> PageEntries])]
    BY <2>1, <2>2, <2>7, <2>8
  <2>10. Len(m.tables) \in Nat
    BY <2>3
  <2>11. \A u \in AllSlots : n.pml4[u].present => n.pml4[u].table \in 1 .. Len(n.tables)
    BY <2>4, <2>7, <2>10 DEF TablesOK
  <2>12. \A u \in AllSlots, i \in Offsets : Low(n, u, i) = Low(m, u, i)
    <3> SUFFICES ASSUME NEW u \in AllSlots, NEW i \in Offsets
                 PROVE  Low(n, u, i) = Low(m, u, i)
      OBVIOUS
    <3>1. CASE u = s
      <4>1. n.pml4[s].present /\ n.pml4[s].table = Len(m.tables) + 1
        BY <2>4
      <4>2. EmptyTable[i] = NoPage
        BY DEF EmptyTable, Offsets
      <4>3. Low(n, s, i) = NoPage
        BY <2>7, <4>1, <4>2 DEF Low
      <4> QED BY <1>2, <3>1, <4>3 DEF Low
    <3>2. CASE u # s
      BY <2>4, <2>7, <3>2 DEF Low, TablesOK
    <3> QED BY <3>1, <3>2
  <2>13. Apart(n)
    <3> SUFFICES ASSUME NEW u1 \in AllSlots, NEW u2 \in AllSlots,
                        n.pml4[u1].present, n.pml4[u2].present,
                        n.pml4[u1].table = n.pml4[u2].table
                 PROVE  Twins(u1, u2)
      BY DEF Apart
    <3>1. CASE u1 = u2
      BY <3>1 DEF Twins
    <3>2. CASE u1 # s /\ u2 # s
      BY <2>4, <3>2 DEF Apart
    <3>3. ASSUME NEW u \in AllSlots, u # s, n.pml4[u].present PROVE n.pml4[u].table # top.table
      BY <2>4, <2>10, <3>3 DEF TablesOK
    <3> QED BY <2>4, <3>1, <3>2, <3>3
  <2>14. TablesOK(n)
    BY <2>9, <2>11 DEF TablesOK
  <2>15. n.pml4[s].present
    BY <2>4
  <2>16. \A u \in AllSlots : m.pml4[u].present \/ u # s => n.pml4[u] = m.pml4[u]
    BY <1>2, <2>4
  <2> QED BY <2>12, <2>13, <2>14, <2>15, <2>16 DEF n
<1> QED BY <1>1, <1>2

(* virt_map_page changes the entry of the page and of its shadow only. *)
LEMMA MapPage ==
  ASSUME NEW m, TablesOK(m), Apart(m), NEW v \in VirtPages,
         NEW f \in Int, NEW w \in BOOLEAN, NEW x \in BOOLEAN
  PROVE  Maps(m, virt_map_page(m, f, v, w, x), v, PageEntry(f, w, x))
<1> DEFINE n == get_next_level(m, Slot(v))
           e == PageEntry(f, w, x)
           t == n.pml4[Slot(v)].table
           p == virt_map_page(m, f, v, w, x)
<1>1. Slot(v) \in AllSlots /\ Offset(v) \in Offsets
  BY PageNumbers
<1>2. /\ TablesOK(n) /\ Apart(n)
      /\ n.pml4[Slot(v)].present
      /\ \A u \in AllSlots : m.pml4[u].present \/ u # Slot(v) => n.pml4[u] = m.pml4[u]
      /\ \A u \in AllSlots, i \in Offsets : Low(n, u, i) = Low(m, u, i)
  BY <1>1, NextLevel
<1>3. p = [n EXCEPT !.tables[t][Offset(v)] = e]
  BY DEF virt_map_page, PageEntry, Offset
<1> HIDE DEF n, p
<1>4. /\ n \in [pml4 : [AllSlots -> TopEntries], tables : Seq([Offsets -> PageEntries])]
      /\ n.tables \in Seq([Offsets -> PageEntries])
      /\ t \in 1 .. Len(n.tables)
  BY <1>1, <1>2 DEF TablesOK
<1>5. n.tables[t] \in [Offsets -> PageEntries]
  BY <1>4
<1>6. p.pml4 = n.pml4 /\ p.tables = [n.tables EXCEPT ![t] = [n.tables[t] EXCEPT ![Offset(v)] = e]]
  BY <1>3, <1>4
<1>7. e \in PageEntries
  BY DEF PageEntries, PageEntry
<1> HIDE DEF e, t
<1>8. [n.tables[t] EXCEPT ![Offset(v)] = e] \in [Offsets -> PageEntries]
  BY <1>5, <1>7
<1>9. p.tables \in Seq([Offsets -> PageEntries]) /\ Len(p.tables) = Len(n.tables)
  BY <1>4, <1>6, <1>8
<1>10. p \in [pml4 : [AllSlots -> TopEntries], tables : Seq([Offsets -> PageEntries])]
  BY <1>3, <1>4, <1>6, <1>9
<1>11. TablesOK(p) /\ Apart(p)
  BY <1>2, <1>6, <1>9, <1>10 DEF TablesOK, Apart
<1>12. /\ p.tables[t][Offset(v)] = e
       /\ \A i \in Offsets : i # Offset(v) => p.tables[t][i] = n.tables[t][i]
       /\ \A k \in 1 .. Len(n.tables) : k # t => p.tables[k] = n.tables[k]
  BY <1>1, <1>4, <1>5, <1>6
<1>13. ASSUME NEW s \in AllSlots, NEW i \in Offsets
       PROVE  \/ Low(p, s, i) = Low(m, s, i)
              \/ Low(p, s, i) = e /\ i = Offset(v) /\ Twins(s, Slot(v))
  <2>1. CASE ~n.pml4[s].present \/ n.pml4[s].table # t
    <3>1. Low(p, s, i) = Low(n, s, i)
      BY <1>2, <1>6, <1>12, <2>1 DEF Low, TablesOK
    <3> QED BY <1>2, <3>1
  <2>2. CASE n.pml4[s].present /\ n.pml4[s].table = t
    <3>1. Twins(s, Slot(v))
      BY <1>1, <1>2, <2>2 DEF Apart, t
    <3>2. Low(p, s, i) = p.tables[t][i] /\ Low(n, s, i) = n.tables[t][i]
      BY <1>6, <2>2 DEF Low
    <3> QED BY <1>2, <1>12, <3>1, <3>2
  <2> QED BY <2>1, <2>2
<1>14. Low(p, Slot(v), Offset(v)) = e
  BY <1>2, <1>6, <1>12 DEF Low, t
<1> QED BY <1>1, <1>2, <1>6, <1>11, <1>13, <1>14 DEF Maps, p, e

----------------------------------------------------------------------------
(* n is m with c pages from v mapped to the frames from f. *)
MapsRange(m, n, f, v, c, w, x) ==
    /\ TablesOK(n) /\ Apart(n)
    /\ \A s \in AllSlots : m.pml4[s].present => n.pml4[s] = m.pml4[s]
    /\ \A j \in 0 .. c - 1 : Low(n, Slot(v + j), Offset(v + j)).present
    /\ \A s \in AllSlots, i \in Offsets :
         \/ Low(n, s, i) = Low(m, s, i)
         \/ \E j \in 0 .. c - 1 : /\ Low(n, s, i) = PageEntry(f + j, w, x)
                                  /\ i = Offset(v + j) /\ Twins(s, Slot(v + j))

(* The loop of virt_map_range, round by round: g[k] is what k pages leave. *)
Rounds(g, m, f, v, c, w, x) ==
    /\ virt_map_range(m, f, v, c, w, x) = g[c]
    /\ g[0] = m
    /\ \A k \in 1 .. c : g[k] = virt_map_page(g[k - 1], f + k - 1, v + k - 1, w, x)

LEMMA RangeRounds ==
  ASSUME NEW m, NEW f \in Int, NEW v \in Nat, NEW c \in Nat, NEW w, NEW x
  PROVE  \E g : Rounds(g, m, f, v, c, w, x)
<1> DEFINE Loop(g, n) ==
             g = [k \in 0 .. n |-> IF k = 0 THEN m
                  ELSE virt_map_page(g[k - 1], f + k - 1, v + k - 1, w, x)]
           S == {n \in Nat : \E g : Loop(g, n)}
<1>1. 0 \in S
  <2>1. Loop([k \in 0 .. 0 |-> m], 0)
    OBVIOUS
  <2> QED BY <2>1
<1>2. ASSUME NEW n \in Nat, n \in S PROVE n + 1 \in S
  <2>1. PICK g : Loop(g, n)
    BY <1>2
  <2> DEFINE h == [k \in 0 .. n + 1 |-> IF k <= n THEN g[k]
                   ELSE virt_map_page(g[k - 1], f + k - 1, v + k - 1, w, x)]
  <2>2. ASSUME NEW k \in 0 .. n + 1
        PROVE  h[k] = IF k = 0 THEN m
                      ELSE virt_map_page(h[k - 1], f + k - 1, v + k - 1, w, x)
    <3>1. CASE k = 0
      BY <2>1, <3>1
    <3>2. CASE k # 0
      <4>1. k - 1 \in 0 .. n /\ h[k - 1] = g[k - 1]
        BY <3>2
      <4>2. h[k] = virt_map_page(g[k - 1], f + k - 1, v + k - 1, w, x)
        <5>1. CASE k <= n
          BY <2>1, <3>2, <5>1
        <5>2. CASE ~(k <= n)
          BY <5>2
        <5> QED BY <5>1, <5>2
      <4> QED BY <3>2, <4>1, <4>2
    <3> QED BY <3>1, <3>2
  <2>3. Loop(h, n + 1)
    <3>1. h = [k \in 0 .. n + 1 |-> h[k]]
      OBVIOUS
    <3> HIDE DEF h
    <3> QED BY <2>2, <3>1
  <2>4. \E a : Loop(a, n + 1)
    <3> HIDE DEF h, Loop
    <3> QED BY <2>3
  <2> HIDE DEF Loop
  <2> QED BY <2>4
<1>3. c \in S
  <2> HIDE DEF S
  <2> QED BY <1>1, <1>2, NumbersBelow
<1> DEFINE g == CHOOSE h : Loop(h, c)
<1>4. Loop(g, c)
  BY <1>3
<1>5. virt_map_range(m, f, v, c, w, x) = g[c]
  BY DEF virt_map_range
<1> HIDE DEF g
<1>6. g[0] = m
  BY <1>4
<1>7. \A k \in 1 .. c : g[k] = virt_map_page(g[k - 1], f + k - 1, v + k - 1, w, x)
  BY <1>4
<1>8. Rounds(g, m, f, v, c, w, x)
  BY <1>5, <1>6, <1>7 DEF Rounds
<1> QED BY <1>8

(* One more round of virt_map_range. *)
LEMMA RangeGrows ==
  ASSUME NEW m, NEW n, NEW p, NEW f \in Int, NEW v \in Nat, NEW c \in Nat, NEW w, NEW x,
         MapsRange(m, n, f, v, c, w, x), v + c \in VirtPages,
         Maps(n, p, v + c, PageEntry(f + c, w, x))
  PROVE  MapsRange(m, p, f, v, c + 1, w, x)
<1> DEFINE e == PageEntry(f + c, w, x)
<1>1. Slot(v + c) \in AllSlots /\ Offset(v + c) \in Offsets
  BY PageNumbers
<1>2. \A s \in AllSlots, i \in Offsets :
         \/ Low(p, s, i) = Low(n, s, i)
         \/ Low(p, s, i) = e /\ i = Offset(v + c) /\ Twins(s, Slot(v + c))
  BY DEF Maps
<1>3. e.present
  BY DEF PageEntry
<1>4. \A s \in AllSlots : m.pml4[s].present => p.pml4[s] = m.pml4[s]
  BY DEF Maps, MapsRange
<1>5. ASSUME NEW j \in 0 .. c PROVE Low(p, Slot(v + j), Offset(v + j)).present
  <2>1. CASE j = c
    BY <1>3, <2>1 DEF Maps
  <2>2. CASE j # c
    <3>1. j \in 0 .. c - 1
      BY <2>2
    <3>2. v + j \in VirtPages
      BY <3>1, MappingsAssumption DEF VirtPages
    <3>3. Slot(v + j) \in AllSlots /\ Offset(v + j) \in Offsets
      BY <3>2, PageNumbers
    <3>4. Low(n, Slot(v + j), Offset(v + j)).present
      BY <3>1 DEF MapsRange
    <3> QED BY <1>2, <1>3, <3>3, <3>4
  <2> QED BY <2>1, <2>2
<1>6. ASSUME NEW s \in AllSlots, NEW i \in Offsets, Low(p, s, i) # Low(m, s, i)
      PROVE  \E j \in 0 .. c : /\ Low(p, s, i) = PageEntry(f + j, w, x)
                               /\ i = Offset(v + j) /\ Twins(s, Slot(v + j))
  <2>1. CASE Low(p, s, i) = Low(n, s, i)
    <3>1. PICK j \in 0 .. c - 1 : /\ Low(n, s, i) = PageEntry(f + j, w, x)
                                  /\ i = Offset(v + j) /\ Twins(s, Slot(v + j))
      BY <1>6, <2>1 DEF MapsRange
    <3> QED BY <2>1, <3>1
  <2>2. CASE Low(p, s, i) = e /\ i = Offset(v + c) /\ Twins(s, Slot(v + c))
    BY <2>2
  <2> QED BY <1>2, <2>1, <2>2
<1>7. TablesOK(p) /\ Apart(p)
  BY DEF Maps
<1>8. (c + 1) - 1 = c
  OBVIOUS
<1> QED BY <1>4, <1>5, <1>6, <1>7, <1>8 DEF MapsRange

(* virt_map_range maps every page of the range, and only those. *)
LEMMA MapRange ==
  ASSUME NEW m, TablesOK(m), Apart(m), NEW f \in Int, NEW v \in Nat, NEW c \in Nat,
         \A j \in 0 .. c - 1 : v + j \in VirtPages, NEW w \in BOOLEAN, NEW x \in BOOLEAN
  PROVE  MapsRange(m, virt_map_range(m, f, v, c, w, x), f, v, c, w, x)
<1>0. PICK g : Rounds(g, m, f, v, c, w, x)
  BY RangeRounds
<1>1. /\ virt_map_range(m, f, v, c, w, x) = g[c]
      /\ g[0] = m
      /\ \A k \in 1 .. c : g[k] = virt_map_page(g[k - 1], f + k - 1, v + k - 1, w, x)
  BY <1>0 DEF Rounds
<1> DEFINE S == {k \in Nat : k <= c => MapsRange(m, g[k], f, v, k, w, x)}
<1>2. 0 \in S
  BY <1>1 DEF MapsRange
<1>3. ASSUME NEW k \in Nat, k \in S PROVE k + 1 \in S
  <2> SUFFICES ASSUME k + 1 <= c PROVE MapsRange(m, g[k + 1], f, v, k + 1, w, x)
    OBVIOUS
  <2>1. MapsRange(m, g[k], f, v, k, w, x)
    BY <1>3
  <2>2. v + k \in VirtPages
    OBVIOUS
  <2>3. g[k + 1] = virt_map_page(g[k], f + k, v + k, w, x)
    <3>1. k + 1 \in 1 .. c /\ (k + 1) - 1 = k /\ f + (k + 1) - 1 = f + k /\ v + (k + 1) - 1 = v + k
      OBVIOUS
    <3> QED BY <1>1, <3>1
  <2>4. TablesOK(g[k]) /\ Apart(g[k])
    BY <2>1 DEF MapsRange
  <2>5. Maps(g[k], g[k + 1], v + k, PageEntry(f + k, w, x))
    BY <2>2, <2>3, <2>4, MapPage
  <2> QED BY <2>1, <2>2, <2>5, RangeGrows
<1>4. c \in S
  <2> HIDE DEF S
  <2> QED BY <1>2, <1>3, NumbersBelow
<1> QED BY <1>1, <1>4

----------------------------------------------------------------------------
(* The inductive invariant.  Types: *)
MapTypes ==
    /\ mapStep \in {"early", "segments", "shadow", "memmap", "run", "halt"}
    /\ done \in Nat
    /\ kernel \in Kernels
    /\ memmap \in MemMaps
    /\ TablesOK(mm) /\ Apart(mm)

(* the copies of the top-level entries that init_virt is through with; *)
Mirrors(s) ==
    /\ mm.pml4[s].present
    /\ mm.pml4[s + Slots] = [mm.pml4[s] EXCEPT !.w = mm.pml4[s].w /\ s \notin GcSlots]

ShadowDone(s) == mapStep \in {"memmap", "run"} \/ (mapStep = "shadow" /\ s < done)

MirrorsOK == \A s \in 0 .. Slots - 1 : ShadowDone(s) => Mirrors(s)

(* the frames of the code, and the pages of an entry of the memory map;    *)
CodeOf(k) ==
    UNION {k[j].at + KernelAt .. k[j].at + KernelAt + DIV_ROUND_UP(k[j].size, 2) - 1 :
           j \in {j \in 1 .. Len(k) : k[j].x}}

PagesOf(e) == (e.base \div 2) .. DIV_ROUND_UP(e.base + e.length, 2) - 1
IsMapped(e) == e.type \notin UnmappedTypes

(* the pages of the kernel's image are at their frames, and never both     *)
(* writable and executable, those of the JIT are usable memory;            *)
KernelPage(i, e) ==
    e.present =>
        IF i < JitAt
        THEN /\ e.frame = i + KernelAt
             /\ ~(e.w /\ e.x)
             /\ e.x => e.frame \in CodeOf(kernel)
        ELSE e.frame \in Usable

(* the others are not executable, and are usable memory or at their place  *)
(* in the direct map, writable there over code only where a fault made     *)
(* them.                                                                   *)
HomeSlot(s) == IF s < Slots THEN s ELSE s - Slots

OtherPage(v, e) ==
    e.present => /\ ~e.x
                 /\ e.frame = v \/ e.frame \in Usable
                 /\ e.w /\ e.frame = v /\ v \in CodeOf(kernel) => v \in lifted

PagesOK ==
    /\ \A i \in Offsets : KernelPage(i, Low(mm, 2 * Slots, i))
    /\ \A s \in 0 .. 2 * Slots - 1, i \in Offsets :
         OtherPage(HomeSlot(s) * SlotPages + i, Low(mm, s, i))

(* The direct map covers the memory map as far as it was read. *)
CoveredOK ==
    \A j \in 1 .. Len(memmap) :
        /\ mapStep = "run" \/ (mapStep = "memmap" /\ j <= done)
        /\ IsMapped(memmap[j])
        => \A v \in PagesOf(memmap[j]) : Low(mm, Slot(v), Offset(v)).present

(* The boot loader reports the memory of the code, and only as read-only. *)
Protects(m, k) ==
    \A v \in CodeOf(k) :
        /\ \E j \in 1 .. Len(m) : IsMapped(m[j]) /\ v \in PagesOf(m[j])
        /\ \A j \in 1 .. Len(m) :
             IsMapped(m[j]) /\ v \in PagesOf(m[j]) => m[j].type \in ReadOnlyTypes

----------------------------------------------------------------------------
(* What init_virt maps for a segment. *)
LEMMA SegmentMaps ==
  ASSUME MapTypes, init_virt_segment, mapStep' = "segments"
  PROVE  /\ done \in 0 .. Len(kernel) - 1
         /\ ~(kernel[done + 1].w /\ kernel[done + 1].x)
         /\ LET s == kernel[done + 1]
                c == DIV_ROUND_UP(s.size, 2)
            IN  /\ s \in Segments /\ c \in Nat
                /\ MapsRange(mm, mm', s.at + KernelAt, KernelBase + s.at, c, s.w, s.x)
                /\ \A j \in 0 .. c - 1 :
                     /\ Slot(KernelBase + s.at + j) = 2 * Slots
                     /\ Offset(KernelBase + s.at + j) = s.at + j
                     /\ s.at + j \in Offsets /\ s.at + j < JitAt
<1> DEFINE s == kernel[done + 1]
           c == DIV_ROUND_UP(s.size, 2)
<1>1. kernel \in Seq(Segments) /\ done \in 0 .. Len(kernel) - 1
  BY ImagesAssumption DEF MapTypes, init_virt_segment
<1>2. done + 1 \in 1 .. Len(kernel)
  BY <1>1
<1>3. s \in Segments
  BY <1>1, <1>2
<1>4. s.at \in Nat /\ s.size \in Nat /\ s.w \in BOOLEAN /\ s.x \in BOOLEAN
  BY <1>3 DEF Segments
<1>5. s.at + c <= JitAt /\ JitAt \in Nat /\ JitAt <= SlotPages
  BY <1>2, ImagesAssumption, MappingsAssumption DEF MapTypes
<1>6. c \in Nat
  BY <1>4 DEF DIV_ROUND_UP
<1>7. ~(s.w /\ s.x) /\ mm' = virt_map_range(mm, s.at + KernelAt, KernelBase + s.at, c, s.w, s.x)
  BY DEF init_virt_segment
<1> HIDE DEF s, c
<1>8. KernelBase \in Nat /\ KernelBase = 2 * Slots * SlotPages /\ KernelAt \in Nat
  BY MappingsAssumption DEF KernelBase
<1>9. ASSUME NEW j \in 0 .. c - 1
      PROVE  /\ KernelBase + s.at + j \in VirtPages
             /\ Slot(KernelBase + s.at + j) = 2 * Slots
             /\ Offset(KernelBase + s.at + j) = s.at + j
             /\ s.at + j \in Offsets /\ s.at + j < JitAt
  <2>1. s.at + j \in Offsets /\ s.at + j < JitAt
    BY <1>4, <1>5, <1>6, MappingsAssumption DEF Offsets
  <2>2. 2 * Slots \in AllSlots
    BY MappingsAssumption DEF AllSlots
  <2>3. KernelBase + s.at + j = 2 * Slots * SlotPages + (s.at + j)
    BY <1>4, <1>8
  <2> QED BY <2>1, <2>2, <2>3, PageAt
<1>10. MapsRange(mm, mm', s.at + KernelAt, KernelBase + s.at, c, s.w, s.x)
  <2>1. s.at + KernelAt \in Int /\ KernelBase + s.at \in Nat
    BY <1>4, <1>8
  <2> QED BY <1>4, <1>6, <1>7, <1>9, <2>1, MapRange, ZenonT(60) DEF MapTypes
<1> QED BY <1>1, <1>3, <1>6, <1>7, <1>9, <1>10 DEF s, c

(* What init_phys_mappings maps for an entry of the memory map. *)
LEMMA MemmapMaps ==
  ASSUME MapTypes, init_phys_mappings
  PROVE  /\ done \in 0 .. Len(memmap) - 1
         /\ LET e == memmap[done + 1]
                first == e.base \div 2
                c == DIV_ROUND_UP(e.base + e.length, 2) - first
            IN  /\ IF IsMapped(e)
                   THEN MapsRange(mm, mm', first, first, c, e.type \notin ReadOnlyTypes, FALSE)
                   ELSE mm' = mm
                /\ first \in Nat /\ c \in Nat
                /\ \A j \in 0 .. c - 1 : first + j \in Shadowed /\ first + j \in PagesOf(e)
                /\ \A v \in PagesOf(e) : \E j \in 0 .. c - 1 : v = first + j
<1> DEFINE e == memmap[done + 1]
           first == e.base \div 2
           last == DIV_ROUND_UP(e.base + e.length, 2)
           c == last - first
<1>1. memmap \in Seq(MapEntries) /\ done \in 0 .. Len(memmap) - 1
  BY ImagesAssumption DEF MapTypes, init_phys_mappings
<1>2. done + 1 \in 1 .. Len(memmap)
  BY <1>1
<1>3. e \in MapEntries
  BY <1>1, <1>2
<1>4. e.base \in Nat /\ e.length \in Nat
  BY <1>3 DEF MapEntries
<1>5. last <= Slots * SlotPages
  BY <1>2, ImagesAssumption DEF MapTypes
<1>6. first \in Nat /\ last \in Nat /\ first <= last
  BY <1>4 DEF DIV_ROUND_UP
<1>7. PagesOf(e) = first .. last - 1
  BY DEF PagesOf
<1>8. mm' = IF ~IsMapped(e) THEN mm
            ELSE virt_map_range(mm, first, first, c, e.type \notin ReadOnlyTypes, FALSE)
  BY DEF init_phys_mappings, IsMapped
<1> HIDE DEF e, first, last
<1>9. c \in Nat
  BY <1>6
<1>10. Slots * SlotPages \in Nat
  BY MappingsAssumption
<1>11. \A j \in 0 .. c - 1 : first + j \in Shadowed /\ first + j \in PagesOf(e)
  BY <1>5, <1>6, <1>7, <1>10 DEF Shadowed
<1>12. \A j \in 0 .. c - 1 : first + j \in VirtPages
  BY <1>11, ShadowPage
<1>13. ASSUME NEW v \in PagesOf(e) PROVE \E j \in 0 .. c - 1 : v = first + j
  <2>1. v - first \in 0 .. c - 1 /\ v = first + (v - first)
    BY <1>6, <1>7
  <2> QED BY <2>1
<1>14. IsMapped(e) =>
         MapsRange(mm, mm', first, first, c, e.type \notin ReadOnlyTypes, FALSE)
  <2> DEFINE w == e.type \notin ReadOnlyTypes
  <2> HIDE DEF w, c
  <2>1. w \in BOOLEAN /\ first \in Int
    BY <1>6 DEF w
  <2>2. MapsRange(mm, virt_map_range(mm, first, first, c, w, FALSE), first, first, c, w, FALSE)
    BY <1>6, <1>9, <1>12, <2>1, MapRange DEF MapTypes
  <2> QED BY <1>8, <2>2 DEF w
<1>15. ~IsMapped(e) => mm' = mm
  BY <1>8
<1> QED BY <1>1, <1>6, <1>9, <1>11, <1>13, <1>14, <1>15 DEF e, first, last

(* What a page fault maps. *)
LEMMA FaultMaps ==
  ASSUME MapTypes, NEW v \in VirtPages, NEW write \in BOOLEAN,
         virt_handle_page_fault(v, write), mapStep' = "run"
  PROVE  /\ Lazy(v) \/ DirectMap(v)
         /\ \E f \in Usable \cup {v} : Maps(mm, mm', v, PageEntry(f, TRUE, FALSE))
         /\ lifted' = IF Translate(v).present THEN lifted \cup {v} ELSE lifted
<1>1. PICK f \in Usable \cup {v} : mm' = virt_map_page(mm, f, v, TRUE, FALSE)
  BY DEF virt_handle_page_fault
<1>2. /\ Lazy(v) \/ DirectMap(v)
      /\ lifted' = IF Translate(v).present THEN lifted \cup {v} ELSE lifted
  BY DEF virt_handle_page_fault
<1>3. f \in Int
  BY PageNumbers DEF Usable, Shadowed
<1>4. Maps(mm, virt_map_page(mm, f, v, TRUE, FALSE), v, PageEntry(f, TRUE, FALSE))
  BY <1>3, MapPage DEF MapTypes
<1> QED BY <1>1, <1>2, <1>4

(* What init_virt does for a top-level entry of the shadowed area. *)
LEMMA ShadowMaps ==
  ASSUME MapTypes, init_virt_shadow
  PROVE  /\ done \in 0 .. Slots - 1 /\ done \in AllSlots /\ done + Slots \in AllSlots
         /\ TablesOK(mm') /\ Apart(mm')
         /\ mm'.pml4[done].present
         /\ mm'.pml4[done + Slots] =
              [mm'.pml4[done] EXCEPT !.w = mm'.pml4[done].w /\ done \notin GcSlots]
         /\ \A s \in AllSlots : s # done /\ s # done + Slots => mm'.pml4[s] = mm.pml4[s]
         /\ \A s \in AllSlots, i \in Offsets :
              Low(mm', s, i) = Low(mm, IF s = done + Slots THEN done ELSE s, i)
<1> DEFINE d == done
           g == get_next_level(mm, d)
           n == IF mm.pml4[d].present THEN mm ELSE [g EXCEPT !.pml4[d].nx = TRUE]
           top == [n.pml4[d] EXCEPT !.w = n.pml4[d].w /\ d \notin GcSlots]
<1>1. d \in 0 .. Slots - 1 /\ d \in AllSlots /\ d + Slots \in AllSlots /\ d + Slots # d
  BY MappingsAssumption DEF MapTypes, init_virt_shadow, AllSlots
<1>2. mm' = [n EXCEPT !.pml4[d + Slots] = top]
  BY DEF init_virt_shadow
<1>3. /\ TablesOK(g) /\ Apart(g) /\ g.pml4[d].present
      /\ \A s \in AllSlots : mm.pml4[s].present \/ s # d => g.pml4[s] = mm.pml4[s]
      /\ \A s \in AllSlots, i \in Offsets : Low(g, s, i) = Low(mm, s, i)
  BY <1>1, NextLevel DEF MapTypes
<1> HIDE DEF g, d
<1>4. /\ n \in [pml4 : [AllSlots -> TopEntries], tables : Seq([Offsets -> PageEntries])]
      /\ n.tables = IF mm.pml4[d].present THEN mm.tables ELSE g.tables
      /\ \A s \in AllSlots : s # d => n.pml4[s] = mm.pml4[s]
      /\ n.pml4[d].present
      /\ n.pml4[d].table = IF mm.pml4[d].present THEN mm.pml4[d].table ELSE g.pml4[d].table
  <2>1. CASE mm.pml4[d].present
    BY <2>1 DEF MapTypes, TablesOK
  <2>2. CASE ~mm.pml4[d].present
    <3>1. n = [g EXCEPT !.pml4[d].nx = TRUE]
      BY <2>2
    <3>2. g \in [pml4 : [AllSlots -> TopEntries], tables : Seq([Offsets -> PageEntries])]
      BY <1>3 DEF TablesOK
    <3>3. n.tables = g.tables /\ n.pml4 = [g.pml4 EXCEPT ![d] = [g.pml4[d] EXCEPT !.nx = TRUE]]
      BY <3>1, <3>2
    <3>4. g.pml4[d] \in TopEntries
      BY <1>1, <3>2
    <3>5. [g.pml4[d] EXCEPT !.nx = TRUE] \in TopEntries
      BY <3>4 DEF TopEntries
    <3>6. n.pml4 \in [AllSlots -> TopEntries]
      BY <3>2, <3>3, <3>5
    <3>7. n.pml4[d] = [g.pml4[d] EXCEPT !.nx = TRUE]
      BY <1>1, <3>2, <3>3
    <3>8. n.pml4[d].present /\ n.pml4[d].table = g.pml4[d].table
      BY <1>3, <3>4, <3>7 DEF TopEntries
    <3>9. n \in [pml4 : [AllSlots -> TopEntries], tables : Seq([Offsets -> PageEntries])]
      BY <3>1, <3>2, <3>3, <3>6
    <3>10. \A s \in AllSlots : s # d => n.pml4[s] = mm.pml4[s]
      BY <1>1, <1>3, <3>2, <3>3
    <3> QED BY <2>2, <3>3, <3>8, <3>9, <3>10
  <2> QED BY <2>1, <2>2
<1>5. \A s \in AllSlots : n.pml4[s].present => n.pml4[s].table \in 1 .. Len(n.tables)
  <2>1. CASE mm.pml4[d].present
    BY <2>1, <1>4 DEF MapTypes, TablesOK
  <2>2. CASE ~mm.pml4[d].present
    <3>1. \A s \in AllSlots : s # d => n.pml4[s] = g.pml4[s]
      BY <1>3, <1>4
    <3> QED BY <1>3, <1>4, <2>2, <3>1 DEF TablesOK
  <2> QED BY <2>1, <2>2
<1>6. \A s \in AllSlots, i \in Offsets : Low(n, s, i) = Low(mm, s, i)
  <2>1. CASE mm.pml4[d].present
    BY <2>1, <1>4 DEF Low
  <2>2. CASE ~mm.pml4[d].present
    <3>1. \A s \in AllSlots, i \in Offsets : Low(n, s, i) = Low(g, s, i)
      BY <1>3, <1>4, <2>2 DEF Low
    <3> QED BY <1>3, <3>1
  <2> QED BY <2>1, <2>2
<1>7. \A s, u \in AllSlots :
         n.pml4[s].present /\ n.pml4[u].present /\ n.pml4[s].table = n.pml4[u].table
            => Twins(s, u)
  <2>1. CASE mm.pml4[d].present
    BY <2>1, <1>4 DEF MapTypes, Apart
  <2>2. CASE ~mm.pml4[d].present
    <3>1. \A s \in AllSlots : n.pml4[s].present => g.pml4[s].present
      BY <1>3, <1>4
    <3>2. \A s \in AllSlots : n.pml4[s].table = g.pml4[s].table
      BY <1>3, <1>4, <2>2
    <3> QED BY <1>3, <3>1, <3>2 DEF Apart
  <2> QED BY <2>1, <2>2
<1>8. n.pml4[d] \in TopEntries
  BY <1>1, <1>4
<1> HIDE DEF n
<1>9. /\ top \in TopEntries
      /\ top.present = n.pml4[d].present /\ top.table = n.pml4[d].table
  BY <1>8 DEF TopEntries
<1> HIDE DEF top
<1>10. mm'.tables = n.tables /\ mm'.pml4 = [n.pml4 EXCEPT ![d + Slots] = top]
  BY <1>2, <1>4
<1>11. mm'.pml4 \in [AllSlots -> TopEntries]
  BY <1>4, <1>9, <1>10
<1>12. mm' \in [pml4 : [AllSlots -> TopEntries], tables : Seq([Offsets -> PageEntries])]
  BY <1>2, <1>4, <1>10, <1>11
<1>13. /\ mm'.pml4[d + Slots] = top
       /\ \A s \in AllSlots : s # d + Slots => mm'.pml4[s] = n.pml4[s]
  BY <1>1, <1>4, <1>10
<1>14. mm'.pml4[d] = n.pml4[d]
  BY <1>1, <1>13
<1>15. TablesOK(mm')
  <2>1. \A s \in AllSlots : mm'.pml4[s].present => mm'.pml4[s].table \in 1 .. Len(mm'.tables)
    BY <1>1, <1>4, <1>5, <1>9, <1>10, <1>13
  <2> QED BY <1>12, <2>1 DEF TablesOK
<1>16. ASSUME NEW u \in AllSlots, u # d + Slots, mm'.pml4[u].present,
              mm'.pml4[u].table = mm'.pml4[d + Slots].table
       PROVE  u = d
  <2>1. Twins(d, u)
    BY <1>1, <1>4, <1>7, <1>9, <1>13, <1>16
  <2> QED BY <1>1, <1>16, <2>1, MappingsAssumption DEF Twins, AllSlots
<1>17. Apart(mm')
  <2> SUFFICES ASSUME NEW s \in AllSlots, NEW u \in AllSlots,
                      mm'.pml4[s].present, mm'.pml4[u].present,
                      mm'.pml4[s].table = mm'.pml4[u].table
               PROVE  Twins(s, u)
    BY DEF Apart
  <2>1. CASE s # d + Slots /\ u # d + Slots
    BY <1>7, <1>13, <2>1
  <2>2. CASE s = d + Slots /\ u # d + Slots
    <3>1. u = d
      BY <1>16, <2>2
    <3> QED BY <1>1, <2>2, <3>1, MappingsAssumption DEF Twins
  <2>3. CASE u = d + Slots /\ s # d + Slots
    <3>1. s = d
      BY <1>16, <2>3
    <3> QED BY <1>1, <2>3, <3>1, MappingsAssumption DEF Twins
  <2>4. CASE s = u
    BY <2>4 DEF Twins
  <2> QED BY <2>1, <2>2, <2>3, <2>4
<1>18. \A s \in AllSlots, i \in Offsets :
          Low(mm', s, i) = Low(mm, IF s = d + Slots THEN d ELSE s, i)
  <2> SUFFICES ASSUME NEW s \in AllSlots, NEW i \in Offsets
               PROVE  Low(mm', s, i) = Low(mm, IF s = d + Slots THEN d ELSE s, i)
    OBVIOUS
  <2>1. CASE s = d + Slots
    <3>1. Low(mm', s, i) = Low(n, d, i)
      BY <1>4, <1>9, <1>10, <1>13, <2>1 DEF Low
    <3> QED BY <1>1, <1>6, <2>1, <3>1
  <2>2. CASE s # d + Slots
    <3>1. Low(mm', s, i) = Low(n, s, i)
      BY <1>10, <1>13, <2>2 DEF Low
    <3> QED BY <1>6, <2>2, <3>1
  <2> QED BY <2>1, <2>2
<1>19. mm'.pml4[d + Slots] = [mm'.pml4[d] EXCEPT !.w = mm'.pml4[d].w /\ d \notin GcSlots]
  BY <1>13, <1>14 DEF top
<1>20. \A s \in AllSlots : s # d /\ s # d + Slots => mm'.pml4[s] = mm.pml4[s]
  BY <1>4, <1>13
<1>21. mm'.pml4[d].present
  BY <1>4, <1>14
<1> QED BY <1>1, <1>15, <1>17, <1>18, <1>19, <1>20, <1>21 DEF d

----------------------------------------------------------------------------
(* What the processor makes of a page, in terms of its two entries. *)
LEMMA Narrowed ==
  ASSUME NEW e \in PageEntries, NEW a \in BOOLEAN, NEW b \in BOOLEAN
  PROVE  /\ e.present => [e EXCEPT !.w = a, !.x = b] = PageEntry(e.frame, a, b)
         /\ [e EXCEPT !.w = a] = [present |-> e.present, frame |-> e.frame, w |-> a, x |-> e.x]
<1>1. PICK p \in BOOLEAN, f \in Int, w \in BOOLEAN, x \in BOOLEAN :
        e = [present |-> p, frame |-> f, w |-> w, x |-> x]
  BY DEF PageEntries
<1>2. [e EXCEPT !.w = a] = [present |-> p, frame |-> f, w |-> a, x |-> x]
  BY <1>1
<1>3. [e EXCEPT !.w = a, !.x = b] = [present |-> p, frame |-> f, w |-> a, x |-> b]
  <2> DEFINE r == [e EXCEPT !.w = a, !.x = b]
  <2>1. r = [[e EXCEPT !.w = a] EXCEPT !.x = b]
    BY <1>1
  <2>2. r = [[present |-> p, frame |-> f, w |-> a, x |-> x] EXCEPT !.x = b]
    BY <1>2, <2>1
  <2> QED BY <2>2
<1>4. e.present = p /\ e.frame = f /\ e.x = x
  BY <1>1
<1>5. p => p = TRUE
  OBVIOUS
<1> QED BY <1>2, <1>3, <1>4, <1>5 DEF PageEntry

LEMMA TranslateIs ==
  ASSUME TablesOK(mm), NEW v \in VirtPages
  PROVE  LET top == mm.pml4[Slot(v)]
             low == Low(mm, Slot(v), Offset(v))
         IN  /\ top \in TopEntries /\ low \in PageEntries
             /\ Translate(v) =
                  IF low.present
                  THEN [present |-> TRUE, frame |-> low.frame,
                        w |-> low.w /\ top.w, x |-> low.x /\ ~top.nx]
                  ELSE NoPage
<1> DEFINE top == mm.pml4[Slot(v)]
           low == Low(mm, Slot(v), Offset(v))
<1>1. Slot(v) \in AllSlots /\ Offset(v) \in Offsets
  BY PageNumbers
<1>2. top \in TopEntries
  BY <1>1 DEF TablesOK
<1>3. CASE ~top.present
  <2>1. low = NoPage
    BY <1>3 DEF Low
  <2>2. Translate(v) = NoPage
    BY <1>3 DEF Translate
  <2>3. NoPage \in PageEntries /\ ~NoPage.present
    BY DEF NoPage, PageEntries
  <2> QED BY <1>2, <2>1, <2>2, <2>3
<1>4. CASE top.present
  <2>1. low = mm.tables[top.table][Offset(v)]
    BY <1>4 DEF Low
  <2>2. mm.tables \in Seq([Offsets -> PageEntries]) /\ top.table \in 1 .. Len(mm.tables)
    BY <1>1, <1>4 DEF TablesOK
  <2>3. mm.tables[top.table] \in [Offsets -> PageEntries]
    BY <2>2
  <2>4. low \in PageEntries
    BY <1>1, <2>1, <2>3
  <2>5. Translate(v) = IF ~low.present THEN NoPage
                       ELSE [low EXCEPT !.w = low.w /\ top.w, !.x = low.x /\ ~top.nx]
    BY <1>4, <2>1 DEF Translate, Offset
  <2> HIDE DEF low, top
  <2> DEFINE a == low.w /\ top.w
             b == low.x /\ ~top.nx
  <2>6. a \in BOOLEAN /\ b \in BOOLEAN
    OBVIOUS
  <2> HIDE DEF a, b
  <2>7. low.present => [low EXCEPT !.w = a, !.x = b] = PageEntry(low.frame, a, b)
    BY <2>4, <2>6, Narrowed
  <2>8. low.present =>
          [low EXCEPT !.w = low.w /\ top.w, !.x = low.x /\ ~top.nx] =
             [present |-> TRUE, frame |-> low.frame, w |-> low.w /\ top.w, x |-> low.x /\ ~top.nx]
    BY <2>7 DEF PageEntry, a, b
  <2> QED BY <1>2, <2>4, <2>5, <2>8 DEF low, top
<1> QED BY <1>3, <1>4

(* The pages of the JIT are the kernel's, above its image. *)
LEMMA JitPage ==
  ASSUME NEW v \in JitPages
  PROVE  /\ v \in VirtPages /\ Slot(v) = 2 * Slots
         /\ Offset(v) \in Offsets /\ Offset(v) >= JitAt
<1> DEFINE i == v - KernelBase
<1>1. KernelBase \in Nat /\ KernelBase = 2 * Slots * SlotPages /\ 2 * Slots \in AllSlots
  BY MappingsAssumption DEF KernelBase, AllSlots
<1>2. i \in Offsets /\ i >= JitAt /\ v = KernelBase + i
  BY <1>1, MappingsAssumption DEF JitPages, Offsets
<1> HIDE DEF i
<1>3. v = 2 * Slots * SlotPages + i
  BY <1>1, <1>2
<1> QED BY <1>1, <1>2, <1>3, PageAt

(* What the memory of the JIT maps: a usable frame, or the one that is there. *)
LEMMA JitMaps ==
  ASSUME MapTypes, NEW v \in JitPages, virt_alloc_range(v) \/ virt_remap_range(v)
  PROVE  \E f, w, x :
            /\ f \in Usable \/ (Translate(v).present /\ f = Translate(v).frame)
            /\ Maps(mm, mm', v, PageEntry(f, w, x))
<1>1. PICK f \in Int, w \in BOOLEAN, x \in BOOLEAN :
        /\ f \in Usable \/ (Translate(v).present /\ f = Translate(v).frame)
        /\ mm' = virt_map_page(mm, f, v, w, x)
  <2>1. CASE virt_alloc_range(v)
    <3>1. PICK f \in Usable : mm' = virt_map_page(mm, f, v, TRUE, FALSE)
      BY <2>1 DEF virt_alloc_range
    <3>2. f \in Int
      BY DEF Usable, Shadowed
    <3> QED BY <3>1, <3>2
  <2>2. CASE virt_remap_range(v)
    <3> DEFINE low == Low(mm, Slot(v), Offset(v))
    <3>1. /\ low \in PageEntries
          /\ Translate(v) = IF low.present
                            THEN [present |-> TRUE, frame |-> low.frame,
                                  w |-> low.w /\ mm.pml4[Slot(v)].w, x |-> low.x /\ ~mm.pml4[Slot(v)].nx]
                            ELSE NoPage
      BY JitPage, TranslateIs DEF MapTypes
    <3> HIDE DEF low
    <3>2. low.frame \in Int
      BY <3>1 DEF PageEntries
    <3>3. Translate(v).frame \in Int
      BY <3>1, <3>2 DEF NoPage
    <3>4. Translate(v).present /\ mm' = virt_map_page(mm, Translate(v).frame, v, FALSE, TRUE)
      BY <2>2 DEF virt_remap_range
    <3> QED BY <3>3, <3>4
  <2> QED BY <2>1, <2>2
<1>2. Maps(mm, virt_map_page(mm, f, v, w, x), v, PageEntry(f, w, x))
  BY JitPage, MapPage DEF MapTypes
<1> QED BY <1>1, <1>2

----------------------------------------------------------------------------
(* The inductive part that holds for every image and memory map. *)
MapInv == MapTypes /\ MirrorsOK

(* Copies stay copies when pages are mapped. *)
LEMMA MirrorsStay ==
  ASSUME NEW s \in 0 .. Slots - 1, Mirrors(s),
         \A u \in AllSlots : mm.pml4[u].present => mm'.pml4[u] = mm.pml4[u], MapTypes
  PROVE  Mirrors(s)'
<1>1. s \in AllSlots /\ s + Slots \in AllSlots
  BY MappingsAssumption DEF AllSlots
<1>2. mm.pml4[s] \in TopEntries /\ mm.pml4[s].present
  BY <1>1 DEF MapTypes, TablesOK, Mirrors
<1>3. mm.pml4[s + Slots].present
  BY <1>2 DEF Mirrors, TopEntries
<1>4. mm'.pml4[s] = mm.pml4[s] /\ mm'.pml4[s + Slots] = mm.pml4[s + Slots]
  BY <1>1, <1>2, <1>3
<1> QED BY <1>4 DEF Mirrors

(* Steps keep the tables well-formed and the copies in line. *)
LEMMA MapInvStep == MapInv /\ [MapNext]_mapVars => MapInv'
<1> SUFFICES ASSUME MapInv, [MapNext]_mapVars PROVE MapInv'
  OBVIOUS
<1> USE DEF MapInv
<1>1. CASE UNCHANGED mapVars
  BY <1>1 DEF mapVars, MapTypes, MirrorsOK, Mirrors, ShadowDone
<1>2. ASSUME UNCHANGED <<kernel, memmap, mm>>, mapStep' = "halt", done' \in Nat PROVE MapInv'
  BY <1>2 DEF MapTypes, MirrorsOK, ShadowDone
<1>3. CASE init_fails
  BY <1>2, <1>3 DEF init_fails, MapTypes
<1>4. CASE init_virt_early
  BY <1>4 DEF init_virt_early, MapTypes, MirrorsOK, ShadowDone
<1>5. CASE init_virt_segment
  <2>1. CASE mapStep' = "segments"
    <3>1. TablesOK(mm') /\ Apart(mm')
      BY <1>5, <2>1, SegmentMaps DEF MapsRange
    <3> QED BY <1>5, <2>1, <3>1 DEF init_virt_segment, MapTypes, MirrorsOK, ShadowDone
  <2>2. CASE mapStep' # "segments"
    <3>1. mapStep' = "halt" /\ UNCHANGED <<kernel, memmap, mm, done>>
      BY <1>5, <2>2 DEF init_virt_segment
    <3> QED BY <1>2, <3>1 DEF MapTypes
  <2> QED BY <2>1, <2>2
<1>6. CASE NextLoop("segments", Len(kernel), "shadow")
  BY <1>6 DEF NextLoop, MapTypes, MirrorsOK, ShadowDone
<1>7. CASE init_virt_shadow
  <2>1. MapTypes'
    <3>1. TablesOK(mm') /\ Apart(mm')
      BY <1>7, ShadowMaps
    <3>2. done' = done + 1 /\ UNCHANGED <<mapStep, kernel, memmap>>
      BY <1>7 DEF init_virt_shadow
    <3> QED BY <3>1, <3>2 DEF MapTypes
  <2>2. ASSUME NEW s \in 0 .. Slots - 1, ShadowDone(s)' PROVE Mirrors(s)'
    <3>1. mapStep = "shadow" /\ mapStep' = "shadow" /\ s <= done /\ done \in Nat
      BY <1>7, <2>2 DEF init_virt_shadow, ShadowDone, MapTypes
    <3>2. CASE s = done
      <4>1. mm'.pml4[done].present /\ mm'.pml4[done + Slots] =
              [mm'.pml4[done] EXCEPT !.w = mm'.pml4[done].w /\ done \notin GcSlots]
        BY <1>7, ShadowMaps
      <4> QED BY <3>2, <4>1 DEF Mirrors
    <3>3. CASE s # done
      <4>1. Mirrors(s)
        BY <3>1, <3>3 DEF MirrorsOK, ShadowDone
      <4>2. s \in AllSlots /\ s + Slots \in AllSlots
        BY MappingsAssumption DEF AllSlots
      <4>3. s # done + Slots /\ s + Slots # done /\ s + Slots # done + Slots
        BY <1>7, <3>1, <3>3, ShadowMaps, MappingsAssumption
      <4>4. mm'.pml4[s] = mm.pml4[s] /\ mm'.pml4[s + Slots] = mm.pml4[s + Slots]
        BY <1>7, <3>3, <4>2, <4>3, ShadowMaps
      <4> QED BY <4>1, <4>4 DEF Mirrors
    <3> QED BY <3>2, <3>3
  <2> QED BY <2>1, <2>2 DEF MirrorsOK
<1>8. CASE NextLoop("shadow", Slots, "memmap") \/ NextLoop("memmap", Len(memmap), "run")
  <2>1. \A s \in 0 .. Slots - 1 : ShadowDone(s)
    BY <1>8, MappingsAssumption DEF NextLoop, ShadowDone
  <2> QED BY <1>8, <2>1 DEF NextLoop, MapTypes, MirrorsOK, Mirrors
<1>9. ASSUME TablesOK(mm'), Apart(mm'), mapStep \in {"memmap", "run"}, mapStep' = mapStep,
             done' \in Nat, UNCHANGED <<kernel, memmap>>,
             \A s \in AllSlots : mm.pml4[s].present => mm'.pml4[s] = mm.pml4[s]
      PROVE  MapInv'
  <2>1. MapTypes'
    BY <1>9 DEF MapTypes
  <2>2. \A s \in 0 .. Slots - 1 : Mirrors(s)
    BY <1>9 DEF MirrorsOK, ShadowDone
  <2>3. \A s \in 0 .. Slots - 1 : Mirrors(s)'
    BY <1>9, <2>2, MirrorsStay
  <2> QED BY <2>1, <2>3 DEF MirrorsOK
<1>10. CASE init_phys_mappings
  <2>1. /\ TablesOK(mm') /\ Apart(mm')
        /\ \A s \in AllSlots : mm.pml4[s].present => mm'.pml4[s] = mm.pml4[s]
    BY <1>10, MemmapMaps DEF MapsRange, MapTypes
  <2>2. mapStep = "memmap" /\ done' = done + 1 /\ UNCHANGED <<mapStep, kernel, memmap>>
    BY <1>10 DEF init_phys_mappings
  <2>3. done' \in Nat
    BY <2>2 DEF MapTypes
  <2> QED BY <1>9, <2>1, <2>2, <2>3
<1>11. ASSUME NEW v \in VirtPages, NEW write \in BOOLEAN, virt_handle_page_fault(v, write)
       PROVE  MapInv'
  <2>1. CASE mapStep' = "run"
    <3>1. /\ TablesOK(mm') /\ Apart(mm')
          /\ \A s \in AllSlots : mm.pml4[s].present => mm'.pml4[s] = mm.pml4[s]
      BY <1>11, <2>1, FaultMaps DEF Maps
    <3> QED BY <1>9, <1>11, <2>1, <3>1 DEF virt_handle_page_fault, MapTypes
  <2>2. CASE mapStep' # "run"
    <3>1. mapStep' = "halt" /\ UNCHANGED <<kernel, memmap, mm, done>>
      BY <1>11, <2>2 DEF virt_handle_page_fault
    <3> QED BY <1>2, <3>1 DEF MapTypes
  <2> QED BY <2>1, <2>2
<1>12. ASSUME NEW v \in JitPages, virt_alloc_range(v) \/ virt_remap_range(v)
       PROVE  MapInv'
  <2>1. /\ TablesOK(mm') /\ Apart(mm')
        /\ \A s \in AllSlots : mm.pml4[s].present => mm'.pml4[s] = mm.pml4[s]
    BY <1>12, JitMaps DEF Maps
  <2> QED BY <1>9, <1>12, <2>1 DEF virt_alloc_range, virt_remap_range, MapTypes
<1>13. CASE alloc_fails
  BY <1>2, <1>13 DEF alloc_fails, MapTypes
<1> QED BY <1>1, <1>3, <1>4, <1>5, <1>6, <1>7, <1>8, <1>10, <1>11, <1>12, <1>13 DEF MapNext

(* The tables are well-formed at first: they are empty. *)
LEMMA MapInvInit == MapInit => MapInv
<1> SUFFICES ASSUME MapInit PROVE MapInv
  OBVIOUS
<1>1. /\ mapStep = "early" /\ kernel \in Kernels /\ memmap \in MemMaps /\ done = 0
      /\ mm = [pml4 |-> [s \in AllSlots |-> NoTable], tables |-> <<>>]
  BY DEF MapInit, MapInitWith, AllSlots
<1>2. NoTable \in TopEntries /\ ~NoTable.present
  BY DEF NoTable, TopEntries
<1>3. \A s \in AllSlots : mm.pml4[s] = NoTable
  BY <1>1
<1>4. mm \in [pml4 : [AllSlots -> TopEntries], tables : Seq([Offsets -> PageEntries])]
  BY <1>1, <1>2
<1>5. TablesOK(mm) /\ Apart(mm)
  BY <1>2, <1>3, <1>4 DEF TablesOK, Apart
<1> QED BY <1>1, <1>5 DEF MapInv, MapTypes, MirrorsOK, ShadowDone

(* Tables stay well-formed and the shadow's entries copies. *)
THEOREM MapInductive == MapSpec => []MapInv
BY MapInvInit, MapInvStep, PTL DEF MapSpec

----------------------------------------------------------------------------
(***************************************************************************)
(* Once init_virt is through, a page and its shadow show the same memory,  *)
(* with the GC heap read-only in the shadow, whatever init_phys_mappings   *)
(* and page faults map later: they change tables that both share, and      *)
(* never a top-level entry that is present.                                *)
(***************************************************************************)
THEOREM TheShadowFollows == MapSpec => []ShadowFollows
<1>1. MapInv => ShadowFollows
  <2> SUFFICES ASSUME MapInv, mapStep \in {"memmap", "run"}, NEW v \in Shadowed
               PROVE  Translate(Shadow(v)) =
                        [Translate(v) EXCEPT !.w = Translate(v).w /\ Slot(v) \notin GcSlots]
    BY DEF ShadowFollows
  <2> DEFINE s == Slot(v)
             top == mm.pml4[s]
             low == Low(mm, s, Offset(v))
             gc == s \notin GcSlots
             copy == mm.pml4[s + Slots]
  <2>1. /\ v \in VirtPages /\ s \in 0 .. Slots - 1 /\ Shadow(v) \in VirtPages
        /\ Slot(Shadow(v)) = s + Slots /\ Offset(Shadow(v)) = Offset(v)
    BY ShadowPage
  <2>2. top.present /\ copy = [top EXCEPT !.w = top.w /\ gc]
    BY <2>1 DEF MapInv, MirrorsOK, ShadowDone, Mirrors
  <2>3. /\ top \in TopEntries /\ low \in PageEntries
        /\ Translate(v) =
             IF low.present
             THEN [present |-> TRUE, frame |-> low.frame,
                   w |-> low.w /\ top.w, x |-> low.x /\ ~top.nx]
             ELSE NoPage
    BY <2>1, TranslateIs DEF MapInv, MapTypes
  <2>4. Translate(Shadow(v)) =
          LET l == Low(mm, s + Slots, Offset(v)) IN
          IF l.present
          THEN [present |-> TRUE, frame |-> l.frame,
                w |-> l.w /\ copy.w, x |-> l.x /\ ~copy.nx]
          ELSE NoPage
    BY <2>1, TranslateIs DEF MapInv, MapTypes
  <2> HIDE DEF s, top, gc, copy
  <2>5. copy.present /\ copy.table = top.table /\ copy.nx = top.nx /\ copy.w = (top.w /\ gc)
    BY <2>2, <2>3 DEF TopEntries
  <2>6. Low(mm, s + Slots, Offset(v)) = low
    BY <2>2, <2>5 DEF Low, top, copy
  <2> HIDE DEF low
  <2>7. CASE ~low.present
    <3>1. Translate(Shadow(v)) = NoPage /\ Translate(v) = NoPage
      BY <2>3, <2>4, <2>6, <2>7
    <3> DEFINE a == NoPage.w /\ gc
    <3>2. a = FALSE /\ NoPage \in PageEntries
      BY DEF NoPage, PageEntries
    <3> HIDE DEF a
    <3>3. [NoPage EXCEPT !.w = a] = NoPage
      BY <3>2, Narrowed DEF NoPage
    <3> QED BY <3>1, <3>3 DEF gc, s, a
  <2>8. CASE low.present
    <3>1. Translate(v) = [present |-> TRUE, frame |-> low.frame,
                          w |-> low.w /\ top.w, x |-> low.x /\ ~top.nx]
      BY <2>3, <2>8
    <3>2. Translate(Shadow(v)) = [present |-> TRUE, frame |-> low.frame,
                                  w |-> (low.w /\ top.w) /\ gc, x |-> low.x /\ ~top.nx]
      <4>1. (low.w /\ copy.w) = ((low.w /\ top.w) /\ gc)
        BY <2>5
      <4>2. (low.x /\ ~copy.nx) = (low.x /\ ~top.nx)
        BY <2>5
      <4> QED BY <2>4, <2>6, <2>8, <4>1, <4>2
    <3> DEFINE a == low.w /\ top.w
               b == low.x /\ ~top.nx
               c == a /\ gc
               e == PageEntry(low.frame, a, b)
    <3>4. a \in BOOLEAN /\ b \in BOOLEAN /\ c \in BOOLEAN
      OBVIOUS
    <3>5. Translate(v) = e /\ Translate(Shadow(v)) = PageEntry(low.frame, c, b)
      BY <3>1, <3>2 DEF PageEntry
    <3>6. low.frame \in Int
      BY <2>3 DEF PageEntries
    <3> HIDE DEF a, b, c
    <3>7. e \in PageEntries /\ e.present = TRUE /\ e.frame = low.frame /\ e.w = a /\ e.x = b
      BY <3>4, <3>6 DEF PageEntry, PageEntries
    <3> HIDE DEF e
    <3>8. [e EXCEPT !.w = c] = PageEntry(low.frame, c, b)
      BY <3>4, <3>7, Narrowed DEF PageEntry
    <3>9. c = (Translate(v).w /\ gc)
      BY <3>5, <3>7 DEF c
    <3>3. Translate(Shadow(v)) = [Translate(v) EXCEPT !.w = Translate(v).w /\ gc]
      BY <3>5, <3>8, <3>9
    <3> QED BY <3>3 DEF gc, s
  <2> QED BY <2>7, <2>8
<1> QED BY <1>1, MapInductive, PTL

----------------------------------------------------------------------------
(* The pages of the kernel and the others. *)
CodeInv == PagesOK /\ CoveredOK

(* The entry of a page of the shadowed area is also that of its shadow, and of no other page. *)
LEMMA Homes ==
  ASSUME NEW v \in Shadowed, NEW s \in AllSlots, Twins(s, Slot(v))
  PROVE  /\ s \in 0 .. 2 * Slots - 1
         /\ HomeSlot(s) * SlotPages + Offset(v) = v
<1>1. v \in VirtPages /\ Slot(v) \in 0 .. Slots - 1
  BY ShadowPage
<1>2. v = Slot(v) * SlotPages + Offset(v)
  BY <1>1, PageNumbers
<1>3. s \in 0 .. 2 * Slots - 1 /\ HomeSlot(s) = Slot(v)
  BY <1>1, MappingsAssumption DEF Twins, HomeSlot, AllSlots
<1> QED BY <1>2, <1>3

(* A page that may be mapped by a fault is in the shadowed area. *)
LEMMA FaultPage ==
  ASSUME NEW v \in VirtPages, Lazy(v) \/ DirectMap(v)
  PROVE  v \in Shadowed
<1> USE MappingsAssumption
<1>1. v \in Nat /\ Slot(v) \in Nat /\ Offset(v) \in Offsets /\ v = Slot(v) * SlotPages + Offset(v)
  BY PageNumbers DEF AllSlots
<1>2. Slot(v) + 1 <= Slots
  BY <1>1 DEF Lazy, DirectMap, StackSlot
<1> DEFINE n == Slot(v) + 1
<1>3. n \in Nat /\ n <= Slots /\ v < n * SlotPages
  BY <1>1, <1>2 DEF Offsets
<1> HIDE DEF n
<1>4. n * SlotPages <= Slots * SlotPages
  BY <1>3
<1>5. n * SlotPages \in Nat /\ Slots * SlotPages \in Nat
  BY <1>3
<1> QED BY <1>1, <1>3, <1>4, <1>5 DEF Shadowed

(* The frames of the code are not usable memory. *)
LEMMA CodeFrames ==
  ASSUME MapTypes, Protects(memmap, kernel), NEW f \in CodeOf(kernel)
  PROVE  f \notin Usable
<1> SUFFICES ASSUME f \in Usable PROVE FALSE
  OBVIOUS
<1>1. PICK j \in 1 .. Len(memmap) :
        /\ memmap[j].type = "usable"
        /\ memmap[j].base <= 2 * f /\ 2 * f + 2 <= memmap[j].base + memmap[j].length
  BY DEF Usable
<1>5. memmap \in Seq(MapEntries)
  BY ImagesAssumption DEF MapTypes
<1>6. memmap[j] \in MapEntries
  BY <1>1, <1>5
<1>2. memmap[j].base \in Nat /\ memmap[j].length \in Nat /\ f \in Int
  BY <1>6 DEF MapEntries, Usable, Shadowed
<1>3. f \in PagesOf(memmap[j])
  BY <1>1, <1>2 DEF PagesOf, DIV_ROUND_UP
<1>4. IsMapped(memmap[j]) /\ memmap[j].type \notin ReadOnlyTypes
  BY <1>1 DEF IsMapped, UnmappedTypes, ReadOnlyTypes
<1> QED BY <1>3, <1>4 DEF Protects

(* Mapping pages keeps PagesOK when each entry fits its page. *)
LEMMA OthersStay ==
  ASSUME MapTypes, PagesOK, UNCHANGED <<kernel, memmap>>, lifted \subseteq lifted',
         \A s \in AllSlots, i \in Offsets :
            \/ Low(mm', s, i) = Low(mm, s, i)
            \/ s = 2 * Slots /\ KernelPage(i, Low(mm, s, i))'
            \/ \E v \in Shadowed : /\ i = Offset(v) /\ Twins(s, Slot(v))
                                   /\ OtherPage(v, Low(mm, s, i))'
  PROVE  PagesOK'
<1>0. Usable' = Usable
  BY DEF Usable
<1>1. ASSUME NEW i \in Offsets PROVE KernelPage(i, Low(mm, 2 * Slots, i))'
  <2>1. 2 * Slots \in AllSlots
    BY MappingsAssumption DEF AllSlots
  <2>2. \/ Low(mm', 2 * Slots, i) = Low(mm, 2 * Slots, i)
        \/ KernelPage(i, Low(mm, 2 * Slots, i))'
    <3>1. \A v \in Shadowed : ~Twins(2 * Slots, Slot(v))
      BY <2>1, Homes
    <3> QED BY <2>1, <3>1
  <2>3. KernelPage(i, Low(mm, 2 * Slots, i))
    BY DEF PagesOK
  <2> QED BY <1>0, <2>2, <2>3 DEF KernelPage
<1>2. ASSUME NEW s \in 0 .. 2 * Slots - 1, NEW i \in Offsets
      PROVE  OtherPage(HomeSlot(s) * SlotPages + i, Low(mm, s, i))'
  <2>1. s \in AllSlots /\ s # 2 * Slots
    BY MappingsAssumption DEF AllSlots
  <2>2. CASE Low(mm', s, i) = Low(mm, s, i)
    <3>1. OtherPage(HomeSlot(s) * SlotPages + i, Low(mm, s, i))
      BY DEF PagesOK
    <3> QED BY <1>0, <2>2, <3>1 DEF OtherPage
  <2>3. CASE \E v \in Shadowed : /\ i = Offset(v) /\ Twins(s, Slot(v))
                                 /\ OtherPage(v, Low(mm, s, i))'
    <3>1. PICK v \in Shadowed : /\ i = Offset(v) /\ Twins(s, Slot(v))
                                /\ OtherPage(v, Low(mm, s, i))'
      BY <2>3
    <3>2. HomeSlot(s) * SlotPages + i = v
      BY <2>1, <3>1, Homes
    <3> QED BY <3>1, <3>2 DEF OtherPage
  <2> QED BY <2>1, <2>2, <2>3
<1> QED BY <1>1, <1>2 DEF PagesOK

(* What was mapped stays mapped. *)
LEMMA CoveredStays ==
  ASSUME MapTypes, CoveredOK, UNCHANGED memmap,
         \A s \in AllSlots, i \in Offsets :
            \/ Low(mm', s, i) = Low(mm, s, i)
            \/ Low(mm', s, i).present,
         NEW j \in 1 .. Len(memmap), IsMapped(memmap[j]),
         mapStep = "run" \/ (mapStep = "memmap" /\ j <= done),
         NEW v \in PagesOf(memmap[j])
  PROVE  Low(mm', Slot(v), Offset(v)).present
<1>1. Low(mm, Slot(v), Offset(v)).present
  BY DEF CoveredOK
<1>2. v \in VirtPages
  <2>1. memmap[j] \in MapEntries /\ DIV_ROUND_UP(memmap[j].base + memmap[j].length, 2) <= Slots * SlotPages
    BY ImagesAssumption DEF MapTypes
  <2>2. /\ memmap[j].base \div 2 \in Nat
        /\ DIV_ROUND_UP(memmap[j].base + memmap[j].length, 2) \in Nat
    BY <2>1 DEF MapEntries, DIV_ROUND_UP
  <2>3. Slots * SlotPages \in Nat
    BY MappingsAssumption
  <2>4. v \in Shadowed
    BY <2>1, <2>2, <2>3 DEF PagesOf, Shadowed
  <2> QED BY <2>4, ShadowPage
<1>3. Slot(v) \in AllSlots /\ Offset(v) \in Offsets
  BY <1>2, PageNumbers
<1> QED BY <1>1, <1>3

(* A segment of the kernel. *)
LEMMA SegmentStep ==
  ASSUME MapTypes, CodeInv, init_virt_segment, mapStep' = "segments"
  PROVE  CodeInv'
<1> DEFINE g == kernel[done + 1]
           c == DIV_ROUND_UP(g.size, 2)
           f == g.at + KernelAt
           b == KernelBase + g.at
<1>1. /\ done + 1 \in 1 .. Len(kernel) /\ ~(g.w /\ g.x) /\ g \in Segments /\ c \in Nat
      /\ \A s \in AllSlots, i \in Offsets :
           \/ Low(mm', s, i) = Low(mm, s, i)
           \/ \E j \in 0 .. c - 1 : /\ Low(mm', s, i) = PageEntry(f + j, g.w, g.x)
                                    /\ i = Offset(b + j) /\ Twins(s, Slot(b + j))
      /\ \A j \in 0 .. c - 1 : /\ Slot(b + j) = 2 * Slots /\ Offset(b + j) = g.at + j
                               /\ g.at + j < JitAt
  BY SegmentMaps DEF MapsRange
<1>2. UNCHANGED <<kernel, memmap, lifted, Usable>> /\ mapStep = "segments"
  BY DEF init_virt_segment, Usable
<1>3. g.at \in Nat /\ KernelAt \in Nat
  BY <1>1, MappingsAssumption DEF Segments
<1>4. g.x => \A j \in 0 .. c - 1 : f + j \in CodeOf(kernel)
  <2> SUFFICES ASSUME g.x, NEW j \in 0 .. c - 1 PROVE f + j \in CodeOf(kernel)
    OBVIOUS
  <2>1. f + j \in g.at + KernelAt .. g.at + KernelAt + c - 1
    BY <1>1, <1>3, SMTT(60)
  <2> QED BY <1>1, <2>1 DEF CodeOf
<1> HIDE DEF g, c, f, b
<1>5. \A s \in AllSlots : Twins(s, 2 * Slots) => s = 2 * Slots
  BY MappingsAssumption DEF Twins, AllSlots
<1>6. ASSUME NEW i \in Offsets PROVE KernelPage(i, Low(mm, 2 * Slots, i))'
  <2>1. 2 * Slots \in AllSlots
    BY MappingsAssumption DEF AllSlots
  <2>2. CASE Low(mm', 2 * Slots, i) = Low(mm, 2 * Slots, i)
    <3>1. KernelPage(i, Low(mm, 2 * Slots, i))
      BY DEF CodeInv, PagesOK
    <3> QED BY <1>2, <2>2, <3>1 DEF KernelPage
  <2>3. ASSUME NEW j \in 0 .. c - 1, Low(mm', 2 * Slots, i) = PageEntry(f + j, g.w, g.x),
               i = Offset(b + j)
        PROVE  KernelPage(i, Low(mm, 2 * Slots, i))'
    <3> DEFINE e == PageEntry(f + j, g.w, g.x)
    <3>1. e.frame = f + j /\ e.w = g.w /\ e.x = g.x
      BY DEF PageEntry
    <3>2. i = g.at + j /\ i < JitAt
      BY <1>1, <2>3
    <3>3. f + j = i + KernelAt
      BY <1>1, <1>3, <3>2 DEF f
    <3> HIDE DEF e
    <3>4. e.frame = i + KernelAt /\ ~(e.w /\ e.x) /\ (e.x => e.frame \in CodeOf(kernel))
      BY <1>1, <1>4, <3>1, <3>3
    <3>5. Low(mm', 2 * Slots, i) = e
      BY <2>3 DEF e
    <3> QED BY <1>2, <3>2, <3>4, <3>5 DEF KernelPage
  <2> QED BY <1>1, <2>1, <2>2, <2>3
<1>7. ASSUME NEW s \in 0 .. 2 * Slots - 1, NEW i \in Offsets
      PROVE  OtherPage(HomeSlot(s) * SlotPages + i, Low(mm, s, i))'
  <2>1. s \in AllSlots /\ s # 2 * Slots
    BY MappingsAssumption DEF AllSlots
  <2>2. Low(mm', s, i) = Low(mm, s, i)
    BY <1>1, <1>5, <2>1
  <2>3. OtherPage(HomeSlot(s) * SlotPages + i, Low(mm, s, i))
    BY DEF CodeInv, PagesOK
  <2> QED BY <1>2, <2>2, <2>3 DEF OtherPage
<1> QED BY <1>2, <1>6, <1>7 DEF CodeInv, PagesOK, CoveredOK

(* A top-level entry of the shadowed area. *)
LEMMA ShadowStep ==
  ASSUME MapTypes, CodeInv, init_virt_shadow
  PROVE  CodeInv'
<1>1. /\ done \in 0 .. Slots - 1
      /\ \A s \in AllSlots, i \in Offsets :
           Low(mm', s, i) = Low(mm, IF s = done + Slots THEN done ELSE s, i)
  BY ShadowMaps
<1>2. UNCHANGED <<kernel, memmap, lifted, mapStep, Usable>> /\ mapStep = "shadow"
  BY DEF init_virt_shadow, Usable
<1>3. ASSUME NEW i \in Offsets PROVE KernelPage(i, Low(mm, 2 * Slots, i))'
  <2>1. 2 * Slots \in AllSlots /\ 2 * Slots # done + Slots
    BY <1>1, MappingsAssumption DEF AllSlots
  <2>2. Low(mm', 2 * Slots, i) = Low(mm, 2 * Slots, i)
    BY <1>1, <2>1
  <2>3. KernelPage(i, Low(mm, 2 * Slots, i))
    BY DEF CodeInv, PagesOK
  <2> QED BY <1>2, <2>2, <2>3 DEF KernelPage
<1>4. ASSUME NEW s \in 0 .. 2 * Slots - 1, NEW i \in Offsets
      PROVE  OtherPage(HomeSlot(s) * SlotPages + i, Low(mm, s, i))'
  <2> DEFINE u == IF s = done + Slots THEN done ELSE s
  <2>1. s \in AllSlots /\ u \in 0 .. 2 * Slots - 1 /\ HomeSlot(u) = HomeSlot(s)
    BY <1>1, MappingsAssumption DEF AllSlots, HomeSlot
  <2>2. Low(mm', s, i) = Low(mm, u, i)
    BY <1>1, <2>1
  <2> HIDE DEF u
  <2>3. OtherPage(HomeSlot(u) * SlotPages + i, Low(mm, u, i))
    BY <2>1 DEF CodeInv, PagesOK
  <2> QED BY <1>2, <2>1, <2>2, <2>3 DEF OtherPage
<1> QED BY <1>2, <1>3, <1>4 DEF CodeInv, PagesOK, CoveredOK

(* An entry of the memory map. *)
LEMMA MemmapStep ==
  ASSUME MapTypes, CodeInv, Protects(memmap, kernel), init_phys_mappings
  PROVE  CodeInv'
<1> DEFINE e == memmap[done + 1]
           first == e.base \div 2
           c == DIV_ROUND_UP(e.base + e.length, 2) - first
           w == e.type \notin ReadOnlyTypes
<1>1. /\ done \in 0 .. Len(memmap) - 1 /\ first \in Nat /\ c \in Nat
      /\ IF IsMapped(e) THEN MapsRange(mm, mm', first, first, c, w, FALSE) ELSE mm' = mm
      /\ \A j \in 0 .. c - 1 : first + j \in Shadowed /\ first + j \in PagesOf(e)
      /\ \A v \in PagesOf(e) : \E j \in 0 .. c - 1 : v = first + j
  BY MemmapMaps
<1>2. UNCHANGED <<mapStep, kernel, memmap, lifted>> /\ mapStep = "memmap" /\ done' = done + 1
  BY DEF init_phys_mappings
<1>3. done + 1 \in 1 .. Len(memmap) /\ done \in Nat
  BY <1>1
<1> HIDE DEF first, c, w
<1>4. IsMapped(e) => \A j \in 0 .. c - 1 : Low(mm', Slot(first + j), Offset(first + j)).present
  BY <1>1 DEF MapsRange
<1>5. ASSUME NEW s \in AllSlots, NEW i \in Offsets
      PROVE  \/ Low(mm', s, i) = Low(mm, s, i)
             \/ \E v \in Shadowed : /\ i = Offset(v) /\ Twins(s, Slot(v))
                                    /\ Low(mm', s, i) = PageEntry(v, w, FALSE)
                                    /\ IsMapped(e) /\ v \in PagesOf(e)
  <2>1. CASE ~IsMapped(e)
    BY <1>1, <2>1
  <2>2. CASE IsMapped(e)
    <3>1. \/ Low(mm', s, i) = Low(mm, s, i)
          \/ \E j \in 0 .. c - 1 : /\ Low(mm', s, i) = PageEntry(first + j, w, FALSE)
                                   /\ i = Offset(first + j) /\ Twins(s, Slot(first + j))
      BY <1>1, <2>2 DEF MapsRange
    <3> QED BY <1>1, <2>2, <3>1
  <2> QED BY <2>1, <2>2
<1>6. ASSUME NEW v, IsMapped(e), v \in PagesOf(e), w PROVE v \notin CodeOf(kernel)
  BY <1>3, <1>6 DEF Protects, w
<1>7. \A v : PageEntry(v, w, FALSE).frame = v /\ PageEntry(v, w, FALSE).w = w
             /\ PageEntry(v, w, FALSE).x = FALSE /\ PageEntry(v, w, FALSE).present
  BY DEF PageEntry
<1>8. PagesOK'
  <2>1. ASSUME NEW s \in AllSlots, NEW i \in Offsets
        PROVE  \/ Low(mm', s, i) = Low(mm, s, i)
               \/ \E v \in Shadowed : /\ i = Offset(v) /\ Twins(s, Slot(v))
                                      /\ OtherPage(v, Low(mm, s, i))'
    <3>1. ASSUME NEW v \in Shadowed, Low(mm', s, i) = PageEntry(v, w, FALSE),
                 IsMapped(e), v \in PagesOf(e)
          PROVE  OtherPage(v, Low(mm, s, i))'
      <4>1. Low(mm', s, i).w = w /\ Low(mm', s, i).x = FALSE /\ Low(mm', s, i).frame = v
        BY <1>7, <3>1
      <4>2. w => v \notin CodeOf(kernel')
        BY <1>2, <1>6, <3>1
      <4> QED BY <4>1, <4>2 DEF OtherPage
    <3> QED BY <1>5, <3>1
  <2> QED BY <1>2, <2>1, OthersStay DEF CodeInv
<1>9. CoveredOK'
  <2>1. \A s \in AllSlots, i \in Offsets :
            \/ Low(mm', s, i) = Low(mm, s, i)
            \/ Low(mm', s, i).present
    BY <1>5, <1>7
  <2>2. ASSUME NEW j \in 1 .. Len(memmap), j <= done + 1, IsMapped(memmap[j]),
               NEW v \in PagesOf(memmap[j])
        PROVE  Low(mm', Slot(v), Offset(v)).present
    <3>1. CASE j <= done
      BY <1>2, <2>1, <2>2, <3>1, CoveredStays DEF CodeInv
    <3>2. CASE ~(j <= done)
      <4>1. j = done + 1
        BY <1>3, <2>2, <3>2
      <4>2. IsMapped(e) /\ v \in PagesOf(e)
        BY <2>2, <4>1
      <4> QED BY <1>1, <1>4, <4>2
    <3> QED BY <3>1, <3>2
  <2> QED BY <1>2, <2>2 DEF CoveredOK
<1> QED BY <1>8, <1>9 DEF CodeInv

(* A page fault: over code it maps a page that was mapped read-only. *)
LEMMA FaultStep ==
  ASSUME MapTypes, CodeInv, Protects(memmap, kernel),
         NEW v \in VirtPages, NEW write \in BOOLEAN,
         virt_handle_page_fault(v, write), mapStep' = "run"
  PROVE  CodeInv'
<1>5. PICK f \in Usable \cup {v} : Maps(mm, mm', v, PageEntry(f, TRUE, FALSE))
  BY FaultMaps
<1> DEFINE e == PageEntry(f, TRUE, FALSE)
<1>1. /\ Lazy(v) \/ DirectMap(v)
      /\ Maps(mm, mm', v, e)
      /\ lifted' = IF Translate(v).present THEN lifted \cup {v} ELSE lifted
  BY <1>5, FaultMaps
<1>2. UNCHANGED <<kernel, memmap, done, Usable>> /\ mapStep = "run"
  BY DEF virt_handle_page_fault, Usable
<1>3. v \in Shadowed
  BY <1>1, FaultPage
<1>4. e.frame = f /\ e.x = FALSE /\ e.present = TRUE
  BY DEF PageEntry
<1>6. \A s \in AllSlots, i \in Offsets :
         \/ Low(mm', s, i) = Low(mm, s, i)
         \/ Low(mm', s, i) = e /\ i = Offset(v) /\ Twins(s, Slot(v))
  BY <1>1 DEF Maps
<1> HIDE DEF e
<1>7. v \in CodeOf(kernel) => v \in lifted'
  <2> SUFFICES ASSUME v \in CodeOf(kernel) PROVE Translate(v).present
    BY <1>1
  <2>1. PICK j \in 1 .. Len(memmap) : IsMapped(memmap[j]) /\ v \in PagesOf(memmap[j])
    BY DEF Protects
  <2>2. Low(mm, Slot(v), Offset(v)).present
    BY <1>2, <2>1 DEF CodeInv, CoveredOK
  <2>3. Translate(v) = [present |-> TRUE, frame |-> Low(mm, Slot(v), Offset(v)).frame,
                        w |-> Low(mm, Slot(v), Offset(v)).w /\ mm.pml4[Slot(v)].w,
                        x |-> Low(mm, Slot(v), Offset(v)).x /\ ~mm.pml4[Slot(v)].nx]
    BY <2>2, TranslateIs DEF MapTypes
  <2> QED BY <2>3
<1>8. PagesOK'
  <2>1. ASSUME NEW s \in AllSlots, NEW i \in Offsets
        PROVE  \/ Low(mm', s, i) = Low(mm, s, i)
               \/ \E u \in Shadowed : /\ i = Offset(u) /\ Twins(s, Slot(u))
                                      /\ OtherPage(u, Low(mm, s, i))'
    <3>1. ASSUME Low(mm', s, i) = e PROVE OtherPage(v, Low(mm, s, i))'
      <4>1. v \in CodeOf(kernel') => v \in lifted'
        BY <1>2, <1>7
      <4> QED BY <1>2, <1>4, <3>1, <4>1 DEF OtherPage
    <3> QED BY <1>3, <1>6, <3>1
  <2>2. lifted \subseteq lifted'
    BY <1>1
  <2> QED BY <1>2, <2>1, <2>2, OthersStay DEF CodeInv
<1>9. CoveredOK'
  <2>1. \A s \in AllSlots, i \in Offsets :
            \/ Low(mm', s, i) = Low(mm, s, i)
            \/ Low(mm', s, i).present
    BY <1>4, <1>6
  <2>2. ASSUME NEW j \in 1 .. Len(memmap), IsMapped(memmap[j]), NEW u \in PagesOf(memmap[j])
        PROVE  Low(mm', Slot(u), Offset(u)).present
    BY <1>2, <2>1, <2>2, CoveredStays DEF CodeInv
  <2> QED BY <1>2, <2>2 DEF CoveredOK
<1> QED BY <1>8, <1>9 DEF CodeInv

(* The memory of the JIT: usable frames, so never the code of the kernel. *)
LEMMA JitStep ==
  ASSUME MapTypes, CodeInv, NEW v \in JitPages, virt_alloc_range(v) \/ virt_remap_range(v)
  PROVE  CodeInv'
<1>1. PICK f, w, x : /\ f \in Usable \/ (Translate(v).present /\ f = Translate(v).frame)
                     /\ Maps(mm, mm', v, PageEntry(f, w, x))
  BY JitMaps
<1> DEFINE e == PageEntry(f, w, x)
<1>2. UNCHANGED <<mapStep, kernel, memmap, done, lifted, Usable>> /\ mapStep = "run"
  BY DEF virt_alloc_range, virt_remap_range, Usable
<1>3. v \in VirtPages /\ Slot(v) = 2 * Slots /\ Offset(v) \in Offsets /\ ~(Offset(v) < JitAt)
  BY JitPage, MappingsAssumption DEF Offsets
<1>4. f \in Usable
  <2> SUFFICES ASSUME Translate(v).present PROVE Translate(v).frame \in Usable
    BY <1>1
  <2> DEFINE low == Low(mm, Slot(v), Offset(v))
  <2>1. Translate(v) = IF low.present
                       THEN [present |-> TRUE, frame |-> low.frame,
                             w |-> low.w /\ mm.pml4[Slot(v)].w, x |-> low.x /\ ~mm.pml4[Slot(v)].nx]
                       ELSE NoPage
    BY <1>3, TranslateIs DEF MapTypes
  <2>2. low.present => low.frame \in Usable
    BY <1>3 DEF CodeInv, PagesOK, KernelPage
  <2> HIDE DEF low
  <2> QED BY <2>1, <2>2 DEF NoPage
<1>5. e.frame = f /\ e.present = TRUE
  BY DEF PageEntry
<1>6. \A s \in AllSlots, i \in Offsets :
         \/ Low(mm', s, i) = Low(mm, s, i)
         \/ Low(mm', s, i) = e /\ i = Offset(v) /\ Twins(s, Slot(v))
  BY <1>1 DEF Maps
<1> HIDE DEF e
<1>7. \A s \in AllSlots : Twins(s, 2 * Slots) => s = 2 * Slots
  BY MappingsAssumption DEF Twins, AllSlots
<1>8. PagesOK'
  <2>1. ASSUME NEW s \in AllSlots, NEW i \in Offsets, Low(mm', s, i) # Low(mm, s, i)
        PROVE  s = 2 * Slots /\ KernelPage(i, Low(mm, s, i))'
    BY <1>2, <1>3, <1>4, <1>5, <1>6, <1>7, <2>1 DEF KernelPage
  <2> QED BY <1>2, <2>1, OthersStay DEF CodeInv
<1>9. CoveredOK'
  <2>1. \A s \in AllSlots, i \in Offsets :
            \/ Low(mm', s, i) = Low(mm, s, i)
            \/ Low(mm', s, i).present
    BY <1>5, <1>6
  <2>2. ASSUME NEW j \in 1 .. Len(memmap), IsMapped(memmap[j]), NEW u \in PagesOf(memmap[j])
        PROVE  Low(mm', Slot(u), Offset(u)).present
    BY <1>2, <2>1, <2>2, CoveredStays DEF CodeInv
  <2> QED BY <1>2, <2>2 DEF CoveredOK
<1> QED BY <1>8, <1>9 DEF CodeInv

(* Every step keeps the pages in order. *)
LEMMA CodeInvStep ==
  ASSUME \A k \in Kernels, m \in MemMaps : Protects(m, k)
  PROVE  MapInv /\ CodeInv /\ [MapNext]_mapVars => CodeInv'
<1> SUFFICES ASSUME MapTypes, CodeInv, [MapNext]_mapVars PROVE CodeInv'
  BY DEF MapInv
<1>0. Protects(memmap, kernel)
  BY DEF MapTypes
<1>1. ASSUME UNCHANGED <<kernel, memmap, mm, lifted>>,
             \A j \in 1 .. Len(memmap) :
                mapStep' = "run" \/ (mapStep' = "memmap" /\ j <= done') =>
                   mapStep = "run" \/ (mapStep = "memmap" /\ j <= done)
      PROVE  CodeInv'
  <2>1. PagesOK'
    BY <1>1 DEF CodeInv, PagesOK, KernelPage, OtherPage, Usable
  <2>2. CoveredOK'
    BY <1>1 DEF CodeInv, CoveredOK
  <2> QED BY <2>1, <2>2 DEF CodeInv
<1>2. CASE UNCHANGED mapVars
  BY <1>1, <1>2 DEF mapVars
<1>3. CASE init_fails \/ init_virt_early
  BY <1>1, <1>3 DEF init_fails, init_virt_early
<1>4. CASE init_virt_segment
  <2>1. CASE mapStep' = "segments"
    BY <1>4, <2>1, SegmentStep
  <2>2. CASE mapStep' # "segments"
    BY <1>1, <1>4, <2>2 DEF init_virt_segment
  <2> QED BY <2>1, <2>2
<1>5. CASE NextLoop("segments", Len(kernel), "shadow")
  BY <1>1, <1>5 DEF NextLoop
<1>6. CASE init_virt_shadow
  BY <1>6, ShadowStep
<1>7. CASE NextLoop("shadow", Slots, "memmap")
  BY <1>1, <1>7 DEF NextLoop
<1>8. CASE init_phys_mappings
  BY <1>0, <1>8, MemmapStep
<1>9. CASE NextLoop("memmap", Len(memmap), "run")
  <2>1. \A j \in 1 .. Len(memmap) : j <= done
    BY <1>9 DEF NextLoop
  <2> QED BY <1>1, <1>9, <2>1 DEF NextLoop
<1>10. ASSUME NEW v \in VirtPages, NEW write \in BOOLEAN, virt_handle_page_fault(v, write)
       PROVE  CodeInv'
  <2>1. CASE mapStep' = "run"
    BY <1>0, <1>10, <2>1, FaultStep
  <2>2. CASE mapStep' # "run"
    BY <1>1, <1>10, <2>2 DEF virt_handle_page_fault
  <2> QED BY <2>1, <2>2
<1>11. ASSUME NEW v \in JitPages, virt_alloc_range(v) \/ virt_remap_range(v)
       PROVE  CodeInv'
  BY <1>11, JitStep
<1>12. CASE alloc_fails
  BY <1>1, <1>12 DEF alloc_fails
<1> QED BY <1>2, <1>3, <1>4, <1>5, <1>6, <1>7, <1>8, <1>9, <1>10, <1>11, <1>12 DEF MapNext

LEMMA CodeInvInit == MapInit => CodeInv
<1> SUFFICES ASSUME MapInit PROVE CodeInv
  OBVIOUS
<1>1. mapStep = "early" /\ mm.pml4 = [s \in AllSlots |-> NoTable]
  BY DEF MapInit, MapInitWith, AllSlots
<1>2. \A s \in AllSlots : ~mm.pml4[s].present
  BY <1>1 DEF NoTable
<1>3. \A s \in AllSlots : \A i : ~Low(mm, s, i).present
  BY <1>2 DEF Low, NoPage
<1>4. 2 * Slots \in AllSlots /\ \A s \in 0 .. 2 * Slots - 1 : s \in AllSlots
  BY MappingsAssumption DEF AllSlots
<1>5. PagesOK
  BY <1>3, <1>4 DEF PagesOK, KernelPage, OtherPage
<1> QED BY <1>1, <1>5 DEF CodeInv, CoveredOK

(* What may be done with a page, in terms of its entry. *)
LEMMA Rights ==
  ASSUME MapTypes, NEW v \in VirtPages
  PROVE  LET low == Low(mm, Slot(v), Offset(v)) IN
         /\ Translate(v).x => low.present /\ low.x /\ Translate(v).frame = low.frame
         /\ Translate(v).w => low.present /\ low.w /\ Translate(v).frame = low.frame
<1> DEFINE low == Low(mm, Slot(v), Offset(v))
           top == mm.pml4[Slot(v)]
<1>1. Translate(v) = IF low.present
                     THEN [present |-> TRUE, frame |-> low.frame,
                           w |-> low.w /\ top.w, x |-> low.x /\ ~top.nx]
                     ELSE NoPage
  BY TranslateIs DEF MapTypes
<1> HIDE DEF low, top
<1>2. CASE low.present
  <2>1. /\ Translate(v).w = (low.w /\ top.w) /\ Translate(v).x = (low.x /\ ~top.nx)
        /\ Translate(v).frame = low.frame
    BY <1>1, <1>2
  <2> QED BY <1>2, <2>1 DEF low
<1>3. CASE ~low.present
  <2>1. Translate(v).w = FALSE /\ Translate(v).x = FALSE
    BY <1>1, <1>3 DEF NoPage
  <2> QED BY <2>1 DEF low
<1> QED BY <1>2, <1>3

(* The pages of the kernel's image. *)
LEMMA ImagePage ==
  ASSUME NEW v \in ImagePages
  PROVE  v \in VirtPages /\ Slot(v) = 2 * Slots /\ Offset(v) < JitAt
<1> DEFINE i == v - KernelBase
<1>1. KernelBase \in Nat /\ KernelBase = 2 * Slots * SlotPages /\ 2 * Slots \in AllSlots
  BY MappingsAssumption DEF KernelBase, AllSlots
<1>2. i \in Offsets /\ i < JitAt /\ v = KernelBase + i
  BY <1>1, MappingsAssumption DEF ImagePages, Offsets
<1> HIDE DEF i
<1>3. v = 2 * Slots * SlotPages + i
  BY <1>1, <1>2
<1> QED BY <1>1, <1>2, <1>3, PageAt

(***************************************************************************)
(* When the boot loader reports the memory of every code segment, and only *)
(* as read-only, no frame that is executable in the kernel's image is      *)
(* writable anywhere: not in another segment (init_virt refuses one that   *)
(* is both), not through the memory of the JIT or a fault, which get       *)
(* usable frames, not in the direct map or its shadow, except where a      *)
(* write fault on the direct map lifted the protection.  The code of the   *)
(* JIT is not protected: its frames stay writable in the direct map.       *)
(***************************************************************************)
THEOREM CodeStaysReadOnly ==
  ASSUME \A k \in Kernels, m \in MemMaps : Protects(m, k)
  PROVE  MapSpec => []CodeIsReadOnly
<1>1. MapInv /\ CodeInv => CodeIsReadOnly
  <2> SUFFICES ASSUME MapTypes, CodeInv, Protects(memmap, kernel),
                      NEW u \in ImagePages, Translate(u).x,
                      NEW v \in VirtPages, Translate(v).w, Translate(v).frame = Translate(u).frame
               PROVE  v \in lifted \cup {Shadow(p) : p \in lifted}
    BY DEF MapInv, MapTypes, CodeIsReadOnly
  <2> DEFINE ue == Low(mm, Slot(u), Offset(u))
             ve == Low(mm, Slot(v), Offset(v))
  <2>0. u \in VirtPages /\ Slot(u) = 2 * Slots /\ Offset(u) < JitAt
    BY ImagePage
  <2>1. /\ ue.present /\ ue.x /\ ve.present /\ ve.w /\ ve.frame = ue.frame
    BY <2>0, Rights
  <2>2. /\ Slot(u) \in AllSlots /\ Offset(u) \in Offsets /\ Slot(v) \in AllSlots /\ Offset(v) \in Offsets
        /\ v = Slot(v) * SlotPages + Offset(v)
    BY <2>0, PageNumbers
  <2>4. ue.frame = Offset(u) + KernelAt /\ ue.frame \in CodeOf(kernel) /\ ~ue.w
    BY <2>0, <2>1, <2>2 DEF CodeInv, PagesOK, KernelPage
  <2>8. ve.frame \notin Usable
    BY <2>1, <2>4, CodeFrames
  <2>5. Slot(v) # 2 * Slots
    <3> SUFFICES ASSUME Slot(v) = 2 * Slots PROVE FALSE
      OBVIOUS
    <3>1. ve.frame = Offset(v) + KernelAt
      BY <2>1, <2>2, <2>8 DEF CodeInv, PagesOK, KernelPage
    <3>2. Offset(v) = Offset(u)
      BY <2>1, <2>2, <2>4, <3>1, MappingsAssumption DEF Offsets
    <3> QED BY <2>0, <2>1, <2>4, <3>2
  <2>6. Slot(v) \in 0 .. 2 * Slots - 1
    BY <2>2, <2>5, MappingsAssumption DEF AllSlots
  <2> DEFINE p == HomeSlot(Slot(v)) * SlotPages + Offset(v)
  <2>7. OtherPage(p, ve)
    BY <2>2, <2>6 DEF CodeInv, PagesOK
  <2> HIDE DEF p, ue, ve
  <2>9. p \in lifted
    BY <2>1, <2>4, <2>7, <2>8 DEF OtherPage
  <2>10. v = p \/ v = Shadow(p)
    BY <2>2, <2>6, MappingsAssumption DEF p, HomeSlot, Shadow, Offsets
  <2> QED BY <2>9, <2>10
<1> QED BY <1>1, CodeInvInit, CodeInvStep, MapInvInit, MapInvStep, PTL DEF MapSpec
=============================================================================
