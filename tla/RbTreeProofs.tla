---------------------------- MODULE RbTreeProofs ----------------------------
(***************************************************************************)
(* Proofs about RbTree, for any set of nodes, any keys and any order of    *)
(* the operations: the tree keeps its structure and the rules of its       *)
(* colours.                                                                *)
(*                                                                         *)
(* The argument has three parts.                                           *)
(*   - Shape: parents and children name each other, a node outside the     *)
(*     tree has neither, and a rank falls along every link, so there is no *)
(*     cycle.  Every change of the links is a rotation (Lifted), a new     *)
(*     leaf (NewNode), a node cut out (CutOut) or two nodes exchanged      *)
(*     (Renamed); each of these keeps Shape, and each handler is shown to  *)
(*     be one of them, or two.                                             *)
(*   - Loops: where an operation stands while it goes down or back up.     *)
(*   - Rules: the colours, and a height h of each node with the black      *)
(*     nodes below it.  While __rb_insert works, one red node may have a   *)
(*     red parent; while ____rb_erase_color works, one side of one node is *)
(*     one black node short (the gap).  A round closes the exception or    *)
(*     moves it up.                                                        *)
(* The last round, the one that ends a loop, leaves no exception behind.   *)
(***************************************************************************)
EXTENDS RbTree, PowersProofs

(* What the fields of a tree hold. *)
TreeOK(t) ==
    t \in [root : Pointer, child : [Nodes -> [Sides -> Pointer]],
           up : [Nodes -> Pointer], black : [Nodes -> BOOLEAN]]

In(t, n) == t.root = n \/ t.up[n] # NULL

(* There are two sides, and each is the opposite of the other. *)
LEMMA SidesAre ==
  ASSUME NEW d \in Sides
  PROVE  /\ Opposite(d) \in Sides /\ Opposite(d) # d /\ Opposite(Opposite(d)) = d
         /\ \A e \in Sides : e = d \/ e = Opposite(d)
         /\ "left" \in Sides /\ "right" \in Sides
BY DEF Sides, Opposite

(* NULL is not a node. *)
LEMMA NullIsNoNode == NULL \notin Nodes
BY RbAssumption

----------------------------------------------------------------------------
(* What the elementary updates change. *)
LinkedTo(t, u, n, d, c) ==
    /\ TreeOK(u) /\ u.root = t.root /\ u.up = t.up /\ u.black = t.black
    /\ \A m \in Nodes, e \in Sides :
         u.child[m][e] = IF m = n /\ e = d THEN c ELSE t.child[m][e]

Painted(t, u, n, p, b) ==
    /\ TreeOK(u) /\ u.root = t.root /\ u.child = t.child
    /\ \A m \in Nodes : u.up[m] = IF m = n THEN p ELSE t.up[m]
    /\ \A m \in Nodes : u.black[m] = IF m = n THEN b ELSE t.black[m]

Moved(t, u, n, p) ==
    /\ TreeOK(u) /\ u.root = t.root /\ u.child = t.child /\ u.black = t.black
    /\ \A m \in Nodes : u.up[m] = IF m = n THEN p ELSE t.up[m]

Replaced(t, u, old, new, p) ==
    /\ TreeOK(u) /\ u.up = t.up /\ u.black = t.black
    /\ u.root = IF p = NULL THEN new ELSE t.root
    /\ \A m \in Nodes, e \in Sides :
         u.child[m][e] = IF m = p /\ t.child[m][e] = old THEN new ELSE t.child[m][e]

(* n hangs from one of the links of p, or is the root *)
HangsFrom(t, n, p) ==
    p # NULL => \E d \in Sides : t.child[p][d] = n /\ t.child[p][Opposite(d)] # n

(* Setting one link leaves every other link, parent and colour alone. *)
LEMMA LinkedIs ==
  ASSUME NEW t, TreeOK(t), NEW n \in Nodes, NEW d \in Sides, NEW c \in Pointer
  PROVE  LinkedTo(t, Linked(t, n, d, c), n, d, c)
BY DEF TreeOK, Linked, LinkedTo

(* rb_set_parent_color sets the parent and the colour of n alone. *)
LEMMA PaintedIs ==
  ASSUME NEW t, TreeOK(t), NEW n \in Pointer, NEW p \in Pointer, NEW b \in BOOLEAN
  PROVE  Painted(t, rb_set_parent_color(t, n, p, b), n, p, b)
<1> DEFINE u == rb_set_parent_color(t, n, p, b)
<1>1. TreeOK(u) /\ u.root = t.root /\ u.child = t.child
  BY DEF TreeOK, rb_set_parent_color
<1>2. \A m \in Nodes : u.up[m] = IF m = n THEN p ELSE t.up[m]
  BY NullIsNoNode DEF TreeOK, rb_set_parent_color, Pointer
<1>3. \A m \in Nodes : u.black[m] = IF m = n THEN b ELSE t.black[m]
  BY NullIsNoNode DEF TreeOK, rb_set_parent_color, Pointer
<1> QED BY <1>1, <1>2, <1>3 DEF Painted

(* The same below a test for NULL. *)
LEMMA SetIfAnyIs ==
  ASSUME NEW t, TreeOK(t), NEW n \in Pointer, NEW p \in Pointer, NEW b \in BOOLEAN
  PROVE  Painted(t, SetIfAny(t, n, p, b), n, p, b)
<1>1. CASE n = NULL
  BY <1>1, NullIsNoNode DEF SetIfAny, Painted
<1>2. CASE n # NULL
  BY <1>2, PaintedIs DEF SetIfAny
<1> QED BY <1>1, <1>2

(* rb_set_parent sets the parent of n alone. *)
LEMMA SetParentIs ==
  ASSUME NEW t, TreeOK(t), NEW n \in Pointer, NEW p \in Pointer
  PROVE  Moved(t, rb_set_parent(t, n, p), n, p)
BY NullIsNoNode DEF TreeOK, rb_set_parent, Pointer, Moved

(* new takes the place of old, whether that is the root or below a node. *)
LEMMA ChangeChildIs ==
  ASSUME NEW t, TreeOK(t), NEW old \in Nodes, NEW new \in Pointer, NEW p \in Pointer,
         HangsFrom(t, old, p)
  PROVE  Replaced(t, rb_change_child(t, old, new, p), old, new, p)
<1> DEFINE u == rb_change_child(t, old, new, p)
<1>1. CASE p = NULL
  BY <1>1, NullIsNoNode DEF rb_change_child, TreeOK, Pointer, Replaced
<1>2. CASE p # NULL
  <2> DEFINE s == IF t.child[p].left = old THEN "left" ELSE "right"
  <2>1. p \in Nodes /\ s \in Sides /\ u = Linked(t, p, s, new)
    BY <1>2 DEF rb_change_child, Pointer, Sides
  <2>2. t.child[p]["left"] = t.child[p].left
    BY <2>1 DEF TreeOK
  <2>3. \A e \in Sides : t.child[p][e] = old <=> e = s
    BY <1>2, <2>2 DEF Sides, Opposite, HangsFrom
  <2> HIDE DEF s, u
  <2>4. LinkedTo(t, u, p, s, new)
    BY <2>1, LinkedIs
  <2> QED BY <1>2, <2>3, <2>4 DEF LinkedTo, Replaced, u
<1> QED BY <1>1, <1>2

----------------------------------------------------------------------------
(* Parents and children name each other, and a node outside the tree has no *)
(* children.                                                                *)
Links(t) ==
    /\ \A n \in Nodes, d \in Sides : t.child[n][d] # NULL =>
          /\ t.up[t.child[n][d]] = n
          /\ t.child[n][d] # t.child[n][Opposite(d)]
    /\ \A n \in Nodes : t.up[n] # NULL => \E d \in Sides : t.child[t.up[n]][d] = n
    /\ t.root # NULL => t.up[t.root] = NULL
    /\ \A n \in Nodes : ~In(t, n) => \A d \in Sides : t.child[n][d] = NULL

(* There is no cycle: a rank that falls from each node to its children. *)
Ranked(t, r, B) ==
    /\ B \in Nat /\ r \in [Nodes -> 0 .. B]
    /\ \A n \in Nodes, d \in Sides : t.child[n][d] # NULL => r[t.child[n][d]] < r[n]

(* A rotation: c, the child of p on side e, rises above p. *)
Lifted(t, u, p, c, e) ==
    LET d == Opposite(e) IN
    /\ u.root = IF t.root = p THEN c ELSE t.root
    /\ \A m \in Nodes, x \in Sides :
         u.child[m][x] = IF m = p /\ x = e THEN t.child[c][d]
                         ELSE IF m = c /\ x = d THEN p
                         ELSE IF t.child[m][x] = p THEN c ELSE t.child[m][x]
    /\ \A m \in Nodes : u.up[m] = IF m = p THEN c ELSE IF m = c THEN t.up[p]
                                  ELSE IF m = t.child[c][d] THEN p ELSE t.up[m]

(* A node is neither its own child nor a child of its child. *)
LEMMA RankedApart ==
  ASSUME NEW t, TreeOK(t), Links(t), NEW r, NEW B, Ranked(t, r, B)
  PROVE  /\ \A n \in Nodes, d \in Sides : t.child[n][d] # n
         /\ \A n \in Nodes : t.up[n] # n /\ (t.up[n] # NULL => r[n] < r[t.up[n]])
         /\ \A n \in Nodes, d, e \in Sides :
              t.child[n][d] # NULL => t.child[t.child[n][d]][e] # n
<1>1. ASSUME NEW n \in Nodes, NEW d \in Sides PROVE t.child[n][d] # n
  <2>1. r[n] \in Nat /\ n # NULL
    BY NullIsNoNode DEF Ranked
  <2> QED BY <2>1 DEF Ranked
<1>2. ASSUME NEW n \in Nodes, t.up[n] # NULL PROVE t.up[n] # n /\ r[n] < r[t.up[n]]
  <2>1. t.up[n] \in Nodes /\ n # NULL
    BY <1>2, NullIsNoNode DEF TreeOK, Pointer
  <2>2. PICK d \in Sides : t.child[t.up[n]][d] = n
    BY <1>2 DEF Links
  <2>3. r[n] < r[t.up[n]]
    BY <2>1, <2>2 DEF Ranked
  <2>4. t.up[n] # n
    BY <1>1, <2>1, <2>2
  <2> QED BY <2>3, <2>4
<1>3. ASSUME NEW n \in Nodes, NEW d \in Sides, NEW e \in Sides, t.child[n][d] # NULL
      PROVE  t.child[t.child[n][d]][e] # n
  <2> DEFINE c == t.child[n][d]
  <2>1. c \in Nodes /\ n # NULL
    BY <1>3, NullIsNoNode DEF TreeOK, Pointer
  <2>2. r[c] \in Nat /\ r[n] \in Nat /\ r[c] < r[n]
    BY <1>3, <2>1 DEF Ranked
  <2>3. t.child[c][e] = n => r[n] < r[c]
    BY <2>1 DEF Ranked
  <2> QED BY <2>2, <2>3
<1> QED
  BY <1>1, <1>2, <1>3, NullIsNoNode

(* A rotation keeps the structure and the set of nodes. *)
LEMMA LiftKeepsLinks ==
  ASSUME NEW t, TreeOK(t), Links(t), NEW r, NEW B, Ranked(t, r, B),
         NEW p \in Nodes, In(t, p), NEW e \in Sides, NEW c \in Nodes, t.child[p][e] = c,
         NEW u, TreeOK(u), Lifted(t, u, p, c, e)
  PROVE  /\ Links(u)
         /\ \E s, C : Ranked(u, s, C)
         /\ \A m \in Nodes : In(u, m) <=> In(t, m)
<1> DEFINE d == Opposite(e)
           i == t.child[c][d]
           f == t.up[p]
<1>0. d \in Sides /\ d # e /\ (\A x \in Sides : x = d \/ x = e) /\ Opposite(d) = e
  BY SidesAre
<1> HIDE DEF d
<1>1. i \in Pointer /\ f \in Pointer /\ c # NULL /\ p # NULL /\ NULL \notin Nodes /\ (\A x \in Pointer : x \in Nodes \/ x = NULL)
  BY <1>0, NullIsNoNode DEF TreeOK, Pointer
<1>2. c # p /\ i # c /\ i # p /\ f # p /\ f # c
  <2>1. f = c => FALSE
    BY <1>1, RankedApart DEF Links
  <2> QED BY <1>0, <1>1, <2>1, RankedApart
<1>3. t.up[c] = p /\ (i # NULL => t.up[i] = c) /\ t.child[p][d] # c
  BY <1>0, <1>1 DEF Links
<1>4. /\ u.root = IF t.root = p THEN c ELSE t.root
      /\ \A m \in Nodes, x \in Sides :
           u.child[m][x] = IF m = p /\ x = e THEN i
                           ELSE IF m = c /\ x = d THEN p
                           ELSE IF t.child[m][x] = p THEN c ELSE t.child[m][x]
      /\ \A m \in Nodes : u.up[m] = IF m = p THEN c ELSE IF m = c THEN f
                                    ELSE IF m = i THEN p ELSE t.up[m]
  BY DEF Lifted, d
<1>5. \A m \in Nodes, x \in Sides : t.child[m][x] \in Pointer /\ u.child[m][x] \in Pointer
  BY DEF TreeOK
<1>6. \A m \in Nodes, x \in Sides : t.child[m][x] # NULL => t.up[t.child[m][x]] = m
  BY DEF Links
<1>7. ASSUME NEW m \in Nodes, NEW x \in Sides, u.child[m][x] # NULL
      PROVE  u.up[u.child[m][x]] = m /\ u.child[m][x] # u.child[m][Opposite(x)]
  <2> DEFINE y == t.child[m][x]
             z == t.child[m][Opposite(x)]
  <2>0. /\ Opposite(x) \in Sides /\ Opposite(x) # x /\ Opposite(Opposite(x)) = x
        /\ (x = d => Opposite(x) = e) /\ (x = e => Opposite(x) = d)
    BY <1>0, SidesAre
  <2>1. y \in Pointer /\ z \in Pointer /\ y # m /\ z # m
    BY <1>5, <2>0, RankedApart
  <2>2. (y # NULL => t.up[y] = m /\ y # z) /\ (z # NULL => t.up[z] = m /\ y # z)
    BY <2>0 DEF Links
  <2>3. CASE m = p /\ x = e
    BY <1>0, <1>1, <1>2, <1>3, <1>4, <1>7, <2>0, <2>1, <2>2, <2>3
  <2>4. CASE m = c /\ x = d
    BY <1>0, <1>1, <1>2, <1>3, <1>4, <1>7, <2>0, <2>1, <2>2, <2>4
  <2>5. CASE y = p
    BY <1>0, <1>1, <1>2, <1>3, <1>4, <1>7, <2>0, <2>1, <2>2, <2>5
  <2>6. CASE y # p /\ ~(m = p /\ x = e) /\ ~(m = c /\ x = d)
    <3>1. u.child[m][x] = y /\ y \in Nodes
      BY <1>1, <1>4, <1>7, <2>1, <2>6
    <3>2. y # c
      BY <1>0, <1>3, <2>2, <2>6, <3>1, <1>1
    <3>3. y # i
      <4>1. y = i => m = c
        BY <1>1, <1>3, <2>2, <3>1
      <4>2. m = c => x = e /\ Opposite(x) = d
        BY <1>0, <2>0, <2>6
      <4> QED BY <1>1, <2>2, <3>1, <4>1, <4>2
    <3>4. u.up[y] = m
      BY <1>1, <1>4, <2>2, <2>6, <3>1, <3>2, <3>3
    <3>5. u.child[m][Opposite(x)] \in {i, p, c, z}
      BY <1>4, <2>0
    <3> QED BY <1>1, <2>2, <2>6, <3>1, <3>2, <3>3, <3>4, <3>5
  <2> QED BY <2>3, <2>4, <2>5, <2>6
<1>8. ASSUME NEW n \in Nodes, u.up[n] # NULL PROVE \E x \in Sides : u.child[u.up[n]][x] = n
  <2>1. CASE n = p
    BY <1>0, <1>2, <1>4, <2>1
  <2>2. CASE n = c
    <3>1. u.up[n] = f /\ f \in Nodes
      BY <1>1, <1>2, <1>4, <1>8, <2>2
    <3>2. PICK x \in Sides : t.child[f][x] = p
      BY <1>1, <3>1 DEF Links
    <3> QED BY <1>2, <1>4, <2>2, <3>1, <3>2
  <2>3. CASE n = i
    BY <1>0, <1>2, <1>4, <2>3
  <2>4. CASE n \notin {p, c, i}
    <3>1. u.up[n] = t.up[n] /\ t.up[n] \in Nodes
      BY <1>1, <1>4, <1>8, <2>4 DEF TreeOK
    <3>2. PICK x \in Sides : t.child[t.up[n]][x] = n
      BY <1>1, <3>1 DEF Links
    <3> QED BY <1>2, <1>4, <2>4, <3>1, <3>2
  <2> QED BY <2>1, <2>2, <2>3, <2>4
<1>9. u.root # NULL => u.up[u.root] = NULL
  <2>1. t.root \in Pointer /\ (t.root # NULL => t.up[t.root] = NULL)
    BY DEF TreeOK, Links
  <2> QED BY <1>1, <1>2, <1>3, <1>4, <2>1
<1>10. \A m \in Nodes : In(u, m) <=> In(t, m)
  <2>1. t.root # NULL => t.up[t.root] = NULL
    BY DEF Links
  <2>2. t.root = p <=> f = NULL
    BY <1>1, <2>1 DEF In
  <2>3. t.root # c
    BY <1>1, <1>3, <2>1
  <2> SUFFICES ASSUME NEW m \in Nodes PROVE In(u, m) <=> In(t, m)
    OBVIOUS
  <2>4. CASE m = c
    BY <1>1, <1>2, <1>3, <1>4, <2>2, <2>4 DEF In
  <2>5. CASE m = p
    BY <1>1, <1>2, <1>4, <2>5 DEF In
  <2>6. CASE m = i
    BY <1>1, <1>2, <1>3, <1>4, <2>6 DEF In
  <2>7. CASE m \notin {c, p, i}
    <3>1. u.up[m] = t.up[m] /\ (u.root = m <=> t.root = m)
      BY <1>4, <2>7
    <3> QED BY <3>1 DEF In
  <2> QED BY <2>4, <2>5, <2>6, <2>7
<1>11. \A n \in Nodes : ~In(u, n) => \A x \in Sides : u.child[n][x] = NULL
  <2>1. In(t, c)
    BY <1>1, <1>3 DEF In
  <2> SUFFICES ASSUME NEW n \in Nodes, ~In(t, n), NEW x \in Sides PROVE u.child[n][x] = NULL
    BY <1>10
  <2>2. t.child[n][x] = NULL
    BY DEF Links
  <2> QED BY <1>1, <1>4, <2>1, <2>2
<1>12. \E s, C : Ranked(u, s, C)
  <2> DEFINE s == [m \in Nodes |-> IF m = c THEN 2 * r[p] ELSE IF m = p THEN 2 * r[p] - 1 ELSE 2 * r[m]]
  <2>1. B \in Nat /\ \A m \in Nodes : r[m] \in Nat /\ r[m] <= B
    BY DEF Ranked
  <2>2. r[c] < r[p]
    BY <1>1 DEF Ranked
  <2>3. s \in [Nodes -> 0 .. 2 * B]
    BY <2>1, <2>2
  <2>4. ASSUME NEW m \in Nodes, NEW x \in Sides, u.child[m][x] # NULL PROVE s[u.child[m][x]] < s[m]
    <3> DEFINE y == t.child[m][x]
    <3>1. y \in Pointer /\ y # m /\ (y # NULL => r[y] < r[m])
      BY <1>5, RankedApart DEF Ranked
    <3>2. CASE m = p /\ x = e
      <4>1. i \in Nodes /\ r[i] < r[c] /\ u.child[m][x] = i
        BY <1>0, <1>1, <1>4, <2>4, <3>2 DEF Ranked
      <4> QED BY <1>2, <2>1, <2>2, <3>2, <4>1
    <3>3. CASE m = c /\ x = d
      <4>1. u.child[m][x] = p
        BY <1>2, <1>4, <3>3
      <4> QED BY <1>2, <2>1, <2>2, <3>3, <4>1
    <3>4. CASE y = p
      <4>1. u.child[m][x] = c /\ m # p /\ m # c
        BY <1>0, <1>1, <1>2, <1>4, <3>1, <3>4, RankedApart
      <4> QED BY <1>1, <1>2, <2>1, <2>2, <3>1, <3>4, <4>1
    <3>5. CASE y # p /\ ~(m = p /\ x = e) /\ ~(m = c /\ x = d)
      <4>1. u.child[m][x] = y /\ y \in Nodes
        BY <1>1, <1>4, <2>4, <3>1, <3>5
      <4>2. y # c
        BY <1>0, <1>1, <1>3, <1>6, <3>5, <4>1
      <4>3. s[y] = 2 * r[y] /\ s[m] >= 2 * r[m] - 1
        BY <2>1, <2>2, <3>5, <4>1, <4>2
      <4> QED BY <2>1, <3>1, <4>1, <4>3, <1>1
    <3> QED BY <3>2, <3>3, <3>4, <3>5
  <2> HIDE DEF s
  <2>5. Ranked(u, s, 2 * B)
    BY <2>1, <2>3, <2>4 DEF Ranked
  <2> QED BY <2>5
<1> QED BY <1>7, <1>8, <1>9, <1>10, <1>11, <1>12 DEF Links

(* The rotation as a function of the tree, colours aside. *)
Lift(t, p, c, e) ==
    LET d == Opposite(e) IN
    [root |-> IF t.root = p THEN c ELSE t.root,
     child |-> [m \in Nodes |-> [x \in Sides |->
                  IF m = p /\ x = e THEN t.child[c][d]
                  ELSE IF m = c /\ x = d THEN p
                  ELSE IF t.child[m][x] = p THEN c ELSE t.child[m][x]]],
     up |-> [m \in Nodes |-> IF m = p THEN c ELSE IF m = c THEN t.up[p]
                             ELSE IF m = t.child[c][d] THEN p ELSE t.up[m]],
     black |-> t.black]

(* The rotation as a function is a rotation. *)
LEMMA LiftIsLifted ==
  ASSUME NEW t, TreeOK(t), NEW p \in Nodes, NEW c \in Nodes, NEW e \in Sides
  PROVE  TreeOK(Lift(t, p, c, e)) /\ Lifted(t, Lift(t, p, c, e), p, c, e)
<1>1. Opposite(e) \in Sides
  BY SidesAre
<1>2. t.root \in Pointer /\ (\A m \in Nodes, x \in Sides : t.child[m][x] \in Pointer)
      /\ (\A m \in Nodes : t.up[m] \in Pointer) /\ t.black \in [Nodes -> BOOLEAN]
  BY DEF TreeOK
<1>3. p \in Pointer /\ c \in Pointer
  BY DEF Pointer
<1>4. TreeOK(Lift(t, p, c, e))
  BY <1>1, <1>2, <1>3 DEF TreeOK, Lift
<1>5. Lifted(t, Lift(t, p, c, e), p, c, e)
  BY DEF Lifted, Lift
<1> QED BY <1>4, <1>5

(* A node hangs from one link. *)
LEMMA HangsOnce ==
  ASSUME NEW t, TreeOK(t), Links(t), NEW n \in Nodes
  PROVE  HangsFrom(t, n, t.up[n])
<1> SUFFICES ASSUME t.up[n] # NULL
             PROVE  \E d \in Sides : t.child[t.up[n]][d] = n /\ t.child[t.up[n]][Opposite(d)] # n
  BY DEF HangsFrom
<1>1. t.up[n] \in Nodes /\ n # NULL
  BY NullIsNoNode DEF TreeOK, Pointer
<1>2. PICK d \in Sides : t.child[t.up[n]][d] = n
  BY DEF Links
<1>3. t.child[t.up[n]][Opposite(d)] # n
  BY <1>1, <1>2 DEF Links
<1> QED BY <1>1, <1>2, <1>3

(* new takes old's place, parent and colour, and old goes below new. *)
Swapped(t, u, old, new, f, b) ==
    /\ TreeOK(u)
    /\ u.root = IF f = NULL THEN new ELSE t.root
    /\ \A m \in Nodes, e \in Sides :
         u.child[m][e] = IF m = f /\ t.child[m][e] = old THEN new ELSE t.child[m][e]
    /\ \A m \in Nodes : u.up[m] = IF m = old THEN new ELSE IF m = new THEN f ELSE t.up[m]
    /\ \A m \in Nodes : u.black[m] = IF m = old THEN b ELSE IF m = new THEN t.black[old]
                                     ELSE t.black[m]

(* rb_rotate_set_parents puts new in the place of old, with its colour. *)
LEMMA RotateSetParentsIs ==
  ASSUME NEW t, TreeOK(t), NEW old \in Nodes, NEW new \in Nodes, old # new, NEW b \in BOOLEAN,
         HangsFrom(t, old, t.up[old])
  PROVE  Swapped(t, rb_rotate_set_parents(t, old, new, b), old, new, t.up[old], b)
<1> DEFINE f == t.up[old]
           k == t.black[old]
           v == rb_set_parent_color(t, new, f, k)
           w == rb_set_parent_color(v, old, new, b)
           u == rb_rotate_set_parents(t, old, new, b)
<1>1. f \in Pointer /\ k \in BOOLEAN /\ new \in Pointer /\ old \in Pointer
  BY DEF TreeOK, Pointer
<1>2. u = rb_change_child(w, old, new, f)
  BY DEF rb_rotate_set_parents
<1> HIDE DEF f, k, u
<1>3. Painted(t, v, new, f, k)
  BY <1>1, PaintedIs
<1> HIDE DEF v
<1>4. TreeOK(v) /\ v.child = t.child
  BY <1>3 DEF Painted
<1>5. Painted(v, w, old, new, b)
  BY <1>1, <1>4, PaintedIs
<1> HIDE DEF w
<1>6. TreeOK(w) /\ w.child = v.child
  BY <1>5 DEF Painted
<1>7. HangsFrom(w, old, f)
  BY <1>4, <1>6 DEF HangsFrom, f
<1>8. Replaced(w, u, old, new, f)
  BY <1>1, <1>2, <1>6, <1>7, ChangeChildIs
<1>9. Swapped(t, u, old, new, f, b)
  <2>1. TreeOK(u) /\ u.root = IF f = NULL THEN new ELSE t.root
    BY <1>3, <1>5, <1>8 DEF Painted, Replaced
  <2>2. \A m \in Nodes, e \in Sides :
         u.child[m][e] = IF m = f /\ t.child[m][e] = old THEN new ELSE t.child[m][e]
    BY <1>4, <1>6, <1>8 DEF Replaced
  <2>3. \A m \in Nodes : u.up[m] = IF m = old THEN new ELSE IF m = new THEN f ELSE t.up[m]
    BY <1>3, <1>5, <1>8 DEF Painted, Replaced
  <2>4. \A m \in Nodes : u.black[m] = IF m = old THEN b ELSE IF m = new THEN k ELSE t.black[m]
    BY <1>3, <1>5, <1>8 DEF Painted, Replaced
  <2> QED BY <2>1, <2>2, <2>3, <2>4 DEF Swapped, k
<1> QED BY <1>9 DEF f, u

(* rb_rotate_set_parents completes a rotation whose links are set. *)
ReadyToLift(t, v, p, c, e) ==
    /\ TreeOK(v) /\ v.root = t.root
    /\ \A m \in Nodes, x \in Sides :
          v.child[m][x] = IF m = p /\ x = e THEN t.child[c][Opposite(e)]
                          ELSE IF m = c /\ x = Opposite(e) THEN p ELSE t.child[m][x]
    /\ \A m \in Nodes : m # c =>
          v.up[m] = IF m = t.child[c][Opposite(e)] THEN p ELSE t.up[m]

LiftDone(t, v, u, p, c, e, b) ==
    /\ TreeOK(u) /\ Lifted(t, u, p, c, e)
    /\ \A m \in Nodes : u.black[m] = IF m = p THEN b ELSE IF m = c THEN v.black[p]
                                     ELSE v.black[m]

(* A rotation whose links below are set is complete once new is in its place. *)
LEMMA CompletesLift ==
  ASSUME NEW t, TreeOK(t), Links(t), NEW r, NEW B, Ranked(t, r, B),
         NEW p \in Nodes, In(t, p), NEW e \in Sides, NEW c \in Nodes, t.child[p][e] = c,
         NEW v, ReadyToLift(t, v, p, c, e), NEW b \in BOOLEAN,
         NEW u, u = rb_rotate_set_parents(v, p, c, b)
  PROVE  LiftDone(t, v, u, p, c, e, b)
<1> USE DEF ReadyToLift
<1> DEFINE d == Opposite(e)
           i == t.child[c][d]
           f == t.up[p]
<1>0. d \in Sides /\ d # e /\ (\A x \in Sides : x = d \/ x = e) /\ Opposite(d) = e
  BY SidesAre
<1>1. i \in Pointer /\ f \in Pointer /\ c # NULL /\ p # NULL /\ NULL \notin Nodes
      /\ (f # NULL => f \in Nodes)
  BY <1>0, NullIsNoNode DEF TreeOK, Pointer
<1>2. c # p /\ i # c /\ i # p /\ f # p /\ f # c
  <2>1. f = c => FALSE
    BY <1>1, RankedApart DEF Links
  <2> QED BY <1>0, <1>1, <2>1, RankedApart
<1>3. v.up[p] = f
  BY <1>2
<1>4. HangsFrom(v, p, f)
  <2> SUFFICES ASSUME f # NULL PROVE HangsFrom(v, p, f)
    BY DEF HangsFrom
  <2>1. f \in Nodes /\ \A x \in Sides : v.child[f][x] = t.child[f][x]
    BY <1>1, <1>2
  <2>2. HangsFrom(t, p, f)
    BY HangsOnce
  <2> QED BY <2>1, <2>2, SidesAre DEF HangsFrom
<1>5. /\ TreeOK(u)
      /\ u.root = IF f = NULL THEN c ELSE v.root
      /\ \A m \in Nodes, x \in Sides :
           u.child[m][x] = IF m = f /\ v.child[m][x] = p THEN c ELSE v.child[m][x]
      /\ \A m \in Nodes : u.up[m] = IF m = p THEN c ELSE IF m = c THEN f ELSE v.up[m]
      /\ \A m \in Nodes : u.black[m] = IF m = p THEN b ELSE IF m = c THEN v.black[p]
                                       ELSE v.black[m]
  <2>1. Swapped(v, u, p, c, v.up[p], b)
    BY <1>2, <1>3, <1>4, RotateSetParentsIs
  <2> QED BY <1>3, <2>1 DEF Swapped
<1>6. t.root = p <=> f = NULL
  BY <1>1 DEF In, Links
<1>7. \A m \in Nodes, x \in Sides : t.child[m][x] = p => m = f
  BY <1>1 DEF Links
<1>8. \A m \in Nodes, x \in Sides :
           u.child[m][x] = IF m = p /\ x = e THEN i ELSE IF m = c /\ x = d THEN p
                           ELSE IF t.child[m][x] = p THEN c ELSE t.child[m][x]
  BY <1>0, <1>2, <1>5, <1>7
<1>9. \A m \in Nodes : u.up[m] = IF m = p THEN c ELSE IF m = c THEN f
                                  ELSE IF m = i THEN p ELSE t.up[m]
  <2>1. \A m \in Nodes : m # c => v.up[m] = IF m = i THEN p ELSE t.up[m]
    OBVIOUS
  <2> SUFFICES ASSUME NEW m \in Nodes
               PROVE  u.up[m] = IF m = p THEN c ELSE IF m = c THEN f
                                ELSE IF m = i THEN p ELSE t.up[m]
    OBVIOUS
  <2>2. u.up[m] = IF m = p THEN c ELSE IF m = c THEN f ELSE v.up[m]
    BY <1>5
  <2>3. m # c => v.up[m] = IF m = i THEN p ELSE t.up[m]
    BY <2>1
  <2> HIDE DEF i, f, d
  <2> QED BY <2>2, <2>3
<1>10. u.root = IF t.root = p THEN c ELSE t.root
  BY <1>5, <1>6
<1>11. Lifted(t, u, p, c, e)
  BY <1>8, <1>9, <1>10 DEF Lifted
<1> QED BY <1>5, <1>11 DEF LiftDone

----------------------------------------------------------------------------
(* The rotations of an insertion. *)

(* A tree in which tmp and p have got new links, before p is put in g's     *)
(* place.                                                                   *)
Relinked(t, w, p, g, d) ==
    LET tmp == t.child[p][Opposite(d)] IN
    /\ TreeOK(w) /\ w.root = t.root
    /\ \A m \in Nodes, x \in Sides :
         w.child[m][x] = IF m = g /\ x = d THEN tmp
                         ELSE IF m = p /\ x = Opposite(d) THEN g ELSE t.child[m][x]
    /\ \A m \in Nodes : w.up[m] = IF m = tmp THEN g ELSE t.up[m]
    /\ \A m \in Nodes : w.black[m] = IF m = tmp THEN TRUE ELSE t.black[m]

BeforeOuter(t, w, p, g, d) ==
    /\ Relinked(t, w, p, g, d)
    /\ RotateOuter(t, p, g, d) = rb_rotate_set_parents(w, g, p, FALSE)

(* The links RotateOuter sets before it puts p in the place of g. *)
LEMMA OuterRelinks ==
  ASSUME NEW t, TreeOK(t), NEW p \in Nodes, NEW g \in Nodes, p # g, NEW d \in Sides
  PROVE  \E w : BeforeOuter(t, w, p, g, d)
<1> DEFINE o == Opposite(d)
           tmp == t.child[p][o]
           v1 == Linked(t, g, d, tmp)
           v2 == Linked(v1, p, o, g)
           w == SetIfAny(v2, tmp, g, TRUE)
<1>0. o \in Sides /\ o # d
  BY SidesAre
<1>1. tmp \in Pointer /\ p \in Pointer /\ g \in Pointer /\ TRUE \in BOOLEAN
  BY <1>0 DEF TreeOK, Pointer
<1>2. RotateOuter(t, p, g, d) = rb_rotate_set_parents(w, g, p, FALSE)
  BY DEF RotateOuter
<1> HIDE DEF o, tmp
<1>3. LinkedTo(t, v1, g, d, tmp)
  BY <1>1, LinkedIs
<1> HIDE DEF v1
<1>4. LinkedTo(v1, v2, p, o, g)
  <2>1. TreeOK(v1)
    BY <1>3 DEF LinkedTo
  <2> QED BY <1>0, <1>1, <2>1, LinkedIs
<1> HIDE DEF v2
<1>5. Painted(v2, w, tmp, g, TRUE)
  <2>1. TreeOK(v2)
    BY <1>4 DEF LinkedTo
  <2> QED BY <1>1, <2>1, SetIfAnyIs
<1> HIDE DEF w
<1>6. TreeOK(w) /\ w.root = t.root /\ v2.up = t.up /\ v2.black = t.black
  BY <1>3, <1>4, <1>5 DEF LinkedTo, Painted
<1>7. \A m \in Nodes, x \in Sides :
         w.child[m][x] = IF m = g /\ x = d THEN tmp ELSE IF m = p /\ x = o THEN g ELSE t.child[m][x]
  BY <1>3, <1>4, <1>5 DEF LinkedTo, Painted
<1>8. \A m \in Nodes : w.up[m] = IF m = tmp THEN g ELSE t.up[m]
  BY <1>5, <1>6 DEF Painted
<1>9. \A m \in Nodes : w.black[m] = IF m = tmp THEN TRUE ELSE t.black[m]
  BY <1>5, <1>6 DEF Painted
<1>10. Relinked(t, w, p, g, d)
  BY <1>6, <1>7, <1>8, <1>9 DEF Relinked, o, tmp
<1>11. BeforeOuter(t, w, p, g, d)
  BY <1>2, <1>10 DEF BeforeOuter
<1> QED BY <1>11

OuterDone(t, u, p, g, d) ==
    /\ TreeOK(u) /\ Lifted(t, u, g, p, d)
    /\ \A m \in Nodes :
         u.black[m] = IF m = g THEN FALSE ELSE IF m = p THEN t.black[g]
                      ELSE IF m = t.child[p][Opposite(d)] THEN TRUE ELSE t.black[m]

(* RotateOuter lifts p above g. *)
LEMMA RotateOuterIs ==
  ASSUME NEW t, TreeOK(t), Links(t), NEW r, NEW B, Ranked(t, r, B),
         NEW g \in Nodes, In(t, g), NEW d \in Sides, NEW p \in Nodes, t.child[g][d] = p
  PROVE  OuterDone(t, RotateOuter(t, p, g, d), p, g, d)
<1> DEFINE u == RotateOuter(t, p, g, d)
           tmp == t.child[p][Opposite(d)]
<1>1. p # g /\ tmp # g /\ tmp # p /\ p # NULL
  BY RankedApart, SidesAre, NullIsNoNode
<1>a. PICK w : BeforeOuter(t, w, p, g, d)
  BY <1>1, OuterRelinks
<1>2. Relinked(t, w, p, g, d) /\ u = rb_rotate_set_parents(w, g, p, FALSE)
  BY <1>a DEF BeforeOuter
<1> HIDE DEF u
<1>3. LiftDone(t, w, u, g, p, d, FALSE)
  <2>1. FALSE \in BOOLEAN
    OBVIOUS
  <2>2. ReadyToLift(t, w, g, p, d)
    BY <1>2 DEF Relinked, ReadyToLift
  <2> QED BY <1>2, <2>1, <2>2, CompletesLift
<1>4. \A m \in Nodes :
         u.black[m] = IF m = g THEN FALSE ELSE IF m = p THEN t.black[g]
                      ELSE IF m = tmp THEN TRUE ELSE t.black[m]
  BY <1>1, <1>2, <1>3 DEF Relinked, LiftDone
<1>5. OuterDone(t, u, p, g, d)
  BY <1>3, <1>4 DEF OuterDone, LiftDone
<1> QED BY <1>5 DEF u

(* The inner node first rises above its parent, and then above the          *)
(* grandparent.                                                             *)
InnerDone(t, u, n, p, g, d) ==
    LET v == Lift(t, p, n, Opposite(d)) IN
    /\ TreeOK(u) /\ Lifted(v, u, g, n, d)
    /\ \A m \in Nodes :
         u.black[m] = IF m \in {g, p} THEN FALSE ELSE IF m = n THEN t.black[g]
                      ELSE IF m \in {t.child[n].left, t.child[n].right} THEN TRUE ELSE t.black[m]

(* RotateInner and then RotateOuter lift n above p, and then above g. *)
LEMMA RotateInnerIs ==
  ASSUME NEW t, TreeOK(t), Links(t), NEW r, NEW B, Ranked(t, r, B),
         NEW g \in Nodes, In(t, g), NEW d \in Sides, NEW p \in Nodes, t.child[g][d] = p,
         NEW n \in Nodes, t.child[p][Opposite(d)] = n
  PROVE  InnerDone(t, RotateOuter(RotateInner(t, n, p, d), n, g, d), n, p, g, d)
<1> DEFINE o == Opposite(d)
           v == Lift(t, p, n, o)
           y == RotateInner(t, n, p, d)
           u == RotateOuter(y, n, g, d)
           i == t.child[n][d]
           j == t.child[n][o]
<1>0. o \in Sides /\ o # d /\ Opposite(o) = d /\ \A x \in Sides : x = d \/ x = o
  BY SidesAre
<1>1. n # NULL /\ p # NULL /\ g # NULL /\ i \in Pointer /\ j \in Pointer /\ NULL \notin Nodes
  BY <1>0, NullIsNoNode DEF TreeOK, Pointer
<1>2. /\ n # p /\ p # g /\ n # g /\ i \notin {n, p, g} /\ j \notin {n, p, g}
      /\ t.up[n] = p /\ t.up[p] = g /\ (i # NULL => i # j /\ t.up[i] = n) /\ (j # NULL => t.up[j] = n)
  <2>1. t.up[n] = p /\ t.up[p] = g /\ (i # NULL => i # j /\ t.up[i] = n) /\ (j # NULL => t.up[j] = n)
    BY <1>0, <1>1 DEF Links
  <2>2. n # p /\ p # g /\ n # g /\ i \notin {n, p} /\ j \notin {n, p}
    BY <1>0, <1>1, RankedApart
  <2>3. i # g /\ j # g
    <3>1. r[g] \in Nat /\ r[p] \in Nat /\ r[n] \in Nat /\ r[p] < r[g] /\ r[n] < r[p]
      BY <1>0, <1>1 DEF Ranked
    <3>2. (i # NULL => r[i] < r[n]) /\ (j # NULL => r[j] < r[n])
      BY <1>0 DEF Ranked
    <3> QED BY <1>1, <3>1, <3>2
  <2> QED BY <2>1, <2>2, <2>3
<1>3. /\ TreeOK(y) /\ y.root = t.root
      /\ \A m \in Nodes, x \in Sides :
           y.child[m][x] = IF m = p /\ x = o THEN i ELSE IF m = n /\ x = d THEN p ELSE t.child[m][x]
      /\ \A m \in Nodes : y.up[m] = IF m = p THEN n ELSE IF m = i THEN p ELSE t.up[m]
      /\ \A m \in Nodes : y.black[m] = IF m = p THEN FALSE ELSE IF m = i THEN TRUE ELSE t.black[m]
  <2> DEFINE v1 == Linked(t, p, o, i)
             v2 == Linked(v1, n, d, p)
             v3 == SetIfAny(v2, i, p, TRUE)
  <2>1. y = rb_set_parent_color(v3, p, n, FALSE)
    BY DEF RotateInner
  <2>2. p \in Pointer /\ n \in Pointer /\ TRUE \in BOOLEAN /\ FALSE \in BOOLEAN
    BY DEF Pointer
  <2> HIDE DEF o, i, y
  <2>3. LinkedTo(t, v1, p, o, i)
    BY <1>0, <1>1, LinkedIs
  <2> HIDE DEF v1
  <2>4. LinkedTo(v1, v2, n, d, p)
    <3>1. TreeOK(v1)
      BY <2>3 DEF LinkedTo
    <3> QED BY <2>2, <3>1, LinkedIs
  <2> HIDE DEF v2
  <2>5. Painted(v2, v3, i, p, TRUE)
    <3>1. TreeOK(v2)
      BY <2>4 DEF LinkedTo
    <3> QED BY <1>1, <2>2, <3>1, SetIfAnyIs
  <2> HIDE DEF v3
  <2>6. Painted(v3, y, p, n, FALSE)
    <3>1. TreeOK(v3)
      BY <2>5 DEF Painted
    <3> QED BY <2>1, <2>2, <3>1, PaintedIs
  <2>7. TreeOK(y) /\ y.root = t.root /\ v2.up = t.up /\ v2.black = t.black /\ y.child = v2.child
    BY <2>3, <2>4, <2>5, <2>6 DEF LinkedTo, Painted
  <2>8. \A m \in Nodes, x \in Sides :
          y.child[m][x] = IF m = p /\ x = o THEN i ELSE IF m = n /\ x = d THEN p ELSE t.child[m][x]
    BY <1>2, <2>3, <2>4, <2>7 DEF LinkedTo
  <2>9. \A m \in Nodes : y.up[m] = IF m = p THEN n ELSE IF m = i THEN p ELSE t.up[m]
    BY <2>5, <2>6, <2>7, ZenonT(60) DEF Painted
  <2>10. \A m \in Nodes : y.black[m] = IF m = p THEN FALSE ELSE IF m = i THEN TRUE ELSE t.black[m]
    BY <2>5, <2>6, <2>7 DEF Painted
  <2> QED BY <2>7, <2>8, <2>9, <2>10
<1>4. TreeOK(v) /\ Lifted(t, v, p, n, o)
  BY <1>0, LiftIsLifted
<1> HIDE DEF v, y
<1>5. /\ v.root = t.root
      /\ \A m \in Nodes, x \in Sides :
           v.child[m][x] = IF m = p /\ x = o THEN i ELSE IF m = n /\ x = d THEN p
                           ELSE IF m = g /\ x = d THEN n ELSE t.child[m][x]
      /\ \A m \in Nodes : v.up[m] = IF m = p THEN n ELSE IF m = n THEN g
                                    ELSE IF m = i THEN p ELSE t.up[m]
  <2>1. t.root # p
    BY <1>1, <1>2 DEF Links
  <2>2. \A m \in Nodes, x \in Sides : t.child[m][x] = p <=> m = g /\ x = d
    <3>1. \A m \in Nodes, x \in Sides : t.child[m][x] = p => m = g
      BY <1>1, <1>2 DEF Links
    <3>2. t.child[g][o] # p
      BY <1>1 DEF Links
    <3> QED BY <1>0, <3>1, <3>2
  <2>3. v.root = t.root
    BY <1>4, <2>1 DEF Lifted
  <2>4. \A m \in Nodes, x \in Sides :
           v.child[m][x] = IF m = p /\ x = o THEN i ELSE IF m = n /\ x = d THEN p
                           ELSE IF m = g /\ x = d THEN n ELSE t.child[m][x]
    BY <1>0, <1>2, <1>4, <2>2 DEF Lifted
  <2>5. \A m \in Nodes : v.up[m] = IF m = p THEN n ELSE IF m = n THEN g
                                    ELSE IF m = i THEN p ELSE t.up[m]
    <3>1. \A m \in Nodes : v.up[m] = IF m = p THEN n ELSE IF m = n THEN t.up[p]
                                   ELSE IF m = t.child[n][Opposite(o)] THEN p ELSE t.up[m]
      BY <1>4 DEF Lifted
    <3> QED BY <1>0, <1>2, <3>1, ZenonT(60)
  <2> QED BY <2>3, <2>4, <2>5
<1>6. Links(v) /\ (\E s, C : Ranked(v, s, C)) /\ In(v, g) /\ v.child[g][d] = n
  <2>1. In(t, p)
    BY <1>1, <1>2 DEF In
  <2>2. Links(v) /\ (\E s, C : Ranked(v, s, C)) /\ In(v, g)
    BY <1>0, <1>4, <2>1, LiftKeepsLinks
  <2> QED BY <1>0, <1>2, <1>5, <2>2
<1>a. PICK w : BeforeOuter(y, w, n, g, d)
  BY <1>2, <1>3, OuterRelinks
<1>7. Relinked(y, w, n, g, d) /\ u = rb_rotate_set_parents(w, g, n, FALSE)
  BY <1>a DEF BeforeOuter
<1> HIDE DEF u
<1>8. LiftDone(v, w, u, g, n, d, FALSE)
  <2>1. PICK s, C : Ranked(v, s, C)
    BY <1>6
  <2>2. FALSE \in BOOLEAN
    OBVIOUS
  <2>3. v.child[n][o] = j /\ y.child[n][o] = j
    BY <1>0, <1>2, <1>3, <1>5
  <2>4. ReadyToLift(v, w, g, n, d)
    <3>1. TreeOK(w) /\ w.root = v.root
      BY <1>3, <1>5, <1>7 DEF Relinked
    <3>2. \A m \in Nodes, x \in Sides :
            w.child[m][x] = IF m = g /\ x = d THEN j ELSE IF m = n /\ x = o THEN g ELSE v.child[m][x]
      <4>1. \A m \in Nodes, x \in Sides :
              w.child[m][x] = IF m = g /\ x = d THEN j ELSE IF m = n /\ x = o THEN g ELSE y.child[m][x]
        BY <1>7, <2>3 DEF Relinked
      <4> HIDE DEF i, j, o
      <4> QED BY <1>2, <1>3, <1>5, <4>1
    <3>3. \A m \in Nodes : m # n => w.up[m] = IF m = j THEN g ELSE v.up[m]
      <4>0. \A m \in Nodes : w.up[m] = IF m = y.child[n][o] THEN g ELSE y.up[m]
        BY <1>7 DEF Relinked
      <4>1. \A m \in Nodes : w.up[m] = IF m = j THEN g ELSE y.up[m]
        <5> HIDE DEF j, o
        <5> QED BY <2>3, <4>0
      <4> HIDE DEF i, j, o
      <4> QED BY <1>2, <1>3, <1>5, <4>1
    <3> QED BY <2>3, <3>1, <3>2, <3>3 DEF ReadyToLift
  <2> QED BY <1>4, <1>6, <1>7, <2>1, <2>2, <2>4, CompletesLift
<1>9. \A m \in Nodes :
         u.black[m] = IF m \in {g, p} THEN FALSE ELSE IF m = n THEN t.black[g]
                      ELSE IF m \in {i, j} THEN TRUE ELSE t.black[m]
  <2>1. y.child[n][o] = j
    BY <1>0, <1>2, <1>3
  <2>2. \A m \in Nodes : w.black[m] = IF m = j THEN TRUE ELSE y.black[m]
    BY <1>7, <2>1 DEF Relinked
  <2>3. \A m \in Nodes : u.black[m] = IF m = g THEN FALSE ELSE IF m = n THEN w.black[g] ELSE w.black[m]
    BY <1>8 DEF LiftDone
  <2> HIDE DEF i, j, o
  <2> SUFFICES ASSUME NEW m \in Nodes
               PROVE  u.black[m] = IF m \in {g, p} THEN FALSE ELSE IF m = n THEN t.black[g]
                                   ELSE IF m \in {i, j} THEN TRUE ELSE t.black[m]
    OBVIOUS
  <2>4. u.black[m] = IF m = g THEN FALSE ELSE IF m = n THEN w.black[g] ELSE w.black[m]
    BY <2>3
  <2>5. w.black[m] = IF m = j THEN TRUE ELSE y.black[m]
    BY <2>2
  <2>6. w.black[g] = t.black[g]
    <3>1. g # j /\ g # p /\ g # i
      BY <1>2
    <3>2. w.black[g] = y.black[g]
      BY <2>2, <3>1
    <3>3. y.black[g] = t.black[g]
      BY <1>3, <3>1
    <3> QED BY <3>2, <3>3
  <2>7. y.black[m] = IF m = p THEN FALSE ELSE IF m = i THEN TRUE ELSE t.black[m]
    BY <1>3
  <2>8. CASE m = g
    BY <2>4, <2>8
  <2>9. CASE m = p
    BY <1>2, <2>4, <2>5, <2>7, <2>9
  <2>10. CASE m = n
    BY <1>2, <2>4, <2>6, <2>10
  <2>11. CASE m \notin {g, p, n}
    BY <2>4, <2>5, <2>7, <2>11
  <2> QED BY <2>8, <2>9, <2>10, <2>11
<1>10. {i, j} = {t.child[n].left, t.child[n].right}
  <2>1. t.child[n].left = t.child[n]["left"] /\ t.child[n].right = t.child[n]["right"]
    BY DEF TreeOK, Sides
  <2> QED BY <2>1 DEF Sides, Opposite
<1>11. InnerDone(t, u, n, p, g, d)
  BY <1>8, <1>9, <1>10 DEF InnerDone, LiftDone, v
<1> QED BY <1>11 DEF u, y

----------------------------------------------------------------------------
(* The rotations of a removal. *)

(* LiftSibling lifts the sibling s above p. *)
LEMMA LiftSiblingIs ==
  ASSUME NEW t, TreeOK(t), Links(t), NEW r, NEW B, Ranked(t, r, B),
         NEW p \in Nodes, In(t, p), NEW d \in Sides, NEW s \in Nodes, t.child[p][Opposite(d)] = s,
         NEW v, TreeOK(v), v.root = t.root,
         \A m \in Nodes, x \in Sides : v.child[m][x] = t.child[m][x],
         \A m \in Nodes : m # s => v.up[m] = IF m = t.child[s][d] THEN p ELSE t.up[m],
         NEW b \in BOOLEAN
  PROVE  LiftDone(t, v, LiftSibling(v, p, s, d, b), p, s, Opposite(d), b)
<1> DEFINE o == Opposite(d)
           near == t.child[s][d]
           v1 == Linked(v, p, o, v.child[s][d])
           v2 == Linked(v1, s, d, p)
           u == LiftSibling(v, p, s, d, b)
<1>0. o \in Sides /\ o # d /\ Opposite(o) = d /\ near \in Pointer /\ p \in Pointer /\ v.child[s][d] = near
  BY SidesAre DEF TreeOK, Pointer
<1>1. s # p
  BY <1>0, RankedApart
<1>2. u = rb_rotate_set_parents(v2, p, s, b)
  BY DEF LiftSibling
<1> HIDE DEF o, near, u
<1>3. LinkedTo(v, v1, p, o, near)
  BY <1>0, LinkedIs
<1> HIDE DEF v1
<1>4. TreeOK(v1)
  BY <1>3 DEF LinkedTo
<1>5. LinkedTo(v1, v2, s, d, p)
  BY <1>0, <1>4, LinkedIs
<1> HIDE DEF v2
<1>6. TreeOK(v2) /\ v2.root = t.root /\ v2.up = v.up /\ v2.black = v.black
  BY <1>3, <1>5 DEF LinkedTo
<1>7. ReadyToLift(t, v2, p, s, o)
  <2>1. \A m \in Nodes, x \in Sides :
           v2.child[m][x] = IF m = p /\ x = o THEN near ELSE IF m = s /\ x = d THEN p ELSE t.child[m][x]
    BY <1>1, <1>3, <1>5 DEF LinkedTo
  <2>2. \A m \in Nodes : m # s => v2.up[m] = IF m = near THEN p ELSE t.up[m]
    BY <1>6 DEF near
  <2>3. t.child[s][Opposite(o)] = near
    BY <1>0 DEF near
  <2> QED BY <1>0, <1>6, <2>1, <2>2, <2>3 DEF ReadyToLift
<1>8. t.child[p][o] = s
  BY DEF o
<1>9. LiftDone(t, v2, u, p, s, o, b)
  BY <1>0, <1>2, <1>7, <1>8, CompletesLift
<1>10. LiftDone(t, v, u, p, s, o, b)
  BY <1>6, <1>9 DEF LiftDone
<1> QED BY <1>10 DEF u, o

RedSiblingDone(t, u, p, s, d) ==
    /\ TreeOK(u) /\ Lifted(t, u, p, s, Opposite(d))
    /\ \A m \in Nodes :
         u.black[m] = IF m = p THEN FALSE ELSE IF m = s THEN t.black[p]
                      ELSE IF m = t.child[s][d] THEN TRUE ELSE t.black[m]

(* Case 1 of rb_erase_color: a red sibling is lifted and painted. *)
LEMMA RedSiblingIs ==
  ASSUME NEW t, TreeOK(t), Links(t), NEW r, NEW B, Ranked(t, r, B),
         NEW p \in Nodes, In(t, p), NEW d \in Sides, NEW s \in Nodes, t.child[p][Opposite(d)] = s
  PROVE  RedSiblingDone(t, LiftSibling(rb_set_parent_color(t, t.child[s][d], p, TRUE), p, s, d, FALSE),
                        p, s, d)
<1> DEFINE o == Opposite(d)
           near == t.child[s][d]
           v == rb_set_parent_color(t, near, p, TRUE)
           u == LiftSibling(v, p, s, d, FALSE)
<1>1. o \in Sides /\ near \in Pointer /\ p \in Pointer /\ TRUE \in BOOLEAN /\ FALSE \in BOOLEAN
  BY SidesAre DEF TreeOK, Pointer
<1>2. near # p /\ near # s /\ s # p
  BY <1>1, RankedApart, NullIsNoNode
<1> HIDE DEF near
<1>3. Painted(t, v, near, p, TRUE)
  BY <1>1, PaintedIs
<1> HIDE DEF v
<1>4. TreeOK(v) /\ v.root = t.root /\ \A m \in Nodes, x \in Sides : v.child[m][x] = t.child[m][x]
  BY <1>3 DEF Painted
<1>5. \A m \in Nodes : m # s => v.up[m] = IF m = t.child[s][d] THEN p ELSE t.up[m]
  BY <1>3 DEF Painted, near
<1>6. LiftDone(t, v, u, p, s, Opposite(d), FALSE)
  BY <1>1, <1>4, <1>5, LiftSiblingIs
<1> HIDE DEF u
<1>7. ASSUME NEW m \in Nodes
      PROVE  u.black[m] = IF m = p THEN FALSE ELSE IF m = s THEN t.black[p]
                      ELSE IF m = near THEN TRUE ELSE t.black[m]
  <2>1. u.black[m] = IF m = p THEN FALSE ELSE IF m = s THEN v.black[p] ELSE v.black[m]
    BY <1>6 DEF LiftDone
  <2>2. v.black[p] = t.black[p]
    BY <1>2, <1>3 DEF Painted
  <2>3. v.black[m] = IF m = near THEN TRUE ELSE t.black[m]
    BY <1>3 DEF Painted
  <2> QED BY <2>1, <2>2, <2>3
<1>8. RedSiblingDone(t, u, p, s, d)
  BY <1>6, <1>7 DEF RedSiblingDone, LiftDone, near
<1> QED BY <1>8 DEF u, v, near

(* LiftBlackSibling, from any tree that differs from t as LiftSibling allows. *)
BlackSiblingDone(t, v, u, p, s, far, d) ==
    /\ TreeOK(u) /\ Lifted(t, u, p, s, Opposite(d))
    /\ \A m \in Nodes :
         u.black[m] = IF m = p THEN TRUE ELSE IF m = s THEN v.black[p]
                      ELSE IF m = far THEN TRUE ELSE v.black[m]

(* Case 4: a black sibling is lifted above p and takes its colour. *)
LEMMA LiftBlackSiblingIs ==
  ASSUME NEW t, TreeOK(t), Links(t), NEW r, NEW B, Ranked(t, r, B),
         NEW p \in Nodes, In(t, p), NEW d \in Sides, NEW s \in Nodes, t.child[p][Opposite(d)] = s,
         NEW far \in Nodes, t.child[s][Opposite(d)] = far,
         NEW v, TreeOK(v), v.root = t.root,
         \A m \in Nodes, x \in Sides : v.child[m][x] = t.child[m][x],
         \A m \in Nodes : m \notin {s, far} => v.up[m] = t.up[m]
  PROVE  BlackSiblingDone(t, v, LiftBlackSibling(v, p, s, far, d), p, s, far, d)
<1> DEFINE near == v.child[s][d]
           v1 == rb_set_parent_color(v, far, s, TRUE)
           v2 == IF near = NULL THEN v1 ELSE rb_set_parent(v1, near, p)
           u == LiftBlackSibling(v, p, s, far, d)
<1>1. /\ Opposite(d) \in Sides /\ near \in Pointer /\ p \in Pointer /\ s \in Pointer /\ far \in Pointer
      /\ TRUE \in BOOLEAN /\ near = t.child[s][d] /\ d # Opposite(d)
  BY SidesAre DEF TreeOK, Pointer
<1>2. far # p /\ far # s /\ s # p /\ near # far /\ t.up[far] = s /\ far # NULL
  <2>1. t.up[far] = s /\ far # NULL
    BY <1>1, NullIsNoNode DEF Links
  <2>2. far # s /\ s # p /\ far # p
    BY <1>1, RankedApart, NullIsNoNode
  <2>3. near # far
    BY <1>1, <2>1, SidesAre DEF Links
  <2> QED BY <2>1, <2>2, <2>3
<1>3. u = LiftSibling(v2, p, s, d, TRUE)
  BY DEF LiftBlackSibling
<1> HIDE DEF near, u
<1>4. Painted(v, v1, far, s, TRUE)
  BY <1>1, PaintedIs
<1> HIDE DEF v1
<1>5. Moved(v1, v2, near, p)
  <2>1. TreeOK(v1)
    BY <1>4 DEF Painted
  <2>2. CASE near = NULL
    BY <2>1, <2>2, NullIsNoNode DEF Moved
  <2>3. CASE near # NULL
    <3>1. v2 = rb_set_parent(v1, near, p)
      BY <2>3
    <3> HIDE DEF v2
    <3> QED BY <1>1, <2>1, <3>1, SetParentIs
  <2> QED BY <2>2, <2>3
<1> HIDE DEF v2
<1>6. TreeOK(v2) /\ v2.root = t.root /\ (\A m \in Nodes, x \in Sides : v2.child[m][x] = t.child[m][x])
  BY <1>4, <1>5 DEF Painted, Moved
<1>7. ASSUME NEW m \in Nodes, m # s PROVE v2.up[m] = IF m = t.child[s][d] THEN p ELSE t.up[m]
  <2>1. v2.up[m] = IF m = near THEN p ELSE v1.up[m]
    BY <1>5 DEF Moved
  <2>2. v1.up[m] = IF m = far THEN s ELSE v.up[m]
    BY <1>4 DEF Painted
  <2>3. m # far => v.up[m] = t.up[m]
    BY <1>7
  <2> QED BY <1>1, <1>2, <2>1, <2>2, <2>3
<1>8. LiftDone(t, v2, u, p, s, Opposite(d), TRUE)
  BY <1>1, <1>3, <1>6, <1>7, LiftSiblingIs
<1>9. ASSUME NEW m \in Nodes
      PROVE  u.black[m] = IF m = p THEN TRUE ELSE IF m = s THEN v.black[p]
                      ELSE IF m = far THEN TRUE ELSE v.black[m]
  <2>1. u.black[m] = IF m = p THEN TRUE ELSE IF m = s THEN v2.black[p] ELSE v2.black[m]
    BY <1>8 DEF LiftDone
  <2>2. v2.black = v1.black
    BY <1>5 DEF Moved
  <2>3. v1.black[p] = v.black[p]
    BY <1>2, <1>4 DEF Painted
  <2>4. v1.black[m] = IF m = far THEN TRUE ELSE v.black[m]
    BY <1>4 DEF Painted
  <2> QED BY <2>1, <2>2, <2>3, <2>4
<1>10. BlackSiblingDone(t, v, u, p, s, far, d)
  BY <1>8, <1>9 DEF BlackSiblingDone, LiftDone
<1> QED BY <1>10 DEF u

(* The near nephew first rises above the sibling, and then above the parent. *)
NephewDone(t, u, p, s, n, d) ==
    LET o == Opposite(d)
        v == Lift(t, s, n, d)
    IN  /\ TreeOK(u) /\ Lifted(v, u, p, n, o)
        /\ \A m \in Nodes :
             u.black[m] = IF m \in {p, s} THEN TRUE ELSE IF m = n THEN t.black[p]
                          ELSE IF m = t.child[n][o] THEN TRUE ELSE t.black[m]

(* Cases 3 and 4: the near nephew is lifted twice. *)
LEMMA LiftNephewIs ==
  ASSUME NEW t, TreeOK(t), Links(t), NEW r, NEW B, Ranked(t, r, B),
         NEW p \in Nodes, In(t, p), NEW d \in Sides, NEW s \in Nodes, t.child[p][Opposite(d)] = s,
         NEW n \in Nodes, t.child[s][d] = n
  PROVE  NephewDone(t, LiftBlackSibling(LiftNephew(t, p, s, d), p, n, s, d), p, s, n, d)
<1> DEFINE o == Opposite(d)
           v == Lift(t, s, n, d)
           y == LiftNephew(t, p, s, d)
           u == LiftBlackSibling(y, p, n, s, d)
           i == t.child[n][o]
           j == t.child[n][d]
<1>0. o \in Sides /\ o # d /\ Opposite(o) = d /\ \A x \in Sides : x = d \/ x = o
  BY SidesAre
<1>1. n # NULL /\ p # NULL /\ s # NULL /\ i \in Pointer /\ j \in Pointer /\ NULL \notin Nodes
  BY <1>0, NullIsNoNode DEF TreeOK, Pointer
<1>2. /\ n # p /\ p # s /\ n # s /\ i \notin {n, p, s} /\ j \notin {n, p, s}
      /\ t.up[n] = s /\ t.up[s] = p /\ (i # NULL => i # j /\ t.up[i] = n) /\ (j # NULL => t.up[j] = n)
  <2>1. t.up[n] = s /\ t.up[s] = p /\ (i # NULL => i # j /\ t.up[i] = n) /\ (j # NULL => t.up[j] = n)
    BY <1>0, <1>1 DEF Links
  <2>2. n # p /\ p # s /\ n # s /\ i \notin {n, s} /\ j \notin {n, s}
    BY <1>0, <1>1, RankedApart
  <2>3. i # p /\ j # p
    <3>1. r[p] \in Nat /\ r[s] \in Nat /\ r[n] \in Nat /\ r[s] < r[p] /\ r[n] < r[s]
      BY <1>0, <1>1 DEF Ranked
    <3>2. (i # NULL => r[i] < r[n]) /\ (j # NULL => r[j] < r[n])
      BY <1>0 DEF Ranked
    <3> QED BY <1>1, <3>1, <3>2
  <2> QED BY <2>1, <2>2, <2>3
<1>3. /\ TreeOK(y) /\ y.root = t.root
      /\ \A m \in Nodes, x \in Sides :
           y.child[m][x] = IF m = s /\ x = d THEN i ELSE IF m = n /\ x = o THEN s
                           ELSE IF m = p /\ x = o THEN n ELSE t.child[m][x]
      /\ \A m \in Nodes : y.up[m] = IF m = i THEN s ELSE t.up[m]
      /\ \A m \in Nodes : y.black[m] = IF m = i THEN TRUE ELSE t.black[m]
  <2> DEFINE v1 == Linked(t, s, d, i)
             v2 == Linked(v1, n, o, s)
             v3 == Linked(v2, p, o, n)
  <2>1. y = SetIfAny(v3, i, s, TRUE)
    BY DEF LiftNephew
  <2>2. s \in Pointer /\ n \in Pointer /\ TRUE \in BOOLEAN
    BY DEF Pointer
  <2> HIDE DEF o, i, y
  <2>3. LinkedTo(t, v1, s, d, i)
    BY <1>0, <1>1, LinkedIs
  <2> HIDE DEF v1
  <2>4. LinkedTo(v1, v2, n, o, s)
    <3>1. TreeOK(v1)
      BY <2>3 DEF LinkedTo
    <3> QED BY <1>0, <2>2, <3>1, LinkedIs
  <2> HIDE DEF v2
  <2>5. LinkedTo(v2, v3, p, o, n)
    <3>1. TreeOK(v2)
      BY <2>4 DEF LinkedTo
    <3> QED BY <1>0, <2>2, <3>1, LinkedIs
  <2> HIDE DEF v3
  <2>6. Painted(v3, y, i, s, TRUE)
    <3>1. TreeOK(v3)
      BY <2>5 DEF LinkedTo
    <3> QED BY <1>1, <2>1, <2>2, <3>1, SetIfAnyIs
  <2>7. TreeOK(y) /\ y.root = t.root /\ v3.up = t.up /\ v3.black = t.black /\ y.child = v3.child
    BY <2>3, <2>4, <2>5, <2>6 DEF LinkedTo, Painted
  <2>8. \A m \in Nodes, x \in Sides :
           y.child[m][x] = IF m = s /\ x = d THEN i ELSE IF m = n /\ x = o THEN s
                           ELSE IF m = p /\ x = o THEN n ELSE t.child[m][x]
    BY <1>2, <2>3, <2>4, <2>5, <2>7 DEF LinkedTo
  <2>9. \A m \in Nodes : y.up[m] = IF m = i THEN s ELSE t.up[m]
    BY <2>6, <2>7 DEF Painted
  <2>10. \A m \in Nodes : y.black[m] = IF m = i THEN TRUE ELSE t.black[m]
    BY <2>6, <2>7 DEF Painted
  <2> QED BY <2>7, <2>8, <2>9, <2>10
<1>4. TreeOK(v) /\ Lifted(t, v, s, n, d)
  BY <1>0, LiftIsLifted
<1> HIDE DEF v, y
<1>5. /\ v.root = t.root
      /\ \A m \in Nodes, x \in Sides : v.child[m][x] = y.child[m][x]
      /\ \A m \in Nodes : v.up[m] = IF m = s THEN n ELSE IF m = n THEN p
                                    ELSE IF m = i THEN s ELSE t.up[m]
  <2>1. t.root # s
    BY <1>1, <1>2 DEF Links
  <2>2. \A m \in Nodes, x \in Sides : t.child[m][x] = s <=> m = p /\ x = o
    <3>1. \A m \in Nodes, x \in Sides : t.child[m][x] = s => m = p
      BY <1>1, <1>2 DEF Links
    <3>2. t.child[p][d] # s
      BY <1>0, <1>1 DEF Links
    <3> QED BY <1>0, <3>1, <3>2
  <2>3. v.root = t.root
    BY <1>4, <2>1 DEF Lifted
  <2>4. \A m \in Nodes, x \in Sides : v.child[m][x] = y.child[m][x]
    <3>1. \A m \in Nodes, x \in Sides :
           v.child[m][x] = IF m = s /\ x = d THEN i ELSE IF m = n /\ x = o THEN s
                           ELSE IF t.child[m][x] = s THEN n ELSE t.child[m][x]
      BY <1>4 DEF Lifted
    <3> HIDE DEF i, o
    <3> QED BY <1>0, <1>2, <1>3, <2>2, <3>1
  <2>5. \A m \in Nodes : v.up[m] = IF m = s THEN n ELSE IF m = n THEN p
                                    ELSE IF m = i THEN s ELSE t.up[m]
    <3>1. \A m \in Nodes : v.up[m] = IF m = s THEN n ELSE IF m = n THEN t.up[s]
                                   ELSE IF m = i THEN s ELSE t.up[m]
      BY <1>4 DEF Lifted
    <3> QED BY <1>2, <3>1
  <2> QED BY <2>3, <2>4, <2>5
<1>6. Links(v) /\ (\E a, C : Ranked(v, a, C)) /\ In(v, p) /\ v.child[p][o] = n /\ v.child[n][o] = s
  <2>1. In(t, s)
    BY <1>1, <1>2 DEF In
  <2>2. Links(v) /\ (\E a, C : Ranked(v, a, C)) /\ In(v, p)
    BY <1>0, <1>4, <2>1, LiftKeepsLinks
  <2> QED BY <1>0, <1>2, <1>3, <1>5, <2>2
<1>7. BlackSiblingDone(v, y, u, p, n, s, d)
  <2>1. PICK a, C : Ranked(v, a, C)
    BY <1>6
  <2>2. \A m \in Nodes : m \notin {n, s} => y.up[m] = v.up[m]
    BY <1>3, <1>5
  <2>3. y.root = v.root /\ \A m \in Nodes, x \in Sides : y.child[m][x] = v.child[m][x]
    BY <1>3, <1>5
  <2> HIDE DEF u
  <2>4. u = LiftBlackSibling(y, p, n, s, d)
    BY DEF u
  <2> QED BY <1>3, <1>4, <1>6, <2>1, <2>2, <2>3, <2>4, LiftBlackSiblingIs
<1> HIDE DEF u
<1>8. ASSUME NEW m \in Nodes
      PROVE  u.black[m] = IF m \in {p, s} THEN TRUE ELSE IF m = n THEN t.black[p]
                          ELSE IF m = i THEN TRUE ELSE t.black[m]
  <2>1. u.black[m] = IF m = p THEN TRUE ELSE IF m = n THEN y.black[p]
                     ELSE IF m = s THEN TRUE ELSE y.black[m]
    BY <1>7 DEF BlackSiblingDone
  <2>2. y.black[m] = IF m = i THEN TRUE ELSE t.black[m]
    BY <1>3
  <2>3. p # i /\ n # s /\ p # n
    BY <1>2
  <2>4. y.black[p] = t.black[p]
    BY <1>3, <2>3
  <2> HIDE DEF i
  <2>5. CASE m = p
    BY <2>1, <2>5
  <2>6. CASE m = s
    BY <2>1, <2>3, <2>6
  <2>7. CASE m = n
    BY <1>2, <2>1, <2>3, <2>4, <2>7
  <2>8. CASE m \notin {p, s, n}
    BY <2>1, <2>2, <2>8
  <2> QED BY <2>5, <2>6, <2>7, <2>8
<1>9. NephewDone(t, u, p, s, n, d)
  BY <1>7, <1>8 DEF NephewDone, BlackSiblingDone, v
<1> QED BY <1>9 DEF u, y

----------------------------------------------------------------------------
(* The rules of a red-black tree: h counts the black nodes on any way down   *)
(* from a node, where the ways on side d of q are one short; and only x may  *)
(* be red below a red node, or as the root.                                  *)
Dark(t, n) == IF t.black[n] THEN 1 ELSE 0
Gap(q, d, n, e) == IF n = q /\ e = d THEN 1 ELSE 0
Below(t, h, n, e) == IF t.child[n][e] = NULL THEN 0 ELSE h[t.child[n][e]]

Heights(t, h, q, d) ==
    /\ h \in [Nodes -> Nat]
    /\ \A n \in Nodes, e \in Sides : h[n] = Below(t, h, n, e) + Gap(q, d, n, e) + Dark(t, n)

Colours(t, x) ==
    \A n \in Nodes : In(t, n) => t.black[n] \/ n = x \/ (t.up[n] # NULL /\ t.black[t.up[n]])

Shape(t) == TreeOK(t) /\ Links(t) /\ \E r, B : Ranked(t, r, B)

RedBlack(t, x, q, d) == Colours(t, x) /\ \E h : Heights(t, h, q, d)

(* The loops: what rb_insert_color and rb_erase_color rely on. *)
Loops ==
    /\ rb.at = "idle" => rb = Idle
    /\ rb.at \in {"left", "right"} =>
         rb.node \in Nodes /\ ~In(tree, rb.node) /\ (rb.parent # NULL => In(tree, rb.parent))
    /\ rb.at = "insert" =>
         /\ rb.node \in Nodes /\ In(tree, rb.node) /\ ~tree.black[rb.node]
         /\ rb.parent = tree.up[rb.node]
    /\ rb.at = "erase" =>
         /\ rb.parent \in Nodes /\ In(tree, rb.parent)
         /\ IsBlack(tree, rb.node) /\ rb.node = tree.child[rb.parent][NodeSide]

Rules ==
    /\ rb.at \in {"idle", "left", "right"} => RedBlack(tree, NULL, NULL, "left")
    /\ rb.at = "insert" => RedBlack(tree, rb.node, NULL, "left")
    /\ rb.at = "erase" => RedBlack(tree, NULL, rb.parent, NodeSide)

RbTypes ==
    /\ leftmost \in Pointer
    /\ rb \in [at : {"idle", "left", "right", "insert", "erase"}, node : Pointer, parent : Pointer]

RbInv == RbTypes /\ Shape(tree) /\ Loops /\ Rules

(* The invariant holds the type invariant. *)
LEMMA RbTypeFollows == RbInv => RbTypeOK
<1> SUFFICES ASSUME RbInv PROVE RbTypeOK
  OBVIOUS
<1>1. TreeOK(tree)
  BY DEF RbInv, Shape
<1>2. rb.at = "erase" => rb.parent # NULL
  BY NullIsNoNode DEF RbInv, Loops
<1> QED BY <1>1, <1>2 DEF RbInv, RbTypes, Loops, RbTypeOK, TreeOK

(* The empty tree is a red-black tree. *)
LEMMA RbInitially == RbInit => RbInv
<1> SUFFICES ASSUME RbInit PROVE RbInv
  OBVIOUS
<1> USE DEF RbInit, Idle
<1>1. RbTypes /\ TreeOK(tree)
  BY DEF RbTypes, TreeOK, Pointer
<1>2. Links(tree)
  BY DEF Links
<1>3. Ranked(tree, [n \in Nodes |-> 0], 0)
  BY DEF Ranked
<1>4. Colours(tree, NULL)
  BY NullIsNoNode DEF Colours, In
<1>5. Heights(tree, [n \in Nodes |-> 0], NULL, "left")
  BY NullIsNoNode DEF Heights, Below, Gap, Dark
<1>6. Loops
  BY DEF Loops
<1> QED BY <1>1, <1>2, <1>3, <1>4, <1>5, <1>6 DEF RbInv, Shape, Rules, RedBlack

(* The C code finds the side a node is on by looking at its parent's links. *)
SideOf(t, n, p) == IF n # t.child[p].right THEN "left" ELSE "right"

(* The test of the code finds the side d of a child that is not on both. *)
LEMMA SideOfIs ==
  ASSUME NEW t, TreeOK(t), NEW p \in Nodes, NEW n \in Pointer, NEW d \in Sides, t.child[p][d] = n,
         n # t.child[p][Opposite(d)]
  PROVE  SideOf(t, n, p) = d
<1>1. t.child[p].right = t.child[p]["right"]
  BY DEF TreeOK
<1> QED BY <1>1 DEF SideOf, Sides, Opposite

(* It finds the side of every node that has a parent. *)
LEMMA OnItsSide ==
  ASSUME NEW t, TreeOK(t), Links(t), NEW n \in Nodes, t.up[n] # NULL
  PROVE  LET p == t.up[n]
             d == SideOf(t, n, p)
         IN  p \in Nodes /\ d \in Sides /\ t.child[p][d] = n /\ t.child[p][Opposite(d)] # n
<1>1. t.up[n] \in Nodes /\ n \in Pointer
  BY DEF TreeOK, Pointer
<1>2. PICK d \in Sides : t.child[t.up[n]][d] = n /\ t.child[t.up[n]][Opposite(d)] # n
  BY HangsOnce DEF HangsFrom
<1>3. SideOf(t, n, t.up[n]) = d
  BY <1>1, <1>2, SideOfIs
<1> QED BY <1>1, <1>2, <1>3

(* Painting leaves the links as they are. *)
LEMMA SameLinks ==
  ASSUME NEW t, Shape(t), NEW u, TreeOK(u), u.root = t.root, u.child = t.child,
         \A m \in Nodes : u.up[m] = t.up[m]
  PROVE  Shape(u) /\ \A m \in Nodes : In(u, m) <=> In(t, m)
<1>1. \A m \in Nodes : In(u, m) <=> In(t, m)
  BY DEF In
<1>2. Links(u)
  <2>1. ASSUME NEW n \in Nodes, NEW d \in Sides, u.child[n][d] # NULL
        PROVE  u.up[u.child[n][d]] = n /\ u.child[n][d] # u.child[n][Opposite(d)]
    <3>1. u.child[n][d] \in Nodes
      BY <2>1 DEF TreeOK, Pointer
    <3> QED BY <2>1, <3>1 DEF Shape, Links
  <2>2. u.root # NULL => u.up[u.root] = NULL
    BY DEF Shape, Links, TreeOK, Pointer
  <2>3. ASSUME NEW n \in Nodes, u.up[n] # NULL PROVE \E d \in Sides : u.child[u.up[n]][d] = n
    BY <2>3 DEF Shape, Links
  <2>4. \A n \in Nodes : ~In(u, n) => \A d \in Sides : u.child[n][d] = NULL
    BY <1>1 DEF Shape, Links
  <2> QED BY <2>1, <2>2, <2>3, <2>4 DEF Links
<1>3. \E r, B : Ranked(u, r, B)
  BY DEF Shape, Ranked
<1> QED BY <1>1, <1>2, <1>3 DEF Shape

----------------------------------------------------------------------------
(* Insertion *)

(* Starting an insertion leaves the tree alone. *)
LEMMA StepAdd ==
  ASSUME RbInv, NEW n \in Nodes, rb_add_cached(n)
  PROVE  RbInv'
<1>1. tree' = tree /\ leftmost' = leftmost /\ rb' = [at |-> "left", node |-> n, parent |-> NULL]
  BY DEF rb_add_cached
<1>2. rb.at = "idle" /\ ~In(tree, n)
  BY DEF rb_add_cached, Idle, InTree, In
<1>3. RbTypes'
  BY <1>1 DEF RbInv, RbTypes, Pointer
<1>4. Shape(tree)' /\ Loops'
  BY <1>1, <1>2 DEF RbInv, Loops
<1>5. Rules'
  BY <1>1, <1>2 DEF RbInv, Rules
<1> QED BY <1>3, <1>4, <1>5 DEF RbInv

(* The way down of an insertion never leaves the tree. *)
LEMMA LinkIs ==
  ASSUME RbInv, rb.at \in {"left", "right"}
  PROVE  /\ Link \in Pointer
         /\ Link # NULL => In(tree, Link)
<1>1. tree.root \in Pointer /\ rb.parent \in Pointer
  BY DEF RbInv, RbTypes, Shape, TreeOK
<1>2. CASE rb.parent = NULL
  BY <1>1, <1>2 DEF Link, In
<1>3. CASE rb.parent # NULL
  <2>1. rb.parent \in Nodes /\ Side(rb.node, rb.parent) \in Sides
    BY <1>1, <1>3 DEF Pointer, Side, Sides
  <2>2. Link = tree.child[rb.parent][Side(rb.node, rb.parent)]
    BY <1>3 DEF Link
  <2>3. Link \in Pointer
    BY <2>1, <2>2 DEF RbInv, Shape, TreeOK
  <2>4. Link # NULL => tree.up[Link] = rb.parent
    BY <2>1, <2>2 DEF RbInv, Shape, Links
  <2> QED BY <1>3, <2>3, <2>4 DEF In
<1> QED BY <1>2, <1>3

(* One round of the way down. *)
LEMMA StepDescend ==
  ASSUME RbInv, rb_add_descend
  PROVE  RbInv'
<1>1. /\ rb.at \in {"left", "right"} /\ Link # NULL /\ tree' = tree /\ leftmost' = leftmost
      /\ rb' = [rb EXCEPT !.parent = Link, !.at = IF Side(rb.node, Link) = "right" THEN "right" ELSE rb.at]
  BY DEF rb_add_descend, Descending
<1>2. Link \in Pointer /\ In(tree, Link)
  BY <1>1, LinkIs
<1>3. rb \in [at : {"idle", "left", "right", "insert", "erase"}, node : Pointer, parent : Pointer]
  BY DEF RbInv, RbTypes
<1>4. rb'.at \in {"left", "right"} /\ rb'.node = rb.node /\ rb'.parent = Link
      /\ rb' \in [at : {"idle", "left", "right", "insert", "erase"}, node : Pointer, parent : Pointer]
  BY <1>1, <1>2, <1>3
<1>5. RbTypes' /\ Shape(tree)'
  BY <1>1, <1>4 DEF RbInv, RbTypes
<1>6. Loops'
  BY <1>1, <1>2, <1>4 DEF RbInv, Loops
<1>7. Rules'
  BY <1>1, <1>4 DEF RbInv, Rules
<1> QED BY <1>5, <1>6, <1>7 DEF RbInv

(* A node linked in at a free place. *)
NewNode(t, u, n, p, d) ==
    /\ TreeOK(u)
    /\ u.root = IF p = NULL THEN n ELSE t.root
    /\ \A m \in Nodes, x \in Sides :
         u.child[m][x] = IF m = p /\ x = d THEN n ELSE t.child[m][x]
    /\ \A m \in Nodes : u.up[m] = IF m = n THEN p ELSE t.up[m]
    /\ \A m \in Nodes : u.black[m] = IF m = n THEN FALSE ELSE t.black[m]

(* A red leaf breaks at most the rule that no red node has a red parent. *)
LEMMA NewNodeKeeps ==
  ASSUME NEW t, Shape(t), RedBlack(t, NULL, NULL, "left"), NEW n \in Nodes, ~In(t, n),
         NEW p \in Pointer, NEW d \in Sides, NEW u, NewNode(t, u, n, p, d),
         IF p = NULL THEN t.root = NULL ELSE In(t, p) /\ t.child[p][d] = NULL
  PROVE  /\ Shape(u) /\ In(u, n) /\ u.up[n] = p /\ ~u.black[n]
         /\ RedBlack(u, n, NULL, "left")
<1>0. TreeOK(t) /\ Links(t) /\ NULL \notin Nodes /\ n # p /\ n # NULL /\ (p # NULL => p \in Nodes)
  BY NullIsNoNode DEF Shape, Pointer
<1>1. PICK r, B : Ranked(t, r, B)
  BY DEF Shape
<1>2. t.up[n] = NULL /\ t.root # n /\ (\A x \in Sides : t.child[n][x] = NULL)
  BY <1>0 DEF In, Links
<1>3. /\ TreeOK(u)
      /\ u.root = IF p = NULL THEN n ELSE t.root
      /\ \A m \in Nodes, x \in Sides : u.child[m][x] = IF m = p /\ x = d THEN n ELSE t.child[m][x]
      /\ \A m \in Nodes : u.up[m] = IF m = n THEN p ELSE t.up[m]
      /\ \A m \in Nodes : u.black[m] = IF m = n THEN FALSE ELSE t.black[m]
  BY DEF NewNode
<1>4. \A m \in Nodes, x \in Sides : t.child[m][x] # n /\ t.child[m][x] \in Pointer
  BY <1>0, <1>2 DEF Links, TreeOK
<1>5. \A m \in Nodes : In(u, m) <=> m = n \/ In(t, m)
  <2>1. In(u, n)
    BY <1>0, <1>3 DEF In
  <2>2. ASSUME NEW m \in Nodes, m # n PROVE In(u, m) <=> In(t, m)
    <3>1. u.up[m] = t.up[m]
      BY <1>3, <2>2
    <3>2. u.root = m <=> t.root = m
      BY <1>0, <1>3, <2>2
    <3> QED BY <3>1, <3>2 DEF In
  <2> QED BY <2>1, <2>2
<1>6. Links(u)
  <2>1. ASSUME NEW m \in Nodes, NEW x \in Sides, u.child[m][x] # NULL
        PROVE  u.up[u.child[m][x]] = m /\ u.child[m][x] # u.child[m][Opposite(x)]
    <3>1. CASE m = p /\ x = d
      BY <1>0, <1>3, <1>4, <3>1, SidesAre
    <3>2. CASE ~(m = p /\ x = d)
      <4>1. u.child[m][x] = t.child[m][x] /\ t.child[m][x] \in Nodes /\ t.child[m][x] # n
        BY <1>3, <1>4, <2>1, <3>2 DEF Pointer
      <4>2. t.up[t.child[m][x]] = m /\ t.child[m][x] # t.child[m][Opposite(x)]
        BY <1>0, <2>1, <4>1 DEF Links
      <4>3. u.child[m][Opposite(x)] \in {n, t.child[m][Opposite(x)]}
        BY <1>3, SidesAre
      <4> QED BY <1>3, <4>1, <4>2, <4>3
    <3> QED BY <3>1, <3>2
  <2>2. ASSUME NEW m \in Nodes, u.up[m] # NULL PROVE \E x \in Sides : u.child[u.up[m]][x] = m
    <3>1. CASE m = n
      BY <1>0, <1>3, <2>2, <3>1
    <3>2. CASE m # n
      <4>1. u.up[m] = t.up[m] /\ t.up[m] \in Nodes
        BY <1>0, <1>3, <2>2, <3>2 DEF TreeOK, Pointer
      <4>2. PICK x \in Sides : t.child[t.up[m]][x] = m
        BY <1>0, <2>2, <4>1 DEF Links
      <4>3. ~(t.up[m] = p /\ x = d)
        BY <1>0, <4>1, <4>2
      <4> QED BY <1>3, <4>1, <4>2, <4>3
    <3> QED BY <3>1, <3>2
  <2>3. u.root # NULL => u.up[u.root] = NULL
    BY <1>0, <1>2, <1>3 DEF Links, TreeOK, Pointer
  <2>4. \A m \in Nodes : ~In(u, m) => \A x \in Sides : u.child[m][x] = NULL
    BY <1>0, <1>3, <1>5 DEF Links
  <2> QED BY <2>1, <2>2, <2>3, <2>4 DEF Links
<1>7. \E s, C : Ranked(u, s, C)
  <2> DEFINE s == [m \in Nodes |-> IF m = n THEN 0 ELSE r[m] + 1]
  <2>1. B \in Nat /\ \A m \in Nodes : r[m] \in 0 .. B
    BY <1>1 DEF Ranked
  <2>2. s \in [Nodes -> 0 .. B + 1] /\ B + 1 \in Nat
    BY <2>1
  <2>3. ASSUME NEW m \in Nodes, NEW x \in Sides, u.child[m][x] # NULL PROVE s[u.child[m][x]] < s[m]
    <3>1. CASE m = p /\ x = d
      BY <1>0, <1>3, <2>1, <3>1
    <3>2. CASE ~(m = p /\ x = d)
      <4>1. u.child[m][x] = t.child[m][x] /\ t.child[m][x] \in Nodes /\ t.child[m][x] # n /\ m # n
        BY <1>2, <1>3, <1>4, <2>3, <3>2 DEF Pointer
      <4>2. r[t.child[m][x]] < r[m]
        BY <1>0, <1>1, <4>1 DEF Ranked
      <4> QED BY <2>1, <4>1, <4>2
    <3> QED BY <3>1, <3>2
  <2> HIDE DEF s
  <2>4. Ranked(u, s, B + 1)
    BY <2>2, <2>3 DEF Ranked
  <2> QED BY <2>4
<1>8. Colours(u, n)
  <2>1. \A m \in Nodes : In(t, m) => t.black[m] \/ (t.up[m] # NULL /\ t.black[t.up[m]])
    BY <1>0 DEF RedBlack, Colours
  <2>2. ASSUME NEW m \in Nodes, In(u, m), m # n, ~u.black[m] PROVE u.up[m] # NULL /\ u.black[u.up[m]]
    <3>1. In(t, m) /\ ~t.black[m] /\ u.up[m] = t.up[m]
      BY <1>3, <1>5, <2>2
    <3>2. t.up[m] # NULL /\ t.black[t.up[m]]
      BY <2>1, <3>1
    <3>3. t.up[m] \in Nodes /\ In(t, t.up[m])
      <4>1. t.up[m] \in Nodes
        BY <1>0, <3>2 DEF TreeOK, Pointer
      <4>2. PICK x \in Sides : t.child[t.up[m]][x] = m
        BY <1>0, <3>2 DEF Links
      <4> QED BY <1>0, <4>1, <4>2 DEF Links
    <3> QED BY <1>3, <3>1, <3>2, <3>3
  <2> QED BY <2>2 DEF Colours
<1>9. \E h : Heights(u, h, NULL, "left")
  <2>1. PICK h : Heights(t, h, NULL, "left")
    BY DEF RedBlack
  <2> DEFINE k == [h EXCEPT ![n] = 0]
  <2>2. h \in [Nodes -> Nat] /\ \A m \in Nodes, x \in Sides : h[m] = Below(t, h, m, x) + 0 + Dark(t, m)
    BY <1>0, <2>1 DEF Heights, Gap
  <2>3. k \in [Nodes -> Nat] /\ k[n] = 0 /\ \A m \in Nodes : m # n => k[m] = h[m]
    BY <2>2
  <2> HIDE DEF k
  <2>4. ASSUME NEW m \in Nodes, NEW x \in Sides
        PROVE  k[m] = Below(u, k, m, x) + Gap(NULL, "left", m, x) + Dark(u, m)
    <3>1. Gap(NULL, "left", m, x) = 0
      BY <1>0 DEF Gap
    <3>2. Below(u, k, m, x) = Below(t, h, m, x)
      <4>1. CASE m = p /\ x = d
        BY <1>0, <1>3, <2>3, <4>1 DEF Below
      <4>2. CASE ~(m = p /\ x = d)
        BY <1>3, <1>4, <2>3, <4>2 DEF Below, Pointer
      <4> QED BY <4>1, <4>2
    <3>3. CASE m = n
      <4>1. Below(t, h, m, x) = 0 /\ Dark(u, m) = 0
        BY <1>2, <1>3, <3>3 DEF Below, Dark
      <4> QED BY <2>3, <3>1, <3>2, <3>3, <4>1
    <3>4. CASE m # n
      <4>1. Dark(u, m) = Dark(t, m)
        BY <1>3, <3>4 DEF Dark
      <4>2. k[m] = h[m] /\ h[m] = Below(t, h, m, x) + 0 + Dark(t, m)
        BY <2>2, <2>3, <3>4
      <4> QED BY <3>1, <3>2, <4>1, <4>2
    <3> QED BY <3>3, <3>4
  <2>5. Heights(u, k, NULL, "left")
    BY <2>3, <2>4 DEF Heights
  <2> QED BY <2>5
<1> QED BY <1>3, <1>5, <1>6, <1>7, <1>8, <1>9 DEF Shape, RedBlack

(* rb_link_node hangs the new red node below p. *)
LEMMA LinkNodeIs ==
  ASSUME NEW t, TreeOK(t), Links(t), NEW n \in Nodes, ~In(t, n), NEW p \in Pointer, p # n, NEW d \in Sides
  PROVE  LET v == [t EXCEPT !.child[n] = [x \in Sides |-> NULL]] IN
         NewNode(t, rb_set_parent_color(IF p = NULL THEN [v EXCEPT !.root = n] ELSE Linked(v, p, d, n),
                                        n, p, FALSE), n, p, d)
<1> DEFINE v == [t EXCEPT !.child[n] = [x \in Sides |-> NULL]]
           w == IF p = NULL THEN [v EXCEPT !.root = n] ELSE Linked(v, p, d, n)
           u == rb_set_parent_color(w, n, p, FALSE)
<1>1. \A x \in Sides : t.child[n][x] = NULL
  BY DEF Links
<1>2. TreeOK(v) /\ v.root = t.root /\ v.up = t.up /\ v.black = t.black
      /\ \A m \in Nodes, x \in Sides : v.child[m][x] = t.child[m][x]
  BY <1>1 DEF TreeOK, Pointer
<1>3. n \in Pointer /\ FALSE \in BOOLEAN /\ (p # NULL => p \in Nodes)
  BY DEF Pointer
<1> HIDE DEF v
<1>4. /\ TreeOK(w) /\ w.up = t.up /\ w.black = t.black
      /\ w.root = IF p = NULL THEN n ELSE t.root
      /\ \A m \in Nodes, x \in Sides : w.child[m][x] = IF m = p /\ x = d THEN n ELSE t.child[m][x]
  <2>1. CASE p = NULL
    BY <1>2, <1>3, <2>1, NullIsNoNode DEF TreeOK
  <2>2. CASE p # NULL
    <3>1. LinkedTo(v, w, p, d, n)
      BY <1>2, <1>3, <2>2, LinkedIs
    <3> HIDE DEF w
    <3> QED BY <1>2, <2>2, <3>1 DEF LinkedTo
  <2> QED BY <2>1, <2>2
<1> HIDE DEF w
<1>5. Painted(w, u, n, p, FALSE)
  BY <1>3, <1>4, PaintedIs
<1> HIDE DEF u
<1>6. NewNode(t, u, n, p, d)
  BY <1>4, <1>5, ZenonT(60) DEF NewNode, Painted
<1> QED BY <1>6 DEF u, v, w

(* The new node is linked in. *)
LEMMA StepLink ==
  ASSUME RbInv, rb_link_node
  PROVE  RbInv'
<1> DEFINE n == rb.node
           p == rb.parent
           d == Side(n, p)
           v == [tree EXCEPT !.child[n] = [x \in Sides |-> NULL]]
<1>1. /\ rb.at \in {"left", "right"} /\ Link = NULL /\ leftmost' \in {n, leftmost}
      /\ rb' = [rb EXCEPT !.at = "insert"]
      /\ tree' = rb_set_parent_color(IF p = NULL THEN [v EXCEPT !.root = n] ELSE Linked(v, p, d, n),
                                     n, p, FALSE)
  BY DEF rb_link_node, Descending
<1>2. /\ n \in Nodes /\ ~In(tree, n) /\ (p # NULL => In(tree, p)) /\ p \in Pointer /\ d \in Sides
      /\ TreeOK(tree) /\ Links(tree) /\ Shape(tree)
      /\ rb \in [at : {"idle", "left", "right", "insert", "erase"}, node : Pointer, parent : Pointer]
  BY <1>1 DEF RbInv, RbTypes, Loops, Shape, Side, Sides
<1>3. p # n
  BY <1>2, NullIsNoNode
<1>4. RedBlack(tree, NULL, NULL, "left")
  BY <1>1 DEF RbInv, Rules
<1>5. IF p = NULL THEN tree.root = NULL ELSE In(tree, p) /\ tree.child[p][d] = NULL
  BY <1>1, <1>2 DEF Link
<1> HIDE DEF n, p, d
<1>6. NewNode(tree, tree', n, p, d)
  BY <1>1, <1>2, <1>3, LinkNodeIs
<1>7. Shape(tree') /\ In(tree', n) /\ tree'.up[n] = p /\ ~tree'.black[n] /\ RedBlack(tree', n, NULL, "left")
  BY <1>2, <1>4, <1>5, <1>6, NewNodeKeeps
<1>8. /\ rb'.at = "insert" /\ rb'.node = n /\ rb'.parent = p
      /\ rb' \in [at : {"idle", "left", "right", "insert", "erase"}, node : Pointer, parent : Pointer]
  BY <1>1, <1>2 DEF n, p
<1>9. RbTypes'
  BY <1>1, <1>2, <1>8 DEF RbTypes, RbInv, Pointer
<1>10. Loops'
  BY <1>2, <1>7, <1>8 DEF Loops
<1>11. Rules'
  BY <1>7, <1>8 DEF Rules
<1> QED BY <1>7, <1>9, <1>10, <1>11 DEF RbInv

(* NULL counts as black. *)
LEMMA IsBlackIs ==
  ASSUME NEW t, TreeOK(t), NEW n \in Pointer
  PROVE  /\ IsBlack(t, n) <=> n = NULL \/ t.black[n]
         /\ IsRed(t, n) <=> n \in Nodes /\ ~t.black[n]
BY NullIsNoNode DEF IsBlack, IsRed, Pointer, TreeOK

(* The root turns black. *)
LEMMA RootTurnsBlack ==
  ASSUME NEW t, Shape(t), NEW n \in Nodes, In(t, n), t.up[n] = NULL, ~t.black[n],
         RedBlack(t, n, NULL, "left"), NEW u, Painted(t, u, n, NULL, TRUE)
  PROVE  Shape(u) /\ RedBlack(u, NULL, NULL, "left")
<1>0. TreeOK(t) /\ Links(t) /\ NULL \notin Nodes
  BY NullIsNoNode DEF Shape
<1>1. /\ TreeOK(u) /\ u.root = t.root /\ u.child = t.child /\ (\A m \in Nodes : u.up[m] = t.up[m])
      /\ \A m \in Nodes : u.black[m] = IF m = n THEN TRUE ELSE t.black[m]
  BY DEF Painted
<1>2. Shape(u) /\ \A m \in Nodes : In(u, m) <=> In(t, m)
  BY <1>1, SameLinks
<1>3. \A m \in Nodes, x \in Sides : t.child[m][x] # n
  BY <1>0 DEF Links
<1>4. Colours(u, NULL)
  <2>1. ASSUME NEW m \in Nodes, In(u, m), ~u.black[m] PROVE u.up[m] # NULL /\ u.black[u.up[m]]
    <3>1. m # n /\ ~t.black[m] /\ In(t, m)
      BY <1>1, <1>2, <2>1
    <3>2. t.up[m] # NULL /\ t.black[t.up[m]] /\ t.up[m] \in Nodes
      BY <1>0, <3>1 DEF Colours, RedBlack, TreeOK, Pointer
    <3> QED BY <1>1, <3>2
  <2> QED BY <2>1 DEF Colours
<1>5. PICK h : Heights(t, h, NULL, "left")
  BY DEF RedBlack
<1> DEFINE k == [h EXCEPT ![n] = h[n] + 1]
<1>6. h \in [Nodes -> Nat] /\ \A m \in Nodes, x \in Sides : h[m] = Below(t, h, m, x) + 0 + Dark(t, m)
  BY <1>0, <1>5 DEF Heights, Gap
<1>7. k \in [Nodes -> Nat] /\ k[n] = h[n] + 1 /\ \A m \in Nodes : m # n => k[m] = h[m]
  BY <1>6
<1> HIDE DEF k
<1>8. ASSUME NEW m \in Nodes, NEW x \in Sides
      PROVE  k[m] = Below(u, k, m, x) + Gap(NULL, "left", m, x) + Dark(u, m)
  <2>1. Gap(NULL, "left", m, x) = 0
    BY <1>0 DEF Gap
  <2>2. Below(u, k, m, x) = Below(t, h, m, x) /\ Below(t, h, m, x) \in Nat
    BY <1>0, <1>1, <1>3, <1>6, <1>7 DEF Below, TreeOK, Pointer
  <2>3. h[m] = Below(t, h, m, x) + 0 + Dark(t, m)
    BY <1>6
  <2>4. CASE m = n
    <3>1. Dark(t, m) = 0 /\ Dark(u, m) = 1
      BY <1>1, <2>4 DEF Dark
    <3> QED BY <1>7, <2>1, <2>2, <2>3, <2>4, <3>1
  <2>5. CASE m # n
    <3>1. Dark(t, m) = Dark(u, m)
      BY <1>1, <2>5 DEF Dark
    <3> QED BY <1>7, <2>1, <2>2, <2>3, <2>5, <3>1
  <2> QED BY <2>4, <2>5
<1>9. Heights(u, k, NULL, "left")
  BY <1>7, <1>8 DEF Heights
<1> QED BY <1>2, <1>4, <1>9 DEF RedBlack

(* The loop of __rb_insert ends at the root or below a black parent. *)
LEMMA StepInsertDone ==
  ASSUME RbInv, rb_insert_done
  PROVE  RbInv'
<1> DEFINE n == rb.node
<1>1. /\ rb.at = "insert" /\ IsBlack(tree, rb.parent) /\ rb' = Idle /\ leftmost' = leftmost
      /\ tree' = IF rb.parent = NULL THEN rb_set_parent_color(tree, n, NULL, TRUE) ELSE tree
  BY DEF rb_insert_done
<1>2. /\ n \in Nodes /\ In(tree, n) /\ ~tree.black[n] /\ rb.parent = tree.up[n]
      /\ TreeOK(tree) /\ Shape(tree) /\ RedBlack(tree, n, NULL, "left") /\ rb.parent \in Pointer
  BY <1>1 DEF RbInv, RbTypes, Loops, Rules, Shape
<1>3. Shape(tree') /\ RedBlack(tree', NULL, NULL, "left")
  <2>1. CASE rb.parent = NULL
    <3>1. n \in Pointer /\ NULL \in Pointer /\ TRUE \in BOOLEAN
      BY <1>2 DEF Pointer
    <3>2. tree' = rb_set_parent_color(tree, n, NULL, TRUE)
      BY <1>1, <2>1
    <3> HIDE DEF n
    <3>3. Painted(tree, tree', n, NULL, TRUE)
      BY <1>2, <3>1, <3>2, PaintedIs
    <3> QED BY <1>2, <2>1, <3>3, RootTurnsBlack
  <2>2. CASE rb.parent # NULL
    <3>1. tree' = tree
      BY <1>1, <2>2
    <3>2. tree.up[n] # NULL /\ tree.black[tree.up[n]]
      BY <1>1, <1>2, <2>2, IsBlackIs
    <3>3. Colours(tree, NULL)
      BY <1>2, <3>2 DEF Colours, RedBlack
    <3> QED BY <1>2, <3>1, <3>3 DEF RedBlack
  <2> QED BY <2>1, <2>2
<1>4. RbTypes' /\ Loops' /\ Rules'
  BY <1>1, <1>3 DEF RbInv, RbTypes, Idle, Loops, Rules, Pointer
<1> QED BY <1>3, <1>4 DEF RbInv

(* Below a red parent there is a black grandparent. *)
LEMMA RedParentIs ==
  ASSUME RbInv, RedParent
  PROVE  LET n == rb.node
             p == rb.parent
             g == Gparent
             d == ParentSide
         IN  /\ n \in Nodes /\ p \in Nodes /\ g \in Nodes /\ d \in Sides
             /\ In(tree, n) /\ In(tree, p) /\ In(tree, g)
             /\ ~tree.black[n] /\ ~tree.black[p] /\ tree.black[g]
             /\ tree.up[n] = p /\ tree.up[p] = g
             /\ tree.child[g][d] = p /\ tree.child[g][Opposite(d)] = Uncle
             /\ Uncle \in Pointer /\ Uncle # p
             /\ RedBlack(tree, n, NULL, "left") /\ rb.at = "insert"
<1> DEFINE n == rb.node
           p == rb.parent
<1>0. TreeOK(tree) /\ Links(tree) /\ Shape(tree) /\ p \in Pointer /\ NULL \notin Nodes
  BY NullIsNoNode DEF RbInv, RbTypes, Shape
<1>1. /\ rb.at = "insert" /\ n \in Nodes /\ In(tree, n) /\ ~tree.black[n] /\ p = tree.up[n]
      /\ RedBlack(tree, n, NULL, "left")
  BY DEF RbInv, Loops, RedParent, Rules
<1>2. p \in Nodes /\ ~tree.black[p]
  BY <1>0, IsBlackIs DEF RedParent
<1>3. In(tree, p) /\ p # n
  <2>1. PICK r, B : Ranked(tree, r, B)
    BY <1>0 DEF Shape
  <2>2. p # n
    BY <1>0, <1>1, <1>2, <2>1, RankedApart
  <2>3. PICK x \in Sides : tree.child[p][x] = n
    BY <1>0, <1>1, <1>2 DEF Links
  <2> QED BY <1>0, <1>1, <1>2, <2>2, <2>3 DEF Links
<1>4. Gparent = tree.up[p] /\ tree.up[p] # NULL /\ tree.black[tree.up[p]]
  BY <1>1, <1>2, <1>3 DEF Gparent, RedBlack, Colours
<1>5. /\ ParentSide = SideOf(tree, p, tree.up[p])
      /\ Uncle = tree.child[tree.up[p]][Opposite(ParentSide)]
  BY <1>4 DEF ParentSide, SideOf, Uncle
<1>6. /\ tree.up[p] \in Nodes /\ ParentSide \in Sides /\ tree.child[tree.up[p]][ParentSide] = p
      /\ tree.child[tree.up[p]][Opposite(ParentSide)] # p
  BY <1>0, <1>2, <1>4, <1>5, OnItsSide
<1>7. In(tree, tree.up[p]) /\ Uncle \in Pointer
  BY <1>0, <1>2, <1>5, <1>6, SidesAre DEF Links, TreeOK
<1> QED BY <1>1, <1>2, <1>3, <1>4, <1>5, <1>6, <1>7

(* Case 1: parent and uncle turn black, the grandparent red. *)
Flipped(t, u, g, p, c) ==
    /\ TreeOK(u) /\ u.root = t.root /\ u.child = t.child /\ \A m \in Nodes : u.up[m] = t.up[m]
    /\ \A m \in Nodes :
         u.black[m] = IF m = g THEN FALSE ELSE IF m \in {p, c} THEN TRUE ELSE t.black[m]

(* The recolouring moves the broken rule up to the grandparent. *)
LEMMA FlipKeeps ==
  ASSUME NEW t, Shape(t), NEW n \in Nodes, RedBlack(t, n, NULL, "left"),
         NEW g \in Nodes, NEW d \in Sides, NEW p \in Nodes, NEW c \in Nodes,
         t.child[g][d] = p, t.child[g][Opposite(d)] = c, t.up[n] = p,
         ~t.black[p], ~t.black[c], t.black[g],
         NEW u, Flipped(t, u, g, p, c)
  PROVE  Shape(u) /\ In(u, g) /\ ~u.black[g] /\ RedBlack(u, g, NULL, "left")
<1> USE DEF Flipped
<1>0. TreeOK(t) /\ Links(t) /\ NULL \notin Nodes /\ p # NULL /\ c # NULL
  BY NullIsNoNode DEF Shape
<1>1. Shape(u) /\ \A m \in Nodes : In(u, m) <=> In(t, m)
  BY SameLinks
<1>2. In(u, g) /\ ~u.black[g]
  <2>1. In(t, g)
    BY <1>0 DEF Links
  <2> QED BY <1>1, <2>1
<1>3. /\ p # c /\ p # g /\ c # g
      /\ \A m \in Nodes, x \in Sides : t.child[m][x] = p <=> m = g /\ x = d
      /\ \A m \in Nodes, x \in Sides : t.child[m][x] = c <=> m = g /\ x = Opposite(d)
  <2>1. PICK r, B : Ranked(t, r, B)
    BY DEF Shape
  <2>2. p # c /\ p # g /\ c # g
    BY <1>0, <2>1, RankedApart, SidesAre DEF Links
  <2>3. \A m \in Nodes, x \in Sides : (t.child[m][x] = p \/ t.child[m][x] = c) => m = g
    BY <1>0, SidesAre DEF Links
  <2> QED BY <2>2, <2>3, SidesAre
<1>4. Colours(u, g)
  <2>1. ASSUME NEW m \in Nodes, In(u, m), ~u.black[m], m # g PROVE u.up[m] # NULL /\ u.black[u.up[m]]
    <3>1. m \notin {g, p, c} /\ ~t.black[m] /\ In(t, m)
      BY <1>1, <2>1
    <3>2. t.up[m] # NULL /\ t.up[m] \in Nodes /\ (t.black[t.up[m]] \/ t.up[m] = p)
      BY <1>0, <3>1 DEF Colours, RedBlack, TreeOK, Pointer
    <3>3. t.up[m] # g
      BY <1>0, <3>1, <3>2, SidesAre DEF Links
    <3> QED BY <3>2, <3>3
  <2> QED BY <2>1 DEF Colours
<1>5. PICK h : Heights(t, h, NULL, "left")
  BY DEF RedBlack
<1> DEFINE k == [m \in Nodes |-> IF m \in {p, c} THEN h[m] + 1 ELSE h[m]]
<1>6. h \in [Nodes -> Nat] /\ \A m \in Nodes, x \in Sides : h[m] = Below(t, h, m, x) + 0 + Dark(t, m)
  BY <1>0, <1>5 DEF Heights, Gap
<1>7. k \in [Nodes -> Nat] /\ k[p] = h[p] + 1 /\ k[c] = h[c] + 1
      /\ \A m \in Nodes : m \notin {p, c} => k[m] = h[m]
  BY <1>6
<1> HIDE DEF k
<1>8. ASSUME NEW m \in Nodes, NEW x \in Sides
      PROVE  k[m] = Below(u, k, m, x) + Gap(NULL, "left", m, x) + Dark(u, m)
  <2>1. Gap(NULL, "left", m, x) = 0
    BY <1>0 DEF Gap
  <2>2. h[m] = Below(t, h, m, x) + 0 + Dark(t, m)
    BY <1>6
  <2>3. t.child[m][x] \in Pointer /\ Below(t, h, m, x) \in Nat
    BY <1>0, <1>6 DEF Below, TreeOK, Pointer
  <2>4. CASE m = g
    <3>1. t.child[m][x] \in {p, c}
      BY <2>4, SidesAre
    <3>2. Below(u, k, m, x) = Below(t, h, m, x) + 1
      BY <1>0, <1>7, <3>1 DEF Below
    <3>3. Dark(t, m) = 1 /\ Dark(u, m) = 0
      BY <2>4 DEF Dark
    <3> QED BY <1>3, <1>7, <2>1, <2>2, <2>3, <2>4, <3>2, <3>3
  <2>5. CASE m # g
    <3>1. t.child[m][x] \notin {p, c}
      BY <1>3, <2>5
    <3>2. Below(u, k, m, x) = Below(t, h, m, x)
      BY <1>0, <1>7, <2>3, <3>1 DEF Below, Pointer
    <3>3. CASE m \in {p, c}
      <4>1. Dark(t, m) = 0 /\ Dark(u, m) = 1
        BY <2>5, <3>3 DEF Dark
      <4> QED BY <1>7, <2>1, <2>2, <2>3, <3>2, <3>3, <4>1
    <3>4. CASE m \notin {p, c}
      <4>1. Dark(t, m) = Dark(u, m)
        BY <2>5, <3>4 DEF Dark
      <4> QED BY <1>7, <2>1, <2>2, <2>3, <3>2, <3>4, <4>1
    <3> QED BY <3>3, <3>4
  <2> QED BY <2>4, <2>5
<1>9. Heights(u, k, NULL, "left")
  BY <1>7, <1>8 DEF Heights
<1> QED BY <1>1, <1>2, <1>4, <1>9 DEF RedBlack

(* Case 1 of the insertion. *)
LEMMA StepInsertFlip ==
  ASSUME RbInv, rb_insert_flip
  PROVE  RbInv'
<1> DEFINE n == rb.node
           p == rb.parent
           g == Gparent
           d == ParentSide
           c == Uncle
           v == rb_set_parent_color(tree, c, g, TRUE)
           w == rb_set_parent_color(v, p, g, TRUE)
<1>1. /\ RedParent /\ IsRed(tree, c) /\ leftmost' = leftmost
      /\ rb' = [rb EXCEPT !.node = g, !.parent = tree.up[g]]
      /\ tree' = rb_set_parent_color(w, g, tree.up[g], FALSE)
  BY DEF rb_insert_flip
<1>2. /\ n \in Nodes /\ p \in Nodes /\ g \in Nodes /\ d \in Sides
      /\ In(tree, n) /\ In(tree, p) /\ In(tree, g)
      /\ ~tree.black[n] /\ ~tree.black[p] /\ tree.black[g]
      /\ tree.up[n] = p /\ tree.up[p] = g
      /\ tree.child[g][d] = p /\ tree.child[g][Opposite(d)] = c
      /\ c \in Pointer /\ c # p
      /\ RedBlack(tree, n, NULL, "left") /\ rb.at = "insert"
  BY <1>1, RedParentIs
<1>3. /\ Shape(tree) /\ TreeOK(tree) /\ Links(tree)
      /\ rb \in [at : {"idle", "left", "right", "insert", "erase"}, node : Pointer, parent : Pointer]
  BY DEF RbInv, RbTypes, Shape
<1>4. c \in Nodes /\ ~tree.black[c]
  BY <1>1, <1>2, <1>3, IsBlackIs
<1>5. /\ tree.up[c] = g /\ tree.up[g] \in Pointer /\ TRUE \in BOOLEAN /\ FALSE \in BOOLEAN
      /\ g \in Pointer /\ p \in Pointer
  BY <1>2, <1>3, <1>4, NullIsNoNode, SidesAre DEF Links, TreeOK, Pointer
<1> HIDE DEF n, p, g, d, c
<1>6. Painted(tree, v, c, g, TRUE)
  BY <1>2, <1>3, <1>5, PaintedIs
<1> HIDE DEF v
<1>7. Painted(v, w, p, g, TRUE)
  <2>1. TreeOK(v)
    BY <1>6 DEF Painted
  <2> QED BY <1>5, <2>1, PaintedIs
<1> HIDE DEF w
<1>8. Painted(w, tree', g, tree.up[g], FALSE)
  <2>1. TreeOK(w)
    BY <1>7 DEF Painted
  <2> QED BY <1>1, <1>5, <2>1, PaintedIs
<1>9. TreeOK(tree') /\ tree'.root = tree.root /\ tree'.child = tree.child
  BY <1>6, <1>7, <1>8 DEF Painted
<1>10. \A m \in Nodes : tree'.up[m] = tree.up[m]
  BY <1>2, <1>5, <1>6, <1>7, <1>8 DEF Painted
<1>11. ASSUME NEW m \in Nodes
       PROVE  tree'.black[m] = IF m = g THEN FALSE ELSE IF m \in {p, c} THEN TRUE ELSE tree.black[m]
  <2>1. tree'.black[m] = IF m = g THEN FALSE ELSE w.black[m]
    BY <1>8 DEF Painted
  <2>2. w.black[m] = IF m = p THEN TRUE ELSE v.black[m]
    BY <1>7 DEF Painted
  <2>3. v.black[m] = IF m = c THEN TRUE ELSE tree.black[m]
    BY <1>6 DEF Painted
  <2> QED BY <2>1, <2>2, <2>3
<1>12. Shape(tree') /\ In(tree', g) /\ ~tree'.black[g] /\ RedBlack(tree', g, NULL, "left")
  <2>1. Flipped(tree, tree', g, p, c)
    BY <1>9, <1>10, <1>11 DEF Flipped
  <2> QED BY <1>2, <1>3, <1>4, <2>1, FlipKeeps
<1>13. /\ rb'.at = "insert" /\ rb'.node = g /\ rb'.parent = tree.up[g]
       /\ rb' \in [at : {"idle", "left", "right", "insert", "erase"}, node : Pointer, parent : Pointer]
  BY <1>1, <1>2, <1>3, <1>5
<1>14. tree'.up[g] = tree.up[g]
  BY <1>2, <1>10
<1>15. RbTypes'
  BY <1>1, <1>13 DEF RbInv, RbTypes
<1>16. Loops'
  BY <1>2, <1>12, <1>13, <1>14 DEF Loops
<1>17. Rules'
  BY <1>12, <1>13 DEF Rules
<1> QED BY <1>12, <1>15, <1>16, <1>17 DEF RbInv

(* Away from a rotation nothing changes, if the node that rises has the      *)
(* height of the one it replaces.                                            *)
LEMMA LiftBelow ==
  ASSUME NEW t, Shape(t), NEW p \in Nodes, NEW e \in Sides, NEW c \in Nodes, t.child[p][e] = c,
         NEW u, Lifted(t, u, p, c, e), NEW h, NEW k, k[c] = h[p],
         \A y \in Nodes : y \notin {p, c} /\ t.up[y] \notin {p, c} => k[y] = h[y],
         NEW m \in Nodes, m \notin {p, c}, NEW x \in Sides
  PROVE  Below(u, k, m, x) = Below(t, h, m, x)
<1> DEFINE y == t.child[m][x]
<1>0. TreeOK(t) /\ Links(t) /\ NULL \notin Nodes /\ y \in Pointer
  BY NullIsNoNode DEF Shape, TreeOK
<1>1. u.child[m][x] = IF y = p THEN c ELSE y
  BY DEF Lifted
<1>2. CASE y = NULL
  BY <1>0, <1>1, <1>2 DEF Below
<1>3. CASE y # NULL
  <2>1. y \in Nodes /\ t.up[y] = m
    BY <1>0, <1>3 DEF Links, Pointer
  <2>2. t.up[c] = p
    BY <1>0 DEF Links
  <2>3. CASE y = p
    BY <1>0, <1>1, <2>3 DEF Below
  <2>4. CASE y # p
    <3>1. y # c /\ k[y] = h[y]
      BY <2>1, <2>2, <2>4
    <3> QED BY <1>0, <1>1, <1>3, <2>4, <3>1 DEF Below
  <2> QED BY <2>3, <2>4
<1> QED BY <1>2, <1>3

(* A rotation keeps the links paired, without a cycle, and the nodes. *)
LEMMA LiftKeepsShape ==
  ASSUME NEW t, Shape(t), NEW p \in Nodes, In(t, p), NEW e \in Sides, NEW c \in Nodes,
         t.child[p][e] = c, NEW u, TreeOK(u), Lifted(t, u, p, c, e)
  PROVE  Shape(u) /\ \A m \in Nodes : In(u, m) <=> In(t, m)
<1>1. PICK r, B : Ranked(t, r, B)
  BY DEF Shape
<1> QED BY <1>1, LiftKeepsLinks DEF Shape

(* Case 3 of the insertion. *)
LEMMA OuterKeeps ==
  ASSUME NEW t, Shape(t), NEW n \in Nodes, RedBlack(t, n, NULL, "left"),
         NEW g \in Nodes, In(t, g), NEW d \in Sides, NEW p \in Nodes, t.child[g][d] = p,
         t.up[n] = p, t.child[p][Opposite(d)] # n,
         ~t.black[p], t.black[g], IsBlack(t, t.child[g][Opposite(d)]),
         NEW u, OuterDone(t, u, p, g, d)
  PROVE  Shape(u) /\ RedBlack(u, NULL, NULL, "left")
<1> DEFINE o == Opposite(d)
           tmp == t.child[p][o]
           c == t.child[g][o]
<1>0. /\ TreeOK(t) /\ Links(t) /\ NULL \notin Nodes /\ o \in Sides /\ o # d
      /\ (\A x \in Sides : x = d \/ x = o) /\ tmp \in Pointer /\ c \in Pointer /\ p # NULL /\ g # NULL
  BY NullIsNoNode, SidesAre DEF Shape, TreeOK
<1>1. Shape(u) /\ \A m \in Nodes : In(u, m) <=> In(t, m)
  BY <1>0, LiftKeepsShape DEF OuterDone
<1>2. PICK r, B : Ranked(t, r, B)
  BY DEF Shape
<1>3. /\ p # g /\ tmp \notin {p, g} /\ c \notin {p, g} /\ t.up[p] = g
      /\ (tmp # NULL => t.up[tmp] = p) /\ (c # NULL => t.up[c] = g) /\ In(t, p)
      /\ t.child[p][d] \notin {p, g} /\ t.child[p][d] \in Pointer
  <2>1. t.up[p] = g /\ (tmp # NULL => t.up[tmp] = p) /\ (c # NULL => t.up[c] = g) /\ In(t, p) /\ c # p
    BY <1>0 DEF Links, In
  <2>2. p # g /\ tmp \notin {p, g} /\ c # g /\ t.child[p][d] \notin {p, g}
    BY <1>0, <1>2, RankedApart
  <2> QED BY <1>0, <2>1, <2>2 DEF TreeOK
<1>4. /\ u.root = IF t.root = g THEN p ELSE t.root
      /\ \A m \in Nodes, x \in Sides :
           u.child[m][x] = IF m = g /\ x = d THEN tmp ELSE IF m = p /\ x = o THEN g
                           ELSE IF t.child[m][x] = g THEN p ELSE t.child[m][x]
      /\ \A m \in Nodes : u.up[m] = IF m = g THEN p ELSE IF m = p THEN t.up[g]
                                    ELSE IF m = tmp THEN g ELSE t.up[m]
  BY DEF OuterDone, Lifted
<1>5. tmp # NULL => t.black[tmp]
  <2> SUFFICES ASSUME tmp # NULL PROVE t.black[tmp]
    OBVIOUS
  <2>1. tmp \in Nodes /\ In(t, tmp) /\ t.up[tmp] = p /\ tmp # n
    BY <1>0, <1>3 DEF Pointer, In
  <2> HIDE DEF tmp
  <2> QED BY <2>1 DEF RedBlack, Colours
<1>6. c # NULL => t.black[c]
  BY <1>0, IsBlackIs
<1>7. ~u.black[g] /\ u.black[p] /\ (\A m \in Nodes : m \notin {g, p} => (u.black[m] <=> t.black[m]))
  <2>1. \A m \in Nodes :
         u.black[m] = IF m = g THEN FALSE ELSE IF m = p THEN t.black[g]
                      ELSE IF m = tmp THEN TRUE ELSE t.black[m]
    BY DEF OuterDone
  <2> HIDE DEF tmp, c
  <2>2. ~u.black[g] /\ u.black[p]
    BY <1>3, <2>1
  <2>3. ASSUME NEW m \in Nodes, m \notin {g, p} PROVE u.black[m] <=> t.black[m]
    <3>1. u.black[m] = IF m = tmp THEN TRUE ELSE t.black[m]
      BY <2>1, <2>3
    <3> QED BY <1>0, <1>5, <3>1
  <2> QED BY <2>2, <2>3
<1>8. Colours(u, NULL)
  <2>1. ASSUME NEW m \in Nodes, In(u, m), ~u.black[m] PROVE u.up[m] # NULL /\ u.black[u.up[m]]
    <3>1. CASE m = g
      BY <1>0, <1>4, <1>7, <3>1
    <3>2. CASE m = n
      <4>1. n # g /\ n # p /\ n # tmp
        <5>1. r[n] < r[p] /\ r[p] < r[g] /\ n # p
          BY <1>0, <1>2, <1>3, RankedApart
        <5>2. r[n] \in Nat /\ r[p] \in Nat /\ r[g] \in Nat
          BY <1>2 DEF Ranked
        <5> QED BY <5>1, <5>2
      <4> QED BY <1>0, <1>4, <1>7, <3>2, <4>1
    <3>3. CASE m \notin {g, n}
      <4>1. m # p /\ ~t.black[m] /\ In(t, m) /\ m # tmp
        <5> HIDE DEF tmp
        <5> QED BY <1>0, <1>1, <1>5, <1>7, <2>1, <3>3
      <4>2. t.up[m] # NULL /\ t.black[t.up[m]] /\ t.up[m] \in Nodes
        BY <1>0, <3>3, <4>1 DEF RedBlack, Colours, TreeOK, Pointer
      <4>3. t.up[m] # g
        <5>1. t.up[m] = g => m \in {p, c}
          BY <1>0 DEF Links
        <5>2. m # c
          BY <1>0, <1>6, <4>1
        <5> QED BY <4>1, <5>1, <5>2
      <4>4. u.up[m] = t.up[m]
        BY <1>4, <3>3, <4>1
      <4>5. u.black[t.up[m]]
        BY <1>7, <4>2, <4>3
      <4> QED BY <4>2, <4>4, <4>5
    <3> QED BY <3>1, <3>2, <3>3
  <2> QED BY <2>1 DEF Colours
<1>9. PICK h : Heights(t, h, NULL, "left")
  BY DEF RedBlack
<1>10. h \in [Nodes -> Nat] /\ \A m \in Nodes, x \in Sides : h[m] = Below(t, h, m, x) + 0 + Dark(t, m)
  BY <1>0, <1>9 DEF Heights, Gap
<1>11. h[g] = h[p] + 1 /\ Below(t, h, g, o) = h[p] /\ Below(t, h, p, o) = h[p] /\ Below(t, h, p, d) = h[p]
  <2>1. Below(t, h, g, d) = h[p] /\ Dark(t, g) = 1 /\ Dark(t, p) = 0
    BY <1>0 DEF Below, Dark
  <2>2. \A m \in Nodes, x \in Sides : Below(t, h, m, x) \in Nat
    BY <1>0, <1>10 DEF Below, TreeOK, Pointer
  <2>3. h[g] = h[p] + 0 + 1
    BY <1>10, <2>1
  <2>4. h[g] = Below(t, h, g, o) + 0 + 1 /\ h[p] = Below(t, h, p, o) + 0 + 0 /\ h[p] = Below(t, h, p, d) + 0 + 0
    BY <1>0, <1>10, <2>1
  <2> HIDE DEF o
  <2> QED BY <1>0, <1>10, <2>2, <2>3, <2>4
<1> DEFINE k == [h EXCEPT ![p] = h[p] + 1, ![g] = h[p]]
<1>12. k \in [Nodes -> Nat] /\ k[p] = h[p] + 1 /\ k[g] = h[p] /\ \A m \in Nodes : m \notin {p, g} => k[m] = h[m]
  BY <1>3, <1>10
<1> HIDE DEF k
<1>13. \A y \in Pointer : y \notin {p, g} => (y = NULL \/ k[y] = h[y])
  BY <1>12 DEF Pointer
<1>14. ASSUME NEW m \in Nodes, NEW x \in Sides
       PROVE  k[m] = Below(u, k, m, x) + Gap(NULL, "left", m, x) + Dark(u, m)
  <2>1. Gap(NULL, "left", m, x) = 0 /\ h[p] \in Nat
    BY <1>0, <1>10 DEF Gap
  <2>2. CASE m = g
    <3>1. Below(u, k, m, x) = h[p]
      <4>1. CASE x = d
        <5>1. u.child[m][x] = tmp
          BY <1>4, <2>2, <4>1
        <5> QED BY <1>3, <1>11, <1>13, <1>0, <5>1 DEF Below
      <4>2. CASE x = o
        <5>1. u.child[m][x] = c
          BY <1>0, <1>3, <1>4, <2>2, <4>2
        <5> QED BY <1>3, <1>11, <1>13, <1>0, <5>1 DEF Below
      <4> QED BY <1>0, <4>1, <4>2
    <3>2. Dark(u, m) = 0
      BY <1>7, <2>2 DEF Dark
    <3> QED BY <1>12, <2>1, <2>2, <3>1, <3>2
  <2>3. CASE m = p
    <3>1. Below(u, k, m, x) = h[p]
      <4>1. CASE x = d
        <5>1. u.child[m][x] = t.child[p][d]
          BY <1>0, <1>3, <1>4, <2>3, <4>1
        <5> QED BY <1>3, <1>11, <1>13, <1>0, <5>1 DEF Below
      <4>2. CASE x = o
        <5>1. u.child[m][x] = g
          BY <1>0, <1>3, <1>4, <2>3, <4>2
        <5> QED BY <1>0, <1>12, <5>1 DEF Below
      <4> QED BY <1>0, <4>1, <4>2
    <3>2. Dark(u, m) = 1
      BY <1>7, <2>3 DEF Dark
    <3> QED BY <1>12, <2>1, <2>3, <3>1, <3>2
  <2>4. CASE m \notin {g, p}
    <3>1. Lifted(t, u, g, p, d) /\ k[p] = h[g]
      BY <1>11, <1>12 DEF OuterDone
    <3>2. Below(u, k, m, x) = Below(t, h, m, x)
      BY <1>12, <2>4, <3>1, LiftBelow
    <3>3. Dark(u, m) = Dark(t, m) /\ k[m] = h[m]
      BY <1>7, <1>12, <2>4 DEF Dark
    <3> QED BY <1>10, <2>1, <3>2, <3>3
  <2> QED BY <2>2, <2>3, <2>4
<1>15. Heights(u, k, NULL, "left")
  BY <1>12, <1>14 DEF Heights
<1> QED BY <1>1, <1>8, <1>15 DEF RedBlack

(* Two rotations in a row: c, the inner child of b, which is a child of a,   *)
(* ends above both.                                                          *)
DoubleLifted(t, u, a, b, c, d) ==
    LET o == Opposite(d)
        i == t.child[c][d]
        j == t.child[c][o]
    IN
    /\ Shape(u) /\ \A m \in Nodes : In(u, m) <=> In(t, m)
    /\ u.root = IF t.root = a THEN c ELSE t.root
    /\ u.child[a][d] = j /\ u.child[a][o] = t.child[a][o]
    /\ u.child[b][o] = i /\ u.child[b][d] = t.child[b][d]
    /\ u.child[c][o] = a /\ u.child[c][d] = b
    /\ \A m \in Nodes, x \in Sides : m \notin {a, b, c} =>
         u.child[m][x] = IF t.child[m][x] = a THEN c ELSE t.child[m][x]
    /\ \A m \in Nodes : u.up[m] = IF m \in {a, b} THEN c ELSE IF m = c THEN t.up[a]
                                  ELSE IF m = j THEN a ELSE IF m = i THEN b ELSE t.up[m]
    /\ t.up[b] = a /\ t.up[c] = b /\ (i # NULL => t.up[i] = c) /\ (j # NULL => t.up[j] = c /\ i # j)
    /\ a # b /\ a # c /\ b # c /\ {i, j, t.child[a][o], t.child[b][d]} \cap {a, b, c} = {}
    /\ i \in Pointer /\ j \in Pointer /\ t.child[a][o] \in Pointer /\ t.child[b][d] \in Pointer

(* Two rotations as one change of links. *)
LEMMA TwoLifts ==
  ASSUME NEW t, Shape(t), NEW a \in Nodes, In(t, a), NEW d \in Sides, NEW b \in Nodes, t.child[a][d] = b,
         NEW c \in Nodes, t.child[b][Opposite(d)] = c,
         NEW u, TreeOK(u), Lifted(Lift(t, b, c, Opposite(d)), u, a, c, d)
  PROVE  DoubleLifted(t, u, a, b, c, d)
<1> DEFINE o == Opposite(d)
           v == Lift(t, b, c, o)
           i == t.child[c][d]
           j == t.child[c][o]
           s == t.child[a][o]
           y == t.child[b][d]
<1>0. /\ o \in Sides /\ o # d /\ Opposite(o) = d /\ (\A x \in Sides : x = d \/ x = o)
      /\ TreeOK(t) /\ Links(t) /\ NULL \notin Nodes /\ a # NULL /\ b # NULL /\ c # NULL
      /\ i \in Pointer /\ j \in Pointer /\ s \in Pointer /\ y \in Pointer
  BY SidesAre, NullIsNoNode DEF Shape, TreeOK
<1>1. PICK r, B : Ranked(t, r, B)
  BY DEF Shape
<1>2. /\ t.up[b] = a /\ t.up[c] = b /\ (i # NULL => t.up[i] = c) /\ (j # NULL => t.up[j] = c /\ i # j)
      /\ (s # NULL => t.up[s] = a) /\ (y # NULL => t.up[y] = b) /\ s # b /\ y # c
  BY <1>0 DEF Links
<1>3. r[a] \in Nat /\ r[b] \in Nat /\ r[c] \in Nat /\ r[b] < r[a] /\ r[c] < r[b]
      /\ (i # NULL => r[i] \in Nat /\ r[i] < r[c]) /\ (j # NULL => r[j] \in Nat /\ r[j] < r[c])
      /\ (s # NULL => r[s] \in Nat /\ r[s] < r[a]) /\ (y # NULL => r[y] \in Nat /\ r[y] < r[b])
  BY <1>0, <1>1 DEF Ranked, Pointer
<1>4. a # b /\ a # c /\ b # c
  BY <1>3
<1>5. /\ i \notin {a, b, c} /\ j \notin {a, b, c}
  BY <1>0, <1>3
<1>6. s \notin {a, b, c} /\ y \notin {a, b, c}
  BY <1>0, <1>2, <1>3, <1>4
<1>7. In(t, b) /\ t.root # b
  BY <1>0, <1>2 DEF In, Links
<1>8. TreeOK(v) /\ Lifted(t, v, b, c, o)
  BY <1>0, LiftIsLifted
<1> HIDE DEF v
<1>9. Shape(v) /\ \A m \in Nodes : In(v, m) <=> In(t, m)
  BY <1>0, <1>7, <1>8, LiftKeepsShape
<1>10. \A m \in Nodes, x \in Sides : t.child[m][x] = b <=> m = a /\ x = d
  <2>1. \A m \in Nodes, x \in Sides : t.child[m][x] = b => m = a
    BY <1>0, <1>2 DEF Links
  <2> QED BY <1>0, <1>2, <2>1
<1>11. /\ v.root = t.root
       /\ \A m \in Nodes, x \in Sides :
            v.child[m][x] = IF m = b /\ x = o THEN i ELSE IF m = c /\ x = d THEN b
                            ELSE IF m = a /\ x = d THEN c ELSE t.child[m][x]
       /\ \A m \in Nodes : v.up[m] = IF m = b THEN c ELSE IF m = c THEN a
                                     ELSE IF m = i THEN b ELSE t.up[m]
  <2>1. v.root = t.root
    BY <1>7, <1>8 DEF Lifted
  <2>2. \A m \in Nodes, x \in Sides :
            v.child[m][x] = IF m = b /\ x = o THEN i ELSE IF m = c /\ x = d THEN b
                            ELSE IF t.child[m][x] = b THEN c ELSE t.child[m][x]
    BY <1>0, <1>8 DEF Lifted
  <2>3. \A m \in Nodes : v.up[m] = IF m = b THEN c ELSE IF m = c THEN t.up[b]
                                     ELSE IF m = i THEN b ELSE t.up[m]
    <3>1. \A m \in Nodes : v.up[m] = IF m = b THEN c ELSE IF m = c THEN t.up[b]
                                   ELSE IF m = t.child[c][Opposite(o)] THEN b ELSE t.up[m]
      BY <1>8 DEF Lifted
    <3> QED BY <1>0, <3>1
  <2> HIDE DEF i, j, o
  <2>4. \A m \in Nodes, x \in Sides :
            v.child[m][x] = IF m = b /\ x = o THEN i ELSE IF m = c /\ x = d THEN b
                            ELSE IF m = a /\ x = d THEN c ELSE t.child[m][x]
    BY <1>4, <1>10, <2>2
  <2>5. \A m \in Nodes : v.up[m] = IF m = b THEN c ELSE IF m = c THEN a
                                     ELSE IF m = i THEN b ELSE t.up[m]
    BY <1>2, <2>3
  <2> QED BY <2>1, <2>4, <2>5
<1>12. v.child[a][d] = c /\ v.child[c][o] = j /\ In(v, a)
  BY <1>0, <1>4, <1>9, <1>11
<1>13. Lifted(v, u, a, c, d)
  BY DEF v
<1>14. Shape(u) /\ \A m \in Nodes : In(u, m) <=> In(t, m)
  BY <1>9, <1>12, <1>13, LiftKeepsShape
<1>15. /\ u.root = IF t.root = a THEN c ELSE t.root
       /\ \A m \in Nodes, x \in Sides :
            u.child[m][x] = IF m = a /\ x = d THEN j ELSE IF m = c /\ x = o THEN a
                            ELSE IF v.child[m][x] = a THEN c ELSE v.child[m][x]
       /\ \A m \in Nodes : u.up[m] = IF m = a THEN c ELSE IF m = c THEN v.up[a]
                                     ELSE IF m = j THEN a ELSE v.up[m]
  BY <1>11, <1>12, <1>13 DEF Lifted
<1> HIDE DEF o, i, j, s, y
<1>16. t.child[a][o] = s /\ t.child[b][d] = y
  BY DEF s, y
<1>17. u.child[a][d] = j /\ u.child[a][o] = s /\ u.child[c][o] = a
  BY <1>0, <1>4, <1>6, <1>11, <1>15, <1>16
<1>18. u.child[b][o] = i /\ u.child[b][d] = y /\ u.child[c][d] = b
  BY <1>0, <1>4, <1>5, <1>6, <1>11, <1>15, <1>16
<1>19. \A m \in Nodes, x \in Sides : m \notin {a, b, c} =>
              u.child[m][x] = IF t.child[m][x] = a THEN c ELSE t.child[m][x]
  BY <1>11, <1>15
<1>20. v.up[a] = t.up[a]
  BY <1>4, <1>5, <1>11
<1>21. ASSUME NEW m \in Nodes
       PROVE  u.up[m] = IF m \in {a, b} THEN c ELSE IF m = c THEN t.up[a]
                                       ELSE IF m = j THEN a ELSE IF m = i THEN b ELSE t.up[m]
  <2>1. u.up[m] = IF m = a THEN c ELSE IF m = c THEN v.up[a] ELSE IF m = j THEN a ELSE v.up[m]
    BY <1>15
  <2>2. v.up[m] = IF m = b THEN c ELSE IF m = c THEN a ELSE IF m = i THEN b ELSE t.up[m]
    BY <1>11
  <2>3. b # j /\ b # c
    BY <1>4, <1>5
  <2> QED BY <1>20, <2>1, <2>2, <2>3
<1>22. {i, j, s, y} \cap {a, b, c} = {}
  BY <1>5, <1>6
<1> QED BY <1>0, <1>2, <1>4, <1>14, <1>15, <1>17, <1>18, <1>19, <1>21, <1>22 DEF o, i, j, s, y, DoubleLifted

(* The heights after two rotations: a and b end at height K below c, which    *)
(* has the height a had.                                                      *)
LEMMA TwoLiftsHeights ==
  ASSUME NEW t, Shape(t), NEW a \in Nodes, NEW b \in Nodes, NEW c \in Nodes, NEW d \in Sides,
         NEW u, DoubleLifted(t, u, a, b, c, d), NEW h, NEW q \in {a, NULL}, NEW z, Heights(t, h, q, z),
         NEW K \in Nat,
         K = Below(t, h, c, Opposite(d)) + Dark(u, a),
         K = Below(t, h, a, Opposite(d)) + Dark(u, a),
         K = Below(t, h, c, d) + Dark(u, b),
         K = Below(t, h, b, d) + Dark(u, b),
         h[a] = K + Dark(u, c),
         \A m \in Nodes : m \notin {a, b, c} => (u.black[m] <=> t.black[m])
  PROVE  \E k : Heights(u, k, NULL, "left")
<1> DEFINE o == Opposite(d)
           i == t.child[c][d]
           j == t.child[c][o]
           s == t.child[a][o]
           y == t.child[b][d]
<1>0. /\ o \in Sides /\ o # d /\ (\A x \in Sides : x = d \/ x = o)
      /\ TreeOK(t) /\ Links(t) /\ NULL \notin Nodes /\ a # NULL /\ b # NULL /\ c # NULL
  BY SidesAre, NullIsNoNode DEF Shape, TreeOK
<1>1. /\ u.child[a][d] = j /\ u.child[a][o] = s /\ u.child[b][o] = i /\ u.child[b][d] = y
      /\ u.child[c][o] = a /\ u.child[c][d] = b
      /\ \A m \in Nodes, x \in Sides : m \notin {a, b, c} =>
           u.child[m][x] = IF t.child[m][x] = a THEN c ELSE t.child[m][x]
      /\ t.up[b] = a /\ t.up[c] = b
      /\ a # b /\ a # c /\ b # c /\ {i, j, s, y} \cap {a, b, c} = {}
      /\ i \in Pointer /\ j \in Pointer /\ s \in Pointer /\ y \in Pointer
  BY DEF DoubleLifted
<1>2. h \in [Nodes -> Nat]
      /\ \A m \in Nodes, x \in Sides : m # a => h[m] = Below(t, h, m, x) + 0 + Dark(t, m)
  <2>1. \A m \in Nodes, x \in Sides : m # a => Gap(q, z, m, x) = 0
    BY <1>0 DEF Gap
  <2> QED BY <2>1 DEF Heights
<1> DEFINE k == [m \in Nodes |-> IF m = c THEN h[a] ELSE IF m \in {a, b} THEN K ELSE h[m]]
<1>3. k \in [Nodes -> Nat] /\ k[c] = h[a] /\ k[a] = K /\ k[b] = K /\ \A m \in Nodes : m \notin {a, b, c} => k[m] = h[m]
  BY <1>1, <1>2
<1> HIDE DEF k
<1>4. \A w \in Pointer : w \notin {a, b, c} => (w = NULL \/ k[w] = h[w])
  BY <1>3 DEF Pointer
<1>5. ASSUME NEW m \in Nodes, NEW x \in Sides
      PROVE  k[m] = Below(u, k, m, x) + Gap(NULL, "left", m, x) + Dark(u, m)
  <2>0. Gap(NULL, "left", m, x) = 0 /\ \A w \in Nodes : Dark(u, w) \in {0, 1}
    BY <1>0 DEF Gap, Dark
  <2>a. \A w \in Nodes, e \in Sides : Below(t, h, w, e) \in Nat
    BY <1>0, <1>2 DEF Below, TreeOK, Pointer
  <2>1. CASE m = a
    <3>1. Below(u, k, a, d) = Below(t, h, c, o)
      BY <1>1, <1>4 DEF Below
    <3>2. Below(u, k, a, o) = Below(t, h, a, o)
      BY <1>1, <1>4 DEF Below
    <3> HIDE DEF i, j, s, y
    <3>3. K = Below(u, k, a, x) + Dark(u, a) /\ Below(u, k, a, x) \in Nat
      BY <1>0, <2>a, <3>1, <3>2
    <3> QED BY <1>3, <2>0, <2>1, <3>3
  <2>2. CASE m = b
    <3>1. Below(u, k, b, o) = Below(t, h, c, d)
      BY <1>1, <1>4 DEF Below
    <3>2. Below(u, k, b, d) = Below(t, h, b, d)
      BY <1>1, <1>4 DEF Below
    <3> HIDE DEF i, j, s, y
    <3>3. K = Below(u, k, b, x) + Dark(u, b) /\ Below(u, k, b, x) \in Nat
      BY <1>0, <2>a, <3>1, <3>2
    <3> QED BY <1>3, <2>0, <2>2, <3>3
  <2>3. CASE m = c
    <3>1. Below(u, k, c, x) = K
      BY <1>0, <1>1, <1>3 DEF Below
    <3> QED BY <1>3, <2>0, <2>3, <3>1
  <2>4. CASE m \notin {a, b, c}
    <3> DEFINE w == t.child[m][x]
    <3>1. w \in Pointer /\ (w # NULL => t.up[w] = m)
      BY <1>0 DEF TreeOK, Links
    <3>2. w \notin {b, c}
      BY <1>0, <1>1, <2>4, <3>1
    <3>3. Below(u, k, m, x) = Below(t, h, m, x)
      <4>1. u.child[m][x] = IF w = a THEN c ELSE w
        BY <1>1, <2>4
      <4>2. CASE w = a
        BY <1>0, <1>3, <4>1, <4>2 DEF Below
      <4>3. CASE w # a
        BY <1>4, <3>1, <3>2, <4>1, <4>3 DEF Below
      <4> QED BY <4>2, <4>3
    <3>4. Dark(u, m) = Dark(t, m) /\ k[m] = h[m]
      BY <1>3, <2>4 DEF Dark
    <3> QED BY <1>2, <2>0, <2>4, <3>3, <3>4
  <2> QED BY <2>1, <2>2, <2>3, <2>4
<1>6. Heights(u, k, NULL, "left")
  BY <1>3, <1>5 DEF Heights
<1> QED BY <1>6

(* What the heights say of single links. *)
LEMMA HeightsAre ==
  ASSUME NEW t, Shape(t), NEW h, NEW q, NEW z, Heights(t, h, q, z), NEW n \in Nodes, NEW e \in Sides
  PROVE  /\ h[n] \in Nat /\ Below(t, h, n, e) \in Nat
         /\ h[n] = Below(t, h, n, e) + Gap(q, z, n, e) + Dark(t, n)
         /\ Dark(t, n) = (IF t.black[n] THEN 1 ELSE 0)
         /\ Below(t, h, n, e) = (IF t.child[n][e] = NULL THEN 0 ELSE h[t.child[n][e]])
BY DEF Heights, Below, Dark, Shape, TreeOK, Pointer

(* Cases 2 and 3 of the insertion. *)
LEMMA InnerKeeps ==
  ASSUME NEW t, Shape(t), NEW n \in Nodes, RedBlack(t, n, NULL, "left"),
         NEW g \in Nodes, In(t, g), NEW d \in Sides, NEW p \in Nodes, t.child[g][d] = p,
         t.child[p][Opposite(d)] = n, ~t.black[n],
         ~t.black[p], t.black[g], IsBlack(t, t.child[g][Opposite(d)]),
         NEW u, InnerDone(t, u, n, p, g, d)
  PROVE  Shape(u) /\ RedBlack(u, NULL, NULL, "left")
<1> DEFINE o == Opposite(d)
           i == t.child[n][d]
           j == t.child[n][o]
           c == t.child[g][o]
<1>0. /\ TreeOK(t) /\ Links(t) /\ NULL \notin Nodes /\ o \in Sides /\ o # d
      /\ (\A x \in Sides : x = d \/ x = o)
  BY NullIsNoNode, SidesAre DEF Shape
<1>1. DoubleLifted(t, u, g, p, n, d)
  BY TwoLifts DEF InnerDone
<1>2. /\ Shape(u) /\ (\A m \in Nodes : In(u, m) <=> In(t, m))
      /\ \A m \in Nodes : u.up[m] = IF m \in {g, p} THEN n ELSE IF m = n THEN t.up[g]
                                    ELSE IF m = j THEN g ELSE IF m = i THEN p ELSE t.up[m]
      /\ t.up[p] = g /\ t.up[n] = p /\ (i # NULL => t.up[i] = n) /\ (j # NULL => t.up[j] = n)
      /\ g # p /\ g # n /\ p # n /\ {i, j, c} \cap {g, p, n} = {}
      /\ i \in Pointer /\ j \in Pointer /\ c \in Pointer
  BY <1>1 DEF DoubleLifted
<1>3. (i # NULL => i \in Nodes /\ t.black[i]) /\ (j # NULL => j \in Nodes /\ t.black[j])
  <2>1. ASSUME NEW w \in {i, j}, w # NULL PROVE w \in Nodes /\ t.black[w]
    <3>1. w \in Nodes /\ t.up[w] = n /\ w # n
      BY <1>2, <2>1 DEF Pointer
    <3> HIDE DEF i, j
    <3> QED BY <1>0, <3>1 DEF RedBlack, Colours, In
  <2> QED BY <2>1
<1>4. ~u.black[g] /\ ~u.black[p] /\ u.black[n] /\ \A m \in Nodes : m \notin {g, p, n} => (u.black[m] <=> t.black[m])
  <2>1. \A m \in Nodes :
         u.black[m] = IF m \in {g, p} THEN FALSE ELSE IF m = n THEN t.black[g]
                      ELSE IF m \in {t.child[n].left, t.child[n].right} THEN TRUE ELSE t.black[m]
    BY DEF InnerDone
  <2>2. \A w \in {t.child[n].left, t.child[n].right} : w \in {i, j}
    <3>1. t.child[n].left = t.child[n]["left"] /\ t.child[n].right = t.child[n]["right"]
      BY <1>0 DEF TreeOK, Sides
    <3> QED BY <3>1 DEF Sides, Opposite
  <2>3. ~u.black[g] /\ ~u.black[p] /\ u.black[n]
    BY <1>2, <2>1
  <2>4. ASSUME NEW m \in Nodes, m \notin {g, p, n} PROVE u.black[m] <=> t.black[m]
    <3>1. u.black[m] = IF m \in {t.child[n].left, t.child[n].right} THEN TRUE ELSE t.black[m]
      BY <2>1, <2>4
    <3>2. m \in {i, j} => t.black[m]
      BY <1>0, <1>3
    <3> HIDE DEF i, j
    <3> QED BY <2>2, <3>1, <3>2
  <2> QED BY <2>3, <2>4
<1>5. Colours(u, NULL)
  <2>1. ASSUME NEW m \in Nodes, In(u, m), ~u.black[m] PROVE u.up[m] # NULL /\ u.black[u.up[m]]
    <3>1. CASE m \in {g, p}
      BY <1>0, <1>2, <1>4, <3>1
    <3>2. CASE m \notin {g, p}
      <4>1. m # n /\ ~t.black[m] /\ In(t, m)
        BY <1>2, <1>4, <2>1, <3>2
      <4>2. m # i /\ m # j
        <5> HIDE DEF i, j
        <5> QED BY <1>0, <1>3, <4>1
      <4>3. t.up[m] # NULL /\ t.black[t.up[m]] /\ t.up[m] \in Nodes
        BY <1>0, <4>1 DEF RedBlack, Colours, TreeOK, Pointer
      <4>4. t.up[m] # g
        <5>1. t.up[m] = g => m \in {p, c}
          BY <1>0 DEF Links
        <5>2. m # c
          BY <1>0, <1>2, <4>1, IsBlackIs
        <5> QED BY <3>2, <5>1, <5>2
      <4>5. u.up[m] = t.up[m]
        BY <1>2, <3>2, <4>1, <4>2
      <4>6. u.black[t.up[m]]
        BY <1>4, <4>3, <4>4
      <4> QED BY <4>3, <4>5, <4>6
    <3> QED BY <3>1, <3>2
  <2> QED BY <2>1 DEF Colours
<1>6. PICK h : Heights(t, h, NULL, "left")
  BY DEF RedBlack
<1>7. \A m \in Nodes, x \in Sides : h[m] \in Nat /\ Below(t, h, m, x) \in Nat
        /\ h[m] = Below(t, h, m, x) + 0 + Dark(t, m)
  BY <1>0, <1>6, HeightsAre DEF Gap
<1>8. /\ Dark(t, g) = 1 /\ Dark(t, p) = 0 /\ Dark(t, n) = 0 /\ Dark(u, g) = 0 /\ Dark(u, p) = 0 /\ Dark(u, n) = 1
      /\ Below(t, h, g, d) = h[p] /\ Below(t, h, p, o) = h[n]
  BY <1>0, <1>4 DEF Dark, Below
<1> HIDE DEF o
<1>9. /\ h[p] = h[n] /\ h[g] = h[n] + 1 /\ Below(t, h, n, o) = h[n] /\ Below(t, h, n, d) = h[n]
      /\ Below(t, h, p, d) = h[n] /\ Below(t, h, g, o) = h[n]
  BY <1>0, <1>7, <1>8
<1>10. /\ h[n] \in Nat /\ h[n] = Below(t, h, n, o) + Dark(u, g) /\ h[n] = Below(t, h, g, o) + Dark(u, g)
       /\ h[n] = Below(t, h, n, d) + Dark(u, p) /\ h[n] = Below(t, h, p, d) + Dark(u, p)
       /\ h[g] = h[n] + Dark(u, n)
  BY <1>7, <1>8, <1>9
<1>11. \E k : Heights(u, k, NULL, "left")
  <2>1. NULL \in {g, NULL} /\ \A m \in Nodes : m \notin {g, p, n} => (u.black[m] <=> t.black[m])
    BY <1>4
  <2> QED BY <1>1, <1>6, <1>10, <2>1, TwoLiftsHeights DEF o
<1> QED BY <1>2, <1>5, <1>11 DEF RedBlack

(* Cases 2 and 3 of the insertion. *)
LEMMA StepInsertRotate ==
  ASSUME RbInv, rb_insert_rotate
  PROVE  RbInv'
<1> DEFINE n == rb.node
           p == rb.parent
           g == Gparent
           d == ParentSide
           c == Uncle
<1>1. /\ RedParent /\ ~IsRed(tree, c) /\ leftmost' = leftmost /\ rb' = Idle
      /\ tree' = IF n = tree.child[p][Opposite(d)] THEN RotateOuter(RotateInner(tree, n, p, d), n, g, d)
                 ELSE RotateOuter(tree, p, g, d)
  BY DEF rb_insert_rotate
<1>2. /\ n \in Nodes /\ p \in Nodes /\ g \in Nodes /\ d \in Sides
      /\ In(tree, n) /\ In(tree, p) /\ In(tree, g)
      /\ ~tree.black[n] /\ ~tree.black[p] /\ tree.black[g]
      /\ tree.up[n] = p /\ tree.up[p] = g
      /\ tree.child[g][d] = p /\ tree.child[g][Opposite(d)] = c
      /\ c \in Pointer /\ c # p
      /\ RedBlack(tree, n, NULL, "left") /\ rb.at = "insert"
  BY <1>1, RedParentIs
<1>3. Shape(tree) /\ TreeOK(tree) /\ Links(tree)
  BY DEF RbInv, Shape
<1>4. IsBlack(tree, tree.child[g][Opposite(d)])
  BY <1>1, <1>2 DEF IsRed
<1>5. PICK r, B : Ranked(tree, r, B)
  BY <1>3 DEF Shape
<1> HIDE DEF n, p, g, d, c
<1>6. Shape(tree') /\ RedBlack(tree', NULL, NULL, "left")
  <2>1. CASE n = tree.child[p][Opposite(d)]
    <3>1. InnerDone(tree, tree', n, p, g, d)
      BY <1>1, <1>2, <1>3, <1>5, <2>1, RotateInnerIs
    <3> QED BY <1>2, <1>3, <1>4, <2>1, <3>1, InnerKeeps
  <2>2. CASE n # tree.child[p][Opposite(d)]
    <3>1. OuterDone(tree, tree', p, g, d)
      BY <1>1, <1>2, <1>3, <1>5, <2>2, RotateOuterIs
    <3> QED BY <1>2, <1>3, <1>4, <2>2, <3>1, OuterKeeps
  <2> QED BY <2>1, <2>2
<1>7. RbTypes' /\ Loops' /\ Rules'
  BY <1>1, <1>6 DEF RbInv, RbTypes, Idle, Loops, Rules, Pointer
<1> QED BY <1>6, <1>7 DEF RbInv

----------------------------------------------------------------------------
(* The loop of ____rb_erase_color *)

(* The node on the short side has a sibling. *)
EraseAt(t, n, p, d, s) ==
    /\ p \in Nodes /\ d \in Sides /\ In(t, p) /\ n = t.child[p][d] /\ n \in Pointer /\ IsBlack(t, n)
    /\ s \in Nodes /\ s = t.child[p][Opposite(d)] /\ In(t, s) /\ t.up[s] = p /\ n # s
    /\ RedBlack(t, NULL, p, d)

(* What the loop of ____rb_erase_color finds around the short side. *)
LEMMA EraseIs ==
  ASSUME RbInv, rb.at = "erase"
  PROVE  EraseAt(tree, rb.node, rb.parent, NodeSide, Sibling)
<1> DEFINE p == rb.parent
           d == NodeSide
           o == Opposite(d)
           s == Sibling
           n == rb.node
<1>1. /\ p \in Nodes /\ d \in Sides /\ In(tree, p) /\ n = tree.child[p][d] /\ n \in Pointer
      /\ IsBlack(tree, n) /\ RedBlack(tree, NULL, p, d)
  BY DEF RbInv, RbTypes, Loops, Rules, NodeSide, Sides
<1>2. s = tree.child[p][o] /\ o \in Sides /\ o # d
  BY <1>1, SidesAre DEF Sibling
<1>3. Shape(tree) /\ TreeOK(tree) /\ Links(tree) /\ NULL \notin Nodes
  BY NullIsNoNode DEF RbInv, Shape
<1>4. PICK h : Heights(tree, h, p, d)
  BY <1>1 DEF RedBlack
<1> HIDE DEF p, d, s, n, o
<1>5. /\ h[p] = Below(tree, h, p, d) + 1 + Dark(tree, p) /\ h[p] = Below(tree, h, p, o) + 0 + Dark(tree, p)
      /\ Below(tree, h, p, d) \in Nat /\ Below(tree, h, p, o) \in Nat /\ Dark(tree, p) \in {0, 1}
      /\ h[p] \in Nat
  <2>1. Gap(p, d, p, d) = 1 /\ Gap(p, d, p, o) = 0 /\ Dark(tree, p) \in {0, 1}
    BY <1>2 DEF Gap, Dark
  <2> QED BY <1>1, <1>2, <1>3, <1>4, <2>1, HeightsAre
<1>6. Below(tree, h, p, o) # 0
  BY <1>5
<1>7. s # NULL
  BY <1>2, <1>6 DEF Below
<1>8. s \in Nodes /\ tree.up[s] = p /\ In(tree, s) /\ n # s
  <2>1. s \in Nodes /\ tree.up[s] = p
    BY <1>1, <1>2, <1>3, <1>7 DEF TreeOK, Pointer, Links
  <2>2. n # s
    BY <1>1, <1>2, <1>3, <1>7 DEF Links, o
  <2> QED BY <1>1, <1>3, <2>1, <2>2 DEF In
<1> QED BY <1>1, <1>2, <1>8 DEF EraseAt, p, d, s, n, o

(* The heights around the short side. *)
LEMMA ShortSide ==
  ASSUME NEW t, Shape(t), NEW n, NEW p, NEW d, NEW s, EraseAt(t, n, p, d, s), NEW h, Heights(t, h, p, d)
  PROVE  LET o == Opposite(d) IN
         /\ h[p] \in Nat /\ h[s] \in Nat /\ p # s /\ o \in Sides /\ o # d
         /\ Below(t, h, p, d) \in Nat /\ Below(t, h, s, d) \in Nat /\ Below(t, h, s, o) \in Nat
         /\ Dark(t, p) \in {0, 1} /\ Dark(t, s) \in {0, 1}
         /\ Below(t, h, p, o) = h[s]
         /\ h[p] = h[s] + Dark(t, p) /\ h[s] = Below(t, h, p, d) + 1
         /\ h[s] = Below(t, h, s, d) + Dark(t, s) /\ h[s] = Below(t, h, s, o) + Dark(t, s)
         /\ h \in [Nodes -> Nat]
         /\ \A m \in Nodes, x \in Sides : m # p =>
              h[m] = Below(t, h, m, x) + Dark(t, m) /\ Below(t, h, m, x) \in Nat /\ h[m] \in Nat
<1> DEFINE o == Opposite(d)
<1>0. /\ p \in Nodes /\ d \in Sides /\ s \in Nodes /\ s = t.child[p][o] /\ o \in Sides /\ o # d
      /\ NULL \notin Nodes /\ TreeOK(t) /\ Links(t)
  BY SidesAre, NullIsNoNode DEF EraseAt, Shape
<1>1. p # s
  <2>1. PICK r, B : Ranked(t, r, B)
    BY DEF Shape
  <2> QED BY <1>0, <2>1, RankedApart
<1>2. \A m \in Nodes, x \in Sides :
         /\ h[m] = Below(t, h, m, x) + Gap(p, d, m, x) + Dark(t, m) /\ Below(t, h, m, x) \in Nat
         /\ h[m] \in Nat /\ Dark(t, m) \in {0, 1}
  <2>1. \A m \in Nodes : Dark(t, m) \in {0, 1}
    BY DEF Dark
  <2> QED BY <2>1, HeightsAre
<1>3. Gap(p, d, p, d) = 1 /\ Gap(p, d, p, o) = 0 /\ \A m \in Nodes, x \in Sides : m # p => Gap(p, d, m, x) = 0
  BY <1>0 DEF Gap
<1>4. Below(t, h, p, o) = h[s]
  BY <1>0 DEF Below
<1>5. h \in [Nodes -> Nat]
  BY DEF Heights
<1> HIDE DEF o
<1>6. \A m \in Nodes, x \in Sides : m # p =>
        h[m] = Below(t, h, m, x) + Dark(t, m) /\ Below(t, h, m, x) \in Nat /\ h[m] \in Nat
  <2> TAKE m \in Nodes, x \in Sides
  <2> HAVE m # p
  <2>1. h[m] = Below(t, h, m, x) + 0 + Dark(t, m)
    BY <1>2, <1>3
  <2>2. Below(t, h, m, x) \in Nat /\ h[m] \in Nat /\ Dark(t, m) \in {0, 1}
    BY <1>2
  <2> QED BY <2>1, <2>2
<1>7. h[p] = h[s] + Dark(t, p) /\ h[s] = Below(t, h, p, d) + 1
  <2>1. h[p] = Below(t, h, p, d) + 1 + Dark(t, p) /\ h[p] = h[s] + 0 + Dark(t, p)
    BY <1>0, <1>2, <1>3, <1>4
  <2>2. Below(t, h, p, d) \in Nat /\ h[s] \in Nat /\ h[p] \in Nat /\ Dark(t, p) \in {0, 1}
    BY <1>0, <1>2
  <2> QED BY <2>1, <2>2
<1> QED BY <1>0, <1>1, <1>2, <1>4, <1>5, <1>6, <1>7 DEF o

(* Case 1 *)
LEMMA RedSiblingKeeps ==
  ASSUME NEW t, Shape(t), NEW n, NEW p, NEW d, NEW s, EraseAt(t, n, p, d, s), ~t.black[s],
         NEW u, RedSiblingDone(t, u, p, s, d)
  PROVE  /\ Shape(u) /\ In(u, p) /\ IsBlack(u, n) /\ u.child[p][d] = n /\ u.child[p][Opposite(d)] # n
         /\ RedBlack(u, NULL, p, d)
<1> DEFINE o == Opposite(d)
           near == t.child[s][d]
<1>0. /\ TreeOK(t) /\ Links(t) /\ NULL \notin Nodes /\ o \in Sides /\ o # d /\ Opposite(o) = d
      /\ (\A x \in Sides : x = d \/ x = o) /\ d \in Sides /\ p \in Nodes /\ s \in Nodes
      /\ n \in Pointer /\ n # s /\ n = t.child[p][d] /\ s = t.child[p][o] /\ t.up[s] = p /\ In(t, p) /\ In(t, s)
      /\ IsBlack(t, n) /\ Colours(t, NULL) /\ near \in Pointer
  BY NullIsNoNode, SidesAre DEF Shape, EraseAt, RedBlack, TreeOK
<1>1. PICK h : Heights(t, h, p, d)
  BY DEF EraseAt, RedBlack
<1>2. PICK r, B : Ranked(t, r, B)
  BY DEF Shape
<1>3. t.black[p]
  BY <1>0 DEF Colours
<1>4. /\ h[p] \in Nat /\ h[s] \in Nat /\ p # s
      /\ Below(t, h, p, d) \in Nat /\ Below(t, h, s, d) \in Nat /\ Below(t, h, s, o) \in Nat
      /\ Below(t, h, p, o) = h[s]
      /\ h[p] = h[s] + Dark(t, p) /\ h[s] = Below(t, h, p, d) + 1
      /\ h[s] = Below(t, h, s, d) + Dark(t, s) /\ h[s] = Below(t, h, s, o) + Dark(t, s)
      /\ h \in [Nodes -> Nat]
      /\ \A m \in Nodes, x \in Sides : m # p =>
           h[m] = Below(t, h, m, x) + Dark(t, m) /\ Below(t, h, m, x) \in Nat /\ h[m] \in Nat
  BY <1>1, ShortSide
<1>5. Dark(t, p) = 1 /\ Dark(t, s) = 0
  BY <1>3 DEF Dark
<1>6. Below(t, h, s, d) # 0
  BY <1>4, <1>5
<1>7. near \in Nodes /\ t.up[near] = s /\ t.black[near]
  <2>1. near \in Nodes /\ t.up[near] = s
    BY <1>0, <1>6 DEF Below, Pointer, Links
  <2> HIDE DEF near
  <2> QED BY <1>0, <2>1 DEF Colours, In
<1>8. near \notin {p, s, n} /\ t.child[s][o] \notin {p, s}
  <2>1. near \notin {p, s} /\ t.child[s][o] \notin {p, s}
    BY <1>0, <1>2, RankedApart
  <2>2. n # NULL => t.up[n] = p
    BY <1>0 DEF Links
  <2> QED BY <1>0, <1>4, <1>7, <2>1, <2>2
<1>9. /\ u.child[p][o] = near /\ u.child[p][d] = n /\ u.child[s][d] = p /\ u.child[s][o] = t.child[s][o]
      /\ \A m \in Nodes : u.up[m] = IF m = p THEN s ELSE IF m = s THEN t.up[p]
                                    ELSE IF m = near THEN p ELSE t.up[m]
  <2>1. /\ \A m \in Nodes, x \in Sides :
             u.child[m][x] = IF m = p /\ x = o THEN t.child[s][d]
                             ELSE IF m = s /\ x = d THEN p
                             ELSE IF t.child[m][x] = p THEN s ELSE t.child[m][x]
        /\ \A m \in Nodes : u.up[m] = IF m = p THEN s ELSE IF m = s THEN t.up[p]
                                    ELSE IF m = t.child[s][d] THEN p ELSE t.up[m]
    BY <1>0 DEF RedSiblingDone, Lifted
  <2>2. n # p
    BY <1>0, <1>2, RankedApart
  <2> HIDE DEF o
  <2> QED BY <1>0, <1>4, <1>8, <2>1, <2>2
<1>10. Shape(u) /\ \A m \in Nodes : In(u, m) <=> In(t, m)
  BY <1>0, LiftKeepsShape DEF RedSiblingDone
<1>11. /\ ~u.black[p] /\ u.black[s] /\ u.black[near]
       /\ \A m \in Nodes : m \notin {p, s} => (u.black[m] <=> t.black[m])
  <2>1. \A m \in Nodes :
         u.black[m] = IF m = p THEN FALSE ELSE IF m = s THEN t.black[p]
                      ELSE IF m = near THEN TRUE ELSE t.black[m]
    BY DEF RedSiblingDone
  <2> HIDE DEF near
  <2>2. ~u.black[p] /\ u.black[s] /\ u.black[near]
    BY <1>0, <1>3, <1>4, <1>7, <1>8, <2>1
  <2>3. ASSUME NEW m \in Nodes, m \notin {p, s} PROVE u.black[m] <=> t.black[m]
    <3>1. u.black[m] = IF m = near THEN TRUE ELSE t.black[m]
      BY <2>1, <2>3
    <3> QED BY <1>7, <3>1
  <2> QED BY <2>2, <2>3
<1>12. IsBlack(u, n)
  <2>1. n # p /\ TreeOK(u)
    BY <1>0, <1>2, RankedApart DEF RedSiblingDone
  <2>2. n = NULL \/ (n \in Nodes /\ t.black[n])
    BY <1>0, IsBlackIs DEF Pointer
  <2> QED BY <1>0, <1>11, <2>1, <2>2, IsBlackIs
<1>13. Colours(u, NULL)
  <2>1. ASSUME NEW m \in Nodes, In(u, m), ~u.black[m] PROVE u.up[m] # NULL /\ u.black[u.up[m]]
    <3>1. CASE m = p
      BY <1>0, <1>9, <1>11, <3>1
    <3>2. CASE m # p
      <4>1. m # s /\ ~t.black[m] /\ In(t, m) /\ m # near
        BY <1>10, <1>11, <1>7, <2>1, <3>2
      <4>2. t.up[m] # NULL /\ t.black[t.up[m]] /\ t.up[m] \in Nodes
        BY <1>0, <4>1 DEF Colours, TreeOK, Pointer
      <4>3. t.up[m] # p
        <5>1. t.up[m] = p => m \in {n, s}
          BY <1>0 DEF Links
        <5>2. m # n
          BY <1>0, <4>1, IsBlackIs
        <5> QED BY <4>1, <5>1, <5>2
      <4>4. t.up[m] # s /\ u.up[m] = t.up[m]
        BY <1>9, <3>2, <4>1, <4>2
      <4> QED BY <1>11, <4>2, <4>3, <4>4
    <3> QED BY <3>1, <3>2
  <2> QED BY <2>1 DEF Colours
<1> DEFINE k == [h EXCEPT ![s] = h[p], ![p] = h[s]]
<1>14. k \in [Nodes -> Nat] /\ k[s] = h[p] /\ k[p] = h[s] /\ \A m \in Nodes : m \notin {p, s} => k[m] = h[m]
  BY <1>0, <1>4
<1> HIDE DEF k
<1>15. \A w \in Pointer : w \notin {p, s} => (w = NULL \/ k[w] = h[w])
  BY <1>14 DEF Pointer
<1>16. /\ Below(u, k, p, o) = Below(t, h, s, d) /\ Below(u, k, p, d) = Below(t, h, p, d)
       /\ Below(u, k, s, d) = h[s] /\ Below(u, k, s, o) = Below(t, h, s, o)
  <2>0. n \notin {p, s} /\ near \in Pointer /\ t.child[s][o] \in Pointer /\ p # NULL
    BY <1>0, <1>2, RankedApart, SMTT(60) DEF TreeOK
  <2>1. Below(u, k, p, o) = Below(t, h, s, d)
    BY <1>8, <1>9, <1>15, <2>0 DEF Below
  <2>2. Below(u, k, p, d) = Below(t, h, p, d)
    BY <1>0, <1>9, <1>15, <2>0 DEF Below
  <2>3. Below(u, k, s, d) = h[s]
    BY <1>9, <1>14, <2>0 DEF Below
  <2>4. Below(u, k, s, o) = Below(t, h, s, o)
    BY <1>8, <1>9, <1>15, <2>0 DEF Below
  <2> QED BY <2>1, <2>2, <2>3, <2>4
<1>17. ASSUME NEW m \in Nodes, NEW x \in Sides
       PROVE  k[m] = Below(u, k, m, x) + Gap(p, d, m, x) + Dark(u, m)
  <2>1. Dark(u, p) = 0 /\ Dark(u, s) = 1 /\ (m \notin {p, s} => Dark(u, m) = Dark(t, m))
    BY <1>11 DEF Dark
  <2>2. Gap(p, d, p, d) = 1 /\ Gap(p, d, p, o) = 0 /\ (m # p => Gap(p, d, m, x) = 0)
    BY <1>0 DEF Gap
  <2>3. CASE m = p
    <3> HIDE DEF o
    <3> QED BY <1>0, <1>4, <1>5, <1>14, <1>16, <2>1, <2>2, <2>3
  <2>4. CASE m = s
    <3> HIDE DEF o
    <3> QED BY <1>0, <1>4, <1>5, <1>14, <1>16, <2>1, <2>2, <2>4
  <2>5. CASE m \notin {p, s}
    <3>1. Lifted(t, u, p, s, o)
      BY DEF RedSiblingDone
    <3>2. Below(u, k, m, x) = Below(t, h, m, x)
      <4> HIDE DEF o
      <4> QED BY <1>0, <1>14, <2>5, <3>1, LiftBelow
    <3> QED BY <1>4, <1>14, <2>1, <2>2, <2>5, <3>2
  <2> QED BY <2>3, <2>4, <2>5
<1>18. Heights(u, k, p, d)
  BY <1>14, <1>17 DEF Heights
<1>19. In(u, p) /\ u.child[p][Opposite(d)] # n
  BY <1>0, <1>8, <1>9, <1>10
<1> QED BY <1>9, <1>10, <1>12, <1>13, <1>18, <1>19 DEF RedBlack

(* Case 1 of the removal. *)
LEMMA StepRedSibling ==
  ASSUME RbInv, rb_erase_red_sibling
  PROVE  RbInv'
<1> DEFINE n == rb.node
           p == rb.parent
           d == NodeSide
           s == Sibling
<1>1. /\ rb.at = "erase" /\ IsRed(tree, s) /\ leftmost' = leftmost /\ rb' = rb
      /\ tree' = LiftSibling(rb_set_parent_color(tree, tree.child[s][d], p, TRUE), p, s, d, FALSE)
  BY DEF rb_erase_red_sibling
<1>2. EraseAt(tree, n, p, d, s)
  BY <1>1, EraseIs
<1>3. Shape(tree) /\ TreeOK(tree) /\ Links(tree)
  BY DEF RbInv, Shape
<1>4. PICK r, B : Ranked(tree, r, B)
  BY <1>3 DEF Shape
<1>d. d = SideOf(tree, n, p) /\ d' = SideOf(tree', n, p)
  BY <1>1 DEF NodeSide, SideOf
<1> HIDE DEF n, p, d, s
<1>5. p \in Nodes /\ d \in Sides /\ In(tree, p) /\ s \in Nodes /\ s = tree.child[p][Opposite(d)] /\ ~tree.black[s]
      /\ n \in Pointer
  BY <1>1, <1>2, <1>3, IsBlackIs DEF EraseAt, Pointer
<1>6. RedSiblingDone(tree, tree', p, s, d)
  BY <1>1, <1>3, <1>4, <1>5, RedSiblingIs
<1>7. /\ Shape(tree') /\ In(tree', p) /\ IsBlack(tree', n) /\ tree'.child[p][d] = n
      /\ tree'.child[p][Opposite(d)] # n /\ RedBlack(tree', NULL, p, d)
  BY <1>2, <1>3, <1>5, <1>6, RedSiblingKeeps
<1>8. SideOf(tree', n, p) = d
  BY <1>5, <1>7, SideOfIs DEF Shape
<1>9. NodeSide' = d
  BY <1>8, <1>d DEF d
<1>10. n' = n /\ p' = p
  BY <1>1 DEF n, p
<1>11. rb.node' = n /\ rb.parent' = p /\ rb.at' = "erase" /\ rb.node = n /\ rb.parent = p
  BY <1>1 DEF n, p
<1>12. Loops'
  BY <1>5, <1>7, <1>9, <1>11 DEF Loops
<1>13. Rules'
  BY <1>7, <1>9, <1>11 DEF Rules
<1>14. RbTypes'
  BY <1>1 DEF RbInv, RbTypes
<1> QED BY <1>7, <1>12, <1>13, <1>14 DEF RbInv

(* Case 2: the sibling turns red and the parent black; a parent that was     *)
(* black below another node is now the short side of that one.               *)
Recoloured(t, u, p, s) ==
    /\ TreeOK(u) /\ u.root = t.root /\ u.child = t.child /\ \A m \in Nodes : u.up[m] = t.up[m]
    /\ \A m \in Nodes : u.black[m] = IF m = p THEN TRUE ELSE IF m = s THEN FALSE ELSE t.black[m]

(* The recolouring closes the gap or moves it up to the parent. *)
LEMMA EraseFlipKeeps ==
  ASSUME NEW t, Shape(t), NEW n, NEW p, NEW d, NEW s, EraseAt(t, n, p, d, s), t.black[s],
         IsBlack(t, t.child[s][d]), IsBlack(t, t.child[s][Opposite(d)]),
         NEW q, NEW e, (~t.black[p] \/ t.up[p] = NULL) => q = NULL,
         (t.black[p] /\ t.up[p] # NULL) => q = t.up[p] /\ e \in Sides /\ t.child[q][e] = p,
         NEW u, Recoloured(t, u, p, s)
  PROVE  Shape(u) /\ (\A m \in Nodes : In(u, m) <=> In(t, m)) /\ RedBlack(u, NULL, q, e)
<1> USE DEF Recoloured
<1> DEFINE o == Opposite(d)
<1>0. /\ TreeOK(t) /\ Links(t) /\ NULL \notin Nodes /\ o \in Sides /\ o # d /\ Opposite(o) = d
      /\ (\A x \in Sides : x = d \/ x = o) /\ d \in Sides /\ p \in Nodes /\ s \in Nodes
      /\ n \in Pointer /\ n # s /\ n = t.child[p][d] /\ s = t.child[p][o] /\ t.up[s] = p /\ In(t, p) /\ In(t, s)
      /\ IsBlack(t, n) /\ Colours(t, NULL)
  BY NullIsNoNode, SidesAre DEF Shape, EraseAt, RedBlack, TreeOK
<1>1. PICK h : Heights(t, h, p, d)
  BY DEF EraseAt, RedBlack
<1>2. Shape(u) /\ \A m \in Nodes : In(u, m) <=> In(t, m)
  BY SameLinks
<1>4. /\ h[p] \in Nat /\ h[s] \in Nat /\ p # s
      /\ Below(t, h, p, d) \in Nat /\ Below(t, h, s, d) \in Nat /\ Below(t, h, s, o) \in Nat
      /\ Below(t, h, p, o) = h[s]
      /\ h[p] = h[s] + Dark(t, p) /\ h[s] = Below(t, h, p, d) + 1
      /\ h[s] = Below(t, h, s, d) + Dark(t, s) /\ h[s] = Below(t, h, s, o) + Dark(t, s)
      /\ h \in [Nodes -> Nat]
      /\ \A m \in Nodes, x \in Sides : m # p =>
           h[m] = Below(t, h, m, x) + Dark(t, m) /\ Below(t, h, m, x) \in Nat /\ h[m] \in Nat
  BY <1>1, ShortSide
<1>5. Colours(u, NULL)
  <2>1. ASSUME NEW m \in Nodes, In(u, m), ~u.black[m] PROVE u.up[m] # NULL /\ u.black[u.up[m]]
    <3>1. CASE m = s
      <4>1. u.up[s] = t.up[s] /\ u.black[p] /\ p # NULL
        BY <1>0
      <4> QED BY <1>0, <3>1, <4>1
    <3>2. CASE m # s
      <4>1. m # p /\ ~t.black[m] /\ In(t, m)
        BY <1>2, <2>1, <3>2
      <4>2. t.up[m] # NULL /\ t.black[t.up[m]] /\ t.up[m] \in Nodes
        BY <1>0, <4>1 DEF Colours, TreeOK, Pointer
      <4>3. t.up[m] # s
        <5>1. t.up[m] = s => m \in {t.child[s][d], t.child[s][o]}
          BY <1>0 DEF Links
        <5>2. m \in {t.child[s][d], t.child[s][o]} => t.black[m]
          BY <1>0, IsBlackIs DEF Pointer
        <5> QED BY <4>1, <5>1, <5>2
      <4> QED BY <4>2, <4>3
    <3> QED BY <3>1, <3>2
  <2> QED BY <2>1 DEF Colours
<1>6. Dark(t, s) = 1 /\ Dark(u, s) = 0 /\ Dark(u, p) = 1 /\ \A m \in Nodes : m \notin {p, s} => Dark(u, m) = Dark(t, m)
  BY <1>0, <1>4 DEF Dark
<1> DEFINE k == [h EXCEPT ![s] = h[s] - 1, ![p] = h[s]]
<1>7. k \in [Nodes -> Nat] /\ k[s] = h[s] - 1 /\ k[p] = h[s] /\ \A m \in Nodes : m \notin {p, s} => k[m] = h[m]
  <2>1. h[s] - 1 \in Nat
    BY <1>4, <1>6
  <2> QED BY <1>0, <1>4, <2>1
<1> HIDE DEF k
<1>8. \A w \in Pointer : w \notin {p, s} => (w = NULL \/ k[w] = h[w])
  BY <1>7 DEF Pointer
<1>9. /\ Below(u, k, p, o) = h[s] - 1 /\ Below(u, k, p, d) = Below(t, h, p, d)
      /\ \A x \in Sides : Below(u, k, s, x) = Below(t, h, s, x)
  <2>1. PICK r, B : Ranked(t, r, B)
    BY DEF Shape
  <2>2. n \notin {p, s} /\ \A x \in Sides : t.child[s][x] \notin {p, s} /\ t.child[s][x] \in Pointer
    <3>1. n # p /\ \A x \in Sides : t.child[s][x] # s
      BY <1>0, <2>1, RankedApart
    <3>2. s # NULL /\ \A x \in Sides : t.child[t.child[p][o]][x] # p
      BY <1>0, <2>1, RankedApart
    <3>3. \A x \in Sides : t.child[s][x] \in Pointer
      BY <1>0 DEF TreeOK
    <3> QED BY <1>0, <3>1, <3>2, <3>3
  <2>3. Below(u, k, p, o) = h[s] - 1
    BY <1>0, <1>7 DEF Below
  <2>4. Below(u, k, p, d) = Below(t, h, p, d)
    BY <1>0, <1>8, <2>2 DEF Below
  <2>5. \A x \in Sides : Below(u, k, s, x) = Below(t, h, s, x)
    BY <1>8, <2>2 DEF Below
  <2> QED BY <2>3, <2>4, <2>5
<1>10. q \notin {p, s}
  <2>1. PICK r, B : Ranked(t, r, B)
    BY DEF Shape
  <2>2. t.up[p] # p
    BY <1>0, <2>1, RankedApart
  <2>3. t.up[p] # s
    <3>1. r[s] \in Nat /\ r[p] \in Nat /\ r[s] < r[p]
      BY <1>0, <2>1 DEF Ranked
    <3>2. t.up[p] # NULL => r[p] < r[t.up[p]]
      BY <1>0, <2>1, RankedApart
    <3> QED BY <1>0, <3>1, <3>2
  <2> QED BY <1>0, <2>2, <2>3
<1>11. ASSUME NEW m \in Nodes, NEW x \in Sides
       PROVE  k[m] = Below(u, k, m, x) + Gap(q, e, m, x) + Dark(u, m)
  <2>1. CASE m = p
    <3>1. Gap(q, e, m, x) = 0
      BY <1>10, <2>1 DEF Gap
    <3> HIDE DEF o
    <3> QED BY <1>0, <1>4, <1>6, <1>7, <1>9, <2>1, <3>1
  <2>2. CASE m = s
    <3>1. Gap(q, e, m, x) = 0
      BY <1>10, <2>2 DEF Gap
    <3>2. h[s] = Below(t, h, s, x) + Dark(t, s) /\ Below(t, h, s, x) \in Nat
      BY <1>0, <1>4
    <3> HIDE DEF o
    <3> QED BY <1>4, <1>6, <1>7, <1>9, <2>2, <3>1, <3>2
  <2>3. CASE m \notin {p, s}
    <3> DEFINE w == t.child[m][x]
    <3>1. w \in Pointer /\ (w # NULL => t.up[w] = m) /\ w # s
      BY <1>0, <2>3 DEF TreeOK, Links
    <3>2. h[m] = Below(t, h, m, x) + Dark(t, m) /\ Below(t, h, m, x) \in Nat /\ h[m] \in Nat /\ Dark(t, m) \in {0, 1}
      BY <1>4, <2>3 DEF Dark
    <3>3. CASE w # p
      <4>1. Below(u, k, m, x) = Below(t, h, m, x)
        BY <1>8, <3>1, <3>3 DEF Below
      <4>2. Gap(q, e, m, x) = 0
        BY <1>0, <3>3 DEF Gap
      <4> QED BY <1>6, <1>7, <2>3, <3>2, <4>1, <4>2
    <3>4. CASE w = p
      <4>0. t.up[p] = m /\ m # NULL /\ Below(t, h, m, x) = h[p] /\ Below(u, k, m, x) = h[s]
        BY <1>0, <1>7, <3>1, <3>4 DEF Below
      <4>1. CASE t.black[p]
        <5>1. q = m /\ e \in Sides /\ t.child[m][e] = p
          BY <4>0, <4>1
        <5>2. e = x
          <6>1. x # e => Opposite(x) = e
            BY <5>1, SidesAre
          <6> QED BY <1>0, <3>4, <5>1, <6>1 DEF Links
        <5>3. Gap(q, e, m, x) = 1 /\ Dark(t, p) = 1
          BY <4>1, <5>1, <5>2 DEF Gap, Dark
        <5> QED BY <1>4, <1>6, <1>7, <2>3, <3>2, <4>0, <5>3
      <4>2. CASE ~t.black[p]
        <5>1. Gap(q, e, m, x) = 0 /\ Dark(t, p) = 0
          BY <1>0, <4>2 DEF Gap, Dark
        <5> QED BY <1>4, <1>6, <1>7, <2>3, <3>2, <4>0, <5>1
      <4> QED BY <4>1, <4>2
    <3> QED BY <3>3, <3>4
  <2> QED BY <2>1, <2>2, <2>3
<1>12. Heights(u, k, q, e)
  BY <1>7, <1>11 DEF Heights
<1> QED BY <1>2, <1>5, <1>12 DEF RedBlack

(* Case 2 of the removal. *)
LEMMA StepEraseFlip ==
  ASSUME RbInv, rb_erase_flip
  PROVE  RbInv'
<1> DEFINE n == rb.node
           p == rb.parent
           d == NodeSide
           s == Sibling
           v == rb_set_parent_color(tree, s, p, FALSE)
           f == tree.up[p]
           e == SideOf(tree, p, f)
<1>1. /\ rb.at = "erase" /\ ~IsRed(tree, s) /\ leftmost' = leftmost
      /\ IsBlack(tree, tree.child[s][d]) /\ IsBlack(tree, tree.child[s][Opposite(d)])
      /\ tree' = [v EXCEPT !.black[p] = TRUE]
      /\ rb' = IF ~tree.black[p] \/ f = NULL THEN Idle ELSE [rb EXCEPT !.node = p, !.parent = f]
  BY DEF rb_erase_flip, BlackSibling, Near, Far
<1>2. EraseAt(tree, n, p, d, s)
  BY <1>1, EraseIs
<1>3. /\ Shape(tree) /\ TreeOK(tree) /\ Links(tree) /\ NULL \notin Nodes
      /\ rb \in [at : {"idle", "left", "right", "insert", "erase"}, node : Pointer, parent : Pointer]
  BY NullIsNoNode DEF RbInv, RbTypes, Shape
<1> HIDE DEF n, p, d, s
<1>4. /\ p \in Nodes /\ p \in Pointer /\ s \in Nodes /\ s \in Pointer /\ tree.up[s] = p /\ tree.black[s] /\ p # s
      /\ f \in Pointer
  <2>1. p \in Nodes /\ p \in Pointer /\ s \in Nodes /\ s \in Pointer /\ tree.up[s] = p
    BY <1>2 DEF EraseAt, Pointer
  <2>2. tree.black[s]
    BY <1>1, <1>3, <2>1, IsBlackIs
  <2>3. PICK r, B : Ranked(tree, r, B)
    BY <1>3 DEF Shape
  <2> QED BY <1>3, <2>1, <2>2, <2>3, RankedApart DEF TreeOK
<1>5. Painted(tree, v, s, p, FALSE)
  BY <1>3, <1>4, PaintedIs
<1> HIDE DEF v
<1>6. Recoloured(tree, tree', p, s)
  <2>1. TreeOK(v) /\ v.root = tree.root /\ v.child = tree.child /\ (\A m \in Nodes : v.up[m] = tree.up[m])
        /\ \A m \in Nodes : v.black[m] = IF m = s THEN FALSE ELSE tree.black[m]
    BY <1>4, <1>5 DEF Painted
  <2>2. TreeOK(tree') /\ tree'.root = v.root /\ tree'.child = v.child /\ tree'.up = v.up
        /\ \A m \in Nodes : tree'.black[m] = IF m = p THEN TRUE ELSE v.black[m]
    BY <1>1, <1>4, <2>1 DEF TreeOK
  <2> QED BY <2>1, <2>2 DEF Recoloured
<1>7. CASE ~tree.black[p] \/ f = NULL
  <2>1. Shape(tree') /\ RedBlack(tree', NULL, NULL, "left")
    <3>1. ~(tree.black[p] /\ tree.up[p] # NULL)
      BY <1>7
    <3>2. IsBlack(tree, tree.child[s][d]) /\ IsBlack(tree, tree.child[s][Opposite(d)])
      BY <1>1
    <3>3. PICK q, z : q = NULL /\ z = "left"
      OBVIOUS
    <3> HIDE DEF f
    <3>4. Shape(tree') /\ RedBlack(tree', NULL, q, z)
      <4>1. (~tree.black[p] \/ tree.up[p] = NULL) => q = NULL
        BY <3>3
      <4>2. (tree.black[p] /\ tree.up[p] # NULL) => q = tree.up[p] /\ z \in Sides /\ tree.child[q][z] = p
        BY <3>1
      <4>3. Shape(tree) /\ tree.black[s]
        BY <1>3, <1>4
      <4> QED BY ONLY <1>2, <1>6, <3>2, <4>1, <4>2, <4>3, EraseFlipKeeps
    <3> QED BY <3>3, <3>4
  <2>2. RbTypes' /\ Loops' /\ Rules'
    BY <1>1, <1>7, <2>1 DEF RbInv, RbTypes, Idle, Loops, Rules, Pointer
  <2> QED BY <2>1, <2>2 DEF RbInv
<1>8. CASE ~(~tree.black[p] \/ f = NULL)
  <2>1. /\ f \in Nodes /\ e \in Sides /\ tree.child[f][e] = p /\ tree.child[f][Opposite(e)] # p /\ tree.black[p]
        /\ f # NULL
    BY <1>3, <1>4, <1>8, OnItsSide
  <2> HIDE DEF e
  <2>2. Shape(tree') /\ RedBlack(tree', NULL, f, e) /\ \A m \in Nodes : In(tree', m) <=> In(tree, m)
    <3>1. tree.black[p] /\ tree.up[p] # NULL /\ f = tree.up[p]
      BY <1>8
    <3>2. IsBlack(tree, tree.child[s][d]) /\ IsBlack(tree, tree.child[s][Opposite(d)])
      BY <1>1
    <3> HIDE DEF f
    <3> QED BY <1>2, <1>3, <1>4, <1>6, <2>1, <3>1, <3>2, EraseFlipKeeps
  <2>3. In(tree', f)
    <3>1. In(tree, f)
      BY <1>3, <1>4, <2>1 DEF Links
    <3> QED BY <2>1, <2>2, <3>1
  <2>4. tree'.child = tree.child /\ tree'.black[p] /\ TreeOK(tree')
    BY <1>4, <1>6 DEF Recoloured
  <2>5. /\ rb'.at = "erase" /\ rb'.node = p /\ rb'.parent = f
        /\ rb' \in [at : {"idle", "left", "right", "insert", "erase"}, node : Pointer, parent : Pointer]
    BY <1>1, <1>3, <1>4, <1>8
  <2>6. NodeSide' = e
    <3>1. SideOf(tree', p, f) = e
      BY <1>4, <2>1, <2>4, SideOfIs
    <3> QED BY <2>5, <3>1 DEF NodeSide, SideOf
  <2>7. IsBlack(tree', p)
    BY <1>4, <2>4, IsBlackIs
  <2>8. Loops'
    BY <2>1, <2>3, <2>4, <2>5, <2>6, <2>7 DEF Loops
  <2>9. Rules'
    BY <2>2, <2>5, <2>6 DEF Rules
  <2>10. RbTypes'
    BY <1>1, <2>5 DEF RbInv, RbTypes
  <2> QED BY <2>2, <2>8, <2>9, <2>10 DEF RbInv
<1> QED BY <1>7, <1>8

(* Case 4: the far nephew is red. *)
LEMMA FarKeeps ==
  ASSUME NEW t, Shape(t), NEW n, NEW p, NEW d, NEW s, EraseAt(t, n, p, d, s), t.black[s],
         NEW far \in Nodes, t.child[s][Opposite(d)] = far, ~t.black[far],
         NEW u, BlackSiblingDone(t, t, u, p, s, far, d)
  PROVE  Shape(u) /\ RedBlack(u, NULL, NULL, "left")
<1> DEFINE o == Opposite(d)
           near == t.child[s][d]
<1>0. /\ TreeOK(t) /\ Links(t) /\ NULL \notin Nodes /\ o \in Sides /\ o # d /\ Opposite(o) = d
      /\ (\A x \in Sides : x = d \/ x = o) /\ d \in Sides /\ p \in Nodes /\ s \in Nodes
      /\ n \in Pointer /\ n # s /\ n = t.child[p][d] /\ s = t.child[p][o] /\ t.up[s] = p /\ In(t, p) /\ In(t, s)
      /\ IsBlack(t, n) /\ Colours(t, NULL) /\ near \in Pointer
  BY NullIsNoNode, SidesAre DEF Shape, EraseAt, RedBlack, TreeOK
<1>1. PICK h : Heights(t, h, p, d)
  BY DEF EraseAt, RedBlack
<1>2. PICK r, B : Ranked(t, r, B)
  BY DEF Shape
<1>3. Shape(u) /\ \A m \in Nodes : In(u, m) <=> In(t, m)
  BY <1>0, LiftKeepsShape DEF BlackSiblingDone
<1>4. /\ h[p] \in Nat /\ h[s] \in Nat /\ p # s
      /\ Below(t, h, p, d) \in Nat /\ Below(t, h, s, d) \in Nat /\ Below(t, h, s, o) \in Nat
      /\ Below(t, h, p, o) = h[s] /\ Dark(t, p) \in {0, 1}
      /\ h[p] = h[s] + Dark(t, p) /\ h[s] = Below(t, h, p, d) + 1
      /\ h[s] = Below(t, h, s, d) + Dark(t, s) /\ h[s] = Below(t, h, s, o) + Dark(t, s)
      /\ h \in [Nodes -> Nat]
      /\ \A m \in Nodes, x \in Sides : m # p =>
           h[m] = Below(t, h, m, x) + Dark(t, m) /\ Below(t, h, m, x) \in Nat /\ h[m] \in Nat
  BY <1>1, ShortSide
<1>5. /\ far \notin {p, s, n} /\ near \notin {p, s, far} /\ n \notin {p, s} /\ t.up[far] = s
      /\ (near # NULL => t.up[near] = s) /\ \A x \in Sides : t.child[far][x] \notin {p, s, far}
  <2>1. far # NULL /\ t.up[far] = s /\ (near # NULL => t.up[near] = s) /\ near # far /\ (n # NULL => t.up[n] = p)
    BY <1>0 DEF Links
  <2>2. far \notin {p, s} /\ near \notin {p, s} /\ n # p
    BY <1>0, <1>2, RankedApart
  <2>3. r[far] \in Nat /\ r[s] \in Nat /\ r[p] \in Nat /\ r[far] < r[s] /\ r[s] < r[p]
        /\ \A x \in Sides : t.child[far][x] # NULL => r[t.child[far][x]] < r[far]
    BY <1>0, <1>2, <2>1 DEF Ranked
  <2>4. \A x \in Sides : t.child[far][x] \notin {p, s, far}
    BY <1>0, <2>3
  <2> QED BY <1>0, <1>4, <2>1, <2>2, <2>4
<1>6. /\ \A m \in Nodes, x \in Sides :
           u.child[m][x] = IF m = p /\ x = o THEN near ELSE IF m = s /\ x = d THEN p
                           ELSE IF t.child[m][x] = p THEN s ELSE t.child[m][x]
      /\ \A m \in Nodes : u.up[m] = IF m = p THEN s ELSE IF m = s THEN t.up[p]
                                    ELSE IF m = near THEN p ELSE t.up[m]
  BY <1>0 DEF BlackSiblingDone, Lifted
<1>7. /\ u.black[p] /\ u.black[far] /\ (u.black[s] <=> t.black[p])
      /\ \A m \in Nodes : m \notin {p, s, far} => (u.black[m] <=> t.black[m])
  BY <1>0, <1>4, <1>5 DEF BlackSiblingDone
<1>8. Colours(u, NULL)
  <2>1. ASSUME NEW m \in Nodes, In(u, m), ~u.black[m] PROVE u.up[m] # NULL /\ u.black[u.up[m]]
    <3>1. CASE m = s
      <4>1. ~t.black[p] /\ u.up[m] = t.up[p]
        BY <1>4, <1>6, <1>7, <2>1, <3>1
      <4>2. t.up[p] # NULL /\ t.black[t.up[p]] /\ t.up[p] \in Nodes
        BY <1>0, <4>1 DEF Colours, TreeOK, Pointer
      <4>3. t.up[p] # s /\ t.up[p] # p
        <5>1. r[s] \in Nat /\ r[p] \in Nat /\ r[s] < r[p]
          BY <1>0, <1>2 DEF Ranked
        <5>2. r[p] < r[t.up[p]] /\ t.up[p] # p
          BY <1>0, <1>2, <4>2, RankedApart
        <5> QED BY <5>1, <5>2
      <4> QED BY <1>7, <4>1, <4>2, <4>3
    <3>2. CASE m = near
      <4>1. m # p /\ m # s /\ p # NULL
        BY <1>0, <1>5, <3>2
      <4>2. u.up[m] = p
        BY <1>6, <3>2, <4>1
      <4> QED BY <1>7, <4>1, <4>2
    <3>3. CASE m \notin {s, near}
      <4>1. m \notin {p, far} /\ ~t.black[m] /\ In(t, m)
        BY <1>3, <1>7, <2>1, <3>3
      <4>2. t.up[m] # NULL /\ t.black[t.up[m]] /\ t.up[m] \in Nodes
        BY <1>0, <4>1 DEF Colours, TreeOK, Pointer
      <4>3. t.up[m] # s
        <5>1. t.up[m] = s => m \in {near, far}
          BY <1>0 DEF Links
        <5> QED BY <3>3, <4>1, <5>1
      <4>4. u.up[m] = t.up[m]
        BY <1>6, <3>3, <4>1
      <4> QED BY <1>7, <4>2, <4>3, <4>4
    <3> QED BY <3>1, <3>2, <3>3
  <2> QED BY <2>1 DEF Colours
<1> DEFINE k == [h EXCEPT ![s] = h[p], ![p] = h[s], ![far] = h[s]]
<1>9. k \in [Nodes -> Nat] /\ k[s] = h[p] /\ k[p] = h[s] /\ k[far] = h[s]
      /\ \A m \in Nodes : m \notin {p, s, far} => k[m] = h[m]
  BY <1>0, <1>4, <1>5
<1> HIDE DEF k
<1>10. \A w \in Pointer : w \notin {p, s, far} => (w = NULL \/ k[w] = h[w])
  BY <1>9 DEF Pointer
<1>11. Dark(t, s) = 1 /\ Dark(t, far) = 0 /\ Dark(u, p) = 1 /\ Dark(u, far) = 1 /\ Dark(u, s) = Dark(t, p)
       /\ \A m \in Nodes : m \notin {p, s, far} => Dark(u, m) = Dark(t, m)
  BY <1>0, <1>7 DEF Dark
<1>12. /\ u.child[p][o] = near /\ u.child[p][d] = n /\ u.child[s][d] = p /\ u.child[s][o] = far
       /\ \A x \in Sides : u.child[far][x] = t.child[far][x] /\ t.child[far][x] \in Pointer
  <2>1. \A x \in Sides : t.child[far][x] \in Pointer
    BY <1>0 DEF TreeOK
  <2> HIDE DEF o, near
  <2> QED BY <1>0, <1>4, <1>5, <1>6, <2>1 DEF o
<1>13. /\ Below(u, k, p, o) = Below(t, h, s, d) /\ Below(u, k, p, d) = Below(t, h, p, d)
       /\ Below(u, k, s, d) = h[s] /\ Below(u, k, s, o) = h[s]
       /\ \A x \in Sides : Below(u, k, far, x) = Below(t, h, far, x)
  <2>1. Below(u, k, p, o) = Below(t, h, s, d)
    BY <1>0, <1>5, <1>10, <1>12 DEF Below
  <2>2. Below(u, k, p, d) = Below(t, h, p, d)
    BY <1>0, <1>5, <1>10, <1>12 DEF Below
  <2>3. Below(u, k, s, d) = h[s] /\ Below(u, k, s, o) = h[s]
    BY <1>0, <1>9, <1>12 DEF Below
  <2>4. \A x \in Sides : Below(u, k, far, x) = Below(t, h, far, x)
    BY <1>5, <1>10, <1>12 DEF Below
  <2> QED BY <2>1, <2>2, <2>3, <2>4
<1>14. h[far] \in Nat /\ h[s] = h[far] + 1 /\ \A x \in Sides : h[far] = Below(t, h, far, x) /\ Below(t, h, far, x) \in Nat
  <2>1. Below(t, h, s, o) = h[far]
    BY <1>0 DEF Below
  <2>2. \A x \in Sides : h[far] = Below(t, h, far, x) + 0 /\ Below(t, h, far, x) \in Nat /\ h[far] \in Nat
    BY <1>4, <1>5, <1>11
  <2> HIDE DEF o
  <2> QED BY <1>0, <1>4, <1>11, <2>1, <2>2
<1>15. ASSUME NEW m \in Nodes, NEW x \in Sides
       PROVE  k[m] = Below(u, k, m, x) + Gap(NULL, "left", m, x) + Dark(u, m)
  <2>1. Gap(NULL, "left", m, x) = 0
    BY <1>0 DEF Gap
  <2>2. CASE m = p
    <3> HIDE DEF o
    <3> QED BY <1>0, <1>4, <1>9, <1>11, <1>13, <2>1, <2>2
  <2>3. CASE m = s
    <3> HIDE DEF o
    <3> QED BY <1>0, <1>4, <1>9, <1>11, <1>13, <2>1, <2>3
  <2>4. CASE m = far
    <3> HIDE DEF o
    <3> QED BY <1>9, <1>11, <1>13, <1>14, <2>1, <2>4
  <2>5. CASE m \notin {p, s, far}
    <3>1. Lifted(t, u, p, s, o)
      BY DEF BlackSiblingDone
    <3>2. \A y \in Nodes : y \notin {p, s} /\ t.up[y] \notin {p, s} => k[y] = h[y]
      BY <1>5, <1>9
    <3>3. Below(u, k, m, x) = Below(t, h, m, x)
      <4> HIDE DEF o
      <4> QED BY <1>0, <1>9, <2>5, <3>1, <3>2, LiftBelow
    <3> QED BY <1>4, <1>9, <1>11, <2>1, <2>5, <3>3
  <2> QED BY <2>2, <2>3, <2>4, <2>5
<1>16. Heights(u, k, NULL, "left")
  BY <1>9, <1>15 DEF Heights
<1> QED BY <1>3, <1>8, <1>16 DEF RedBlack

(* Cases 3 and 4: the near nephew is red and the far one black. *)
LEMMA NephewKeeps ==
  ASSUME NEW t, Shape(t), NEW n, NEW p, NEW d, NEW s, EraseAt(t, n, p, d, s), t.black[s],
         NEW c \in Nodes, t.child[s][d] = c, ~t.black[c], IsBlack(t, t.child[s][Opposite(d)]),
         NEW u, NephewDone(t, u, p, s, c, d)
  PROVE  Shape(u) /\ RedBlack(u, NULL, NULL, "left")
<1> DEFINE o == Opposite(d)
           i == t.child[c][o]
           j == t.child[c][d]
<1>0. /\ TreeOK(t) /\ Links(t) /\ NULL \notin Nodes /\ o \in Sides /\ o # d /\ Opposite(o) = d
      /\ (\A x \in Sides : x = d \/ x = o) /\ d \in Sides /\ p \in Nodes /\ s \in Nodes
      /\ n \in Pointer /\ n # s /\ n = t.child[p][d] /\ s = t.child[p][o] /\ t.up[s] = p /\ In(t, p) /\ In(t, s)
      /\ IsBlack(t, n) /\ Colours(t, NULL)
  BY NullIsNoNode, SidesAre DEF Shape, EraseAt, RedBlack, TreeOK
<1>1. DoubleLifted(t, u, p, s, c, o)
  <2>1. TreeOK(u) /\ Lifted(Lift(t, s, c, Opposite(o)), u, p, c, o)
    BY <1>0 DEF NephewDone
  <2>2. t.child[p][o] = s /\ t.child[s][Opposite(o)] = c
    BY <1>0
  <2> HIDE DEF o
  <2> QED BY <1>0, <2>1, <2>2, TwoLifts
<1>2. /\ Shape(u) /\ (\A m \in Nodes : In(u, m) <=> In(t, m))
      /\ \A m \in Nodes : u.up[m] = IF m \in {p, s} THEN c ELSE IF m = c THEN t.up[p]
                                    ELSE IF m = j THEN p ELSE IF m = i THEN s ELSE t.up[m]
      /\ t.up[c] = s /\ (i # NULL => t.up[i] = c) /\ (j # NULL => t.up[j] = c)
      /\ p # s /\ p # c /\ s # c /\ i \notin {p, s, c} /\ j \notin {p, s, c}
      /\ i \in Pointer /\ j \in Pointer
  <2> DEFINE j1 == t.child[c][Opposite(o)]
  <2>1. j1 = j
    BY <1>0
  <2>2. /\ Shape(u) /\ (\A m \in Nodes : In(u, m) <=> In(t, m))
        /\ \A m \in Nodes : u.up[m] = IF m \in {p, s} THEN c ELSE IF m = c THEN t.up[p]
                                      ELSE IF m = j1 THEN p ELSE IF m = i THEN s ELSE t.up[m]
        /\ t.up[c] = s /\ (i # NULL => t.up[i] = c) /\ (j1 # NULL => t.up[j1] = c)
        /\ p # s /\ p # c /\ s # c /\ {i, j1} \cap {p, s, c} = {}
        /\ i \in Pointer /\ j1 \in Pointer
    BY <1>1 DEF DoubleLifted
  <2> HIDE DEF i, j, j1
  <2> QED BY <2>1, <2>2
<1>3. (i # NULL => i \in Nodes /\ t.black[i]) /\ (j # NULL => j \in Nodes /\ t.black[j])
  <2>1. ASSUME NEW w \in {i, j}, w # NULL PROVE w \in Nodes /\ t.black[w]
    <3>1. w \in Nodes /\ t.up[w] = c
      BY <1>2, <2>1 DEF Pointer
    <3> HIDE DEF i, j
    <3> QED BY <1>0, <3>1 DEF Colours, In
  <2> QED BY <2>1
<1>4. u.black[p] /\ u.black[s] /\ (u.black[c] <=> t.black[p])
      /\ \A m \in Nodes : m \notin {p, s, c} => (u.black[m] <=> t.black[m])
  <2>1. \A m \in Nodes :
             u.black[m] = IF m \in {p, s} THEN TRUE ELSE IF m = c THEN t.black[p]
                          ELSE IF m = i THEN TRUE ELSE t.black[m]
    BY DEF NephewDone
  <2> HIDE DEF i
  <2>2. u.black[p] /\ u.black[s] /\ (u.black[c] <=> t.black[p])
    BY <1>0, <1>2, <2>1
  <2>3. ASSUME NEW m \in Nodes, m \notin {p, s, c} PROVE u.black[m] <=> t.black[m]
    <3>1. u.black[m] = IF m = i THEN TRUE ELSE t.black[m]
      BY <2>1, <2>3
    <3> QED BY <1>0, <1>3, <3>1
  <2> QED BY <2>2, <2>3
<1>5. Colours(u, NULL)
  <2>1. ASSUME NEW m \in Nodes, In(u, m), ~u.black[m] PROVE u.up[m] # NULL /\ u.black[u.up[m]]
    <3>1. CASE m = c
      <4>1. ~t.black[p] /\ u.up[m] = t.up[p]
        BY <1>2, <1>4, <2>1, <3>1
      <4>2. t.up[p] # NULL /\ t.black[t.up[p]] /\ t.up[p] \in Nodes
        BY <1>0, <4>1 DEF Colours, TreeOK, Pointer
      <4> QED BY <1>4, <4>1, <4>2
    <3>2. CASE m # c
      <4>1. m \notin {p, s} /\ ~t.black[m] /\ In(t, m)
        BY <1>2, <1>4, <2>1, <3>2
      <4>2. m # i /\ m # j
        <5> HIDE DEF i, j
        <5> QED BY <1>0, <1>3, <4>1
      <4>3. t.up[m] # NULL /\ t.black[t.up[m]] /\ t.up[m] \in Nodes
        BY <1>0, <4>1 DEF Colours, TreeOK, Pointer
      <4>4. u.up[m] = t.up[m]
        BY <1>2, <3>2, <4>1, <4>2
      <4> QED BY <1>4, <4>3, <4>4
    <3> QED BY <3>1, <3>2
  <2> QED BY <2>1 DEF Colours
<1>6. PICK h : Heights(t, h, p, d)
  BY DEF EraseAt, RedBlack
<1>7. /\ h[p] \in Nat /\ h[s] \in Nat /\ p # s
      /\ Below(t, h, p, d) \in Nat /\ Below(t, h, s, d) \in Nat /\ Below(t, h, s, o) \in Nat
      /\ Below(t, h, p, o) = h[s] /\ Dark(t, p) \in {0, 1}
      /\ h[p] = h[s] + Dark(t, p) /\ h[s] = Below(t, h, p, d) + 1
      /\ h[s] = Below(t, h, s, d) + Dark(t, s) /\ h[s] = Below(t, h, s, o) + Dark(t, s)
      /\ \A m \in Nodes, x \in Sides : m # p =>
           h[m] = Below(t, h, m, x) + Dark(t, m) /\ Below(t, h, m, x) \in Nat /\ h[m] \in Nat
  BY <1>6, ShortSide
<1>8. Dark(t, s) = 1 /\ Dark(t, c) = 0 /\ Dark(u, p) = 1 /\ Dark(u, s) = 1 /\ Dark(u, c) = Dark(t, p)
  BY <1>0, <1>4 DEF Dark
<1>9. /\ h[c] = Below(t, h, c, d) + Dark(t, c) /\ h[c] = Below(t, h, c, o) + Dark(t, c)
      /\ Below(t, h, s, d) = h[c] /\ Below(t, h, c, d) \in Nat /\ Below(t, h, c, o) \in Nat /\ h[c] \in Nat
  <2>1. Below(t, h, s, d) = h[c]
    BY <1>0 DEF Below
  <2> QED BY <1>0, <1>2, <1>7, <2>1
<1> HIDE DEF o
<1>10. /\ h[s] = Below(t, h, c, Opposite(o)) + Dark(u, p) /\ h[s] = Below(t, h, p, Opposite(o)) + Dark(u, p)
       /\ h[s] = Below(t, h, c, o) + Dark(u, s) /\ h[s] = Below(t, h, s, o) + Dark(u, s)
       /\ h[p] = h[s] + Dark(u, c)
  BY <1>0, <1>7, <1>8, <1>9
<1>11. \E k : Heights(u, k, NULL, "left")
  <2>1. p \in {p, NULL} /\ \A m \in Nodes : m \notin {p, s, c} => (u.black[m] <=> t.black[m])
    BY <1>4
  <2> QED BY <1>0, <1>1, <1>6, <1>7, <1>10, <2>1, TwoLiftsHeights
<1> QED BY <1>2, <1>5, <1>11 DEF RedBlack

(* Cases 3 and 4 of the removal. *)
LEMMA StepEraseRotate ==
  ASSUME RbInv, rb_erase_rotate
  PROVE  RbInv'
<1> DEFINE n == rb.node
           p == rb.parent
           d == NodeSide
           s == Sibling
           near == tree.child[s][d]
           far == tree.child[s][Opposite(d)]
<1>1. /\ rb.at = "erase" /\ ~IsRed(tree, s) /\ leftmost' = leftmost /\ rb' = Idle
      /\ ~(IsBlack(tree, near) /\ IsBlack(tree, far))
      /\ tree' = IF IsBlack(tree, far)
                 THEN LiftBlackSibling(LiftNephew(tree, p, s, d), p, near, s, d)
                 ELSE LiftBlackSibling(tree, p, s, far, d)
  BY DEF rb_erase_rotate, BlackSibling, Near, Far
<1>2. EraseAt(tree, n, p, d, s)
  BY <1>1, EraseIs
<1>3. Shape(tree) /\ TreeOK(tree) /\ Links(tree)
  BY DEF RbInv, Shape
<1>4. PICK r, B : Ranked(tree, r, B)
  BY <1>3 DEF Shape
<1> HIDE DEF n, p, d, s
<1>5. /\ p \in Nodes /\ d \in Sides /\ In(tree, p) /\ s \in Nodes /\ s = tree.child[p][Opposite(d)] /\ tree.black[s]
      /\ near \in Pointer /\ far \in Pointer
  <2>1. p \in Nodes /\ d \in Sides /\ In(tree, p) /\ s \in Nodes /\ s = tree.child[p][Opposite(d)] /\ s \in Pointer
    BY <1>2 DEF EraseAt, Pointer
  <2> QED BY <1>1, <1>3, <2>1, IsBlackIs, SidesAre DEF TreeOK
<1>6. Shape(tree') /\ RedBlack(tree', NULL, NULL, "left")
  <2>1. CASE IsBlack(tree, far)
    <3>1. near \in Nodes /\ ~tree.black[near]
      BY <1>1, <1>3, <1>5, <2>1, IsBlackIs DEF Pointer
    <3>2. tree' = LiftBlackSibling(LiftNephew(tree, p, s, d), p, near, s, d) /\ tree.child[s][d] = near
      BY <1>1, <2>1
    <3>3. IsBlack(tree, tree.child[s][Opposite(d)])
      BY <2>1
    <3> HIDE DEF near, far
    <3>4. NephewDone(tree, tree', p, s, near, d)
      BY <1>3, <1>4, <1>5, <3>1, <3>2, LiftNephewIs
    <3> QED BY <1>2, <1>3, <1>5, <3>1, <3>2, <3>3, <3>4, NephewKeeps
  <2>2. CASE ~IsBlack(tree, far)
    <3>1. far \in Nodes /\ ~tree.black[far]
      BY <1>3, <1>5, <2>2, IsBlackIs DEF Pointer
    <3>2. tree' = LiftBlackSibling(tree, p, s, far, d) /\ tree.child[s][Opposite(d)] = far
      BY <1>1, <2>2
    <3> HIDE DEF near, far
    <3>3. BlackSiblingDone(tree, tree, tree', p, s, far, d)
      BY <1>3, <1>4, <1>5, <3>1, <3>2, LiftBlackSiblingIs
    <3> QED BY <1>2, <1>3, <1>5, <3>1, <3>2, <3>3, FarKeeps
  <2> QED BY <2>1, <2>2
<1>7. RbTypes' /\ Loops' /\ Rules'
  BY <1>1, <1>6 DEF RbInv, RbTypes, Idle, Loops, Rules, Pointer
<1> QED BY <1>6, <1>7 DEF RbInv

----------------------------------------------------------------------------
(* Walking down and up the tree: the recursive functions of the walks are    *)
(* unfolded along the rank.                                                  *)

(* Induction from all smaller numbers. *)
LEMMA NumbersFromBelow ==
  ASSUME NEW S, \A k \in Nat : (\A l \in Nat : l < k => l \in S) => k \in S
  PROVE  \A k \in Nat : k \in S
<1> SUFFICES ASSUME Nat \ S # {} PROVE FALSE
  OBVIOUS
<1>1. PICK k \in Nat \ S : \A l \in Nat \ S : k <= l
  BY LeastNumber
<1>2. \A l \in Nat : l < k => l \in S
  BY <1>1
<1> QED BY <1>1, <1>2

(* A rank in Nat orders its domain without infinite descent. *)
LEMMA RankWellFounded ==
  ASSUME NEW S, NEW r, r \in [S -> Nat]
  PROVE  IsWellFoundedOn({ss \in S \X S : r[ss[1]] < r[ss[2]]}, S)
<1> DEFINE R == {ss \in S \X S : r[ss[1]] < r[ss[2]]}
<1>1. ASSUME NEW T \in SUBSET S, T # {}
      PROVE  \E x \in T : \A y \in T : ~(<<y, x>> \in R)
  <2> DEFINE V == {r[x] : x \in T}
  <2>1. V \in SUBSET Nat /\ V # {}
    BY <1>1
  <2>2. PICK k \in V : \A l \in V : k <= l
    BY <2>1, LeastNumber
  <2>3. PICK x \in T : r[x] = k
    BY <2>2
  <2>4. ASSUME NEW y \in T PROVE ~(<<y, x>> \in R)
    <3>1. r[x] <= r[y] /\ r[x] \in Nat /\ r[y] \in Nat
      BY <2>2, <2>3
    <3> QED BY <3>1
  <2> QED BY <2>4
<1> HIDE DEF R
<1>2. IsWellFoundedOn(R, S)
  BY <1>1, MinWF
<1> QED BY <1>2 DEF R

(* The way down on one side, one link at a time. *)
LEMMA FarthestUnfolds ==
  ASSUME NEW t, TreeOK(t), NEW d \in Sides, NEW r, NEW B, Ranked(t, r, B), NEW n \in Nodes
  PROVE  Farthest(t, n, d) = IF t.child[n][d] = NULL THEN n ELSE Farthest(t, t.child[n][d], d)
<1> DEFINE R == {ss \in Nodes \X Nodes : r[ss[1]] < r[ss[2]]}
           Step(g, m) == IF t.child[m][d] = NULL THEN m ELSE g[t.child[m][d]]
           F == CHOOSE f : f = [m \in Nodes |-> Step(f, m)]
<1>0. /\ r \in [Nodes -> Nat] /\ \A m \in Nodes : t.child[m][d] \in Pointer
      /\ \A m \in Nodes : t.child[m][d] # NULL => r[t.child[m][d]] < r[m]
  BY DEF TreeOK, Ranked
<1>1. IsWellFoundedOn(R, Nodes)
  BY <1>0, RankWellFounded
<1>2. WFDefOn(R, Nodes, Step)
  <2> SUFFICES ASSUME NEW g, NEW h, NEW x \in Nodes, \A y \in SetLessThan(x, R, Nodes) : g[y] = h[y]
               PROVE  Step(g, x) = Step(h, x)
    BY DEF WFDefOn
  <2>1. t.child[x][d] # NULL => t.child[x][d] \in SetLessThan(x, R, Nodes)
    BY <1>0, NullIsNoNode DEF SetLessThan, Pointer
  <2> QED BY <2>1
<1>3. OpDefinesFcn(F, Nodes, Step)
  BY DEF OpDefinesFcn
<1>4. \A m : Farthest(t, m, d) = F[m]
  BY DEF Farthest
<1> HIDE DEF R, Step, F
<1>5. WFInductiveDefines(F, Nodes, Step)
  BY <1>1, <1>2, <1>3, WFInductiveDef
<1>6. F[n] = Step(F, n)
  BY <1>5 DEF WFInductiveDefines
<1> QED BY <1>4, <1>6 DEF Step

(* The last node on a side: m itself, or below it on that side of its parent. *)
Last(t, r, m, s, d) ==
    /\ s \in Nodes /\ t.child[s][d] = NULL
    /\ \/ s = m
       \/ /\ s # m /\ t.up[s] \in Nodes /\ t.child[t.up[s]][d] = s
          /\ r[s] < r[t.up[s]] /\ r[t.up[s]] <= r[m]

(* It ends at a node without a child on that side. *)
LEMMA FarthestIs ==
  ASSUME NEW t, TreeOK(t), Links(t), NEW d \in Sides, NEW r, NEW B, Ranked(t, r, B), NEW n \in Nodes
  PROVE  Last(t, r, n, Farthest(t, n, d), d)
<1> DEFINE S == {k \in Nat : \A m \in Nodes : r[m] = k => Last(t, r, m, Farthest(t, m, d), d)}
<1>0. /\ \A m \in Nodes : r[m] \in Nat /\ t.child[m][d] \in Pointer
      /\ NULL \notin Nodes
      /\ \A m \in Nodes : t.child[m][d] # NULL => r[t.child[m][d]] < r[m] /\ t.up[t.child[m][d]] = m
  BY NullIsNoNode DEF TreeOK, Ranked, Links
<1>1. ASSUME NEW k \in Nat, \A l \in Nat : l < k => l \in S PROVE k \in S
  <2> SUFFICES ASSUME NEW m \in Nodes, r[m] = k PROVE Last(t, r, m, Farthest(t, m, d), d)
    OBVIOUS
  <2> DEFINE c == t.child[m][d]
  <2>1. CASE c = NULL
    <3>1. Farthest(t, m, d) = m
      BY <2>1, FarthestUnfolds
    <3> QED BY <2>1, <3>1 DEF Last
  <2>2. CASE c # NULL
    <3> DEFINE s == Farthest(t, c, d)
    <3>1. Farthest(t, m, d) = s
      BY <2>2, FarthestUnfolds
    <3>2. c \in Nodes /\ r[c] < r[m] /\ r[c] \in Nat /\ t.up[c] = m
      BY <1>0, <2>2 DEF Pointer
    <3>3. r[c] \in S
      BY <1>1, <3>2
    <3>4. Last(t, r, c, s, d)
      BY <3>2, <3>3
    <3> HIDE DEF c, s
    <3>5. t.child[m][d] = c
      BY DEF c
    <3>6. s \in Nodes /\ t.child[s][d] = NULL
      BY <3>4 DEF Last
    <3>7. CASE s = c
      <4>1. s # m /\ t.up[s] = m /\ r[s] < r[m] /\ r[m] \in Nat
        BY <1>0, <3>2, <3>7
      <4> QED BY <3>1, <3>5, <3>6, <3>7, <4>1 DEF Last
    <3>8. CASE s # c
      <4>1. t.up[s] \in Nodes /\ t.child[t.up[s]][d] = s /\ r[s] < r[t.up[s]] /\ r[t.up[s]] <= r[c]
        BY <3>4, <3>8 DEF Last
      <4>2. r[t.up[s]] \in Nat /\ r[s] \in Nat /\ r[m] \in Nat
        BY <1>0, <3>6, <4>1
      <4>3. r[t.up[s]] <= r[m] /\ s # m
        BY <3>2, <4>1, <4>2
      <4> QED BY <3>1, <3>6, <4>1, <4>3 DEF Last
    <3> QED BY <3>7, <3>8
  <2> QED BY <2>1, <2>2
<1> HIDE DEF S
<1>2. \A k \in Nat : k \in S
  BY <1>1, NumbersFromBelow
<1>3. r[n] \in S
  BY <1>0, <1>2
<1> QED BY <1>3 DEF S

(* The way up, one link at a time, ends at a node or NULL. *)
LEMMA AncestorIs ==
  ASSUME NEW t, TreeOK(t), Links(t), NEW d \in Sides, NEW r, NEW B, Ranked(t, r, B), NEW n \in Nodes
  PROVE  /\ Ancestor(t, n, d) \in Pointer
         /\ Ancestor(t, n, d) = IF t.up[n] = NULL \/ n # t.child[t.up[n]][Opposite(d)] THEN t.up[n]
                                ELSE Ancestor(t, t.up[n], d)
<1> DEFINE w == [m \in Nodes |-> B - r[m]]
           R == {ss \in Nodes \X Nodes : w[ss[1]] < w[ss[2]]}
           Step(g, m) == IF t.up[m] = NULL \/ m # t.child[t.up[m]][Opposite(d)] THEN t.up[m] ELSE g[t.up[m]]
           F == CHOOSE f : f = [m \in Nodes |-> Step(f, m)]
<1>0. /\ w \in [Nodes -> Nat] /\ \A m \in Nodes : t.up[m] \in Pointer
      /\ \A m \in Nodes : t.up[m] # NULL => t.up[m] \in Nodes /\ w[t.up[m]] < w[m]
  <2>1. B \in Nat /\ \A m \in Nodes : r[m] \in 0 .. B
    BY DEF Ranked
  <2>2. w \in [Nodes -> Nat]
    BY <2>1
  <2>3. ASSUME NEW m \in Nodes, t.up[m] # NULL PROVE t.up[m] \in Nodes /\ w[t.up[m]] < w[m]
    <3>1. t.up[m] \in Nodes
      BY <2>3 DEF TreeOK, Pointer
    <3>2. r[m] < r[t.up[m]]
      BY <2>3, RankedApart
    <3> QED BY <2>1, <3>1, <3>2
  <2>4. \A m \in Nodes : t.up[m] \in Pointer
    BY DEF TreeOK
  <2> QED BY <2>2, <2>3, <2>4
<1> HIDE DEF w
<1>1. IsWellFoundedOn(R, Nodes)
  BY <1>0, RankWellFounded
<1>2. WFDefOn(R, Nodes, Step)
  <2> SUFFICES ASSUME NEW g, NEW h, NEW x \in Nodes, \A y \in SetLessThan(x, R, Nodes) : g[y] = h[y]
               PROVE  Step(g, x) = Step(h, x)
    BY DEF WFDefOn
  <2>1. t.up[x] # NULL => t.up[x] \in SetLessThan(x, R, Nodes)
    BY <1>0 DEF SetLessThan
  <2> QED BY <2>1
<1>3. OpDefinesFcn(F, Nodes, Step)
  BY DEF OpDefinesFcn
<1>4. \A m : Ancestor(t, m, d) = F[m]
  BY DEF Ancestor
<1> HIDE DEF R, Step, F
<1>6. WFInductiveDefines(F, Nodes, Step)
  BY <1>1, <1>2, <1>3, WFInductiveDef
<1>7. F[n] = Step(F, n)
  BY <1>6 DEF WFInductiveDefines
<1> DEFINE S == {k \in Nat : \A m \in Nodes : w[m] = k => F[m] \in Pointer}
<1>8. ASSUME NEW k \in Nat, \A l \in Nat : l < k => l \in S PROVE k \in S
  <2> SUFFICES ASSUME NEW m \in Nodes, w[m] = k PROVE F[m] \in Pointer
    OBVIOUS
  <2>1. F[m] = Step(F, m)
    BY <1>6 DEF WFInductiveDefines
  <2>2. t.up[m] # NULL => F[t.up[m]] \in Pointer
    BY <1>0, <1>8
  <2> QED BY <1>0, <2>1, <2>2 DEF Step
<1> HIDE DEF S
<1>9. \A k \in Nat : k \in S
  BY <1>8, NumbersFromBelow
<1>10. F[n] \in Pointer
  BY <1>0, <1>9 DEF S
<1> QED BY <1>4, <1>7, <1>10 DEF Step

(* rb_next names a node or NULL. *)
LEMMA NextIsPointer ==
  ASSUME NEW t, Shape(t), NEW n \in Nodes
  PROVE  rb_next(t, n) \in Pointer
<1>1. PICK r, B : Ranked(t, r, B)
  BY DEF Shape
<1>2. TreeOK(t) /\ Links(t) /\ Opposite("left") \in Sides /\ "left" \in Sides
  BY DEF Shape, Opposite, Sides
<1>3. CASE t.child[n][Opposite("left")] = NULL
  BY <1>1, <1>2, <1>3, AncestorIs DEF rb_next, Neighbour
<1>4. CASE t.child[n][Opposite("left")] # NULL
  <2> DEFINE m == t.child[n][Opposite("left")]
  <2>1. m \in Nodes
    BY <1>2, <1>4 DEF TreeOK, Pointer
  <2>2. rb_next(t, n) = Farthest(t, m, "left")
    BY <1>4 DEF rb_next, Neighbour
  <2> HIDE DEF m
  <2>3. Last(t, r, m, Farthest(t, m, "left"), "left")
    BY <1>1, <1>2, <2>1, FarthestIs
  <2> QED BY <2>2, <2>3 DEF Last, Pointer
<1> QED BY <1>3, <1>4

----------------------------------------------------------------------------
(* Removal *)

(* n, with the one child c or none, leaves the tree and c takes its place. *)
CutOut(t, u, n, c) ==
    /\ TreeOK(u)
    /\ u.root = IF t.root = n THEN c ELSE t.root
    /\ \A m \in Nodes, x \in Sides :
         u.child[m][x] = IF m = n THEN NULL ELSE IF t.child[m][x] = n THEN c ELSE t.child[m][x]
    /\ \A m \in Nodes : u.up[m] = IF m = n THEN NULL ELSE IF m = c THEN t.up[n] ELSE t.up[m]
    /\ \A m \in Nodes : u.black[m] = IF m = n THEN FALSE ELSE IF m = c THEN t.black[n] ELSE t.black[m]

OneChild(t, n, c) ==
    /\ n \in Nodes /\ In(t, n) /\ c \in Pointer
    /\ \E d \in Sides : t.child[n][d] = c /\ t.child[n][Opposite(d)] = NULL

(* Cutting out a node with at most one child leaves a tree of the others. *)
LEMMA CutKeepsShape ==
  ASSUME NEW t, Shape(t), NEW n, NEW c, OneChild(t, n, c), NEW u, CutOut(t, u, n, c)
  PROVE  Shape(u) /\ \A m \in Nodes : In(u, m) <=> m # n /\ In(t, m)
<1> DEFINE f == t.up[n]
<1>0. /\ TreeOK(t) /\ Links(t) /\ NULL \notin Nodes /\ n \in Nodes /\ c \in Pointer /\ f \in Pointer
      /\ n # NULL /\ (c # NULL => c \in Nodes) /\ (f # NULL => f \in Nodes)
  BY NullIsNoNode DEF Shape, OneChild, TreeOK, Pointer
<1>1. PICK r, B : Ranked(t, r, B)
  BY DEF Shape
<1>2. PICK d \in Sides : t.child[n][d] = c /\ t.child[n][Opposite(d)] = NULL
  BY DEF OneChild
<1>3. /\ (c # NULL => t.up[c] = n) /\ c # n /\ f # n /\ (f # NULL => f # c)
      /\ \A m \in Nodes : t.up[m] = n => m = c
  <2>1. c # NULL => t.up[c] = n
    BY <1>0, <1>2 DEF Links
  <2>2. c # n /\ f # n
    BY <1>0, <1>1, <1>2, RankedApart
  <2>3. f # NULL => f # c
    <3>1. f # NULL => r[n] < r[f] /\ r[f] \in Nat /\ r[n] \in Nat
      <4>1. f # NULL => r[n] < r[f]
        BY <1>0, <1>1, RankedApart
      <4>2. \A m \in Nodes : r[m] \in Nat
        BY <1>1 DEF Ranked
      <4> QED BY <1>0, <4>1, <4>2
    <3>2. c # NULL => r[c] < r[n] /\ r[c] \in Nat
      BY <1>0, <1>1, <1>2 DEF Ranked
    <3> QED BY <3>1, <3>2
  <2>4. \A m \in Nodes : t.up[m] = n => m = c
    BY <1>0, <1>2, SidesAre DEF Links
  <2> QED BY <2>1, <2>2, <2>3, <2>4
<1>4. /\ TreeOK(u)
      /\ u.root = IF t.root = n THEN c ELSE t.root
      /\ \A m \in Nodes, x \in Sides :
           u.child[m][x] = IF m = n THEN NULL ELSE IF t.child[m][x] = n THEN c ELSE t.child[m][x]
      /\ \A m \in Nodes : u.up[m] = IF m = n THEN NULL ELSE IF m = c THEN f ELSE t.up[m]
  BY DEF CutOut
<1>5. (t.root = n <=> f = NULL) /\ (t.root # NULL => t.up[t.root] = NULL) /\ t.root \in Pointer
  BY <1>0 DEF OneChild, In, Links, TreeOK
<1>6. \A m \in Nodes : In(u, m) <=> m # n /\ In(t, m)
  <2> TAKE m \in Nodes
  <2>1. CASE m = n
    <3>1. u.up[n] = NULL /\ u.root # n
      BY <1>0, <1>3, <1>4
    <3> QED BY <2>1, <3>1 DEF In
  <2>2. CASE m = c
    <3>1. m # NULL /\ m # n /\ t.up[m] = n /\ u.up[m] = f /\ In(t, m)
      BY <1>0, <1>3, <1>4, <2>2 DEF In
    <3>2. f = NULL => u.root = m
      BY <1>4, <1>5, <2>2
    <3> QED BY <3>1, <3>2 DEF In
  <2>3. CASE m \notin {n, c}
    <3>1. u.up[m] = t.up[m] /\ (u.root = m <=> t.root = m)
      BY <1>4, <2>3
    <3> QED BY <2>3, <3>1 DEF In
  <2> QED BY <2>1, <2>2, <2>3
<1>7. ASSUME NEW m \in Nodes, NEW x \in Sides, u.child[m][x] # NULL
      PROVE  u.up[u.child[m][x]] = m /\ u.child[m][x] # u.child[m][Opposite(x)]
  <2> DEFINE y == t.child[m][x]
             z == t.child[m][Opposite(x)]
  <2>0. /\ Opposite(x) \in Sides /\ y \in Pointer /\ z \in Pointer /\ m # n
        /\ (y # NULL => t.up[y] = m /\ y # z /\ y \in Nodes) /\ (z # NULL => t.up[z] = m /\ z \in Nodes)
    BY <1>0, <1>4, <1>7, SidesAre DEF TreeOK, Links, Pointer
  <2>1. u.child[m][x] = (IF y = n THEN c ELSE y) /\ u.child[m][Opposite(x)] = (IF z = n THEN c ELSE z)
    BY <1>4, <2>0
  <2>2. y # c \/ c = NULL
    BY <1>3, <2>0
  <2>3. z # c \/ c = NULL
    BY <1>3, <2>0
  <2> HIDE DEF y, z
  <2>4. CASE y = n
    BY <1>0, <1>3, <1>4, <1>7, <2>0, <2>1, <2>3, <2>4
  <2>5. CASE y # n
    BY <1>0, <1>3, <1>4, <1>7, <2>0, <2>1, <2>2, <2>5
  <2> QED BY <2>4, <2>5
<1>8. ASSUME NEW m \in Nodes, u.up[m] # NULL PROVE \E x \in Sides : u.child[u.up[m]][x] = m
  <2>1. CASE m = c
    <3>1. u.up[m] = f /\ f \in Nodes
      BY <1>0, <1>3, <1>4, <1>8, <2>1
    <3>2. PICK x \in Sides : t.child[f][x] = n
      BY <1>0, <3>1 DEF Links
    <3> QED BY <1>3, <1>4, <2>1, <3>1, <3>2
  <2>2. CASE m # c
    <3>1. m # n /\ u.up[m] = t.up[m] /\ t.up[m] \in Nodes /\ t.up[m] # n
      BY <1>0, <1>3, <1>4, <1>8, <2>2 DEF TreeOK, Pointer
    <3>2. PICK x \in Sides : t.child[t.up[m]][x] = m
      BY <1>0, <3>1 DEF Links
    <3> QED BY <1>4, <3>1, <3>2
  <2> QED BY <2>1, <2>2
<1>9. u.root # NULL => u.up[u.root] = NULL
  <2>1. CASE t.root = n
    BY <1>0, <1>3, <1>4, <1>5, <2>1
  <2>2. CASE t.root # n
    <3>1. c # NULL => t.root # c
      BY <1>0, <1>3, <1>5
    <3> QED BY <1>0, <1>4, <1>5, <2>2, <3>1 DEF Pointer
  <2> QED BY <2>1, <2>2
<1>10. \A m \in Nodes : ~In(u, m) => \A x \in Sides : u.child[m][x] = NULL
  <2> TAKE m \in Nodes
  <2> HAVE ~In(u, m)
  <2> TAKE x \in Sides
  <2>1. CASE m = n
    BY <1>4, <2>1
  <2>2. CASE m # n
    <3>1. t.child[m][x] = NULL
      BY <1>0, <1>6, <2>2 DEF Links
    <3> QED BY <1>0, <1>4, <2>2, <3>1
  <2> QED BY <2>1, <2>2
<1>11. Ranked(u, r, B)
  <2>1. ASSUME NEW m \in Nodes, NEW x \in Sides, u.child[m][x] # NULL PROVE r[u.child[m][x]] < r[m]
    <3>1. CASE t.child[m][x] = n
      <4>1. u.child[m][x] = c /\ c \in Nodes
        BY <1>0, <1>4, <2>1, <3>1
      <4>2. r[n] < r[m] /\ r[c] < r[n] /\ r[n] \in Nat /\ r[m] \in Nat /\ r[c] \in Nat
        BY <1>0, <1>1, <1>2, <3>1, <4>1 DEF Ranked
      <4> QED BY <4>1, <4>2
    <3>2. CASE t.child[m][x] # n
      <4>1. u.child[m][x] = t.child[m][x]
        BY <1>4, <2>1, <3>2
      <4> QED BY <1>1, <2>1, <4>1 DEF Ranked
    <3> QED BY <3>1, <3>2
  <2> QED BY <1>1, <2>1 DEF Ranked
<1> QED BY <1>4, <1>6, <1>7, <1>8, <1>9, <1>10, <1>11 DEF Shape, Links

(* Only a black leaf leaves a gap, where it hung. *)
LEMMA CutKeepsRules ==
  ASSUME NEW t, Shape(t), RedBlack(t, NULL, NULL, "left"), NEW n, NEW c, OneChild(t, n, c),
         NEW u, CutOut(t, u, n, c),
         NEW q, q = IF c = NULL /\ t.black[n] THEN t.up[n] ELSE NULL,
         NEW e, q # NULL => e \in Sides /\ t.child[q][e] = n
  PROVE  RedBlack(u, NULL, q, e) /\ (c # NULL => t.black[n])
<1>0. /\ TreeOK(t) /\ Links(t) /\ NULL \notin Nodes /\ n \in Nodes /\ c \in Pointer /\ In(t, n)
      /\ n # NULL /\ (c # NULL => c \in Nodes) /\ Colours(t, NULL)
  BY NullIsNoNode DEF Shape, OneChild, RedBlack, Pointer
<1>1. PICK h : Heights(t, h, NULL, "left")
  BY DEF RedBlack
<1>2. PICK d \in Sides : t.child[n][d] = c /\ t.child[n][Opposite(d)] = NULL
  BY DEF OneChild
<1>3. \A m \in Nodes, x \in Sides : /\ h[m] \in Nat /\ Below(t, h, m, x) \in Nat /\ Dark(t, m) \in {0, 1}
                                    /\ h[m] = Below(t, h, m, x) + Dark(t, m)
  <2>1. \A m \in Nodes, x \in Sides : Gap(NULL, "left", m, x) = 0 /\ Dark(t, m) \in {0, 1}
    BY <1>0 DEF Gap, Dark
  <2> TAKE m \in Nodes, x \in Sides
  <2>2. h[m] \in Nat /\ Below(t, h, m, x) \in Nat /\ h[m] = Below(t, h, m, x) + Gap(NULL, "left", m, x) + Dark(t, m)
    BY <1>1, HeightsAre
  <2> QED BY <2>1, <2>2
<1>4. Below(t, h, n, Opposite(d)) = 0 /\ h[n] = Dark(t, n) /\ Below(t, h, n, d) = 0
  <2>1. Below(t, h, n, Opposite(d)) = 0 /\ Opposite(d) \in Sides
    BY <1>2, SidesAre DEF Below
  <2>2. h[n] = 0 + Dark(t, n) /\ h[n] = Below(t, h, n, d) + Dark(t, n) /\ Dark(t, n) \in {0, 1} /\ Below(t, h, n, d) \in Nat
    BY <1>0, <1>3, <2>1
  <2> QED BY <2>1, <2>2
<1>5. c # NULL => /\ t.up[c] = n /\ c # n /\ ~t.black[c] /\ t.black[n] /\ h[c] = 0
                  /\ \A x \in Sides : t.child[c][x] # n /\ Below(t, h, c, x) = 0
  <2> SUFFICES ASSUME c # NULL
               PROVE  /\ t.up[c] = n /\ c # n /\ ~t.black[c] /\ t.black[n] /\ h[c] = 0
                      /\ \A x \in Sides : t.child[c][x] # n /\ Below(t, h, c, x) = 0
    OBVIOUS
  <2>1. t.up[c] = n /\ c \in Nodes
    BY <1>0, <1>2 DEF Links
  <2>2. PICK r, B : Ranked(t, r, B)
    BY DEF Shape
  <2>3. c # n /\ \A x \in Sides : t.child[c][x] # n
    BY <1>0, <1>2, <2>2, RankedApart
  <2>4. h[c] = 0
    BY <1>2, <1>4 DEF Below
  <2>5. \A x \in Sides : 0 = Below(t, h, c, x) + Dark(t, c) /\ Below(t, h, c, x) \in Nat /\ Dark(t, c) \in {0, 1}
    BY <1>3, <2>1, <2>4
  <2>6. Dark(t, c) = 0 /\ \A x \in Sides : Below(t, h, c, x) = 0
    BY <2>5 DEF Sides
  <2>7. ~t.black[c]
    BY <2>6 DEF Dark
  <2>8. t.black[n]
    BY <1>0, <2>1, <2>7 DEF Colours, In
  <2> QED BY <2>1, <2>3, <2>4, <2>6, <2>7, <2>8
<1>6. /\ \A m \in Nodes, x \in Sides :
           u.child[m][x] = IF m = n THEN NULL ELSE IF t.child[m][x] = n THEN c ELSE t.child[m][x]
      /\ \A m \in Nodes : u.up[m] = IF m = n THEN NULL ELSE IF m = c THEN t.up[n] ELSE t.up[m]
      /\ \A m \in Nodes : u.black[m] = IF m = n THEN FALSE ELSE IF m = c THEN t.black[n] ELSE t.black[m]
  BY DEF CutOut
<1>7. /\ ~u.black[n] /\ (c # NULL => u.black[c])
      /\ \A m \in Nodes : m \notin {n, c} => (u.black[m] <=> t.black[m])
  BY <1>0, <1>5, <1>6
<1>8. Colours(u, NULL)
  <2>1. ASSUME NEW m \in Nodes, In(u, m), ~u.black[m] PROVE u.up[m] # NULL /\ u.black[u.up[m]]
    <3>1. m \notin {n, c} /\ In(t, m)
      <4>1. m # n /\ In(t, m)
        BY <2>1, CutKeepsShape
      <4> QED BY <1>0, <1>7, <2>1, <4>1
    <3>2. u.up[m] = t.up[m] /\ ~t.black[m]
      BY <1>6, <1>7, <2>1, <3>1
    <3>3. t.up[m] # NULL /\ t.up[m] \in Nodes /\ t.black[t.up[m]]
      BY <1>0, <3>1, <3>2 DEF Colours, TreeOK, Pointer
    <3>4. t.up[m] # n
      BY <1>0, <1>2, <3>1, <3>3, SidesAre DEF Links
    <3>5. u.black[t.up[m]]
      BY <1>0, <1>7, <3>3, <3>4
    <3> QED BY <3>2, <3>3, <3>5
  <2> QED BY <2>1 DEF Colours
<1> DEFINE k == [m \in Nodes |-> IF m = n THEN 0 ELSE IF m = c THEN h[n] ELSE h[m]]
<1>9. k \in [Nodes -> Nat] /\ k[n] = 0 /\ (c # NULL => k[c] = h[n]) /\ \A m \in Nodes : m \notin {n, c} => k[m] = h[m]
  BY <1>0, <1>3, <1>5
<1> HIDE DEF k
<1>10. ASSUME NEW m \in Nodes, NEW x \in Sides
       PROVE  k[m] = Below(u, k, m, x) + Gap(q, e, m, x) + Dark(u, m)
  <2>0. t.up[n] # n
    <3>1. PICK r, B : Ranked(t, r, B)
      BY DEF Shape
    <3> QED BY <1>0, <3>1, RankedApart
  <2>1. CASE m = n
    <3>1. Below(u, k, m, x) = 0 /\ Dark(u, m) = 0 /\ Gap(q, e, m, x) = 0
      BY <1>0, <1>6, <1>7, <2>0, <2>1 DEF Below, Dark, Gap
    <3> QED BY <1>9, <2>1, <3>1
  <2>2. CASE m = c
    <3>0. c # NULL
      BY <1>0, <2>2
    <3>1. q = NULL
      BY <3>0
    <3>2. Gap(q, e, m, x) = 0 /\ Dark(u, m) = 1 /\ h[n] = 1
      BY <1>0, <1>4, <1>5, <1>7, <2>2, <3>0, <3>1 DEF Gap, Dark
    <3>3. t.child[c][x] # n /\ Below(t, h, c, x) = 0 /\ c # n
      BY <1>5, <3>0
    <3>4. u.child[c][x] = t.child[c][x]
      BY <1>6, <2>2, <3>3
    <3>5. Below(u, k, m, x) = 0
      <4> DEFINE y == t.child[c][x]
      <4>1. y \in Pointer /\ y # n /\ (y # NULL => t.up[y] = c)
        BY <1>0, <2>2, <3>3 DEF TreeOK, Links
      <4>2. y # c \/ y = NULL
        BY <1>5, <3>0, <4>1
      <4>3. y # NULL => k[y] = h[y]
        BY <1>9, <4>1, <4>2 DEF Pointer
      <4> QED BY <2>2, <3>3, <3>4, <4>3 DEF Below
    <3> QED BY <1>9, <2>2, <3>0, <3>2, <3>5
  <2>3. CASE m \notin {n, c}
    <3> DEFINE y == t.child[m][x]
    <3>0. /\ h[m] = Below(t, h, m, x) + Dark(t, m) /\ Below(t, h, m, x) \in Nat /\ k[m] = h[m]
          /\ Dark(u, m) = Dark(t, m) /\ Dark(t, m) \in {0, 1} /\ h[m] \in Nat
      BY <1>3, <1>7, <1>9, <2>3 DEF Dark
    <3>1. y \in Pointer /\ (y # NULL => t.up[y] = m)
      BY <1>0 DEF TreeOK, Links
    <3>2. CASE y # n
      <4>1. u.child[m][x] = y
        BY <1>6, <2>3, <3>2
      <4>2. y # c \/ y = NULL
        BY <1>5, <2>3, <3>1
      <4>3. y # NULL => k[y] = h[y]
        BY <1>9, <3>1, <3>2, <4>2 DEF Pointer
      <4>4. Below(u, k, m, x) = Below(t, h, m, x)
        BY <4>1, <4>3 DEF Below
      <4>5. Gap(q, e, m, x) = 0
        BY <1>0, <3>2 DEF Gap
      <4> QED BY <3>0, <4>4, <4>5
    <3>3. CASE y = n
      <4>1. u.child[m][x] = c /\ t.up[n] = m /\ Below(t, h, m, x) = h[n] /\ m # NULL
        BY <1>0, <1>6, <2>3, <3>1, <3>3 DEF Below
      <4>2. CASE c # NULL
        <5>1. Below(u, k, m, x) = h[n] /\ Gap(q, e, m, x) = 0
          BY <1>0, <1>9, <4>1, <4>2 DEF Below, Gap
        <5> QED BY <3>0, <4>1, <5>1
      <4>3. CASE c = NULL /\ t.black[n]
        <5>1. q = m /\ e \in Sides /\ t.child[m][e] = n
          BY <4>1, <4>3
        <5>2. e = x
          <6>1. x # e => Opposite(x) = e
            BY <5>1, SidesAre
          <6> QED BY <1>0, <3>3, <5>1, <6>1 DEF Links
        <5>3. Gap(q, e, m, x) = 1 /\ Below(u, k, m, x) = 0 /\ h[n] = 1
          BY <1>4, <4>1, <4>3, <5>1, <5>2 DEF Gap, Below, Dark
        <5> QED BY <3>0, <4>1, <5>3
      <4>4. CASE c = NULL /\ ~t.black[n]
        <5>1. Gap(q, e, m, x) = 0 /\ Below(u, k, m, x) = 0 /\ h[n] = 0
          BY <1>0, <1>4, <4>1, <4>4 DEF Gap, Below, Dark
        <5> QED BY <3>0, <4>1, <5>1
      <4> QED BY <4>2, <4>3, <4>4
    <3> QED BY <3>2, <3>3
  <2> QED BY <2>1, <2>2, <2>3
<1>11. Heights(u, k, q, e)
  BY <1>9, <1>10 DEF Heights
<1> QED BY <1>5, <1>8, <1>11 DEF RedBlack

(* s takes the place of n: a tree with two nodes exchanged. *)
Other(n, s, m) == IF m = n THEN s ELSE IF m = s THEN n ELSE m

Renamed(t, u, n, s) ==
    /\ TreeOK(u)
    /\ u.root = Other(n, s, t.root)
    /\ \A m \in Nodes, x \in Sides : u.child[m][x] = Other(n, s, t.child[Other(n, s, m)][x])
    /\ \A m \in Nodes : u.up[m] = Other(n, s, t.up[Other(n, s, m)])
    /\ \A m \in Nodes : u.black[m] = t.black[Other(n, s, m)]

(* Exchanging two nodes keeps a red-black tree. *)
LEMMA RenamedKeeps ==
  ASSUME NEW t, Shape(t), NEW n \in Nodes, NEW s \in Nodes, NEW u, Renamed(t, u, n, s),
         NEW q \in Pointer, NEW e, RedBlack(t, NULL, q, e)
  PROVE  /\ Shape(u) /\ RedBlack(u, NULL, Other(n, s, q), e)
         /\ \A m \in Nodes : In(u, m) <=> In(t, Other(n, s, m))
<1> DEFINE O(m) == Other(n, s, m)
<1>0. TreeOK(t) /\ Links(t) /\ NULL \notin Nodes
  BY NullIsNoNode DEF Shape
<1>1. /\ \A m \in Pointer : O(m) \in Pointer /\ O(O(m)) = m /\ (O(m) = NULL <=> m = NULL)
      /\ \A m \in Nodes : O(m) \in Nodes /\ O(O(m)) = m
      /\ O(NULL) = NULL /\ \A m \in Pointer : m = NULL \/ m \in Nodes
  BY <1>0 DEF Other, Pointer
<1>2. /\ TreeOK(u) /\ u.root = O(t.root)
      /\ \A m \in Nodes, x \in Sides : u.child[m][x] = O(t.child[O(m)][x])
      /\ \A m \in Nodes : u.up[m] = O(t.up[O(m)])
      /\ \A m \in Nodes : u.black[m] = t.black[O(m)]
  BY DEF Renamed
<1>3. /\ \A m \in Nodes, x \in Sides : t.child[m][x] \in Pointer
      /\ \A m \in Nodes : t.up[m] \in Pointer
      /\ t.root \in Pointer
  BY <1>0 DEF TreeOK
<1> HIDE DEF O
<1>4. \A m, y \in Pointer : O(m) = y <=> m = O(y)
  BY <1>1
<1>5. \A m \in Nodes : m \in Pointer
  BY DEF Pointer
<1>6. \A m \in Nodes : In(u, m) <=> In(t, O(m))
  <2> TAKE m \in Nodes
  <2>1. u.root = m <=> t.root = O(m)
    BY <1>2, <1>3, <1>4, <1>5
  <2>2. u.up[m] # NULL <=> t.up[O(m)] # NULL
    BY <1>1, <1>2, <1>3
  <2> QED BY <2>1, <2>2 DEF In
<1>7. Links(u)
  <2>1. ASSUME NEW m \in Nodes, NEW x \in Sides, u.child[m][x] # NULL
        PROVE  u.up[u.child[m][x]] = m /\ u.child[m][x] # u.child[m][Opposite(x)]
    <3> DEFINE y == t.child[O(m)][x]
               z == t.child[O(m)][Opposite(x)]
    <3>1. O(m) \in Nodes /\ Opposite(x) \in Sides /\ y \in Pointer /\ z \in Pointer
      BY <1>1, <1>3, SidesAre
    <3>2. u.child[m][x] = O(y) /\ u.child[m][Opposite(x)] = O(z)
      BY <1>2, <3>1
    <3>3. y # NULL
      BY <1>1, <2>1, <3>2
    <3>4. t.up[y] = O(m) /\ y # z /\ y \in Nodes
      BY <1>0, <1>1, <3>1, <3>3 DEF Links
    <3> HIDE DEF y, z
    <3>5. O(y) # O(z)
      BY <1>1, <3>1, <3>4
    <3>6. O(y) \in Nodes /\ O(O(y)) = y
      BY <1>1, <3>4
    <3>7. u.up[O(y)] = O(t.up[y])
      BY <1>2, <3>6
    <3> QED BY <1>1, <3>2, <3>4, <3>5, <3>7
  <2>2. ASSUME NEW m \in Nodes, u.up[m] # NULL PROVE \E x \in Sides : u.child[u.up[m]][x] = m
    <3> DEFINE p == t.up[O(m)]
    <3>1. O(m) \in Nodes /\ p \in Pointer /\ u.up[m] = O(p)
      BY <1>1, <1>2, <1>3
    <3>2. p # NULL /\ p \in Nodes
      BY <1>1, <2>2, <3>1
    <3>3. PICK x \in Sides : t.child[p][x] = O(m)
      BY <1>0, <3>1, <3>2 DEF Links
    <3> HIDE DEF p
    <3>4. O(p) \in Nodes /\ O(O(p)) = p /\ O(O(m)) = m
      BY <1>1, <3>2
    <3>5. u.child[O(p)][x] = m
      BY <1>2, <3>3, <3>4
    <3> QED BY <3>1, <3>5
  <2>3. u.root # NULL => u.up[u.root] = NULL
    <3> SUFFICES ASSUME u.root # NULL PROVE u.up[u.root] = NULL
      OBVIOUS
    <3>1. t.root # NULL /\ t.root \in Nodes
      BY <1>1, <1>2, <1>3
    <3>2. O(t.root) \in Nodes /\ O(O(t.root)) = t.root /\ t.up[t.root] = NULL
      BY <1>0, <1>1, <3>1 DEF Links
    <3> QED BY <1>1, <1>2, <3>2
  <2>4. ASSUME NEW m \in Nodes, ~In(u, m), NEW x \in Sides PROVE u.child[m][x] = NULL
    <3>1. O(m) \in Nodes /\ ~In(t, O(m))
      BY <1>1, <1>6, <2>4
    <3>2. t.child[O(m)][x] = NULL
      BY <1>0, <3>1 DEF Links
    <3> QED BY <1>1, <1>2, <3>2
  <2> QED BY <2>1, <2>2, <2>3, <2>4 DEF Links
<1>8. \E r, B : Ranked(u, r, B)
  <2>1. PICK r, B : Ranked(t, r, B)
    BY DEF Shape
  <2> DEFINE k == [m \in Nodes |-> r[O(m)]]
  <2>2. k \in [Nodes -> 0 .. B] /\ B \in Nat
    BY <1>1, <2>1 DEF Ranked
  <2>3. ASSUME NEW m \in Nodes, NEW x \in Sides, u.child[m][x] # NULL PROVE k[u.child[m][x]] < k[m]
    <3> DEFINE y == t.child[O(m)][x]
    <3>1. O(m) \in Nodes /\ y \in Pointer /\ u.child[m][x] = O(y)
      BY <1>1, <1>2, <1>3
    <3>2. y \in Nodes /\ y # NULL
      BY <1>1, <2>3, <3>1
    <3>3. r[y] < r[O(m)]
      BY <2>1, <3>1, <3>2 DEF Ranked
    <3> HIDE DEF y
    <3>4. O(y) \in Nodes /\ O(O(y)) = y
      BY <1>1, <3>2
    <3> QED BY <3>1, <3>3, <3>4
  <2> HIDE DEF k
  <2>4. Ranked(u, k, B)
    BY <2>2, <2>3 DEF Ranked
  <2> QED BY <2>4
<1>9. Colours(u, NULL)
  <2>1. ASSUME NEW m \in Nodes, In(u, m), ~u.black[m] PROVE u.up[m] # NULL /\ u.black[u.up[m]]
    <3>1. O(m) \in Nodes /\ In(t, O(m)) /\ ~t.black[O(m)] /\ O(m) # NULL
      BY <1>0, <1>1, <1>2, <1>6, <2>1
    <3>2. t.up[O(m)] # NULL /\ t.black[t.up[O(m)]] /\ t.up[O(m)] \in Nodes
      BY <1>1, <1>3, <3>1 DEF RedBlack, Colours
    <3>3. u.up[m] = O(t.up[O(m)])
      BY <1>2
    <3>4. u.up[m] \in Nodes /\ O(u.up[m]) = t.up[O(m)]
      BY <1>1, <3>2, <3>3
    <3> QED BY <1>0, <1>2, <3>2, <3>4
  <2> QED BY <2>1 DEF Colours
<1>10. \E k : Heights(u, k, O(q), e)
  <2>1. PICK h : Heights(t, h, q, e)
    BY DEF RedBlack
  <2> DEFINE k == [m \in Nodes |-> h[O(m)]]
  <2>2. k \in [Nodes -> Nat] /\ \A m \in Nodes : k[m] = h[O(m)]
    BY <1>1, <2>1 DEF Heights
  <2> HIDE DEF k
  <2>3. ASSUME NEW m \in Nodes, NEW x \in Sides
        PROVE  k[m] = Below(u, k, m, x) + Gap(O(q), e, m, x) + Dark(u, m)
    <3>1. O(m) \in Nodes /\ k[m] = h[O(m)]
      BY <1>1, <2>2
    <3>2. h[O(m)] = Below(t, h, O(m), x) + Gap(q, e, O(m), x) + Dark(t, O(m))
      BY <2>1, <3>1 DEF Heights
    <3>3. Dark(u, m) = Dark(t, O(m))
      BY <1>2 DEF Dark
    <3>4. Gap(O(q), e, m, x) = Gap(q, e, O(m), x)
      <4>1. O(q) = m <=> q = O(m)
        BY <1>1, <1>5
      <4> QED BY <4>1 DEF Gap
    <3>5. Below(u, k, m, x) = Below(t, h, O(m), x)
      <4> DEFINE y == t.child[O(m)][x]
      <4>1. y \in Pointer /\ u.child[m][x] = O(y)
        BY <1>2, <1>3, <3>1
      <4>2. CASE y = NULL
        BY <1>1, <4>1, <4>2 DEF Below
      <4>3. CASE y # NULL
        <5>1. y \in Nodes /\ O(y) \in Nodes /\ O(O(y)) = y /\ O(y) # NULL
          BY <1>0, <1>1, <4>1, <4>3
        <5>2. k[O(y)] = h[y]
          BY <2>2, <5>1
        <5> QED BY <4>1, <4>3, <5>1, <5>2 DEF Below
      <4> QED BY <4>2, <4>3
    <3> QED BY <3>1, <3>2, <3>3, <3>4, <3>5
  <2>4. Heights(u, k, O(q), e)
    BY <2>2, <2>3 DEF Heights
  <2> QED BY <2>4
<1> QED BY <1>2, <1>6, <1>7, <1>8, <1>9, <1>10 DEF Shape, RedBlack, O

Cleared(t, u, n) ==
    /\ TreeOK(u) /\ u.root = t.root
    /\ \A m \in Nodes, x \in Sides : u.child[m][x] = IF m = n THEN NULL ELSE t.child[m][x]
    /\ \A m \in Nodes : u.up[m] = IF m = n THEN NULL ELSE t.up[m]
    /\ \A m \in Nodes : u.black[m] = IF m = n THEN FALSE ELSE t.black[m]

(* A removed node keeps no parent and no children. *)
LEMMA DetachedIs ==
  ASSUME NEW t, TreeOK(t), NEW n \in Nodes
  PROVE  Cleared(t, Detached(t, n), n)
<1> DEFINE u == Detached(t, n)
<1>1. TreeOK(u) /\ u.root = t.root
  BY DEF TreeOK, Detached, Pointer
<1>2. \A m \in Nodes, x \in Sides : u.child[m][x] = IF m = n THEN NULL ELSE t.child[m][x]
  BY DEF TreeOK, Detached
<1>3. \A m \in Nodes : u.up[m] = IF m = n THEN NULL ELSE t.up[m]
  BY DEF TreeOK, Detached
<1>4. \A m \in Nodes : u.black[m] = IF m = n THEN FALSE ELSE t.black[m]
  BY DEF TreeOK, Detached
<1> QED BY <1>1, <1>2, <1>3, <1>4 DEF Cleared

(* The C code's test for a node with at most one child. *)
LEMMA LeafwardIs ==
  ASSUME NEW t, Shape(t), NEW n \in Nodes, In(t, n), NULL \in {t.child[n].left, t.child[n].right}
  PROVE  LET e == EraseLeafward(t, n)
         IN  \E c : /\ OneChild(t, n, c) /\ CutOut(t, Detached(e.tree, n), n, c)
                    /\ e.rebalance = IF c = NULL /\ t.black[n] THEN t.up[n] ELSE NULL
<1> DEFINE c == IF t.child[n].left = NULL THEN t.child[n].right ELSE t.child[n].left
           f == t.up[n]
           v == rb_change_child(t, n, c, f)
           w == SetIfAny(v, c, f, t.black[n])
           u == Detached(w, n)
           e == EraseLeafward(t, n)
<1>0. TreeOK(t) /\ Links(t) /\ NULL \notin Nodes /\ f \in Pointer /\ t.black[n] \in BOOLEAN
  BY NullIsNoNode DEF Shape, TreeOK
<1>1. t.child[n].left = t.child[n]["left"] /\ t.child[n].right = t.child[n]["right"]
  BY <1>0 DEF TreeOK
<1>2. OneChild(t, n, c)
  <2>1. CASE t.child[n].left = NULL
    BY <1>0, <1>1, <2>1 DEF OneChild, Sides, Opposite, TreeOK
  <2>2. CASE t.child[n].left # NULL
    BY <1>0, <1>1, <2>2 DEF OneChild, Sides, Opposite, TreeOK
  <2> QED BY <2>1, <2>2
<1>3. c \in Pointer /\ HangsFrom(t, n, f)
  BY <1>0, <1>2, HangsOnce DEF OneChild
<1>4. e.tree = w /\ e.rebalance = IF c = NULL /\ t.black[n] THEN f ELSE NULL
  BY DEF EraseLeafward
<1>5. (t.root = n <=> f = NULL) /\ c # n
  <2>1. PICK r, B : Ranked(t, r, B)
    BY DEF Shape
  <2>2. c # n
    BY <1>0, <1>2, <2>1, RankedApart DEF OneChild
  <2> QED BY <1>0, <2>2 DEF In, Links
<1>6. \A m \in Nodes, x \in Sides : t.child[m][x] = n => m = f
  BY <1>0 DEF Links
<1> HIDE DEF c, e
<1>7. Replaced(t, v, n, c, f)
  BY <1>0, <1>3, ChangeChildIs
<1> HIDE DEF v
<1>8. Painted(v, w, c, f, t.black[n])
  <2>1. TreeOK(v)
    BY <1>7 DEF Replaced
  <2> QED BY <1>0, <1>3, <2>1, SetIfAnyIs
<1> HIDE DEF w
<1>9. Cleared(w, u, n)
  <2>1. TreeOK(w)
    BY <1>8 DEF Painted
  <2> QED BY <2>1, DetachedIs
<1> HIDE DEF u
<1>10. CutOut(t, u, n, c)
  <2>1. TreeOK(u) /\ u.root = IF t.root = n THEN c ELSE t.root
    BY <1>5, <1>7, <1>8, <1>9 DEF Replaced, Painted, Cleared
  <2>2. \A m \in Nodes, x \in Sides :
         u.child[m][x] = IF m = n THEN NULL ELSE IF t.child[m][x] = n THEN c ELSE t.child[m][x]
    BY <1>6, <1>7, <1>8, <1>9 DEF Replaced, Painted, Cleared
  <2>3. \A m \in Nodes : u.up[m] = IF m = n THEN NULL ELSE IF m = c THEN f ELSE t.up[m]
    BY <1>7, <1>8, <1>9 DEF Replaced, Painted, Cleared
  <2>4. \A m \in Nodes : u.black[m] = IF m = n THEN FALSE ELSE IF m = c THEN t.black[n] ELSE t.black[m]
    BY <1>7, <1>8, <1>9 DEF Replaced, Painted, Cleared
  <2> QED BY <2>1, <2>2, <2>3, <2>4 DEF CutOut
<1>11. /\ OneChild(t, n, c) /\ CutOut(t, Detached(e.tree, n), n, c)
       /\ e.rebalance = IF c = NULL /\ t.black[n] THEN t.up[n] ELSE NULL
  BY <1>2, <1>4, <1>10 DEF u
<1> QED BY <1>11 DEF e

(* The successor s of n and its right child c leave their places. *)
Successor(t, n, s, c) ==
    /\ s \in Nodes /\ s # n /\ In(t, s) /\ c = t.child[s]["right"] /\ c \in Pointer
    /\ t.child[s]["left"] = NULL
    /\ IF s = t.child[n]["right"] THEN t.up[s] = n
       ELSE t.up[s] \in Nodes /\ t.up[s] # n /\ t.child[t.up[s]]["left"] = s /\ t.up[s] # s
    /\ t.up[n] # s /\ t.up[n] # t.up[s]

(* The first node on the right has no left child, and is below n. *)
LEMMA SuccessorIs ==
  ASSUME NEW t, Shape(t), NEW n \in Nodes, t.child[n]["right"] # NULL
  PROVE  LET s == Farthest(t, t.child[n]["right"], "left")
         IN  Successor(t, n, s, t.child[s]["right"])
<1> DEFINE m == t.child[n]["right"]
           s == Farthest(t, m, "left")
<1>0. TreeOK(t) /\ Links(t) /\ NULL \notin Nodes /\ "left" \in Sides /\ "right" \in Sides
  BY NullIsNoNode DEF Shape, Sides
<1>1. PICK r, B : Ranked(t, r, B)
  BY DEF Shape
<1>2. m \in Nodes /\ t.up[m] = n /\ r[m] < r[n] /\ r[m] \in Nat /\ r[n] \in Nat
  BY <1>0, <1>1 DEF TreeOK, Pointer, Links, Ranked
<1>3. t.child[n]["right"] = m
  OBVIOUS
<1> HIDE DEF m
<1>4. Last(t, r, m, s, "left")
  BY <1>0, <1>1, <1>2, FarthestIs
<1> HIDE DEF s
<1>5. s \in Nodes /\ t.child[s]["left"] = NULL /\ t.child[s]["right"] \in Pointer
  BY <1>0, <1>4 DEF Last, TreeOK
<1>a. t.up[n] # n /\ (t.up[n] # NULL => r[n] < r[t.up[n]] /\ t.up[n] \in Nodes /\ r[t.up[n]] \in Nat)
  <2>1. t.up[n] # n /\ (t.up[n] # NULL => r[n] < r[t.up[n]])
    BY <1>0, <1>1, RankedApart
  <2>2. t.up[n] # NULL => t.up[n] \in Nodes
    BY <1>0 DEF TreeOK, Pointer
  <2>3. \A k \in Nodes : r[k] \in Nat
    BY <1>1 DEF Ranked
  <2> QED BY <2>1, <2>2, <2>3
<1>6. CASE s = m
  <2>1. s # n
    BY <1>2, <1>6
  <2>2. t.up[n] # s /\ t.up[n] # t.up[s]
    BY <1>0, <1>2, <1>5, <1>6, <1>a
  <2> QED BY <1>0, <1>2, <1>3, <1>5, <1>6, <2>1, <2>2 DEF Successor, In, s, m
<1>7. CASE s # m
  <2>1. t.up[s] \in Nodes /\ t.child[t.up[s]]["left"] = s /\ r[s] < r[t.up[s]] /\ r[t.up[s]] <= r[m]
    BY <1>4, <1>7 DEF Last
  <2>2. r[s] \in Nat /\ r[t.up[s]] \in Nat
    BY <1>1, <1>5, <2>1 DEF Ranked
  <2>3. s # n /\ t.up[s] # n /\ t.up[s] # s
    BY <1>2, <2>1, <2>2
  <2>4. t.up[n] # s /\ t.up[n] # t.up[s]
    BY <1>0, <1>2, <1>5, <2>1, <2>2, <1>a
  <2> QED BY <1>0, <1>3, <1>5, <1>7, <2>1, <2>3, <2>4 DEF Successor, In, s, m
<1> QED BY <1>6, <1>7

(* What __rb_erase_augmented writes for a node with two children. *)
InnerCut(t, u, n, s, c, q) ==
    /\ TreeOK(u)
    /\ u.root = IF t.up[n] = NULL THEN s ELSE t.root
    /\ \A m \in Nodes, x \in Sides :
         u.child[m][x] = IF m = n THEN NULL
                         ELSE IF m = s THEN (IF x = "left" THEN t.child[n]["left"]
                                             ELSE IF s = t.child[n]["right"] THEN c ELSE t.child[n]["right"])
                         ELSE IF m = q /\ x = "left" THEN c
                         ELSE IF t.child[m][x] = n THEN s ELSE t.child[m][x]
    /\ \A m \in Nodes : u.up[m] = IF m = n THEN NULL ELSE IF m = s THEN t.up[n] ELSE IF m = c THEN q
                                  ELSE IF m \in {t.child[n]["left"], t.child[n]["right"]} THEN s ELSE t.up[m]
    /\ \A m \in Nodes : u.black[m] = IF m = n THEN FALSE ELSE IF m = s THEN t.black[n]
                                     ELSE IF m = c THEN TRUE ELSE t.black[m]

FirstMoves(t, u, n, s, c, q) ==
    LET right == t.child[n]["right"] IN
    /\ TreeOK(u) /\ u.root = t.root /\ u.black = t.black
    /\ \A m \in Nodes, x \in Sides :
         u.child[m][x] = IF s # right /\ m = s /\ x = "right" THEN right
                         ELSE IF s # right /\ m = q /\ x = "left" THEN c ELSE t.child[m][x]
    /\ \A m \in Nodes : u.up[m] = IF s # right /\ m = right THEN s ELSE t.up[m]

(* EraseInner does what InnerCut says. *)
LEMMA InnerCutIs ==
  ASSUME NEW t, Shape(t), NEW n \in Nodes, In(t, n),
         t.child[n]["left"] # NULL, t.child[n]["right"] # NULL
  PROVE  LET e == EraseInner(t, n)
         IN  \E s, c, q : /\ s = Farthest(t, t.child[n]["right"], "left") /\ Successor(t, n, s, c)
                          /\ q = IF s = t.child[n]["right"] THEN s ELSE t.up[s]
                          /\ InnerCut(t, Detached(e.tree, n), n, s, c, q)
                          /\ e.rebalance = IF c = NULL /\ t.black[s] THEN q ELSE NULL
<1> DEFINE right == t.child[n]["right"]
           left == t.child[n]["left"]
           s == Farthest(t, right, "left")
           c == t.child[s]["right"]
           q == IF s = right THEN s ELSE t.up[s]
           f == t.up[n]
           t1 == IF s = right THEN t
                 ELSE rb_set_parent(Linked(Linked(t, q, "left", c), s, "right", right), right, s)
           a == Linked(t1, s, "left", left)
           t2 == rb_set_parent(a, left, s)
           b == rb_change_child(t2, n, s, f)
           t3 == SetIfAny(b, c, q, TRUE)
           w == rb_set_parent_color(t3, s, f, t.black[n])
           u == Detached(w, n)
           e == EraseInner(t, n)
<1>0. /\ TreeOK(t) /\ Links(t) /\ NULL \notin Nodes /\ "left" \in Sides /\ "right" \in Sides
      /\ t.black[n] \in BOOLEAN /\ f \in Pointer
  BY NullIsNoNode DEF Shape, Sides, TreeOK
<1>1. t.child[n].left = left /\ t.child[n].right = right /\ left \in Nodes /\ right \in Nodes
  BY <1>0 DEF TreeOK, Pointer
<1>2. Successor(t, n, s, c)
  BY SuccessorIs
<1>3. t.child[s].right = c
  <2>1. s \in Nodes
    BY <1>2 DEF Successor
  <2> QED BY <1>0, <2>1 DEF TreeOK
<1>4. e.tree = w /\ e.rebalance = IF c = NULL /\ t.black[s] THEN q ELSE NULL
  BY <1>1, <1>3 DEF EraseInner
<1>5. /\ s \in Nodes /\ s # n /\ c \in Pointer /\ q \in Nodes /\ q # n /\ f # s /\ f # t.up[s] /\ c # n /\ c # s
      /\ s # NULL /\ n # NULL /\ (s # right => q # s /\ q = t.up[s])
  <2>1. s \in Nodes /\ s # n /\ c \in Pointer /\ f # s /\ f # t.up[s] /\ (c # NULL => t.up[c] = s)
    BY <1>0, <1>2 DEF Successor, Links
  <2>2. q \in Nodes /\ q # n /\ (s # right => q # s /\ q = t.up[s])
    BY <1>2, <2>1 DEF Successor
  <2>3. c # n /\ c # s
    <3>1. PICK r, B : Ranked(t, r, B)
      BY DEF Shape
    <3>2. \A m \in Nodes : t.up[m] # m
      BY <1>0, <3>1, RankedApart
    <3> QED BY <1>0, <2>1, <3>2
  <2> QED BY <1>0, <2>1, <2>2, <2>3
<1>6. /\ left # right /\ t.up[left] = n /\ t.up[right] = n /\ left # n /\ right # n /\ left # s /\ left # c /\ right # c
      /\ f # n
  <2>1. left # right /\ t.up[left] = n /\ t.up[right] = n
    BY <1>0, <1>1 DEF Links, Opposite
  <2>2. PICK r, B : Ranked(t, r, B)
    BY DEF Shape
  <2>3. \A m \in Nodes : t.up[m] # m
    BY <1>0, <2>2, RankedApart
  <2>4. left # s
    <3>1. s # right => t.up[s] # n
      BY <1>2 DEF Successor
    <3> QED BY <2>1, <3>1
  <2>5. c # NULL => t.up[c] = s
    BY <1>0, <1>5 DEF Links
  <2> QED BY <1>0, <1>1, <1>5, <2>1, <2>3, <2>4, <2>5
<1>7. (t.root = n <=> f = NULL) /\ (\A m \in Nodes, x \in Sides : t.child[m][x] = n => m = f)
  BY <1>0, <1>5 DEF In, Links
<1>8. HangsFrom(t, n, f)
  BY <1>0, HangsOnce
<1>9. t.child[n]["right"] = right /\ t.child[n]["left"] = left /\ t.child[s]["right"] = c
  OBVIOUS
<1> HIDE DEF right, left, s, c, q, f, e
<1>10. FirstMoves(t, t1, n, s, c, q)
  <2>1. CASE s = right
    BY <1>0, <1>9, <2>1 DEF FirstMoves
  <2>2. CASE s # right
    <3> DEFINE x1 == Linked(t, q, "left", c)
               x2 == Linked(x1, s, "right", right)
               x3 == rb_set_parent(x2, right, s)
    <3>1. LinkedTo(t, x1, q, "left", c)
      BY <1>0, <1>5, LinkedIs
    <3> HIDE DEF x1
    <3>2. TreeOK(x1)
      BY <3>1 DEF LinkedTo
    <3>3. LinkedTo(x1, x2, s, "right", right)
      BY <1>0, <1>1, <1>5, <3>2, LinkedIs DEF Pointer
    <3> HIDE DEF x2
    <3>4. TreeOK(x2)
      BY <3>3 DEF LinkedTo
    <3>5. Moved(x2, x3, right, s)
      BY <1>1, <1>5, <3>4, SetParentIs DEF Pointer
    <3> HIDE DEF x3
    <3>6. t1 = x3
      BY <2>2 DEF x3, x2, x1
    <3>7. /\ TreeOK(x3) /\ x3.root = t.root /\ x3.black = t.black
          /\ \A m \in Nodes : x3.up[m] = IF m = right THEN s ELSE t.up[m]
      BY <3>1, <3>3, <3>5 DEF LinkedTo, Moved
    <3>8. \A m \in Nodes, x \in Sides :
             x3.child[m][x] = IF m = s /\ x = "right" THEN right
                              ELSE IF m = q /\ x = "left" THEN c ELSE t.child[m][x]
      BY <3>1, <3>3, <3>5 DEF LinkedTo, Moved
    <3> QED BY <1>9, <2>2, <3>6, <3>7, <3>8 DEF FirstMoves
  <2> QED BY <2>1, <2>2
<1> HIDE DEF t1
<1>11. LinkedTo(t1, a, s, "left", left)
  <2>1. TreeOK(t1)
    BY <1>10 DEF FirstMoves
  <2> QED BY <1>0, <1>1, <1>5, <2>1, LinkedIs DEF Pointer
<1> HIDE DEF a
<1>12. Moved(a, t2, left, s)
  <2>1. TreeOK(a)
    BY <1>11 DEF LinkedTo
  <2> QED BY <1>1, <1>5, <2>1, SetParentIs DEF Pointer
<1> HIDE DEF t2
<1>13. /\ TreeOK(t2) /\ t2.root = t.root /\ t2.black = t.black
       /\ \A m \in Nodes : t2.up[m] = IF m = left \/ (s # right /\ m = right) THEN s ELSE t.up[m]
       /\ \A m \in Nodes, x \in Sides :
            t2.child[m][x] = IF m = s /\ x = "left" THEN left
                             ELSE IF s # right /\ m = s /\ x = "right" THEN right
                             ELSE IF s # right /\ m = q /\ x = "left" THEN c ELSE t.child[m][x]
  <2>1. /\ TreeOK(t2) /\ t2.root = t.root /\ t2.black = t.black
    BY <1>10, <1>11, <1>12 DEF FirstMoves, LinkedTo, Moved
  <2>2. \A m \in Nodes : t2.up[m] = IF m = left \/ (s # right /\ m = right) THEN s ELSE t.up[m]
    <3> TAKE m \in Nodes
    <3>1. t2.up[m] = IF m = left THEN s ELSE t1.up[m]
      BY <1>11, <1>12 DEF LinkedTo, Moved
    <3>2. t1.up[m] = IF s # right /\ m = right THEN s ELSE t.up[m]
      BY <1>9, <1>10 DEF FirstMoves
    <3> QED BY <3>1, <3>2
  <2>3. \A m \in Nodes, x \in Sides :
            t2.child[m][x] = IF m = s /\ x = "left" THEN left
                             ELSE IF s # right /\ m = s /\ x = "right" THEN right
                             ELSE IF s # right /\ m = q /\ x = "left" THEN c ELSE t.child[m][x]
    <3> TAKE m \in Nodes, x \in Sides
    <3>1. t2.child[m][x] = IF m = s /\ x = "left" THEN left ELSE t1.child[m][x]
      BY <1>11, <1>12 DEF LinkedTo, Moved
    <3>2. t1.child[m][x] = IF s # right /\ m = s /\ x = "right" THEN right
                           ELSE IF s # right /\ m = q /\ x = "left" THEN c ELSE t.child[m][x]
      BY <1>9, <1>10 DEF FirstMoves
    <3> QED BY <3>1, <3>2
  <2> QED BY <2>1, <2>2, <2>3
<1>14. HangsFrom(t2, n, f)
  <2> SUFFICES ASSUME f # NULL PROVE \E d \in Sides : t2.child[f][d] = n /\ t2.child[f][Opposite(d)] # n
    BY DEF HangsFrom
  <2>1. PICK d \in Sides : t.child[f][d] = n /\ t.child[f][Opposite(d)] # n
    BY <1>8 DEF HangsFrom
  <2>2. f \in Nodes /\ Opposite(d) \in Sides
    BY <1>0, SidesAre DEF Pointer
  <2>3. s # right => f # q
    BY <1>5
  <2> QED BY <1>5, <1>13, <2>1, <2>2, <2>3
<1>15. Replaced(t2, b, n, s, f)
  BY <1>0, <1>5, <1>13, <1>14, ChangeChildIs DEF Pointer
<1> HIDE DEF b
<1>16. Painted(b, t3, c, q, TRUE)
  <2>1. TreeOK(b)
    BY <1>15 DEF Replaced
  <2> QED BY <1>5, <2>1, SetIfAnyIs DEF Pointer
<1> HIDE DEF t3
<1>17. Painted(t3, w, s, f, t.black[n])
  <2>1. TreeOK(t3)
    BY <1>16 DEF Painted
  <2> QED BY <1>0, <1>5, <2>1, PaintedIs DEF Pointer
<1> HIDE DEF w
<1>18. Cleared(w, u, n)
  <2>1. TreeOK(w)
    BY <1>17 DEF Painted
  <2> QED BY <2>1, DetachedIs
<1> HIDE DEF u
<1>19. TreeOK(u) /\ u.root = IF f = NULL THEN s ELSE t.root
  BY <1>13, <1>15, <1>16, <1>17, <1>18 DEF Replaced, Painted, Cleared
<1>20. ASSUME NEW m \in Nodes, NEW x \in Sides
       PROVE  u.child[m][x] = IF m = n THEN NULL
                              ELSE IF m = s THEN (IF x = "left" THEN left ELSE IF s = right THEN c ELSE right)
                              ELSE IF m = q /\ x = "left" THEN c
                              ELSE IF t.child[m][x] = n THEN s ELSE t.child[m][x]
  <2>1. u.child[m][x] = IF m = n THEN NULL ELSE b.child[m][x]
    BY <1>16, <1>17, <1>18 DEF Painted, Cleared
  <2>2. b.child[m][x] = IF m = f /\ t2.child[m][x] = n THEN s ELSE t2.child[m][x]
    BY <1>15 DEF Replaced
  <2>3. x = "left" \/ x = "right"
    BY DEF Sides
  <2>4. CASE m = s
    BY <1>5, <1>9, <1>13, <2>1, <2>2, <2>3, <2>4
  <2>5. CASE m # s /\ m = q
    <3>1. s # right
      BY <2>5 DEF q
    <3>2. m # f
      BY <1>5, <2>5, <3>1
    <3> QED BY <1>5, <1>7, <1>13, <2>1, <2>2, <2>3, <2>5, <3>1, <3>2
  <2>6. CASE m # s /\ m # q
    BY <1>5, <1>7, <1>13, <2>1, <2>2, <2>6
  <2> QED BY <2>4, <2>5, <2>6
<1>21. ASSUME NEW m \in Nodes
       PROVE  u.up[m] = IF m = n THEN NULL ELSE IF m = s THEN f ELSE IF m = c THEN q
                        ELSE IF m \in {left, right} THEN s ELSE t.up[m]
  <2>1. u.up[m] = IF m = n THEN NULL ELSE IF m = s THEN f ELSE IF m = c THEN q ELSE t2.up[m]
    BY <1>15, <1>16, <1>17, <1>18 DEF Replaced, Painted, Cleared
  <2> QED BY <1>13, <2>1
<1>22. ASSUME NEW m \in Nodes
       PROVE  u.black[m] = IF m = n THEN FALSE ELSE IF m = s THEN t.black[n] ELSE IF m = c THEN TRUE ELSE t.black[m]
  <2>1. b.black[m] = t.black[m]
    BY <1>13, <1>15 DEF Replaced
  <2>2. t3.black[m] = IF m = c THEN TRUE ELSE b.black[m]
    BY <1>16 DEF Painted
  <2>3. w.black[m] = IF m = s THEN t.black[n] ELSE t3.black[m]
    BY <1>17 DEF Painted
  <2>4. u.black[m] = IF m = n THEN FALSE ELSE w.black[m]
    BY <1>18 DEF Cleared
  <2> QED BY <2>1, <2>2, <2>3, <2>4
<1>23. InnerCut(t, u, n, s, c, q)
  BY <1>9, <1>19, <1>20, <1>21, <1>22, ZenonT(60) DEF InnerCut, f
<1>24. Detached(e.tree, n) = u
  BY <1>4 DEF u
<1>25. q = IF s = t.child[n]["right"] THEN s ELSE t.up[s]
  BY <1>9 DEF q
<1>27. s = Farthest(t, t.child[n]["right"], "left")
  BY DEF s, right
<1>26. /\ s = Farthest(t, t.child[n]["right"], "left") /\ Successor(t, n, s, c)
       /\ q = IF s = t.child[n]["right"] THEN s ELSE t.up[s]
       /\ InnerCut(t, Detached(e.tree, n), n, s, c, q)
       /\ e.rebalance = IF c = NULL /\ t.black[s] THEN q ELSE NULL
  BY <1>2, <1>4, <1>23, <1>24, <1>25, <1>27
<1> QED BY <1>26 DEF e

(* The successor leaves its place, then takes the one of n. *)
Cut(t, s, c) ==
    [root |-> IF t.root = s THEN c ELSE t.root,
     child |-> [m \in Nodes |-> [x \in Sides |->
                  IF m = s THEN NULL ELSE IF t.child[m][x] = s THEN c ELSE t.child[m][x]]],
     up |-> [m \in Nodes |-> IF m = s THEN NULL ELSE IF m = c THEN t.up[s] ELSE t.up[m]],
     black |-> [m \in Nodes |-> IF m = s THEN FALSE ELSE IF m = c THEN t.black[s] ELSE t.black[m]]]

(* The cut as a function cuts the node out. *)
LEMMA CutIsCutOut ==
  ASSUME NEW t, TreeOK(t), NEW s \in Nodes, NEW c \in Pointer
  PROVE  CutOut(t, Cut(t, s, c), s, c)
<1> DEFINE v == Cut(t, s, c)
<1>1. v.root = IF t.root = s THEN c ELSE t.root
  BY DEF Cut
<1>2. \A m \in Nodes, x \in Sides :
         v.child[m][x] = IF m = s THEN NULL ELSE IF t.child[m][x] = s THEN c ELSE t.child[m][x]
  BY DEF Cut
<1>3. \A m \in Nodes : v.up[m] = IF m = s THEN NULL ELSE IF m = c THEN t.up[s] ELSE t.up[m]
  BY DEF Cut
<1>4. \A m \in Nodes : v.black[m] = IF m = s THEN FALSE ELSE IF m = c THEN t.black[s] ELSE t.black[m]
  BY DEF Cut
<1>5. TreeOK(v)
  <2>1. /\ \A m \in Nodes, x \in Sides : t.child[m][x] \in Pointer
        /\ \A m \in Nodes : t.up[m] \in Pointer /\ t.black[m] \in BOOLEAN
        /\ t.root \in Pointer /\ NULL \in Pointer
    BY DEF TreeOK, Pointer
  <2>2. v.child \in [Nodes -> [Sides -> Pointer]]
    BY <2>1 DEF Cut
  <2>3. v.up \in [Nodes -> Pointer]
    BY <2>1 DEF Cut
  <2>4. v.black \in [Nodes -> BOOLEAN]
    BY <2>1 DEF Cut
  <2>5. v.root \in Pointer
    BY <2>1 DEF Cut
  <2>6. v = [root |-> v.root, child |-> v.child, up |-> v.up, black |-> v.black]
    BY DEF Cut
  <2> HIDE DEF v
  <2> QED BY <2>2, <2>3, <2>4, <2>5, <2>6 DEF TreeOK
<1> QED BY <1>1, <1>2, <1>3, <1>4, <1>5 DEF CutOut

(* A removal with two children is the cut of the successor, renamed. *)
LEMMA InnerCutRenames ==
  ASSUME NEW t, Shape(t), NEW n \in Nodes, In(t, n), NEW s, NEW c, Successor(t, n, s, c),
         t.child[n]["left"] # NULL, t.child[n]["right"] # NULL, c # NULL => t.black[s],
         NEW q, q = IF s = t.child[n]["right"] THEN s ELSE t.up[s],
         NEW v, CutOut(t, v, s, c), NEW u, InnerCut(t, u, n, s, c, q)
  PROVE  Renamed(v, u, n, s) /\ Other(n, s, t.up[s]) = q
<1> DEFINE right == t.child[n]["right"]
           left == t.child[n]["left"]
           f == t.up[n]
           O(m) == Other(n, s, m)
<1>0. /\ TreeOK(t) /\ Links(t) /\ NULL \notin Nodes /\ "left" \in Sides /\ "right" \in Sides
      /\ f \in Pointer /\ Opposite("left") = "right" /\ Opposite("right") = "left"
  BY NullIsNoNode DEF Shape, Sides, TreeOK, Opposite
<1>1. left \in Nodes /\ right \in Nodes
  BY <1>0 DEF TreeOK, Pointer
<1>2. /\ s \in Nodes /\ s # n /\ c \in Pointer /\ c = t.child[s]["right"] /\ t.child[s]["left"] = NULL
      /\ f # s /\ f # t.up[s] /\ In(t, s) /\ s # NULL /\ n # NULL
      /\ (s = right => t.up[s] = n)
      /\ (s # right => t.up[s] \in Nodes /\ t.up[s] # n /\ t.child[t.up[s]]["left"] = s /\ t.up[s] # s)
  BY <1>0 DEF Successor
<1>3. /\ left # right /\ t.up[left] = n /\ t.up[right] = n /\ left # n /\ right # n /\ left # s /\ left # c /\ right # c
      /\ f # n /\ c # n /\ c # s /\ (c # NULL => t.up[c] = s)
  <2>1. left # right /\ t.up[left] = n /\ t.up[right] = n
    BY <1>0, <1>1 DEF Links
  <2>2. PICK r, B : Ranked(t, r, B)
    BY DEF Shape
  <2>3. \A m \in Nodes : t.up[m] # m
    BY <1>0, <2>2, RankedApart
  <2>4. c # NULL => t.up[c] = s
    BY <1>0, <1>2 DEF Links
  <2>5. c # n /\ c # s
    BY <1>2, <2>3, <2>4
  <2> QED BY <1>1, <1>2, <2>1, <2>3, <2>4, <2>5
<1>4. t.root # s
  <2>1. t.up[s] # NULL
    BY <1>0, <1>2
  <2> QED BY <1>0, <1>2, <2>1 DEF Links
<1>5. \A m \in Nodes, x \in Sides : t.child[m][x] = s => m = t.up[s] /\ (s # right => x = "left")
  <2> TAKE m \in Nodes, x \in Sides
  <2> HAVE t.child[m][x] = s
  <2>1. m = t.up[s]
    BY <1>0, <1>2 DEF Links
  <2>2. s # right => t.child[m]["right"] # s
    BY <1>0, <1>2, <2>1 DEF Links
  <2> QED BY <2>1, <2>2 DEF Sides
<1>6. \A m \in Nodes : /\ t.up[m] = n => m \in {left, right}
                       /\ t.up[m] = s => m = c
  <2> TAKE m \in Nodes
  <2>1. t.up[m] # NULL => \E x \in Sides : t.child[t.up[m]][x] = m
    BY <1>0 DEF Links
  <2> QED BY <1>0, <1>2, <2>1 DEF Sides
<1>7. /\ TreeOK(v) /\ v.root = t.root
      /\ \A m \in Nodes, x \in Sides :
           v.child[m][x] = IF m = s THEN NULL ELSE IF t.child[m][x] = s THEN c ELSE t.child[m][x]
      /\ \A m \in Nodes : v.up[m] = IF m = s THEN NULL ELSE IF m = c THEN t.up[s] ELSE t.up[m]
      /\ \A m \in Nodes : v.black[m] = IF m = s THEN FALSE ELSE IF m = c THEN t.black[s] ELSE t.black[m]
  BY <1>4 DEF CutOut
<1>8. /\ TreeOK(u) /\ u.root = IF f = NULL THEN s ELSE t.root
      /\ \A m \in Nodes, x \in Sides :
         u.child[m][x] = IF m = n THEN NULL
                         ELSE IF m = s THEN (IF x = "left" THEN left ELSE IF s = right THEN c ELSE right)
                         ELSE IF m = q /\ x = "left" THEN c
                         ELSE IF t.child[m][x] = n THEN s ELSE t.child[m][x]
      /\ \A m \in Nodes : u.up[m] = IF m = n THEN NULL ELSE IF m = s THEN f ELSE IF m = c THEN q
                                    ELSE IF m \in {left, right} THEN s ELSE t.up[m]
      /\ \A m \in Nodes : u.black[m] = IF m = n THEN FALSE ELSE IF m = s THEN t.black[n]
                                       ELSE IF m = c THEN TRUE ELSE t.black[m]
  BY DEF InnerCut
<1>9. q = IF s = right THEN s ELSE t.up[s]
  OBVIOUS
<1>10. /\ O(n) = s /\ O(s) = n /\ O(NULL) = NULL /\ O(c) = c /\ O(left) = left /\ O(f) = f
       /\ (right # s => O(right) = right) /\ \A m : m # n /\ m # s => O(m) = m
  BY <1>2, <1>3 DEF Other
<1>11. t.root = n <=> f = NULL
  BY <1>0, <1>2 DEF In, Links
<1>12. t.child[n]["left"] = left /\ t.child[n]["right"] = right
  OBVIOUS
<1> HIDE DEF O, left, right, f
<1>13. O(t.up[s]) = q
  BY <1>2, <1>9, <1>10
<1>14. u.root = O(v.root)
  BY <1>4, <1>7, <1>8, <1>10, <1>11
<1>15. ASSUME NEW m \in Nodes, NEW x \in Sides PROVE u.child[m][x] = O(v.child[O(m)][x])
  <2>0. x = "left" \/ x = "right"
    BY DEF Sides
  <2>1. CASE m = n
    BY <1>2, <1>7, <1>8, <1>10, <2>1
  <2>2. CASE m = s
    <3>1. v.child[n][x] = IF t.child[n][x] = s THEN c ELSE t.child[n][x]
      BY <1>2, <1>7
    <3> QED BY <1>2, <1>3, <1>8, <1>10, <1>12, <2>0, <2>2, <3>1
  <2>3. CASE m # n /\ m # s
    <3>1. O(m) = m /\ v.child[m][x] = IF t.child[m][x] = s THEN c ELSE t.child[m][x]
      BY <1>7, <1>10, <2>3
    <3>2. u.child[m][x] = IF m = q /\ x = "left" THEN c ELSE IF t.child[m][x] = n THEN s ELSE t.child[m][x]
      BY <1>8, <2>3
    <3>3. CASE t.child[m][x] = s
      <4>1. s # right /\ m = q /\ x = "left"
        BY <1>2, <1>5, <1>9, <2>3, <3>3
      <4> QED BY <1>10, <3>1, <3>2, <3>3, <4>1
    <3>4. CASE t.child[m][x] # s
      <4>1. ~(m = q /\ x = "left")
        BY <1>2, <1>9, <2>3, <3>4
      <4> QED BY <1>10, <3>1, <3>2, <3>4, <4>1
    <3> QED BY <3>3, <3>4
  <2> QED BY <2>1, <2>2, <2>3
<1>16. ASSUME NEW m \in Nodes PROVE u.up[m] = O(v.up[O(m)])
  <2>1. CASE m = n
    BY <1>2, <1>7, <1>8, <1>10, <2>1
  <2>2. CASE m = s
    BY <1>2, <1>3, <1>7, <1>8, <1>10, <2>2 DEF f
  <2>3. CASE m # n /\ m # s /\ m = c
    BY <1>7, <1>8, <1>10, <1>13, <2>3
  <2>4. CASE m # n /\ m # s /\ m # c
    <3>1. O(m) = m /\ v.up[m] = t.up[m]
      BY <1>7, <1>10, <2>4
    <3>2. CASE m \in {left, right}
      BY <1>3, <1>8, <1>10, <2>4, <3>1, <3>2
    <3>3. CASE m \notin {left, right}
      BY <1>6, <1>8, <1>10, <2>4, <3>1, <3>3
    <3> QED BY <3>2, <3>3
  <2> QED BY <2>1, <2>2, <2>3, <2>4
<1>17. ASSUME NEW m \in Nodes PROVE u.black[m] = v.black[O(m)]
  <2>1. CASE m = n
    <3>1. u.black[n] = FALSE
      BY <1>8
    <3>2. v.black[s] = FALSE
      BY <1>2, <1>7
    <3> QED BY <1>10, <2>1, <3>1, <3>2
  <2>2. CASE m = s
    <3>1. u.black[s] = t.black[n] /\ s # n
      BY <1>2, <1>8
    <3>2. v.black[n] = t.black[n] /\ O(s) = n
      BY <1>2, <1>3, <1>7, <1>10
    <3> QED BY <2>2, <3>1, <3>2
  <2>3. CASE m # n /\ m # s
    <3>1. O(m) = m /\ v.black[m] = IF m = c THEN t.black[s] ELSE t.black[m]
      BY <1>7, <1>10, <2>3
    <3>2. u.black[m] = IF m = c THEN TRUE ELSE t.black[m]
      BY <1>8, <2>3
    <3>3. m = c => c # NULL /\ t.black[s] = TRUE
      <4>1. t.black[s] \in BOOLEAN
        BY <1>0, <1>2 DEF TreeOK
      <4> QED BY <1>0, <4>1
    <3> QED BY <3>1, <3>2, <3>3
  <2> QED BY <2>1, <2>2, <2>3
<1> QED BY <1>8, <1>13, <1>14, <1>15, <1>16, <1>17 DEF Renamed, O

(* Removing any node leaves a red-black tree, with a gap at most where the C *)
(* code starts to rebalance.                                                 *)
LEMMA EraseKeeps ==
  ASSUME NEW t, Shape(t), RedBlack(t, NULL, NULL, "left"), NEW n \in Nodes, In(t, n),
         NEW e, e = IF NULL \in {t.child[n].left, t.child[n].right}
                    THEN EraseLeafward(t, n) ELSE EraseInner(t, n)
  PROVE  LET u == Detached(e.tree, n)
             q == e.rebalance
         IN  /\ Shape(u) /\ q \in Pointer
             /\ \A m \in Nodes : In(u, m) <=> m # n /\ In(t, m)
             /\ q # NULL => In(u, q)
             /\ \E d : RedBlack(u, NULL, q, d) /\ (q # NULL => d \in Sides /\ u.child[q][d] = NULL)
<1> DEFINE u == Detached(e.tree, n)
           q == e.rebalance
<1>0. /\ TreeOK(t) /\ Links(t) /\ NULL \notin Nodes
      /\ t.child[n].left = t.child[n]["left"] /\ t.child[n].right = t.child[n]["right"]
  BY NullIsNoNode DEF Shape, TreeOK
<1>a. PICK r, B : Ranked(t, r, B)
  BY DEF Shape
<1>1. CASE NULL \in {t.child[n].left, t.child[n].right}
  <2>1. PICK c : /\ OneChild(t, n, c) /\ CutOut(t, u, n, c)
                 /\ q = IF c = NULL /\ t.black[n] THEN t.up[n] ELSE NULL
    BY <1>1, LeafwardIs
  <2> HIDE DEF u, q
  <2>2. Shape(u) /\ \A m \in Nodes : In(u, m) <=> m # n /\ In(t, m)
    BY <2>1, CutKeepsShape
  <2>3. q \in Pointer
    BY <1>0, <2>1 DEF TreeOK, Pointer
  <2>4. \E d : q # NULL => d \in Sides /\ t.child[q][d] = n
    BY <1>0, <2>1 DEF Links
  <2>5. PICK d : q # NULL => d \in Sides /\ t.child[q][d] = n
    BY <2>4
  <2>6. RedBlack(u, NULL, q, d)
    BY <2>1, <2>5, CutKeepsRules
  <2>7. q # NULL => c = NULL /\ q \in Nodes /\ q # n /\ u.child[q][d] = NULL /\ In(t, q)
    <3> HAVE q # NULL
    <3>1. c = NULL /\ q = t.up[n] /\ q \in Nodes
      BY <2>1, <2>3 DEF Pointer
    <3>2. q # n
      BY <1>0, <1>a, <3>1, RankedApart
    <3>3. u.child[q][d] = NULL
      BY <2>1, <2>5, <3>1, <3>2 DEF CutOut
    <3>4. In(t, q)
      BY <1>0, <2>5, <3>1 DEF Links
    <3> QED BY <3>1, <3>2, <3>3, <3>4
  <2>8. RedBlack(u, NULL, q, d) /\ (q # NULL => d \in Sides /\ u.child[q][d] = NULL)
    BY <2>5, <2>6, <2>7
  <2>9. q # NULL => In(u, q)
    BY <2>2, <2>7
  <2> QED BY <2>2, <2>3, <2>8, <2>9 DEF u, q
<1>2. CASE NULL \notin {t.child[n].left, t.child[n].right}
  <2>0. t.child[n]["left"] # NULL /\ t.child[n]["right"] # NULL /\ e = EraseInner(t, n)
    BY <1>0, <1>2
  <2>1. PICK s, c, k : /\ Successor(t, n, s, c)
                       /\ k = IF s = t.child[n]["right"] THEN s ELSE t.up[s]
                       /\ InnerCut(t, u, n, s, c, k)
                       /\ q = IF c = NULL /\ t.black[s] THEN k ELSE NULL
    BY <2>0, InnerCutIs
  <2> HIDE DEF u, q
  <2> DEFINE v == Cut(t, s, c)
             z == IF c = NULL /\ t.black[s] THEN t.up[s] ELSE NULL
  <2>2. OneChild(t, s, c) /\ s \in Nodes /\ c \in Pointer /\ In(t, s) /\ s # n /\ t.up[s] # NULL /\ t.up[s] \in Nodes
    <3>1. s \in Nodes /\ c \in Pointer /\ In(t, s) /\ c = t.child[s]["right"] /\ t.child[s]["left"] = NULL /\ s # n
      BY <2>1 DEF Successor
    <3>2. OneChild(t, s, c)
      BY <3>1 DEF OneChild, Sides, Opposite
    <3>3. t.up[s] # NULL /\ t.up[s] \in Nodes
      BY <1>0, <2>1 DEF Successor
    <3> QED BY <3>1, <3>2, <3>3
  <2>3. CutOut(t, v, s, c)
    BY <1>0, <2>2, CutIsCutOut
  <2> HIDE DEF v
  <2>4. Shape(v) /\ \A m \in Nodes : In(v, m) <=> m # s /\ In(t, m)
    BY <2>2, <2>3, CutKeepsShape
  <2>5. PICK d \in Sides : t.child[t.up[s]][d] = s
    BY <1>0, <2>2 DEF Links
  <2>6. RedBlack(v, NULL, z, d) /\ (c # NULL => t.black[s])
    <3>1. z # NULL => d \in Sides /\ t.child[z][d] = s
      BY <2>5
    <3> HIDE DEF z
    <3>2. z = IF c = NULL /\ t.black[s] THEN t.up[s] ELSE NULL
      BY DEF z
    <3> QED BY <2>2, <2>3, <3>1, <3>2, CutKeepsRules
  <2>7. Renamed(v, u, n, s) /\ Other(n, s, t.up[s]) = k
    BY <2>0, <2>1, <2>3, <2>6, InnerCutRenames
  <2>8. z \in Pointer /\ q = Other(n, s, z) /\ q \in Pointer
    <3>1. Other(n, s, NULL) = NULL
      BY <1>0, <2>2 DEF Other
    <3>2. z \in Pointer /\ q = Other(n, s, z)
      BY <2>1, <2>2, <2>7, <3>1 DEF Pointer
    <3> QED BY <2>2, <3>2 DEF Other, Pointer
  <2> HIDE DEF z
  <2>9. /\ Shape(u) /\ RedBlack(u, NULL, Other(n, s, z), d)
        /\ \A m \in Nodes : In(u, m) <=> In(v, Other(n, s, m))
    BY <2>2, <2>4, <2>6, <2>7, <2>8, RenamedKeeps
  <2>10. \A m \in Nodes : In(u, m) <=> m # n /\ In(t, m)
    <3> TAKE m \in Nodes
    <3>1. Other(n, s, m) \in Nodes /\ (Other(n, s, m) = s <=> m = n)
      BY <2>2 DEF Other
    <3>2. m # n => (In(t, Other(n, s, m)) <=> In(t, m))
      BY <2>2 DEF Other
    <3> QED BY <2>4, <2>9, <3>1, <3>2
  <2>11. q # NULL => In(u, q) /\ u.child[q][d] = NULL
    <3> HAVE q # NULL
    <3>1. c = NULL /\ z = t.up[s] /\ z \in Nodes
      BY <1>0, <2>1, <2>2 DEF z
    <3>2. q \in Nodes /\ Other(n, s, q) = z /\ Other(n, s, NULL) = NULL
      BY <1>0, <2>2, <2>8, <3>1 DEF Other
    <3>3. z # s /\ In(t, z)
      <4>1. z # s
        BY <1>0, <1>a, <2>2, <3>1, RankedApart
      <4> QED BY <1>0, <2>2, <2>5, <3>1, <4>1 DEF Links
    <3>4. v.child[z][d] = NULL
      BY <2>3, <2>5, <3>1, <3>3 DEF CutOut
    <3>5. u.child[q][d] = NULL
      BY <2>7, <3>2, <3>4 DEF Renamed
    <3>6. In(u, q)
      BY <2>4, <2>9, <3>1, <3>2, <3>3
    <3> QED BY <3>5, <3>6
  <2>12. RedBlack(u, NULL, q, d) /\ (q # NULL => d \in Sides /\ u.child[q][d] = NULL)
    BY <2>8, <2>9, <2>11
  <2> QED BY <2>8, <2>9, <2>10, <2>11, <2>12 DEF u, q
<1> QED BY <1>1, <1>2

(* An empty link with a gap beside it names its own side. *)
LEMMA GapSide ==
  ASSUME NEW t, Shape(t), NEW q \in Nodes, NEW d \in Sides, RedBlack(t, NULL, q, d), t.child[q][d] = NULL
  PROVE  SideOf(t, NULL, q) = d
<1>1. PICK h : Heights(t, h, q, d)
  BY DEF RedBlack
<1>2. Opposite(d) \in Sides /\ Opposite(d) # d
  BY SidesAre
<1>3. /\ h[q] \in Nat /\ Below(t, h, q, d) \in Nat /\ Below(t, h, q, Opposite(d)) \in Nat
      /\ h[q] = Below(t, h, q, d) + Gap(q, d, q, d) + Dark(t, q)
      /\ h[q] = Below(t, h, q, Opposite(d)) + Gap(q, d, q, Opposite(d)) + Dark(t, q)
      /\ Dark(t, q) \in {0, 1}
  BY <1>1, <1>2, HeightsAre DEF Dark
<1>4. Gap(q, d, q, d) = 1 /\ Gap(q, d, q, Opposite(d)) = 0
  BY <1>2 DEF Gap
<1>5. Below(t, h, q, Opposite(d)) # 0
  BY <1>3, <1>4
<1>6. t.child[q][Opposite(d)] # NULL
  BY <1>5 DEF Below
<1> QED BY <1>6, SideOfIs DEF Shape, Pointer

(* Removing a node leaves at most the gap the loop starts from. *)
LEMMA StepErase ==
  ASSUME RbInv, NEW n \in Nodes, rb_erase_cached(n)
  PROVE  RbInv'
<1> DEFINE e == IF NULL \in {tree.child[n].left, tree.child[n].right}
                THEN EraseLeafward(tree, n) ELSE EraseInner(tree, n)
           q == e.rebalance
<1>1. /\ rb.at = "idle" /\ In(tree, n) /\ tree' = Detached(e.tree, n)
      /\ leftmost' = (IF leftmost = n THEN rb_next(tree, n) ELSE leftmost)
      /\ rb' = IF q = NULL THEN Idle ELSE [at |-> "erase", node |-> NULL, parent |-> q]
  BY DEF rb_erase_cached, Idle, InTree, In
<1>2. Shape(tree) /\ RedBlack(tree, NULL, NULL, "left") /\ leftmost \in Pointer
  BY <1>1 DEF RbInv, Rules, RbTypes
<1>3. leftmost' \in Pointer
  BY <1>1, <1>2, NextIsPointer
<1>4. /\ Shape(tree') /\ q \in Pointer
      /\ q # NULL => In(tree', q)
      /\ \E d : RedBlack(tree', NULL, q, d) /\ (q # NULL => d \in Sides /\ tree'.child[q][d] = NULL)
  <2> HIDE DEF e
  <2>1. e = IF NULL \in {tree.child[n].left, tree.child[n].right}
            THEN EraseLeafward(tree, n) ELSE EraseInner(tree, n)
    BY DEF e
  <2> QED BY <1>1, <1>2, <2>1, EraseKeeps
<1>5. PICK d : RedBlack(tree', NULL, q, d) /\ (q # NULL => d \in Sides /\ tree'.child[q][d] = NULL)
  BY <1>4
<1> HIDE DEF q, e
<1>6. CASE q = NULL
  <2>1. RedBlack(tree', NULL, NULL, "left")
    <3>1. PICK h : Heights(tree', h, NULL, d)
      BY <1>5, <1>6 DEF RedBlack
    <3>2. Heights(tree', h, NULL, "left")
      BY <3>1, NullIsNoNode DEF Heights, Gap
    <3> QED BY <1>5, <3>2 DEF RedBlack
  <2>2. RbTypes' /\ Loops' /\ Rules'
    BY <1>1, <1>3, <1>6, <2>1 DEF RbTypes, Idle, Loops, Rules, Pointer
  <2> QED BY <1>4, <2>2 DEF RbInv
<1>7. CASE q # NULL
  <2>1. q \in Nodes /\ rb' = [at |-> "erase", node |-> NULL, parent |-> q]
    BY <1>1, <1>4, <1>7 DEF Pointer
  <2>2. SideOf(tree', NULL, q) = d
    BY <1>4, <1>5, <1>7, <2>1, GapSide
  <2>3. NodeSide' = d
    BY <2>1, <2>2 DEF NodeSide, SideOf
  <2>4. RbTypes'
    BY <1>3, <2>1 DEF RbTypes, Pointer
  <2>5. Loops'
    BY <1>4, <1>5, <1>7, <2>1, <2>3 DEF Loops, IsBlack
  <2>6. Rules'
    BY <1>5, <2>1, <2>3 DEF Rules
  <2> QED BY <1>4, <2>4, <2>5, <2>6 DEF RbInv
<1> QED BY <1>6, <1>7

(* Every step keeps the invariant. *)
LEMMA RbStep ==
  ASSUME RbInv, [RbNext]_rbVars
  PROVE  RbInv'
<1>1. CASE UNCHANGED rbVars
  BY <1>1 DEF rbVars, RbInv, RbTypes, Loops, Rules, NodeSide, IsBlack
<1>2. ASSUME NEW n \in Nodes, rb_add_cached(n) PROVE RbInv'
  BY <1>2, StepAdd
<1>3. ASSUME NEW n \in Nodes, rb_erase_cached(n) PROVE RbInv'
  BY <1>3, StepErase
<1>4. CASE rb_add_descend \/ rb_link_node
  BY <1>4, StepDescend, StepLink
<1>5. CASE rb_insert_done \/ rb_insert_flip \/ rb_insert_rotate
  BY <1>5, StepInsertDone, StepInsertFlip, StepInsertRotate
<1>6. CASE rb_erase_red_sibling \/ rb_erase_flip \/ rb_erase_rotate
  BY <1>6, StepRedSibling, StepEraseFlip, StepEraseRotate
<1> QED BY <1>1, <1>2, <1>3, <1>4, <1>5, <1>6 DEF RbNext

(***************************************************************************)
(* The inductive invariant holds in every reachable state of the tree that *)
(* lib/rbtree builds, for any nodes and keys: parents and children name    *)
(* each other without a cycle, and the rules of a red-black tree hold but  *)
(* for the one place where __rb_insert or ____rb_erase_color is at work.   *)
(***************************************************************************)
THEOREM RbInvariant == RbSpec => []RbInv
<1>1. RbInv /\ [RbNext]_rbVars => RbInv'
  BY RbStep
<1> QED BY <1>1, RbInitially, PTL DEF RbSpec

(***************************************************************************)
(* The links, parents and colours that the code writes are always nodes,   *)
(* NULL and colours, whatever is inserted and removed in which order.      *)
(***************************************************************************)
THEOREM RbTypeCorrect == RbSpec => []RbTypeOK
BY RbInvariant, RbTypeFollows, PTL
=============================================================================
