------------------------------- MODULE RbTree -------------------------------
(***************************************************************************)
(* The red-black tree with a cached first node that holds the timers of a  *)
(* core (lib/rbtree), as timer.c uses it: rb_add_cached, rb_erase_cached   *)
(* and rb_first_cached.  Each round of a loop is a step; a tree belongs to *)
(* one core and is changed with interrupts off, so nothing sees a tree     *)
(* between the steps.  The left and the right half of the C code are one   *)
(* definition with the side as a parameter.                                *)
(***************************************************************************)
EXTENDS Integers, Sequences

CONSTANTS
    Nodes,  \* the nodes that may be in the tree
    Key,    \* what less compares: the deadline of a node
    After,  \* bound on the orders explored: the nodes in the tree when a node is added
    NULL

ASSUME RbAssumption == 
    NULL \notin Nodes /\ Key \in [Nodes -> Int] /\ After \in [Nodes -> SUBSET Nodes]

Sides == {"left", "right"}
Opposite(d) == IF d = "left" THEN "right" ELSE "left"
Pointer == Nodes \cup {NULL}

VARIABLES
    tree,      \* [root, child, up, black]: the links, parents and colours of all nodes
    leftmost,  \* rb_leftmost
    rb         \* where the operation under way is: [at, node, parent]

rbVars == <<tree, leftmost, rb>>

Idle == [at |-> "idle", node |-> NULL, parent |-> NULL]

Linked(t, n, d, c) == [t EXCEPT !.child[n][d] = c]
rb_set_parent(t, n, p) == [t EXCEPT !.up[n] = p]
rb_set_parent_color(t, n, p, b) == [t EXCEPT !.up[n] = p, !.black[n] = b]
SetIfAny(t, n, p, b) == IF n = NULL THEN t ELSE rb_set_parent_color(t, n, p, b)
IsBlack(t, n) == IF n = NULL THEN TRUE ELSE t.black[n]
IsRed(t, n) == ~IsBlack(t, n)

(* __rb_change_child: new takes the place of old below parent.             *)
rb_change_child(t, old, new, parent) ==
    IF parent = NULL THEN [t EXCEPT !.root = new]
    ELSE Linked(t, parent, IF t.child[parent].left = old THEN "left" ELSE "right", new)

(* __rb_rotate_set_parents: new takes old's parent and colour, old goes    *)
(* below new.                                                              *)
rb_rotate_set_parents(t, old, new, b) ==
    rb_change_child(rb_set_parent_color(
                      rb_set_parent_color(t, new, t.up[old], t.black[old]), old, new, b),
                    old, new, t.up[old])

-----------------------------------------------------------------------------
(* Insertion *)

(* One round of the descent in rb_add_cached; at a free link the node is   *)
(* linked in red, and is the new first node if the way never went right.   *)
(* Mutant: a node goes in front of the nodes with the same key.            *)
Side_before(n, p) == IF Key[n] <= Key[p] THEN "left" ELSE "right"

Side(n, p) == IF Key[n] < Key[p] THEN "left" ELSE "right"

InTree(n) == tree.root = n \/ tree.up[n] # NULL

rb_add_cached(n) ==
    /\ rb = Idle
    /\ ~InTree(n)
    /\ \A m \in After[n] : InTree(m)
    /\ rb' = [at |-> "left", node |-> n, parent |-> NULL]
    /\ UNCHANGED <<tree, leftmost>>

Descending == rb.at \in {"left", "right"}  \* "left": the way never went right
Link ==
    IF rb.parent = NULL THEN tree.root ELSE tree.child[rb.parent][Side(rb.node, rb.parent)]

rb_add_descend ==
    /\ Descending
    /\ Link # NULL
    /\ rb' = [rb EXCEPT !.parent = Link,
                        !.at = IF Side(rb.node, Link) = "right" THEN "right" ELSE rb.at]
    /\ UNCHANGED <<tree, leftmost>>

(* rb_link_node and rb_insert_color_cached up to the loop of __rb_insert.  *)
rb_link_node ==
    LET n == rb.node
        t == [tree EXCEPT !.child[n] = [d \in Sides |-> NULL]]
        p == rb.parent
    IN  /\ Descending
        /\ Link = NULL
        /\ tree' = rb_set_parent_color(
                     IF p = NULL THEN [t EXCEPT !.root = n] ELSE Linked(t, p, Side(n, p), n),
                     n, p, FALSE)
        /\ leftmost' = IF rb.at = "left" THEN n ELSE leftmost
        /\ rb' = [rb EXCEPT !.at = "insert"]

(* The loop of __rb_insert.  It ends at the root or below a black parent.  *)
rb_insert_done ==
    /\ rb.at = "insert"
    /\ IsBlack(tree, rb.parent)
    /\ tree' = IF rb.parent = NULL THEN rb_set_parent_color(tree, rb.node, NULL, TRUE) ELSE tree
    /\ rb' = Idle
    /\ UNCHANGED leftmost

RedParent == rb.at = "insert" /\ IsRed(tree, rb.parent)
Gparent == tree.up[rb.parent]
ParentSide == IF rb.parent # tree.child[Gparent].right THEN "left" ELSE "right"
Uncle == tree.child[Gparent][Opposite(ParentSide)]

(* Case 1: the uncle is red; colours flip and the loop goes on at the      *)
(* grandparent.                                                            *)
(* Mutant: parent is not read again for the grandparent.                   *)
rb_insert_flip_stale ==
    LET g == Gparent IN
    /\ RedParent
    /\ IsRed(tree, Uncle)
    /\ tree' = rb_set_parent_color(
                 rb_set_parent_color(
                   rb_set_parent_color(tree, Uncle, g, TRUE), rb.parent, g, TRUE),
                 g, tree.up[g], FALSE)
    /\ rb' = [rb EXCEPT !.node = g]
    /\ UNCHANGED leftmost

rb_insert_flip ==
    LET g == Gparent IN
    /\ RedParent
    /\ IsRed(tree, Uncle)
    /\ tree' = rb_set_parent_color(
                 rb_set_parent_color(
                   rb_set_parent_color(tree, Uncle, g, TRUE), rb.parent, g, TRUE),
                 g, tree.up[g], FALSE)
    /\ rb' = [rb EXCEPT !.node = g, !.parent = tree.up[g]]
    /\ UNCHANGED leftmost

(* Case 2 turns an inner node outwards: node rises above parent p.         *)
RotateInner(t, n, p, d) ==
    LET tmp == t.child[n][d]
        t1 == Linked(Linked(t, p, Opposite(d), tmp), n, d, p)
    IN  rb_set_parent_color(SetIfAny(t1, tmp, p, TRUE), p, n, FALSE)

(* Case 3: parent p rises above the grandparent g.                         *)
RotateOuter(t, p, g, d) ==
    LET tmp == t.child[p][Opposite(d)]
        t1 == Linked(Linked(t, g, d, tmp), p, Opposite(d), g)
    IN  rb_rotate_set_parents(SetIfAny(t1, tmp, g, TRUE), g, p, FALSE)

rb_insert_rotate ==
    LET n == rb.node
        p == rb.parent
        d == ParentSide
        inner == n = tree.child[p][Opposite(d)]
    IN  /\ RedParent
        /\ ~IsRed(tree, Uncle)
        /\ tree' = IF inner THEN RotateOuter(RotateInner(tree, n, p, d), n, Gparent, d)
                   ELSE RotateOuter(tree, p, Gparent, d)
        /\ rb' = Idle
        /\ UNCHANGED leftmost

-----------------------------------------------------------------------------
(* Walking the tree *)

(* Down from n to the last node on side d.                                 *)
Farthest(t, n, d) ==
    LET f[m \in Nodes] == IF t.child[m][d] = NULL THEN m ELSE f[t.child[m][d]] IN f[n]

(* Up from n to the first ancestor reached from its side d.                *)
Ancestor(t, n, d) ==
    LET f[m \in Nodes] ==
          IF t.up[m] = NULL \/ m # t.child[t.up[m]][Opposite(d)] THEN t.up[m] ELSE f[t.up[m]]
    IN  f[n]

(* rb_next with d = "left", rb_prev with d = "right".                      *)
Neighbour(t, n, d) ==
    IF t.child[n][Opposite(d)] # NULL THEN Farthest(t, t.child[n][Opposite(d)], d)
    ELSE Ancestor(t, n, d)

rb_next(t, n) == Neighbour(t, n, "left")
rb_prev(t, n) == Neighbour(t, n, "right")
rb_first(t) == IF t.root = NULL THEN NULL ELSE Farthest(t, t.root, "left")
rb_last(t) == IF t.root = NULL THEN NULL ELSE Farthest(t, t.root, "right")

rb_left_deepest_node(t, n) ==
    LET f[m \in Nodes] == IF t.child[m].left # NULL THEN f[t.child[m].left]
                          ELSE IF t.child[m].right # NULL THEN f[t.child[m].right] ELSE m
    IN  f[n]

(* Mutant: a left child is always followed by its parent.                  *)
rb_next_postorder_skip(t, n) == t.up[n]

rb_first_postorder(t) == IF t.root = NULL THEN NULL ELSE rb_left_deepest_node(t, t.root)
rb_next_postorder(t, n) ==
    LET p == t.up[n] IN
    IF p # NULL /\ n = t.child[p].left /\ t.child[p].right # NULL
    THEN rb_left_deepest_node(t, t.child[p].right) ELSE p

-----------------------------------------------------------------------------
(* Removal *)

(* __rb_erase_augmented with at most one child: it replaces the node and   *)
(* takes its parent and colour.  Only a black leaf unbalances the tree.    *)
EraseLeafward(t, n) ==
    LET c == IF t.child[n].left = NULL THEN t.child[n].right ELSE t.child[n].left
        t1 == rb_change_child(t, n, c, t.up[n])
    IN  [tree |-> SetIfAny(t1, c, t.up[n], t.black[n]),
         rebalance |-> IF c = NULL /\ t.black[n] THEN t.up[n] ELSE NULL]

(* With two children the successor takes the node's place, and its right   *)
(* child takes the successor's.                                            *)
EraseInner(t, n) ==
    LET right == t.child[n].right
        s == Farthest(t, right, "left")
        child2 == t.child[s].right
        parent == IF s = right THEN s ELSE t.up[s]
        t1 == IF s = right THEN t
              ELSE rb_set_parent(Linked(Linked(t, parent, "left", child2), s, "right", right), right, s)
        t2 == rb_set_parent(Linked(t1, s, "left", t.child[n].left), t.child[n].left, s)
        t3 == SetIfAny(rb_change_child(t2, n, s, t.up[n]), child2, parent, TRUE)
    IN  [tree |-> rb_set_parent_color(t3, s, t.up[n], t.black[n]),
         rebalance |-> IF child2 = NULL /\ t.black[s] THEN parent ELSE NULL]

Detached(t, n) == [t EXCEPT !.up[n] = NULL, !.black[n] = FALSE, !.child[n] = [d \in Sides |-> NULL]]

(* The node's own fields keep their old values, which nothing reads again: *)
(* timer_set links it anew.  They are cleared here to keep states few.     *)
rb_erase_cached(n) ==
    LET e == IF NULL \in {tree.child[n].left, tree.child[n].right}
             THEN EraseLeafward(tree, n) ELSE EraseInner(tree, n)
    IN  /\ rb = Idle
        /\ InTree(n)
        /\ leftmost' = IF leftmost = n THEN rb_next(tree, n) ELSE leftmost
        /\ tree' = Detached(e.tree, n)
        /\ rb' = IF e.rebalance = NULL THEN Idle
                 ELSE [at |-> "erase", node |-> NULL, parent |-> e.rebalance]

(***************************************************************************)
(* The loop of ____rb_erase_color: the paths through node, on side d of    *)
(* parent, are one black node short.                                       *)
(***************************************************************************)
NodeSide == IF rb.node # tree.child[rb.parent].right THEN "left" ELSE "right"
Sibling == tree.child[rb.parent][Opposite(NodeSide)]

(* A rotation that lifts the sibling s above parent p, on side d of it.    *)
LiftSibling(t, p, s, d, b) ==
    rb_rotate_set_parents(Linked(Linked(t, p, Opposite(d), t.child[s][d]), s, d, p), p, s, b)

(* Case 1: a red sibling is lifted; the loop looks at the new sibling.     *)
rb_erase_red_sibling ==
    /\ rb.at = "erase"
    /\ IsRed(tree, Sibling)
    /\ tree' = LiftSibling(rb_set_parent_color(tree, tree.child[Sibling][NodeSide], rb.parent, TRUE),
                           rb.parent, Sibling, NodeSide, FALSE)
    /\ UNCHANGED <<leftmost, rb>>

BlackSibling == rb.at = "erase" /\ ~IsRed(tree, Sibling)
Near == tree.child[Sibling][NodeSide]
Far == tree.child[Sibling][Opposite(NodeSide)]

(* Case 2: the sibling turns red; a red parent absorbs the missing black,  *)
(* otherwise the loop goes on at the parent until the root.                *)
(* Mutant: the loop ends although the parent was black.                    *)
rb_erase_flip_once ==
    LET t == rb_set_parent_color(tree, Sibling, rb.parent, FALSE) IN
    /\ BlackSibling
    /\ IsBlack(tree, Near) /\ IsBlack(tree, Far)
    /\ tree' = [t EXCEPT !.black[rb.parent] = TRUE]
    /\ rb' = Idle
    /\ UNCHANGED leftmost

rb_erase_flip ==
    LET p == rb.parent
        t == rb_set_parent_color(tree, Sibling, p, FALSE)
    IN  /\ BlackSibling
        /\ IsBlack(tree, Near) /\ IsBlack(tree, Far)
        /\ tree' = [t EXCEPT !.black[p] = TRUE]
        /\ rb' = IF ~tree.black[p] \/ tree.up[p] = NULL THEN Idle
                 ELSE [rb EXCEPT !.node = p, !.parent = tree.up[p]]
        /\ UNCHANGED leftmost

(* Case 3 turns a red near nephew outwards.                                *)
LiftNephew(t, p, s, d) ==
    LET nephew == t.child[s][d]
        tmp == t.child[nephew][Opposite(d)]
        t1 == Linked(Linked(Linked(t, s, d, tmp), nephew, Opposite(d), s), p, Opposite(d), nephew)
    IN  SetIfAny(t1, tmp, s, TRUE)

(* Case 4: the sibling is lifted with the parent's colour; parent and far  *)
(* nephew turn black.                                                      *)
LiftBlackSibling(t, p, s, far, d) ==
    LET near == t.child[s][d]
        t1 == rb_set_parent_color(t, far, s, TRUE)
        t2 == IF near = NULL THEN t1 ELSE rb_set_parent(t1, near, p)
    IN  LiftSibling(t2, p, s, d, TRUE)

rb_erase_rotate ==
    LET p == rb.parent
        d == NodeSide
    IN  /\ BlackSibling
        /\ ~(IsBlack(tree, Near) /\ IsBlack(tree, Far))
        /\ tree' = IF IsBlack(tree, Far)
                   THEN LiftBlackSibling(LiftNephew(tree, p, Sibling, d), p, Near, Sibling, d)
                   ELSE LiftBlackSibling(tree, p, Sibling, Far, d)
        /\ rb' = Idle
        /\ UNCHANGED leftmost

-----------------------------------------------------------------------------
RbInit ==
    /\ tree = [root |-> NULL, child |-> [n \in Nodes |-> [d \in Sides |-> NULL]],
               up |-> [n \in Nodes |-> NULL], black |-> [n \in Nodes |-> FALSE]]
    /\ leftmost = NULL
    /\ rb = Idle

RbNext ==
    \/ \E n \in Nodes : rb_add_cached(n) \/ rb_erase_cached(n)
    \/ rb_add_descend \/ rb_link_node
    \/ rb_insert_done \/ rb_insert_flip \/ rb_insert_rotate
    \/ rb_erase_red_sibling \/ rb_erase_flip \/ rb_erase_rotate

RbSpec == RbInit /\ [][RbNext]_rbVars

-----------------------------------------------------------------------------
(* Types: links and parents are nodes or NULL, and the loops carry along   *)
(* the parent of the node they stand at.                                   *)
RbTypeOK ==
    /\ tree \in [root : Pointer, child : [Nodes -> [Sides -> Pointer]],
                 up : [Nodes -> Pointer], black : [Nodes -> BOOLEAN]]
    /\ leftmost \in Pointer
    /\ rb \in [at : {"idle", "left", "right", "insert", "erase"}, node : Pointer, parent : Pointer]
    /\ rb.at = "insert" => rb.parent = tree.up[rb.node]
    /\ rb.at = "erase" => rb.parent # NULL

InOrder ==
    LET walk[n \in Pointer] ==
          IF n = NULL THEN <<>>
          ELSE walk[tree.child[n].left] \o <<n>> \o walk[tree.child[n].right]
    IN  walk[tree.root]

BlackHeight ==  \* black nodes on the paths from each node down, -1 if they differ
    LET short(n, p) == IF rb.at = "erase" /\ n = rb.node /\ p = rb.parent THEN 1 ELSE 0
        height[n \in Nodes] ==
          LET below(d) == LET c == tree.child[n][d]
                          IN  short(c, n) + (IF c = NULL THEN 0 ELSE height[c])
          IN  IF below("left") # below("right") THEN -1
              ELSE below("left") + (IF tree.black[n] THEN 1 ELSE 0)
    IN  height

Balanced ==
    LET q == InOrder
        inTree == {q[i] : i \in DOMAIN q}
        height == BlackHeight
    IN
    /\ \A n \in inTree : height[n] # -1
    /\ \A n \in inTree : (rb.at = "insert" /\ n = rb.node) \/ tree.black[n]
                         \/ (n # tree.root /\ tree.black[tree.up[n]])

LinksMirror ==
    LET q == InOrder IN
    /\ \A i, j \in DOMAIN q : i # j => q[i] # q[j]
    /\ \A i \in DOMAIN q : \A d \in Sides :
         tree.child[q[i]][d] # NULL => tree.up[tree.child[q[i]][d]] = q[i]
    /\ tree.root # NULL => tree.up[tree.root] = NULL

(***************************************************************************)
(* The nodes form a red-black tree, at every step of a rotation sequence.  *)
(* Each node is reached once and its parent pointer names the node it      *)
(* hangs from (__rb_change_child, __rb_rotate_set_parents).  Properties 2, *)
(* 4 and 5 of the comment in rbtree.c hold between operations, and the     *)
(* loop invariants of __rb_insert and ____rb_erase_color during them: only *)
(* the node an insertion stands at may be a red child of a red node, and   *)
(* only the paths below the node an erasure stands at are a black node     *)
(* short.                                                                  *)
(***************************************************************************)
RedBlackTree == LinksMirror /\ Balanced

(***************************************************************************)
(* rb_first, rb_next, rb_prev and rb_last visit the nodes in key order and *)
(* rb_first_postorder, rb_next_postorder visit children before parents,    *)
(* without a stack.                                                        *)
(***************************************************************************)
Walks ==
    LET q == InOrder
        n == Len(q)
        post[i \in 1 .. n] == IF i = 1 THEN rb_first_postorder(tree) ELSE rb_next_postorder(tree, post[i - 1])
    IN  rb.at = "idle" =>
          /\ n = 0 => rb_first(tree) = NULL /\ rb_last(tree) = NULL
          /\ n > 0 => /\ rb_first(tree) = q[1] /\ rb_last(tree) = q[n]
                      /\ rb_next(tree, q[n]) = NULL /\ rb_prev(tree, q[1]) = NULL
                      /\ post[n] = tree.root
          /\ \A i \in 1 .. n - 1 : rb_next(tree, q[i]) = q[i + 1] /\ rb_prev(tree, q[i + 1]) = q[i]
          /\ \A i, j \in 1 .. n : tree.up[post[i]] = post[j] => i < j

Queue == INSTANCE TimerQueueSpec WITH queue <- InOrder, first <- leftmost

(***************************************************************************)
(* The tree implements the queue timer.c relies on: nodes sorted by        *)
(* deadline, first set first among equals, rb_leftmost always the first of *)
(* them, and no rebalancing step reorders or loses a node.                 *)
(***************************************************************************)
ImplementsTimerQueue == Queue!QueueSpec
=============================================================================
