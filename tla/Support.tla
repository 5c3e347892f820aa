------------------------------ MODULE Support ------------------------------
(***************************************************************************)
(* The support code the kernel rests on: the timer tree, the heap, the     *)
(* symbol table and the initial mappings.  They share no state, so a       *)
(* behaviour exercises one of them, chosen at the start, and the others    *)
(* stay as they are.                                                       *)
(***************************************************************************)
EXTENDS RbTree, Heap, Symbols, Mappings

VARIABLE part

supportVars == <<part, rbVars, heapVars, symVars, mapVars>>

Init ==
    /\ part \in {"tree", "heap", "symbols", "mappings"}
    /\ RbInit
    /\ HeapInit
    /\ IF part = "symbols" THEN SymInit ELSE SymInitWith(<<>>)
    /\ IF part = "mappings" THEN MapInit ELSE MapInitWith(<<>>, <<>>)

Next ==
    \/ part = "tree" /\ RbNext /\ UNCHANGED <<part, heapVars, symVars, mapVars>>
    \/ part = "heap" /\ HeapNext /\ UNCHANGED <<part, rbVars, symVars, mapVars>>
    \/ part = "symbols" /\ SymNext /\ UNCHANGED <<part, rbVars, heapVars, mapVars>>
    \/ part = "mappings" /\ MapNext /\ UNCHANGED <<part, rbVars, heapVars, symVars>>

Spec == Init /\ [][Next]_supportVars

-----------------------------------------------------------------------------
(* Constants for model checking: two pairs of timers with equal deadlines, *)
(* and timers beyond the second only set when all before them are pending;  *)
(* blocks of 2 and 4 bytes in regions of 4, objects of 4; kernels with code and data in either order, *)
(* with code only, and with a segment that is both; memory maps that begin *)
(* and end inside pages, with a hole, and above the direct map's 512GB.    *)
EqualPairs == [n \in Nodes |-> (n + 1) - (n \div 4)]
AllBefore == [n \in Nodes |-> IF n <= 2 THEN {} ELSE 1 .. n - 1]
SmallShift == [h \in Heaps |-> IF h = "mem" THEN 1 ELSE 2]
SmallOrders == [h \in Heaps |-> IF h = "mem" THEN 2 ELSE 1]
SmallBase == [h \in Heaps |-> IF h = "mem" THEN 64 ELSE 16]
Segment(at, size, w, x) == [at |-> at, size |-> size, w |-> w, x |-> x]
Code == Segment(0, 2, FALSE, TRUE)
Data == Segment(1, 1, TRUE, FALSE)
SmallKernels == {<<Code, Data>>, <<Data, Code>>, <<Segment(0, 3, FALSE, TRUE)>>,
                 <<Code, Segment(1, 2, TRUE, TRUE)>>}

Entry(base, length, type) == [base |-> base, length |-> length, type |-> type]
SmallMaps == {<<Entry(0, 2, "usable"), Entry(2, 4, "executable"), Entry(6, 3, "reserved")>>,
              <<Entry(1, 1, "acpi_tables"), Entry(2, 3, "executable"), Entry(7, 3, "usable"), Entry(10, 1, "bad")>>,
              <<Entry(2, 4, "executable"), Entry(6, 1, "unknown"), Entry(0, 1, "framebuffer")>>}
=============================================================================
