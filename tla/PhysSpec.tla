------------------------------ MODULE PhysSpec ------------------------------
(***************************************************************************)
(* What the physical allocator promises its callers (phys.h): memory it    *)
(* hands out lies in the usable memory, is naturally aligned, is at least  *)
(* as large as was asked for, and belongs to nobody else until it is       *)
(* freed.  How blocks are split, merged and found is not said here.        *)
(***************************************************************************)
EXTENDS Integers

CONSTANTS
    Memory,  \* the addresses the allocator may hand out
    Sizes    \* the sizes callers ask for

VARIABLE held  \* the blocks in use: [addr, span, size], size being what was asked for

Span(b) == b.addr .. b.addr + b.span - 1

Init == held = {}

Alloc(b) ==
    /\ Span(b) \subseteq Memory
    /\ b.span >= b.size
    /\ b.addr % b.span = 0
    /\ \A h \in held : Span(h) \cap Span(b) = {}
    /\ held' = held \cup {b}

Free(b) == b \in held /\ held' = held \ {b}

Next ==
    \/ \E b \in held' \ held : b.size \in Sizes /\ Alloc(b)
    \/ \E b \in held : Free(b)

Spec == Init /\ [][Next]_held
=============================================================================
