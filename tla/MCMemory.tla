------------------------------ MODULE MCMemory ------------------------------
(***************************************************************************)
(* Two cores: one works on jit memory and touches the direct map and a     *)
(* guard page, the other uses the allocator directly, has a stack that may *)
(* grow inside it, and competes for the jit area.  Both may be the first   *)
(* to touch a lazily mapped page.                                          *)
(***************************************************************************)
EXTENDS Memory, TLC

CONSTANTS c1, c2

Pair(a, b) == [c \in {c1, c2} |-> IF c = c1 THEN a ELSE b]

Stack == 2
Frame == 3
Guard == 4
MCVirt == 0 .. 4
MCArea == [v \in MCVirt |-> CASE v \in Jit -> "jit" [] v = Frame -> "direct"
                              [] v = Guard -> "guard" [] OTHER -> "lazy"]
MCPath == [v \in MCVirt |-> IF v = 1 THEN <<"low", "jit">> ELSE <<"low">>]
MCTouch == Pair({Frame, Guard, Stack}, {Stack})
StackOnly == Pair({Stack}, {Stack})
AllocGrows == {"alloc"} \X {"irq_alloc", "lock", "search", "clear", "ret"} \cup {"free"} \X {"lock"}
RangeGrows == {"range"} \X {"search"}
FreeGrows == {"free"} \X {"locked"}
MCOps == Pair({"range", "mapped", "remap"}, {"alloc", "free", "range", "mapped", "remap"})

(***************************************************************************)
(* Pages are interchangeable.  The model takes a fixed one of the free     *)
(* pages, but as long as PageHasOneOwner holds nothing tells the free ones *)
(* apart: taking another differs by exchanging the two.                    *)
(***************************************************************************)
Interchangeable == Permutations(Pages)
=============================================================================
