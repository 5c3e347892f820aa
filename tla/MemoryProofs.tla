---------------------------- MODULE MemoryProofs ----------------------------
(***************************************************************************)
(* Proofs about Memory, for any number of cores, physical and virtual      *)
(* pages, any page table layout and any workload.                          *)
(***************************************************************************)
EXTENDS Memory, WellFoundedInduction, TLAPS

(* The operations that walk the page tables with m_virt_lock held. *)
WalkOps == RangeOps \cup {"fault"}

(***************************************************************************)
(* What each context is doing, and which of its local variables are in     *)
(* use: va names a page from the first step on, the jit range of a         *)
(* virt_alloc_range lies in the jit area, ret holds a page only until it   *)
(* is put to use, page only between return_data and the mapping.           *)
(***************************************************************************)
FlowAt(x) ==
    /\ op[x] = "none" <=> pc[x] \in {"boot", "idle"}
    /\ x[2] = "fault" => op[x] \in {"none", "fault"} /\ pc[x] # "boot"
    /\ x[2] = "thread" => op[x] # "fault"
    /\ op[x] \in WalkOps => va[x] \in Virt
    /\ op[x] = "fault" /\ pc[x] # "stopped" => Area[va[x]] \in {"lazy", "direct"}
    /\ op[x] \in {"range", "cleanup"} =>
         va[x] \in Jit /\ left[x] >= 1 /\ va[x] + left[x] <= JitPages
    /\ op[x] = "cleanup" => undo[x] > 0
    /\ op[x] = "alloc" => pc[x] \in InPhysAlloc \cup {"stopped"}
    /\ op[x] \in {"init", "free"} => pc[x] \in {"lock", "locked", "release"} /\ want[x] = "data"
    /\ op[x] = "free" /\ pc[x] # "release" => page[x] # NULL
    /\ op[x] = "free" /\ pc[x] = "release" => page[x] = NULL
    /\ pc[x] = "watermark" => op[x] = "range" /\ page[x] = NULL
    /\ pc[x] \in {"boot", "idle"} => want[x] = "data"
    /\ pc[x] = "vlock" => op[x] \in WalkOps \ {"cleanup"} /\ want[x] = "data"
    /\ pc[x] = "vlock" => (page[x] # NULL <=> op[x] = "fault")
    /\ pc[x] = "walk" => op[x] \in WalkOps
    /\ pc[x] \in InPhysAlloc /\ want[x] = "data" =>
         /\ op[x] \in {"init", "alloc", "free", "range", "fault"}
         /\ op[x] # "free" => page[x] = NULL
    /\ pc[x] \in InPhysAlloc /\ want[x] = "table" => op[x] \in WalkOps /\ Missing(va[x]) # {}
    /\ pc[x] = "walk" \/ (pc[x] \in InPhysAlloc /\ want[x] = "table") =>
         (page[x] # NULL <=> op[x] \in {"range", "fault"})
    /\ ret[x] # NULL => pc[x] \in {"clear", "release", "ret"} /\ op[x] \notin {"init", "free"}
    /\ page[x] # NULL => op[x] \in {"free", "range", "fault"}
    /\ page[x] = Direct => op[x] = "fault"

FlowOK == \A x \in Contexts : FlowAt(x)

(***************************************************************************)
(* The locks: each is held by a core with one context inside, m_lock_cpu   *)
(* names the holder of the allocator's from the record to the clearing, a  *)
(* fault runs above a thread that is idle or where its stack may grow, and *)
(* it waits for its own core's lock only in a window of GrowsOutsideWindows. *)
(***************************************************************************)
LocksOK ==
    /\ \A x \in Contexts : InRegion(x) => m_memory_region_lock = CoreOf(x)
    /\ \A x \in Contexts : Recorded(x) => m_lock_cpu = CoreOf(x)
    /\ \A x \in Contexts : InWalk(x) => m_virt_lock = CoreOf(x)
    /\ \A c \in Cores :
         /\ ~(InRegion(Thread(c)) /\ InRegion(Fault(c)))
         /\ ~(InWalk(Thread(c)) /\ InWalk(Fault(c)))
         /\ m_memory_region_lock = c => InRegion(Thread(c)) \/ InRegion(Fault(c))
         /\ pc[Fault(c)] # "idle" =>
              \/ pc[Thread(c)] = "idle"
              \/ <<op[Thread(c)], pc[Thread(c)]>> \in Growth
         /\ GrowsOutsideWindows /\ pc[Fault(c)] = "lock" => m_memory_region_lock # c
         /\ m_virt_lock = c =>
              InWalk(Thread(c)) \/ InWalk(Fault(c)) \/ "stopped" \in {pc[Thread(c)], pc[Fault(c)]}

(***************************************************************************)
(* The jit area is mapped from its start up to the watermark, or up to the *)
(* progress of the one virt_alloc_range that is under way or has returned  *)
(* and not yet advanced the watermark.  Of two cores that read the same    *)
(* watermark the second finds its first page mapped.                       *)
(***************************************************************************)
Extends(x) == op[x] \in {"range", "cleanup"} /\ undo[x] > 0 /\ pc[x] # "watermark"
Returned(x) == pc[x] = "watermark"

JitOK ==
    /\ \A v \in Jit : pte[v] # Direct
    /\ \A v \in Jit : pte[v] # NULL <=>
         \/ v < m_jit_watermark
         \/ \E x \in Contexts : Extends(x) /\ v < va[x]
         \/ \E x \in Contexts : Returned(x) /\ v <= va[x]
    /\ \A x \in Contexts : Extends(x) =>
         /\ va[x] = m_jit_watermark + undo[x]
         /\ InWalk(x) \/ pc[x] = "stopped"
         /\ m_virt_lock = CoreOf(x)
    /\ \A x \in Contexts : Returned(x) =>
         /\ va[x] = m_jit_watermark + undo[x]
         /\ \A y \in Contexts : Extends(y) \/ Returned(y) => y = x
    /\ \A x \in Contexts : op[x] = "range" /\ undo[x] = 0 => va[x] <= m_jit_watermark

ControlInv == MemoryTypeOK /\ FlowOK /\ LocksOK /\ JitOK
MemoryInv == ControlInv /\ PageHasOneOwner

-----------------------------------------------------------------------------
(* A context is the thread of its core or the fault above it. *)
LEMMA ContextFacts ==
    /\ \A c \in Cores : Thread(c) \in Contexts /\ Fault(c) \in Contexts
    /\ \A c : Thread(c)[2] = "thread" /\ Fault(c)[2] = "fault"
    /\ \A c : CoreOf(Thread(c)) = c /\ CoreOf(Fault(c)) = c
    /\ \A x \in Contexts :
         /\ CoreOf(x) \in Cores
         /\ \/ x = Thread(CoreOf(x)) /\ x[2] = "thread"
            \/ x = Fault(CoreOf(x)) /\ x[2] = "fault"
<1>1. \A c \in Cores : Thread(c) \in Contexts /\ Fault(c) \in Contexts
  BY DEF Contexts, Thread, Fault
<1>2. \A c : Thread(c)[2] = "thread" /\ Fault(c)[2] = "fault"
  BY DEF Thread, Fault
<1>3. \A c : CoreOf(Thread(c)) = c /\ CoreOf(Fault(c)) = c
  BY DEF CoreOf, Thread, Fault
<1>4. ASSUME NEW x \in Contexts
      PROVE  /\ CoreOf(x) \in Cores
             /\ \/ x = Thread(CoreOf(x)) /\ x[2] = "thread"
                \/ x = Fault(CoreOf(x)) /\ x[2] = "fault"
  BY DEF Contexts, Thread, Fault, CoreOf
<1> QED
  BY <1>1, <1>2, <1>3, <1>4

(* phys_alloc takes a page that is free, if there is one. *)
LEMMA TakeFacts ==
    ASSUME NEW S \in SUBSET Pages
    PROVE  /\ Take(S) \in Frames
           /\ S # {} => Take(S) \in S
           /\ S = {} => Take(S) = NULL
  BY DEF Take, Pick, Frames

(* get_next_level stops at an entry of the page table that is not present. *)
LEMMA FirstMissingFacts ==
    ASSUME NEW v \in Virt, Missing(v) # {}
    PROVE  /\ FirstMissing(v) \in Entries
           /\ table[FirstMissing(v)] = NULL
<1>1. Path[v] \in Seq(Entries)
  BY MemoryAssumption
<1>2. Missing(v) \subseteq Nat
  BY <1>1 DEF Missing
<1> DEFINE R == {ss \in Nat \X Nat : ss[1] < ss[2]}
<1>0. IsWellFoundedOn(R, Nat)
  BY NatLessThanWellFounded, Zenon DEF OpToRel
<1>3. PICK k \in Missing(v) : \A m \in Missing(v) : ~(<<m, k>> \in R)
  <2> HIDE DEF R
  <2> QED
    BY <1>0, <1>2, WFMin
<1>4. ASSUME NEW m \in Missing(v) PROVE k <= m
  <2>1. m \in Nat /\ k \in Nat
    BY <1>2
  <2>2. m < k => <<m, k>> \in R
    BY <2>1
  <2> QED
    BY <1>3, <2>1, <2>2
<1>5. (CHOOSE j \in Missing(v) : \A m \in Missing(v) : j <= m) \in Missing(v)
  BY <1>4, Zenon
<1>6. PICK j \in Missing(v) : FirstMissing(v) = Path[v][j]
  BY <1>5, Zenon DEF FirstMissing
<1>7. FirstMissing(v) \in Entries
  BY <1>6 DEF Missing, Entries
<1> QED
  BY <1>6, <1>7 DEF Missing

(***************************************************************************)
(* Every step keeps the types: the page that is freed is one of the        *)
(* allocator's, the range of a virt_alloc_range stays in the jit area.     *)
(***************************************************************************)
LEMMA TypeStepContext ==
    ASSUME MemoryTypeOK, FlowOK, JitOK, NEW x \in Contexts, Alloc(x) \/ Walk(x)
    PROVE  MemoryTypeOK'
<1> USE MemoryAssumption DEF Set, Goto, physVars, virtVars, otherVars, local,
          Labels, Operations, Frames
<1>1. /\ CoreOf(x) \in Cores
      /\ FlowAt(x)
  BY ContextFacts DEF FlowOK
<1>0. ASSUME Done(x)
      PROVE  /\ pc' \in [Contexts -> Labels] /\ op' \in [Contexts -> Operations]
             /\ va' \in [Contexts -> Virt \cup {NULL}]
             /\ left' \in [Contexts -> 0 .. JitPages] /\ undo' \in [Contexts -> 0 .. JitPages]
             /\ want' \in [Contexts -> {"data", "table"}]
             /\ ret' \in [Contexts -> Frames] /\ page' \in [Contexts -> Frames \cup {Direct}]
  BY <1>0 DEF Done, MemoryTypeOK
<1>2. CASE irq_alloc(x)
  BY <1>1, <1>2 DEF irq_alloc, MemoryTypeOK
<1>3. CASE irq_alloc_assert(x)
  BY <1>1, <1>3 DEF irq_alloc_assert, MemoryTypeOK
<1>4. CASE irq_alloc_none(x)
  BY <1>1, <1>4 DEF irq_alloc_none, MemoryTypeOK
<1>5. CASE region_acquire(x)
  BY <1>1, <1>5 DEF region_acquire, MemoryTypeOK
<1>6. CASE phys_alloc_search(x)
  <2>1. Take(pool) \in Frames /\ Take(pool \ {Take(pool)}) \in Frames
    BY TakeFacts DEF MemoryTypeOK
  <2>2. fill_irq_alloc(CoreOf(x), pool \ {Take(pool)})
    BY <1>6 DEF phys_alloc_search
  <2>3. m_reserved_page' \in [Cores -> Frames]
    BY <1>1, <2>1, <2>2, ZenonT(60) DEF fill_irq_alloc, MemoryTypeOK
  <2>4. pool' \subseteq Pages
    BY <2>2 DEF fill_irq_alloc, MemoryTypeOK
  <2> QED
    BY <1>1, <1>6, <2>1, <2>3, <2>4 DEF phys_alloc_search, MemoryTypeOK
<1>7. CASE return_data(x)
  BY <1>1, <1>7 DEF return_data, MemoryTypeOK
<1>8. CASE return_table(x)
  BY <1>1, <1>8 DEF return_table, MemoryTypeOK
<1>9. CASE fail_fault(x)
  BY <1>1, <1>9 DEF fail_fault, MemoryTypeOK
<1>10. CASE fail_walk(x)
  BY <1>0, <1>1, <1>10 DEF fail_walk, MemoryTypeOK
<1>11. CASE fail_range(x)
  <2>1. page[x] # NULL => page[x] \in Pages
    BY <1>1, <1>11 DEF fail_range, range_error, FlowAt, MemoryTypeOK
  <2>2. /\ lost' \subseteq Pages
        /\ UNCHANGED <<physVars, table, pte, exec, m_jit_watermark, held>>
    BY <1>11, <2>1 DEF fail_range, range_error, MemoryTypeOK
  <2>3. CASE undo[x] = 0
    BY <1>0, <1>11, <2>2, <2>3 DEF fail_range, range_error, MemoryTypeOK
  <2>4. CASE undo[x] # 0
    <3>1. /\ op' = Set(op, x, "cleanup") /\ page' = Set(page, x, NULL) /\ Goto(x, "walk")
          /\ UNCHANGED <<m_virt_lock, va, left, undo, want, ret>>
      BY <1>11, <2>4 DEF fail_range, range_error
    <3> QED
      BY <2>2, <3>1 DEF MemoryTypeOK
  <2> QED
    BY <2>3, <2>4
<1>12. CASE fail_cleanup(x)
  BY <1>1, <1>12 DEF fail_cleanup, MemoryTypeOK
<1>13. CASE virt_lock(x)
  BY <1>1, <1>13 DEF virt_lock, MemoryTypeOK
<1>14. CASE get_next_level(x)
  BY <1>1, <1>14 DEF get_next_level, MemoryTypeOK
<1>15. CASE virt_map_page(x)
  <2>1. va[x] \in Virt
    BY <1>1, <1>15 DEF virt_map_page, Leaf, FlowAt, WalkOps, RangeOps
  <2> QED
    BY <1>0, <1>1, <1>15, <2>1 DEF virt_map_page, MemoryTypeOK
<1>16. CASE virt_alloc_range_next(x)
  <2>1. /\ va[x] \in Jit /\ left[x] \in Nat /\ left[x] > 1 /\ va[x] + left[x] <= JitPages
        /\ left[x] <= JitPages
    BY <1>1, <1>16 DEF virt_alloc_range_next, Leaf, FlowAt, MemoryTypeOK
  <2>2. undo[x] \in Nat /\ m_jit_watermark \in Nat
    BY DEF MemoryTypeOK
  <2>3. undo[x] > 0 => va[x] = m_jit_watermark + undo[x]
    BY <1>16 DEF virt_alloc_range_next, Leaf, At, JitOK, Extends
  <2>4. va[x] \in Nat /\ JitPages \in Nat
    BY <2>1 DEF Jit
  <2>5. /\ left[x] - 1 \in 0 .. JitPages
        /\ undo[x] + 1 \in 0 .. JitPages
        /\ va[x] + 1 \in 0 .. JitPages - 1
    BY <2>1, <2>2, <2>3, <2>4, SMTT(60)
  <2>6. va[x] + 1 \in Virt /\ va[x] \in Virt
    BY <2>1, <2>5 DEF Jit
  <2> QED
    BY <1>1, <1>16, <2>5, <2>6 DEF virt_alloc_range_next, MemoryTypeOK
<1>17. CASE virt_alloc_range_done(x)
  <2>1. va[x] \in Virt
    BY <1>1, <1>17 DEF virt_alloc_range_done, Leaf, FlowAt, WalkOps, RangeOps
  <2> QED
    BY <1>1, <1>17, <2>1 DEF virt_alloc_range_done, MemoryTypeOK
<1>18. CASE virt_alloc_range_present(x)
  <2>1. page[x] # NULL => page[x] \in Pages
    BY <1>1, <1>18 DEF virt_alloc_range_present, range_error, FlowAt, MemoryTypeOK
  <2>2. /\ lost' \subseteq Pages
        /\ UNCHANGED <<physVars, table, pte, exec, m_jit_watermark, held>>
    BY <1>18, <2>1 DEF virt_alloc_range_present, range_error, MemoryTypeOK
  <2>3. CASE undo[x] = 0
    BY <1>0, <1>18, <2>2, <2>3 DEF virt_alloc_range_present, range_error, MemoryTypeOK
  <2>4. CASE undo[x] # 0
    <3>1. /\ op' = Set(op, x, "cleanup") /\ page' = Set(page, x, NULL) /\ Goto(x, "walk")
          /\ UNCHANGED <<m_virt_lock, va, left, undo, want, ret>>
      BY <1>18, <2>4 DEF virt_alloc_range_present, range_error
    <3> QED
      BY <2>2, <3>1 DEF MemoryTypeOK
  <2> QED
    BY <2>3, <2>4
<1>19. CASE virt_alloc_range_cleanup(x)
  <2>1. va[x] \in Jit /\ undo[x] > 0
    BY <1>1, <1>19 DEF virt_alloc_range_cleanup, Leaf, FlowAt
  <2>2. pte[va[x]] # NULL => pte[va[x]] \in Pages
    BY <2>1 DEF JitOK, MemoryTypeOK
  <2>3. undo[x] - 1 \in 0 .. JitPages
    BY <2>1 DEF MemoryTypeOK
  <2>4. CASE pte[va[x]] = NULL
    <3>1. Goto(x, "stopped") /\ UNCHANGED <<physVars, virtVars, otherVars, local, op>>
      BY <1>19, <2>4 DEF virt_alloc_range_cleanup
    <3> QED
      BY <3>1 DEF MemoryTypeOK
  <2>5. CASE pte[va[x]] # NULL
    <3>1. /\ pool' = pool \cup {pte[va[x]]}
          /\ pte' = Set(pte, va[x], NULL)
          /\ exec' = exec \ {va[x]}
          /\ UNCHANGED <<m_memory_region_lock, m_lock_cpu, m_reserved_page, table, otherVars>>
      BY <1>19, <2>5 DEF virt_alloc_range_cleanup
    <3>2. CASE undo[x] = 1
      <4>1. m_virt_lock' = NULL /\ Done(x)
        BY <1>19, <2>5, <3>2 DEF virt_alloc_range_cleanup
      <4>2. /\ pool' \subseteq Pages /\ exec' \subseteq Virt
            /\ pte' \in [Virt -> Frames \cup {Direct}]
        BY <2>2, <2>5, <3>1 DEF MemoryTypeOK
      <4> QED
        BY <1>0, <3>1, <4>1, <4>2 DEF MemoryTypeOK
    <3>3. CASE undo[x] # 1
      <4>1. /\ undo' = Set(undo, x, undo[x] - 1)
            /\ UNCHANGED <<m_virt_lock, pc, op, va, left, want, ret, page>>
        BY <1>19, <2>5, <3>3 DEF virt_alloc_range_cleanup
      <4> QED
        BY <2>2, <2>3, <2>5, <3>1, <4>1 DEF MemoryTypeOK
    <3> QED
      BY <3>2, <3>3
  <2> QED
    BY <2>4, <2>5
<1>20. CASE virt_remap_range(x)
  <2>1. va[x] \in Virt
    BY <1>1, <1>20 DEF virt_remap_range, Leaf, FlowAt, WalkOps, RangeOps
  <2> QED
    BY <1>0, <1>1, <1>20, <2>1 DEF virt_remap_range, MemoryTypeOK
<1>21. CASE is_mapped_done(x)
  BY <1>0, <1>1, <1>21 DEF is_mapped_done, MemoryTypeOK
<1>22. CASE phys_alloc_record(x)
  BY <1>1, <1>22 DEF phys_alloc_record, MemoryTypeOK
<1>23. CASE phys_alloc_clear(x)
  BY <1>1, <1>23 DEF phys_alloc_clear, MemoryTypeOK
<1>24. CASE region_release(x)
  <2>1. /\ m_memory_region_lock' = NULL
        /\ UNCHANGED <<pool, m_lock_cpu, m_reserved_page, virtVars, otherVars>>
        /\ Done(x) \/ (Goto(x, "ret") /\ UNCHANGED <<local, op>>)
    BY <1>24 DEF region_release
  <2>2. CASE Done(x)
    BY <1>0, <2>1, <2>2 DEF MemoryTypeOK
  <2>3. CASE Goto(x, "ret") /\ UNCHANGED <<local, op>>
    BY <2>1, <2>3 DEF MemoryTypeOK
  <2> QED
    BY <2>1, <2>2, <2>3
<1>25. CASE init_phys_per_cpu_fill(x)
  <2>1. Take(pool) \in Frames
    BY TakeFacts DEF MemoryTypeOK
  <2>2. fill_irq_alloc(CoreOf(x), pool)
    BY <1>25 DEF init_phys_per_cpu_fill
  <2>3. m_reserved_page' \in [Cores -> Frames]
    BY <1>1, <2>1, <2>2, ZenonT(60) DEF fill_irq_alloc, MemoryTypeOK
  <2>4. pool' \subseteq Pages
    BY <2>2 DEF fill_irq_alloc, MemoryTypeOK
  <2> QED
    BY <1>1, <1>25, <2>3, <2>4 DEF init_phys_per_cpu_fill, MemoryTypeOK
<1>26. CASE phys_free_insert(x)
  <2>1. page[x] \in Pages
    BY <1>1, <1>26 DEF phys_free_insert, At, FlowAt, MemoryTypeOK
  <2> QED
    BY <1>1, <1>26, <2>1 DEF phys_free_insert, MemoryTypeOK
<1>27. CASE jit_alloc_watermark(x)
  <2>1. va[x] \in Jit /\ undo[x] \in Nat /\ m_jit_watermark \in Nat
    BY <1>1, <1>27 DEF jit_alloc_watermark, At, FlowAt, MemoryTypeOK
  <2>2. va[x] = m_jit_watermark + undo[x]
    BY <1>27 DEF jit_alloc_watermark, At, JitOK, Returned
  <2>3. m_jit_watermark + undo[x] + 1 \in 0 .. JitPages
    BY <2>1, <2>2 DEF Jit
  <2>4. /\ Done(x) /\ m_jit_watermark' \in 0 .. JitPages
        /\ UNCHANGED <<physVars, virtVars, held, lost>>
    BY <1>27, <2>3 DEF jit_alloc_watermark
  <2> QED
    BY <1>0, <2>4 DEF MemoryTypeOK
<1> QED
  BY <1>2, <1>3, <1>4, <1>5, <1>6, <1>7, <1>8, <1>9, <1>10, <1>11, <1>12, <1>13, <1>14, <1>15, <1>16, <1>17, <1>18, <1>19, <1>20, <1>21, <1>22, <1>23, <1>24, <1>25, <1>26, <1>27 DEF Alloc, Walk

LEMMA TypeStepCall ==
    ASSUME MemoryTypeOK, FlowOK, NEW c \in Cores, Calls(c)
    PROVE  MemoryTypeOK'
<1> USE MemoryAssumption DEF Set, Goto, physVars, virtVars, otherVars, local,
          Labels, Operations, Frames
<1>1. Thread(c) \in Contexts /\ Fault(c) \in Contexts
  BY ContextFacts
<1>2. CASE init_phys_per_cpu(c)
  BY <1>1, <1>2 DEF init_phys_per_cpu, MemoryTypeOK
<1>3. CASE phys_free(c)
  BY <1>1, <1>3 DEF phys_free, MemoryTypeOK
<1>4. ASSUME NEW o \in {"alloc", "range", "remap", "mapped"}, NEW v \in Virt \cup {NULL},
             NEW n \in 0 .. JitPages, NEW l \in {"irq_alloc", "vlock"},
             Call(c, o, v, n), Goto(Thread(c), l)
      PROVE  MemoryTypeOK'
  BY <1>1, <1>4 DEF Call, MemoryTypeOK
<1>5. CASE call_phys_alloc(c)
  <2>1. Call(c, "alloc", NULL, 0) /\ Goto(Thread(c), "irq_alloc")
    BY <1>5 DEF call_phys_alloc
  <2>2. NULL \in Virt \cup {NULL} /\ 0 \in 0 .. JitPages
    OBVIOUS
  <2> QED
    BY <1>4, <2>1, <2>2
<1>6. CASE tdn_host_jit_alloc(c)
  <2>1. PICK n \in 1 .. JitPages :
          /\ m_jit_watermark + n <= JitPages
          /\ Call(c, "range", m_jit_watermark, n)
          /\ Goto(Thread(c), "vlock")
    BY <1>6 DEF tdn_host_jit_alloc
  <2>2. m_jit_watermark \in Virt /\ n \in 0 .. JitPages
    BY <2>1 DEF Jit, MemoryTypeOK
  <2> QED
    BY <1>4, <2>1, <2>2
<1>7. CASE tdn_host_jit_set_exec(c)
  <2>1. PICK v \in 0 .. m_jit_watermark - 1 : Call(c, "remap", v, 1) /\ Goto(Thread(c), "vlock")
    BY <1>7 DEF tdn_host_jit_set_exec
  <2>2. v \in Virt /\ 1 \in 0 .. JitPages
    BY DEF Jit, MemoryTypeOK
  <2> QED
    BY <1>4, <2>1, <2>2
<1>8. CASE virt_is_mapped(c)
  <2>1. PICK v \in Touch[c] : Call(c, "mapped", v, 1) /\ Goto(Thread(c), "vlock")
    BY <1>8 DEF virt_is_mapped
  <2>2. v \in Virt /\ 1 \in 0 .. JitPages
    OBVIOUS
  <2> QED
    BY <1>4, <2>1, <2>2
<1>9. CASE virt_handle_page_fault(c)
  <2> DEFINE x == Fault(c)
  <2>1. PICK v \in Touch[c] :
          /\ op' = Set(op, x, "fault") /\ va' = Set(va, x, v) /\ want' = Set(want, x, "data")
          /\ \E l \in Labels : Goto(x, l)
          /\ page' = page \/ page' = Set(page, x, Direct)
          /\ UNCHANGED <<physVars, virtVars, otherVars, left, undo, ret>>
    BY <1>9 DEF virt_handle_page_fault
  <2>2. v \in Virt
    OBVIOUS
  <2> HIDE DEF x
  <2>3. /\ op' \in [Contexts -> Operations] /\ va' \in [Contexts -> Virt \cup {NULL}]
        /\ want' \in [Contexts -> {"data", "table"}]
    BY <2>1, <2>2 DEF MemoryTypeOK
  <2>5. PICK l \in Labels : Goto(x, l)
    BY <2>1
  <2>6. pc' \in [Contexts -> Labels]
    BY <2>5 DEF MemoryTypeOK
  <2>4. page' \in [Contexts -> Frames \cup {Direct}]
    BY <2>1 DEF MemoryTypeOK
  <2> QED
    BY <2>1, <2>3, <2>4, <2>6 DEF MemoryTypeOK
<1>10. CASE return_to_thread(c)
  <2>1. held' \in [Cores -> SUBSET Pages]
    BY <1>1, <1>10 DEF return_to_thread, MemoryTypeOK
  <2> QED
    BY <1>1, <1>10, <2>1 DEF return_to_thread, Done, MemoryTypeOK
<1> QED
  BY <1>2, <1>3, <1>5, <1>6, <1>7, <1>8, <1>9, <1>10 DEF Calls

LEMMA TypeInit == Init => MemoryTypeOK
  BY MemoryAssumption DEF Init, MemoryTypeOK, Frames, Labels, Operations

-----------------------------------------------------------------------------
(* A step of one context leaves what the others are doing alone. *)
SameAt(y) ==
    /\ pc'[y] = pc[y] /\ op'[y] = op[y] /\ va'[y] = va[y] /\ left'[y] = left[y]
    /\ undo'[y] = undo[y] /\ want'[y] = want[y] /\ ret'[y] = ret[y] /\ page'[y] = page[y]

LEMMA FrameContext ==
    ASSUME MemoryTypeOK, NEW x \in Contexts, NEW y \in Contexts, x # y, Alloc(x) \/ Walk(x)
    PROVE  SameAt(y)
<1> USE DEF SameAt, Set, Goto, local, MemoryTypeOK
<1>1. CASE irq_alloc(x)
  BY <1>1 DEF irq_alloc
<1>2. CASE irq_alloc_assert(x)
  BY <1>2 DEF irq_alloc_assert
<1>3. CASE irq_alloc_none(x)
  BY <1>3 DEF irq_alloc_none
<1>4. CASE region_acquire(x)
  BY <1>4 DEF region_acquire
<1>5. CASE phys_alloc_search(x)
  BY <1>5 DEF phys_alloc_search
<1>6. CASE return_data(x)
  BY <1>6 DEF return_data
<1>7. CASE return_table(x)
  BY <1>7 DEF return_table
<1>8. CASE fail_fault(x)
  BY <1>8 DEF fail_fault
<1>9. CASE fail_walk(x)
  BY <1>9 DEF fail_walk, Done
<1>10. CASE fail_range(x)
  BY <1>10 DEF fail_range, range_error, Done
<1>11. CASE fail_cleanup(x)
  BY <1>11 DEF fail_cleanup
<1>12. CASE virt_lock(x)
  BY <1>12 DEF virt_lock
<1>13. CASE get_next_level(x)
  BY <1>13 DEF get_next_level
<1>14. CASE virt_map_page(x)
  BY <1>14 DEF virt_map_page, Done
<1>15. CASE virt_alloc_range_next(x)
  BY <1>15 DEF virt_alloc_range_next
<1>16. CASE virt_alloc_range_done(x)
  BY <1>16 DEF virt_alloc_range_done
<1>17. CASE virt_alloc_range_present(x)
  BY <1>17 DEF virt_alloc_range_present, range_error, Done
<1>18. CASE virt_alloc_range_cleanup(x)
  BY <1>18 DEF virt_alloc_range_cleanup, Done
<1>19. CASE virt_remap_range(x)
  BY <1>19 DEF virt_remap_range, Done
<1>20. CASE is_mapped_done(x)
  BY <1>20 DEF is_mapped_done, Done
<1>21. CASE phys_alloc_record(x) \/ phys_alloc_clear(x)
  BY <1>21 DEF phys_alloc_record, phys_alloc_clear
<1>22. CASE region_release(x)
  BY <1>22 DEF region_release, Done
<1>23. CASE init_phys_per_cpu_fill(x) \/ phys_free_insert(x)
  BY <1>23 DEF init_phys_per_cpu_fill, phys_free_insert
<1>24. CASE jit_alloc_watermark(x)
  BY <1>24 DEF jit_alloc_watermark, Done
<1> QED
  BY <1>1, <1>2, <1>3, <1>4, <1>5, <1>6, <1>7, <1>8, <1>9, <1>10, <1>11, <1>12, <1>13, <1>14, <1>15, <1>16, <1>17, <1>18, <1>19, <1>20, <1>21, <1>22, <1>23, <1>24 DEF Alloc, Walk

(* The calls of a thread, as opposed to the page faults of its core. *)
ThreadCalls(c) ==
    \/ init_phys_per_cpu(c) \/ phys_free(c) \/ call_phys_alloc(c)
    \/ tdn_host_jit_alloc(c) \/ tdn_host_jit_set_exec(c) \/ virt_is_mapped(c)
    \/ return_to_thread(c)

LEMMA FrameThread ==
    ASSUME MemoryTypeOK, NEW c \in Cores, NEW y \in Contexts, ThreadCalls(c), y # Thread(c)
    PROVE  SameAt(y)
<1> USE DEF SameAt, Set, Goto, local, MemoryTypeOK
<1>1. CASE init_phys_per_cpu(c)
  BY <1>1 DEF init_phys_per_cpu
<1>2. CASE phys_free(c)
  BY <1>2 DEF phys_free
<1>3. CASE call_phys_alloc(c)
  BY <1>3 DEF call_phys_alloc, Call
<1>4. CASE tdn_host_jit_alloc(c)
  BY <1>4 DEF tdn_host_jit_alloc, Call
<1>5. CASE tdn_host_jit_set_exec(c)
  BY <1>5 DEF tdn_host_jit_set_exec, Call
<1>6. CASE virt_is_mapped(c)
  BY <1>6 DEF virt_is_mapped, Call
<1>7. CASE return_to_thread(c)
  BY <1>7 DEF return_to_thread, Done
<1> QED
  BY <1>1, <1>2, <1>3, <1>4, <1>5, <1>6, <1>7 DEF ThreadCalls

LEMMA FrameFault ==
    ASSUME MemoryTypeOK, NEW c \in Cores, NEW y \in Contexts, virt_handle_page_fault(c), y # Fault(c)
    PROVE  SameAt(y)
  BY DEF virt_handle_page_fault, SameAt, Set, Goto, local, MemoryTypeOK

LEMMA FlowFrame ==
    ASSUME NEW y \in Contexts, FlowAt(y), SameAt(y),
           table' = table \/ ~(pc[y] \in InPhysAlloc /\ want[y] = "table")
    PROVE  FlowAt(y)'
<1>1. CASE table' = table
  BY <1>1 DEF FlowAt, SameAt, Missing
<1>2. CASE ~(pc[y] \in InPhysAlloc /\ want[y] = "table")
  BY <1>2 DEF FlowAt, SameAt
<1> QED
  BY <1>1, <1>2

(***************************************************************************)
(* A context in a walk is alone in it: nobody else fills in tables.        *)
(***************************************************************************)
LEMMA AloneInWalk ==
    ASSUME LocksOK, NEW x \in Contexts, NEW y \in Contexts, InWalk(x), InWalk(y)
    PROVE  x = y
<1>1. CoreOf(x) = CoreOf(y)
  BY DEF LocksOK
<1>2. CoreOf(x) \in Cores
  BY ContextFacts
<1>3. ~(InWalk(Thread(CoreOf(x))) /\ InWalk(Fault(CoreOf(x))))
  BY <1>2 DEF LocksOK
<1> QED
  BY <1>1, <1>3, ContextFacts

(***************************************************************************)
(* Every step of a context leaves it in an orderly state: one of           *)
(* phys_alloc, of its callers' next step, or of the walk.                  *)
(***************************************************************************)
LEMMA FlowStepContext ==
    ASSUME MemoryTypeOK, FlowOK, LocksOK, JitOK, NEW x \in Contexts, Alloc(x) \/ Walk(x)
    PROVE  FlowOK'
<1>1. FlowAt(x)
  BY DEF FlowOK
<1>2. ASSUME NEW y \in Contexts, y # x
      PROVE  FlowAt(y)'
  <2>1. FlowAt(y) /\ SameAt(y)
    BY <1>2, FrameContext DEF FlowOK
  <2>2. CASE return_table(x)
    <3>1. InWalk(x)
      BY <1>1, <2>2 DEF return_table, At, InWalk, RangeOps, FlowAt, WalkOps, InPhysAlloc
    <3>2. ~InWalk(y)
      BY <1>2, <3>1, AloneInWalk
    <3>3. ~(pc[y] \in InPhysAlloc /\ want[y] = "table")
      BY <2>1, <3>2 DEF FlowAt, InWalk, RangeOps, WalkOps, InPhysAlloc
    <3> QED
      BY <2>1, <3>3, FlowFrame
  <2>3. CASE ~return_table(x)
    <3>1. table' = table
      BY <2>3 DEF Alloc, Walk, irq_alloc, irq_alloc_assert, irq_alloc_none, region_acquire,
            phys_alloc_record, phys_alloc_clear, region_release, init_phys_per_cpu_fill,
            phys_free_insert, jit_alloc_watermark, phys_alloc_search, return_data, fail_fault, fail_walk, fail_range, fail_cleanup,
            range_error, virt_lock, get_next_level, virt_map_page, virt_alloc_range_next,
            virt_alloc_range_done, virt_alloc_range_present, virt_alloc_range_cleanup,
            virt_remap_range, is_mapped_done, virtVars
    <3> QED
      BY <2>1, <3>1, FlowFrame
  <2> QED
    BY <2>2, <2>3
<1>3. FlowAt(x)'
  <2> USE MemoryAssumption, <1>1 DEF Set, Goto, At, physVars, virtVars, otherVars, local,
            FlowAt, WalkOps, RangeOps, InPhysAlloc, MemoryTypeOK, Missing
  <2>1. CASE irq_alloc(x)
    BY <2>1 DEF irq_alloc
  <2>2. CASE irq_alloc_assert(x)
    BY <2>2 DEF irq_alloc_assert
  <2>3. CASE irq_alloc_none(x)
    BY <2>3 DEF irq_alloc_none
  <2>4. CASE region_acquire(x)
    BY <2>4 DEF region_acquire
  <2>5. CASE phys_alloc_search(x)
    BY <2>5 DEF phys_alloc_search
  <2>6. CASE return_data(x)
    BY <2>6 DEF return_data, Frames
  <2>7. CASE return_table(x)
    BY <2>7 DEF return_table
  <2>8. CASE fail_fault(x)
    BY <2>8 DEF fail_fault, OutOfMemory
  <2>9. CASE fail_walk(x)
    BY <2>9 DEF fail_walk, Done, OutOfMemory
  <2>10. CASE fail_range(x)
    BY <2>10 DEF fail_range, range_error, Done, OutOfMemory
  <2>11. CASE fail_cleanup(x)
    BY <2>11 DEF fail_cleanup, OutOfMemory
  <2>12. CASE virt_lock(x)
    BY <2>12 DEF virt_lock, Leaf
  <2>13. CASE get_next_level(x)
    BY <2>13 DEF get_next_level
  <2>14. CASE virt_map_page(x)
    BY <2>14 DEF virt_map_page, Done, Leaf
  <2>15. CASE virt_alloc_range_next(x)
    <3>1. /\ va[x] \in Jit /\ left[x] \in Nat /\ left[x] > 1 /\ va[x] + left[x] <= JitPages
      BY <2>15 DEF virt_alloc_range_next, Leaf
    <3>2. /\ va[x] + 1 \in Jit /\ left[x] - 1 >= 1
          /\ (va[x] + 1) + (left[x] - 1) <= JitPages
      BY <3>1 DEF Jit
    <3> QED
      BY <2>15, <3>2 DEF virt_alloc_range_next, Leaf
  <2>16. CASE virt_alloc_range_done(x)
    BY <2>16 DEF virt_alloc_range_done, Leaf
  <2>17. CASE virt_alloc_range_present(x)
    BY <2>17 DEF virt_alloc_range_present, range_error, Done, Leaf
  <2>18. CASE virt_alloc_range_cleanup(x)
    BY <2>18 DEF virt_alloc_range_cleanup, Done, Leaf
  <2>19. CASE virt_remap_range(x)
    BY <2>19 DEF virt_remap_range, Done, Leaf
  <2>20. CASE is_mapped_done(x)
    BY <2>20 DEF is_mapped_done, Done, Leaf
  <2>21. CASE phys_alloc_record(x)
    BY <2>21 DEF phys_alloc_record
  <2>22. CASE phys_alloc_clear(x)
    BY <2>22 DEF phys_alloc_clear
  <2>23. CASE region_release(x)
    <3>1. CASE op[x] \in {"init", "free"}
      <4>1. Done(x)
        BY <2>23, <3>1 DEF region_release
      <4> QED
        BY <4>1 DEF Done
    <3>2. CASE op[x] \notin {"init", "free"}
      BY <2>23, <3>2 DEF region_release
    <3> QED
      BY <3>1, <3>2
  <2>24. CASE init_phys_per_cpu_fill(x)
    BY <2>24 DEF init_phys_per_cpu_fill
  <2>25. CASE phys_free_insert(x)
    BY <2>25 DEF phys_free_insert
  <2>26. CASE jit_alloc_watermark(x)
    BY <2>26 DEF jit_alloc_watermark, Done
  <2> QED
    BY <2>1, <2>2, <2>3, <2>4, <2>5, <2>6, <2>7, <2>8, <2>9, <2>10, <2>11, <2>12, <2>13, <2>14, <2>15, <2>16, <2>17, <2>18, <2>19, <2>20, <2>21, <2>22, <2>23, <2>24, <2>25, <2>26 DEF Alloc, Walk
<1> QED
  BY <1>2, <1>3 DEF FlowOK

LEMMA FlowStepCall ==
    ASSUME MemoryTypeOK, FlowOK, JitOK, NEW c \in Cores, Calls(c)
    PROVE  FlowOK'
<1>1. /\ Thread(c) \in Contexts /\ Fault(c) \in Contexts
      /\ Thread(c)[2] = "thread" /\ Fault(c)[2] = "fault"
      /\ FlowAt(Thread(c)) /\ FlowAt(Fault(c))
  BY ContextFacts DEF FlowOK
<1>2. table' = table
  BY DEF Calls, init_phys_per_cpu, phys_free, call_phys_alloc, tdn_host_jit_alloc,
         tdn_host_jit_set_exec, virt_is_mapped, Call, virt_handle_page_fault,
         return_to_thread, virtVars
<1> USE MemoryAssumption DEF Set, Goto, At, physVars, virtVars, otherVars, local,
          FlowAt, WalkOps, RangeOps, InPhysAlloc, MemoryTypeOK
<1>3. CASE ThreadCalls(c)
  <2> DEFINE x == Thread(c)
  <2>0. x \in Contexts /\ x[2] = "thread" /\ FlowAt(x)
    BY <1>1
  <2>1. ASSUME init_phys_per_cpu(c) PROVE FlowAt(x)'
    <3>1. /\ pc' = [pc EXCEPT ![x] = "lock"] /\ pc[x] = "boot" /\ UNCHANGED local
          /\ op' = [op EXCEPT ![x] = "init"]
      BY <2>1 DEF init_phys_per_cpu
    <3> HIDE DEF x
    <3> QED
      BY <2>0, <3>1
  <2>2. ASSUME phys_free(c) PROVE FlowAt(x)'
    <3>1. PICK p \in held[c] : page' = Set(page, x, p)
      BY <2>2 DEF phys_free
    <3>2. /\ pc' = [pc EXCEPT ![x] = "lock"] /\ pc[x] = "idle"
          /\ op' = [op EXCEPT ![x] = "free"]
          /\ UNCHANGED <<va, left, undo, want, ret>>
      BY <2>2 DEF phys_free
    <3>3. p \in Pages
      OBVIOUS
    <3> HIDE DEF x
    <3> QED
      BY <2>0, <3>1, <3>2, <3>3
  <2>3. ASSUME NEW o \in {"alloc", "range", "remap", "mapped"}, NEW v, NEW n \in 0 .. JitPages, NEW l,
               Call(c, o, v, n), Goto(x, l),
               (o = "alloc" /\ l = "irq_alloc") \/ (o # "alloc" /\ l = "vlock" /\ v \in Virt),
               o = "range" => v \in Jit /\ n >= 1 /\ v + n <= JitPages
        PROVE  FlowAt(x)'
    <3>1. /\ pc[x] = "idle" /\ ret' = ret /\ page' = page
          /\ op' = [op EXCEPT ![x] = o] /\ va' = [va EXCEPT ![x] = v]
          /\ left' = [left EXCEPT ![x] = n] /\ want' = [want EXCEPT ![x] = "data"]
          /\ undo' = [undo EXCEPT ![x] = 0] /\ pc' = [pc EXCEPT ![x] = l]
      BY <2>3 DEF Call
    <3>2. ret[x] = NULL /\ page[x] = NULL
      BY <2>0, <3>1
    <3> HIDE DEF x
    <3> QED
      BY <2>0, <2>3, <3>1, <3>2
  <2>4. ASSUME call_phys_alloc(c) PROVE FlowAt(x)'
    <3>1. Call(c, "alloc", NULL, 0) /\ Goto(x, "irq_alloc") /\ 0 \in 0 .. JitPages
      BY <2>4 DEF call_phys_alloc
    <3> HIDE DEF FlowAt
    <3> QED
      BY <2>3, <3>1
  <2>5. ASSUME tdn_host_jit_alloc(c) PROVE FlowAt(x)'
    <3>1. PICK n \in 1 .. JitPages :
            /\ m_jit_watermark + n <= JitPages
            /\ Call(c, "range", m_jit_watermark, n)
            /\ Goto(Thread(c), "vlock")
      BY <2>5 DEF tdn_host_jit_alloc
    <3>2. m_jit_watermark \in Jit /\ m_jit_watermark \in Virt /\ n \in 0 .. JitPages /\ n >= 1
      BY <3>1 DEF Jit
    <3> HIDE DEF FlowAt
    <3> QED
      BY <2>3, <3>1, <3>2
  <2>6. ASSUME tdn_host_jit_set_exec(c) PROVE FlowAt(x)'
    <3>1. PICK v \in 0 .. m_jit_watermark - 1 : Call(c, "remap", v, 1) /\ Goto(Thread(c), "vlock")
      BY <2>6 DEF tdn_host_jit_set_exec
    <3>2. v \in Virt /\ 1 \in 0 .. JitPages
      BY DEF Jit
    <3> HIDE DEF FlowAt
    <3> QED
      BY <2>3, <3>1, <3>2
  <2>7. ASSUME virt_is_mapped(c) PROVE FlowAt(x)'
    <3>1. PICK v \in Touch[c] : Call(c, "mapped", v, 1) /\ Goto(Thread(c), "vlock")
      BY <2>7 DEF virt_is_mapped
    <3>2. v \in Virt /\ 1 \in 0 .. JitPages
      OBVIOUS
    <3> HIDE DEF FlowAt
    <3> QED
      BY <2>3, <3>1, <3>2
  <2>8. ASSUME return_to_thread(c) PROVE FlowAt(x)'
    <3>1. Done(x)
      BY <2>8 DEF return_to_thread
    <3> HIDE DEF x
    <3> QED
      BY <2>0, <3>1 DEF Done
  <2>9. FlowAt(x)'
    <3> HIDE DEF FlowAt, x
    <3> QED
      BY <1>3, <2>1, <2>2, <2>4, <2>5, <2>6, <2>7, <2>8 DEF ThreadCalls
  <2>10. ASSUME NEW y \in Contexts, y # x PROVE FlowAt(y)'
    <3>1. FlowAt(y) /\ SameAt(y)
      BY <1>3, <2>10, FrameThread DEF FlowOK
    <3> QED
      BY <1>2, <3>1, FlowFrame
  <2> QED
    <3> HIDE DEF FlowAt, x
    <3> QED
      BY <2>9, <2>10 DEF FlowOK
<1>4. CASE virt_handle_page_fault(c)
  <2> DEFINE x == Fault(c)
  <2>1. PICK v \in Touch[c] :
          /\ pc[x] = "idle"
          /\ op' = Set(op, x, "fault") /\ va' = Set(va, x, v) /\ want' = Set(want, x, "data")
          /\ \/ Area[v] = "lazy" /\ Goto(x, "irq_alloc") /\ UNCHANGED page
             \/ Area[v] = "direct" /\ Goto(x, "vlock") /\ page' = Set(page, x, Direct)
             \/ Area[v] \in {"guard", "jit"} /\ Goto(x, "stopped") /\ UNCHANGED page
          /\ UNCHANGED <<left, undo, ret>>
    BY <1>4 DEF virt_handle_page_fault, MayFault
  <2>2. x \in Contexts /\ x[2] = "fault" /\ FlowAt(x) /\ v \in Virt
    BY <1>1
  <2>3. FlowAt(x)'
    <3> HIDE DEF x
    <3>1. ret[x] = NULL /\ page[x] = NULL
      BY <2>1, <2>2
    <3> QED
      BY <2>1, <2>2, <3>1
  <2>4. ASSUME NEW y \in Contexts, y # x PROVE FlowAt(y)'
    <3>1. FlowAt(y) /\ SameAt(y)
      BY <1>4, <2>4, FrameFault DEF FlowOK
    <3> QED
      BY <1>2, <3>1, FlowFrame
  <2> QED
    <3> HIDE DEF FlowAt, x
    <3> QED
      BY <2>3, <2>4 DEF FlowOK
<1> QED
  BY <1>3, <1>4 DEF Calls, ThreadCalls

LEMMA FlowInit == Init => FlowOK
  BY ContextFacts, MemoryAssumption DEF Init, FlowOK, FlowAt, WalkOps, RangeOps, InPhysAlloc, Contexts

-----------------------------------------------------------------------------
(***************************************************************************)
(* What a step of context x does to the locks: it leaves one alone, takes  *)
(* it when it is free, or releases what x holds.  A core that stops keeps  *)
(* what it has.                                                            *)
(***************************************************************************)
RegionEffect(x) ==
    \/ m_memory_region_lock' = m_memory_region_lock /\ (InRegion(x)' <=> InRegion(x))
    \/ m_memory_region_lock = NULL /\ m_memory_region_lock' = CoreOf(x) /\ InRegion(x)'
    \/ InRegion(x) /\ m_memory_region_lock' = NULL /\ ~InRegion(x)'

RecordEffect(x) ==
    \/ m_lock_cpu' = m_lock_cpu /\ (Recorded(x)' <=> Recorded(x))
    \/ InRegion(x) /\ m_lock_cpu' = CoreOf(x)
    \/ InRegion(x) /\ ~Recorded(x)'

VirtEffect(x) ==
    \/ m_virt_lock' = m_virt_lock /\ InWalk(x)' = InWalk(x)
    \/ m_virt_lock' = m_virt_lock /\ pc'[x] = "stopped"
    \/ m_virt_lock = NULL /\ m_virt_lock' = CoreOf(x) /\ InWalk(x)'
    \/ InWalk(x) /\ m_virt_lock' = NULL /\ ~InWalk(x)'

LockEffect(x) ==
    /\ GrowsOutsideWindows /\ x[2] = "fault" /\ pc'[x] = "lock" =>
         m_memory_region_lock' # CoreOf(x)
    /\ RegionEffect(x)
    /\ RecordEffect(x)
    /\ VirtEffect(x)

(* The same for the allocator's lists. *)
LEMMA AloneInRegion ==
    ASSUME LocksOK, NEW x \in Contexts, NEW y \in Contexts, InRegion(x), InRegion(y)
    PROVE  x = y
<1>1. CoreOf(x) = CoreOf(y)
  BY DEF LocksOK
<1>2. CoreOf(x) \in Cores
  BY ContextFacts
<1>3. ~(InRegion(Thread(CoreOf(x))) /\ InRegion(Fault(CoreOf(x))))
  BY <1>2 DEF LocksOK
<1> QED
  BY <1>1, <1>3, ContextFacts

(* Steps with these effects keep the locks in order. *)
LEMMA LocksStep ==
    ASSUME MemoryTypeOK, LocksOK, NEW x \in Contexts, LockEffect(x),
           Runs(x), pc[x] # "stopped",
           x[2] = "fault" /\ pc[x] = "idle" => MayFault(CoreOf(x)),
           \A y \in Contexts : y # x => SameAt(y)
    PROVE  LocksOK'
<1>1. CoreOf(x) \in Cores /\ NULL \notin Cores
  BY ContextFacts, MemoryAssumption
<1>2. \A y \in Contexts : y # x => /\ pc'[y] = pc[y] /\ op'[y] = op[y]
                                   /\ InWalk(y)' = InWalk(y)
                                   /\ InRegion(y)' = InRegion(y) /\ Recorded(y)' = Recorded(y)
  BY DEF SameAt, InWalk, InRegion, Recorded
<1>3. pc'[x] = "stopped" => ~InWalk(x)'
  BY DEF InWalk, InPhysAlloc
<1>4. ASSUME NEW y \in Contexts, InRegion(y)'
      PROVE  m_memory_region_lock' = CoreOf(y)
  <2>1. CASE y = x
    BY <1>4, <2>1 DEF LockEffect, RegionEffect, LocksOK
  <2>2. CASE y # x
    <3>1. InRegion(y) /\ m_memory_region_lock = CoreOf(y) /\ CoreOf(y) \in Cores
      BY <1>2, <1>4, <2>2, ContextFacts DEF LocksOK
    <3>2. ~InRegion(x)
      BY <2>2, <3>1, AloneInRegion
    <3> QED
      BY <1>1, <3>1, <3>2 DEF LockEffect, RegionEffect
  <2> QED
    BY <2>1, <2>2
<1>11. ASSUME NEW y \in Contexts, Recorded(y)'
       PROVE  m_lock_cpu' = CoreOf(y)
  <2>1. CASE y = x
    BY <1>11, <2>1 DEF LockEffect, RecordEffect, LocksOK
  <2>2. CASE y # x
    <3>1. Recorded(y) /\ InRegion(y) /\ m_lock_cpu = CoreOf(y)
      BY <1>2, <1>11, <2>2 DEF LocksOK, Recorded, InRegion
    <3>2. ~InRegion(x)
      BY <2>2, <3>1, AloneInRegion
    <3> QED
      BY <3>1, <3>2 DEF LockEffect, RecordEffect
  <2> QED
    BY <2>1, <2>2
<1>12. ASSUME NEW c \in Cores, m_memory_region_lock' = c
       PROVE  InRegion(Thread(c))' \/ InRegion(Fault(c))'
  <2>1. /\ Thread(c) \in Contexts /\ Fault(c) \in Contexts
        /\ CoreOf(Thread(c)) = c /\ CoreOf(Fault(c)) = c /\ c # NULL
        /\ CoreOf(x) = c => x = Thread(c) \/ x = Fault(c)
    BY ContextFacts, MemoryAssumption
  <2>2. CASE m_memory_region_lock # c
    BY <1>12, <2>1, <2>2 DEF LockEffect, RegionEffect
  <2>3. CASE m_memory_region_lock = c
    <3>1. InRegion(Thread(c)) \/ InRegion(Fault(c))
      BY <2>3 DEF LocksOK
    <3> QED
      BY <1>2, <1>12, <2>1, <2>3, <3>1 DEF LockEffect, RegionEffect
  <2> QED
    BY <2>2, <2>3
<1>5. ASSUME NEW y \in Contexts, InWalk(y)'
      PROVE  m_virt_lock' = CoreOf(y)
  <2>1. CASE y = x
    BY <1>3, <1>5, <2>1 DEF LockEffect, VirtEffect, LocksOK
  <2>2. CASE y # x
    <3>1. InWalk(y) /\ m_virt_lock = CoreOf(y) /\ CoreOf(y) \in Cores
      BY <1>2, <1>5, <2>2, ContextFacts DEF LocksOK
    <3>2. ~InWalk(x)
      BY <2>2, <3>1, AloneInWalk
    <3> QED
      BY <1>1, <3>1, <3>2 DEF LockEffect, VirtEffect
  <2> QED
    BY <2>1, <2>2
<1>6. ASSUME NEW c \in Cores, InRegion(Thread(c))', InRegion(Fault(c))'
      PROVE  FALSE
  <2>1. x = Thread(c) \/ x = Fault(c) \/ CoreOf(x) # c
    BY ContextFacts
  <2>2. Thread(c) # Fault(c) /\ Thread(c) \in Contexts /\ Fault(c) \in Contexts
    BY ContextFacts
  <2>3. ~(InRegion(Thread(c)) /\ InRegion(Fault(c)))
    BY DEF LocksOK
  <2>4. CoreOf(Thread(c)) = c /\ CoreOf(Fault(c)) = c /\ c # NULL
    BY ContextFacts, MemoryAssumption
  <2>5. CASE x = Thread(c)
    <3>1. InRegion(Fault(c)) /\ m_memory_region_lock = c
      BY <1>2, <1>6, <2>2, <2>4, <2>5 DEF LocksOK
    <3> QED
      BY <1>6, <2>3, <2>4, <2>5, <3>1 DEF LockEffect, RegionEffect
  <2>6. CASE x = Fault(c)
    <3>1. InRegion(Thread(c)) /\ m_memory_region_lock = c
      BY <1>2, <1>6, <2>2, <2>4, <2>6 DEF LocksOK
    <3> QED
      BY <1>6, <2>3, <2>4, <2>6, <3>1 DEF LockEffect, RegionEffect
  <2>7. CASE CoreOf(x) # c
    BY <1>2, <1>6, <2>2, <2>3, <2>4, <2>7
  <2> QED
    BY <2>1, <2>5, <2>6, <2>7
<1>7. ASSUME NEW c \in Cores, InWalk(Thread(c))', InWalk(Fault(c))'
      PROVE  FALSE
  <2>1. x = Thread(c) \/ x = Fault(c) \/ CoreOf(x) # c
    BY ContextFacts
  <2>2. Thread(c) # Fault(c) /\ Thread(c) \in Contexts /\ Fault(c) \in Contexts
    BY ContextFacts
  <2>3. ~(InWalk(Thread(c)) /\ InWalk(Fault(c)))
    BY DEF LocksOK
  <2>4. CoreOf(Thread(c)) = c /\ CoreOf(Fault(c)) = c /\ c # NULL
    BY ContextFacts, MemoryAssumption
  <2>5. CASE x = Thread(c)
    <3>1. InWalk(Fault(c)) /\ m_virt_lock = c
      BY <1>2, <1>7, <2>2, <2>4, <2>5 DEF LocksOK
    <3> QED
      BY <1>3, <1>7, <2>3, <2>4, <2>5, <3>1 DEF LockEffect, VirtEffect
  <2>6. CASE x = Fault(c)
    <3>1. InWalk(Thread(c)) /\ m_virt_lock = c
      BY <1>2, <1>7, <2>2, <2>4, <2>6 DEF LocksOK
    <3> QED
      BY <1>3, <1>7, <2>3, <2>4, <2>6, <3>1 DEF LockEffect, VirtEffect
  <2>7. CASE CoreOf(x) # c
    BY <1>2, <1>7, <2>2, <2>3, <2>4, <2>7
  <2> QED
    BY <2>1, <2>5, <2>6, <2>7
<1>8. ASSUME NEW c \in Cores, pc'[Fault(c)] # "idle"
      PROVE  \/ pc'[Thread(c)] = "idle"
             \/ <<op'[Thread(c)], pc'[Thread(c)]>> \in Growth
  <2>1. /\ Thread(c) \in Contexts /\ Fault(c) \in Contexts /\ Thread(c) # Fault(c)
        /\ Thread(c)[2] = "thread" /\ Fault(c)[2] = "fault"
        /\ CoreOf(Thread(c)) = c /\ CoreOf(Fault(c)) = c
    BY ContextFacts
  <2>2. x # Thread(c)
    BY <1>2, <1>8, <2>1 DEF Runs
  <2>3. pc'[Thread(c)] = pc[Thread(c)] /\ op'[Thread(c)] = op[Thread(c)]
    BY <1>2, <2>1, <2>2
  <2>4. CASE x = Fault(c)
    BY <2>1, <2>3, <2>4 DEF MayFault, LocksOK
  <2>5. CASE x # Fault(c)
    BY <1>2, <1>8, <2>1, <2>3, <2>5 DEF LocksOK
  <2> QED
    BY <2>4, <2>5
<1>9. ASSUME NEW c \in Cores, GrowsOutsideWindows, pc'[Fault(c)] = "lock"
      PROVE  m_memory_region_lock' # c
  <2>1. /\ Thread(c) \in Contexts /\ Fault(c) \in Contexts /\ Thread(c) # Fault(c)
        /\ Thread(c)[2] = "thread" /\ Fault(c)[2] = "fault"
        /\ CoreOf(Thread(c)) = c /\ CoreOf(Fault(c)) = c /\ c # NULL
        /\ CoreOf(x) = c => x = Thread(c) \/ x = Fault(c)
    BY ContextFacts, MemoryAssumption
  <2>2. CASE x = Fault(c)
    BY <1>9, <2>1, <2>2 DEF LockEffect
  <2>3. CASE x # Fault(c)
    <3>1. pc[Fault(c)] = "lock"
      BY <1>2, <1>9, <2>1, <2>3
    <3>2. CoreOf(x) # c
      BY <2>1, <2>3, <3>1 DEF Runs
    <3> QED
      BY <1>9, <2>1, <3>1, <3>2 DEF LockEffect, RegionEffect, LocksOK
  <2> QED
    BY <2>2, <2>3
<1>10. ASSUME NEW c \in Cores, m_virt_lock' = c
       PROVE  \/ InWalk(Thread(c))' \/ InWalk(Fault(c))'
              \/ "stopped" \in {pc'[Thread(c)], pc'[Fault(c)]}
  <2>1. /\ Thread(c) \in Contexts /\ Fault(c) \in Contexts /\ Thread(c) # Fault(c)
        /\ CoreOf(Thread(c)) = c /\ CoreOf(Fault(c)) = c /\ c # NULL
        /\ CoreOf(x) = c => x = Thread(c) \/ x = Fault(c)
    BY ContextFacts, MemoryAssumption
  <2>2. CASE m_virt_lock # c
    BY <1>10, <2>1, <2>2 DEF LockEffect, VirtEffect
  <2>3. CASE m_virt_lock = c
    <3>1. \/ InWalk(Thread(c)) \/ InWalk(Fault(c))
          \/ pc[Thread(c)] = "stopped" \/ pc[Fault(c)] = "stopped"
      BY <2>3 DEF LocksOK
    <3> QED
      BY <1>2, <1>10, <2>1, <2>3, <3>1 DEF LockEffect, VirtEffect
  <2> QED
    BY <2>2, <2>3
<1> QED
  BY <1>4, <1>5, <1>6, <1>7, <1>8, <1>9, <1>10, <1>11, <1>12 DEF LocksOK

(***************************************************************************)
(* A fault that finds no record of its core finds no lock held by it       *)
(* either, when stacks grow outside the windows only.                      *)
(***************************************************************************)
LEMMA RecordedWhenInterrupted ==
    ASSUME LocksOK, GrowsOutsideWindows, NEW x \in Contexts, x[2] = "fault",
           At(x, "irq_alloc"), m_lock_cpu # CoreOf(x)
    PROVE  m_memory_region_lock # CoreOf(x)
<1> DEFINE c == CoreOf(x)
           t == Thread(c)
<1>1. c \in Cores /\ x = Fault(c) /\ t \in Contexts /\ CoreOf(t) = c
  BY ContextFacts
<1>2. ~InRegion(x) /\ pc[x] # "idle"
  BY DEF At, InRegion
<1>3. pc[t] = "idle" \/ <<op[t], pc[t]>> \in Growth
  BY <1>1, <1>2 DEF LocksOK
<1>4. InRegion(t) => Recorded(t)
  BY <1>3 DEF GrowsOutsideWindows, InRegion, Recorded
<1>5. Recorded(t) => m_lock_cpu = c
  BY <1>1 DEF LocksOK
<1> QED
  BY <1>1, <1>2, <1>4, <1>5 DEF LocksOK

LEMMA EffectContext ==
    ASSUME MemoryTypeOK, FlowOK, LocksOK, NEW x \in Contexts, Alloc(x) \/ Walk(x)
    PROVE  LockEffect(x) /\ Runs(x) /\ pc[x] \notin {"idle", "stopped"}
<1>1. FlowAt(x) /\ CoreOf(x) \in Cores /\ NULL \notin Cores
  BY ContextFacts, MemoryAssumption DEF FlowOK
<1>2. NULL \notin Cores
  BY MemoryAssumption
<1> USE <1>1, <1>2 DEF LockEffect, RegionEffect, RecordEffect, VirtEffect, InWalk, RangeOps,
          InRegion, Recorded, Set, Goto, At, physVars, virtVars, otherVars, local, MemoryTypeOK
<1>3. CASE irq_alloc(x)
  BY <1>3 DEF irq_alloc, FlowAt, WalkOps, RangeOps, InPhysAlloc
<1>4. CASE irq_alloc_assert(x)
  BY <1>4 DEF irq_alloc_assert, FlowAt, WalkOps, RangeOps, InPhysAlloc
<1>5. CASE irq_alloc_none(x)
  <2>1. ASSUME GrowsOutsideWindows, x[2] = "fault"
        PROVE  m_memory_region_lock # CoreOf(x)
    BY <1>5, <2>1, RecordedWhenInterrupted DEF irq_alloc_none
  <2> QED
    BY <1>5, <2>1 DEF irq_alloc_none, FlowAt, WalkOps, InPhysAlloc
<1>6. CASE region_acquire(x)
  BY <1>6 DEF region_acquire, FlowAt, WalkOps, InPhysAlloc
<1>7. CASE phys_alloc_search(x)
  BY <1>7 DEF phys_alloc_search, FlowAt, WalkOps, RangeOps, InPhysAlloc
<1>8. CASE return_data(x)
  BY <1>8 DEF return_data, FlowAt, WalkOps, RangeOps, InPhysAlloc
<1>9. CASE return_table(x)
  BY <1>9 DEF return_table, FlowAt, WalkOps, RangeOps, InPhysAlloc
<1>10. CASE fail_fault(x)
  BY <1>10 DEF fail_fault, OutOfMemory, FlowAt, WalkOps, RangeOps, InPhysAlloc
<1>11. CASE fail_walk(x)
  BY <1>11 DEF fail_walk, Done, OutOfMemory, FlowAt, WalkOps, RangeOps, InPhysAlloc
<1>12. CASE fail_range(x)
  BY <1>12 DEF fail_range, range_error, Done, OutOfMemory, FlowAt, WalkOps, RangeOps, InPhysAlloc
<1>13. CASE fail_cleanup(x)
  BY <1>13 DEF fail_cleanup, OutOfMemory, FlowAt, WalkOps, RangeOps, InPhysAlloc
<1>14. CASE virt_lock(x)
  BY <1>14 DEF virt_lock, Leaf, FlowAt, WalkOps, RangeOps, InPhysAlloc
<1>15. CASE get_next_level(x)
  BY <1>15 DEF get_next_level, FlowAt, WalkOps, RangeOps, InPhysAlloc
<1>16. CASE virt_map_page(x)
  BY <1>16 DEF virt_map_page, Done, Leaf, FlowAt, WalkOps, RangeOps, InPhysAlloc
<1>17. CASE virt_alloc_range_next(x)
  BY <1>17 DEF virt_alloc_range_next, Leaf, FlowAt, WalkOps, RangeOps, InPhysAlloc
<1>18. CASE virt_alloc_range_done(x)
  BY <1>18 DEF virt_alloc_range_done, Leaf, FlowAt, WalkOps, RangeOps, InPhysAlloc
<1>19. CASE virt_alloc_range_present(x)
  BY <1>19 DEF virt_alloc_range_present, range_error, Done, Leaf, FlowAt, WalkOps, RangeOps, InPhysAlloc
<1>20. CASE virt_alloc_range_cleanup(x)
  BY <1>20 DEF virt_alloc_range_cleanup, Done, Leaf, FlowAt, WalkOps, RangeOps, InPhysAlloc
<1>21. CASE virt_remap_range(x)
  BY <1>21 DEF virt_remap_range, Done, Leaf, FlowAt, WalkOps, RangeOps, InPhysAlloc
<1>22. CASE is_mapped_done(x)
  BY <1>22 DEF is_mapped_done, Done, Leaf, FlowAt, WalkOps, RangeOps, InPhysAlloc
<1>23. CASE phys_alloc_record(x)
  BY <1>23 DEF phys_alloc_record, FlowAt, WalkOps, InPhysAlloc
<1>24. CASE phys_alloc_clear(x)
  BY <1>24 DEF phys_alloc_clear, FlowAt, WalkOps, InPhysAlloc
<1>25. CASE region_release(x)
  BY <1>25 DEF region_release, Done, FlowAt, WalkOps, InPhysAlloc
<1>26. CASE init_phys_per_cpu_fill(x)
  BY <1>26 DEF init_phys_per_cpu_fill, FlowAt, WalkOps, InPhysAlloc
<1>27. CASE phys_free_insert(x)
  BY <1>27 DEF phys_free_insert, FlowAt, WalkOps, InPhysAlloc
<1>28. CASE jit_alloc_watermark(x)
  BY <1>28 DEF jit_alloc_watermark, Done, FlowAt, WalkOps, InPhysAlloc
<1> QED
  BY <1>3, <1>4, <1>5, <1>6, <1>7, <1>8, <1>9, <1>10, <1>11, <1>12, <1>13, <1>14, <1>15, <1>16, <1>17, <1>18, <1>19, <1>20, <1>21, <1>22, <1>23, <1>24, <1>25, <1>26, <1>27, <1>28 DEF Alloc, Walk

LEMMA LocksStepContext ==
    ASSUME MemoryTypeOK, FlowOK, LocksOK, NEW x \in Contexts, Alloc(x) \/ Walk(x)
    PROVE  LocksOK'
  BY EffectContext, FrameContext, LocksStep

LEMMA EffectThread ==
    ASSUME MemoryTypeOK, FlowOK, LocksOK, NEW c \in Cores, ThreadCalls(c)
    PROVE  /\ LockEffect(Thread(c)) /\ Runs(Thread(c)) /\ pc[Thread(c)] # "stopped"
           /\ m_virt_lock' = m_virt_lock
<1> DEFINE x == Thread(c)
<1>1. x \in Contexts /\ x[2] = "thread" /\ CoreOf(x) = c /\ FlowAt(x)
  BY ContextFacts DEF FlowOK
<1>3. /\ At(x, "boot") \/ At(x, "idle") \/ (At(x, "ret") /\ op[x] = "alloc")
      /\ m_memory_region_lock' = m_memory_region_lock /\ m_lock_cpu' = m_lock_cpu
      /\ m_virt_lock' = m_virt_lock
      /\ \/ Goto(x, "lock") /\ \E o \in {"init", "free"} : op' = Set(op, x, o)
         \/ Goto(x, "vlock")
         \/ Goto(x, "irq_alloc") /\ op' = Set(op, x, "alloc")
         \/ Goto(x, "idle") /\ At(x, "ret")
  BY DEF ThreadCalls, init_phys_per_cpu, phys_free, call_phys_alloc, tdn_host_jit_alloc,
       tdn_host_jit_set_exec, virt_is_mapped, Call, return_to_thread, Done, physVars, virtVars
<1> HIDE DEF x
<1>4. InWalk(x)' = InWalk(x)
  BY <1>1, <1>3 DEF At, Goto, Set, InWalk, RangeOps, FlowAt, WalkOps, InPhysAlloc, MemoryTypeOK
<1>5. /\ pc[x] # "stopped" /\ Runs(x)
      /\ ~InRegion(x) /\ ~InRegion(x)' /\ ~Recorded(x) /\ ~Recorded(x)'
  BY <1>1, <1>3 DEF At, Goto, InRegion, Recorded, MemoryTypeOK
<1>6. LockEffect(x)
  BY <1>1, <1>3, <1>4, <1>5 DEF LockEffect, RegionEffect, RecordEffect, VirtEffect
<1> QED
  BY <1>3, <1>5, <1>6 DEF x

LEMMA EffectFault ==
    ASSUME MemoryTypeOK, FlowOK, LocksOK, NEW c \in Cores, virt_handle_page_fault(c)
    PROVE  /\ LockEffect(Fault(c)) /\ Runs(Fault(c)) /\ pc[Fault(c)] = "idle" /\ MayFault(c)
           /\ m_virt_lock' = m_virt_lock
<1> DEFINE x == Fault(c)
<1>1. x \in Contexts /\ x[2] = "fault" /\ CoreOf(x) = c
  BY ContextFacts
<1>3. /\ MayFault(c) /\ pc[x] = "idle"
      /\ m_memory_region_lock' = m_memory_region_lock /\ m_lock_cpu' = m_lock_cpu
      /\ m_virt_lock' = m_virt_lock
      /\ op' = Set(op, x, "fault") /\ want' = Set(want, x, "data")
      /\ Goto(x, "irq_alloc") \/ Goto(x, "vlock") \/ Goto(x, "stopped")
  BY DEF virt_handle_page_fault, MayFault, physVars, virtVars
<1> HIDE DEF x
<1>4. InWalk(x)' = InWalk(x)
  BY <1>1, <1>3 DEF Goto, Set, InWalk, RangeOps, InPhysAlloc, MemoryTypeOK
<1>5. /\ Runs(x) /\ pc'[x] # "lock"
      /\ ~InRegion(x) /\ ~InRegion(x)' /\ ~Recorded(x) /\ ~Recorded(x)'
  BY <1>1, <1>3 DEF Goto, Runs, InRegion, Recorded, MemoryTypeOK
<1>6. LockEffect(x)
  BY <1>1, <1>3, <1>4, <1>5 DEF LockEffect, RegionEffect, RecordEffect, VirtEffect
<1> QED
  BY <1>3, <1>5, <1>6 DEF x

LEMMA LocksStepCall ==
    ASSUME MemoryTypeOK, FlowOK, LocksOK, NEW c \in Cores, Calls(c)
    PROVE  LocksOK'
<1>1. /\ Thread(c) \in Contexts /\ Fault(c) \in Contexts
      /\ Thread(c)[2] = "thread" /\ CoreOf(Fault(c)) = c
  BY ContextFacts
<1>2. CASE ThreadCalls(c)
  BY <1>1, <1>2, EffectThread, FrameThread, LocksStep
<1>3. CASE virt_handle_page_fault(c)
  BY <1>1, <1>3, EffectFault, FrameFault, LocksStep
<1> QED
  BY <1>2, <1>3 DEF Calls, ThreadCalls

LEMMA LocksInit == Init => LocksOK
<1> SUFFICES ASSUME Init PROVE LocksOK
  OBVIOUS
<1>1. \A x \in Contexts : pc[x] \in {"boot", "idle"}
  BY DEF Init
<1>2. \A c \in Cores : /\ Thread(c) \in Contexts /\ Fault(c) \in Contexts
                       /\ pc[Fault(c)] = "idle"
  BY ContextFacts DEF Init
<1>3. \A x \in Contexts : ~InWalk(x) /\ ~InRegion(x) /\ ~Recorded(x)
  BY <1>1 DEF InRegion, Recorded, InWalk, RangeOps, InPhysAlloc
<1> QED
  BY <1>1, <1>2, <1>3, MemoryAssumption DEF Init, LocksOK

-----------------------------------------------------------------------------
(***************************************************************************)
(* A virt_alloc_range that has mapped pages keeps every other context out  *)
(* of the page tables, even when its core has stopped.                     *)
(***************************************************************************)
LEMMA ExtendsAlone ==
    ASSUME FlowOK, LocksOK, JitOK,
           NEW x \in Contexts, NEW y \in Contexts, Extends(y), InWalk(x)
    PROVE  x = y
<1>1. m_virt_lock = CoreOf(y) /\ m_virt_lock = CoreOf(x) /\ (InWalk(y) \/ pc[y] = "stopped")
  BY DEF JitOK, LocksOK
<1>2. CASE InWalk(y)
  BY <1>2, AloneInWalk
<1>3. CASE pc[y] = "stopped"
  <2>1. y = Thread(CoreOf(y)) /\ CoreOf(y) \in Cores
    BY ContextFacts DEF FlowOK, FlowAt, Extends
  <2>2. pc[Fault(CoreOf(y))] # "idle" => pc[y] # "stopped"
    BY <2>1, MemoryAssumption DEF LocksOK
  <2>3. pc[Fault(CoreOf(y))] = "idle"
    BY <1>3, <2>2
  <2>4. pc[x] # "idle"
    BY DEF InWalk, RangeOps, InPhysAlloc
  <2> QED
    BY <1>1, <2>1, <2>3, <2>4, ContextFacts
<1> QED
  BY <1>1, <1>2, <1>3

(***************************************************************************)
(* Where a virt_alloc_range is when the page it looks at is not mapped: at *)
(* the end of what is mapped of the jit area, which only it extends.       *)
(***************************************************************************)
LEMMA RangeAt ==
    ASSUME MemoryTypeOK, FlowOK, LocksOK, JitOK,
           NEW x \in Contexts, InWalk(x), op[x] = "range", pte[va[x]] = NULL
    PROVE  /\ va[x] \in Nat /\ undo[x] \in Nat /\ m_jit_watermark \in Nat
           /\ va[x] = m_jit_watermark + undo[x]
           /\ \A y \in Contexts : Extends(y) => y = x
           /\ \A y \in Contexts : ~Returned(y)
           /\ \A v \in Jit : pte[v] # NULL <=> v < va[x]
<1>1. va[x] \in Jit /\ va[x] \in Nat /\ undo[x] \in Nat /\ m_jit_watermark \in Nat
  BY DEF FlowOK, FlowAt, MemoryTypeOK, Jit
<1>2. \A y \in Contexts : Extends(y) => y = x
  BY ExtendsAlone
<1>0. pc[x] # "watermark"
  BY DEF InWalk, InPhysAlloc
<1>3. undo[x] > 0 => va[x] = m_jit_watermark + undo[x]
  BY <1>0 DEF JitOK, Extends
<1>4. undo[x] = 0 => va[x] <= m_jit_watermark
  BY DEF JitOK
<1>5. ~(va[x] < m_jit_watermark)
  BY <1>1 DEF JitOK
<1>6. va[x] = m_jit_watermark + undo[x]
  BY <1>1, <1>3, <1>4, <1>5
<1>8. ASSUME NEW y \in Contexts, Returned(y) PROVE FALSE
  <2>1. va[y] = m_jit_watermark + undo[y] /\ undo[y] \in Nat /\ (Extends(x) => x = y)
    BY <1>8 DEF JitOK, MemoryTypeOK
  <2>2. undo[x] = 0
    BY <1>0, <1>1, <1>8, <2>1 DEF Extends, Returned
  <2>3. va[x] <= va[y]
    BY <1>1, <1>6, <2>1, <2>2
  <2> QED
    BY <1>1, <1>8, <2>3 DEF JitOK
<1>7. ASSUME NEW v \in Jit PROVE pte[v] # NULL <=> v < va[x]
  <2>1. pte[v] # NULL <=> v < m_jit_watermark \/ (Extends(x) /\ v < va[x])
    BY <1>2, <1>8 DEF JitOK
  <2>2. Extends(x) <=> undo[x] > 0
    BY <1>0 DEF Extends
  <2>3. v \in Nat
    BY DEF Jit
  <2> QED
    BY <1>1, <1>6, <2>1, <2>2, <2>3
<1> QED
  BY <1>1, <1>2, <1>6, <1>7, <1>8

(* A step that does not map jit pages keeps the jit area in order. *)
LEMMA JitFrame ==
    ASSUME MemoryTypeOK, FlowOK, LocksOK, JitOK, NEW x \in Contexts, VirtEffect(x),
           \A y \in Contexts : y # x => SameAt(y),
           m_jit_watermark' = m_jit_watermark,
           \A v \in Jit : pte'[v] = pte[v],
           Extends(x)' <=> Extends(x), ~Returned(x), ~Returned(x)',
           Extends(x) => /\ va'[x] = va[x] /\ undo'[x] = undo[x] /\ m_virt_lock' = m_virt_lock
                         /\ InWalk(x)' \/ pc'[x] = "stopped",
           op'[x] = "range" /\ undo'[x] = 0 => va'[x] <= m_jit_watermark
    PROVE  JitOK'
<1>1. \A y \in Contexts : /\ Extends(y)' <=> Extends(y)
                          /\ Extends(y) => va'[y] = va[y] /\ undo'[y] = undo[y]
                          /\ Returned(y)' <=> Returned(y)
                          /\ Returned(y) => va'[y] = va[y] /\ undo'[y] = undo[y]
  BY DEF SameAt, Extends, Returned
<1>2. ASSUME NEW y \in Contexts, Extends(y)
      PROVE  m_virt_lock' = m_virt_lock
  <2>1. CASE y = x
    BY <1>2, <2>1
  <2>2. CASE y # x
    <3>1. ~InWalk(x)
      BY <1>2, <2>2, ExtendsAlone
    <3>2. m_virt_lock = CoreOf(y) /\ CoreOf(y) # NULL
      BY <1>2, ContextFacts, MemoryAssumption DEF JitOK
    <3> QED
      BY <3>1, <3>2 DEF VirtEffect
  <2> QED
    BY <2>1, <2>2
<1>3. ASSUME NEW y \in Contexts, Extends(y)
      PROVE  InWalk(y)' \/ pc'[y] = "stopped"
  <2>1. CASE y = x
    BY <1>3, <2>1
  <2>2. CASE y # x
    BY <1>3, <2>2 DEF JitOK, SameAt, InWalk, RangeOps, InPhysAlloc
  <2> QED
    BY <2>1, <2>2
<1>4. \A v \in Jit : pte'[v] # Direct
  BY DEF JitOK
<1>5. \A v \in Jit : pte'[v] # NULL <=>
         \/ v < m_jit_watermark'
         \/ \E y \in Contexts : Extends(y)' /\ v < va'[y]
         \/ \E y \in Contexts : Returned(y)' /\ v <= va'[y]
  BY <1>1 DEF JitOK
<1>6. ASSUME NEW y \in Contexts, Extends(y)'
      PROVE  /\ va'[y] = m_jit_watermark' + undo'[y]
             /\ InWalk(y)' \/ pc'[y] = "stopped"
             /\ m_virt_lock' = CoreOf(y)
  BY <1>1, <1>2, <1>3, <1>6 DEF JitOK
<1>7. ASSUME NEW y \in Contexts, op'[y] = "range", undo'[y] = 0
      PROVE  va'[y] <= m_jit_watermark'
  BY <1>7 DEF JitOK, SameAt
<1>8. ASSUME NEW y \in Contexts, Returned(y)'
      PROVE  /\ va'[y] = m_jit_watermark' + undo'[y]
             /\ \A z \in Contexts : Extends(z)' \/ Returned(z)' => z = y
  BY <1>1, <1>8 DEF JitOK
<1> QED
  BY <1>4, <1>5, <1>6, <1>7, <1>8 DEF JitOK

(***************************************************************************)
(* The cleanup loop of virt_alloc_range never finds a page to free: it     *)
(* looks at the address that failed, the first one past the mapped part,   *)
(* and the core stops there.                                               *)
(***************************************************************************)
LEMMA CleanupStops ==
    ASSUME MemoryTypeOK, FlowOK, LocksOK, JitOK, NEW x \in Contexts, virt_alloc_range_cleanup(x)
    PROVE  /\ Goto(x, "stopped")
           /\ UNCHANGED <<physVars, virtVars, local, op, otherVars>>
<1>1. /\ op[x] = "cleanup" /\ pc[x] = "walk" /\ FlowAt(x) /\ Extends(x)
  BY DEF virt_alloc_range_cleanup, Leaf, At, FlowOK, FlowAt, Extends
<1>2. InWalk(x) /\ va[x] \in Jit /\ va[x] \in Nat /\ undo[x] \in Nat /\ m_jit_watermark \in Nat
  BY <1>1 DEF InWalk, RangeOps, InPhysAlloc, FlowAt, Jit, MemoryTypeOK
<1>3. va[x] = m_jit_watermark + undo[x] /\ undo[x] > 0
  BY <1>1 DEF JitOK, Extends
<1>4. \A y \in Contexts : Extends(y) => y = x
  BY <1>2, ExtendsAlone
<1>6. \A y \in Contexts : ~Returned(y)
  BY <1>1 DEF JitOK, Returned
<1>5. pte[va[x]] = NULL
  BY <1>2, <1>3, <1>4, <1>6 DEF JitOK
<1> QED
  BY <1>5 DEF virt_alloc_range_cleanup

(***************************************************************************)
(* Every step keeps the jit area in order.                                 *)
(***************************************************************************)
LEMMA JitStepContext ==
    ASSUME MemoryTypeOK, FlowOK, LocksOK, JitOK, NEW x \in Contexts, Alloc(x) \/ Walk(x)
    PROVE  JitOK'
<1>1. FlowAt(x) /\ VirtEffect(x) /\ (\A y \in Contexts : y # x => SameAt(y))
  BY EffectContext, FrameContext DEF FlowOK, LockEffect
<1>2. /\ Extends(x) => /\ va[x] = m_jit_watermark + undo[x]
                       /\ InWalk(x) \/ pc[x] = "stopped"
      /\ op[x] = "range" /\ undo[x] = 0 => va[x] <= m_jit_watermark
  BY DEF JitOK
<1>3. ASSUME m_jit_watermark' = m_jit_watermark,
             \A v \in Jit : pte'[v] = pte[v],
             Extends(x)' <=> Extends(x), ~Returned(x), ~Returned(x)',
             Extends(x) => /\ va'[x] = va[x] /\ undo'[x] = undo[x] /\ m_virt_lock' = m_virt_lock
                           /\ InWalk(x)' \/ pc'[x] = "stopped",
             op'[x] = "range" /\ undo'[x] = 0 => va'[x] <= m_jit_watermark
      PROVE  JitOK'
  BY <1>1, <1>3, JitFrame
<1> DEFINE Quiet ==
      /\ m_jit_watermark' = m_jit_watermark
      /\ \A v \in Jit : pte'[v] = pte[v]
      /\ Extends(x)' <=> Extends(x)
      /\ ~Returned(x) /\ ~Returned(x)'
      /\ Extends(x) => /\ va'[x] = va[x] /\ undo'[x] = undo[x] /\ m_virt_lock' = m_virt_lock
                       /\ InWalk(x)' \/ pc'[x] = "stopped"
      /\ op'[x] = "range" /\ undo'[x] = 0 => va'[x] <= m_jit_watermark
<1>4. SUFFICES Quiet \/ JitOK'
  BY <1>3
<1>5. CASE irq_alloc(x)
  <2>1. Quiet
    BY <1>1, <1>2, <1>5 DEF irq_alloc, Leaf, OutOfMemory, At, Extends, Returned, InWalk, RangeOps, Set, Goto,
         physVars, virtVars, otherVars, local, FlowAt, InPhysAlloc, WalkOps, MemoryTypeOK
  <2> QED
    BY <2>1
<1>6. CASE irq_alloc_assert(x)
  <2>1. Quiet
    BY <1>1, <1>2, <1>6 DEF irq_alloc_assert, Leaf, OutOfMemory, At, Extends, Returned, InWalk, RangeOps, Set, Goto,
         physVars, virtVars, otherVars, local, FlowAt, InPhysAlloc, WalkOps, MemoryTypeOK
  <2> QED
    BY <2>1
<1>7. CASE irq_alloc_none(x)
  <2>1. Quiet
    BY <1>1, <1>2, <1>7 DEF irq_alloc_none, Leaf, OutOfMemory, At, Extends, Returned, InWalk, RangeOps, Set, Goto,
         physVars, virtVars, otherVars, local, FlowAt, InPhysAlloc, WalkOps, MemoryTypeOK
  <2> QED
    BY <2>1
<1>8. CASE region_acquire(x)
  <2>1. Quiet
    BY <1>1, <1>2, <1>8 DEF region_acquire, Leaf, OutOfMemory, At, Extends, Returned, InWalk, RangeOps, Set, Goto,
         physVars, virtVars, otherVars, local, FlowAt, InPhysAlloc, WalkOps, MemoryTypeOK
  <2> QED
    BY <2>1
<1>9. CASE phys_alloc_search(x)
  <2>1. Quiet
    BY <1>1, <1>2, <1>9 DEF phys_alloc_search, Leaf, OutOfMemory, At, Extends, Returned, InWalk, RangeOps, Set, Goto,
         physVars, virtVars, otherVars, local, FlowAt, InPhysAlloc, WalkOps, MemoryTypeOK
  <2> QED
    BY <2>1
<1>10. CASE return_data(x)
  <2>1. Quiet
    BY <1>1, <1>2, <1>10 DEF return_data, Leaf, OutOfMemory, At, Extends, Returned, InWalk, RangeOps, Set, Goto,
         physVars, virtVars, otherVars, local, FlowAt, InPhysAlloc, WalkOps, MemoryTypeOK
  <2> QED
    BY <2>1
<1>11. CASE return_table(x)
  <2>1. Quiet
    BY <1>1, <1>2, <1>11 DEF return_table, Leaf, OutOfMemory, At, Extends, Returned, InWalk, RangeOps, Set, Goto,
         physVars, virtVars, otherVars, local, FlowAt, InPhysAlloc, WalkOps, MemoryTypeOK
  <2> QED
    BY <2>1
<1>12. CASE fail_fault(x)
  <2>1. Quiet
    BY <1>1, <1>2, <1>12 DEF fail_fault, Leaf, OutOfMemory, At, Extends, Returned, InWalk, RangeOps, Set, Goto,
         physVars, virtVars, otherVars, local, FlowAt, InPhysAlloc, WalkOps, MemoryTypeOK
  <2> QED
    BY <2>1
<1>13. CASE fail_walk(x)
  <2>1. Quiet
    BY <1>1, <1>2, <1>13 DEF fail_walk, Done, Leaf, OutOfMemory, At, Extends, Returned, InWalk, RangeOps, Set, Goto,
         physVars, virtVars, otherVars, local, FlowAt, InPhysAlloc, WalkOps, MemoryTypeOK
  <2> QED
    BY <2>1
<1>14. CASE fail_range(x)
  <2>0. /\ op[x] = "range" /\ pc[x] = "ret" /\ range_error(x)
    BY <1>14 DEF fail_range, OutOfMemory, At, range_error
  <2>1. Quiet
    <3>1. CASE undo[x] = 0
      BY <2>0, <3>1 DEF range_error, Done, Extends, Returned, Goto, Set, MemoryTypeOK
    <3>2. CASE undo[x] # 0
      <4>1. /\ op' = Set(op, x, "cleanup") /\ Goto(x, "walk") /\ pte' = pte
            /\ UNCHANGED <<m_virt_lock, m_jit_watermark, va, undo>>
        BY <2>0, <3>2 DEF range_error
      <4> QED
        BY <2>0, <3>2, <4>1 DEF Extends, Returned, InWalk, RangeOps, InPhysAlloc, Set, Goto, MemoryTypeOK
    <3> QED
      BY <3>1, <3>2
  <2> QED
    BY <2>1
<1>15. CASE fail_cleanup(x)
  <2>1. Quiet
    BY <1>1, <1>2, <1>15 DEF fail_cleanup, Leaf, OutOfMemory, At, Extends, Returned, InWalk, RangeOps, Set, Goto,
         physVars, virtVars, otherVars, local, FlowAt, InPhysAlloc, WalkOps, MemoryTypeOK
  <2> QED
    BY <2>1
<1>16. CASE virt_lock(x)
  <2>1. Quiet
    BY <1>1, <1>2, <1>16 DEF virt_lock, Leaf, OutOfMemory, At, Extends, Returned, InWalk, RangeOps, Set, Goto,
         physVars, virtVars, otherVars, local, FlowAt, InPhysAlloc, WalkOps, MemoryTypeOK
  <2> QED
    BY <2>1
<1>17. CASE get_next_level(x)
  <2>1. Quiet
    BY <1>1, <1>2, <1>17 DEF get_next_level, Leaf, OutOfMemory, At, Extends, Returned, InWalk, RangeOps, Set, Goto,
         physVars, virtVars, otherVars, local, FlowAt, InPhysAlloc, WalkOps, MemoryTypeOK
  <2> QED
    BY <2>1
<1>18. CASE virt_map_page(x)
  <2>1. va[x] \notin Jit
    BY <1>1, <1>18, MemoryAssumption DEF virt_map_page, Leaf, At, FlowAt
  <2>2. Quiet
    BY <1>1, <1>18, <2>1 DEF virt_map_page, Leaf, At, Done, Extends, Returned, Goto, Set,
         MemoryTypeOK
  <2> QED
    BY <2>2
<1>19. CASE virt_alloc_range_next(x)
  <2>0. /\ InWalk(x) /\ op[x] = "range" /\ pte[va[x]] = NULL
        /\ page[x] \notin {NULL, Direct} /\ va[x] \in Jit
    BY <1>1, <1>19 DEF virt_alloc_range_next, Leaf, At, InWalk, RangeOps, InPhysAlloc, FlowAt
  <2>1. /\ va[x] \in Nat /\ undo[x] \in Nat /\ m_jit_watermark \in Nat
        /\ va[x] = m_jit_watermark + undo[x]
        /\ \A y \in Contexts : Extends(y) => y = x
        /\ \A y \in Contexts : ~Returned(y)
        /\ \A v \in Jit : pte[v] # NULL <=> v < va[x]
    BY <2>0, RangeAt
  <2>2. /\ m_jit_watermark' = m_jit_watermark /\ m_virt_lock' = m_virt_lock
        /\ op' = op /\ va'[x] = va[x] + 1 /\ undo'[x] = undo[x] + 1 /\ pc'[x] = "irq_alloc"
        /\ \A v \in Jit : pte'[v] = IF v = va[x] THEN page[x] ELSE pte[v]
    BY <1>19, <2>0, MemoryAssumption
       DEF virt_alloc_range_next, otherVars, Set, Goto, MemoryTypeOK
  <2>3. Extends(x)' /\ InWalk(x)' /\ m_virt_lock = CoreOf(x)
    BY <2>0, <2>1, <2>2 DEF Extends, Returned, InWalk, RangeOps, InPhysAlloc, LocksOK
  <2>4. \A y \in Contexts : y # x => ~Extends(y)'
    BY <1>1, <2>1 DEF SameAt, Extends
  <2>10. \A y \in Contexts : ~Returned(y)'
    BY <1>1, <2>1, <2>2 DEF SameAt, Returned
  <2>5. \A v \in Jit : v \in Nat
    BY DEF Jit
  <2>6. ASSUME NEW v \in Jit
        PROVE  /\ pte'[v] # Direct
               /\ pte'[v] # NULL <=>
                    \/ v < m_jit_watermark'
                    \/ \E y \in Contexts : Extends(y)' /\ v < va'[y]
                    \/ \E y \in Contexts : Returned(y)' /\ v <= va'[y]
    <3>1. pte'[v] # NULL <=> v < va[x] + 1
      BY <2>0, <2>1, <2>2, <2>5
    <3>2. (\E y \in Contexts : Extends(y)' /\ v < va'[y]) <=> v < va[x] + 1
      BY <2>2, <2>3, <2>4
    <3>3. v < m_jit_watermark => v < va[x] + 1
      BY <2>1, <2>5
    <3> QED
      BY <2>0, <2>2, <2>10, <3>1, <3>2, <3>3 DEF JitOK
  <2>7. ASSUME NEW y \in Contexts, Extends(y)'
        PROVE  /\ va'[y] = m_jit_watermark' + undo'[y]
               /\ InWalk(y)' \/ pc'[y] = "stopped"
               /\ m_virt_lock' = CoreOf(y)
    BY <2>1, <2>2, <2>3, <2>4, <2>7
  <2>8. ASSUME NEW y \in Contexts, op'[y] = "range", undo'[y] = 0
        PROVE  va'[y] <= m_jit_watermark'
    BY <1>1, <2>1, <2>2, <2>8 DEF JitOK, SameAt
  <2>9. JitOK'
    BY <2>6, <2>7, <2>8, <2>10 DEF JitOK
  <2> QED
    BY <2>9
<1>20. CASE virt_alloc_range_done(x)
  <2>0. /\ InWalk(x) /\ op[x] = "range" /\ pte[va[x]] = NULL
        /\ page[x] \notin {NULL, Direct} /\ va[x] \in Jit
    BY <1>1, <1>20 DEF virt_alloc_range_done, Leaf, At, InWalk, FlowAt
  <2>1. /\ va[x] \in Nat /\ undo[x] \in Nat /\ m_jit_watermark \in Nat
        /\ va[x] = m_jit_watermark + undo[x]
        /\ \A y \in Contexts : Extends(y) => y = x
        /\ \A y \in Contexts : ~Returned(y)
        /\ \A v \in Jit : pte[v] # NULL <=> v < va[x]
    BY <2>0, RangeAt
  <2>2. /\ m_jit_watermark' = m_jit_watermark /\ op' = op /\ va' = va /\ undo' = undo
        /\ pc'[x] = "watermark"
        /\ \A v \in Jit : pte'[v] = IF v = va[x] THEN page[x] ELSE pte[v]
    BY <1>20, <2>0, MemoryAssumption
       DEF virt_alloc_range_done, otherVars, Set, Goto, MemoryTypeOK
  <2>3. \A y \in Contexts : ~Extends(y)'
    BY <1>1, <2>1, <2>2 DEF SameAt, Extends
  <2>4. Returned(x)' /\ \A y \in Contexts : Returned(y)' => y = x
    BY <1>1, <2>1, <2>2 DEF SameAt, Returned
  <2>5. ASSUME NEW v \in Jit
        PROVE  /\ pte'[v] # Direct
               /\ pte'[v] # NULL <=>
                    \/ v < m_jit_watermark'
                    \/ \E y \in Contexts : Extends(y)' /\ v < va'[y]
                    \/ \E y \in Contexts : Returned(y)' /\ v <= va'[y]
    <3>1. v \in Nat
      BY DEF Jit
    <3>2. pte'[v] # NULL <=> v <= va[x]
      BY <2>0, <2>1, <2>2, <3>1
    <3>3. (\E y \in Contexts : Returned(y)' /\ v <= va'[y]) <=> v <= va[x]
      BY <2>2, <2>4
    <3>4. v < m_jit_watermark => v <= va[x]
      BY <2>1, <3>1
    <3> QED
      BY <2>0, <2>2, <2>3, <3>2, <3>3, <3>4 DEF JitOK
  <2>6. ASSUME NEW y \in Contexts, op'[y] = "range", undo'[y] = 0
        PROVE  va'[y] <= m_jit_watermark'
    BY <2>2, <2>6 DEF JitOK
  <2>7. JitOK'
    BY <2>1, <2>2, <2>3, <2>4, <2>5, <2>6 DEF JitOK
  <2> QED
    BY <2>7
<1>29. CASE jit_alloc_watermark(x)
  <2>0. Returned(x) /\ op[x] = "range" /\ va[x] \in Jit
    BY <1>1, <1>29 DEF jit_alloc_watermark, At, Returned, FlowAt
  <2>1. /\ va[x] \in Nat /\ undo[x] \in Nat /\ m_jit_watermark \in Nat
        /\ va[x] = m_jit_watermark + undo[x]
        /\ \A y \in Contexts : Extends(y) \/ Returned(y) => y = x
        /\ ~Extends(x)
    BY <2>0 DEF JitOK, MemoryTypeOK, Jit, Extends, Returned
  <2>2. /\ m_jit_watermark' = va[x] + 1 /\ pte' = pte
        /\ op'[x] = "none" /\ pc'[x] = "idle"
    BY <1>29, <2>1 DEF jit_alloc_watermark, Done, Goto, Set, virtVars, MemoryTypeOK
  <2>3. \A y \in Contexts : ~Extends(y)' /\ ~Returned(y)'
    BY <1>1, <2>1, <2>2 DEF SameAt, Extends, Returned
  <2>4. ASSUME NEW v \in Jit
        PROVE  pte'[v] # Direct /\ (pte'[v] # NULL <=> v < m_jit_watermark')
    <3>1. v \in Nat
      BY DEF Jit
    <3>2. pte[v] # NULL <=> v < m_jit_watermark \/ v <= va[x]
      BY <2>0, <2>1 DEF JitOK
    <3> QED
      BY <2>1, <2>2, <3>1, <3>2 DEF JitOK
  <2>5. ASSUME NEW y \in Contexts, op'[y] = "range", undo'[y] = 0
        PROVE  va'[y] <= m_jit_watermark'
    <3>1. y # x /\ op[y] = "range" /\ undo[y] = 0 /\ va'[y] = va[y]
      BY <1>1, <2>2, <2>5 DEF SameAt
    <3>2. va[y] <= m_jit_watermark /\ va[y] \in Nat
      BY <3>1 DEF JitOK, FlowOK, FlowAt, Jit
    <3> QED
      BY <2>1, <2>2, <3>1, <3>2
  <2>6. JitOK'
    BY <2>3, <2>4, <2>5 DEF JitOK
  <2> QED
    BY <2>6
<1>21. CASE virt_alloc_range_present(x)
  <2>0. /\ op[x] = "range" /\ pc[x] = "walk" /\ range_error(x) /\ pte[va[x]] # NULL
    BY <1>21 DEF virt_alloc_range_present, Leaf, At
  <2>1. InWalk(x) /\ va[x] \in Jit /\ va[x] \in Nat /\ undo[x] \in Nat /\ m_jit_watermark \in Nat
    BY <1>1, <2>0 DEF InWalk, RangeOps, InPhysAlloc, FlowAt, Jit, MemoryTypeOK
  <2>2. \A y \in Contexts : Extends(y) => y = x
    BY <2>1, ExtendsAlone
  <2>3. undo[x] = 0
    <3> SUFFICES ASSUME undo[x] # 0 PROVE FALSE
      OBVIOUS
    <3>1. Extends(x) /\ \A y \in Contexts : ~Returned(y)
      BY <2>0, <2>1 DEF JitOK, Extends, Returned
    <3>2. va[x] = m_jit_watermark + undo[x]
      BY <1>2, <3>1
    <3> QED
      BY <2>0, <2>1, <2>2, <3>1, <3>2 DEF JitOK
  <2>4. Quiet
    BY <2>0, <2>3 DEF range_error, Done, Extends, Returned, Goto, Set, MemoryTypeOK
  <2> QED
    BY <2>4
<1>22. CASE virt_alloc_range_cleanup(x)
  <2>1. /\ op[x] = "cleanup" /\ pc[x] = "walk" /\ Goto(x, "stopped")
        /\ UNCHANGED <<virtVars, local, op, otherVars>>
    BY <1>22, CleanupStops DEF virt_alloc_range_cleanup, Leaf, At
  <2>2. Quiet
    BY <2>1 DEF Extends, Returned, Goto, virtVars, local, otherVars, MemoryTypeOK
  <2> QED
    BY <2>2
<1>23. CASE virt_remap_range(x)
  <2>1. Quiet
    BY <1>1, <1>2, <1>23 DEF virt_remap_range, Done, Leaf, OutOfMemory, At, Extends, Returned, InWalk, RangeOps, Set, Goto,
         physVars, virtVars, otherVars, local, FlowAt, InPhysAlloc, WalkOps, MemoryTypeOK
  <2> QED
    BY <2>1
<1>24. CASE is_mapped_done(x)
  <2>1. Quiet
    BY <1>1, <1>2, <1>24 DEF is_mapped_done, Done, Leaf, OutOfMemory, At, Extends, Returned, InWalk, RangeOps, Set, Goto,
         physVars, virtVars, otherVars, local, FlowAt, InPhysAlloc, WalkOps, MemoryTypeOK
  <2> QED
    BY <2>1
<1>25. CASE phys_alloc_record(x)
  <2>1. Quiet
    BY <1>1, <1>2, <1>25 DEF phys_alloc_record, At, Extends, Returned, InWalk, RangeOps, Set, Goto,
         physVars, virtVars, otherVars, local, FlowAt, InPhysAlloc, WalkOps, MemoryTypeOK
  <2> QED
    BY <2>1
<1>26. CASE phys_alloc_clear(x)
  <2>1. Quiet
    BY <1>1, <1>2, <1>26 DEF phys_alloc_clear, At, Extends, Returned, InWalk, RangeOps, Set, Goto,
         physVars, virtVars, otherVars, local, FlowAt, InPhysAlloc, WalkOps, MemoryTypeOK
  <2> QED
    BY <2>1
<1>27. CASE region_release(x)
  <2>1. Quiet
    BY <1>1, <1>2, <1>27 DEF region_release, Done, At, Extends, Returned, InWalk, RangeOps, Set, Goto,
         physVars, virtVars, otherVars, local, FlowAt, InPhysAlloc, WalkOps, MemoryTypeOK
  <2> QED
    BY <2>1
<1>28. CASE init_phys_per_cpu_fill(x)
  <2>1. Quiet
    BY <1>1, <1>2, <1>28 DEF init_phys_per_cpu_fill, At, Extends, Returned, InWalk, RangeOps, Set, Goto,
         physVars, virtVars, otherVars, local, FlowAt, InPhysAlloc, WalkOps, MemoryTypeOK
  <2> QED
    BY <2>1
<1>30. CASE phys_free_insert(x)
  <2>1. Quiet
    BY <1>1, <1>2, <1>30 DEF phys_free_insert, At, Extends, Returned, InWalk, RangeOps, Set, Goto,
         physVars, virtVars, otherVars, local, FlowAt, InPhysAlloc, WalkOps, MemoryTypeOK
  <2> QED
    BY <2>1
<1> QED
  BY <1>5, <1>6, <1>7, <1>8, <1>9, <1>10, <1>11, <1>12, <1>13, <1>14, <1>15, <1>16, <1>17, <1>18, <1>19, <1>20, <1>21, <1>22, <1>23, <1>24, <1>25, <1>26, <1>27, <1>28, <1>29, <1>30 DEF Alloc, Walk

LEMMA JitStepCall ==
    ASSUME MemoryTypeOK, FlowOK, LocksOK, JitOK, NEW c \in Cores, Calls(c)
    PROVE  JitOK'
<1>1. /\ Thread(c) \in Contexts /\ Fault(c) \in Contexts
      /\ FlowAt(Thread(c)) /\ FlowAt(Fault(c))
  BY ContextFacts DEF FlowOK
<1>2. m_jit_watermark' = m_jit_watermark /\ pte' = pte
  BY DEF Calls, init_phys_per_cpu, phys_free, call_phys_alloc, tdn_host_jit_alloc,
         tdn_host_jit_set_exec, virt_is_mapped, Call, virt_handle_page_fault,
         return_to_thread, virtVars, otherVars
<1>3. CASE ThreadCalls(c)
  <2> DEFINE x == Thread(c)
  <2>1. VirtEffect(x) /\ m_virt_lock' = m_virt_lock /\ \A y \in Contexts : y # x => SameAt(y)
    BY <1>3, EffectThread, FrameThread DEF LockEffect
  <2>2. /\ op[x] \in {"none", "alloc"} /\ pc[x] # "watermark" /\ pc'[x] # "watermark"
        /\ \/ undo'[x] = 0 /\ op'[x] # "range"
           \/ undo'[x] = 0 /\ va'[x] = m_jit_watermark
           \/ op'[x] \in {"init", "free"}
    BY <1>1, <1>3 DEF ThreadCalls, init_phys_per_cpu, phys_free, call_phys_alloc,
         tdn_host_jit_alloc, tdn_host_jit_set_exec, virt_is_mapped, Call, return_to_thread,
         Done, Set, Goto, At, FlowAt, local, MemoryTypeOK
  <2>3. ~Extends(x) /\ ~Extends(x)' /\ ~Returned(x) /\ ~Returned(x)'
    BY <2>2 DEF Extends, Returned
  <2>4. op'[x] = "range" /\ undo'[x] = 0 => va'[x] <= m_jit_watermark
    BY <2>2 DEF MemoryTypeOK
  <2> HIDE DEF x
  <2> QED
    BY <1>1, <1>2, <2>1, <2>3, <2>4, JitFrame DEF x
<1>4. CASE virt_handle_page_fault(c)
  <2> DEFINE x == Fault(c)
  <2>1. VirtEffect(x) /\ m_virt_lock' = m_virt_lock /\ \A y \in Contexts : y # x => SameAt(y)
    BY <1>4, EffectFault, FrameFault DEF LockEffect
  <2>2. /\ op[x] = "none" /\ op'[x] = "fault"
        /\ pc[x] # "watermark" /\ pc'[x] # "watermark"
    BY <1>1, <1>4 DEF virt_handle_page_fault, MayFault, FlowAt, Set, Goto, MemoryTypeOK
  <2>3. ~Extends(x) /\ ~Extends(x)' /\ ~Returned(x) /\ ~Returned(x)'
    BY <2>2 DEF Extends, Returned
  <2> HIDE DEF x
  <2> QED
    BY <1>1, <1>2, <2>1, <2>2, <2>3, JitFrame DEF x
<1> QED
  BY <1>3, <1>4 DEF Calls, ThreadCalls

LEMMA JitInit == Init => JitOK
  BY MemoryAssumption DEF Init, JitOK, Extends, Returned, Jit

(* The control part of the invariant is inductive. *)
LEMMA ControlInit == Init => ControlInv
  BY TypeInit, FlowInit, LocksInit, JitInit DEF ControlInv

LEMMA ControlStep == ControlInv /\ [Next]_vars => ControlInv'
<1> SUFFICES ASSUME ControlInv, [Next]_vars PROVE ControlInv'
  OBVIOUS
<1>1. MemoryTypeOK /\ FlowOK /\ LocksOK /\ JitOK
  BY DEF ControlInv
<1>2. ASSUME NEW x \in Contexts, Alloc(x) \/ Walk(x) PROVE ControlInv'
  BY <1>1, <1>2, TypeStepContext, FlowStepContext, LocksStepContext, JitStepContext
     DEF ControlInv
<1>3. ASSUME NEW c \in Cores, Calls(c) PROVE ControlInv'
  BY <1>1, <1>3, TypeStepCall, FlowStepCall, LocksStepCall, JitStepCall DEF ControlInv
<1>4. CASE UNCHANGED vars
  BY <1>1, <1>4 DEF vars, physVars, virtVars, otherVars, local, ControlInv, MemoryTypeOK,
       FlowOK, FlowAt, Missing, LocksOK, InRegion, Recorded, InWalk, RangeOps, InPhysAlloc,
       JitOK, Extends, Returned
<1> QED
  BY <1>2, <1>3, <1>4 DEF Next

(***************************************************************************)
(* In every reachable state of the memory code each context is somewhere   *)
(* sensible in its operation, the locks are with the contexts that use     *)
(* them, and the jit area is mapped up to its end.                         *)
(***************************************************************************)
THEOREM MemoryControl == Spec => []ControlInv
  BY ControlInit, ControlStep, PTL DEF Spec

(***************************************************************************)
(* The types hold, for any page tables, cores and workload: what is mapped *)
(* or freed is a page, and virt_alloc_range stays inside the jit area.     *)
(***************************************************************************)
THEOREM MemoryTypeCorrect == Spec => []MemoryTypeOK
<1>1. ControlInv => MemoryTypeOK
  BY DEF ControlInv
<1> QED
  BY <1>1, MemoryControl, PTL

(***************************************************************************)
(* Mutual exclusion of the buddy lists (phys_alloc) and of the page table  *)
(* walks (virt_map_page, virt_alloc_range, ...), also for a page fault on  *)
(* top of a thread inside the allocator.                                   *)
(***************************************************************************)
THEOREM LocksMutualExclusion == Spec => []LocksAreHeld
<1>1. ControlInv => LocksAreHeld
  BY DEF ControlInv, LocksOK, LocksAreHeld
<1> QED
  BY <1>1, MemoryControl, PTL

(***************************************************************************)
(* A page fault never spins on a lock of its own core as long as stacks    *)
(* grow only where the reserved page covers it: in phys_alloc between the  *)
(* record of m_lock_cpu and its clearing, and where no lock is held.  The  *)
(* hypothesis is needed: the code enforces it nowhere, and fault_deadlock  *)
(* and free_deadlock (.cfg) show the handler waiting for its own           *)
(* core when a stack grows in a page table walk or inside phys_free.       *)
(***************************************************************************)
THEOREM FaultNeverSpinsOnItself == GrowsOutsideWindows /\ Spec => []NoSelfDeadlock
<1> SUFFICES ASSUME GrowsOutsideWindows PROVE Spec => []NoSelfDeadlock
  OBVIOUS
<1>1. ControlInv => NoSelfDeadlock
  <2> SUFFICES ASSUME ControlInv, NEW c \in Cores, WaitsFor(Fault(c), c)
               PROVE  FALSE
    BY DEF NoSelfDeadlock
  <2>1. /\ Thread(c) \in Contexts /\ Fault(c) \in Contexts /\ LocksOK
    BY ContextFacts DEF ControlInv
  <2>2. CASE pc[Fault(c)] = "lock" /\ m_memory_region_lock = c
    BY <2>1, <2>2 DEF LocksOK
  <2>3. CASE pc[Fault(c)] = "vlock" /\ m_virt_lock = c
    <3>1. ~InWalk(Fault(c))
      BY <2>3 DEF InWalk, InPhysAlloc
    <3>2. \/ pc[Thread(c)] = "idle"
          \/ <<op[Thread(c)], pc[Thread(c)]>> \in Growth
      BY <2>1, <2>3 DEF LocksOK
    <3>3. pc[Thread(c)] # "stopped"
      BY <3>2, MemoryAssumption
    <3>4. FlowAt(Thread(c)) /\ op[Thread(c)] # "fault"
      BY <2>1, ContextFacts DEF ControlInv, FlowOK, FlowAt
    <3>5. ~InWalk(Thread(c))
      BY <3>2, <3>4 DEF InWalk, InPhysAlloc, GrowsOutsideWindows
    <3> QED
      BY <2>1, <2>3, <3>1, <3>3, <3>5 DEF LocksOK
  <2> QED
    BY <2>2, <2>3 DEF WaitsFor
<1> QED
  BY <1>1, MemoryControl, PTL

-----------------------------------------------------------------------------
(***************************************************************************)
(* The places of a page, by kind: the entries of a table that hold it      *)
(* (Slots), the threads that were given it (HeldSlots), membership of a    *)
(* pool (SetSlot).                                                         *)
(***************************************************************************)
SetSlot(tag, S, p) == {<<tag, NULL>> : q \in S \cap {p}}
Slots(tag, f, D, p) == {<<tag, y>> : y \in {z \in D : f[z] = p}}
HeldSlots(f, p) == {<<"held", c>> : c \in {d \in Cores : p \in f[d]}}

Kinds == {"pool", "lost", "reserved", "held", "table", "pte", "ret", "page"}
PlacesOf(k, p) ==
    CASE k = "pool" -> SetSlot("pool", pool, p)
      [] k = "lost" -> SetSlot("lost", lost, p)
      [] k = "reserved" -> Slots("reserved", m_reserved_page, Cores, p)
      [] k = "held" -> HeldSlots(held, p)
      [] k = "table" -> Slots("table", table, Entries, p)
      [] k = "pte" -> Slots("pte", pte, Virt, p)
      [] k = "ret" -> Slots("ret", ret, Contexts, p)
      [] k = "page" -> Slots("page", page, Contexts, p)

LEMMA PlacesByKind ==
    ASSUME NEW p
    PROVE  \A o : o \in Places(p) <=> \E k \in Kinds : o \in PlacesOf(k, p)
<1>1. Places(p) =
        SetSlot("pool", pool, p) \cup SetSlot("lost", lost, p)
          \cup Slots("reserved", m_reserved_page, Cores, p) \cup HeldSlots(held, p)
          \cup Slots("table", table, Entries, p) \cup Slots("pte", pte, Virt, p)
          \cup Slots("ret", ret, Contexts, p) \cup Slots("page", page, Contexts, p)
  BY Zenon DEF Places, SetSlot, Slots, HeldSlots
<1> QED
  BY <1>1 DEF Kinds, PlacesOf

LEMMA NextPlacesByKind ==
    ASSUME NEW p
    PROVE  \A o : o \in Places(p)' <=> \E k \in Kinds : o \in PlacesOf(k, p)'
<1>1. Places(p)' =
        SetSlot("pool", pool', p) \cup SetSlot("lost", lost', p)
          \cup Slots("reserved", m_reserved_page', Cores, p) \cup HeldSlots(held', p)
          \cup Slots("table", table', Entries, p) \cup Slots("pte", pte', Virt, p)
          \cup Slots("ret", ret', Contexts, p) \cup Slots("page", page', Contexts, p)
  BY Zenon DEF Places, SetSlot, Slots, HeldSlots
<1> QED
  BY <1>1 DEF Kinds, PlacesOf

(* The kinds of places are disjoint. *)
LEMMA KindsDiffer ==
    ASSUME NEW p, NEW k \in Kinds, NEW o \in PlacesOf(k, p)
    PROVE  o[1] = k
<1>1. /\ \A tag, S : \A q \in SetSlot(tag, S, p) : q[1] = tag
      /\ \A tag, f, D : \A q \in Slots(tag, f, D, p) : q[1] = tag
      /\ \A f : \A q \in HeldSlots(f, p) : q[1] = "held"
  BY DEF SetSlot, Slots, HeldSlots
<1> QED
  BY <1>1 DEF Kinds, PlacesOf

(***************************************************************************)
(* A step leaves a page where it is, or moves it from one place to         *)
(* another: then it has one owner after the step if it had one before.     *)
(***************************************************************************)
Kept(p) == Places(p)' = Places(p)
Moved(p) ==
    \E s \in Places(p), t \in Places(p)' : Places(p)' \subseteq (Places(p) \ {s}) \cup {t}

LEMMA OwnerStep ==
    ASSUME PageHasOneOwner, \A p \in Pages : Kept(p) \/ Moved(p)
    PROVE  PageHasOneOwner'
<1> SUFFICES ASSUME NEW p \in Pages PROVE \E o \in Places(p)' : Places(p)' = {o}
  BY DEF PageHasOneOwner
<1>1. PICK o \in Places(p) : Places(p) = {o}
  BY DEF PageHasOneOwner
<1>2. CASE Kept(p)
  BY <1>1, <1>2 DEF Kept
<1>3. CASE Moved(p)
  <2>1. PICK s \in Places(p), t \in Places(p)' : Places(p)' \subseteq (Places(p) \ {s}) \cup {t}
    BY <1>3 DEF Moved
  <2>2. s = o /\ Places(p)' \subseteq {t}
    BY <1>1, <2>1
  <2> QED
    BY <2>1, <2>2
<1> QED
  BY <1>2, <1>3

LEMMA KeptByKind ==
    ASSUME NEW p, \A k \in Kinds : PlacesOf(k, p)' = PlacesOf(k, p)
    PROVE  Kept(p)
  BY PlacesByKind, NextPlacesByKind DEF Kept

LEMMA MovedByKind ==
    ASSUME NEW p, NEW k1 \in Kinds, NEW k2 \in Kinds, NEW s, NEW t,
           \A k \in Kinds \ {k1, k2} : PlacesOf(k, p)' = PlacesOf(k, p),
           k1 # k2, s \in PlacesOf(k1, p),
           PlacesOf(k1, p)' = PlacesOf(k1, p) \ {s}, PlacesOf(k2, p)' = PlacesOf(k2, p) \cup {t}
    PROVE  Moved(p)
<1>1. s \in Places(p) /\ t \in Places(p)'
  BY PlacesByKind, NextPlacesByKind
<1>2. ASSUME NEW o \in Places(p)', o # t PROVE o \in Places(p) /\ o # s
  <2>1. PICK k \in Kinds : o \in PlacesOf(k, p)'
    BY NextPlacesByKind
  <2>2. o \in PlacesOf(k, p) /\ (k = k1 => o # s)
    BY <1>2, <2>1
  <2>3. k # k1 => o # s
    BY <2>2, KindsDiffer
  <2> QED
    BY <2>2, <2>3, PlacesByKind
<1> QED
  BY <1>1, <1>2 DEF Moved

(* What an assignment to one entry does to the places of a page. *)
LEMMA SlotsSet ==
    ASSUME NEW tag, NEW D, NEW R, NEW f \in [D -> R], NEW x \in D, NEW b, NEW p
    PROVE  /\ b = p => Slots(tag, Set(f, x, b), D, p) = Slots(tag, f, D, p) \cup {<<tag, x>>}
           /\ b # p => Slots(tag, Set(f, x, b), D, p) = Slots(tag, f, D, p) \ {<<tag, x>>}
           /\ f[x] = p <=> <<tag, x>> \in Slots(tag, f, D, p)
<1> DEFINE g == Set(f, x, b)
<1>1. \A z \in D : g[z] = IF z = x THEN b ELSE f[z]
  BY DEF Set
<1> HIDE DEF g
<1>2. \A o : o \in Slots(tag, g, D, p) <=> \E y \in D : o = <<tag, y>> /\ g[y] = p
  BY DEF Slots
<1>3. \A o : o \in Slots(tag, f, D, p) <=> \E y \in D : o = <<tag, y>> /\ f[y] = p
  BY DEF Slots
<1>4. \A y, z : <<tag, y>> = <<tag, z>> => y = z
  OBVIOUS
<1>5. ASSUME b = p PROVE Slots(tag, g, D, p) = Slots(tag, f, D, p) \cup {<<tag, x>>}
  BY <1>1, <1>2, <1>3, <1>5
<1>6. ASSUME b # p PROVE Slots(tag, g, D, p) = Slots(tag, f, D, p) \ {<<tag, x>>}
  BY <1>1, <1>2, <1>3, <1>4, <1>6
<1> QED
  BY <1>3, <1>4, <1>5, <1>6 DEF g

LEMMA HeldSlotsSet ==
    ASSUME NEW f \in [Cores -> SUBSET Pages], NEW c \in Cores, NEW T, NEW p
    PROVE  /\ p \in T => HeldSlots(Set(f, c, T), p) = HeldSlots(f, p) \cup {<<"held", c>>}
           /\ p \notin T => HeldSlots(Set(f, c, T), p) = HeldSlots(f, p) \ {<<"held", c>>}
           /\ p \in f[c] <=> <<"held", c>> \in HeldSlots(f, p)
<1> DEFINE g == Set(f, c, T)
<1>1. \A d \in Cores : g[d] = IF d = c THEN T ELSE f[d]
  BY DEF Set
<1> HIDE DEF g
<1>2. \A o : o \in HeldSlots(g, p) <=> \E d \in Cores : o = <<"held", d>> /\ p \in g[d]
  BY DEF HeldSlots
<1>3. \A o : o \in HeldSlots(f, p) <=> \E d \in Cores : o = <<"held", d>> /\ p \in f[d]
  BY DEF HeldSlots
<1>4. \A y, z : <<"held", y>> = <<"held", z>> => y = z
  OBVIOUS
<1>5. ASSUME p \in T PROVE HeldSlots(g, p) = HeldSlots(f, p) \cup {<<"held", c>>}
  BY <1>1, <1>2, <1>3, <1>5
<1>6. ASSUME p \notin T PROVE HeldSlots(g, p) = HeldSlots(f, p) \ {<<"held", c>>}
  BY <1>1, <1>2, <1>3, <1>4, <1>6
<1> QED
  BY <1>3, <1>4, <1>5, <1>6 DEF g

(***************************************************************************)
(* The same for each of the variables, as PlacesOf sees it.                *)
(***************************************************************************)
LEMMA SetAssigned ==
    ASSUME NEW p
    PROVE  /\ PlacesOf("pool", p) = IF p \in pool THEN {<<"pool", NULL>>} ELSE {}
           /\ PlacesOf("pool", p)' = IF p \in pool' THEN {<<"pool", NULL>>} ELSE {}
           /\ PlacesOf("lost", p) = IF p \in lost THEN {<<"lost", NULL>>} ELSE {}
           /\ PlacesOf("lost", p)' = IF p \in lost' THEN {<<"lost", NULL>>} ELSE {}
<1>1. \A tag, S : SetSlot(tag, S, p) = IF p \in S THEN {<<tag, NULL>>} ELSE {}
  BY DEF SetSlot
<1> QED
  BY <1>1 DEF PlacesOf

Assigned(k, x, a, b, p) ==
    /\ b = p => PlacesOf(k, p)' = PlacesOf(k, p) \cup {<<k, x>>}
    /\ b # p => PlacesOf(k, p)' = PlacesOf(k, p) \ {<<k, x>>}
    /\ a = p <=> <<k, x>> \in PlacesOf(k, p)

LEMMA ReservedAssigned ==
    ASSUME MemoryTypeOK, NEW c \in Cores, NEW b, NEW p, m_reserved_page' = Set(m_reserved_page, c, b)
    PROVE  Assigned("reserved", c, m_reserved_page[c], b, p)
<1>1. m_reserved_page \in [Cores -> Frames]
  BY DEF MemoryTypeOK
<1> QED
  BY <1>1, SlotsSet DEF PlacesOf, Assigned

LEMMA TableAssigned ==
    ASSUME MemoryTypeOK, NEW e \in Entries, NEW b, NEW p, table' = Set(table, e, b)
    PROVE  Assigned("table", e, table[e], b, p)
<1>1. table \in [Entries -> Frames]
  BY DEF MemoryTypeOK
<1> QED
  BY <1>1, SlotsSet DEF PlacesOf, Assigned

LEMMA PteAssigned ==
    ASSUME MemoryTypeOK, NEW v \in Virt, NEW b, NEW p, pte' = Set(pte, v, b)
    PROVE  Assigned("pte", v, pte[v], b, p)
<1> DEFINE R == Frames \cup {Direct}
<1>1. pte \in [Virt -> R]
  BY DEF MemoryTypeOK
<1> HIDE DEF R
<1> QED
  BY <1>1, SlotsSet, SMTT(60) DEF PlacesOf, Assigned

LEMMA RetAssigned ==
    ASSUME MemoryTypeOK, NEW x \in Contexts, NEW b, NEW p, ret' = Set(ret, x, b)
    PROVE  Assigned("ret", x, ret[x], b, p)
<1>1. ret \in [Contexts -> Frames]
  BY DEF MemoryTypeOK
<1> QED
  BY <1>1, SlotsSet DEF PlacesOf, Assigned

LEMMA PageAssigned ==
    ASSUME MemoryTypeOK, NEW x \in Contexts, NEW b, NEW p, page' = Set(page, x, b)
    PROVE  Assigned("page", x, page[x], b, p)
<1> DEFINE R == Frames \cup {Direct}
<1>1. page \in [Contexts -> R]
  BY DEF MemoryTypeOK
<1> HIDE DEF R
<1> QED
  BY <1>1, SlotsSet DEF PlacesOf, Assigned

LEMMA HeldAssigned ==
    ASSUME MemoryTypeOK, NEW c \in Cores, NEW T, NEW p, held' = Set(held, c, T)
    PROVE  /\ p \in T => PlacesOf("held", p)' = PlacesOf("held", p) \cup {<<"held", c>>}
           /\ p \notin T => PlacesOf("held", p)' = PlacesOf("held", p) \ {<<"held", c>>}
           /\ p \in held[c] <=> <<"held", c>> \in PlacesOf("held", p)
<1>1. held \in [Cores -> SUBSET Pages]
  BY DEF MemoryTypeOK
<1> QED
  BY <1>1, HeldSlotsSet DEF PlacesOf

LEMMA UnchangedPlaces ==
    ASSUME NEW p
    PROVE  /\ pool' = pool => PlacesOf("pool", p)' = PlacesOf("pool", p)
           /\ lost' = lost => PlacesOf("lost", p)' = PlacesOf("lost", p)
           /\ m_reserved_page' = m_reserved_page => PlacesOf("reserved", p)' = PlacesOf("reserved", p)
           /\ held' = held => PlacesOf("held", p)' = PlacesOf("held", p)
           /\ table' = table => PlacesOf("table", p)' = PlacesOf("table", p)
           /\ pte' = pte => PlacesOf("pte", p)' = PlacesOf("pte", p)
           /\ ret' = ret => PlacesOf("ret", p)' = PlacesOf("ret", p)
           /\ page' = page => PlacesOf("page", p)' = PlacesOf("page", p)
  BY DEF PlacesOf

(* What a step does to the places of one kind. *)
Same(k, p) == PlacesOf(k, p)' = PlacesOf(k, p)
Gains(k, x, p) == PlacesOf(k, p)' = PlacesOf(k, p) \cup {<<k, x>>}
Loses(k, x, p) == <<k, x>> \in PlacesOf(k, p) /\ PlacesOf(k, p)' = PlacesOf(k, p) \ {<<k, x>>}

LEMMA SameAll ==
    ASSUME NEW p, \A k \in Kinds : Same(k, p)
    PROVE  Kept(p)
  BY KeptByKind DEF Same

LEMMA MovedTo ==
    ASSUME NEW p, NEW k1 \in Kinds, NEW k2 \in Kinds, k1 # k2, NEW x, NEW y,
           Loses(k1, x, p), Gains(k2, y, p), \A k \in Kinds \ {k1, k2} : Same(k, p)
    PROVE  Moved(p)
<1> DEFINE s == <<k1, x>>
           t == <<k2, y>>
<1>1. /\ s \in PlacesOf(k1, p) /\ PlacesOf(k1, p)' = PlacesOf(k1, p) \ {s}
      /\ PlacesOf(k2, p)' = PlacesOf(k2, p) \cup {t}
      /\ \A k \in Kinds \ {k1, k2} : PlacesOf(k, p)' = PlacesOf(k, p)
  BY DEF Loses, Gains, Same
<1> HIDE DEF s, t
<1> QED
  BY <1>1, MovedByKind

(* An entry that held a and now holds b. *)
LEMMA AssignedEffect ==
    ASSUME NEW k, NEW x, NEW a, NEW b, NEW p, Assigned(k, x, a, b, p)
    PROVE  /\ a # p /\ b # p => Same(k, p)
           /\ a = p /\ b # p => Loses(k, x, p)
           /\ b = p => Gains(k, x, p)
<1>1. CASE a # p /\ b # p
  BY <1>1 DEF Assigned, Same
<1>2. CASE a = p /\ b # p
  BY <1>2 DEF Assigned, Loses
<1>3. CASE b = p
  BY <1>3 DEF Assigned, Gains
<1> QED
  BY <1>1, <1>2, <1>3

LEMMA PoolEffect ==
    ASSUME NEW p
    PROVE  /\ (p \in pool <=> p \in pool') => Same("pool", p)
           /\ p \in pool /\ p \notin pool' => Loses("pool", NULL, p)
           /\ p \in pool' => Gains("pool", NULL, p)
           /\ (p \in lost <=> p \in lost') => Same("lost", p)
           /\ p \in lost' => Gains("lost", NULL, p)
  BY SetAssigned DEF Same, Loses, Gains

(* The page of one entry moves to another. *)
LEMMA EntryMoved ==
    ASSUME NEW p, NEW k1 \in Kinds, NEW k2 \in Kinds, k1 # k2, NEW x, NEW y, NEW q, NEW a, NEW b,
           Assigned(k1, x, q, b, p), Assigned(k2, y, a, q, p), a # p, b # p,
           \A k \in Kinds \ {k1, k2} : Same(k, p)
    PROVE  Kept(p) \/ Moved(p)
<1>1. CASE q = p
  <2>1. Loses(k1, x, p) /\ Gains(k2, y, p)
    BY <1>1, AssignedEffect
  <2> QED
    BY <2>1, MovedTo
<1>2. CASE q # p
  <2>1. Same(k1, p) /\ Same(k2, p)
    BY <1>2, AssignedEffect
  <2> QED
    BY <2>1, SameAll
<1> QED
  BY <1>1, <1>2

(***************************************************************************)
(* Steps that put no page anywhere.                                        *)
(***************************************************************************)
LEMMA OwnerQuiet ==
    ASSUME MemoryTypeOK, NEW x \in Contexts, NEW p \in Pages,
           pool' = pool, lost' = lost, m_reserved_page' = m_reserved_page, held' = held,
           table' = table, pte' = pte,
           ret' = ret \/ (ret' = Set(ret, x, NULL) /\ ret[x] = NULL),
           \/ page' = page
           \/ page' = Set(page, x, NULL) /\ page[x] = NULL
           \/ page' = Set(page, x, Direct) /\ page[x] = NULL
    PROVE  Kept(p)
<1>1. p # NULL /\ p # Direct
  BY MemoryAssumption
<1>2. Same("ret", p)
  <2>1. CASE ret' = ret
    BY <2>1, UnchangedPlaces DEF Same
  <2>2. CASE ret' = Set(ret, x, NULL) /\ ret[x] = NULL
    <3>1. Assigned("ret", x, NULL, NULL, p)
      BY <2>2, RetAssigned
    <3> QED
      BY <1>1, <3>1, AssignedEffect
  <2> QED
    BY <2>1, <2>2
<1>3. Same("page", p)
  <2>1. CASE page' = page
    BY <2>1, UnchangedPlaces DEF Same
  <2>2. CASE page' = Set(page, x, NULL) /\ page[x] = NULL
    <3>1. Assigned("page", x, NULL, NULL, p)
      BY <2>2, PageAssigned
    <3> QED
      BY <1>1, <3>1, AssignedEffect
  <2>3. CASE page' = Set(page, x, Direct) /\ page[x] = NULL
    <3>1. Assigned("page", x, NULL, Direct, p)
      BY <2>3, PageAssigned
    <3> QED
      BY <1>1, <3>1, AssignedEffect
  <2> QED
    BY <2>1, <2>2, <2>3
<1>4. \A k \in Kinds : Same(k, p)
  BY <1>2, <1>3, UnchangedPlaces DEF Same, Kinds
<1> QED
  BY <1>4, SameAll

(***************************************************************************)
(* The steps that move pages: out of the free memory and the reserved page *)
(* in phys_alloc, from hand to hand, into tables and mappings, and out of  *)
(* them in the error path of virt_alloc_range.                             *)
(***************************************************************************)
LEMMA OwnerIrqAlloc ==
    ASSUME MemoryTypeOK, FlowOK, NEW x \in Contexts, irq_alloc(x), NEW p \in Pages
    PROVE  Kept(p) \/ Moved(p)
<1> DEFINE c == CoreOf(x)
           q == m_reserved_page[c]
<1>1. /\ m_reserved_page' = Set(m_reserved_page, c, NULL) /\ ret' = Set(ret, x, q)
      /\ pool' = pool /\ lost' = lost /\ held' = held /\ table' = table /\ pte' = pte /\ page' = page
      /\ ret[x] = NULL /\ c \in Cores /\ p # NULL
  BY ContextFacts, MemoryAssumption DEF irq_alloc, At, virtVars, otherVars, FlowOK, FlowAt
<1>2. Assigned("reserved", c, q, NULL, p) /\ Assigned("ret", x, NULL, q, p)
  BY <1>1, ReservedAssigned, RetAssigned
<1>3. \A k \in Kinds \ {"reserved", "ret"} : Same(k, p)
  BY <1>1, UnchangedPlaces DEF Same, Kinds
<1> HIDE DEF c, q
<1>4. "reserved" \in Kinds /\ "ret" \in Kinds
  BY DEF Kinds
<1> QED
  BY <1>1, <1>2, <1>3, <1>4, EntryMoved

LEMMA OwnerReturnData ==
    ASSUME MemoryTypeOK, FlowOK, NEW x \in Contexts, return_data(x), NEW p \in Pages
    PROVE  Kept(p) \/ Moved(p)
<1> DEFINE q == ret[x]
<1>1. /\ ret' = Set(ret, x, NULL) /\ page' = Set(page, x, q)
      /\ pool' = pool /\ lost' = lost /\ m_reserved_page' = m_reserved_page /\ held' = held
      /\ table' = table /\ pte' = pte
      /\ page[x] = NULL /\ p # NULL
  BY MemoryAssumption
     DEF return_data, At, physVars, virtVars, otherVars, FlowOK, FlowAt, InPhysAlloc
<1>2. Assigned("ret", x, q, NULL, p) /\ Assigned("page", x, NULL, q, p)
  BY <1>1, RetAssigned, PageAssigned
<1>3. \A k \in Kinds \ {"ret", "page"} : Same(k, p)
  BY <1>1, UnchangedPlaces DEF Same, Kinds
<1> HIDE DEF q
<1>4. "page" \in Kinds /\ "ret" \in Kinds
  BY DEF Kinds
<1> QED
  BY <1>1, <1>2, <1>3, <1>4, EntryMoved

LEMMA OwnerReturnTable ==
    ASSUME MemoryTypeOK, FlowOK, NEW x \in Contexts, return_table(x), NEW p \in Pages
    PROVE  Kept(p) \/ Moved(p)
<1> DEFINE q == ret[x]
           e == FirstMissing(va[x])
<1>1. /\ ret' = Set(ret, x, NULL) /\ table' = Set(table, e, q)
      /\ pool' = pool /\ lost' = lost /\ m_reserved_page' = m_reserved_page /\ held' = held
      /\ page' = page /\ pte' = pte /\ p # NULL
      /\ va[x] \in Virt /\ Missing(va[x]) # {}
  BY MemoryAssumption
     DEF return_table, At, physVars, virtVars, otherVars, FlowOK, FlowAt, InPhysAlloc
<1>2. e \in Entries /\ table[e] = NULL
  BY <1>1, FirstMissingFacts
<1> HIDE DEF e
<1>3. Assigned("ret", x, q, NULL, p) /\ Assigned("table", e, NULL, q, p)
  BY <1>1, <1>2, RetAssigned, TableAssigned
<1>4. \A k \in Kinds \ {"ret", "table"} : Same(k, p)
  BY <1>1, UnchangedPlaces DEF Same, Kinds
<1> HIDE DEF q
<1>5. "table" \in Kinds /\ "ret" \in Kinds
  BY DEF Kinds
<1> QED
  BY <1>1, <1>3, <1>4, <1>5, EntryMoved

(* A page of virt_alloc_range is mapped where nothing was. *)
LEMMA OwnerRangePage ==
    ASSUME MemoryTypeOK, FlowOK, NEW x \in Contexts, NEW p \in Pages,
           virt_alloc_range_next(x) \/ virt_alloc_range_done(x)
    PROVE  Kept(p) \/ Moved(p)
<1> DEFINE q == page[x]
           v == va[x]
<1>1. /\ page' = Set(page, x, NULL) /\ pte' = Set(pte, v, q)
      /\ pool' = pool /\ lost' = lost /\ m_reserved_page' = m_reserved_page /\ held' = held
      /\ table' = table
      /\ ret' = ret \/ (ret' = Set(ret, x, NULL) /\ ret[x] = NULL)
      /\ v \in Virt /\ pte[v] = NULL /\ p # NULL
  BY MemoryAssumption
     DEF virt_alloc_range_next, virt_alloc_range_done, Leaf, At, Done, physVars, otherVars,
         FlowOK, FlowAt, WalkOps, RangeOps
<1>2. Same("ret", p)
  <2>1. CASE ret' = ret
    BY <2>1, UnchangedPlaces DEF Same
  <2>2. CASE ret' = Set(ret, x, NULL) /\ ret[x] = NULL
    <3>1. Assigned("ret", x, NULL, NULL, p)
      BY <2>2, RetAssigned
    <3> QED
      BY <1>1, <3>1, AssignedEffect
  <2> QED
    BY <1>1, <2>1, <2>2
<1>3. Assigned("page", x, q, NULL, p) /\ Assigned("pte", v, NULL, q, p)
  BY <1>1, PageAssigned, PteAssigned
<1>4. \A k \in Kinds \ {"page", "pte"} : Same(k, p)
  BY <1>1, <1>2, UnchangedPlaces DEF Same, Kinds
<1> HIDE DEF q, v
<1>5. "page" \in Kinds /\ "pte" \in Kinds
  BY DEF Kinds
<1> QED
  BY <1>1, <1>3, <1>4, <1>5, EntryMoved

LEMMA HeldEffect ==
    ASSUME MemoryTypeOK, NEW c \in Cores, NEW T, NEW p, held' = Set(held, c, T)
    PROVE  /\ (p \in T <=> p \in held[c]) => Same("held", p)
           /\ p \in held[c] /\ p \notin T => Loses("held", c, p)
           /\ p \in T => Gains("held", c, p)
<1>1. /\ p \in T => PlacesOf("held", p)' = PlacesOf("held", p) \cup {<<"held", c>>}
      /\ p \notin T => PlacesOf("held", p)' = PlacesOf("held", p) \ {<<"held", c>>}
      /\ p \in held[c] <=> <<"held", c>> \in PlacesOf("held", p)
  BY HeldAssigned
<1> QED
  BY <1>1 DEF Same, Loses, Gains

(* A page that has one owner is not in two places. *)
LEMMA NotTwice ==
    ASSUME PageHasOneOwner, NEW p \in Pages, NEW k1 \in Kinds, NEW k2 \in Kinds, k1 # k2,
           NEW x, NEW y, <<k1, x>> \in PlacesOf(k1, p), <<k2, y>> \in PlacesOf(k2, p)
    PROVE  FALSE
<1>1. <<k1, x>> \in Places(p) /\ <<k2, y>> \in Places(p)
  BY PlacesByKind
<1>2. PICK o \in Places(p) : Places(p) = {o}
  BY DEF PageHasOneOwner
<1>3. <<k1, x>> = <<k2, y>>
  BY <1>1, <1>2
<1> QED
  BY <1>3

(***************************************************************************)
(* virt_map_page puts the page of the fault where another core's fault may *)
(* have put one before: that one is lost.                                  *)
(***************************************************************************)
LEMMA OwnerMapPage ==
    ASSUME MemoryTypeOK, FlowOK, PageHasOneOwner,
           NEW x \in Contexts, virt_map_page(x), NEW p \in Pages
    PROVE  Kept(p) \/ Moved(p)
<1> DEFINE q == page[x]
           v == va[x]
           r == pte[v]
<1>1. /\ page' = Set(page, x, NULL) /\ pte' = Set(pte, v, q) /\ ret' = Set(ret, x, NULL)
      /\ pool' = pool /\ m_reserved_page' = m_reserved_page /\ held' = held /\ table' = table
      /\ lost' = lost \cup ({r} \ {NULL, Direct})
      /\ v \in Virt /\ ret[x] = NULL /\ p # NULL /\ p # Direct
  BY MemoryAssumption
     DEF virt_map_page, Leaf, At, Done, physVars, FlowOK, FlowAt, WalkOps, RangeOps
<1>2. /\ Assigned("page", x, q, NULL, p) /\ Assigned("pte", v, r, q, p)
      /\ Assigned("ret", x, NULL, NULL, p)
  BY <1>1, PageAssigned, PteAssigned, RetAssigned
<1> HIDE DEF q, v, r
<1>3. Same("ret", p)
  BY <1>1, <1>2, AssignedEffect
<1>4. /\ "page" \in Kinds /\ "pte" \in Kinds /\ "lost" \in Kinds
      /\ \A k \in Kinds \ {"page", "pte", "lost"} : Same(k, p)
  BY <1>1, <1>3, UnchangedPlaces DEF Same, Kinds
<1>5. CASE p = q
  <2>1. r # p
    <3> SUFFICES ASSUME r = p PROVE FALSE
      OBVIOUS
    <3>1. <<"page", x>> \in PlacesOf("page", p) /\ <<"pte", v>> \in PlacesOf("pte", p)
      BY <1>2, <1>5 DEF Assigned
    <3> QED
      BY <1>4, <3>1, NotTwice
  <2>2. Same("lost", p)
    BY <1>1, <2>1, PoolEffect
  <2>3. Loses("page", x, p) /\ Gains("pte", v, p)
    BY <1>1, <1>2, <1>5, AssignedEffect
  <2>4. \A k \in Kinds \ {"page", "pte"} : Same(k, p)
    BY <1>4, <2>2
  <2> QED
    BY <1>4, <2>3, <2>4, MovedTo
<1>6. CASE p # q /\ p = r
  <2>1. Same("page", p) /\ Loses("pte", v, p)
    BY <1>1, <1>2, <1>6, AssignedEffect
  <2>2. Gains("lost", NULL, p)
    BY <1>1, <1>6, PoolEffect
  <2>3. \A k \in Kinds \ {"pte", "lost"} : Same(k, p)
    BY <1>4, <2>1
  <2> QED
    BY <1>4, <2>1, <2>2, <2>3, MovedTo
<1>7. CASE p # q /\ p # r
  <2>1. Same("page", p) /\ Same("pte", p)
    BY <1>1, <1>2, <1>7, AssignedEffect
  <2>2. Same("lost", p)
    BY <1>1, <1>7, PoolEffect
  <2> QED
    BY <1>4, <2>1, <2>2, SameAll
<1> QED
  BY <1>5, <1>6, <1>7

(* The error path of virt_alloc_range drops the page it could not map. *)
LEMMA OwnerRangeError ==
    ASSUME MemoryTypeOK, FlowOK, NEW x \in Contexts, NEW p \in Pages,
           fail_range(x) \/ virt_alloc_range_present(x)
    PROVE  Kept(p) \/ Moved(p)
<1> DEFINE q == page[x]
<1>1. ret[x] = NULL /\ range_error(x)
  BY DEF fail_range, virt_alloc_range_present, OutOfMemory, Leaf, At, FlowOK, FlowAt
<1>2. /\ page' = Set(page, x, NULL)
      /\ ret' = ret \/ ret' = Set(ret, x, NULL)
      /\ pool' = pool /\ m_reserved_page' = m_reserved_page /\ held' = held /\ table' = table
      /\ pte' = pte /\ lost' = lost \cup ({q} \ {NULL}) /\ p # NULL
  BY <1>1, MemoryAssumption DEF range_error, Done, physVars
<1>3. Same("ret", p)
  <2>1. CASE ret' = ret
    BY <2>1, UnchangedPlaces DEF Same
  <2>2. CASE ret' = Set(ret, x, NULL)
    <3>1. Assigned("ret", x, NULL, NULL, p)
      BY <1>1, <2>2, RetAssigned
    <3> QED
      BY <1>2, <3>1, AssignedEffect
  <2> QED
    BY <1>2, <2>1, <2>2
<1>4. Assigned("page", x, q, NULL, p)
  BY <1>2, PageAssigned
<1> HIDE DEF q
<1>5. /\ "page" \in Kinds /\ "lost" \in Kinds
      /\ \A k \in Kinds \ {"page", "lost"} : Same(k, p)
  BY <1>2, <1>3, UnchangedPlaces DEF Same, Kinds
<1>6. CASE p = q
  <2>1. Loses("page", x, p) /\ Gains("lost", NULL, p)
    BY <1>2, <1>4, <1>6, AssignedEffect, PoolEffect
  <2> QED
    BY <1>5, <2>1, MovedTo
<1>7. CASE p # q
  <2>1. Same("page", p) /\ Same("lost", p)
    BY <1>2, <1>4, <1>7, AssignedEffect, PoolEffect
  <2> QED
    BY <1>5, <2>1, SameAll
<1> QED
  BY <1>6, <1>7

(***************************************************************************)
(* fill_irq_alloc takes its page out of the free ones it is given.         *)
(***************************************************************************)
LEMMA OwnerFill ==
    ASSUME MemoryTypeOK, NEW c \in Cores, NEW S \in SUBSET pool, fill_irq_alloc(c, S),
           NEW p \in Pages
    PROVE  \/ Same("reserved", p) /\ (p \in pool' <=> p \in S)
           \/ p \in S /\ p \notin pool' /\ Gains("reserved", c, p)
<1>0. p # NULL
  BY MemoryAssumption
<1>1. CASE m_reserved_page[c] # NULL
  <2>1. m_reserved_page' = m_reserved_page /\ pool' = S
    BY <1>1 DEF fill_irq_alloc
  <2> QED
    BY <2>1, UnchangedPlaces DEF Same
<1>2. CASE m_reserved_page[c] = NULL
  <2> DEFINE q == Take(S)
  <2>1. m_reserved_page' = Set(m_reserved_page, c, q) /\ pool' = S \ {q}
    BY <1>2 DEF fill_irq_alloc
  <2>2. /\ S # {} => q \in S
        /\ S = {} => q = NULL
    BY TakeFacts DEF MemoryTypeOK
  <2>3. Assigned("reserved", c, NULL, q, p)
    BY <1>2, <2>1, ReservedAssigned
  <2> HIDE DEF q
  <2>4. CASE p = q
    BY <1>0, <2>1, <2>2, <2>3, <2>4, AssignedEffect
  <2>5. CASE p # q
    BY <1>0, <2>1, <2>3, <2>5, AssignedEffect
  <2> QED
    BY <2>4, <2>5
<1> QED
  BY <1>1, <1>2

LEMMA OwnerSearch ==
    ASSUME MemoryTypeOK, FlowOK, NEW x \in Contexts, phys_alloc_search(x), NEW p \in Pages
    PROVE  Kept(p) \/ Moved(p)
<1> DEFINE q == Take(pool)
           S == pool \ {q}
           c == CoreOf(x)
<1>1. /\ ret' = Set(ret, x, q) /\ ret[x] = NULL /\ fill_irq_alloc(c, S) /\ c \in Cores
      /\ lost' = lost /\ held' = held /\ table' = table /\ pte' = pte /\ page' = page /\ p # NULL
  BY ContextFacts, MemoryAssumption
     DEF phys_alloc_search, At, virtVars, otherVars, FlowOK, FlowAt
<1>2. /\ pool # {} => q \in pool
      /\ pool = {} => q = NULL
  BY TakeFacts DEF MemoryTypeOK
<1>3. Assigned("ret", x, NULL, q, p)
  BY <1>1, RetAssigned
<1>4. \/ Same("reserved", p) /\ (p \in pool' <=> p \in S)
      \/ p \in S /\ p \notin pool' /\ Gains("reserved", c, p)
  BY <1>1, OwnerFill
<1>5. /\ "ret" \in Kinds /\ "pool" \in Kinds /\ "reserved" \in Kinds
      /\ \A k \in Kinds \ {"ret", "pool", "reserved"} : Same(k, p)
  BY <1>1, UnchangedPlaces DEF Same, Kinds
<1> HIDE DEF q, c
<1>6. CASE p = q
  <2>1. p \in pool /\ p \notin S
    BY <1>1, <1>2, <1>6
  <2>2. Same("reserved", p) /\ p \notin pool'
    BY <1>4, <2>1
  <2>3. Loses("pool", NULL, p) /\ Gains("ret", x, p)
    BY <1>3, <1>6, <2>1, <2>2, AssignedEffect, PoolEffect
  <2>4. \A k \in Kinds \ {"pool", "ret"} : Same(k, p)
    BY <1>5, <2>2
  <2> QED
    BY <1>5, <2>3, <2>4, MovedTo
<1>7. CASE p # q /\ Same("reserved", p) /\ (p \in pool' <=> p \in S)
  <2>1. Same("ret", p)
    BY <1>1, <1>3, <1>7, AssignedEffect
  <2>2. Same("pool", p)
    BY <1>7, PoolEffect
  <2> QED
    BY <1>5, <1>7, <2>1, <2>2, SameAll
<1>8. CASE p # q /\ p \in S /\ p \notin pool' /\ Gains("reserved", c, p)
  <2>1. Same("ret", p)
    BY <1>1, <1>3, <1>8, AssignedEffect
  <2>2. Loses("pool", NULL, p)
    BY <1>8, PoolEffect
  <2>3. \A k \in Kinds \ {"pool", "reserved"} : Same(k, p)
    BY <1>5, <2>1
  <2> QED
    BY <1>5, <1>8, <2>2, <2>3, MovedTo
<1> QED
  BY <1>4, <1>6, <1>7, <1>8

LEMMA OwnerInitFill ==
    ASSUME MemoryTypeOK, NEW x \in Contexts, init_phys_per_cpu_fill(x), NEW p \in Pages
    PROVE  Kept(p) \/ Moved(p)
<1>0. CoreOf(x) \in Cores
  BY ContextFacts
<1>1. /\ fill_irq_alloc(CoreOf(x), pool)
      /\ lost' = lost /\ held' = held /\ table' = table /\ pte' = pte
      /\ ret' = ret /\ page' = page
  BY DEF init_phys_per_cpu_fill, virtVars, otherVars, local
<1>2. \/ Same("reserved", p) /\ (p \in pool' <=> p \in pool)
      \/ p \in pool /\ p \notin pool' /\ Gains("reserved", CoreOf(x), p)
  BY <1>0, <1>1, OwnerFill
<1>3. /\ "pool" \in Kinds /\ "reserved" \in Kinds
      /\ \A k \in Kinds \ {"pool", "reserved"} : Same(k, p)
  BY <1>1, UnchangedPlaces DEF Same, Kinds
<1>4. CASE Same("reserved", p) /\ (p \in pool' <=> p \in pool)
  <2>1. Same("pool", p)
    BY <1>4, PoolEffect
  <2> QED
    BY <1>3, <1>4, <2>1, SameAll
<1>5. CASE p \in pool /\ p \notin pool' /\ Gains("reserved", CoreOf(x), p)
  <2>1. Loses("pool", NULL, p)
    BY <1>5, PoolEffect
  <2> QED
    BY <1>3, <1>5, <2>1, MovedTo
<1> QED
  BY <1>2, <1>4, <1>5

LEMMA OwnerFreeInsert ==
    ASSUME MemoryTypeOK, NEW x \in Contexts, phys_free_insert(x), NEW p \in Pages
    PROVE  Kept(p) \/ Moved(p)
<1> DEFINE q == page[x]
<1>1. /\ pool' = pool \cup {q} /\ page' = Set(page, x, NULL)
      /\ lost' = lost /\ m_reserved_page' = m_reserved_page /\ held' = held
      /\ table' = table /\ pte' = pte /\ ret' = ret /\ p # NULL
  BY MemoryAssumption DEF phys_free_insert, virtVars, otherVars
<1>2. Assigned("page", x, q, NULL, p)
  BY <1>1, PageAssigned
<1>3. /\ "pool" \in Kinds /\ "page" \in Kinds
      /\ \A k \in Kinds \ {"pool", "page"} : Same(k, p)
  BY <1>1, UnchangedPlaces DEF Same, Kinds
<1> HIDE DEF q
<1>4. CASE p = q
  <2>1. Loses("page", x, p) /\ Gains("pool", NULL, p)
    BY <1>1, <1>2, <1>4, AssignedEffect, PoolEffect
  <2> QED
    BY <1>3, <2>1, MovedTo
<1>5. CASE p # q
  <2>1. Same("page", p) /\ Same("pool", p)
    BY <1>1, <1>2, <1>5, AssignedEffect, PoolEffect
  <2> QED
    BY <1>3, <2>1, SameAll
<1> QED
  BY <1>4, <1>5

LEMMA OwnerStepContext ==
    ASSUME ControlInv, PageHasOneOwner, NEW x \in Contexts, Alloc(x) \/ Walk(x), NEW p \in Pages
    PROVE  Kept(p) \/ Moved(p)
<1> USE DEF ControlInv
<1>1. FlowAt(x)
  BY DEF FlowOK
<1>2. CASE irq_alloc(x)
  BY <1>2, OwnerIrqAlloc
<1>3. CASE phys_alloc_search(x)
  BY <1>3, OwnerSearch
<1>4. CASE return_data(x)
  BY <1>4, OwnerReturnData
<1>5. CASE return_table(x)
  BY <1>5, OwnerReturnTable
<1>6. CASE fail_range(x) \/ virt_alloc_range_present(x)
  BY <1>6, OwnerRangeError
<1>7. CASE virt_map_page(x)
  BY <1>7, OwnerMapPage
<1>8. CASE virt_alloc_range_next(x) \/ virt_alloc_range_done(x)
  BY <1>8, OwnerRangePage
<1>9. CASE virt_alloc_range_cleanup(x)
  <2>1. UNCHANGED <<physVars, virtVars, local, op, otherVars>>
    BY <1>9, CleanupStops
  <2>2. /\ pool' = pool /\ lost' = lost /\ m_reserved_page' = m_reserved_page /\ held' = held
        /\ table' = table /\ pte' = pte /\ ret' = ret /\ page' = page
    BY <2>1 DEF physVars, virtVars, local, otherVars
  <2> QED
    BY <2>2, OwnerQuiet
<1>10. CASE \/ irq_alloc_assert(x) \/ irq_alloc_none(x) \/ region_acquire(x)
            \/ phys_alloc_record(x) \/ phys_alloc_clear(x) \/ fail_fault(x) \/ fail_cleanup(x) \/ virt_lock(x) \/ get_next_level(x)
  <2>1. /\ pool' = pool /\ lost' = lost /\ m_reserved_page' = m_reserved_page /\ held' = held
        /\ table' = table /\ pte' = pte /\ ret' = ret /\ page' = page
    BY <1>10 DEF irq_alloc_assert, irq_alloc_none, region_acquire,
         phys_alloc_record, phys_alloc_clear, fail_fault, fail_cleanup,
         virt_lock, get_next_level, physVars, virtVars, otherVars, local
  <2> QED
    BY <2>1, OwnerQuiet
<1>11. CASE fail_walk(x) \/ virt_remap_range(x) \/ is_mapped_done(x)
  <2>1. /\ pool' = pool /\ lost' = lost /\ m_reserved_page' = m_reserved_page /\ held' = held
        /\ table' = table /\ pte' = pte
        /\ ret' = Set(ret, x, NULL) /\ page' = Set(page, x, NULL)
    BY <1>11 DEF fail_walk, virt_remap_range, is_mapped_done, Done, physVars, otherVars
  <2>2. op[x] \in {"remap", "mapped"} /\ ret[x] = NULL
    BY <1>1, <1>11 DEF fail_walk, virt_remap_range, is_mapped_done, OutOfMemory, Leaf, At, FlowAt
  <2>3. page[x] = NULL
    BY <1>1, <2>2 DEF FlowAt
  <2> QED
    BY <2>1, <2>2, <2>3, OwnerQuiet
<1>12. CASE init_phys_per_cpu_fill(x)
  BY <1>12, OwnerInitFill
<1>13. CASE phys_free_insert(x)
  BY <1>13, OwnerFreeInsert
<1>14. CASE jit_alloc_watermark(x) \/ region_release(x)
  <2>1. /\ pool' = pool /\ lost' = lost /\ m_reserved_page' = m_reserved_page /\ held' = held
        /\ table' = table /\ pte' = pte
    BY <1>14 DEF jit_alloc_watermark, region_release, physVars, virtVars, otherVars
  <2>2. \/ ret' = ret /\ page' = page
        \/ ret' = Set(ret, x, NULL) /\ page' = Set(page, x, NULL) /\
             (At(x, "watermark") \/ (At(x, "release") /\ op[x] \in {"init", "free"}))
    BY <1>14 DEF jit_alloc_watermark, region_release, Done, local
  <2>3. At(x, "watermark") \/ (At(x, "release") /\ op[x] \in {"init", "free"}) =>
          ret[x] = NULL /\ page[x] = NULL
    BY <1>1 DEF At, FlowAt, InPhysAlloc
  <2> QED
    BY <2>1, <2>2, <2>3, OwnerQuiet
<1> QED
  BY <1>2, <1>3, <1>4, <1>5, <1>6, <1>7, <1>8, <1>9, <1>10, <1>11, <1>12, <1>13, <1>14 DEF Alloc, Walk

LEMMA OwnerStepCall ==
    ASSUME ControlInv, NEW c \in Cores, Calls(c), NEW p \in Pages
    PROVE  Kept(p) \/ Moved(p)
<1> USE DEF ControlInv
<1>1. /\ Thread(c) \in Contexts /\ Fault(c) \in Contexts /\ p # NULL
      /\ FlowAt(Thread(c)) /\ FlowAt(Fault(c))
  BY ContextFacts, MemoryAssumption DEF FlowOK
<1>2. CASE init_phys_per_cpu(c)
  <2>1. /\ pool' = pool /\ lost' = lost /\ m_reserved_page' = m_reserved_page /\ held' = held
        /\ table' = table /\ pte' = pte /\ ret' = ret /\ page' = page
    BY <1>2 DEF init_phys_per_cpu, physVars, virtVars, otherVars, local
  <2> QED
    BY <1>1, <2>1, OwnerQuiet
<1>3. CASE phys_free(c)
  <2> DEFINE x == Thread(c)
  <2>1. PICK q \in held[c] : held' = Set(held, c, held[c] \ {q}) /\ page' = Set(page, x, q)
    BY <1>3 DEF phys_free
  <2>2. /\ pool' = pool /\ lost' = lost /\ m_reserved_page' = m_reserved_page
        /\ table' = table /\ pte' = pte /\ ret' = ret /\ page[x] = NULL
    BY <1>1, <1>3 DEF phys_free, physVars, virtVars, At, FlowAt
  <2>3. /\ "page" \in Kinds /\ "held" \in Kinds
        /\ \A k \in Kinds \ {"page", "held"} : Same(k, p)
    BY <2>2, UnchangedPlaces DEF Same, Kinds
  <2>6. Assigned("page", x, NULL, q, p)
    BY <1>1, <2>1, <2>2, PageAssigned
  <2> HIDE DEF x
  <2>4. CASE p = q
    <3>1. Loses("held", c, p)
      BY <2>1, <2>4, HeldEffect
    <3>2. Gains("page", x, p)
      BY <2>4, <2>6, AssignedEffect
    <3> QED
      BY <2>3, <3>1, <3>2, MovedTo
  <2>5. CASE p # q
    <3>1. Same("held", p)
      BY <2>1, <2>5, HeldEffect
    <3>2. Same("page", p)
      BY <1>1, <2>5, <2>6, AssignedEffect
    <3> QED
      BY <2>3, <3>1, <3>2, SameAll
  <2> QED
    BY <2>4, <2>5
<1>4. CASE return_to_thread(c)
  <2> DEFINE x == Thread(c)
             q == ret[x]
  <2>1. /\ held' = Set(held, c, held[c] \cup ({q} \ {NULL}))
        /\ ret' = Set(ret, x, NULL) /\ page' = Set(page, x, NULL) /\ page[x] = NULL
        /\ pool' = pool /\ lost' = lost /\ m_reserved_page' = m_reserved_page
        /\ table' = table /\ pte' = pte
    BY <1>1, <1>4 DEF return_to_thread, Done, physVars, virtVars, FlowAt
  <2>2. Assigned("ret", x, q, NULL, p) /\ Assigned("page", x, NULL, NULL, p)
    BY <1>1, <2>1, RetAssigned, PageAssigned
  <2> HIDE DEF x, q
  <2>3. Same("page", p)
    BY <1>1, <2>2, AssignedEffect
  <2>4. /\ "ret" \in Kinds /\ "held" \in Kinds
        /\ \A k \in Kinds \ {"ret", "held"} : Same(k, p)
    BY <2>1, <2>3, UnchangedPlaces DEF Same, Kinds
  <2>5. CASE p = q
    <3>1. Loses("ret", x, p)
      BY <1>1, <2>2, <2>5, AssignedEffect
    <3>2. Gains("held", c, p)
      BY <1>1, <2>1, <2>5, HeldEffect
    <3> QED
      BY <2>4, <3>1, <3>2, MovedTo
  <2>6. CASE p # q
    <3>1. Same("ret", p)
      BY <1>1, <2>2, <2>6, AssignedEffect
    <3>2. Same("held", p)
      BY <2>1, <2>6, HeldEffect
    <3> QED
      BY <2>4, <3>1, <3>2, SameAll
  <2> QED
    BY <2>5, <2>6
<1>5. CASE \/ call_phys_alloc(c) \/ tdn_host_jit_alloc(c)
           \/ tdn_host_jit_set_exec(c) \/ virt_is_mapped(c)
  <2>1. /\ pool' = pool /\ lost' = lost /\ m_reserved_page' = m_reserved_page /\ held' = held
        /\ table' = table /\ pte' = pte /\ ret' = ret /\ page' = page
    BY <1>5 DEF call_phys_alloc, tdn_host_jit_alloc, tdn_host_jit_set_exec, virt_is_mapped,
         Call, physVars, virtVars, otherVars
  <2> QED
    BY <1>1, <2>1, OwnerQuiet
<1>6. CASE virt_handle_page_fault(c)
  <2>1. /\ pool' = pool /\ lost' = lost /\ m_reserved_page' = m_reserved_page /\ held' = held
        /\ table' = table /\ pte' = pte /\ ret' = ret
        /\ page' = page \/ page' = Set(page, Fault(c), Direct)
        /\ pc[Fault(c)] = "idle"
    BY <1>6 DEF virt_handle_page_fault, MayFault, physVars, virtVars, otherVars
  <2>2. page[Fault(c)] = NULL
    BY <1>1, <2>1 DEF FlowAt
  <2> QED
    BY <1>1, <2>1, <2>2, OwnerQuiet
<1> QED
  BY <1>2, <1>3, <1>4, <1>5, <1>6 DEF Calls

LEMMA OwnerInit == Init => PageHasOneOwner
<1> SUFFICES ASSUME Init, NEW p \in Pages PROVE \E o \in Places(p) : Places(p) = {o}
  BY DEF PageHasOneOwner
<1>1. p # NULL
  BY MemoryAssumption
<1>2. PlacesOf("pool", p) = {<<"pool", NULL>>} /\ PlacesOf("lost", p) = {}
  BY SetAssigned DEF Init
<1>3. \A k \in Kinds \ {"pool", "lost"} : PlacesOf(k, p) = {}
  <2>1. /\ Slots("reserved", m_reserved_page, Cores, p) = {} /\ HeldSlots(held, p) = {}
        /\ Slots("table", table, Entries, p) = {} /\ Slots("pte", pte, Virt, p) = {}
        /\ Slots("ret", ret, Contexts, p) = {} /\ Slots("page", page, Contexts, p) = {}
    BY <1>1 DEF Init, Slots, HeldSlots
  <2> QED
    BY <2>1 DEF Kinds, PlacesOf
<1>4. \A o : o \in Places(p) <=> o = <<"pool", NULL>>
  BY <1>2, <1>3, PlacesByKind DEF Kinds
<1>5. Places(p) = {<<"pool", NULL>>}
  BY <1>4
<1> QED
  BY <1>5, Zenon

(***************************************************************************)
(* No page is shared or lost by the allocator, its reserved pages, the     *)
(* page tables, the fault handler or the range operations, on any number   *)
(* of cores: every page has exactly one owner, counting the two leaks the  *)
(* code has (a failed virt_alloc_range, a second fault on the same page)   *)
(* as owners.                                                              *)
(***************************************************************************)
THEOREM EveryPageHasOneOwner == Spec => []PageHasOneOwner
<1>1. Init => MemoryInv
  BY ControlInit, OwnerInit DEF MemoryInv
<1>2. MemoryInv /\ [Next]_vars => MemoryInv'
  <2> SUFFICES ASSUME MemoryInv, [Next]_vars PROVE PageHasOneOwner'
    BY ControlStep DEF MemoryInv
  <2>1. ASSUME NEW x \in Contexts, Alloc(x) \/ Walk(x) PROVE PageHasOneOwner'
    BY <2>1, OwnerStepContext, OwnerStep DEF MemoryInv
  <2>2. ASSUME NEW c \in Cores, Calls(c) PROVE PageHasOneOwner'
    BY <2>2, OwnerStepCall, OwnerStep DEF MemoryInv
  <2>3. CASE UNCHANGED vars
    BY <2>3 DEF vars, physVars, virtVars, otherVars, local, MemoryInv, PageHasOneOwner, Places
  <2> QED
    BY <2>1, <2>2, <2>3 DEF Next
<1>3. MemoryInv => PageHasOneOwner
  BY DEF MemoryInv
<1> QED
  BY <1>1, <1>2, <1>3, PTL DEF Spec

(***************************************************************************)
(* Jit memory that was handed out (below m_jit_watermark) is mapped to     *)
(* pages of the allocator, although tdn_host_jit_alloc reads and advances  *)
(* the watermark with no lock: of two cores that start a virt_alloc_range  *)
(* at the same watermark, one maps and the other fails.  By                *)
(* EveryPageHasOneOwner the pages are different ones.                      *)
(***************************************************************************)
JitMemoryIsMapped == \A v \in 0 .. m_jit_watermark - 1 : pte[v] \in Pages

THEOREM HandedOutJitIsMapped == Spec => []JitMemoryIsMapped
<1>1. ControlInv => JitMemoryIsMapped
  <2> SUFFICES ASSUME ControlInv, NEW v \in 0 .. m_jit_watermark - 1
               PROVE  pte[v] \in Pages
    BY DEF JitMemoryIsMapped
  <2>1. v \in Jit /\ v \in Virt /\ v < m_jit_watermark
    BY MemoryAssumption DEF ControlInv, MemoryTypeOK, Jit
  <2>2. pte[v] # NULL /\ pte[v] # Direct
    BY <2>1 DEF ControlInv, JitOK
  <2> QED
    BY <2>1, <2>2 DEF ControlInv, MemoryTypeOK, Frames
<1> QED
  BY <1>1, MemoryControl, PTL

(***************************************************************************)
(* What the error path of virt_alloc_range amounts to: its loop uses the   *)
(* address that failed in every round (virt.c:142), which is never mapped, *)
(* so no page is ever given back and the core stops in the cleanup.        *)
(***************************************************************************)
THEOREM FailedRangeNeverFrees ==
    Spec => [][\A x \in Contexts :
                 virt_alloc_range_cleanup(x) => pc'[x] = "stopped" /\ pool' = pool]_vars
<1>1. ASSUME ControlInv, NEW x \in Contexts, virt_alloc_range_cleanup(x)
      PROVE  pc'[x] = "stopped" /\ pool' = pool
  <2>1. Goto(x, "stopped") /\ UNCHANGED <<physVars, virtVars, local, op, otherVars>>
    BY <1>1, CleanupStops DEF ControlInv
  <2> QED
    BY <1>1, <2>1 DEF Goto, physVars, ControlInv, MemoryTypeOK
<1>2. ControlInv /\ [Next]_vars =>
        [\A x \in Contexts : virt_alloc_range_cleanup(x) => pc'[x] = "stopped" /\ pool' = pool]_vars
  BY <1>1
<1> QED
  BY <1>2, MemoryControl, PTL DEF Spec
=============================================================================
