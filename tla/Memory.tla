------------------------------- MODULE Memory -------------------------------
(***************************************************************************)
(* Pages on several cores: phys_alloc and phys_free under their lock with  *)
(* the reserved page of each core (phys.c), the page tables (virt.c), and  *)
(* the page fault handler, which uses both and may interrupt a thread that *)
(* is inside the allocator because its stack grows there.                  *)
(*                                                                         *)
(* Every core has two contexts: its thread, and the page fault on top of   *)
(* it.  The handler runs on its own stack and does not fault.  The free    *)
(* memory is the set of its pages (module Buddy says how it is kept);      *)
(* pages are interchangeable, so the allocator picks a fixed one.          *)
(***************************************************************************)
EXTENDS Integers, Sequences, FiniteSets

CONSTANTS
    Cores,
    Pages,     \* the physical pages the allocator manages
    NULL,
    Virt,      \* virtual pages; those of the jit area are 0 .. JitPages-1
    JitPages,  \* the size of the jit area, in pages
    Area,      \* the area of each virtual page
    Path,      \* the table entries a walk to a virtual page goes through
    Touch,     \* the virtual pages the code of each core may access
    Ops,       \* the operations the thread of each core calls
    Growth     \* where a thread may run out of stack: pairs <<operation, label>>

Areas == {"lazy", "direct", "guard", "jit"}
Jit == 0 .. JitPages - 1
Entries == UNION {{Path[v][k] : k \in DOMAIN Path[v]} : v \in Virt}
Contexts == Cores \X {"thread", "fault"}
Direct == "direct"  \* the frame of a direct map page: memory with an owner elsewhere

ASSUME MemoryAssumption ==
    /\ NULL \notin Cores /\ NULL \notin Pages /\ Direct \notin Pages /\ NULL # Direct
    /\ Jit \subseteq Virt
    /\ JitPages \in Nat \ {0}
    /\ Area \in [Virt -> Areas]
    /\ \A v \in Jit : Area[v] = "jit"
    /\ \A v \in Virt : Path[v] \in Seq(Entries)
    /\ Touch \in [Cores -> SUBSET Virt]
    /\ \A g \in Growth : g[2] # "stopped"

VARIABLES
    pool,                  \* the free pages of the buddy allocator
    m_memory_region_lock,  \* the core that holds it, or NULL
    m_lock_cpu,            \* the core that said it is inside phys_alloc, or NULL
    m_reserved_page,       \* per core: the page kept for faults in the allocator
    m_virt_lock,           \* the core that holds it, or NULL
    table,                 \* the frame of the table behind an upper-level entry, or NULL
    pte,                   \* the frame a virtual page is mapped to, or NULL
    exec,                  \* the virtual pages mapped executable
    m_jit_watermark,       \* the first jit page not handed out
    held,                  \* per core: pages its thread got from phys_alloc
    lost,                  \* history: pages virt_alloc_range dropped or a second fault replaced
    pc, op,                \* per context: where it is, in which operation
    va, left, undo,        \* its page, the pages left in the range, cleanup rounds left
    want, ret, page        \* why phys_alloc was called, what it returned, the page to map

physVars == <<pool, m_memory_region_lock, m_lock_cpu, m_reserved_page>>
virtVars == <<m_virt_lock, table, pte, exec>>
otherVars == <<m_jit_watermark, held, lost>>
local    == <<va, left, undo, want, ret, page>>
vars == <<physVars, virtVars, otherVars, local, pc, op>>

CoreOf(x) == x[1]
Thread(c) == <<c, "thread">>
Fault(c) == <<c, "fault">>
Runs(x) == x[2] = "fault" \/ pc[Fault(CoreOf(x))] = "idle"
At(x, l) == Runs(x) /\ pc[x] = l
Goto(x, l) == pc' = [pc EXCEPT ![x] = l]
Set(f, x, v) == [f EXCEPT ![x] = v]

Pick(S) == CHOOSE p \in S : TRUE
Take(S) == IF S = {} THEN NULL ELSE Pick(S)

-----------------------------------------------------------------------------
(* phys_alloc(PAGE_SIZE) *)

(***************************************************************************)
(* irq_alloc: a page fault inside the allocator gets the reserved page of  *)
(* its core, and stops at the assertion if that is gone.                   *)
(***************************************************************************)
irq_alloc(x) ==
    /\ At(x, "irq_alloc")
    /\ m_lock_cpu = CoreOf(x)
    /\ m_reserved_page[CoreOf(x)] # NULL
    /\ ret' = Set(ret, x, m_reserved_page[CoreOf(x)])
    /\ m_reserved_page' = Set(m_reserved_page, CoreOf(x), NULL)
    /\ Goto(x, "ret")
    /\ UNCHANGED <<pool, m_memory_region_lock, m_lock_cpu, virtVars, otherVars,
                   va, left, undo, want, page, op>>

irq_alloc_assert(x) ==
    /\ At(x, "irq_alloc")
    /\ m_lock_cpu = CoreOf(x)
    /\ m_reserved_page[CoreOf(x)] = NULL
    /\ Goto(x, "stopped")
    /\ UNCHANGED <<physVars, virtVars, otherVars, local, op>>

irq_alloc_none(x) ==
    /\ At(x, "irq_alloc")
    /\ m_lock_cpu # CoreOf(x)
    /\ Goto(x, "lock")
    /\ UNCHANGED <<physVars, virtVars, otherVars, local, op>>

(* irq_spinlock_acquire of m_memory_region_lock.                           *)
region_acquire(x) ==
    /\ At(x, "lock")
    /\ m_memory_region_lock = NULL
    /\ m_memory_region_lock' = CoreOf(x)
    /\ Goto(x, "locked")
    /\ UNCHANGED <<pool, m_lock_cpu, m_reserved_page, virtVars, otherVars, local, op>>

(***************************************************************************)
(* phys_alloc records its core only after it has the lock, and clears the  *)
(* record before it gives the lock back.                                   *)
(* Mutant: the core does not record that it is inside the allocator.       *)
(***************************************************************************)
phys_alloc_record_not(x) ==
    /\ At(x, "locked") /\ op[x] \notin {"init", "free"}
    /\ Goto(x, "search")
    /\ UNCHANGED <<physVars, virtVars, otherVars, local, op>>

phys_alloc_record(x) ==
    /\ At(x, "locked") /\ op[x] \notin {"init", "free"}
    /\ m_lock_cpu' = CoreOf(x)
    /\ Goto(x, "search")
    /\ UNCHANGED <<pool, m_memory_region_lock, m_reserved_page, virtVars, otherVars, local, op>>

(* fill_irq_alloc out of the free pages S.                                 *)
(* Mutant: the reserved page is replaced even when there is one.           *)
fill_irq_alloc_again(c, S) ==
    /\ m_reserved_page' = Set(m_reserved_page, c, Take(S))
    /\ pool' = S \ {Take(S)}

fill_irq_alloc(c, S) ==
    IF m_reserved_page[c] = NULL
    THEN /\ m_reserved_page' = Set(m_reserved_page, c, Take(S))
         /\ pool' = S \ {Take(S)}
    ELSE /\ UNCHANGED m_reserved_page
         /\ pool' = S

phys_alloc_search(x) ==
    /\ At(x, "search")
    /\ ret' = Set(ret, x, Take(pool))
    /\ fill_irq_alloc(CoreOf(x), pool \ {Take(pool)})
    /\ Goto(x, "clear")
    /\ UNCHANGED <<m_memory_region_lock, m_lock_cpu, virtVars, otherVars,
                   va, left, undo, want, page, op>>

phys_alloc_clear(x) ==
    /\ At(x, "clear")
    /\ m_lock_cpu' = NULL
    /\ Goto(x, "release")
    /\ UNCHANGED <<pool, m_memory_region_lock, m_reserved_page, virtVars, otherVars, local, op>>

(* init_phys_per_cpu and phys_free work under the lock with no record.     *)
init_phys_per_cpu(c) ==
    LET x == Thread(c) IN
    /\ At(x, "boot")
    /\ op' = Set(op, x, "init")
    /\ Goto(x, "lock")
    /\ UNCHANGED <<physVars, virtVars, otherVars, local>>

init_phys_per_cpu_fill(x) ==
    /\ At(x, "locked") /\ op[x] = "init"
    /\ fill_irq_alloc(CoreOf(x), pool)
    /\ Goto(x, "release")
    /\ UNCHANGED <<m_memory_region_lock, m_lock_cpu, virtVars, otherVars, local, op>>

(* Called by the thread that owns the page.                                *)
phys_free(c) ==
    LET x == Thread(c) IN
    /\ At(x, "idle")
    /\ "free" \in Ops[c]
    /\ \E p \in held[c] : held' = Set(held, c, held[c] \ {p}) /\ page' = Set(page, x, p)
    /\ op' = Set(op, x, "free")
    /\ Goto(x, "lock")
    /\ UNCHANGED <<physVars, virtVars, m_jit_watermark, lost, va, left, undo, want, ret>>

phys_free_insert(x) ==
    /\ At(x, "locked") /\ op[x] = "free"
    /\ pool' = pool \cup {page[x]}
    /\ page' = Set(page, x, NULL)
    /\ Goto(x, "release")
    /\ UNCHANGED <<m_memory_region_lock, m_lock_cpu, m_reserved_page, virtVars, otherVars,
                   va, left, undo, want, ret, op>>

(* The operation returns, and its local variables are gone.                *)
Done(x) ==
    /\ Goto(x, "idle")
    /\ op' = Set(op, x, "none")
    /\ va' = Set(va, x, NULL)
    /\ left' = Set(left, x, 0)
    /\ undo' = Set(undo, x, 0)
    /\ want' = Set(want, x, "data")
    /\ ret' = Set(ret, x, NULL)
    /\ page' = Set(page, x, NULL)

(* irq_spinlock_release of m_memory_region_lock.                           *)
region_release(x) ==
    /\ At(x, "release")
    /\ m_memory_region_lock' = NULL
    /\ IF op[x] \in {"init", "free"}
       THEN Done(x)
       ELSE Goto(x, "ret") /\ UNCHANGED <<local, op>>
    /\ UNCHANGED <<pool, m_lock_cpu, m_reserved_page, virtVars, otherVars>>

-----------------------------------------------------------------------------
(* Operations start *)

(***************************************************************************)
(* A thread calls: phys_alloc; virt_alloc_range by way of                  *)
(* tdn_host_jit_alloc, for n pages from the watermark; virt_remap_range by *)
(* way of tdn_host_jit_set_exec, for a page handed out; virt_is_mapped.    *)
(***************************************************************************)
Call(c, o, v, n) ==
    LET x == Thread(c) IN
    /\ At(x, "idle")
    /\ o \in Ops[c]
    /\ op' = Set(op, x, o)
    /\ va' = Set(va, x, v)
    /\ left' = Set(left, x, n)
    /\ undo' = Set(undo, x, 0)
    /\ want' = Set(want, x, "data")
    /\ UNCHANGED <<physVars, virtVars, otherVars, ret, page>>

call_phys_alloc(c) ==
    /\ held[c] = {}
    /\ Call(c, "alloc", NULL, 0)
    /\ Goto(Thread(c), "irq_alloc")

tdn_host_jit_alloc(c) ==
    \E n \in 1 .. JitPages :
        /\ m_jit_watermark + n <= JitPages
        /\ Call(c, "range", m_jit_watermark, n)
        /\ Goto(Thread(c), "vlock")

tdn_host_jit_set_exec(c) ==
    \E v \in 0 .. m_jit_watermark - 1 :
        /\ Call(c, "remap", v, 1)
        /\ Goto(Thread(c), "vlock")

virt_is_mapped(c) ==
    \E v \in Touch[c] :
        /\ Call(c, "mapped", v, 1)
        /\ Goto(Thread(c), "vlock")

(***************************************************************************)
(* A page fault: an access to a page that is not mapped, by ordinary code  *)
(* or by an operation that runs out of stack at one of its steps.          *)
(* virt_handle_page_fault decides by area: a page is allocated, the direct *)
(* map is mapped as it is, anything else stops the core.                   *)
(***************************************************************************)
MayFault(c) ==
    /\ pc[Fault(c)] = "idle"
    /\ \/ pc[Thread(c)] = "idle"
       \/ <<op[Thread(c)], pc[Thread(c)]>> \in Growth

virt_handle_page_fault(c) ==
    \E v \in Touch[c] :
        LET x == Fault(c) IN
        /\ MayFault(c)
        /\ pte[v] = NULL
        /\ op' = Set(op, x, "fault")
        /\ va' = Set(va, x, v)
        /\ want' = Set(want, x, "data")
        /\ \/ Area[v] = "lazy" /\ Goto(x, "irq_alloc") /\ UNCHANGED page
           \/ Area[v] = "direct" /\ Goto(x, "vlock") /\ page' = Set(page, x, Direct)
           \/ Area[v] \in {"guard", "jit"} /\ Goto(x, "stopped") /\ UNCHANGED page
        /\ UNCHANGED <<physVars, virtVars, otherVars, left, undo, ret>>

-----------------------------------------------------------------------------
(* phys_alloc has returned *)

return_to_thread(c) ==
    LET x == Thread(c) IN
    /\ At(x, "ret") /\ op[x] = "alloc"
    /\ held' = Set(held, c, held[c] \cup ({ret[x]} \ {NULL}))
    /\ Done(x)
    /\ UNCHANGED <<physVars, virtVars, m_jit_watermark, lost>>

(* The page to map: the handler still needs m_virt_lock, a range has it.   *)
return_data(x) ==
    /\ At(x, "ret") /\ op[x] # "alloc" /\ want[x] = "data" /\ ret[x] # NULL
    /\ page' = Set(page, x, ret[x])
    /\ ret' = Set(ret, x, NULL)
    /\ Goto(x, IF op[x] = "fault" THEN "vlock" ELSE "walk")
    /\ UNCHANGED <<physVars, virtVars, otherVars, va, left, undo, want, op>>

(* get_next_level: the first entry on the way that is not present.         *)
Missing(v) == {k \in DOMAIN Path[v] : table[Path[v][k]] = NULL}
FirstMissing(v) ==
    Path[v][CHOOSE k \in Missing(v) : \A m \in Missing(v) : k <= m]

return_table(x) ==
    /\ At(x, "ret") /\ op[x] # "alloc" /\ want[x] = "table" /\ ret[x] # NULL
    /\ table' = Set(table, FirstMissing(va[x]), ret[x])
    /\ ret' = Set(ret, x, NULL)
    /\ Goto(x, "walk")
    /\ UNCHANGED <<physVars, m_virt_lock, pte, exec, otherVars, va, left, undo, want, page, op>>

OutOfMemory(x) == At(x, "ret") /\ op[x] # "alloc" /\ ret[x] = NULL

(* In the fault handler: the core stops, with m_virt_lock released.        *)
fail_fault(x) ==
    /\ OutOfMemory(x) /\ op[x] = "fault"
    /\ m_virt_lock' = IF want[x] = "table" THEN NULL ELSE m_virt_lock
    /\ Goto(x, "stopped")
    /\ UNCHANGED <<physVars, table, pte, exec, otherVars, local, op>>

fail_walk(x) ==
    /\ OutOfMemory(x) /\ op[x] \in {"remap", "mapped"}
    /\ m_virt_lock' = NULL
    /\ Done(x)
    /\ UNCHANGED <<physVars, table, pte, exec, otherVars>>

(***************************************************************************)
(* The error path of virt_alloc_range, taken when memory runs out and when *)
(* the page is mapped already.  A page allocated for this round is         *)
(* dropped.  With pages of the range mapped, the cleanup loop runs once    *)
(* for each, always at the address that failed.                            *)
(***************************************************************************)
range_error(x) ==
    /\ op[x] = "range"
    /\ lost' = lost \cup ({page[x]} \ {NULL})
    /\ IF undo[x] = 0
       THEN m_virt_lock' = NULL /\ Done(x)
       ELSE /\ op' = Set(op, x, "cleanup")
            /\ page' = Set(page, x, NULL)
            /\ Goto(x, "walk")
            /\ UNCHANGED <<m_virt_lock, va, left, undo, want, ret>>
    /\ UNCHANGED <<physVars, table, pte, exec, m_jit_watermark, held>>

fail_range(x) == OutOfMemory(x) /\ range_error(x)

(* Out of memory again inside the cleanup: it starts over.                 *)
fail_cleanup(x) ==
    /\ OutOfMemory(x) /\ op[x] = "cleanup"
    /\ Goto(x, "walk")
    /\ UNCHANGED <<physVars, virtVars, otherVars, local, op>>

-----------------------------------------------------------------------------
(* The page table walk, under m_virt_lock *)

(* Mutant: the lock is taken without waiting for its holder.               *)
virt_lock_unguarded(x) ==
    /\ At(x, "vlock")
    /\ m_virt_lock' = CoreOf(x)
    /\ Goto(x, IF op[x] = "range" THEN "irq_alloc" ELSE "walk")
    /\ UNCHANGED <<physVars, table, pte, exec, otherVars, local, op>>

virt_lock(x) ==
    /\ At(x, "vlock")
    /\ m_virt_lock = NULL
    /\ m_virt_lock' = CoreOf(x)
    /\ Goto(x, IF op[x] = "range" THEN "irq_alloc" ELSE "walk")
    /\ UNCHANGED <<physVars, table, pte, exec, otherVars, local, op>>

get_next_level(x) ==
    /\ At(x, "walk")
    /\ Missing(va[x]) # {}
    /\ want' = Set(want, x, "table")
    /\ Goto(x, "irq_alloc")
    /\ UNCHANGED <<physVars, virtVars, otherVars, va, left, undo, ret, page, op>>

Leaf(x, o) == At(x, "walk") /\ Missing(va[x]) = {} /\ op[x] = o

(* A page another core's fault mapped meanwhile is replaced and leaks.     *)
virt_map_page(x) ==
    /\ Leaf(x, "fault")
    /\ pte' = Set(pte, va[x], page[x])
    /\ exec' = exec \ {va[x]}
    /\ lost' = lost \cup ({pte[va[x]]} \ {NULL, Direct})
    /\ m_virt_lock' = NULL
    /\ Done(x)
    /\ UNCHANGED <<physVars, table, m_jit_watermark, held>>

virt_alloc_range_next(x) ==
    /\ Leaf(x, "range")
    /\ pte[va[x]] = NULL
    /\ left[x] > 1
    /\ pte' = Set(pte, va[x], page[x])
    /\ va' = Set(va, x, va[x] + 1)
    /\ left' = Set(left, x, left[x] - 1)
    /\ undo' = Set(undo, x, undo[x] + 1)
    /\ want' = Set(want, x, "data")
    /\ page' = Set(page, x, NULL)
    /\ Goto(x, "irq_alloc")
    /\ UNCHANGED <<physVars, m_virt_lock, table, exec, otherVars, ret, op>>

(* The last page: virt_alloc_range returns.                                *)
virt_alloc_range_done(x) ==
    /\ Leaf(x, "range")
    /\ pte[va[x]] = NULL
    /\ left[x] = 1
    /\ pte' = Set(pte, va[x], page[x])
    /\ page' = Set(page, x, NULL)
    /\ m_virt_lock' = NULL
    /\ Goto(x, "watermark")
    /\ UNCHANGED <<physVars, table, exec, otherVars, va, left, undo, want, ret, op>>

(* tdn_host_jit_alloc then advances the watermark, under no lock.          *)
(* Mutant: it is advanced one page too far.                                *)
jit_alloc_watermark_past(x) ==
    /\ At(x, "watermark")
    /\ m_jit_watermark' = m_jit_watermark + undo[x] + 2
    /\ Done(x)
    /\ UNCHANGED <<physVars, virtVars, held, lost>>

jit_alloc_watermark(x) ==
    /\ At(x, "watermark")
    /\ m_jit_watermark' = m_jit_watermark + undo[x] + 1
    /\ Done(x)
    /\ UNCHANGED <<physVars, virtVars, held, lost>>

virt_alloc_range_present(x) ==
    /\ Leaf(x, "range")
    /\ pte[va[x]] # NULL
    /\ range_error(x)

(***************************************************************************)
(* One round of the cleanup loop: the core stops if the page is not        *)
(* present, otherwise its frame is freed and the entry cleared.  The free  *)
(* is one step here: no run and no behaviour reaches it (theorem           *)
(* FailedRangeNeverFrees).                                                 *)
(***************************************************************************)
virt_alloc_range_cleanup(x) ==
    /\ Leaf(x, "cleanup")
    /\ IF pte[va[x]] = NULL
       THEN Goto(x, "stopped") /\ UNCHANGED <<physVars, virtVars, local, op>>
       ELSE /\ m_memory_region_lock = NULL
            /\ pool' = pool \cup {pte[va[x]]}
            /\ pte' = Set(pte, va[x], NULL)
            /\ exec' = exec \ {va[x]}
            /\ IF undo[x] = 1
               THEN m_virt_lock' = NULL /\ Done(x)
               ELSE /\ undo' = Set(undo, x, undo[x] - 1)
                    /\ UNCHANGED <<m_virt_lock, pc, op, va, left, want, ret, page>>
            /\ UNCHANGED <<m_memory_region_lock, m_lock_cpu, m_reserved_page, table>>
    /\ UNCHANGED otherVars

virt_remap_range(x) ==
    /\ Leaf(x, "remap")
    /\ exec' = IF pte[va[x]] = NULL THEN exec ELSE exec \cup {va[x]}
    /\ m_virt_lock' = NULL
    /\ Done(x)
    /\ UNCHANGED <<physVars, table, pte, otherVars>>

is_mapped_done(x) ==
    /\ Leaf(x, "mapped")
    /\ m_virt_lock' = NULL
    /\ Done(x)
    /\ UNCHANGED <<physVars, table, pte, exec, otherVars>>

-----------------------------------------------------------------------------
(* After init_virt, before the cores set up their reserved pages.          *)
Init ==
    /\ pool = Pages
    /\ m_memory_region_lock = NULL /\ m_lock_cpu = NULL /\ m_virt_lock = NULL
    /\ m_reserved_page = [c \in Cores |-> NULL]
    /\ table = [e \in Entries |-> NULL]
    /\ pte = [v \in Virt |-> NULL]
    /\ exec = {}
    /\ m_jit_watermark = 0
    /\ held = [c \in Cores |-> {}]
    /\ lost = {}
    /\ pc = [x \in Contexts |-> IF x[2] = "thread" THEN "boot" ELSE "idle"]
    /\ op = [x \in Contexts |-> "none"]
    /\ va = [x \in Contexts |-> NULL]
    /\ left = [x \in Contexts |-> 0]
    /\ undo = [x \in Contexts |-> 0]
    /\ want = [x \in Contexts |-> "data"]
    /\ ret = [x \in Contexts |-> NULL]
    /\ page = [x \in Contexts |-> NULL]

Alloc(x) ==
    \/ irq_alloc(x) \/ irq_alloc_assert(x) \/ irq_alloc_none(x)
    \/ region_acquire(x) \/ phys_alloc_record(x) \/ phys_alloc_search(x)
    \/ phys_alloc_clear(x) \/ region_release(x)
    \/ init_phys_per_cpu_fill(x) \/ phys_free_insert(x)
    \/ return_data(x) \/ return_table(x)
    \/ fail_fault(x) \/ fail_walk(x) \/ fail_range(x) \/ fail_cleanup(x)

Walk(x) ==
    \/ virt_lock(x) \/ get_next_level(x) \/ virt_map_page(x)
    \/ virt_alloc_range_next(x) \/ virt_alloc_range_done(x) \/ jit_alloc_watermark(x)
    \/ virt_alloc_range_present(x) \/ virt_alloc_range_cleanup(x)
    \/ virt_remap_range(x) \/ is_mapped_done(x)

Calls(c) ==
    \/ init_phys_per_cpu(c) \/ phys_free(c) \/ call_phys_alloc(c)
    \/ tdn_host_jit_alloc(c) \/ tdn_host_jit_set_exec(c) \/ virt_is_mapped(c)
    \/ virt_handle_page_fault(c) \/ return_to_thread(c)

Next ==
    \/ \E x \in Contexts : Alloc(x) \/ Walk(x)
    \/ \E c \in Cores : Calls(c)

Spec == Init /\ [][Next]_vars

-----------------------------------------------------------------------------
Frames == Pages \cup {NULL}
Labels == {"boot", "idle", "irq_alloc", "lock", "locked", "search", "clear", "release", "ret",
           "vlock", "walk", "watermark", "stopped"}
Operations == {"none", "init", "alloc", "free", "range", "remap", "mapped", "cleanup", "fault"}

(* Types: what is freed and mapped is a page, and a core that is stopped   *)
(* or waits has a place.                                                   *)
MemoryTypeOK ==
    /\ pool \subseteq Pages /\ lost \subseteq Pages /\ exec \subseteq Virt
    /\ {m_memory_region_lock, m_lock_cpu, m_virt_lock} \subseteq Cores \cup {NULL}
    /\ m_reserved_page \in [Cores -> Frames]
    /\ table \in [Entries -> Frames]
    /\ pte \in [Virt -> Frames \cup {Direct}]
    /\ m_jit_watermark \in 0 .. JitPages
    /\ held \in [Cores -> SUBSET Pages]
    /\ pc \in [Contexts -> Labels]
    /\ op \in [Contexts -> Operations]
    /\ va \in [Contexts -> Virt \cup {NULL}]
    /\ left \in [Contexts -> 0 .. JitPages]
    /\ undo \in [Contexts -> 0 .. JitPages]
    /\ want \in [Contexts -> {"data", "table"}]
    /\ ret \in [Contexts -> Frames]
    /\ page \in [Contexts -> Frames \cup {Direct}]

Places(p) ==
    {<<"pool", NULL>> : q \in pool \cap {p}}
      \cup {<<"lost", NULL>> : q \in lost \cap {p}}
      \cup {<<"reserved", c>> : c \in {d \in Cores : m_reserved_page[d] = p}}
      \cup {<<"held", c>> : c \in {d \in Cores : p \in held[d]}}
      \cup {<<"table", e>> : e \in {f \in Entries : table[f] = p}}
      \cup {<<"pte", v>> : v \in {w \in Virt : pte[w] = p}}
      \cup {<<"ret", x>> : x \in {y \in Contexts : ret[y] = p}}
      \cup {<<"page", x>> : x \in {y \in Contexts : page[y] = p}}

(***************************************************************************)
(* Every page is in exactly one place: free, reserved by one core, one     *)
(* table, one mapping, one thread's, in the hands of one context, or       *)
(* known to have leaked, in a failed virt_alloc_range or because two cores *)
(* faulted on the same page.  phys_alloc, the reserved page of irq_alloc,  *)
(* the page tables and the other error paths never share or lose one.      *)
(***************************************************************************)
PageHasOneOwner == \A p \in Pages : LET P == Places(p) IN \E o \in P : P = {o}

WaitsFor(x, d) ==
    \/ pc[x] = "lock" /\ m_memory_region_lock = d
    \/ pc[x] = "vlock" /\ m_virt_lock = d

(* With m_memory_region_lock held; with the core on record as its holder.  *)
InRegion(x) == pc[x] \in {"locked", "search", "clear", "release"}
Recorded(x) == pc[x] \in {"search", "clear"}

InPhysAlloc == {"irq_alloc", "lock", "locked", "search", "clear", "release", "ret"}
RangeOps == {"range", "remap", "mapped", "cleanup"}

InWalk(x) ==
    \/ pc[x] = "walk"
    \/ pc[x] \in InPhysAlloc /\ (op[x] \in RangeOps \/ (op[x] = "fault" /\ want[x] = "table"))

(***************************************************************************)
(* A stack that does not grow in the windows the reserved page does not    *)
(* cover: with m_memory_region_lock held and no record of it (before       *)
(* phys.c:621 and after 630, in phys_free and in init_phys_per_cpu), or    *)
(* with m_virt_lock held.                                                  *)
(***************************************************************************)
GrowsOutsideWindows ==
    \A g \in Growth :
        /\ g[2] \notin {"locked", "release", "walk"}
        /\ ~(g[1] \in RangeOps /\ g[2] \in InPhysAlloc)

(***************************************************************************)
(* A page fault never spins on a lock that the thread it interrupted       *)
(* holds: that is what m_lock_cpu and the reserved page are for, wherever  *)
(* the stack grows (phys_alloc, irq_alloc, virt_map_page).                 *)
(***************************************************************************)
NoSelfDeadlock == \A c \in Cores : ~WaitsFor(Fault(c), c)

(***************************************************************************)
(* The locks belong to contexts that use them: a core inside the buddy     *)
(* lists holds m_memory_region_lock, one inside a walk holds m_virt_lock,  *)
(* so two cores are never in either at once (phys_alloc, phys_free,        *)
(* virt_map_page, virt_alloc_range).                                       *)
(***************************************************************************)
LocksAreHeld ==
    /\ \A x \in Contexts : InRegion(x) => m_memory_region_lock = CoreOf(x)
    /\ \A x \in Contexts : InWalk(x) => m_virt_lock = CoreOf(x)

(***************************************************************************)
(* Claimed by virt.h of virt_map_page ("this is irq safe") and by phys.c   *)
(* of faults inside the allocator: two contexts never wait for each        *)
(* other's lock.                                                           *)
(***************************************************************************)
NoLockCycle ==
    \A c, d \in Cores : ~(\E x, y \in Contexts :
        CoreOf(x) = c /\ CoreOf(y) = d /\ Runs(x) /\ Runs(y) /\ WaitsFor(x, d) /\ WaitsFor(y, c))
=============================================================================
