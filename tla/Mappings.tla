------------------------------ MODULE Mappings ------------------------------
(***************************************************************************)
(* The kernel's page tables: how the boot core builds them (init_virt,     *)
(* init_phys_mappings) before it switches to them, and how page faults and *)
(* the memory of the JIT (virt_alloc_range, virt_remap_range) change them  *)
(* afterwards.                                                             *)
(*                                                                         *)
(* A virtual page is a number; SlotPages pages share a top-level (PML4)    *)
(* entry.  The first Slots entries are the direct map, the GC heap and the *)
(* stacks, the next Slots are their shadow, and one more is the kernel's:  *)
(* its image, and above it the JIT's code.                                 *)
(* The three lower levels are one table: their upper entries grant         *)
(* everything, so the top and the last level decide.                       *)
(***************************************************************************)
EXTENDS Integers, Sequences

CONSTANTS
    SlotPages,   \* 4K pages behind one top-level entry (512GB)
    Slots,       \* top-level entries of the shadowed area (16TB)
    GcSlots,     \* those of the GC heap
    KernelAt,    \* the physical page the kernel was loaded at
    JitAt,       \* where in the kernel's entry the JIT's pages begin (JIT_ADDR)
    Kernels,     \* the kernel images: sequences of PT_LOAD segments
    MemMaps      \* the memory maps: sequences of entries

VirtPages == 0 .. (2 * Slots + 1) * SlotPages - 1
Slot(v) == v \div SlotPages
Shadow(v) == v + Slots * SlotPages
Shadowed == 0 .. Slots * SlotPages - 1
KernelBase == 2 * Slots * SlotPages   \* m_kernel_virtual_base
StackSlot == Slots - 1
ImagePages == KernelBase .. KernelBase + JitAt - 1
JitPages == KernelBase + JitAt .. KernelBase + SlotPages - 1

ASSUME MappingsAssumption ==
    /\ SlotPages \in Nat \ {0} /\ Slots \in Nat \ {0} /\ KernelAt \in Nat
    /\ GcSlots \subseteq 1 .. Slots - 2
    /\ JitAt \in 0 .. SlotPages

DIV_ROUND_UP(a, b) == (a + b - 1) \div b

(***************************************************************************)
(* What the kernel file and the boot loader provide: segments that end     *)
(* below the JIT, and memory below the shadow.  Segments start on a page   *)
(* (linker.ld); sizes and the addresses of the memory map are in half      *)
(* pages.                                                                  *)
(***************************************************************************)
Segments == [at : Nat, size : Nat, w : BOOLEAN, x : BOOLEAN]
MapEntries == [base : Nat, length : Nat, type : STRING]

ASSUME ImagesAssumption ==
    /\ \A k \in Kernels :
         /\ k \in Seq(Segments)
         /\ \A j \in 1 .. Len(k) : k[j].at + DIV_ROUND_UP(k[j].size, 2) <= JitAt
    /\ \A m \in MemMaps :
         /\ m \in Seq(MapEntries)
         /\ \A j \in 1 .. Len(m) : DIV_ROUND_UP(m[j].base + m[j].length, 2) <= Slots * SlotPages

VARIABLES
    mapStep,   \* where the boot core is, "run" once it uses the tables
    kernel,    \* the segments of the kernel file
    memmap,    \* the memory map of the boot loader
    done,      \* segments, shadow entries or memory map entries done
    mm,        \* m_cr3: the top-level entries and the tables behind them
    lifted     \* history: read-only pages a fault made writable

mapVars == <<mapStep, kernel, memmap, done, mm, lifted>>

NoTable == [present |-> FALSE, table |-> 0, w |-> FALSE, nx |-> FALSE]
NoPage == [present |-> FALSE, frame |-> 0, w |-> FALSE, x |-> FALSE]
EmptyTable == [k \in 0 .. SlotPages - 1 |-> NoPage]

(* get_next_level at the top: a missing entry gets a fresh table, writable *)
(* and executable as far as this level is concerned.                       *)
get_next_level(m, s) ==
    IF m.pml4[s].present THEN m
    ELSE [pml4 |-> [m.pml4 EXCEPT ![s] = [present |-> TRUE, table |-> Len(m.tables) + 1,
                                          w |-> TRUE, nx |-> FALSE]],
          tables |-> Append(m.tables, EmptyTable)]

virt_map_page(m, f, v, w, x) ==
    LET n == get_next_level(m, Slot(v))
        e == [present |-> TRUE, frame |-> f, w |-> w, x |-> x]
    IN [n EXCEPT !.tables[n.pml4[Slot(v)].table][v % SlotPages] = e]

virt_map_range(m, f, v, count, w, x) ==
    LET upTo[k \in 0 .. count] ==
          IF k = 0 THEN m ELSE virt_map_page(upTo[k - 1], f + k - 1, v + k - 1, w, x)
    IN upTo[count]

(* What the processor makes of a virtual page.                             *)
Translate(v) ==
    LET top == mm.pml4[Slot(v)]
        low == mm.tables[top.table][v % SlotPages]
    IN IF ~top.present \/ ~low.present THEN NoPage
       ELSE [low EXCEPT !.w = low.w /\ top.w, !.x = low.x /\ ~top.nx]

-----------------------------------------------------------------------------
(* Something the boot code needs is missing, or memory runs out.           *)
init_fails ==
    /\ mapStep \in {"early", "segments", "shadow", "memmap"}
    /\ mapStep' = "halt"
    /\ UNCHANGED <<kernel, memmap, done, mm, lifted>>

init_virt_early ==
    /\ mapStep = "early"
    /\ mapStep' = "segments"
    /\ UNCHANGED <<kernel, memmap, done, mm, lifted>>

(***************************************************************************)
(* init_virt, one segment of the kernel: its pages with its permissions;   *)
(* one that is writable and executable is refused.                         *)
(***************************************************************************)
(* Mutant: a segment may be writable and executable.                       *)
init_virt_segment_unchecked ==
    /\ mapStep = "segments" /\ done < Len(kernel)
    /\ LET s == kernel[done + 1] IN
        /\ mm' = virt_map_range(mm, s.at + KernelAt, KernelBase + s.at,
                                DIV_ROUND_UP(s.size, 2), s.w, s.x)
        /\ done' = done + 1
        /\ UNCHANGED mapStep
    /\ UNCHANGED <<kernel, memmap, lifted>>

init_virt_segment ==
    /\ mapStep = "segments" /\ done < Len(kernel)
    /\ LET s == kernel[done + 1] IN
        IF s.w /\ s.x
        THEN mapStep' = "halt" /\ UNCHANGED <<mm, done>>
        ELSE /\ mm' = virt_map_range(mm, s.at + KernelAt, KernelBase + s.at,
                                     DIV_ROUND_UP(s.size, 2), s.w, s.x)
             /\ done' = done + 1
             /\ UNCHANGED mapStep
    /\ UNCHANGED <<kernel, memmap, lifted>>

(* One loop is over, the next begins.                                      *)
NextLoop(from, n, to) ==
    /\ mapStep = from /\ done = n
    /\ mapStep' = to
    /\ done' = 0
    /\ UNCHANGED <<kernel, memmap, mm, lifted>>

(***************************************************************************)
(* init_virt, one top-level entry of the shadowed area: it gets a table if *)
(* it has none, and its copy 16TB above is read-only for the GC heap.      *)
(***************************************************************************)
(* Mutant: a missing entry is copied as it is.                             *)
init_virt_shadow_empty ==
    /\ mapStep = "shadow" /\ done < Slots
    /\ LET e == mm.pml4[done] IN
        mm' = [mm EXCEPT !.pml4[done + Slots] = [e EXCEPT !.w = e.w /\ done \notin GcSlots]]
    /\ done' = done + 1
    /\ UNCHANGED <<mapStep, kernel, memmap, lifted>>

init_virt_shadow ==
    /\ mapStep = "shadow" /\ done < Slots
    /\ LET n == IF mm.pml4[done].present THEN mm
                ELSE [get_next_level(mm, done) EXCEPT !.pml4[done].nx = TRUE]
           e == n.pml4[done]
       IN mm' = [n EXCEPT !.pml4[done + Slots] = [e EXCEPT !.w = e.w /\ done \notin GcSlots]]
    /\ done' = done + 1
    /\ UNCHANGED <<mapStep, kernel, memmap, lifted>>

(***************************************************************************)
(* init_phys_mappings, one entry of the memory map: every page it touches  *)
(* at its place in the direct map.                                         *)
(***************************************************************************)
ReadOnlyTypes == {"executable", "acpi_tables"}
UnmappedTypes == {"bad", "unknown"}

init_phys_mappings ==
    /\ mapStep = "memmap" /\ done < Len(memmap)
    /\ LET e == memmap[done + 1]
           first == e.base \div 2
           end == DIV_ROUND_UP(e.base + e.length, 2)
       IN mm' = IF e.type \in UnmappedTypes THEN mm
                ELSE virt_map_range(mm, first, first, end - first, e.type \notin ReadOnlyTypes, FALSE)
    /\ done' = done + 1
    /\ UNCHANGED <<mapStep, kernel, memmap, lifted>>

-----------------------------------------------------------------------------
(* The frames phys_alloc hands out: pages of usable memory.  Which of them *)
(* are taken is not kept here.                                             *)
Usable ==
    {f \in Shadowed : \E j \in 1 .. Len(memmap) :
        /\ memmap[j].type = "usable"
        /\ memmap[j].base <= 2 * f /\ 2 * f + 2 <= memmap[j].base + memmap[j].length}

(* An access the processor refuses; CR0.WP makes it check writes.          *)
Refused(v, write) == ~Translate(v).present \/ (write /\ ~Translate(v).w)

(***************************************************************************)
(* virt_handle_page_fault decides by the area alone, not by why the access *)
(* was refused: the heap and the stacks get a new page, the direct map its *)
(* own frame, both writable.  Anything else stops the machine.             *)
(***************************************************************************)
Lazy(v) == Slot(v) \in GcSlots \cup {StackSlot}
DirectMap(v) == Slot(v) = 0

virt_handle_page_fault(v, write) ==
    /\ mapStep = "run"
    /\ Refused(v, write)
    /\ IF Lazy(v) \/ DirectMap(v)
       THEN /\ \E f \in IF Lazy(v) THEN Usable ELSE {v} : mm' = virt_map_page(mm, f, v, TRUE, FALSE)
            /\ lifted' = IF Translate(v).present THEN lifted \cup {v} ELSE lifted
            /\ UNCHANGED mapStep
       ELSE mapStep' = "halt" /\ UNCHANGED <<mm, lifted>>
    /\ UNCHANGED <<kernel, memmap, done>>

(***************************************************************************)
(* The JIT's memory (tdn_host_jit_alloc, tdn_host_jit_set_exec), one page  *)
(* of a range: virt_alloc_range maps a new page writable, virt_remap_range *)
(* makes it executable instead.  Which ranges are asked for, and their     *)
(* clean-up, is Memory's.                                                  *)
(***************************************************************************)
virt_alloc_range(v) ==
    /\ mapStep = "run"
    /\ v \in JitPages
    /\ ~Translate(v).present
    /\ \E f \in Usable : mm' = virt_map_page(mm, f, v, TRUE, FALSE)
    /\ UNCHANGED <<mapStep, kernel, memmap, done, lifted>>

virt_remap_range(v) ==
    /\ mapStep = "run"
    /\ v \in JitPages
    /\ Translate(v).present
    /\ mm' = virt_map_page(mm, Translate(v).frame, v, FALSE, TRUE)
    /\ UNCHANGED <<mapStep, kernel, memmap, done, lifted>>

(* No memory for a page fault, or for a page of virt_alloc_range after the *)
(* first: the clean-up then asserts that a page it never mapped is there.  *)
alloc_fails ==
    /\ mapStep = "run"
    /\ mapStep' = "halt"
    /\ UNCHANGED <<kernel, memmap, done, mm, lifted>>

-----------------------------------------------------------------------------
MapInitWith(k, m) ==
    /\ mapStep = "early"
    /\ kernel = k
    /\ memmap = m
    /\ done = 0
    /\ mm = [pml4 |-> [s \in 0 .. 2 * Slots |-> NoTable], tables |-> <<>>]
    /\ lifted = {}

MapInit == \E k \in Kernels, m \in MemMaps : MapInitWith(k, m)

MapNext ==
    \/ init_fails \/ init_virt_early
    \/ init_virt_segment \/ NextLoop("segments", Len(kernel), "shadow")
    \/ init_virt_shadow \/ NextLoop("shadow", Slots, "memmap")
    \/ init_phys_mappings \/ NextLoop("memmap", Len(memmap), "run")
    \/ \E v \in VirtPages, write \in BOOLEAN : virt_handle_page_fault(v, write)
    \/ \E v \in JitPages : virt_alloc_range(v) \/ virt_remap_range(v)
    \/ alloc_fails

MapSpec == MapInit /\ [][MapNext]_mapVars

-----------------------------------------------------------------------------
(***************************************************************************)
(* Once init_virt is through, the shadow shows the memory of the shadowed  *)
(* area, whatever init_phys_mappings and page faults map there later, and  *)
(* the GC heap is never writable through it.                               *)
(***************************************************************************)
ShadowFollows ==
    mapStep \in {"memmap", "run"} =>
        \A v \in Shadowed :
            LET t == Translate(v) IN
            Translate(Shadow(v)) = [t EXCEPT !.w = t.w /\ Slot(v) \notin GcSlots]

(***************************************************************************)
(* The kernel's own code cannot be written: a frame that is executable in  *)
(* the kernel image is writable at no address, the direct map, its shadow, *)
(* the other segments of init_virt and the memory of the JIT included,     *)
(* unless a write to its read-only direct mapping made                     *)
(* virt_handle_page_fault lift the protection.  Nothing of the kind holds  *)
(* for the JIT's code, which stays writable in the direct map.             *)
(***************************************************************************)
CodeIsReadOnly ==
    LET code == {Translate(u).frame : u \in {v \in ImagePages : Translate(v).x}} IN
    mapStep # "halt" =>
        \A v \in VirtPages :
            Translate(v).w /\ Translate(v).frame \in code =>
                v \in lifted \cup {Shadow(p) : p \in lifted}
=============================================================================
