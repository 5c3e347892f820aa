-------------------------------- MODULE Boot --------------------------------
(***************************************************************************)
(* Starting the machine (main.c, pcpu.c, gdt.c): _start on the boot core   *)
(* up to the scheduler, and smp_entry on every other core it lets in.      *)
(* Cores are named by their index in the boot loader's table.              *)
(*                                                                         *)
(* A per-CPU variable lives in the area the FS base of the core selects:   *)
(* area 0 is the copy inside the kernel image, area k the k-th block the   *)
(* kernel heap hands out for one.  The blocks of a size class follow each  *)
(* other; a page of them is mapped by the page fault of its first access,  *)
(* which needs a TSS to run on.                                            *)
(***************************************************************************)
EXTENDS Integers, Sequences, FiniteSets

CONSTANTS
    CpuCount,       \* response->cpu_count
    BSPIndex,       \* the index of the boot core in response->cpus
    HasMP,          \* the boot loader answered the MP request
    Failing,        \* the operations that may run out of memory or be refused
    BlocksPerPage,  \* how many blocks of the per-CPU areas' size class share a heap page
    NameBlocks,     \* how many blocks of that class debug_load_symbols may take
    TableBlocks     \* how many of them init_pcpu may take for m_all_fs_bases

Cpus == 0 .. CpuCount - 1
APs == Cpus \ {BSPIndex}

ASSUME BootAssumption ==
    /\ CpuCount \in Nat \ {0}
    /\ BSPIndex \in Cpus
    /\ HasMP \in BOOLEAN
    /\ BlocksPerPage \in Nat \ {0}
    /\ NameBlocks \subseteq Nat /\ TableBlocks \subseteq Nat

VARIABLES
    pc,              \* where each core is
    step,            \* the boot core: initialisation steps done, then cores let in
    g_cpu_count,
    m_smp_count, m_smp_fail,
    fs,              \* the per-CPU area each core uses
    m_cpu_id,        \* the cpu id stored in each area, -1 before it is written
    m_all_fs_bases,  \* the area registered for each cpu id
    watermark,       \* per-CPU areas handed out by the heap
    early,           \* blocks of the areas' size class that were taken before the areas
    tss,             \* the TSS descriptor of the shared GDT: the core it was written for
    m_tss_lock,      \* the core that holds it, or -1
    tr,              \* the TSS each core runs on: the core it belongs to, or -1
    sched            \* per area: the core that set up the scheduler context, or -1

smpVars == <<g_cpu_count, m_smp_count, m_smp_fail>>
pcpuVars == <<fs, m_cpu_id, m_all_fs_bases, watermark, early>>
tssVars == <<tss, m_tss_lock, tr>>
vars == <<pc, step, smpVars, pcpuVars, tssVars, sched>>

Goto(i, l) == pc' = [pc EXCEPT ![i] = l]
MayFail(what) == what \in Failing

(***************************************************************************)
(* The steps of _start on the boot core before it starts the others, in    *)
(* order.  A step that fails, or asserts in vain, halts the machine.  The  *)
(* heap's only users are debug_load_symbols (the table, in one piece, and  *)
(* a copy of each name; none of it for a kernel without section or symbol  *)
(* table) and init_pcpu.  How many of these blocks are of the class of the *)
(* per-CPU areas depends on the image; they are written, so the pages they *)
(* are on are mapped.                                                      *)
(***************************************************************************)
InitSteps ==
    << "init_early_pcpu", "init_gdt", "init_idt", "init_virt_early", "init_phys",
       "init_phys_per_cpu", "init_tss", "init_virt", "init_phys_mappings",
       "switch_page_table", "init_alloc", "debug_load_symbols", "init_acpi_tables",
       "init_tsc", "init_lapic", "init_timers", "init_scheduler", "init_pcpu" >>

Fallible ==
    {"init_virt_early", "init_phys", "init_tss", "init_virt", "init_phys_mappings",
     "debug_load_symbols", "init_acpi_tables", "init_lapic", "init_scheduler", "init_pcpu"}

EarlyBlocks(s) ==
    IF s = "debug_load_symbols" THEN NameBlocks
    ELSE IF s = "init_pcpu" THEN TableBlocks
    ELSE {0}

(* Mutant: start-up leaves the heap untouched.                             *)
BootStep_no_symbols(s) ==
    /\ tr' = IF s = "init_tss" THEN [tr EXCEPT ![BSPIndex] = BSPIndex] ELSE tr
    /\ g_cpu_count' = IF s = "init_pcpu" /\ HasMP THEN CpuCount ELSE g_cpu_count
    /\ UNCHANGED early

BootStep(s) ==
    /\ tr' = IF s = "init_tss" THEN [tr EXCEPT ![BSPIndex] = BSPIndex] ELSE tr
    /\ g_cpu_count' = IF s = "init_pcpu" /\ HasMP THEN CpuCount ELSE g_cpu_count
    /\ \E n \in EarlyBlocks(s) : early' = early + n

start_step ==
    /\ pc[BSPIndex] = "init"
    /\ step < Len(InitSteps)
    /\ BootStep(InitSteps[step + 1])
    /\ step' = step + 1
    /\ UNCHANGED <<pc, m_smp_count, m_smp_fail, fs, m_cpu_id, m_all_fs_bases, watermark,
                   tss, m_tss_lock, sched>>

start_fails ==
    /\ pc[BSPIndex] = "init"
    /\ step < Len(InitSteps)
    /\ InitSteps[step + 1] \in Fallible \cap Failing
    /\ Goto(BSPIndex, "halt")
    /\ UNCHANGED <<step, smpVars, pcpuVars, tssVars, sched>>

(* Without an MP response the loop over the cores is skipped.              *)
start_smp ==
    /\ pc[BSPIndex] = "init"
    /\ step = Len(InitSteps)
    /\ step' = 0
    /\ Goto(BSPIndex, IF HasMP THEN "cpus" ELSE "wait")
    /\ UNCHANGED <<smpVars, pcpuVars, tssVars, sched>>

(***************************************************************************)
(* The loop over the cores: the boot core sets up its own scheduler and    *)
(* counts itself, the others get smp_entry as their start address.         *)
(***************************************************************************)
start_ap ==
    /\ pc[BSPIndex] = "cpus"
    /\ step \in APs
    /\ pc' = [pc EXCEPT ![step] = "pcpu"]
    /\ step' = step + 1
    /\ UNCHANGED <<smpVars, pcpuVars, tssVars, sched>>

start_self ==
    /\ pc[BSPIndex] = "cpus"
    /\ step = BSPIndex
    /\ sched' = [sched EXCEPT ![fs[BSPIndex]] = BSPIndex]
    /\ m_smp_count' = m_smp_count + 1
    /\ step' = step + 1
    /\ UNCHANGED <<pc, g_cpu_count, m_smp_fail, pcpuVars, tssVars>>

start_self_fails ==
    /\ pc[BSPIndex] = "cpus"
    /\ step = BSPIndex
    /\ MayFail("sched")
    /\ Goto(BSPIndex, "halt")
    /\ UNCHANGED <<step, smpVars, pcpuVars, tssVars, sched>>

start_wait ==
    /\ pc[BSPIndex] = "cpus"
    /\ step = g_cpu_count
    /\ Goto(BSPIndex, "wait")
    /\ UNCHANGED <<step, smpVars, pcpuVars, tssVars, sched>>

(* All cores have reported: the init thread is created and queued.         *)
(* Mutant: the boot core waits for the first report only.                  *)
start_done_first ==
    /\ pc[BSPIndex] = "wait"
    /\ m_smp_count > 0
    /\ Goto(BSPIndex, "run")
    /\ UNCHANGED <<step, smpVars, pcpuVars, tssVars, sched>>

start_done ==
    /\ pc[BSPIndex] = "wait"
    /\ m_smp_count = g_cpu_count
    /\ Goto(BSPIndex, "run")
    /\ UNCHANGED <<step, smpVars, pcpuVars, tssVars, sched>>

(***************************************************************************)
(* pcpu_init_per_core: a block from the heap becomes the FS base, and its  *)
(* first access may fault.  The core has no TSS yet, so a fault on an      *)
(* unmapped heap page resets the machine.  Without memory it returns an    *)
(* error that smp_entry ignores: the core stays on area 0.                 *)
(***************************************************************************)
AreaPage(e, k) == (e + k - 1) \div BlocksPerPage
MappedPages(e) == {b \div BlocksPerPage : b \in 0 .. e - 1}
GotArea == IF MayFail("pcpu") THEN BOOLEAN ELSE {TRUE}

NoArea(i) == Goto(i, "tss") /\ UNCHANGED <<fs, m_all_fs_bases, m_cpu_id, watermark>>
NoFaultStack(i) == Goto(i, "reset") /\ UNCHANGED <<fs, m_all_fs_bases, m_cpu_id, watermark>>

TakeArea(i) ==
    /\ fs' = [fs EXCEPT ![i] = watermark + 1]
    /\ m_all_fs_bases' = [m_all_fs_bases EXCEPT ![i] = watermark + 1]
    /\ watermark' = watermark + 1
    /\ Goto(i, "tss")

(* Mutant: the id is stored before the FS base is switched.                *)
pcpu_init_per_core_early(i) ==
    /\ pc[i] = "pcpu"
    /\ \E got \in GotArea :
         IF ~got THEN NoArea(i)
         ELSE IF AreaPage(early, watermark + 1) \notin MappedPages(early) THEN NoFaultStack(i)
         ELSE TakeArea(i) /\ m_cpu_id' = [m_cpu_id EXCEPT ![fs[i]] = i]
    /\ UNCHANGED <<step, smpVars, early, tssVars, sched>>

pcpu_init_per_core(i) ==
    /\ pc[i] = "pcpu"
    /\ \E got \in GotArea :
         IF ~got THEN NoArea(i)
         ELSE IF AreaPage(early, watermark + 1) \notin MappedPages(early) THEN NoFaultStack(i)
         ELSE TakeArea(i) /\ m_cpu_id' = [m_cpu_id EXCEPT ![watermark + 1] = i]
    /\ UNCHANGED <<step, smpVars, early, tssVars, sched>>

(***************************************************************************)
(* init_tss: the cores share one GDT entry, written and loaded under       *)
(* m_tss_lock.                                                             *)
(***************************************************************************)
(* Mutant: the lock is not taken.                                          *)
init_tss_write_unlocked(i) ==
    /\ pc[i] = "tss"
    /\ m_tss_lock' = i
    /\ tss' = i
    /\ Goto(i, "ltr")
    /\ UNCHANGED <<step, smpVars, pcpuVars, tr, sched>>

init_tss_write(i) ==
    /\ pc[i] = "tss"
    /\ m_tss_lock = -1
    /\ m_tss_lock' = i
    /\ tss' = i
    /\ Goto(i, "ltr")
    /\ UNCHANGED <<step, smpVars, pcpuVars, tr, sched>>

(* Mutant: the lock is not released.                                       *)
init_tss_load_locked(i) ==
    /\ pc[i] = "ltr"
    /\ tr' = [tr EXCEPT ![i] = tss]
    /\ Goto(i, "sched")
    /\ UNCHANGED <<step, smpVars, pcpuVars, tss, m_tss_lock, sched>>

init_tss_load(i) ==
    /\ pc[i] = "ltr"
    /\ tr' = [tr EXCEPT ![i] = tss]
    /\ m_tss_lock' = -1
    /\ Goto(i, "sched")
    /\ UNCHANGED <<step, smpVars, pcpuVars, tss, sched>>

init_tss_fails(i) ==
    /\ pc[i] = "tss"
    /\ MayFail("init_tss")
    /\ Goto(i, "error")
    /\ UNCHANGED <<step, smpVars, pcpuVars, tssVars, sched>>

(***************************************************************************)
(* scheduler_init_per_core, the report to the boot core, and the error     *)
(* path, which reports too so that the boot core does not wait forever.    *)
(***************************************************************************)
(* Mutant: the core also reports here.                                     *)
ap_scheduler_init_counted(i) ==
    /\ pc[i] = "sched"
    /\ sched' = [sched EXCEPT ![fs[i]] = i]
    /\ m_smp_count' = m_smp_count + 1
    /\ Goto(i, "count")
    /\ UNCHANGED <<step, g_cpu_count, m_smp_fail, pcpuVars, tssVars>>

ap_scheduler_init(i) ==
    /\ pc[i] = "sched"
    /\ sched' = [sched EXCEPT ![fs[i]] = i]
    /\ Goto(i, "count")
    /\ UNCHANGED <<step, smpVars, pcpuVars, tssVars>>

ap_scheduler_init_fails(i) ==
    /\ pc[i] = "sched"
    /\ MayFail("sched")
    /\ Goto(i, "error")
    /\ UNCHANGED <<step, smpVars, pcpuVars, tssVars, sched>>

ap_count(i) ==
    /\ pc[i] = "count"
    /\ m_smp_count' = m_smp_count + 1
    /\ Goto(i, "run")
    /\ UNCHANGED <<step, g_cpu_count, m_smp_fail, pcpuVars, tssVars, sched>>

ap_error(i) ==
    /\ pc[i] = "error"
    /\ m_smp_fail' = TRUE
    /\ m_smp_count' = m_smp_count + 1
    /\ Goto(i, "halt")
    /\ UNCHANGED <<step, g_cpu_count, pcpuVars, tssVars, sched>>

(* init_early_pcpu gives the boot core area 0 and id 0.                    *)
Init ==
    /\ pc = [i \in Cpus |-> IF i = BSPIndex THEN "init" ELSE "off"]
    /\ step = 0
    /\ g_cpu_count = 1
    /\ m_smp_count = 0
    /\ m_smp_fail = FALSE
    /\ fs = [i \in Cpus |-> 0]
    /\ m_cpu_id = [k \in 0 .. CpuCount |-> IF k = 0 THEN 0 ELSE -1]
    /\ m_all_fs_bases = [i \in Cpus |-> 0]
    /\ watermark = 0
    /\ early = 0
    /\ tss = -1
    /\ m_tss_lock = -1
    /\ tr = [i \in Cpus |-> -1]
    /\ sched = [k \in 0 .. CpuCount |-> -1]

BSPStep == start_step \/ start_smp \/ start_ap \/ start_self \/ start_wait \/ start_done
BSPFails == start_fails \/ start_self_fails

APStep(i) ==
    \/ pcpu_init_per_core(i)
    \/ init_tss_write(i) \/ init_tss_load(i)
    \/ ap_scheduler_init(i) \/ ap_count(i) \/ ap_error(i)
APFails(i) == init_tss_fails(i) \/ ap_scheduler_init_fails(i)

Next == BSPStep \/ BSPFails \/ \E i \in APs : APStep(i) \/ APFails(i)

(* Every core keeps running; nothing has to fail.                          *)
Fairness == WF_vars(BSPStep) /\ \A i \in APs : WF_vars(APStep(i))

Spec == Init /\ [][Next]_vars /\ Fairness

-----------------------------------------------------------------------------
Labels == {"off", "init", "cpus", "wait", "pcpu", "tss", "ltr", "sched", "count",
           "run", "error", "halt", "reset"}

Reported(i) ==
    IF i = BSPIndex
    THEN (pc[i] = "cpus" /\ step > i) \/ (pc[i] \in {"wait", "run"} /\ HasMP)
    ELSE pc[i] \in {"run", "halt"}

(* Types: areas that exist, and m_smp_count counts every core that has     *)
(* reported once.                                                          *)
BootTypeOK ==
    /\ pc \in [Cpus -> Labels]
    /\ step \in 0 .. (Len(InitSteps) + CpuCount)
    /\ g_cpu_count \in 1 .. CpuCount
    /\ m_smp_count = Cardinality({i \in Cpus : Reported(i)})
    /\ m_smp_fail \in BOOLEAN
    /\ fs \in [Cpus -> 0 .. CpuCount]
    /\ m_cpu_id \in [0 .. CpuCount -> Cpus \cup {-1}]
    /\ m_all_fs_bases \in [Cpus -> 0 .. CpuCount]
    /\ watermark \in 0 .. CpuCount
    /\ early \in Nat
    /\ tss \in Cpus \cup {-1} /\ m_tss_lock \in Cpus \cup {-1}
    /\ tr \in [Cpus -> Cpus \cup {-1}]
    /\ sched \in [0 .. CpuCount -> Cpus \cup {-1}]

HasArea(i) == i = BSPIndex \/ pc[i] \notin {"off", "pcpu", "reset"}

(***************************************************************************)
(* Once a core has its per-CPU area (pcpu_init_per_core) no other core     *)
(* uses it, get_cpu_id returns the core's own index, and                   *)
(* pcpu_get_pointer_of finds the area from the index.                      *)
(***************************************************************************)
OwnPerCpuArea ==
    \A i \in Cpus : HasArea(i) =>
        /\ m_cpu_id[fs[i]] = i
        /\ m_all_fs_bases[i] = fs[i]
        /\ \A j \in Cpus \ {i} : HasArea(j) => fs[j] # fs[i]

(***************************************************************************)
(* Every core runs on its own TSS although all of them load it through the *)
(* same GDT entry (init_tss), so their fault stacks are distinct.          *)
(***************************************************************************)
OwnTss == \A i \in Cpus : tr[i] \in {-1, i}

(***************************************************************************)
(* A core that touches unmapped heap memory has a TSS to take the page     *)
(* fault on (init_idt puts page faults on IST 1), although smp_entry       *)
(* accesses the new per-CPU area before init_tss.  The code gets this only *)
(* where AreasOnMappedPages holds of the image it was built into.          *)
(***************************************************************************)
AreasOnMappedPages ==
    \A n \in NameBlocks, t \in TableBlocks, k \in 1 .. CpuCount - 1 :
        AreaPage(n + t, k) \in MappedPages(n + t)

FaultsHaveAStack == \A i \in Cpus : pc[i] # "reset"

(***************************************************************************)
(* When the boot core stops waiting and queues the init thread, every core *)
(* has set up its scheduler or has given up: the report to m_smp_count     *)
(* comes after a core's work, whichever way that ends.                     *)
(***************************************************************************)
EveryCoreReported ==
    pc[BSPIndex] = "run" => \A i \in Cpus :
        \/ sched[fs[i]] = i
        \/ pc[i] = "halt" /\ m_smp_fail

(***************************************************************************)
(* The boot core does not wait forever: it starts the scheduler or halts   *)
(* on an error, whatever fails on the other cores.                         *)
(***************************************************************************)
BootCompletes == <>(pc[BSPIndex] \in {"run", "halt"})
=============================================================================
