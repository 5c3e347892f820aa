# TomatOS in TLA+

TLA+ specifications of the TomatOS kernel, the TLC configurations that check
them on small instances, and TLAPS proofs about them. Paths are relative to the
repository; `scheduler.c:228` means `src/kernel/thread/scheduler.c` line 228.

## 1. The system

TomatOS is a small x86-64 kernel written in C, booted by Limine, that is to host
a .NET runtime (TomatoDotNet, a submodule). `_start` initialises the boot core,
lets the other cores in, creates the *init thread* and jumps into the
scheduler; from then on everything runs in kernel threads.

| component | state | operations | interacts with |
|---|---|---|---|
| scheduler (`thread/scheduler.c`) | per core: run queue, current thread, preempt count, want_reschedule, park callback, parker | yield, park, exit, wakeup, reschedule, preempt disable/enable, start | threads, timers, timer interrupt |
| threads (`thread/thread.c`, `thread.S`) | status word per thread, `THREADS` array with a grow-only top, freelist, spinlock; stacks and register frames | create, alloc, free, switch status, save / resume | scheduler, virtual memory |
| timers (`time/timer.c`) | per core: red-black tree with cached first node; per timer: deadline, owner tree | set, cancel, dispatch, sleep | scheduler callbacks, backends |
| timer backends (`time/tsc.c`, `arch/apic.c`) | one hardware timer per core | set deadline, clear | timers |
| interrupts (`arch/intr.c`, `intr.S`) | IDT; IF flag, cleared by the gates | timer handler, page fault, default handler | scheduler, timers, virt |
| boot, SMP (`main.c`, `arch/smp.c`) | `m_smp_count`, `m_smp_sync` | `_start`, `smp_entry` | all |
| physical memory (`mem/phys.c`) | buddy free lists, page metadata, lock, reserved page per core | alloc, free, alloc inside a fault | virt, allocators |
| virtual memory (`mem/virt.c`) | page tables | map, map range, unmap, protect, page fault (stack growth) | phys |
| allocators (`mem/alloc.c`, `mem/gc/gc.c`, `mem/stack.c`) | size-class free lists, object list, stack pool | alloc, free | phys, virt, runtime |
| per-CPU data (`thread/pcpu.c`), descriptor tables, ACPI, debug, library | boot-time tables | set up, parse, print | — |
| runtime host (`runtime/tdn.c`) | JIT memory watermark | host callbacks | virt, allocators |

What is hard here:

* **interrupts everywhere.** The scheduler runs with interrupts on; the timer
  handler may run between any two of its instructions and calls back into it
  (`scheduler_timer_tick`, `sleep_wakeup_thread`).
* **preemption by counting.** Code is protected from preemption by a per-core
  count, tested and changed in separate instructions.
* **several cores** share the thread pool and its plain spinlock.
* **parking.** A parked thread is handed to its waker by a callback that runs
  after its status says WAITING and before the core has left it; a core that
  finds its queue empty goes to sleep in `monitor`/`mwait`.
* **time.** A deadline may pass at any moment, also while its timer is being
  cancelled or inherited.
* **limits and failure.** A full thread pool, exhausted memory, a fault taken
  inside the allocator, a range mapping that fails half-way.

Correct means: each thread is in exactly the place its status names (running on
one core, in one queue slot, with one waker, or owned by one party as a free
block); an idle core never sleeps on work; the assertions in the code hold; sleeps last long
enough and on-stack timers do not outlive them; a thread always has its slice
armed and no runnable thread starves. `PROJECT.json` lists the hazards
behind these with their source lines.

## 2. The modules

```
Platform           cores, thread ids
  Thread           status word, pool, freelist, lock      (fragments)
    Scheduler      per-core scheduler, API, interrupt handler
      MCScheduler  the same from a state with two busy cores
  Timer            timer trees, hardware timer            (fragments)
Kernel             = Scheduler + Timer
  KernelProofs     proofs about Scheduler, MCScheduler and Kernel

Powers             powers of two
  PowersProofs     induction over numbers, division, alignment

PhysSpec           what the physical allocator promises
Buddy              the buddy allocator, implements PhysSpec
  MCBuddy
  BuddyProofs
Memory             pages on several cores: allocator lock, reserved page,
  MCMemory         page tables, page faults
  MemoryProofs

Boot               _start and smp_entry, per-CPU areas, the TSS
  BootProofs

TimerQueueSpec     what timer.c needs of its tree
RbTree             the red-black tree, implements TimerQueueSpec
  RbTreeProofs     its structure and colours
    RbOrderProofs  the order of its nodes: the refinement, the walks
Heap               kernel heap, object allocator, small stacks
Symbols            the symbol table, memmove
Mappings           the initial page tables and their shadow
SupportProofs      proofs about Heap and Mappings
Support            = RbTree | Heap | Symbols | Mappings, one at a time
```

Definitions keep the names of the C functions. `Thread` and `Timer` define
fragments of actions, each constraining the variables it names; `Scheduler` and
`Kernel` assemble them. Operators whose comment begins with "Mutant" are
deliberately wrong forms of the definition below them; no action uses them.

**Scheduler.** A core is a sequential process with program counter `pc[c]`:
`"thread"` while it runs its current thread, otherwise a place inside the
scheduler. `tpc[t]` is the place of thread `t` inside the API. `irq[c]` says
that the timer handler runs on top of either. `held[c]` is the local variable
`thread`/`current` of the scheduler function the core is in. One step is the code between two
points where another core or an interrupt can observe it; what runs with
interrupts off, or touches only this core's queue under its irq spinlock, is one
step. `scheduler_preempt_enable` is two (the test, the decrement), `thread_alloc`
is two (lock, body), exit is four, `scheduler_schedule` is a loop of cancel,
prepare, pop and park.

The threads are an arbitrary workload: a running thread makes any API call in
`Calls` whose precondition (asserted by the code) holds, or computes forever.
Who may wake whom is not decided by the scheduler: `wakeable` is the right to
wake a parked thread once, published by a park callback (or, without a
callback, by the park itself, or by `thread_create`) and consumed by
`scheduler_wakeup_thread`. That is the contract of the API, and `AssertionsHold`
shows the scheduler keeps its side.

`create_exhausted` and `create_assert_fails` are the two ways `thread_create`
stops a core (a NULL block; the assertion at `thread.c:74`). `core_stops` is a
panic or a fault in the timer code. A stopped core keeps whatever it holds.

**Timer, Kernel.** Time is in ticks; a deadline is the number of ticks that remain. The tree
of a core is the set of its nodes plus the cached first node; ties are resolved
either way. `timer_cancel` is called by `scheduler_schedule` with interrupts on
and is three steps (read `timer->timers`, clear it, erase with interrupts off);
`timer_set` and a round of `timer_dispatch` run with interrupts off and are one
step, and the end of `timer_dispatch` two: it finds no timer due, and later programs the
hardware, by when one may be. `rb_erase_cached` returns the new first node only if the erased node was
the first one, NULL otherwise, and `cancel_rearm` acts on that value as the code
does. When the slice expires between the first two steps of `timer_cancel`, its node is
erased a second time (`timer_cancel_corrupts`). Its links are those of a tree that has changed, and nodes of
threads that are awake again lie on stacks in use, so what the erase leaves is
any set of the nodes that were in the tree when it was dispatched or are in it now,
unless the core faults or loops in it (`cancel_stuck`). `broken` records that; `LinksSound` says it has not
happened. The hardware timer differs by backend: a
past deadline fires at once with the TSC deadline, and stops the local
APIC count.

A raised interrupt (`pending`) is taken before the next step of its core outside
the handler. `Kernel` joins each scheduler action with its effect on the timers, so every
kernel step is a scheduler step or leaves the scheduler alone; `Scheduler` by
itself, where any interrupt and any callback may happen at any time, is the
abstract specification that `Kernel` implements (theorem
`KernelImplementsScheduler`).

**Buddy.** The free lists are the set `free_list` of pairs (address, level), and
`metadata` the level and free bit kept for every page, also for blocks smaller
than one. A state is reached from
the memory map: `create_memory_regions` groups entries into regions, carves its
own overhead out of the largest and adds the rest page by page
(`add_memory_skip`, `free_at_level`); then come `phys_alloc` and `phys_free`. `phys_free` is defined for every
held block; which blocks callers return is the workload's (`Returned`, constant `FreeLevels`). In run `buddy` and the proofs
these are blocks of a page or more (`PagesReturned`), which is what the kernel's one call of `phys_free` returns; smaller blocks are
allocated and kept. The whole allocator runs under its lock, so each call is one step here.

**Memory.** Each core has two contexts, its thread and a page fault on top of
it, with a program counter each. Here `phys_alloc` is several steps
(`irq_alloc` reads `m_lock_cpu` without the lock; then the lock, the record in `m_lock_cpu`, the search,
the clearing of the record, the release), `phys_free` and `init_phys_per_cpu` are the lock, the work without a
record, and the release, and free memory is a set of interchangeable pages. A thread's stack may grow,
and so fault, at the steps that the constant `Growth` lists as pairs of operation and label. `m_lock_cpu` is a plain
`int`; the stores of line 621 and 630 are taken to happen where they are written. `virt_alloc_range` and its cleanup, the walk with
`get_next_level` allocating tables on the way, `virt_remap_range`,
`virt_is_mapped` and the fault handler are followed lock by lock. `tdn_host_jit_alloc` is the
caller of `virt_alloc_range`; its watermark is read before and written in a step after
it, without a lock. The `phys_free` inside the cleanup is one step: it is never reached. `Area` says what a fault on a virtual page means.
`lost` records pages that leak: one dropped by a failed
`virt_alloc_range`, and one that a second fault on the same page replaces.

**Boot.** `_start` as its sequence of steps, the loop that lets the other cores
in, the wait on `m_smp_count`; `smp_entry` as `pcpu_init_per_core`, `init_tss`
(write and load of the shared descriptor under `m_tss_lock`),
`scheduler_init_per_core` and the report. Each step that returns an error may
fail if `Failing` names it. A fault taken without a TSS ends in `"reset"`. Which heap pages are mapped by then
depends on the image: `debug_load_symbols` allocates the table once and a copy of each name, or nothing for a
kernel without section or symbol table, and `init_pcpu` allocates its own table. `early` counts the blocks of
these that are in the size class of the per-CPU areas (`NameBlocks`, `TableBlocks`); the pages
they are on are mapped, the next page of the class is not.

**RbTree.** Nodes with children, parent and colour; each iteration of the two
rebalancing loops is a step, so the loop invariants are checked too. The mirror
images of the C code are one definition with a side.
**Heap.** Callers interleave between the locks of `mem_alloc`, `mem_free` and
`mem_realloc`; addresses and sizes are small numbers, and the shift that computes
a size class has the width `IntBits`. Memory is kept byte by byte: an owner writes its name into all the bytes it asked
for, `mem_free` writes its link into the block and `mem_realloc` copies as many bytes as the code does. A block
records its owner and the owner's variable, so one block given out twice has two holders.
**Symbols.** Quicksort, insertion with `memmove` and binary search as recursive
operators over a cell array, one load, insertion or lookup per step. The slot behind the last symbol, which the
search reads, may look like any symbol each time: `mem_realloc` does not clear what it returns.
**Mappings.** `init_virt`, `init_phys_mappings` and later page faults and JIT pages (`virt_alloc_range`,
`virt_remap_range`, page by page) over a top-level table and one table per slot; permissions of the top and the last level combine
as in the processor.

## 3. The runs

| run | bounds | checks |
|---|---|---|
| `scheduler` | 2 cores, 3 threads, all calls, nesting 2 | types, `NoLostWakeup`, `AssertionsHold`, `OnlyBootCoreRuns` |
| `scheduler_cores` | 2 busy cores, 3 threads | `RunsOnOneCore`, `RunnableIsQueuedOnce`, `WaitingHasOneWaker`, `BlockHasOneOwner` |
| `kernel_progress` | 2 cores, 3 threads, TSC, slice 2 | `ArmedWhileTimersRemain`, `SliceNeverLost`, `RunnableRuns` |
| `kernel_sleep` | 1 core, 3 threads, local APIC, sleeps of 0, 1 and 3 ticks | types, `NoDanglingTimer`, `SleepsLongEnough` |
| `buddy` | 19 pages in 6 entries, 2 regions, 4 levels, sizes below, at and above a page and above the largest block, frees of a page or more | types, `NothingLostOrShared`, `MetadataIsTrue`, `NoSpuriousFailure`, `ImplementsPhysSpec` |
| `memory` | 2 cores, 5 pages, 5 virtual pages of 4 areas, 2 table entries, stacks that grow wherever `phys_alloc` and `phys_free` are covered | types, `PageHasOneOwner`, `NoSelfDeadlock`, `LocksAreHeld` |
| `boot` | 4 cores, every failure but one, 1 or 6 blocks for symbols and 0 or 1 for the table, 5 to a page | types, `OwnPerCpuArea`, `OwnTss`, `FaultsHaveAStack`, `EveryCoreReported`, `BootCompletes` |
| `support` | 10 nodes with equal keys; 2 callers, 2 blocks each, sizes 0, 2, 3 and 5; 5 symbols; 12 kernel/memory map pairs, one JIT page | `RbTypeOK`, `RedBlackTree`, `Walks`, `ImplementsTimerQueue`; `HandedOutOnce`, `DataIntact`; `TableIsSorted`, `LookupFinds`; `ShadowFollows`, `CodeIsReadOnly` |

Three threads are the least with which a pool is exhausted while two
threads work on a third, a queue holds two others behind the running one, and a
block is reused by someone other than its maker. Two levels of nesting separate a
preempt count of one from a larger one. A slice of 2 ticks and sleeps of 0, 1 and
3 give timers that expire before, with and after the slice; timers live on the core they were set on, and `OnlyBootCoreRuns` says that
this is one core, so `kernel_sleep` spends its bound on sleepers. The heap sizes are nothing, a whole block of
the smallest class, part of a block of the next, and more than the largest class.
Four levels, one of them below a page, and regions that start and end off a
top-level boundary make blocks split and merge on both sides of the page size
and at the ends of a region. Pages are a symmetry set in `memory`: the model takes a fixed one of the free pages, which nothing else tells apart. Five of them are the least with which `virt_alloc_range` maps
a page, fails on the next and runs its cleanup; with fewer it fails at once. Ten nodes
reach every case of the erasure loop on both sides.

No run checks for deadlock: threads may all be parked, exited or behind a panic,
a core may stop at an assertion, and the kernel then really stops.

Some workloads are left out of a run because the code is known to break its
property there; each is listed below: `preempt` calls in
`kernel_progress` (a lost reschedule request), `exit` there (the freelist
deadlock), sleeps there (the disarmed hardware timer) and the local APIC; in `buddy` frees of less than a page; in `memory`
stack growth under `m_virt_lock`, or under the allocator's lock while `m_lock_cpu` does not
name the core; in `support` sizes that wrap the `int`; and in `boot` a boot core that is not first in the
boot loader's table, a missing MP response, a failing `pcpu_init_per_core`, and images with which a per-CPU area lies on a
heap page that start-up has not touched. `NoDanglingTimer`, `SleepsLongEnough` and
`SliceNeverLost` are stated until a slice timer is erased twice next to other timers (`LinksSound`); `kernel_sleep` reaches
that state and goes on from it.

`scheduler_cores` starts from `BusyInit`: from the real initial state no thread
ever leaves the boot core, which is `OnlyBootCoreRuns`, checked by `scheduler` and proved. The
code between cores is there all the same, and `BusyInit` gives each of two cores
a first thread in the way `_start` does for one. `BusyNext` leaves out
`core_stops`, since a core may stop taking steps in any state. The placement
invariants are proved from both initial states.

**Fairness.** `Kernel!Fairness`: `WF(CoreStep(c))`, a core that is not stopped
executes its kernel code, and `WF(TimePasses)`. Nothing is assumed
about threads: `Call(c)` is not fair, so `RunnableRuns` holds even if every
other thread computes forever. It excuses a stopped core. `Boot!Fairness`:
each core that runs keeps executing; that an operation fails is never fair, so
`BootCompletes` covers runs with and without failures. The spinlock `m_tss_lock`
is held for two steps by a core that keeps running, so weak fairness of each
core suffices with finitely many contenders.

**Refinements.** All three are proved as well (section 4). `Kernel` implements
`Scheduler`. `Buddy` implements
`PhysSpec` with its set of held blocks as it is: each `phys_alloc` that succeeds hands out a block
that is usable, aligned, large enough and disjoint from the others, and nothing
else changes what callers hold. `RbTree` implements `TimerQueueSpec` with the in-order
sequence of the tree as the queue: linking a node is an `Add`, unlinking an
`Erase`, and every rebalancing step a stutter.

### Disagreements between the code and what it says

| run | property | what happens |
|---|---|---|
| `reschedule_forgotten` | `RescheduleNotForgotten` | a tick between test and decrement in `scheduler_preempt_enable` is not delayed (`scheduler.h:62`) but forgotten |
| `cancel_race` | `DispatchAssertHolds` | the slice expires between `timer.c:75` and `irq_save`: the assertion of `timer_dispatch` fails |
| `exit_deadlock` | `ExitCompletes` | an exiting thread spins for the freelist lock, preemption off, on the core of its preempted holder |
| `fault_deadlock` | `NoLockCycle` | the stack grows in `phys_alloc` below `virt_alloc_range`: the fault handler spins on `m_virt_lock`, which its own core holds |

The same code breaks other properties of the passing runs once a workload that those runs leave out is let in. Each of these
configurations ends in a counterexample (`tlc -config <name>.cfg` with the module of the run that checks the property); `PROJECT.json`
lists none of them as a run:

| configuration (module) | property | what happens |
|---|---|---|
| `free_deadlock` (`MCMemory`) | `NoSelfDeadlock` | the stack grows in `phys_free`, which does not set `m_lock_cpu`: the fault handler spins on the allocator's lock of its own core, although the reserved page is there for growth "inside the physical allocator" (`phys.c:570`) |
| `timer_forgotten` (`Kernel`) | `ArmedWhileTimersRemain` | cancelling a timer that is not the first clears the hardware, as for "no more timers" (`timer.c:88`), with timers left in the tree |
| `deadline_passed` (`Kernel`) | `ArmedWhileTimersRemain` | the deadline set for "the next timer to arrive" (`timer.c:61`) has passed: the local APIC gets a count of 0 and stops |
| `subpage_free` (`MCBuddy`) | `MetadataIsTrue` | returning a block of less than a page marks the whole page free under the others (`phys.c:241`) |
| `size_wraps` (`Support`) | `HandedOutOnce` | a size above 2 GB is not refused (`alloc.c:60`) but gets a block of a small class |
| `boot_reset` (`Boot`) | `FaultsHaveAStack` | a starting core writes to its per-CPU area before it has a TSS: on a fresh heap page the fault has no stack to run on (`intr.c:372`) |
| `boot_no_area` (`Boot`) | `OwnPerCpuArea` | the error of `pcpu_init_per_core` is dropped (`main.c:226`): the core uses the boot core's area and id |
| `boot_no_mp` (`Boot`) | `BootCompletes` | without an answer to the MP request, "just assume we have a single cpu" (`main.c:333`), nobody counts and `_start` waits forever |

Others met while modelling:

* `thread_create` asserts DEAD (`thread.c:74`), but a reused block is zeroed,
  which is IDLE: the first create after an exit panics (`create_assert_fails`).
* A slice that expires between the read of `timer->timers` and its clearing is erased from the tree twice
  (`timer.c:70-80`); next to other timers this may cut off timers or link ones that are gone (`timer_cancel_corrupts`).
* Two cores that fault on the same lazily mapped page each map a page; the
  second replaces the first together with what was written to it
  (`virt.c:355-359`). `Memory` puts the replaced page into `lost`.
* The cleanup of `virt_alloc_range` computes its address from the outer loop
  variable (`virt.c:141-142`): it works at the page that failed, once per page that was mapped.
* `virt_handle_page_fault` does not look at the error code: a write to a
  read-only page of the direct map ("readonly mappings", `phys.c`) makes it writable
  (`lifted` in `Mappings`).
* The shadow is built at `DIRECT_MAP_OFFSET + 16TB` = 0xFFFF9000_00000000, which
  `memory.h:46` gives to managed mappings; the documented place of the copy is 0xFFFFA000_00000000.
* `init_virt_early` compares the kernel's base with 0xFFFFFFFF800000, two digits
  short: the check passes for any higher-half address.
* A boot core that is not first in the boot loader's table shares its id with another core.
* The JIT's code is read-only where it runs and writable in the direct map, whose mapping of usable memory
  `virt_remap_range` does not change (`virt.c:188`, `phys.c:489-512`): `CodeIsReadOnly` is about the kernel image alone.
* `debug_lookup_symbol` starts with `r` one past the last symbol (`debug.c:172`): for an address above the
  last symbol's it may return whatever lies behind the table.
* The backtrace of `default_exception_handler` takes `m_virt_lock`
  (`virt_is_mapped`): a panic raised with that lock held hangs in the handler.
* `memmove` to a higher overlapping address copies in chunks of the distance and
  mishandles a remainder; its callers move whole symbols, where there is none.

## 4. The proofs

Every safety invariant and action property of the passing runs is a theorem, with the hypotheses the
tables and paragraphs below name, except the two of `Symbols`. A run shows a property on one
small instance with TLC, the theorem for every value of the constants.

### Scheduler and kernel

For any set of cores, any pool size, any workload and (for
`Kernel`) either backend and any slice and sleeps `KernelProofs` proves:

* `Inductive`: `SchedSpec => []IInv`, with
  `IInv = TypeOK /\ FlowOK /\ PreemptOK /\ RunsOnOneCore /\ RunnableIsQueuedOnce
  /\ WaitingHasOneWaker /\ BlockHasOneOwner`;
* from it `TypeCorrect`, `RunningThreadsAreCurrent`, `RunnableThreadsAreQueued`,
  `WaitingThreadsHaveAWaker`, `BlocksHaveAnOwner` and `AssertionsNeverFail`;
* `IdleCoreHasNoWork` and `ThreadsStayOnBootCore`, inductive on top of `IInv`;
* `BusyCoresKeepPlaces`, `BusyCoresLoseNoWakeup`: the same
  placement invariants, assertions and wakeups from `BusyInit`, where threads of
  different cores really meet. Their hypothesis `SeveralCores` (two cores and two threads)
  is what `BusyInit` needs to be a state at all;
* `KernelImplementsScheduler`: `Spec => SchedSpec`, hence
  `KernelKeepsScheduler`; `KernelTypeCorrect`; `SleepersAreNotWokenEarly`;
  `SleepTimersDoNotDangle`.

The four placement invariants need each other: a scheduler step moves a thread
from one kind of place to another, and the `<=>` in each is what rules out that the new
place is already taken. `FlowOK` ties program counters to the pointers in use, and
`PreemptOK` ties the preempt count to them: a waker is pinned to its core between
taking the wakeup and queueing the target. The step case has one lemma per
conjunct and one step per action.

The kernel's sleep results rest on a second invariant: a sleeper's timer is in
the tree of the core it parked on and nowhere else, whatever `timer_cancel` and
`timer_dispatch` do to the slice timers, as long as the links are sound. `SleepersAreNotWokenEarly`, `SleepTimersDoNotDangle` and
`SlicesAreNeverLost` claim nothing after a slice timer was erased twice next to other timers.

### Slices and reschedule requests

Three properties are false in general (section 3) and proved where the code keeps them:

| theorem | hypothesis | why it is needed |
|---|---|---|
| `RequestsAreServed` (`RescheduleNotForgotten`) | threads make no `preempt` calls | run `reschedule_forgotten` |
| `SlicesAreNeverLost` (`SliceNeverLost`) | the same; any backend, with sleeps, sound links | the forgotten request consumes the slice |
| `SliceTimersStayArmed` (`ArmedWhileTimersRemain`) | no sleeps, TSC deadline | configurations `timer_forgotten` and `deadline_passed` |

The invariants are `RequestsServed` (a pending request has someone who will look at it:
the scheduler, or the exit of the section that pins the thread), `SliceKept` (where
in `scheduler_schedule` and the handler the slice timer is out of the tree) and
`OnlySlice` (without sleeps a tree holds at most the slice of its core, so the
node that is erased is the first).

### Boot

For any number of cores, any set of failing steps and any order of start-up, `BootInductive`
proves `BootInv`: types, the handshake (`m_smp_count` is the number of cores that
reported, each once), the areas (ids and bases agree for every placed core, areas of
different cores differ) and the TSS (its descriptor belongs to the holder
of `m_tss_lock` between write and load). From it `BootTypeCorrect` and
`CoresHaveTheirTss`. Three more need what the code takes for granted:
`CoresHaveTheirAreas` (`pcpu_init_per_core` does not fail, the boot core is first in the
table), `InitThreadComesLast` (the former), `NoResetWhileStarting` (`AreasOnMappedPages`: the areas of all cores lie on heap
pages that start-up has written to, which is a fact about the image). Configurations `boot_no_area` and `boot_reset` show what
happens otherwise.

### Memory

For any cores, pages, virtual pages and paths `MemoryControl` proves `ControlInv`:
`FlowOK` ties each context's label to its operation, the page it holds and the table
entry it works at, `LocksOK` to the locks, and `JitOK` says that the JIT area is mapped up to the
watermark and each running `virt_alloc_range` up to its progress. From it follow
`MemoryTypeCorrect`, `LocksMutualExclusion`, `FaultNeverSpinsOnItself`, `HandedOutJitIsMapped`
and the action property `FailedRangeNeverFrees`, the general form of the defect of
the cleanup. `EveryPageHasOneOwner` adds `PageHasOneOwner` itself, which is inductive on top of
`ControlInv`: a step moves at most one page, from a place that `FlowOK` says it is in.
`FaultNeverSpinsOnItself` assumes `GrowsOutsideWindows`: no stack grows with the allocator's lock held and no record of it
in `m_lock_cpu`, nor with `m_virt_lock` held. Configurations `free_deadlock` and `fault_deadlock` are the two kinds of window. It is left to show
that growth anywhere else, above all in the search, is served by the reserved page.

### Powers of two, physical memory

`Pow2` is a recursive function, of which the backends know nothing. `PowersProofs` has its laws (it
grows, `Pow2[a + b] = Pow2[a] * Pow2[b]`, smaller powers divide larger ones) with those of multiples and
remainders. Induction is over a set of numbers, never over a predicate: `NumbersBelow` says that a set with 0
and with the successors of its members holds all numbers.

For any sorted memory map without overlaps, any page size, number of levels and sizes, and callers that return
only blocks of a page or more (`PagesReturned`; `subpage_free` shows why), `BuddyProofs` shows that `BuddyInv` is inductive: the bytes added so far are shared out (`SharedOut`: every one is in exactly one
free or held block, blocks are aligned and lie in added pages of one region), and the metadata is
true (`TrueMetadata`: where `free_at_level` reads "free at level l" the block is in that list, and a held
block of a page or more finds its level again). A split hands out the lower half and frees the upper one, a merge replaces
two buddies by the block they partition; adding a page and freeing a block are the same loop. The results are
`BuddyTypeCorrect`, `NoMemoryLostOrShared` and `MetadataStaysTrue`.

`NoFailureWhileMemoryIsFree` needs `MergedInv` too: no block has its buddy beside it in the same list, and a
free block smaller than a page has a holder within its page. Then an aligned free run of any size is covered by
one free block, by induction over its level, and the search of `phys_alloc` finds it.
`BuddyImplementsPhysSpec` assumes `NoTruncation`, that no size exceeds the `SizeBits` bits
`get_level_by_size` looks at: a larger one gets the level of what is left of it, a block that is too small.

### Heap

For any callers, classes and sizes `HeapInv` says what each pointer is: on one free list, with one holder
(a block, or a call under way, which may hold the old and the new block of `mem_realloc`), or above the watermark of its
class. It is inductive for all sizes. That *bytes* have one holder (`HeapHandsOutOnce`) is `FitInv` on top of it: pointers are a
multiple of their class from the start of the region, and a request fits its class. `HeapKeepsData` adds `DataInv`: every byte
of a block holds what its owner wrote, and after the copy of `mem_realloc` so does the new block; the writes of other owners, links
and copies fall into other bytes by `FitInv`. Both need `NoWrap`: no size is above the largest power of two of an `int`. For a larger
one the block is too small for its owner, whose writes, and the `memcpy` of `mem_realloc`, run over the next (`size_wraps`).

### Red-black tree

For any nodes, any keys (equal ones too) and any order of insertions and removals. `RbTreeProofs` shows that
`RbInv` is inductive:

* `Shape`: parents and children name each other, and a rank falls along every link, so there is no cycle. The rank
  is a witness that each change carries along; no induction over the tree is needed.
  Each handler is broken down into a few changes with a known effect: a rotation (`Lifted`), a new leaf
  (`NewNode`), a node with at most one child cut out (`CutOut`), two nodes exchanged (`Renamed`). Removing a node with
  two children is the cut of its successor followed by the exchange of the two, however the code interleaves
  the writes;
* `Loops`: the node and parent of an operation under way are where the code takes them to be;
* `Rules`: no red node below a red one, and heights that count black nodes, again with the heights as a witness. The insertion
  loop may have one red node below a red one, the removal loop one side of one node that is one short.
  Each round closes that exception or moves it to an ancestor.

`RbOrderProofs` is about what the tree means. The recursive functions of the model (`InOrder`, `BlackHeight`, the walks) are
unfolded along the rank. A tree has exactly one family of lists `w` with `w[n]` = list of the left subtree, `n`, list of the
right one (`Lists`); so the order after a change is found by writing its lists down. Rotations keep the order,
the cut leaves one node out, a leaf goes next to its parent. On the way down (`OnWay`) the list is what was passed on the
left, the subtree ahead, what was passed on the right, with no key greater on the left and only greater ones on the
right. `OrdInv` (keys in order, the way down, `leftmost` first) is inductive and gives the refinement
`RbImplementsTimerQueue`. `TreeStaysRedBlack` says that the heights of `Rules` are what `BlackHeight` counts, and
`WalksVisitInOrder` that the climb of `rb_next`, `rb_prev` and `rb_next_postorder` ends at the neighbour in the list.

### Mappings

For any layout, kernel image and memory map `MapInductive` proves that the
tables are well-formed, that only a top-level entry and its copy share a table,
and that the copies made so far are copies. Mapping a range is a recursive function of its length;
what it does (`MapRange`) is proved by induction over the set of lengths for which it
holds. `TheShadowFollows` is then about `Translate` alone.
`CodeStaysReadOnly` needs two more conjuncts: `PagesOK` (kernel pages are at their frames and
not both writable and executable; the pages below are not executable, and show their own frame or a usable one, as
do those of the JIT) and `CoveredOK` (the direct map covers the memory map as far as it was
read, so a fault over code finds a read-only page, and is recorded in `lifted`). Its hypothesis,
`Protects`, is about the boot loader: code is in the memory map, and every mapped entry it is in has
a read-only type. Limine reports the kernel that way; a map that reports code
as usable memory makes it writable through the direct map. The theorem is about the code of the kernel image;
that of the JIT is in usable memory and so stays writable in the direct map.

### Assumptions

`PlatformAssumption` (BSP is a core, the pool is not empty, ids and
cores are distinct), `SchedulerAssumption`, `CallbackAssumption` (a callback that is given is not
NULL), `TimerAssumption`, `KernelAssumption`, `MemoryAssumption`
(areas and paths are well-formed, the JIT region is not empty and lies in its own area),
`BootAssumption`, `MappingsAssumption`, `ImagesAssumption` (the segments fit the kernel's top-level entry,
the memory map ends below the shadow), `BuddyAssumption` (the memory map is sorted, without overlaps
or empty entries, as Limine delivers it; the page level is one of the levels), `HeapAssumption` (the classes fit an `int`, a region
holds a whole number of blocks of each class, the two heaps are apart), `RbAssumption` (NULL is not a node, keys are
integers). TLC evaluates all of them on the runs. `NoTruncation`, `NoWrap`, `PagesReturned`, `GrowsOutsideWindows`, `AreasOnMappedPages`, `Protects` and the hypotheses
in the tables above are of single theorems.

### Only model-checked

* `RunnableRuns`, `BootCompletes`: liveness under fairness is beyond the prover.
* `TableIsSorted`, `LookupFinds` (`Symbols`): the quicksort, `memmove` and the binary search are RECURSIVE operators over a
  cell array, which the prover's backends cannot be used with.

## 5. What is abstracted, what is left out

* The freelist is a set (its order decides only which id is reused); a run queue
  keeps its order.
* Registers, extended state and stacks are not modelled. `switch_to_scheduler`
  (`thread.S:67`) loads the scheduler stack into `rax` rather than `rsp`, so
  the scheduler goes on running on the stack of the thread it left; this matters
  only once threads run on several cores.
* `thread_switch_status` spins while the status is not the expected one; the
  action is then not enabled. `AssertionsHold` shows it never has to.
* `park_callback` functions other than `sleep_park_callback` are the workload's:
  one that publishes and succeeds, one that fails, none.
* Physical memory is bytes in `Buddy` and whole pages in `Memory`; the upper three
  levels of a walk are as many table entries as `Path` lists. The contents
  of pages, caching types and translations cached by other cores are not
  modelled.
* The zeroing of per-CPU areas: `pcpu_init_per_core` leaves an area as the heap returns
  it, except for what it writes; `Boot` marks that as -1.
* The red-black tree's augmentation callbacks, `rb_replace_node` and `rb_find`
  have no caller in the kernel.
* The collector, the runtime's file, string and tracing callbacks and
  `phys_reclaim_bootloader` have no code in the repository yet.

Not modelled: logging and printf (output; printf is third-party), the other
entries of the descriptor tables and the IDT (constants), ACPI parsing, TSC and APIC
calibration (firmware and hardware measurements), the preprocessor
library, the register dump of the exception handler. None has state that a
property could relate to another part.

## 6. What is left

Every component that keeps state is modelled, and every safety property but those of `Symbols` is proved. What
could be added, in order of what it would say about the system:

1. `Symbols` with its loops as steps, as `RbTree` has them, instead of recursive operators; the sortedness of the table
   would then have an inductive invariant.
2. The translations that other cores keep cached after `virt_remap_range`, as a set per core in `Memory`.
3. Stacks and register frames in `Thread`, once threads leave the boot core.
