----------------------------- MODULE Scheduler -----------------------------
(***************************************************************************)
(* The per-core scheduler (scheduler.c), the interrupt that drives it      *)
(* (timer_interrupt_handler) and the thread pool it returns exited threads *)
(* to.  Each core is a sequential process with an explicit program         *)
(* counter:                                                                *)
(*                                                                         *)
(*   pc[c] = "thread"   c runs current[c]; tpc says where in the kernel    *)
(*                      API that thread is ("run" = in its own code)       *)
(*   otherwise          c is inside the scheduler, preempt_count[c] = 1    *)
(*   irq[c]             the timer interrupt handler runs on top of either; *)
(*                      the gate keeps IF clear, so it is never nested     *)
(*                                                                         *)
(* A step is the code between two points at which another core or an       *)
(* interrupt can be observed.  The queue of a core is only touched by that *)
(* core with interrupts off, hence queue operations are atomic.            *)
(*                                                                         *)
(* The threads are an arbitrary workload: one that runs may make any call  *)
(* of the scheduler API listed in Calls, with the preconditions the API    *)
(* asserts, or do nothing.  wakeable holds the right to wake a parked      *)
(* thread exactly once, which a park callback publishes and the creator of *)
(* a thread obtains; scheduler_wakeup_thread uses one up.                  *)
(***************************************************************************)
EXTENDS Thread, Sequences

CONSTANTS
    Calls,      \* the API calls the workload makes, a subset of ApiCalls
    MaxNesting  \* bound on nested scheduler_preempt_disable calls of a thread

ApiCalls == {"yield", "reschedule", "park", "park_null", "park_fail", "sleep",
             "exit", "create", "wakeup", "preempt"}

ASSUME SchedulerAssumption == Calls \subseteq ApiCalls /\ MaxNesting \in Nat

VARIABLES
    \* core_scheduler_context_t, one per core
    queue, current, preempt_count, want_reschedule, parked, park_callback,
    \* where each core is: program counter, the local `thread` of the
    \* scheduler function it is in, in an interrupt, stopped by a panic
    pc, held, irq, halted,
    \* where each thread is inside the API, and the thread it operates on
    tpc, target,
    \* who may be woken: by a thread, by the sleep timer of a core
    wakeable, sleeping

coreVars  == <<queue, current, preempt_count, want_reschedule, parked, park_callback>>
flowVars  == <<pc, held, irq, halted>>
apiVars   == <<tpc, target>>
wakeVars  == <<wakeable, sleeping>>
schedVars == <<threadVars, coreVars, flowVars, apiVars, wakeVars>>

CoreLabels ==
    {"thread", "yield", "park", "park_callback", "exit", "exit_free", "exit_lock",
     "cancel", "prepare", "pop", "core_park", "execute", "execute_inherit"}
ThreadLabels == {"run", "alloc", "alloc_locked", "create", "wake", "enable", "enable_dec"}
Callbacks    == {"publish", "fail", "sleep"}

(* A park callback that is given is not the null pointer.                  *)
ASSUME CallbackAssumption == NULL \notin Callbacks

(***************************************************************************)
(* scheduler_init_per_core on every core, then scheduler_start_per_core,   *)
(* which jumps into scheduler_schedule with a preempt count of 1.          *)
(***************************************************************************)
scheduler_init_per_core ==
    /\ current = [c \in Cores |-> NULL]
    /\ preempt_count = [c \in Cores |-> 1]
    /\ park_callback = [c \in Cores |-> NULL]
    /\ pc = [c \in Cores |-> "cancel"]
    /\ held = [c \in Cores |-> NULL]
    /\ irq = [c \in Cores |-> FALSE]
    /\ halted = [c \in Cores |-> FALSE]

(***************************************************************************)
(* The state after _start: the boot core has created the init thread       *)
(* (thread 0) and woken it, which queued it there and asked for a          *)
(* reschedule.  The parker is memory phys_alloc does not clear.            *)
(***************************************************************************)
SchedInit ==
    /\ scheduler_init_per_core
    /\ status = [t \in Threads |-> IF t = 0 THEN "RUNNABLE" ELSE "IDLE"]
    /\ m_thread_top = 1
    /\ m_thread_freelist = {}
    /\ m_thread_freelist_lock = NULL
    /\ queue = [c \in Cores |-> IF c = BSP THEN <<0>> ELSE <<>>]
    /\ want_reschedule = [c \in Cores |-> c = BSP]
    /\ parked \in {p \in [Cores -> BOOLEAN] : ~p[BSP]}
    /\ tpc = [t \in Threads |-> "run"]
    /\ target = [t \in Threads |-> NULL]
    /\ wakeable = {}
    /\ sleeping = [t \in Threads |-> NULL]

At(c, label)      == ~irq[c] /\ ~halted[c] /\ pc[c] = label
InCall(c, label)  == At(c, "thread") /\ tpc[current[c]] = label
Calling(c, call)  == call \in Calls /\ InCall(c, "run")
InIrq(c)          == irq[c] /\ ~halted[c]
Goto(c, label)    == pc' = [pc EXCEPT ![c] = label]
ThreadGoto(t, label) == tpc' = [tpc EXCEPT ![t] = label]

----------------------------------------------------------------------------
(* Entering the scheduler: scheduler_call and scheduler_do_call.           *)

scheduler_call(c, label) ==
    /\ preempt_count' = [preempt_count EXCEPT ![c] = @ + 1]
    /\ Goto(c, label)
    /\ UNCHANGED <<threadVars, queue, current, want_reschedule, parked, held, irq,
                   halted, apiVars, wakeVars>>

scheduler_yield(c) ==
    /\ Calling(c, "yield")
    /\ preempt_count[c] = 0
    /\ scheduler_call(c, "yield")
    /\ UNCHANGED park_callback

scheduler_exit(c) ==
    /\ Calling(c, "exit")
    /\ preempt_count[c] = 0
    /\ scheduler_call(c, "exit")
    /\ UNCHANGED park_callback

scheduler_park(c, call, callback) ==
    /\ Calling(c, call)
    /\ preempt_count[c] = 0
    /\ park_callback' = [park_callback EXCEPT ![c] = callback]
    /\ scheduler_call(c, "park")

(* Mutant: the request does not pull the core out of its sleep loop.       *)
request_reschedule_no_unpark(c) ==
    /\ want_reschedule' = [want_reschedule EXCEPT ![c] = TRUE]
    /\ UNCHANGED parked

(* The branch of scheduler_reschedule taken while preemption is disabled:  *)
(* remember the request and pull the core out of its sleep loop.           *)
request_reschedule(c) ==
    /\ want_reschedule' = [want_reschedule EXCEPT ![c] = TRUE]
    /\ parked' = [parked EXCEPT ![c] = FALSE]

scheduler_reschedule_now(c) ==
    /\ Calling(c, "reschedule")
    /\ preempt_count[c] = 0
    /\ scheduler_call(c, "yield")
    /\ UNCHANGED park_callback

scheduler_reschedule_later(c) ==
    /\ Calling(c, "reschedule")
    /\ preempt_count[c] # 0
    /\ request_reschedule(c)
    /\ UNCHANGED <<threadVars, queue, current, preempt_count, park_callback, flowVars,
                   apiVars, wakeVars>>

----------------------------------------------------------------------------
(* Inside the scheduler: the three ways in, then scheduler_schedule.       *)

(* Mutant: list_add for list_add_tail, the thread yields to itself.        *)
scheduler_yield_internal_head(c) ==
    /\ At(c, "yield")
    /\ thread_switch_status(current[c], "RUNNING", "RUNNABLE")
    /\ current' = [current EXCEPT ![c] = NULL]
    /\ queue' = [queue EXCEPT ![c] = <<current[c]>> \o @]
    /\ Goto(c, "cancel")
    /\ UNCHANGED <<poolVars, preempt_count, want_reschedule, parked, park_callback,
                   held, irq, halted, apiVars, wakeVars>>

scheduler_yield_internal(c) ==
    /\ At(c, "yield")
    /\ thread_switch_status(current[c], "RUNNING", "RUNNABLE")
    /\ current' = [current EXCEPT ![c] = NULL]
    /\ queue' = [queue EXCEPT ![c] = Append(@, current[c])]
    /\ Goto(c, "cancel")
    /\ UNCHANGED <<poolVars, preempt_count, want_reschedule, parked, park_callback,
                   held, irq, halted, apiVars, wakeVars>>

scheduler_park_internal(c) ==
    /\ At(c, "park") /\ park_callback[c] # NULL
    /\ thread_switch_status(current[c], "RUNNING", "WAITING")
    /\ current' = [current EXCEPT ![c] = NULL]
    /\ held' = [held EXCEPT ![c] = current[c]]
    /\ Goto(c, "park_callback")
    /\ UNCHANGED <<poolVars, queue, preempt_count, want_reschedule, parked,
                   park_callback, irq, halted, apiVars, wakeVars>>

(* Without a callback the parked thread belongs to whoever knows of it.    *)
scheduler_park_internal_null(c) ==
    /\ At(c, "park") /\ park_callback[c] = NULL
    /\ thread_switch_status(current[c], "RUNNING", "WAITING")
    /\ current' = [current EXCEPT ![c] = NULL]
    /\ wakeable' = wakeable \cup {current[c]}
    /\ Goto(c, "cancel")
    /\ UNCHANGED <<poolVars, queue, preempt_count, want_reschedule, parked,
                   park_callback, held, irq, halted, apiVars, sleeping>>

(* The callback publishes the thread to its wakers and returns true.       *)
park_callback_publish(c) ==
    /\ At(c, "park_callback") /\ park_callback[c] = "publish"
    /\ wakeable' = wakeable \cup {held[c]}
    /\ held' = [held EXCEPT ![c] = NULL]
    /\ park_callback' = [park_callback EXCEPT ![c] = NULL]
    /\ Goto(c, "cancel")
    /\ UNCHANGED <<threadVars, queue, current, preempt_count, want_reschedule, parked,
                   irq, halted, apiVars, sleeping>>

(* sleep_park_callback arms the sleep timer of the thread on this core.    *)
sleep_park_callback(c) ==
    /\ At(c, "park_callback") /\ park_callback[c] = "sleep"
    /\ sleeping' = [sleeping EXCEPT ![held[c]] = c]
    /\ held' = [held EXCEPT ![c] = NULL]
    /\ park_callback' = [park_callback EXCEPT ![c] = NULL]
    /\ Goto(c, "cancel")
    /\ UNCHANGED <<threadVars, queue, current, preempt_count, want_reschedule, parked,
                   irq, halted, apiVars, wakeable>>

(* Mutant: the result of the park callback is ignored.                     *)
park_callback_fail_ignored(c) ==
    /\ At(c, "park_callback") /\ park_callback[c] = "fail"
    /\ held' = [held EXCEPT ![c] = NULL]
    /\ park_callback' = [park_callback EXCEPT ![c] = NULL]
    /\ Goto(c, "cancel")
    /\ UNCHANGED <<threadVars, queue, current, preempt_count, want_reschedule, parked,
                   irq, halted, apiVars, wakeVars>>

(* The callback returns false: the thread runs on, on the same slice.      *)
park_callback_fail(c) ==
    /\ At(c, "park_callback") /\ park_callback[c] = "fail"
    /\ thread_switch_status(held[c], "WAITING", "RUNNABLE")
    /\ park_callback' = [park_callback EXCEPT ![c] = NULL]
    /\ Goto(c, "execute_inherit")
    /\ UNCHANGED <<poolVars, queue, current, preempt_count, want_reschedule, parked,
                   held, irq, halted, apiVars, wakeVars>>

(* Mutant: scheduler_exit_internal does not drop the current thread.       *)
scheduler_exit_internal_no_drop(c) ==
    /\ At(c, "exit")
    /\ thread_switch_status(current[c], "RUNNING", "DEAD")
    /\ held' = [held EXCEPT ![c] = current[c]]
    /\ Goto(c, "exit_free")
    /\ UNCHANGED <<poolVars, coreVars, irq, halted, apiVars, wakeVars>>

scheduler_exit_internal(c) ==
    /\ At(c, "exit")
    /\ thread_switch_status(current[c], "RUNNING", "DEAD")
    /\ current' = [current EXCEPT ![c] = NULL]
    /\ held' = [held EXCEPT ![c] = current[c]]
    /\ Goto(c, "exit_free")
    /\ UNCHANGED <<poolVars, queue, preempt_count, want_reschedule, parked,
                   park_callback, irq, halted, apiVars, wakeVars>>

exit_thread_free_clear(c) ==
    /\ At(c, "exit_free")
    /\ thread_free_clear(held[c])
    /\ Goto(c, "exit_lock")
    /\ UNCHANGED <<coreVars, held, irq, halted, apiVars, wakeVars>>

exit_thread_free_link(c) ==
    /\ At(c, "exit_lock")
    /\ thread_free_link(held[c])
    /\ held' = [held EXCEPT ![c] = NULL]
    /\ Goto(c, "cancel")
    /\ UNCHANGED <<coreVars, irq, halted, apiVars, wakeVars>>

(* timer_cancel of the slice timer; Kernel adds what it does to the tree.  *)
schedule_cancel(c) ==
    /\ At(c, "cancel")
    /\ Goto(c, "prepare")
    /\ UNCHANGED <<threadVars, coreVars, held, irq, halted, apiVars, wakeVars>>

core_prepare_park(c) ==
    /\ At(c, "prepare")
    /\ parked' = [parked EXCEPT ![c] = TRUE]
    /\ Goto(c, "pop")
    /\ UNCHANGED <<threadVars, queue, current, preempt_count, want_reschedule,
                   park_callback, held, irq, halted, apiVars, wakeVars>>

schedule_pop_empty(c) ==
    /\ At(c, "pop")
    /\ queue[c] = <<>>
    /\ Goto(c, "core_park")
    /\ UNCHANGED <<threadVars, coreVars, held, irq, halted, apiVars, wakeVars>>

(* Mutant: the thread is looked at but not unlinked.                       *)
schedule_pop_peek(c) ==
    /\ At(c, "pop")
    /\ queue[c] # <<>>
    /\ held' = [held EXCEPT ![c] = Head(queue[c])]
    /\ parked' = [parked EXCEPT ![c] = FALSE]
    /\ Goto(c, "execute")
    /\ UNCHANGED <<threadVars, queue, current, preempt_count, want_reschedule,
                   park_callback, irq, halted, apiVars, wakeVars>>

schedule_pop(c) ==
    /\ At(c, "pop")
    /\ queue[c] # <<>>
    /\ held' = [held EXCEPT ![c] = Head(queue[c])]
    /\ queue' = [queue EXCEPT ![c] = Tail(@)]
    /\ parked' = [parked EXCEPT ![c] = FALSE]
    /\ Goto(c, "execute")
    /\ UNCHANGED <<threadVars, current, preempt_count, want_reschedule, park_callback,
                   irq, halted, apiVars, wakeVars>>

(* The monitor/mwait loop ends only once parked was cleared.               *)
core_park(c) ==
    /\ At(c, "core_park")
    /\ ~parked[c]
    /\ Goto(c, "prepare")
    /\ UNCHANGED <<threadVars, coreVars, held, irq, halted, apiVars, wakeVars>>

(* Interrupts are off from irq_disable to the sti of thread_resume_finish. *)
scheduler_execute(c) ==
    /\ At(c, "execute") \/ At(c, "execute_inherit")
    /\ want_reschedule' = [want_reschedule EXCEPT ![c] = FALSE]
    /\ preempt_count' = [preempt_count EXCEPT ![c] = 0]
    /\ current' = [current EXCEPT ![c] = held[c]]
    /\ thread_switch_status(held[c], "RUNNABLE", "RUNNING")
    /\ held' = [held EXCEPT ![c] = NULL]
    /\ Goto(c, "thread")
    /\ UNCHANGED <<poolVars, queue, parked, park_callback, irq, halted, apiVars, wakeVars>>

SchedulerStep(c) ==
    \/ scheduler_yield_internal(c)
    \/ scheduler_park_internal(c)
    \/ scheduler_park_internal_null(c)
    \/ park_callback_publish(c)
    \/ park_callback_fail(c)
    \/ scheduler_exit_internal(c)
    \/ exit_thread_free_clear(c)
    \/ exit_thread_free_link(c)
    \/ core_prepare_park(c)
    \/ schedule_pop_empty(c)
    \/ schedule_pop(c)
    \/ core_park(c)

(* The scheduler steps that touch a timer.                                 *)
TimedSchedulerStep(c) ==
    \/ sleep_park_callback(c)
    \/ schedule_cancel(c)
    \/ scheduler_execute(c)

----------------------------------------------------------------------------
(* The API as the running thread executes it.                              *)

scheduler_preempt_disable(c) ==
    /\ Calling(c, "preempt")
    /\ preempt_count[c] < MaxNesting
    /\ preempt_count' = [preempt_count EXCEPT ![c] = @ + 1]
    /\ UNCHANGED <<threadVars, queue, current, want_reschedule, parked, park_callback,
                   flowVars, apiVars, wakeVars>>

scheduler_preempt_enable(c) ==
    /\ Calling(c, "preempt")
    /\ preempt_count[c] > 0
    /\ ThreadGoto(current[c], "enable")
    /\ UNCHANGED <<threadVars, coreVars, flowVars, target, wakeVars>>

(* Mutant: scheduler_yield_internal is entered through scheduler_do_call   *)
(* with one preempt count too many.                                        *)
preempt_enable_yield_counted(c) ==
    /\ InCall(c, "enable")
    /\ preempt_count[c] = 1 /\ want_reschedule[c]
    /\ preempt_count' = [preempt_count EXCEPT ![c] = @ + 1]
    /\ ThreadGoto(current[c], "run")
    /\ Goto(c, "yield")
    /\ UNCHANGED <<threadVars, queue, current, want_reschedule, parked, park_callback,
                   held, irq, halted, target, wakeVars>>

(* The test of scheduler_preempt_enable: a pending request is served now.  *)
preempt_enable_yield(c) ==
    /\ InCall(c, "enable")
    /\ preempt_count[c] = 1 /\ want_reschedule[c]
    /\ ThreadGoto(current[c], "run")
    /\ Goto(c, "yield")
    /\ UNCHANGED <<threadVars, coreVars, held, irq, halted, target, wakeVars>>

preempt_enable_skip(c) ==
    /\ InCall(c, "enable")
    /\ ~(preempt_count[c] = 1 /\ want_reschedule[c])
    /\ ThreadGoto(current[c], "enable_dec")
    /\ UNCHANGED <<threadVars, coreVars, flowVars, target, wakeVars>>

(* Mutant: the count is given up twice, as when the yield falls through.   *)
preempt_enable_dec_twice(c) ==
    /\ InCall(c, "enable_dec")
    /\ preempt_count' = [preempt_count EXCEPT ![c] = @ - 2]
    /\ ThreadGoto(current[c], "run")
    /\ UNCHANGED <<threadVars, queue, current, want_reschedule, parked, park_callback,
                   flowVars, target, wakeVars>>

(* The decrement is a separate step: an interrupt may come in between.     *)
preempt_enable_dec(c) ==
    /\ InCall(c, "enable_dec")
    /\ preempt_count' = [preempt_count EXCEPT ![c] = @ - 1]
    /\ ThreadGoto(current[c], "run")
    /\ UNCHANGED <<threadVars, queue, current, want_reschedule, parked, park_callback,
                   flowVars, target, wakeVars>>

(* scheduler_wakeup_thread: disable preemption, then make the target       *)
(* runnable at the head of the caller's own queue and ask for a            *)
(* reschedule, which the final scheduler_preempt_enable serves.            *)
scheduler_wakeup_thread(c) ==
    /\ Calling(c, "wakeup")
    /\ preempt_count' = [preempt_count EXCEPT ![c] = @ + 1]
    /\ \E u \in wakeable :
         /\ wakeable' = wakeable \ {u}
         /\ target' = [target EXCEPT ![current[c]] = u]
    /\ ThreadGoto(current[c], "wake")
    /\ UNCHANGED <<threadVars, queue, current, want_reschedule, parked, park_callback,
                   flowVars, sleeping>>

(* Mutant: the woken thread may be queued on any core.                     *)
enqueue_woken_anywhere(c, u) ==
    /\ thread_switch_status(u, "WAITING", "RUNNABLE")
    /\ \E d \in Cores : queue' = [queue EXCEPT ![d] = <<u>> \o @] /\ request_reschedule(d)

enqueue_woken(c, u) ==
    /\ thread_switch_status(u, "WAITING", "RUNNABLE")
    /\ queue' = [queue EXCEPT ![c] = <<u>> \o @]
    /\ request_reschedule(c)

wakeup_enqueue(c) ==
    /\ InCall(c, "wake")
    /\ enqueue_woken(c, target[current[c]])
    /\ ThreadGoto(current[c], "enable")
    /\ target' = [target EXCEPT ![current[c]] = NULL]
    /\ UNCHANGED <<poolVars, current, preempt_count, park_callback, flowVars, wakeVars>>

(* thread_create runs with preemption enabled, its critical section too.   *)
thread_create(c) ==
    /\ Calling(c, "create")
    /\ ThreadGoto(current[c], "alloc")
    /\ UNCHANGED <<threadVars, coreVars, flowVars, target, wakeVars>>

create_lock(c) ==
    /\ InCall(c, "alloc")
    /\ thread_alloc_lock(current[c])
    /\ ThreadGoto(current[c], "alloc_locked")
    /\ UNCHANGED <<coreVars, flowVars, target, wakeVars>>

create_alloc(c) ==
    /\ InCall(c, "alloc_locked")
    /\ \E u \in Threads :
         /\ thread_alloc_reuse(u) \/ thread_alloc_grow(u)
         /\ target' = [target EXCEPT ![current[c]] = u]
    /\ ThreadGoto(current[c], "create")
    /\ UNCHANGED <<coreVars, flowVars, wakeVars>>

(* With no block left thread_alloc writes through a NULL pointer: the page *)
(* fault is not handled and the core stops, the lock still taken.          *)
create_exhausted(c) ==
    /\ InCall(c, "alloc_locked")
    /\ thread_alloc_exhausted
    /\ halted' = [halted EXCEPT ![c] = TRUE]
    /\ UNCHANGED <<threadVars, coreVars, pc, held, irq, apiVars, wakeVars>>

create_finish(c) ==
    /\ InCall(c, "create")
    /\ thread_switch_status(target[current[c]], "DEAD", "WAITING")
    /\ wakeable' = wakeable \cup {target[current[c]]}
    /\ target' = [target EXCEPT ![current[c]] = NULL]
    /\ ThreadGoto(current[c], "run")
    /\ UNCHANGED <<poolVars, coreVars, flowVars, sleeping>>

create_assert_fails(c) ==
    /\ InCall(c, "create")
    /\ status[target[current[c]]] # "DEAD"
    /\ halted' = [halted EXCEPT ![c] = TRUE]
    /\ UNCHANGED <<threadVars, coreVars, pc, held, irq, apiVars, wakeVars>>

ThreadCall(c) ==
    \/ scheduler_yield(c)
    \/ scheduler_exit(c)
    \/ scheduler_park(c, "park", "publish")
    \/ scheduler_park(c, "park_null", NULL)
    \/ scheduler_park(c, "park_fail", "fail")
    \/ scheduler_park(c, "sleep", "sleep")
    \/ scheduler_reschedule_now(c)
    \/ scheduler_reschedule_later(c)
    \/ scheduler_preempt_disable(c)
    \/ scheduler_preempt_enable(c)
    \/ scheduler_wakeup_thread(c)
    \/ thread_create(c)

ThreadStep(c) ==
    \/ preempt_enable_yield(c)
    \/ preempt_enable_skip(c)
    \/ preempt_enable_dec(c)
    \/ wakeup_enqueue(c)
    \/ create_lock(c)
    \/ create_alloc(c)
    \/ create_exhausted(c)
    \/ create_finish(c)
    \/ create_assert_fails(c)

----------------------------------------------------------------------------
(* timer_interrupt_handler.  Here any timer of the core may have expired;  *)
(* Kernel restricts the callbacks to those timer_dispatch finds due.       *)

timer_interrupt_handler(c) ==
    /\ ~irq[c] /\ ~halted[c]
    /\ irq' = [irq EXCEPT ![c] = TRUE]
    /\ preempt_count' = [preempt_count EXCEPT ![c] = @ + 1]
    /\ UNCHANGED <<threadVars, queue, current, want_reschedule, parked, park_callback,
                   pc, held, halted, apiVars, wakeVars>>

scheduler_timer_tick(c) ==
    /\ InIrq(c)
    /\ request_reschedule(c)
    /\ UNCHANGED <<threadVars, queue, current, preempt_count, park_callback, flowVars,
                   apiVars, wakeVars>>

(* Its own preempt_disable / preempt_enable pair cancels out: the handler  *)
(* holds preempt_count above zero.                                         *)
sleep_wakeup_thread(c, t) ==
    /\ InIrq(c)
    /\ sleeping[t] = c
    /\ sleeping' = [sleeping EXCEPT ![t] = NULL]
    /\ enqueue_woken(c, t)
    /\ UNCHANGED <<poolVars, current, preempt_count, park_callback, flowVars, apiVars,
                   wakeable>>

irq_exit_yield(c) ==
    /\ InIrq(c)
    /\ preempt_count[c] = 1 /\ want_reschedule[c]
    /\ irq' = [irq EXCEPT ![c] = FALSE]
    /\ Goto(c, "yield")
    /\ UNCHANGED <<threadVars, coreVars, held, halted, apiVars, wakeVars>>

irq_exit_return(c) ==
    /\ InIrq(c)
    /\ ~(preempt_count[c] = 1 /\ want_reschedule[c])
    /\ irq' = [irq EXCEPT ![c] = FALSE]
    /\ preempt_count' = [preempt_count EXCEPT ![c] = @ - 1]
    /\ UNCHANGED <<threadVars, queue, current, want_reschedule, parked, park_callback,
                   pc, held, halted, apiVars, wakeVars>>

(* A panic or a fault in the timer code, from timer_cancel or from the     *)
(* handler: default_exception_handler does not return.  Kernel says when.  *)
core_stops(c) ==
    /\ At(c, "cancel") \/ InIrq(c)
    /\ halted' = [halted EXCEPT ![c] = TRUE]
    /\ UNCHANGED <<threadVars, coreVars, pc, held, irq, apiVars, wakeVars>>

IrqStep(c) ==
    \/ scheduler_timer_tick(c)
    \/ \E t \in Threads : sleep_wakeup_thread(c, t)
    \/ irq_exit_yield(c)
    \/ irq_exit_return(c)

SchedNext ==
    \E c \in Cores :
        \/ SchedulerStep(c)
        \/ TimedSchedulerStep(c)
        \/ ThreadCall(c)
        \/ ThreadStep(c)
        \/ timer_interrupt_handler(c)
        \/ IrqStep(c)
        \/ core_stops(c)

SchedSpec == SchedInit /\ [][SchedNext]_schedVars

----------------------------------------------------------------------------
(* Every variable stays in its domain.                                     *)
TypeOK ==
    /\ ThreadTypeOK
    /\ queue \in [Cores -> Seq(Threads)]
    /\ current \in [Cores -> Threads \cup {NULL}]
    /\ preempt_count \in [Cores -> Nat]
    /\ want_reschedule \in [Cores -> BOOLEAN]
    /\ parked \in [Cores -> BOOLEAN]
    /\ park_callback \in [Cores -> Callbacks \cup {NULL}]
    /\ pc \in [Cores -> CoreLabels]
    /\ held \in [Cores -> Threads \cup {NULL}]
    /\ irq \in [Cores -> BOOLEAN]
    /\ halted \in [Cores -> BOOLEAN]
    /\ tpc \in [Threads -> ThreadLabels]
    /\ target \in [Threads -> Threads \cup {NULL}]
    /\ wakeable \in SUBSET Threads
    /\ sleeping \in [Threads -> Cores \cup {NULL}]

----------------------------------------------------------------------------
(* Where a thread can be found.                                            *)

Slots(c)         == 1 .. Len(queue[c])
HeldToRun(c, t)  == pc[c] \in {"execute", "execute_inherit"} /\ held[c] = t
HeldToPark(c, t) == pc[c] = "park_callback" /\ held[c] = t
HeldToFree(c, t) == pc[c] \in {"exit_free", "exit_lock"} /\ held[c] = t
BeingWoken(u, t) == tpc[u] = "wake" /\ target[u] = t
BeingMade(u, t)  == tpc[u] = "create" /\ target[u] = t
Unused(t)        == t >= m_thread_top

(***************************************************************************)
(* A thread is RUNNING exactly while it is the current thread of a core,   *)
(* and never of two: whatever order wakeups, preemptions and parks on      *)
(* different cores come in, scheduler_execute never resumes a thread that  *)
(* another core still runs.                                                *)
(***************************************************************************)
RunsOnOneCore ==
    /\ \A t \in Threads : status[t] = "RUNNING" <=> \E c \in Cores : current[c] = t
    /\ \A c, d \in Cores : current[c] = current[d] /\ current[c] # NULL => c = d

(***************************************************************************)
(* A thread is RUNNABLE exactly while it sits in one run queue, or has     *)
(* been popped and is about to be resumed; it is in one slot of one queue  *)
(* only, so that its intrusive scheduler_node is never linked twice.       *)
(***************************************************************************)
QueuedOnce(t) ==
    /\ status[t] = "RUNNABLE" <=>
          \/ \E c \in Cores : \E i \in Slots(c) : queue[c][i] = t
          \/ \E c \in Cores : HeldToRun(c, t)
    /\ \A c, d \in Cores : \A i \in Slots(c), j \in Slots(d) :
          queue[c][i] = t /\ queue[d][j] = t => c = d /\ i = j
    /\ \A c, d \in Cores : HeldToRun(c, t) /\ HeldToRun(d, t) => c = d
    /\ \A c, d \in Cores : \A i \in Slots(c) : queue[c][i] = t => ~HeldToRun(d, t)

RunnableIsQueuedOnce == \A t \in Threads : QueuedOnce(t)

(***************************************************************************)
(* Every WAITING thread has exactly one party that will wake it or is      *)
(* about to hand it over: its park callback, a published wake right, its   *)
(* sleep timer, or a waker already in scheduler_wakeup_thread.  None is a  *)
(* lost thread; two would trip the assertion of thread_switch_status.      *)
(***************************************************************************)
OneWaker(t) ==
    /\ status[t] = "WAITING" <=>
          \/ t \in wakeable
          \/ sleeping[t] # NULL
          \/ \E c \in Cores : HeldToPark(c, t)
          \/ \E u \in Threads : BeingWoken(u, t)
    /\ t \in wakeable => sleeping[t] = NULL
    /\ \A c, d \in Cores : HeldToPark(c, t) /\ HeldToPark(d, t) => c = d
    /\ \A u, v \in Threads : BeingWoken(u, t) /\ BeingWoken(v, t) => u = v
    /\ \A c \in Cores : HeldToPark(c, t) => t \notin wakeable /\ sleeping[t] = NULL
    /\ \A u \in Threads : BeingWoken(u, t) => t \notin wakeable /\ sleeping[t] = NULL
    /\ \A c \in Cores, u \in Threads : ~(HeldToPark(c, t) /\ BeingWoken(u, t))

WaitingHasOneWaker == \A t \in Threads : OneWaker(t)

(***************************************************************************)
(* A thread block that was released, never handed out, being released or   *)
(* being set up by thread_create is IDLE or DEAD, and is in only one of    *)
(* these places: the freelist never yields a block twice, and no block     *)
(* that is still queued, running or parked is handed to thread_create.     *)
(***************************************************************************)
OneOwner(t) ==
    /\ status[t] \in {"IDLE", "DEAD"} <=>
          \/ Unused(t)
          \/ t \in m_thread_freelist
          \/ \E c \in Cores : HeldToFree(c, t)
          \/ \E u \in Threads : BeingMade(u, t)
    /\ Unused(t) => status[t] = "IDLE" /\ t \notin m_thread_freelist
    /\ \A c, d \in Cores : HeldToFree(c, t) /\ HeldToFree(d, t) => c = d
    /\ \A u, v \in Threads : BeingMade(u, t) /\ BeingMade(v, t) => u = v
    /\ \A c \in Cores : HeldToFree(c, t) => ~Unused(t) /\ t \notin m_thread_freelist
    /\ \A u \in Threads : BeingMade(u, t) => ~Unused(t) /\ t \notin m_thread_freelist
    /\ \A c \in Cores, u \in Threads : ~(HeldToFree(c, t) /\ BeingMade(u, t))

BlockHasOneOwner == \A t \in Threads : OneOwner(t)

(***************************************************************************)
(* An idle core never sleeps on work: once scheduler_schedule has seen its *)
(* queue empty, a wakeup from an interrupt that lands before or during the *)
(* monitor/mwait loop has cleared parked.                                  *)
(***************************************************************************)
NoLostWakeup ==
    \A c \in Cores : pc[c] = "core_park" /\ queue[c] # <<>> => ~parked[c]

(***************************************************************************)
(* The assertions of the scheduler and of thread_switch_status hold, and   *)
(* no status switch ever has to spin: the three internal functions are     *)
(* entered with a current, RUNNING thread and a preempt count of 1; a      *)
(* waker finds its target WAITING; the preempt count never drops below     *)
(* zero; an interrupt that reschedules finds a current thread.             *)
(***************************************************************************)
AssertionsHold ==
    /\ \A c \in Cores : At(c, "yield") \/ At(c, "park") \/ At(c, "exit") =>
          /\ preempt_count[c] = 1
          /\ current[c] \in Threads /\ status[current[c]] = "RUNNING"
    /\ \A c \in Cores : At(c, "execute") \/ At(c, "execute_inherit") =>
          held[c] \in Threads /\ status[held[c]] = "RUNNABLE"
    /\ \A c \in Cores : InCall(c, "enable") \/ InCall(c, "enable_dec") => preempt_count[c] >= 1
    /\ \A c \in Cores : irq[c] /\ preempt_count[c] = 1 => current[c] \in Threads
    /\ \A u \in Threads : tpc[u] = "wake" =>
          target[u] \in Threads /\ status[target[u]] = "WAITING"

(***************************************************************************)
(* Threads never leave the boot core: scheduler_wakeup_thread queues its   *)
(* target on the core that makes the call, sleep timers fire on the core   *)
(* the sleeper parked on, and no queue is shared or stolen from, so the    *)
(* other cores reach the idle loop and stay there.                         *)
(***************************************************************************)
OnlyBootCoreRuns ==
    /\ \A c \in Cores \ {BSP} : current[c] = NULL /\ held[c] = NULL /\ queue[c] = <<>>
    /\ \A t \in Threads : sleeping[t] \in {BSP, NULL}

(***************************************************************************)
(* The program counters tell which pointers are in use: a core has a       *)
(* current thread exactly in the thread and on the way into the scheduler, *)
(* and the scheduler functions hold one exactly between dropping it and    *)
(* handing it on.  (Part of the inductive invariant.)                      *)
(***************************************************************************)
CurrentLabels == {"thread", "yield", "park", "exit"}
HeldLabels    == {"park_callback", "exit_free", "exit_lock", "execute", "execute_inherit"}

FlowOK ==
    /\ \A c \in Cores : current[c] # NULL <=> pc[c] \in CurrentLabels
    /\ \A c \in Cores : held[c] # NULL <=> pc[c] \in HeldLabels
    /\ \A t \in Threads : target[t] # NULL <=> tpc[t] \in {"create", "wake"}

(***************************************************************************)
(* The preempt count: 1 in the scheduler, at least 1 in the part of a      *)
(* wakeup or preempt_enable that relies on it, and one more in the         *)
(* interrupt handler; a thread in such a part is therefore on a core.      *)
(* (Part of the inductive invariant.)                                      *)
(***************************************************************************)
PinnedLabels == {"wake", "enable", "enable_dec"}

PreemptOK ==
    /\ \A c \in Cores : pc[c] # "thread" => preempt_count[c] = IF irq[c] THEN 2 ELSE 1
    /\ \A c \in Cores : irq[c] => preempt_count[c] >= 1
    /\ \A c \in Cores : pc[c] = "thread" /\ tpc[current[c]] \in PinnedLabels =>
          preempt_count[c] >= IF irq[c] THEN 2 ELSE 1
    /\ \A t \in Threads : tpc[t] \in PinnedLabels =>
          \E c \in Cores : current[c] = t /\ pc[c] = "thread"

(***************************************************************************)
(* Claimed by scheduler.h of scheduler_reschedule: a request made while    *)
(* preemption is disabled is delayed until the preempt count reaches zero, *)
(* so a thread does not run preemptible with a request still pending.      *)
(***************************************************************************)
RescheduleNotForgotten ==
    \A c \in Cores : At(c, "thread") /\ preempt_count[c] = 0 => ~want_reschedule[c]
=============================================================================
