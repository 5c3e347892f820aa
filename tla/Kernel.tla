------------------------------- MODULE Kernel -------------------------------
(***************************************************************************)
(* The scheduler and the timers together.  Scheduler lets any interrupt    *)
(* and any timer callback happen at any time; here the interrupt is the    *)
(* one the hardware raises and the callbacks are those timer_dispatch      *)
(* finds due, so that preemption, sleeping and progress can be stated.     *)
(* Every action is an action of Scheduler (or leaves its variables alone)  *)
(* joined with what it does to the timers.                                 *)
(*                                                                         *)
(* A raised interrupt is taken before the next instruction of a core that  *)
(* has interrupts enabled: ~pending[c] guards every step outside the       *)
(* handler.                                                                *)
(***************************************************************************)
EXTENDS Scheduler, Timer

CONSTANTS
    Slice,      \* the 10 ms time slice of scheduler_execute, in ticks
    SleepTicks  \* the timeouts the workload passes to timer_sleep, in ticks

ASSUME KernelAssumption == Slice \in Nat \ {0} /\ SleepTicks \subseteq Nat

vars == <<schedVars, timerVars>>

Init == SchedInit /\ TimerInit

----------------------------------------------------------------------------
(* The steps that leave the timers alone.                                  *)

Call(c) == ~pending[c] /\ ThreadCall(c) /\ UNCHANGED timerVars

Untimed(c) ==
    /\ ~pending[c]
    /\ SchedulerStep(c) \/ ThreadStep(c)
    /\ UNCHANGED timerVars

----------------------------------------------------------------------------
(* timer_cancel(&core->timer) in scheduler_schedule, with interrupts on:   *)
(* read timer->timers, clear it, and only then switch interrupts off and   *)
(* erase the node.                                                         *)

Cancelling(c, at) == ~pending[c] /\ At(c, "cancel") /\ cancel_at[c] = at

cancel_return(c) ==
    /\ Cancelling(c, "read")
    /\ timers[c] = NULL
    /\ schedule_cancel(c)
    /\ UNCHANGED timerVars

cancel_read(c) ==
    /\ Cancelling(c, "read")
    /\ timers[c] # NULL
    /\ cancel_at' = [cancel_at EXCEPT ![c] = "clear"]
    /\ UNCHANGED <<schedVars, deadline, timers, tree, rb_leftmost, hw, pending, left_loop, stale, broken>>

cancel_clear(c) ==
    /\ Cancelling(c, "clear")
    /\ timers' = [timers EXCEPT ![c] = NULL]
    /\ cancel_at' = [cancel_at EXCEPT ![c] = "erase"]
    /\ UNCHANGED <<schedVars, deadline, tree, rb_leftmost, hw, pending, left_loop, stale, broken>>

cancel_erase(c) ==
    /\ Cancelling(c, "erase")
    /\ timer_cancel_erase(c, c)
    /\ cancel_at' = [cancel_at EXCEPT ![c] = "read"]
    /\ schedule_cancel(c)
    /\ UNCHANGED left_loop

(* The second erase of a slice timer relinks the tree, or does not return: *)
(* it follows a NULL sibling, or rotates in a circle.                      *)
cancel_corrupt(c) ==
    /\ Cancelling(c, "erase")
    /\ timer_cancel_corrupts(c, c)
    /\ cancel_at' = [cancel_at EXCEPT ![c] = "read"]
    /\ schedule_cancel(c)
    /\ UNCHANGED left_loop

cancel_stuck(c) ==
    /\ Cancelling(c, "erase")
    /\ ErasedTwice(c, c)
    /\ core_stops(c)
    /\ UNCHANGED timerVars

----------------------------------------------------------------------------
(* The steps that arm a timer: resuming a thread, with a new slice or with *)
(* what is left of the old one, and sleep_park_callback.                   *)

execute_slice(c) ==
    /\ ~pending[c]
    /\ scheduler_execute(c)
    /\ pc[c] = "execute" /\ timer_set(c, c, Slice)
    /\ UNCHANGED <<cancel_at, left_loop, stale, broken>>

(* Mutant: an inherited slice that is used up is not armed again.          *)
execute_inherit_unarmed(c) ==
    /\ ~pending[c]
    /\ scheduler_execute(c)
    /\ pc[c] = "execute_inherit"
    /\ IF deadline[c] > 0 THEN timer_set(c, c, deadline[c])
                          ELSE UNCHANGED <<deadline, timers, tree, rb_leftmost, hw, pending>>
    /\ UNCHANGED <<cancel_at, left_loop, stale, broken>>

execute_inherit(c) ==
    /\ ~pending[c]
    /\ scheduler_execute(c)
    /\ pc[c] = "execute_inherit" /\ timer_set(c, c, deadline[c])
    /\ UNCHANGED <<cancel_at, left_loop, stale, broken>>

sleep_arm(c) ==
    /\ ~pending[c]
    /\ sleep_park_callback(c)
    /\ \E ms \in SleepTicks : timer_set(c, held[c], ms)
    /\ UNCHANGED <<cancel_at, left_loop, stale, broken>>

----------------------------------------------------------------------------
(* The interrupt: timer_dispatch between preempt_disable and enable.       *)

interrupt(c) ==
    /\ pending[c]
    /\ timer_interrupt_handler(c)
    /\ pending' = [pending EXCEPT ![c] = FALSE]
    /\ UNCHANGED <<deadline, timers, tree, rb_leftmost, hw, cancel_at, left_loop, stale, broken>>

dispatch_slice(c) ==
    /\ scheduler_timer_tick(c)
    /\ timer_dispatch_pop(c, c)

dispatch_sleep(c) ==
    \E t \in Threads : sleep_wakeup_thread(c, t) /\ timer_dispatch_pop(c, t)

(* The assertion of timer_dispatch: the timer is marked as on this core.   *)
(* It fails for a sleep timer that was dispatched before and relinked.     *)
dispatch_panic(c) ==
    /\ ~left_loop[c] /\ Due(c) /\ timers[rb_leftmost[c]] # c
    /\ irq[c] /\ core_stops(c)
    /\ UNCHANGED timerVars

dispatch_leave(c) ==
    /\ InIrq(c)
    /\ timer_dispatch_leave(c)
    /\ UNCHANGED schedVars

interrupt_exit(c) ==
    /\ irq_exit_yield(c) \/ irq_exit_return(c)
    /\ timer_dispatch_done(c)

----------------------------------------------------------------------------
CoreStep(c) ==
    \/ Untimed(c)
    \/ cancel_return(c)
    \/ cancel_read(c)
    \/ cancel_clear(c)
    \/ cancel_erase(c)
    \/ cancel_corrupt(c)
    \/ cancel_stuck(c)
    \/ execute_slice(c)
    \/ execute_inherit(c)
    \/ sleep_arm(c)
    \/ interrupt(c)
    \/ dispatch_slice(c)
    \/ dispatch_sleep(c)
    \/ dispatch_panic(c)
    \/ dispatch_leave(c)
    \/ interrupt_exit(c)

TimePasses == Tick /\ UNCHANGED schedVars

Next == (\E c \in Cores : Call(c) \/ CoreStep(c)) \/ TimePasses

(***************************************************************************)
(* A core that is not stopped keeps executing its own kernel code, and     *)
(* time passes.  Nothing is assumed of the threads: one may run forever    *)
(* without calling the kernel.                                             *)
(***************************************************************************)
Fairness == (\A c \in Cores : WF_vars(CoreStep(c))) /\ WF_vars(TimePasses)

Spec == Init /\ [][Next]_vars /\ Fairness

----------------------------------------------------------------------------
(* The timer variables stay in their domains, next to the scheduler's.     *)
KernelTypeOK == TypeOK /\ TimerTypeOK

(***************************************************************************)
(* timer_dispatch asserts that the timer it takes out of the tree of a     *)
(* core is marked as being on that tree.                                   *)
(***************************************************************************)
DispatchAssertHolds ==
    \A c \in Cores : irq[c] /\ ~left_loop[c] /\ Due(c) => timers[rb_leftmost[c]] = c

(***************************************************************************)
(* As long as a timer is in the tree of a core, and the core is not in the *)
(* middle of changing that, its interrupt is raised or the hardware is     *)
(* armed, no later than for the first timer.  timer_cancel clears the      *)
(* hardware only when "no more timers" are on the core, and a deadline in  *)
(* the past is expected to interrupt at once.                              *)
(***************************************************************************)
ArmedWhileTimersRemain ==
    \A c \in Cores : tree[c] # {} /\ ~irq[c] =>
        \/ pending[c]
        \/ hw[c] # NULL /\ \A x \in tree[c] : hw[c] <= deadline[x]

(***************************************************************************)
(* No slice timer was erased twice next to other timers: the slice did not *)
(* expire between timer_cancel's read of timer->timers and its irq_save    *)
(* while a thread was asleep on that core.  Afterwards the links of that   *)
(* tree run through the stacks of threads, and nothing is claimed.         *)
(***************************************************************************)
LinksSound == \A c \in Cores : ~broken[c]

(***************************************************************************)
(* A preemptible thread always has its slice timer armed, and one with     *)
(* preemption disabled has it armed or its expiry on record: there is no   *)
(* path on which a slice is consumed and the thread runs on unbounded, as  *)
(* long as the links are sound.                                            *)
(***************************************************************************)
SliceNeverLost ==
    LinksSound =>
        \A c \in Cores : At(c, "thread") =>
            c \in tree[c] \/ (preempt_count[c] > 0 /\ want_reschedule[c])

(***************************************************************************)
(* A sleep timer lives on the stack of the sleeping thread: while it is in *)
(* a tree, or the cached first node, that thread is parked on it.  This    *)
(* holds until a slice timer is erased twice, which can link the timer of  *)
(* a thread that is awake.                                                 *)
(***************************************************************************)
NoDanglingTimer ==
    LinksSound =>
        \A c \in Cores : \A t \in Threads :
            t \in tree[c] \/ rb_leftmost[c] = t => sleeping[t] = c /\ status[t] = "WAITING"

(***************************************************************************)
(* timer_sleep never returns early: a sleeper is only made runnable by its *)
(* own timer, after its deadline, as long as the links are sound.          *)
(***************************************************************************)
WakesWhenDue(t) ==
    LinksSound /\ sleeping[t] # NULL /\ status'[t] # "WAITING" =>
        deadline[t] = 0 /\ irq[sleeping[t]]

SleepersWakeWhenDue == \A t \in Threads : WakesWhenDue(t)

SleepsLongEnough == [][SleepersWakeWhenDue]_vars

(***************************************************************************)
(* No starvation: a runnable thread runs eventually, whatever the other    *)
(* threads do, unless a core stops in a panic.  It rests on the slice      *)
(* timer preempting a thread that never yields, on yields going to the     *)
(* tail and on wakeups, which go to the head, being limited by the parks   *)
(* that precede them.                                                      *)
(***************************************************************************)
RunnableRuns ==
    \A t \in Threads :
        status[t] = "RUNNABLE" ~> status[t] = "RUNNING" \/ \E c \in Cores : halted[c]

(***************************************************************************)
(* thread_free returns the block of an exiting thread to the freelist and  *)
(* the core goes on to schedule: scheduler_exit_internal ends.             *)
(***************************************************************************)
ExitCompletes ==
    \A c \in Cores : pc[c] = "exit_lock" ~> pc[c] # "exit_lock"
=============================================================================
