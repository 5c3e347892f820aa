---------------------------- MODULE MCScheduler ----------------------------
(***************************************************************************)
(* The scheduler with every core at work.                                  *)
(*                                                                         *)
(* From SchedInit no thread ever leaves the boot core (OnlyBootCoreRuns):  *)
(* a wakeup queues its target on the core that makes it, and no other core *)
(* ever has a thread to make one.  To exercise the scheduler's own         *)
(* contract between cores, the harness starts where each of two cores has  *)
(* created and woken a thread before scheduler_start_per_core, as _start   *)
(* does on the boot core.                                                  *)
(***************************************************************************)
EXTENDS Scheduler

AP == CHOOSE c \in Cores : c # BSP  \* the second core
SeveralCores == Cores # {BSP} /\ MaxThreads >= 2

BusyInit ==
    /\ scheduler_init_per_core
    /\ status = [t \in Threads |-> IF t \in {0, 1} THEN "RUNNABLE" ELSE "IDLE"]
    /\ m_thread_top = 2
    /\ m_thread_freelist = {}
    /\ m_thread_freelist_lock = NULL
    /\ queue = [c \in Cores |-> IF c = BSP THEN <<0>> ELSE IF c = AP THEN <<1>> ELSE <<>>]
    /\ want_reschedule = [c \in Cores |-> c \in {BSP, AP}]
    /\ parked = [c \in Cores |-> FALSE]
    /\ tpc = [t \in Threads |-> "run"]
    /\ target = [t \in Threads |-> NULL]
    /\ wakeable = {}
    /\ sleeping = [t \in Threads |-> NULL]

(***************************************************************************)
(* SchedNext without core_stops: a core that stops is one that takes no    *)
(* further step, which every reachable state allows anyway.                *)
(***************************************************************************)
BusyNext ==
    \E c \in Cores :
        \/ SchedulerStep(c)
        \/ TimedSchedulerStep(c)
        \/ ThreadCall(c)
        \/ ThreadStep(c)
        \/ timer_interrupt_handler(c)
        \/ IrqStep(c)

BusySpec == BusyInit /\ [][BusyNext]_schedVars
=============================================================================
