---------------------------- MODULE KernelProofs ----------------------------
(***************************************************************************)
(* Proofs about Scheduler, MCScheduler and Kernel, for any number of cores *)
(* and threads and for either timer backend.                               *)
(*                                                                         *)
(* The first part is about Scheduler, in which interrupts and the          *)
(* callbacks of timers may happen at any time, and about the harness of    *)
(* MCScheduler in which several cores have threads.  The second part shows *)
(* that Kernel, in which only the hardware raises interrupts and only due  *)
(* timers run their callbacks, implements Scheduler: what is proved of     *)
(* Scheduler holds of Kernel.  It then proves what the timers add.         *)
(***************************************************************************)
EXTENDS Kernel, MCScheduler, TLAPS

----------------------------------------------------------------------------
(* Scheduler *)

USE DEF At, InIrq, InCall, Calling, Goto, ThreadGoto, threadVars, poolVars, coreVars, flowVars,
        apiVars, wakeVars, thread_switch_status, request_reschedule, enqueue_woken,
        scheduler_call

(***************************************************************************)
(* The inductive invariant: the types, which pointers are in use, the      *)
(* preempt counts, and for each status the one place a thread can be in.   *)
(***************************************************************************)
IInv ==
    /\ TypeOK
    /\ FlowOK
    /\ PreemptOK
    /\ RunsOnOneCore
    /\ RunnableIsQueuedOnce
    /\ WaitingHasOneWaker
    /\ BlockHasOneOwner

----------------------------------------------------------------------------
(* NULL is not a thread. *)
LEMMA NullNotThread == NULL \notin Threads
BY PlatformAssumption DEF Threads

(* What the pointers of a core refer to. *)
LEMMA CorePointers ==
  ASSUME IInv, NEW c \in Cores
  PROVE  /\ pc[c] \in CurrentLabels => current[c] \in Threads /\ status[current[c]] = "RUNNING"
         /\ pc[c] \in HeldLabels => held[c] \in Threads
         /\ pc[c] \in {"execute", "execute_inherit"} => status[held[c]] = "RUNNABLE"
         /\ pc[c] = "park_callback" => status[held[c]] = "WAITING"
         /\ pc[c] \in {"exit_free", "exit_lock"} => status[held[c]] \in {"IDLE", "DEAD"}
<1> USE NullNotThread DEF IInv
<1>1. pc[c] \in CurrentLabels => current[c] \in Threads /\ status[current[c]] = "RUNNING"
  BY DEF TypeOK, FlowOK, RunsOnOneCore
<1>2. pc[c] \in HeldLabels => held[c] \in Threads
  BY DEF TypeOK, FlowOK
<1>3. pc[c] \in {"execute", "execute_inherit"} => status[held[c]] = "RUNNABLE"
  BY <1>2 DEF RunnableIsQueuedOnce, QueuedOnce, HeldToRun, HeldLabels
<1>4. pc[c] = "park_callback" => status[held[c]] = "WAITING"
  BY <1>2 DEF WaitingHasOneWaker, OneWaker, HeldToPark, HeldLabels
<1>5. pc[c] \in {"exit_free", "exit_lock"} => status[held[c]] \in {"IDLE", "DEAD"}
  BY <1>2 DEF BlockHasOneOwner, OneOwner, HeldToFree, HeldLabels
<1> QED BY <1>1, <1>2, <1>3, <1>4, <1>5

(* What the target of a thread in the API refers to. *)
LEMMA TargetPointers ==
  ASSUME IInv, NEW u \in Threads
  PROVE  /\ tpc[u] \in {"create", "wake"} => target[u] \in Threads
         /\ tpc[u] = "wake" => status[target[u]] = "WAITING"
         /\ tpc[u] = "create" => status[target[u]] \in {"IDLE", "DEAD"}
<1> USE NullNotThread DEF IInv
<1>1. tpc[u] \in {"create", "wake"} => target[u] \in Threads
  BY DEF TypeOK, FlowOK
<1>2. tpc[u] = "wake" => status[target[u]] = "WAITING"
  BY <1>1 DEF WaitingHasOneWaker, OneWaker, BeingWoken
<1>3. tpc[u] = "create" => status[target[u]] \in {"IDLE", "DEAD"}
  BY <1>1 DEF BlockHasOneOwner, OneOwner, BeingMade
<1> QED BY <1>1, <1>2, <1>3

(* An interrupt that reschedules interrupted a thread. *)
LEMMA IrqYieldsThread ==
  ASSUME IInv, NEW c \in Cores, irq_exit_yield(c) PROVE pc[c] = "thread"
BY DEF IInv, TypeOK, PreemptOK, irq_exit_yield

(* The block thread_alloc returns was released or never used. *)
LEMMA AllocatedBlock ==
  ASSUME IInv, NEW u \in Threads, thread_alloc_reuse(u) \/ thread_alloc_grow(u)
  PROVE  status[u] \in {"IDLE", "DEAD"}
BY DEF IInv, BlockHasOneOwner, OneOwner, Unused, thread_alloc_reuse, thread_alloc_grow,
       Threads

(* Steps keep the types: the pointers that a step follows are not NULL.    *)
LEMMA TypeStep == IInv /\ [SchedNext]_schedVars => TypeOK'
<1> SUFFICES ASSUME IInv, [SchedNext]_schedVars PROVE TypeOK'
  OBVIOUS
<1> USE PlatformAssumption, SchedulerAssumption
<1> USE DEF TypeOK, ThreadTypeOK, thread_status, CoreLabels, ThreadLabels, Callbacks,
      FlowOK, CurrentLabels, HeldLabels, IInv
<1>1. CASE UNCHANGED schedVars
  BY <1>1 DEF schedVars
<1>2. ASSUME NEW c \in Cores, SchedulerStep(c) PROVE TypeOK'
  <2>1. CASE scheduler_yield_internal(c)
    BY <2>1 DEF scheduler_yield_internal
  <2>2. CASE scheduler_park_internal(c)
    BY <2>2 DEF scheduler_park_internal
  <2>3. CASE scheduler_park_internal_null(c)
    BY <2>3 DEF scheduler_park_internal_null
  <2>4. CASE park_callback_publish(c)
    BY <2>4 DEF park_callback_publish
  <2>5. CASE park_callback_fail(c)
    BY <2>5 DEF park_callback_fail
  <2>6. CASE scheduler_exit_internal(c)
    BY <2>6 DEF scheduler_exit_internal
  <2>7. CASE exit_thread_free_clear(c)
    BY <2>7 DEF exit_thread_free_clear, thread_free_clear
  <2>8. CASE exit_thread_free_link(c)
    BY <2>8 DEF exit_thread_free_link, thread_free_link
  <2>9. CASE core_prepare_park(c)
    BY <2>9 DEF core_prepare_park
  <2>10. CASE schedule_pop_empty(c)
    BY <2>10 DEF schedule_pop_empty
  <2>11. CASE schedule_pop(c)
    BY <2>11 DEF schedule_pop
  <2>12. CASE core_park(c)
    BY <2>12 DEF core_park
  <2> QED BY <1>2, <2>1, <2>2, <2>3, <2>4, <2>5, <2>6, <2>7, <2>8, <2>9, <2>10, <2>11,
      <2>12 DEF SchedulerStep
<1>3. ASSUME NEW c \in Cores, TimedSchedulerStep(c) PROVE TypeOK'
  <2>1. CASE sleep_park_callback(c)
    BY <2>1 DEF sleep_park_callback
  <2>2. CASE schedule_cancel(c)
    BY <2>2 DEF schedule_cancel
  <2>3. CASE scheduler_execute(c)
    BY <2>3 DEF scheduler_execute
  <2> QED BY <1>3, <2>1, <2>2, <2>3 DEF TimedSchedulerStep
<1>4. ASSUME NEW c \in Cores, ThreadCall(c) PROVE TypeOK'
  <2>1. CASE scheduler_yield(c)
    BY <2>1 DEF scheduler_yield
  <2>2. CASE scheduler_exit(c)
    BY <2>2 DEF scheduler_exit
  <2>3. CASE scheduler_park(c, "park", "publish")
    BY <2>3 DEF scheduler_park
  <2>4. CASE scheduler_park(c, "park_null", NULL)
    BY <2>4 DEF scheduler_park
  <2>5. CASE scheduler_park(c, "park_fail", "fail")
    BY <2>5 DEF scheduler_park
  <2>6. CASE scheduler_park(c, "sleep", "sleep")
    BY <2>6 DEF scheduler_park
  <2>7. CASE scheduler_reschedule_now(c)
    BY <2>7 DEF scheduler_reschedule_now
  <2>8. CASE scheduler_reschedule_later(c)
    BY <2>8 DEF scheduler_reschedule_later
  <2>9. CASE scheduler_preempt_disable(c)
    BY <2>9 DEF scheduler_preempt_disable
  <2>10. CASE scheduler_preempt_enable(c)
    BY <2>10 DEF scheduler_preempt_enable
  <2>11. CASE scheduler_wakeup_thread(c)
    BY <2>11 DEF scheduler_wakeup_thread
  <2>12. CASE thread_create(c)
    BY <2>12 DEF thread_create
  <2> QED BY <1>4, <2>1, <2>2, <2>3, <2>4, <2>5, <2>6, <2>7, <2>8, <2>9, <2>10, <2>11,
      <2>12 DEF ThreadCall
<1>5. ASSUME NEW c \in Cores, ThreadStep(c) PROVE TypeOK'
  <2>1. CASE preempt_enable_yield(c)
    BY <2>1 DEF preempt_enable_yield
  <2>2. CASE preempt_enable_skip(c)
    BY <2>2 DEF preempt_enable_skip
  <2>3. CASE preempt_enable_dec(c)
    BY <2>3 DEF preempt_enable_dec, PreemptOK, PinnedLabels
  <2>4. CASE wakeup_enqueue(c)
    BY <2>4 DEF wakeup_enqueue
  <2>5. CASE create_lock(c)
    BY <2>5 DEF create_lock, thread_alloc_lock
  <2>6. CASE create_alloc(c)
    <3> PICK u \in Threads :
             /\ thread_alloc_reuse(u) \/ thread_alloc_grow(u)
             /\ target' = [target EXCEPT ![current[c]] = u]
      BY <2>6 DEF create_alloc
    <3>1. CASE thread_alloc_reuse(u)
      BY <2>6, <3>1 DEF create_alloc, thread_alloc_reuse
    <3>2. CASE thread_alloc_grow(u)
      BY <2>6, <3>2, SMTT(60) DEF create_alloc, thread_alloc_grow
    <3> QED BY <3>1, <3>2
  <2>7. CASE create_exhausted(c)
    BY <2>7 DEF create_exhausted, thread_alloc_exhausted
  <2>8. CASE create_finish(c)
    BY <2>8 DEF create_finish
  <2>9. CASE create_assert_fails(c)
    BY <2>9 DEF create_assert_fails
  <2> QED BY <1>5, <2>1, <2>2, <2>3, <2>4, <2>5, <2>6, <2>7, <2>8, <2>9 DEF ThreadStep
<1>6. ASSUME NEW c \in Cores, IrqStep(c) PROVE TypeOK'
  <2>1. CASE scheduler_timer_tick(c)
    BY <2>1 DEF scheduler_timer_tick
  <2>2. CASE \E t \in Threads : sleep_wakeup_thread(c, t)
    BY <2>2 DEF sleep_wakeup_thread
  <2>3. CASE irq_exit_yield(c)
    BY <2>3 DEF irq_exit_yield
  <2>4. CASE irq_exit_return(c)
    BY <2>4 DEF irq_exit_return, PreemptOK
  <2> QED BY <1>6, <2>1, <2>2, <2>3, <2>4 DEF IrqStep
<1>7. ASSUME NEW c \in Cores, timer_interrupt_handler(c) PROVE TypeOK'
  BY <1>7 DEF timer_interrupt_handler
<1>8. ASSUME NEW c \in Cores, core_stops(c) PROVE TypeOK'
  BY <1>8 DEF core_stops
<1> QED BY <1>1, <1>2, <1>3, <1>4, <1>5, <1>6, <1>7, <1>8 DEF SchedNext

(* Steps keep the program counters and the pointers in line.               *)
LEMMA FlowStep == IInv /\ [SchedNext]_schedVars => FlowOK'
<1> SUFFICES ASSUME IInv, [SchedNext]_schedVars PROVE FlowOK'
  OBVIOUS
<1> USE PlatformAssumption, SchedulerAssumption, NullNotThread
<1> USE DEF TypeOK, ThreadTypeOK, thread_status, CoreLabels, ThreadLabels, Callbacks,
      FlowOK, CurrentLabels, HeldLabels, IInv
<1>1. CASE UNCHANGED schedVars
  BY <1>1 DEF schedVars
<1>2. ASSUME NEW c \in Cores, SchedulerStep(c) PROVE FlowOK'
  <2>1. CASE scheduler_yield_internal(c)
    BY <2>1 DEF scheduler_yield_internal
  <2>2. CASE scheduler_park_internal(c)
    BY <2>2 DEF scheduler_park_internal
  <2>3. CASE scheduler_park_internal_null(c)
    BY <2>3 DEF scheduler_park_internal_null
  <2>4. CASE park_callback_publish(c)
    BY <2>4 DEF park_callback_publish
  <2>5. CASE park_callback_fail(c)
    BY <2>5 DEF park_callback_fail
  <2>6. CASE scheduler_exit_internal(c)
    BY <2>6 DEF scheduler_exit_internal
  <2>7. CASE exit_thread_free_clear(c)
    BY <2>7 DEF exit_thread_free_clear, thread_free_clear
  <2>8. CASE exit_thread_free_link(c)
    BY <2>8 DEF exit_thread_free_link, thread_free_link
  <2>9. CASE core_prepare_park(c)
    BY <2>9 DEF core_prepare_park
  <2>10. CASE schedule_pop_empty(c)
    BY <2>10 DEF schedule_pop_empty
  <2>11. CASE schedule_pop(c)
    <3>1. Head(queue[c]) \in Threads
      BY <2>11 DEF schedule_pop
    <3> QED BY <2>11, <3>1 DEF schedule_pop
  <2>12. CASE core_park(c)
    BY <2>12 DEF core_park
  <2> QED BY <1>2, <2>1, <2>2, <2>3, <2>4, <2>5, <2>6, <2>7, <2>8, <2>9, <2>10, <2>11,
      <2>12 DEF SchedulerStep
<1>3. ASSUME NEW c \in Cores, TimedSchedulerStep(c) PROVE FlowOK'
  <2>1. CASE sleep_park_callback(c)
    BY <2>1 DEF sleep_park_callback
  <2>2. CASE schedule_cancel(c)
    BY <2>2 DEF schedule_cancel
  <2>3. CASE scheduler_execute(c)
    BY <2>3 DEF scheduler_execute
  <2> QED BY <1>3, <2>1, <2>2, <2>3 DEF TimedSchedulerStep
<1>4. ASSUME NEW c \in Cores, ThreadCall(c) PROVE FlowOK'
  <2>1. CASE scheduler_yield(c)
    BY <2>1 DEF scheduler_yield
  <2>2. CASE scheduler_exit(c)
    BY <2>2 DEF scheduler_exit
  <2>3. CASE scheduler_park(c, "park", "publish")
    BY <2>3 DEF scheduler_park
  <2>4. CASE scheduler_park(c, "park_null", NULL)
    BY <2>4 DEF scheduler_park
  <2>5. CASE scheduler_park(c, "park_fail", "fail")
    BY <2>5 DEF scheduler_park
  <2>6. CASE scheduler_park(c, "sleep", "sleep")
    BY <2>6 DEF scheduler_park
  <2>7. CASE scheduler_reschedule_now(c)
    BY <2>7 DEF scheduler_reschedule_now
  <2>8. CASE scheduler_reschedule_later(c)
    BY <2>8 DEF scheduler_reschedule_later
  <2>9. CASE scheduler_preempt_disable(c)
    BY <2>9 DEF scheduler_preempt_disable
  <2>10. CASE scheduler_preempt_enable(c)
    BY <2>10 DEF scheduler_preempt_enable
  <2>11. CASE scheduler_wakeup_thread(c)
    BY <2>11 DEF scheduler_wakeup_thread
  <2>12. CASE thread_create(c)
    BY <2>12 DEF thread_create
  <2> QED BY <1>4, <2>1, <2>2, <2>3, <2>4, <2>5, <2>6, <2>7, <2>8, <2>9, <2>10, <2>11,
      <2>12 DEF ThreadCall
<1>5. ASSUME NEW c \in Cores, ThreadStep(c) PROVE FlowOK'
  <2>1. CASE preempt_enable_yield(c)
    BY <2>1 DEF preempt_enable_yield
  <2>2. CASE preempt_enable_skip(c)
    BY <2>2 DEF preempt_enable_skip
  <2>3. CASE preempt_enable_dec(c)
    BY <2>3 DEF preempt_enable_dec
  <2>4. CASE wakeup_enqueue(c)
    BY <2>4 DEF wakeup_enqueue
  <2>5. CASE create_lock(c)
    BY <2>5 DEF create_lock, thread_alloc_lock
  <2>6. CASE create_alloc(c)
    <3> PICK u \in Threads :
             /\ thread_alloc_reuse(u) \/ thread_alloc_grow(u)
             /\ target' = [target EXCEPT ![current[c]] = u]
      BY <2>6 DEF create_alloc
    <3>1. CASE thread_alloc_reuse(u)
      BY <2>6, <3>1 DEF create_alloc, thread_alloc_reuse
    <3>2. CASE thread_alloc_grow(u)
      BY <2>6, <3>2 DEF create_alloc, thread_alloc_grow
    <3> QED BY <3>1, <3>2
  <2>7. CASE create_exhausted(c)
    BY <2>7 DEF create_exhausted, thread_alloc_exhausted
  <2>8. CASE create_finish(c)
    BY <2>8 DEF create_finish
  <2>9. CASE create_assert_fails(c)
    BY <2>9 DEF create_assert_fails
  <2> QED BY <1>5, <2>1, <2>2, <2>3, <2>4, <2>5, <2>6, <2>7, <2>8, <2>9 DEF ThreadStep
<1>6. ASSUME NEW c \in Cores, IrqStep(c) PROVE FlowOK'
  <2>1. CASE scheduler_timer_tick(c)
    BY <2>1 DEF scheduler_timer_tick
  <2>2. CASE \E t \in Threads : sleep_wakeup_thread(c, t)
    BY <2>2 DEF sleep_wakeup_thread
  <2>3. CASE irq_exit_yield(c)
    <3>1. pc[c] = "thread"
      BY <2>3, IrqYieldsThread
    <3> QED BY <2>3, <3>1 DEF irq_exit_yield
  <2>4. CASE irq_exit_return(c)
    BY <2>4 DEF irq_exit_return
  <2> QED BY <1>6, <2>1, <2>2, <2>3, <2>4 DEF IrqStep
<1>7. ASSUME NEW c \in Cores, timer_interrupt_handler(c) PROVE FlowOK'
  BY <1>7 DEF timer_interrupt_handler
<1>8. ASSUME NEW c \in Cores, core_stops(c) PROVE FlowOK'
  BY <1>8 DEF core_stops
<1> QED BY <1>1, <1>2, <1>3, <1>4, <1>5, <1>6, <1>7, <1>8 DEF SchedNext

(* Steps keep the preempt counts in line with the program counters.        *)
LEMMA PreemptStep == IInv /\ [SchedNext]_schedVars => PreemptOK'
<1> SUFFICES ASSUME IInv, [SchedNext]_schedVars PROVE PreemptOK'
  OBVIOUS
<1> USE PlatformAssumption, SchedulerAssumption, NullNotThread
<1> USE DEF TypeOK, ThreadTypeOK, thread_status, CoreLabels, ThreadLabels, Callbacks,
      FlowOK, CurrentLabels, HeldLabels, IInv, PreemptOK, PinnedLabels, RunsOnOneCore
<1>1. CASE UNCHANGED schedVars
  BY <1>1 DEF schedVars
<1>2. ASSUME NEW c \in Cores, SchedulerStep(c) PROVE PreemptOK'
  <2>1. CASE scheduler_yield_internal(c)
    BY <2>1 DEF scheduler_yield_internal
  <2>2. CASE scheduler_park_internal(c)
    BY <2>2 DEF scheduler_park_internal
  <2>3. CASE scheduler_park_internal_null(c)
    BY <2>3 DEF scheduler_park_internal_null
  <2>4. CASE park_callback_publish(c)
    BY <2>4 DEF park_callback_publish
  <2>5. CASE park_callback_fail(c)
    BY <2>5 DEF park_callback_fail
  <2>6. CASE scheduler_exit_internal(c)
    BY <2>6 DEF scheduler_exit_internal
  <2>7. CASE exit_thread_free_clear(c)
    BY <2>7 DEF exit_thread_free_clear, thread_free_clear
  <2>8. CASE exit_thread_free_link(c)
    BY <2>8 DEF exit_thread_free_link, thread_free_link
  <2>9. CASE core_prepare_park(c)
    BY <2>9 DEF core_prepare_park
  <2>10. CASE schedule_pop_empty(c)
    BY <2>10 DEF schedule_pop_empty
  <2>11. CASE schedule_pop(c)
    BY <2>11 DEF schedule_pop
  <2>12. CASE core_park(c)
    BY <2>12 DEF core_park
  <2> QED BY <1>2, <2>1, <2>2, <2>3, <2>4, <2>5, <2>6, <2>7, <2>8, <2>9, <2>10, <2>11,
      <2>12 DEF SchedulerStep
<1>3. ASSUME NEW c \in Cores, TimedSchedulerStep(c) PROVE PreemptOK'
  <2>1. CASE sleep_park_callback(c)
    BY <2>1 DEF sleep_park_callback
  <2>2. CASE schedule_cancel(c)
    BY <2>2 DEF schedule_cancel
  <2>3. CASE scheduler_execute(c)
    <3>1. held[c] \in Threads /\ tpc[held[c]] \notin PinnedLabels
      <4>1. held[c] \in Threads /\ status[held[c]] = "RUNNABLE"
        BY <2>3 DEF scheduler_execute
      <4>2. \A d \in Cores : current[d] # held[c]
        BY <4>1 DEF RunsOnOneCore
      <4> QED BY <4>1, <4>2 DEF PreemptOK
    <3>2. ASSUME NEW t \in Threads, tpc[t] \in PinnedLabels
          PROVE  \E d \in Cores : current'[d] = t /\ pc'[d] = "thread"
      BY <2>3, <3>1, <3>2 DEF scheduler_execute
    <3>3. ASSUME NEW d \in Cores, d # c, pc[d] = "thread"
          PROVE  current'[d] = current[d] /\ preempt_count'[d] = preempt_count[d]
      BY <2>3, <3>3 DEF scheduler_execute
    <3> QED BY <2>3, <3>1, <3>2, <3>3 DEF scheduler_execute
  <2> QED BY <1>3, <2>1, <2>2, <2>3 DEF TimedSchedulerStep
<1>4. ASSUME NEW c \in Cores, ThreadCall(c) PROVE PreemptOK'
  <2>1. CASE scheduler_yield(c)
    BY <2>1 DEF scheduler_yield
  <2>2. CASE scheduler_exit(c)
    BY <2>2 DEF scheduler_exit
  <2>3. CASE scheduler_park(c, "park", "publish")
    BY <2>3 DEF scheduler_park
  <2>4. CASE scheduler_park(c, "park_null", NULL)
    BY <2>4 DEF scheduler_park
  <2>5. CASE scheduler_park(c, "park_fail", "fail")
    BY <2>5 DEF scheduler_park
  <2>6. CASE scheduler_park(c, "sleep", "sleep")
    BY <2>6 DEF scheduler_park
  <2>7. CASE scheduler_reschedule_now(c)
    BY <2>7 DEF scheduler_reschedule_now
  <2>8. CASE scheduler_reschedule_later(c)
    BY <2>8 DEF scheduler_reschedule_later
  <2>9. CASE scheduler_preempt_disable(c)
    BY <2>9 DEF scheduler_preempt_disable
  <2>10. CASE scheduler_preempt_enable(c)
    BY <2>10 DEF scheduler_preempt_enable
  <2>11. CASE scheduler_wakeup_thread(c)
    BY <2>11 DEF scheduler_wakeup_thread
  <2>12. CASE thread_create(c)
    BY <2>12 DEF thread_create
  <2> QED BY <1>4, <2>1, <2>2, <2>3, <2>4, <2>5, <2>6, <2>7, <2>8, <2>9, <2>10, <2>11,
      <2>12 DEF ThreadCall
<1>5. ASSUME NEW c \in Cores, ThreadStep(c) PROVE PreemptOK'
  <2>1. CASE preempt_enable_yield(c)
    BY <2>1 DEF preempt_enable_yield
  <2>2. CASE preempt_enable_skip(c)
    BY <2>2 DEF preempt_enable_skip
  <2>3. CASE preempt_enable_dec(c)
    BY <2>3 DEF preempt_enable_dec
  <2>4. CASE wakeup_enqueue(c)
    BY <2>4 DEF wakeup_enqueue
  <2>5. CASE create_lock(c)
    BY <2>5 DEF create_lock, thread_alloc_lock
  <2>6. CASE create_alloc(c)
    BY <2>6 DEF create_alloc, thread_alloc_reuse, thread_alloc_grow
  <2>7. CASE create_exhausted(c)
    BY <2>7 DEF create_exhausted, thread_alloc_exhausted
  <2>8. CASE create_finish(c)
    BY <2>8 DEF create_finish
  <2>9. CASE create_assert_fails(c)
    BY <2>9 DEF create_assert_fails
  <2> QED BY <1>5, <2>1, <2>2, <2>3, <2>4, <2>5, <2>6, <2>7, <2>8, <2>9 DEF ThreadStep
<1>6. ASSUME NEW c \in Cores, IrqStep(c) PROVE PreemptOK'
  <2>1. CASE scheduler_timer_tick(c)
    BY <2>1 DEF scheduler_timer_tick
  <2>2. CASE \E t \in Threads : sleep_wakeup_thread(c, t)
    BY <2>2 DEF sleep_wakeup_thread
  <2>3. CASE irq_exit_yield(c)
    BY <2>3 DEF irq_exit_yield
  <2>4. CASE irq_exit_return(c)
    BY <2>4 DEF irq_exit_return
  <2> QED BY <1>6, <2>1, <2>2, <2>3, <2>4 DEF IrqStep
<1>7. ASSUME NEW c \in Cores, timer_interrupt_handler(c) PROVE PreemptOK'
  BY <1>7 DEF timer_interrupt_handler
<1>8. ASSUME NEW c \in Cores, core_stops(c) PROVE PreemptOK'
  BY <1>8 DEF core_stops
<1> QED BY <1>1, <1>2, <1>3, <1>4, <1>5, <1>6, <1>7, <1>8 DEF SchedNext

(* Steps keep the running threads and the current threads the same.        *)
LEMMA RunsStep == IInv /\ [SchedNext]_schedVars => RunsOnOneCore'
<1> SUFFICES ASSUME IInv, [SchedNext]_schedVars PROVE RunsOnOneCore'
  OBVIOUS
<1> USE PlatformAssumption, SchedulerAssumption, NullNotThread
<1> USE DEF TypeOK, ThreadTypeOK, thread_status, CoreLabels, ThreadLabels, Callbacks,
      FlowOK, CurrentLabels, HeldLabels, IInv, RunsOnOneCore
<1>1. CASE UNCHANGED schedVars
  BY <1>1 DEF schedVars
<1>2. ASSUME NEW c \in Cores, SchedulerStep(c) PROVE RunsOnOneCore'
  <2>1. CASE scheduler_yield_internal(c)
    BY <2>1 DEF scheduler_yield_internal
  <2>2. CASE scheduler_park_internal(c)
    BY <2>2 DEF scheduler_park_internal
  <2>3. CASE scheduler_park_internal_null(c)
    BY <2>3 DEF scheduler_park_internal_null
  <2>4. CASE park_callback_fail(c)
    BY <2>4 DEF park_callback_fail
  <2>5. CASE scheduler_exit_internal(c)
    BY <2>5 DEF scheduler_exit_internal
  <2>6. CASE exit_thread_free_clear(c)
    <3>1. held[c] \in Threads /\ status[held[c]] # "RUNNING"
      BY <2>6, CorePointers DEF exit_thread_free_clear
    <3> QED BY <2>6, <3>1 DEF exit_thread_free_clear, thread_free_clear
  <2>7. CASE \/ park_callback_publish(c)
            \/ exit_thread_free_link(c)
            \/ core_prepare_park(c)
            \/ schedule_pop_empty(c)
            \/ schedule_pop(c)
            \/ core_park(c)
    BY <2>7 DEF park_callback_publish, exit_thread_free_link, thread_free_link,
      core_prepare_park, schedule_pop_empty, schedule_pop, core_park
  <2> QED BY <1>2, <2>1, <2>2, <2>3, <2>4, <2>5, <2>6, <2>7 DEF SchedulerStep
<1>3. ASSUME NEW c \in Cores, TimedSchedulerStep(c) PROVE RunsOnOneCore'
  <2>1. CASE scheduler_execute(c)
    <3>1. \A d \in Cores : current[d] # held[c]
      BY <2>1, CorePointers DEF scheduler_execute
    <3>2. held[c] \in Threads
      BY <2>1, CorePointers DEF scheduler_execute
    <3>3. current' = [current EXCEPT ![c] = held[c]]
      BY <2>1 DEF scheduler_execute
    <3>4. status' = [status EXCEPT ![held[c]] = "RUNNING"]
      BY <2>1 DEF scheduler_execute
    <3>5. ASSUME NEW t \in Threads
          PROVE  status'[t] = "RUNNING" <=> \E d \in Cores : current'[d] = t
      <4>1. CASE t = held[c]
        BY <3>2, <3>3, <3>4, <4>1
      <4>2. CASE t # held[c]
        <5>1. current[c] = NULL
          BY <2>1 DEF scheduler_execute
        <5> QED BY <3>2, <3>3, <3>4, <4>2, <5>1
      <4> QED BY <4>1, <4>2
    <3>6. \A d, e \in Cores : current'[d] = current'[e] /\ current'[d] # NULL => d = e
      BY <3>1, <3>2, <3>3
    <3> QED BY <3>5, <3>6
  <2>2. CASE \/ sleep_park_callback(c)
            \/ schedule_cancel(c)
    BY <2>2 DEF sleep_park_callback, schedule_cancel
  <2> QED BY <1>3, <2>1, <2>2 DEF TimedSchedulerStep
<1>4. ASSUME NEW c \in Cores, ThreadCall(c) PROVE RunsOnOneCore'
  <2>1. CASE \/ scheduler_yield(c)
            \/ scheduler_exit(c)
            \/ scheduler_park(c, "park", "publish")
            \/ scheduler_park(c, "park_null", NULL)
            \/ scheduler_park(c, "park_fail", "fail")
            \/ scheduler_park(c, "sleep", "sleep")
            \/ scheduler_reschedule_now(c)
            \/ scheduler_reschedule_later(c)
            \/ scheduler_preempt_disable(c)
            \/ scheduler_preempt_enable(c)
            \/ scheduler_wakeup_thread(c)
            \/ thread_create(c)
    BY <2>1 DEF scheduler_yield, scheduler_exit, scheduler_park,
      scheduler_reschedule_now, scheduler_reschedule_later, scheduler_preempt_disable,
      scheduler_preempt_enable, scheduler_wakeup_thread, thread_create
  <2> QED BY <1>4, <2>1 DEF ThreadCall
<1>5. ASSUME NEW c \in Cores, ThreadStep(c) PROVE RunsOnOneCore'
  <2>1. CASE wakeup_enqueue(c)
    BY <2>1 DEF wakeup_enqueue
  <2>2. CASE create_alloc(c)
    <3> PICK u \in Threads : thread_alloc_reuse(u) \/ thread_alloc_grow(u)
      BY <2>2 DEF create_alloc
    <3>1. status[u] # "RUNNING"
      BY DEF BlockHasOneOwner, OneOwner, Unused, thread_alloc_reuse, thread_alloc_grow
    <3>2. CASE thread_alloc_reuse(u)
      BY <2>2, <3>1, <3>2 DEF create_alloc, thread_alloc_reuse
    <3>3. CASE thread_alloc_grow(u)
      BY <2>2, <3>1, <3>3 DEF create_alloc, thread_alloc_grow
    <3> QED BY <3>2, <3>3
  <2>3. CASE create_finish(c)
    BY <2>3 DEF create_finish
  <2>4. CASE \/ preempt_enable_yield(c)
            \/ preempt_enable_skip(c)
            \/ preempt_enable_dec(c)
            \/ create_lock(c)
            \/ create_exhausted(c)
            \/ create_assert_fails(c)
    BY <2>4 DEF preempt_enable_yield, preempt_enable_skip, preempt_enable_dec,
      create_lock, thread_alloc_lock, create_exhausted, thread_alloc_exhausted,
      create_assert_fails
  <2> QED BY <1>5, <2>1, <2>2, <2>3, <2>4 DEF ThreadStep
<1>6. ASSUME NEW c \in Cores, IrqStep(c) PROVE RunsOnOneCore'
  <2>1. CASE \E t \in Threads : sleep_wakeup_thread(c, t)
    BY <2>1 DEF sleep_wakeup_thread
  <2>2. CASE \/ scheduler_timer_tick(c)
            \/ irq_exit_yield(c)
            \/ irq_exit_return(c)
    BY <2>2 DEF scheduler_timer_tick, irq_exit_yield, irq_exit_return
  <2> QED BY <1>6, <2>1, <2>2 DEF IrqStep
<1>7. ASSUME NEW c \in Cores, timer_interrupt_handler(c) PROVE RunsOnOneCore'
  BY <1>7 DEF timer_interrupt_handler
<1>8. ASSUME NEW c \in Cores, core_stops(c) PROVE RunsOnOneCore'
  BY <1>8 DEF core_stops
<1> QED BY <1>1, <1>2, <1>3, <1>4, <1>5, <1>6, <1>7, <1>8 DEF SchedNext

----------------------------------------------------------------------------
(* A step that moves t neither into nor out of a place where a thread waits. *)
WakerFramed(t) ==
    /\ (status'[t] = "WAITING") <=> (status[t] = "WAITING")
    /\ (t \in wakeable') <=> (t \in wakeable)
    /\ sleeping'[t] = sleeping[t]
    /\ \A d \in Cores : HeldToPark(d, t)' <=> HeldToPark(d, t)
    /\ \A u \in Threads : BeingWoken(u, t)' <=> BeingWoken(u, t)

(* Such a step keeps the one waker of t. *)
LEMMA WakerFrame ==
  ASSUME NEW t \in Threads, OneWaker(t), WakerFramed(t) PROVE OneWaker(t)'
BY DEF OneWaker, WakerFramed

(* Steps keep one waker for every waiting thread.                          *)
LEMMA WaitingStep == IInv /\ [SchedNext]_schedVars => WaitingHasOneWaker'
<1> SUFFICES ASSUME IInv, [SchedNext]_schedVars, NEW t \in Threads PROVE OneWaker(t)'
  BY DEF WaitingHasOneWaker
<1> USE PlatformAssumption, SchedulerAssumption, NullNotThread
<1> USE DEF TypeOK, ThreadTypeOK, thread_status, CoreLabels, ThreadLabels, Callbacks,
      FlowOK, CurrentLabels, HeldLabels, IInv
<1>0. OneWaker(t)
  BY DEF WaitingHasOneWaker
<1>1. CASE UNCHANGED schedVars
  <2>1. WakerFramed(t)
    BY <1>1 DEF schedVars, WakerFramed, HeldToPark, BeingWoken
  <2> QED BY <1>0, <2>1, WakerFrame
<1>2. ASSUME NEW c \in Cores, SchedulerStep(c) PROVE OneWaker(t)'
  <2>1. CASE scheduler_park_internal(c)
    BY <2>1, <1>0 DEF OneWaker, HeldToPark, BeingWoken, scheduler_park_internal
  <2>2. CASE scheduler_park_internal_null(c)
    BY <2>2, <1>0 DEF OneWaker, HeldToPark, BeingWoken, scheduler_park_internal_null
  <2>3. CASE park_callback_publish(c)
    BY <2>3, <1>0 DEF OneWaker, HeldToPark, BeingWoken, park_callback_publish
  <2>4. CASE park_callback_fail(c)
    BY <2>4, <1>0 DEF OneWaker, HeldToPark, BeingWoken, park_callback_fail
  <2>5. CASE \/ scheduler_yield_internal(c)
            \/ scheduler_exit_internal(c)
            \/ exit_thread_free_clear(c)
            \/ exit_thread_free_link(c)
            \/ core_prepare_park(c)
            \/ schedule_pop_empty(c)
            \/ schedule_pop(c)
            \/ core_park(c)
    <3>1. CASE scheduler_yield_internal(c)
      <4>1. WakerFramed(t)
        BY <3>1 DEF scheduler_yield_internal, WakerFramed, HeldToPark, BeingWoken
      <4> QED BY <1>0, <4>1, WakerFrame
    <3>2. CASE scheduler_exit_internal(c)
      <4>1. WakerFramed(t)
        BY <3>2 DEF scheduler_exit_internal, WakerFramed, HeldToPark, BeingWoken
      <4> QED BY <1>0, <4>1, WakerFrame
    <3>3. CASE exit_thread_free_clear(c)
      <4>1. WakerFramed(t)
        BY <3>3, CorePointers DEF exit_thread_free_clear, thread_free_clear,
           WakerFramed, HeldToPark, BeingWoken
      <4> QED BY <1>0, <4>1, WakerFrame
    <3>4. CASE exit_thread_free_link(c)
      <4>1. WakerFramed(t)
        BY <3>4 DEF exit_thread_free_link, thread_free_link, WakerFramed, HeldToPark,
           BeingWoken
      <4> QED BY <1>0, <4>1, WakerFrame
    <3>5. CASE core_prepare_park(c)
      <4>1. WakerFramed(t)
        BY <3>5 DEF core_prepare_park, WakerFramed, HeldToPark, BeingWoken
      <4> QED BY <1>0, <4>1, WakerFrame
    <3>6. CASE schedule_pop_empty(c)
      <4>1. WakerFramed(t)
        BY <3>6 DEF schedule_pop_empty, WakerFramed, HeldToPark, BeingWoken
      <4> QED BY <1>0, <4>1, WakerFrame
    <3>7. CASE schedule_pop(c)
      <4>1. WakerFramed(t)
        BY <3>7 DEF schedule_pop, WakerFramed, HeldToPark, BeingWoken
      <4> QED BY <1>0, <4>1, WakerFrame
    <3>8. CASE core_park(c)
      <4>1. WakerFramed(t)
        BY <3>8 DEF core_park, WakerFramed, HeldToPark, BeingWoken
      <4> QED BY <1>0, <4>1, WakerFrame
    <3> QED BY <2>5, <3>1, <3>2, <3>3, <3>4, <3>5, <3>6, <3>7, <3>8
  <2> QED BY <1>2, <2>1, <2>2, <2>3, <2>4, <2>5 DEF SchedulerStep
<1>3. ASSUME NEW c \in Cores, TimedSchedulerStep(c) PROVE OneWaker(t)'
  <2>1. CASE sleep_park_callback(c)
    BY <2>1, <1>0 DEF OneWaker, HeldToPark, BeingWoken, sleep_park_callback
  <2>2. CASE \/ schedule_cancel(c)
            \/ scheduler_execute(c)
    <3>1. CASE schedule_cancel(c)
      <4>1. WakerFramed(t)
        BY <3>1 DEF schedule_cancel, WakerFramed, HeldToPark, BeingWoken
      <4> QED BY <1>0, <4>1, WakerFrame
    <3>2. CASE scheduler_execute(c)
      <4>1. WakerFramed(t)
        BY <3>2 DEF scheduler_execute, WakerFramed, HeldToPark, BeingWoken
      <4> QED BY <1>0, <4>1, WakerFrame
    <3> QED BY <2>2, <3>1, <3>2
  <2> QED BY <1>3, <2>1, <2>2 DEF TimedSchedulerStep
<1>4. ASSUME NEW c \in Cores, ThreadCall(c) PROVE OneWaker(t)'
  <2>1. CASE scheduler_wakeup_thread(c)
    BY <2>1, <1>0 DEF OneWaker, HeldToPark, BeingWoken, scheduler_wakeup_thread
  <2>2. CASE \/ scheduler_yield(c)
            \/ scheduler_exit(c)
            \/ scheduler_park(c, "park", "publish")
            \/ scheduler_park(c, "park_null", NULL)
            \/ scheduler_park(c, "park_fail", "fail")
            \/ scheduler_park(c, "sleep", "sleep")
            \/ scheduler_reschedule_now(c)
            \/ scheduler_reschedule_later(c)
            \/ scheduler_preempt_disable(c)
            \/ scheduler_preempt_enable(c)
            \/ thread_create(c)
    <3>1. CASE scheduler_yield(c)
      <4>1. WakerFramed(t)
        BY <3>1 DEF scheduler_yield, WakerFramed, HeldToPark, BeingWoken
      <4> QED BY <1>0, <4>1, WakerFrame
    <3>2. CASE scheduler_exit(c)
      <4>1. WakerFramed(t)
        BY <3>2 DEF scheduler_exit, WakerFramed, HeldToPark, BeingWoken
      <4> QED BY <1>0, <4>1, WakerFrame
    <3>3. CASE scheduler_park(c, "park", "publish")
      <4>1. WakerFramed(t)
        BY <3>3 DEF scheduler_park, WakerFramed, HeldToPark, BeingWoken
      <4> QED BY <1>0, <4>1, WakerFrame
    <3>4. CASE scheduler_park(c, "park_null", NULL)
      <4>1. WakerFramed(t)
        BY <3>4 DEF scheduler_park, WakerFramed, HeldToPark, BeingWoken
      <4> QED BY <1>0, <4>1, WakerFrame
    <3>5. CASE scheduler_park(c, "park_fail", "fail")
      <4>1. WakerFramed(t)
        BY <3>5 DEF scheduler_park, WakerFramed, HeldToPark, BeingWoken
      <4> QED BY <1>0, <4>1, WakerFrame
    <3>6. CASE scheduler_park(c, "sleep", "sleep")
      <4>1. WakerFramed(t)
        BY <3>6 DEF scheduler_park, WakerFramed, HeldToPark, BeingWoken
      <4> QED BY <1>0, <4>1, WakerFrame
    <3>7. CASE scheduler_reschedule_now(c)
      <4>1. WakerFramed(t)
        BY <3>7 DEF scheduler_reschedule_now, WakerFramed, HeldToPark, BeingWoken
      <4> QED BY <1>0, <4>1, WakerFrame
    <3>8. CASE scheduler_reschedule_later(c)
      <4>1. WakerFramed(t)
        BY <3>8 DEF scheduler_reschedule_later, WakerFramed, HeldToPark, BeingWoken
      <4> QED BY <1>0, <4>1, WakerFrame
    <3>9. CASE scheduler_preempt_disable(c)
      <4>1. WakerFramed(t)
        BY <3>9 DEF scheduler_preempt_disable, WakerFramed, HeldToPark, BeingWoken
      <4> QED BY <1>0, <4>1, WakerFrame
    <3>10. CASE scheduler_preempt_enable(c)
      <4>1. WakerFramed(t)
        BY <3>10 DEF scheduler_preempt_enable, WakerFramed, HeldToPark, BeingWoken
      <4> QED BY <1>0, <4>1, WakerFrame
    <3>11. CASE thread_create(c)
      <4>1. WakerFramed(t)
        BY <3>11 DEF thread_create, WakerFramed, HeldToPark, BeingWoken
      <4> QED BY <1>0, <4>1, WakerFrame
    <3> QED BY <2>2, <3>1, <3>2, <3>3, <3>4, <3>5, <3>6, <3>7, <3>8, <3>9, <3>10, <3>11
  <2> QED BY <1>4, <2>1, <2>2 DEF ThreadCall
<1>5. ASSUME NEW c \in Cores, ThreadStep(c) PROVE OneWaker(t)'
  <2>1. CASE wakeup_enqueue(c)
    BY <2>1, <1>0 DEF OneWaker, HeldToPark, BeingWoken, wakeup_enqueue
  <2>2. CASE create_alloc(c)
    <3> PICK u \in Threads :
             /\ thread_alloc_reuse(u) \/ thread_alloc_grow(u)
             /\ target' = [target EXCEPT ![current[c]] = u]
      BY <2>2 DEF create_alloc
    <3>1. status[u] \in {"IDLE", "DEAD"}
      BY AllocatedBlock
    <3>2. /\ status'[u] \in {"IDLE", "DEAD"}
          /\ \A v \in Threads : v # u => status'[v] = status[v]
      BY DEF thread_alloc_reuse, thread_alloc_grow
    <3>3. WakerFramed(t)
      BY <2>2, <3>1, <3>2 DEF create_alloc, WakerFramed, HeldToPark, BeingWoken
    <3> QED BY <1>0, <3>3, WakerFrame
  <2>3. CASE create_finish(c)
    BY <2>3, <1>0 DEF OneWaker, HeldToPark, BeingWoken, create_finish
  <2>4. CASE \/ preempt_enable_yield(c)
            \/ preempt_enable_skip(c)
            \/ preempt_enable_dec(c)
            \/ create_lock(c)
            \/ create_exhausted(c)
            \/ create_assert_fails(c)
    <3>1. CASE preempt_enable_yield(c)
      <4>1. WakerFramed(t)
        BY <3>1 DEF preempt_enable_yield, WakerFramed, HeldToPark, BeingWoken
      <4> QED BY <1>0, <4>1, WakerFrame
    <3>2. CASE preempt_enable_skip(c)
      <4>1. WakerFramed(t)
        BY <3>2 DEF preempt_enable_skip, WakerFramed, HeldToPark, BeingWoken
      <4> QED BY <1>0, <4>1, WakerFrame
    <3>3. CASE preempt_enable_dec(c)
      <4>1. WakerFramed(t)
        BY <3>3 DEF preempt_enable_dec, WakerFramed, HeldToPark, BeingWoken
      <4> QED BY <1>0, <4>1, WakerFrame
    <3>4. CASE create_lock(c)
      <4>1. WakerFramed(t)
        BY <3>4 DEF create_lock, thread_alloc_lock, WakerFramed, HeldToPark, BeingWoken
      <4> QED BY <1>0, <4>1, WakerFrame
    <3>5. CASE create_exhausted(c)
      <4>1. WakerFramed(t)
        BY <3>5 DEF create_exhausted, thread_alloc_exhausted, WakerFramed, HeldToPark,
           BeingWoken
      <4> QED BY <1>0, <4>1, WakerFrame
    <3>6. CASE create_assert_fails(c)
      <4>1. WakerFramed(t)
        BY <3>6 DEF create_assert_fails, WakerFramed, HeldToPark, BeingWoken
      <4> QED BY <1>0, <4>1, WakerFrame
    <3> QED BY <2>4, <3>1, <3>2, <3>3, <3>4, <3>5, <3>6
  <2> QED BY <1>5, <2>1, <2>2, <2>3, <2>4 DEF ThreadStep
<1>6. ASSUME NEW c \in Cores, IrqStep(c) PROVE OneWaker(t)'
  <2>1. CASE \E u \in Threads : sleep_wakeup_thread(c, u)
    BY <2>1, <1>0 DEF OneWaker, HeldToPark, BeingWoken, sleep_wakeup_thread
  <2>2. CASE \/ scheduler_timer_tick(c)
            \/ irq_exit_yield(c)
            \/ irq_exit_return(c)
    <3>1. CASE scheduler_timer_tick(c)
      <4>1. WakerFramed(t)
        BY <3>1 DEF scheduler_timer_tick, WakerFramed, HeldToPark, BeingWoken
      <4> QED BY <1>0, <4>1, WakerFrame
    <3>2. CASE irq_exit_yield(c)
      <4>1. WakerFramed(t)
        BY <3>2, IrqYieldsThread DEF irq_exit_yield, WakerFramed, HeldToPark, BeingWoken
      <4> QED BY <1>0, <4>1, WakerFrame
    <3>3. CASE irq_exit_return(c)
      <4>1. WakerFramed(t)
        BY <3>3 DEF irq_exit_return, WakerFramed, HeldToPark, BeingWoken
      <4> QED BY <1>0, <4>1, WakerFrame
    <3> QED BY <2>2, <3>1, <3>2, <3>3
  <2> QED BY <1>6, <2>1, <2>2 DEF IrqStep
<1>7. ASSUME NEW c \in Cores, timer_interrupt_handler(c) PROVE OneWaker(t)'
  <2>1. WakerFramed(t)
    BY <1>7 DEF timer_interrupt_handler, WakerFramed, HeldToPark, BeingWoken
  <2> QED BY <1>0, <2>1, WakerFrame
<1>8. ASSUME NEW c \in Cores, core_stops(c) PROVE OneWaker(t)'
  <2>1. WakerFramed(t)
    BY <1>8 DEF core_stops, WakerFramed, HeldToPark, BeingWoken
  <2> QED BY <1>0, <2>1, WakerFrame
<1> QED BY <1>1, <1>2, <1>3, <1>4, <1>5, <1>6, <1>7, <1>8 DEF SchedNext

----------------------------------------------------------------------------
(* A step that moves block t neither into nor out of the pool. *)
OwnerFramed(t) ==
    /\ (status'[t] \in {"IDLE", "DEAD"}) <=> (status[t] \in {"IDLE", "DEAD"})
    /\ Unused(t) => status'[t] = status[t]
    /\ Unused(t)' <=> Unused(t)
    /\ (t \in m_thread_freelist') <=> (t \in m_thread_freelist)
    /\ \A d \in Cores : HeldToFree(d, t)' <=> HeldToFree(d, t)
    /\ \A u \in Threads : BeingMade(u, t)' <=> BeingMade(u, t)

(* Such a step keeps the one owner of t. *)
LEMMA OwnerFrame ==
  ASSUME NEW t \in Threads, OneOwner(t), OwnerFramed(t) PROVE OneOwner(t)'
BY DEF OneOwner, OwnerFramed

(* Steps keep one owner for every free block.                              *)
LEMMA BlockStep == IInv /\ [SchedNext]_schedVars => BlockHasOneOwner'
<1> SUFFICES ASSUME IInv, [SchedNext]_schedVars, NEW t \in Threads PROVE OneOwner(t)'
  BY DEF BlockHasOneOwner
<1> USE PlatformAssumption, SchedulerAssumption, NullNotThread
<1> USE DEF TypeOK, ThreadTypeOK, thread_status, CoreLabels, ThreadLabels, Callbacks,
      FlowOK, CurrentLabels, HeldLabels, IInv
<1>0. OneOwner(t)
  BY DEF BlockHasOneOwner
<1>a. Unused(t) => status[t] = "IDLE"
  BY <1>0 DEF OneOwner
<1>b. \A d \in Cores : HeldToFree(d, t) => ~Unused(t)
  BY <1>0 DEF OneOwner
<1>1. CASE UNCHANGED schedVars
  <2>1. OwnerFramed(t)
    BY <1>1 DEF schedVars, OwnerFramed, HeldToFree, BeingMade, Unused
  <2> QED BY <1>0, <2>1, OwnerFrame
<1>2. ASSUME NEW c \in Cores, SchedulerStep(c) PROVE OneOwner(t)'
  <2>1. CASE scheduler_exit_internal(c)
    BY <2>1, <1>0, CorePointers DEF OneOwner, HeldToFree, BeingMade, Unused, scheduler_exit_internal
  <2>2. CASE exit_thread_free_link(c)
    BY <2>2, <1>0, CorePointers DEF OneOwner, HeldToFree, BeingMade, Unused, exit_thread_free_link, thread_free_link
  <2>3. CASE \/ scheduler_yield_internal(c)
            \/ scheduler_park_internal(c)
            \/ scheduler_park_internal_null(c)
            \/ park_callback_publish(c)
            \/ park_callback_fail(c)
            \/ exit_thread_free_clear(c)
            \/ core_prepare_park(c)
            \/ schedule_pop_empty(c)
            \/ schedule_pop(c)
            \/ core_park(c)
    <3>1. CASE scheduler_yield_internal(c)
      <4>1. OwnerFramed(t)
        BY <3>1, <1>a DEF scheduler_yield_internal, OwnerFramed, HeldToFree, BeingMade,
           Unused
      <4> QED BY <1>0, <4>1, OwnerFrame
    <3>2. CASE scheduler_park_internal(c)
      <4>1. OwnerFramed(t)
        BY <3>2, <1>a DEF scheduler_park_internal, OwnerFramed, HeldToFree, BeingMade,
           Unused
      <4> QED BY <1>0, <4>1, OwnerFrame
    <3>3. CASE scheduler_park_internal_null(c)
      <4>1. OwnerFramed(t)
        BY <3>3, <1>a DEF scheduler_park_internal_null, OwnerFramed, HeldToFree,
           BeingMade, Unused
      <4> QED BY <1>0, <4>1, OwnerFrame
    <3>4. CASE park_callback_publish(c)
      <4>1. OwnerFramed(t)
        BY <3>4 DEF park_callback_publish, OwnerFramed, HeldToFree, BeingMade, Unused
      <4> QED BY <1>0, <4>1, OwnerFrame
    <3>5. CASE park_callback_fail(c)
      <4>1. OwnerFramed(t)
        BY <3>5, <1>a DEF park_callback_fail, OwnerFramed, HeldToFree, BeingMade, Unused
      <4> QED BY <1>0, <4>1, OwnerFrame
    <3>6. CASE exit_thread_free_clear(c)
      <4>1. OwnerFramed(t)
        BY <3>6, CorePointers, <1>b DEF exit_thread_free_clear, thread_free_clear,
           OwnerFramed, HeldToFree, BeingMade, Unused
      <4> QED BY <1>0, <4>1, OwnerFrame
    <3>7. CASE core_prepare_park(c)
      <4>1. OwnerFramed(t)
        BY <3>7 DEF core_prepare_park, OwnerFramed, HeldToFree, BeingMade, Unused
      <4> QED BY <1>0, <4>1, OwnerFrame
    <3>8. CASE schedule_pop_empty(c)
      <4>1. OwnerFramed(t)
        BY <3>8 DEF schedule_pop_empty, OwnerFramed, HeldToFree, BeingMade, Unused
      <4> QED BY <1>0, <4>1, OwnerFrame
    <3>9. CASE schedule_pop(c)
      <4>1. OwnerFramed(t)
        BY <3>9 DEF schedule_pop, OwnerFramed, HeldToFree, BeingMade, Unused
      <4> QED BY <1>0, <4>1, OwnerFrame
    <3>10. CASE core_park(c)
      <4>1. OwnerFramed(t)
        BY <3>10 DEF core_park, OwnerFramed, HeldToFree, BeingMade, Unused
      <4> QED BY <1>0, <4>1, OwnerFrame
    <3> QED BY <2>3, <3>1, <3>2, <3>3, <3>4, <3>5, <3>6, <3>7, <3>8, <3>9, <3>10
  <2> QED BY <1>2, <2>1, <2>2, <2>3 DEF SchedulerStep
<1>3. ASSUME NEW c \in Cores, TimedSchedulerStep(c) PROVE OneOwner(t)'
  <2>1. CASE \/ sleep_park_callback(c)
            \/ schedule_cancel(c)
            \/ scheduler_execute(c)
    <3>1. CASE sleep_park_callback(c)
      <4>1. OwnerFramed(t)
        BY <3>1 DEF sleep_park_callback, OwnerFramed, HeldToFree, BeingMade, Unused
      <4> QED BY <1>0, <4>1, OwnerFrame
    <3>2. CASE schedule_cancel(c)
      <4>1. OwnerFramed(t)
        BY <3>2 DEF schedule_cancel, OwnerFramed, HeldToFree, BeingMade, Unused
      <4> QED BY <1>0, <4>1, OwnerFrame
    <3>3. CASE scheduler_execute(c)
      <4>1. OwnerFramed(t)
        BY <3>3, <1>a DEF scheduler_execute, OwnerFramed, HeldToFree, BeingMade, Unused
      <4> QED BY <1>0, <4>1, OwnerFrame
    <3> QED BY <2>1, <3>1, <3>2, <3>3
  <2> QED BY <1>3, <2>1 DEF TimedSchedulerStep
<1>4. ASSUME NEW c \in Cores, ThreadCall(c) PROVE OneOwner(t)'
  <2>1. CASE \/ scheduler_yield(c)
            \/ scheduler_exit(c)
            \/ scheduler_park(c, "park", "publish")
            \/ scheduler_park(c, "park_null", NULL)
            \/ scheduler_park(c, "park_fail", "fail")
            \/ scheduler_park(c, "sleep", "sleep")
            \/ scheduler_reschedule_now(c)
            \/ scheduler_reschedule_later(c)
            \/ scheduler_preempt_disable(c)
            \/ scheduler_preempt_enable(c)
            \/ scheduler_wakeup_thread(c)
            \/ thread_create(c)
    <3>1. CASE scheduler_yield(c)
      <4>1. OwnerFramed(t)
        BY <3>1 DEF scheduler_yield, OwnerFramed, HeldToFree, BeingMade, Unused
      <4> QED BY <1>0, <4>1, OwnerFrame
    <3>2. CASE scheduler_exit(c)
      <4>1. OwnerFramed(t)
        BY <3>2 DEF scheduler_exit, OwnerFramed, HeldToFree, BeingMade, Unused
      <4> QED BY <1>0, <4>1, OwnerFrame
    <3>3. CASE scheduler_park(c, "park", "publish")
      <4>1. OwnerFramed(t)
        BY <3>3 DEF scheduler_park, OwnerFramed, HeldToFree, BeingMade, Unused
      <4> QED BY <1>0, <4>1, OwnerFrame
    <3>4. CASE scheduler_park(c, "park_null", NULL)
      <4>1. OwnerFramed(t)
        BY <3>4 DEF scheduler_park, OwnerFramed, HeldToFree, BeingMade, Unused
      <4> QED BY <1>0, <4>1, OwnerFrame
    <3>5. CASE scheduler_park(c, "park_fail", "fail")
      <4>1. OwnerFramed(t)
        BY <3>5 DEF scheduler_park, OwnerFramed, HeldToFree, BeingMade, Unused
      <4> QED BY <1>0, <4>1, OwnerFrame
    <3>6. CASE scheduler_park(c, "sleep", "sleep")
      <4>1. OwnerFramed(t)
        BY <3>6 DEF scheduler_park, OwnerFramed, HeldToFree, BeingMade, Unused
      <4> QED BY <1>0, <4>1, OwnerFrame
    <3>7. CASE scheduler_reschedule_now(c)
      <4>1. OwnerFramed(t)
        BY <3>7 DEF scheduler_reschedule_now, OwnerFramed, HeldToFree, BeingMade, Unused
      <4> QED BY <1>0, <4>1, OwnerFrame
    <3>8. CASE scheduler_reschedule_later(c)
      <4>1. OwnerFramed(t)
        BY <3>8 DEF scheduler_reschedule_later, OwnerFramed, HeldToFree, BeingMade,
           Unused
      <4> QED BY <1>0, <4>1, OwnerFrame
    <3>9. CASE scheduler_preempt_disable(c)
      <4>1. OwnerFramed(t)
        BY <3>9 DEF scheduler_preempt_disable, OwnerFramed, HeldToFree, BeingMade,
           Unused
      <4> QED BY <1>0, <4>1, OwnerFrame
    <3>10. CASE scheduler_preempt_enable(c)
      <4>1. OwnerFramed(t)
        BY <3>10 DEF scheduler_preempt_enable, OwnerFramed, HeldToFree, BeingMade,
           Unused
      <4> QED BY <1>0, <4>1, OwnerFrame
    <3>11. CASE scheduler_wakeup_thread(c)
      <4>1. OwnerFramed(t)
        BY <3>11 DEF scheduler_wakeup_thread, OwnerFramed, HeldToFree, BeingMade, Unused
      <4> QED BY <1>0, <4>1, OwnerFrame
    <3>12. CASE thread_create(c)
      <4>1. OwnerFramed(t)
        BY <3>12 DEF thread_create, OwnerFramed, HeldToFree, BeingMade, Unused
      <4> QED BY <1>0, <4>1, OwnerFrame
    <3> QED BY <2>1, <3>1, <3>2, <3>3, <3>4, <3>5, <3>6, <3>7, <3>8, <3>9, <3>10, <3>11,
      <3>12
  <2> QED BY <1>4, <2>1 DEF ThreadCall
<1>5. ASSUME NEW c \in Cores, ThreadStep(c) PROVE OneOwner(t)'
  <2>1. CASE create_alloc(c)
    <3> PICK u \in Threads :
             /\ thread_alloc_reuse(u) \/ thread_alloc_grow(u)
             /\ target' = [target EXCEPT ![current[c]] = u]
      BY <2>1 DEF create_alloc
    <3>1. CASE thread_alloc_reuse(u)
      BY <2>1, <3>1, <1>0 DEF create_alloc, thread_alloc_reuse, OneOwner, HeldToFree, BeingMade, Unused
    <3>2. CASE thread_alloc_grow(u)
      BY <2>1, <3>2, <1>0 DEF create_alloc, thread_alloc_grow, OneOwner, HeldToFree, BeingMade, Unused, Threads
    <3> QED BY <3>1, <3>2
  <2>2. CASE create_finish(c)
    BY <2>2, <1>0, CorePointers DEF OneOwner, HeldToFree, BeingMade, Unused, create_finish
  <2>3. CASE \/ preempt_enable_yield(c)
            \/ preempt_enable_skip(c)
            \/ preempt_enable_dec(c)
            \/ wakeup_enqueue(c)
            \/ create_lock(c)
            \/ create_exhausted(c)
            \/ create_assert_fails(c)
    <3>1. CASE preempt_enable_yield(c)
      <4>1. OwnerFramed(t)
        BY <3>1 DEF preempt_enable_yield, OwnerFramed, HeldToFree, BeingMade, Unused
      <4> QED BY <1>0, <4>1, OwnerFrame
    <3>2. CASE preempt_enable_skip(c)
      <4>1. OwnerFramed(t)
        BY <3>2 DEF preempt_enable_skip, OwnerFramed, HeldToFree, BeingMade, Unused
      <4> QED BY <1>0, <4>1, OwnerFrame
    <3>3. CASE preempt_enable_dec(c)
      <4>1. OwnerFramed(t)
        BY <3>3 DEF preempt_enable_dec, OwnerFramed, HeldToFree, BeingMade, Unused
      <4> QED BY <1>0, <4>1, OwnerFrame
    <3>4. CASE wakeup_enqueue(c)
      <4>1. OwnerFramed(t)
        BY <3>4, <1>a DEF wakeup_enqueue, OwnerFramed, HeldToFree, BeingMade, Unused
      <4> QED BY <1>0, <4>1, OwnerFrame
    <3>5. CASE create_lock(c)
      <4>1. OwnerFramed(t)
        BY <3>5 DEF create_lock, thread_alloc_lock, OwnerFramed, HeldToFree, BeingMade,
           Unused
      <4> QED BY <1>0, <4>1, OwnerFrame
    <3>6. CASE create_exhausted(c)
      <4>1. OwnerFramed(t)
        BY <3>6 DEF create_exhausted, thread_alloc_exhausted, OwnerFramed, HeldToFree,
           BeingMade, Unused
      <4> QED BY <1>0, <4>1, OwnerFrame
    <3>7. CASE create_assert_fails(c)
      <4>1. OwnerFramed(t)
        BY <3>7 DEF create_assert_fails, OwnerFramed, HeldToFree, BeingMade, Unused
      <4> QED BY <1>0, <4>1, OwnerFrame
    <3> QED BY <2>3, <3>1, <3>2, <3>3, <3>4, <3>5, <3>6, <3>7
  <2> QED BY <1>5, <2>1, <2>2, <2>3 DEF ThreadStep
<1>6. ASSUME NEW c \in Cores, IrqStep(c) PROVE OneOwner(t)'
  <2>1. CASE \/ scheduler_timer_tick(c)
            \/ \E u \in Threads : sleep_wakeup_thread(c, u)
            \/ irq_exit_yield(c)
            \/ irq_exit_return(c)
    <3>1. CASE scheduler_timer_tick(c)
      <4>1. OwnerFramed(t)
        BY <3>1 DEF scheduler_timer_tick, OwnerFramed, HeldToFree, BeingMade, Unused
      <4> QED BY <1>0, <4>1, OwnerFrame
    <3>2. CASE \E u \in Threads : sleep_wakeup_thread(c, u)
      <4>1. OwnerFramed(t)
        BY <3>2, <1>a DEF sleep_wakeup_thread, OwnerFramed, HeldToFree, BeingMade,
           Unused
      <4> QED BY <1>0, <4>1, OwnerFrame
    <3>3. CASE irq_exit_yield(c)
      <4>1. OwnerFramed(t)
        BY <3>3, IrqYieldsThread DEF irq_exit_yield, OwnerFramed, HeldToFree, BeingMade,
           Unused
      <4> QED BY <1>0, <4>1, OwnerFrame
    <3>4. CASE irq_exit_return(c)
      <4>1. OwnerFramed(t)
        BY <3>4 DEF irq_exit_return, OwnerFramed, HeldToFree, BeingMade, Unused
      <4> QED BY <1>0, <4>1, OwnerFrame
    <3> QED BY <2>1, <3>1, <3>2, <3>3, <3>4
  <2> QED BY <1>6, <2>1 DEF IrqStep
<1>7. ASSUME NEW c \in Cores, timer_interrupt_handler(c) PROVE OneOwner(t)'
  <2>1. OwnerFramed(t)
    BY <1>7 DEF timer_interrupt_handler, OwnerFramed, HeldToFree, BeingMade, Unused
  <2> QED BY <1>0, <2>1, OwnerFrame
<1>8. ASSUME NEW c \in Cores, core_stops(c) PROVE OneOwner(t)'
  <2>1. OwnerFramed(t)
    BY <1>8 DEF core_stops, OwnerFramed, HeldToFree, BeingMade, Unused
  <2> QED BY <1>0, <2>1, OwnerFrame
<1> QED BY <1>1, <1>2, <1>3, <1>4, <1>5, <1>6, <1>7, <1>8 DEF SchedNext

----------------------------------------------------------------------------
(* The queue of core d has t in slot i. *)
InSlot(d, i, t) == i \in Slots(d) /\ queue[d][i] = t

(* A step that moves t neither into nor out of a run queue. *)
QueueFramed(t) ==
    /\ (status'[t] = "RUNNABLE") <=> (status[t] = "RUNNABLE")
    /\ \A d \in Cores : \A i \in Nat : InSlot(d, i, t)' <=> InSlot(d, i, t)
    /\ \A d \in Cores : HeldToRun(d, t)' <=> HeldToRun(d, t)

(* QueuedOnce in terms of InSlot, whose slots do not depend on the queue. *)
QueuedOnceIn(t) ==
    /\ status[t] = "RUNNABLE" <=>
          \/ \E c \in Cores : \E i \in Nat : InSlot(c, i, t)
          \/ \E c \in Cores : HeldToRun(c, t)
    /\ \A c, d \in Cores : \A i, j \in Nat : InSlot(c, i, t) /\ InSlot(d, j, t) => c = d /\ i = j
    /\ \A c, d \in Cores : HeldToRun(c, t) /\ HeldToRun(d, t) => c = d
    /\ \A c, d \in Cores : \A i \in Nat : InSlot(c, i, t) => ~HeldToRun(d, t)

LEMMA QueuedOnceSlots ==
  ASSUME TypeOK, NEW t \in Threads PROVE QueuedOnce(t) <=> QueuedOnceIn(t)
<1>1. \A c \in Cores : Slots(c) \subseteq Nat
  BY DEF TypeOK, Slots
<1> QED BY <1>1 DEF QueuedOnce, QueuedOnceIn, InSlot

LEMMA QueuedOnceSlotsNext ==
  ASSUME TypeOK', NEW t \in Threads PROVE QueuedOnce(t)' <=> QueuedOnceIn(t)'
<1>1. \A c \in Cores : Slots(c)' \subseteq Nat
  BY DEF TypeOK, Slots
<1> QED BY <1>1 DEF QueuedOnce, QueuedOnceIn, InSlot

(* Such a step keeps the one place of t in the run queues. *)
LEMMA QueueFrame ==
  ASSUME NEW t \in Threads, QueuedOnceIn(t), QueueFramed(t) PROVE QueuedOnceIn(t)'
BY DEF QueuedOnceIn, QueueFramed

(* The slots of a queue after list_add_tail, list_add and list_pop. *)
LEMMA AppendSlots ==
  ASSUME NEW s \in Seq(Threads), NEW u \in Threads, NEW t, NEW i \in Nat
  PROVE  (i \in 1 .. Len(Append(s, u)) /\ Append(s, u)[i] = t) <=>
         (i \in 1 .. Len(s) /\ s[i] = t) \/ (i = Len(s) + 1 /\ u = t)
OBVIOUS

LEMMA ConsSlots ==
  ASSUME NEW s \in Seq(Threads), NEW u \in Threads, NEW t, NEW i \in Nat
  PROVE  (i \in 1 .. Len(<<u>> \o s) /\ (<<u>> \o s)[i] = t) <=>
         (i = 1 /\ u = t) \/ (i > 1 /\ i - 1 \in 1 .. Len(s) /\ s[i - 1] = t)
OBVIOUS

LEMMA TailSlots ==
  ASSUME NEW s \in Seq(Threads), s # <<>>, NEW t, NEW i \in Nat
  PROVE  (i \in 1 .. Len(Tail(s)) /\ Tail(s)[i] = t) <=>
         (i > 0 /\ i + 1 \in 1 .. Len(s) /\ s[i + 1] = t)
OBVIOUS

(* Popping the first thread h of the queue of c moves h into the hands of the
   scheduler and every other thread of that queue one slot forward. *)
LEMMA PopMoves ==
  ASSUME NEW t \in Threads, NEW c \in Cores, NEW h, QueuedOnceIn(t),
         status'[t] = status[t],
         \A d \in Cores : d # c => \A i \in Nat : InSlot(d, i, t)' <=> InSlot(d, i, t),
         \A i \in Nat : InSlot(c, i, t)' <=> i > 0 /\ InSlot(c, i + 1, t),
         \A i \in Nat : InSlot(c, i, t) => i > 0,
         InSlot(c, 1, t) <=> t = h,
         \A d \in Cores : HeldToRun(d, t)' <=> HeldToRun(d, t) \/ (d = c /\ t = h)
  PROVE  QueuedOnceIn(t)'
<1>1. CASE t = h
  <2>1. \A d \in Cores : \A i \in Nat : ~InSlot(d, i, t)'
    BY <1>1 DEF QueuedOnceIn
  <2>2. \A d \in Cores : HeldToRun(d, t)' <=> d = c
    BY <1>1 DEF QueuedOnceIn
  <2>3. status[t] = "RUNNABLE"
    BY <1>1 DEF QueuedOnceIn
  <2> QED BY <2>1, <2>2, <2>3 DEF QueuedOnceIn
<1>2. CASE t # h
  <2>1. \A i \in Nat : InSlot(c, i, t) => i - 1 \in Nat /\ InSlot(c, i - 1, t)'
    BY <1>2
  <2>2. \A d \in Cores : HeldToRun(d, t)' <=> HeldToRun(d, t)
    BY <1>2
  <2>3. (\E d \in Cores : \E i \in Nat : InSlot(d, i, t)') <=> (\E d \in Cores : \E i \in Nat : InSlot(d, i, t))
    <3>1. ASSUME NEW d \in Cores, NEW i \in Nat, InSlot(d, i, t)'
          PROVE  \E e \in Cores : \E j \in Nat : InSlot(e, j, t)
      BY <3>1
    <3>2. ASSUME NEW d \in Cores, NEW i \in Nat, InSlot(d, i, t)
          PROVE  \E e \in Cores : \E j \in Nat : InSlot(e, j, t)'
      BY <3>2, <2>1
    <3> QED BY <3>1, <3>2
  <2>4. \A d, e \in Cores : \A i, j \in Nat : InSlot(d, i, t)' /\ InSlot(e, j, t)' => d = e /\ i = j
    BY DEF QueuedOnceIn
  <2>5. \A d, e \in Cores : \A i \in Nat : InSlot(d, i, t)' => ~HeldToRun(e, t)'
    BY <2>2 DEF QueuedOnceIn
  <2> QED BY <2>2, <2>3, <2>4, <2>5 DEF QueuedOnceIn
<1> QED BY <1>1, <1>2

(* Linking thread u at the head of the queue of c. *)
LEMMA PushMoves ==
  ASSUME NEW t \in Threads, NEW c \in Cores, NEW u, QueuedOnceIn(t),
         t = u => status[t] # "RUNNABLE" /\ status'[t] = "RUNNABLE",
         t # u => status'[t] = status[t],
         \A d \in Cores : d # c => \A i \in Nat : InSlot(d, i, t)' <=> InSlot(d, i, t),
         \A i \in Nat : InSlot(c, i, t)' <=> (i = 1 /\ t = u) \/ (i > 1 /\ InSlot(c, i - 1, t)),
         \A i \in Nat : InSlot(c, i, t) => i > 0,
         \A d \in Cores : HeldToRun(d, t)' <=> HeldToRun(d, t)
  PROVE  QueuedOnceIn(t)'
<1>1. CASE t = u
  <2>1. \A d \in Cores : \A i \in Nat : ~InSlot(d, i, t)
    BY <1>1 DEF QueuedOnceIn
  <2>2. \A d \in Cores : \A i \in Nat : InSlot(d, i, t)' <=> d = c /\ i = 1
    BY <1>1, <2>1
  <2>3. \A d \in Cores : ~HeldToRun(d, t)'
    BY <1>1 DEF QueuedOnceIn
  <2> QED BY <1>1, <2>2, <2>3 DEF QueuedOnceIn
<1>2. CASE t # u
  <2>1. \A i \in Nat : InSlot(c, i, t) => i + 1 \in Nat /\ InSlot(c, i + 1, t)'
    BY <1>2
  <2>3. (\E d \in Cores : \E i \in Nat : InSlot(d, i, t)') <=> (\E d \in Cores : \E i \in Nat : InSlot(d, i, t))
    <3>1. ASSUME NEW d \in Cores, NEW i \in Nat, InSlot(d, i, t)'
          PROVE  \E e \in Cores : \E j \in Nat : InSlot(e, j, t)
      <4>1. CASE d = c
        <5>1. i - 1 \in Nat /\ InSlot(c, i - 1, t)
          BY <1>2, <3>1, <4>1
        <5> QED BY <5>1
      <4> QED BY <3>1, <4>1
    <3>2. ASSUME NEW d \in Cores, NEW i \in Nat, InSlot(d, i, t)
          PROVE  \E e \in Cores : \E j \in Nat : InSlot(e, j, t)'
      BY <3>2, <2>1
    <3> QED BY <3>1, <3>2
  <2>4. \A i \in Nat : InSlot(c, i, t)' => i - 1 \in Nat /\ InSlot(c, i - 1, t)
    BY <1>2
  <2>5. ASSUME NEW d \in Cores, NEW e \in Cores, NEW i \in Nat, NEW j \in Nat,
               InSlot(d, i, t)', InSlot(e, j, t)'
        PROVE  d = e /\ i = j
    <3>1. CASE d = c /\ e = c
      <4>1. i - 1 = j - 1
        BY <2>4, <2>5, <3>1 DEF QueuedOnceIn
      <4> QED BY <3>1, <4>1
    <3>2. CASE d # c \/ e # c
      BY <2>4, <2>5, <3>2 DEF QueuedOnceIn
    <3> QED BY <3>1, <3>2
  <2>6. \A d, e \in Cores : \A i \in Nat : InSlot(d, i, t)' => ~HeldToRun(e, t)'
    BY <2>4 DEF QueuedOnceIn
  <2> QED BY <1>2, <2>3, <2>5, <2>6 DEF QueuedOnceIn
<1> QED BY <1>1, <1>2

(* Linking thread u at the tail of the queue of c, in slot n. *)
LEMMA AppendMoves ==
  ASSUME NEW t \in Threads, NEW c \in Cores, NEW u, NEW n \in Nat, QueuedOnceIn(t),
         t = u => status[t] # "RUNNABLE" /\ status'[t] = "RUNNABLE",
         t # u => status'[t] = status[t],
         \A d \in Cores : \A i \in Nat : InSlot(d, i, t)' <=>
             InSlot(d, i, t) \/ (d = c /\ i = n /\ t = u),
         \A d \in Cores : HeldToRun(d, t)' <=> HeldToRun(d, t)
  PROVE  QueuedOnceIn(t)'
<1>1. CASE t = u
  BY <1>1 DEF QueuedOnceIn
<1>2. CASE t # u
  BY <1>2 DEF QueuedOnceIn
<1> QED BY <1>1, <1>2

(* Steps keep every runnable thread in one slot of one queue.              *)
LEMMA RunnableStep == IInv /\ [SchedNext]_schedVars => RunnableIsQueuedOnce'
<1> SUFFICES ASSUME IInv, [SchedNext]_schedVars, NEW t \in Threads PROVE QueuedOnceIn(t)'
  BY TypeStep, QueuedOnceSlotsNext DEF RunnableIsQueuedOnce
<1> USE PlatformAssumption, SchedulerAssumption, NullNotThread
<1> USE DEF TypeOK, ThreadTypeOK, thread_status, CoreLabels, ThreadLabels, Callbacks,
      FlowOK, CurrentLabels, HeldLabels, IInv
<1>0. QueuedOnceIn(t)
  BY QueuedOnceSlots DEF RunnableIsQueuedOnce
<1>1. CASE UNCHANGED schedVars
  <2>1. QueueFramed(t)
    BY <1>1 DEF schedVars, QueueFramed, InSlot, Slots, HeldToRun
  <2> QED BY <1>0, <2>1, QueueFrame
<1>2. ASSUME NEW c \in Cores, SchedulerStep(c) PROVE QueuedOnceIn(t)'
  <2>1. CASE scheduler_yield_internal(c)
    <3>1. current[c] \in Threads
      BY <2>1, CorePointers DEF scheduler_yield_internal
    <3>2. /\ status[current[c]] = "RUNNING"
          /\ status' = [status EXCEPT ![current[c]] = "RUNNABLE"]
      BY <2>1 DEF scheduler_yield_internal
    <3>3. queue' = [queue EXCEPT ![c] = Append(queue[c], current[c])]
      BY <2>1 DEF scheduler_yield_internal
    <3> DEFINE n == Len(queue[c]) + 1
    <3>4. n \in Nat
      OBVIOUS
    <3>5. \A d \in Cores : \A i \in Nat : InSlot(d, i, t)' <=>
            InSlot(d, i, t) \/ (d = c /\ i = n /\ t = current[c])
      BY <3>1, <3>3, AppendSlots DEF InSlot, Slots
    <3>6. \A d \in Cores : HeldToRun(d, t)' <=> HeldToRun(d, t)
      BY <2>1 DEF scheduler_yield_internal, HeldToRun
    <3>7. /\ t = current[c] => status[t] # "RUNNABLE" /\ status'[t] = "RUNNABLE"
          /\ t # current[c] => status'[t] = status[t]
      BY <3>1, <3>2
    <3> HIDE DEF IInv, n
    <3> QED BY <1>0, <3>1, <3>4, <3>5, <3>6, <3>7, AppendMoves
  <2>2. CASE park_callback_fail(c)
    BY <2>2, <1>0, CorePointers DEF QueuedOnceIn, InSlot, Slots, HeldToRun, park_callback_fail
  <2>3. CASE schedule_pop(c)
    <3> DEFINE h == Head(queue[c])
    <3>1. queue[c] # <<>> /\ queue' = [queue EXCEPT ![c] = Tail(queue[c])]
      BY <2>3 DEF schedule_pop
    <3>2. held' = [held EXCEPT ![c] = h] /\ status'[t] = status[t]
      BY <2>3 DEF schedule_pop
    <3>3. pc[c] = "pop" /\ pc' = [pc EXCEPT ![c] = "execute"]
      BY <2>3 DEF schedule_pop
    <3>4. \A d \in Cores : d # c => \A i \in Nat : InSlot(d, i, t)' <=> InSlot(d, i, t)
      BY <3>1 DEF InSlot, Slots
    <3>5. \A i \in Nat : InSlot(c, i, t)' <=> i > 0 /\ InSlot(c, i + 1, t)
      BY <3>1, TailSlots DEF InSlot, Slots
    <3>6. \A i \in Nat : InSlot(c, i, t) => i > 0
      BY DEF InSlot, Slots
    <3>7. InSlot(c, 1, t) <=> t = h
      BY <3>1 DEF InSlot, Slots
    <3>8. \A d \in Cores : HeldToRun(d, t)' <=> HeldToRun(d, t) \/ (d = c /\ t = h)
      BY <3>2, <3>3 DEF HeldToRun
    <3> HIDE DEF h, IInv
    <3> QED BY <1>0, <3>2, <3>4, <3>5, <3>6, <3>7, <3>8, PopMoves
  <2>4. CASE \/ scheduler_park_internal(c)
            \/ scheduler_park_internal_null(c)
            \/ park_callback_publish(c)
            \/ scheduler_exit_internal(c)
            \/ exit_thread_free_clear(c)
            \/ exit_thread_free_link(c)
            \/ core_prepare_park(c)
            \/ schedule_pop_empty(c)
            \/ core_park(c)
    <3>1. CASE scheduler_park_internal(c)
      <4>1. QueueFramed(t)
        BY <3>1 DEF scheduler_park_internal, QueueFramed, InSlot, Slots, HeldToRun
      <4> QED BY <1>0, <4>1, QueueFrame
    <3>2. CASE scheduler_park_internal_null(c)
      <4>1. QueueFramed(t)
        BY <3>2 DEF scheduler_park_internal_null, QueueFramed, InSlot, Slots, HeldToRun
      <4> QED BY <1>0, <4>1, QueueFrame
    <3>3. CASE park_callback_publish(c)
      <4>1. QueueFramed(t)
        BY <3>3 DEF park_callback_publish, QueueFramed, InSlot, Slots, HeldToRun
      <4> QED BY <1>0, <4>1, QueueFrame
    <3>4. CASE scheduler_exit_internal(c)
      <4>1. QueueFramed(t)
        BY <3>4 DEF scheduler_exit_internal, QueueFramed, InSlot, Slots, HeldToRun
      <4> QED BY <1>0, <4>1, QueueFrame
    <3>5. CASE exit_thread_free_clear(c)
      <4>1. QueueFramed(t)
        BY <3>5, CorePointers DEF exit_thread_free_clear, thread_free_clear,
           QueueFramed, InSlot, Slots, HeldToRun
      <4> QED BY <1>0, <4>1, QueueFrame
    <3>6. CASE exit_thread_free_link(c)
      <4>1. QueueFramed(t)
        BY <3>6 DEF exit_thread_free_link, thread_free_link, QueueFramed, InSlot, Slots,
           HeldToRun
      <4> QED BY <1>0, <4>1, QueueFrame
    <3>7. CASE core_prepare_park(c)
      <4>1. QueueFramed(t)
        BY <3>7 DEF core_prepare_park, QueueFramed, InSlot, Slots, HeldToRun
      <4> QED BY <1>0, <4>1, QueueFrame
    <3>8. CASE schedule_pop_empty(c)
      <4>1. QueueFramed(t)
        BY <3>8 DEF schedule_pop_empty, QueueFramed, InSlot, Slots, HeldToRun
      <4> QED BY <1>0, <4>1, QueueFrame
    <3>9. CASE core_park(c)
      <4>1. QueueFramed(t)
        BY <3>9 DEF core_park, QueueFramed, InSlot, Slots, HeldToRun
      <4> QED BY <1>0, <4>1, QueueFrame
    <3> QED BY <2>4, <3>1, <3>2, <3>3, <3>4, <3>5, <3>6, <3>7, <3>8, <3>9
  <2> QED BY <1>2, <2>1, <2>2, <2>3, <2>4 DEF SchedulerStep
<1>3. ASSUME NEW c \in Cores, TimedSchedulerStep(c) PROVE QueuedOnceIn(t)'
  <2>1. CASE scheduler_execute(c)
    BY <2>1, <1>0, CorePointers DEF QueuedOnceIn, InSlot, Slots, HeldToRun, scheduler_execute
  <2>2. CASE \/ sleep_park_callback(c)
            \/ schedule_cancel(c)
    <3>1. CASE sleep_park_callback(c)
      <4>1. QueueFramed(t)
        BY <3>1 DEF sleep_park_callback, QueueFramed, InSlot, Slots, HeldToRun
      <4> QED BY <1>0, <4>1, QueueFrame
    <3>2. CASE schedule_cancel(c)
      <4>1. QueueFramed(t)
        BY <3>2 DEF schedule_cancel, QueueFramed, InSlot, Slots, HeldToRun
      <4> QED BY <1>0, <4>1, QueueFrame
    <3> QED BY <2>2, <3>1, <3>2
  <2> QED BY <1>3, <2>1, <2>2 DEF TimedSchedulerStep
<1>4. ASSUME NEW c \in Cores, ThreadCall(c) PROVE QueuedOnceIn(t)'
  <2>1. CASE \/ scheduler_yield(c)
            \/ scheduler_exit(c)
            \/ scheduler_park(c, "park", "publish")
            \/ scheduler_park(c, "park_null", NULL)
            \/ scheduler_park(c, "park_fail", "fail")
            \/ scheduler_park(c, "sleep", "sleep")
            \/ scheduler_reschedule_now(c)
            \/ scheduler_reschedule_later(c)
            \/ scheduler_preempt_disable(c)
            \/ scheduler_preempt_enable(c)
            \/ scheduler_wakeup_thread(c)
            \/ thread_create(c)
    <3>1. CASE scheduler_yield(c)
      <4>1. QueueFramed(t)
        BY <3>1 DEF scheduler_yield, QueueFramed, InSlot, Slots, HeldToRun
      <4> QED BY <1>0, <4>1, QueueFrame
    <3>2. CASE scheduler_exit(c)
      <4>1. QueueFramed(t)
        BY <3>2 DEF scheduler_exit, QueueFramed, InSlot, Slots, HeldToRun
      <4> QED BY <1>0, <4>1, QueueFrame
    <3>3. CASE scheduler_park(c, "park", "publish")
      <4>1. QueueFramed(t)
        BY <3>3 DEF scheduler_park, QueueFramed, InSlot, Slots, HeldToRun
      <4> QED BY <1>0, <4>1, QueueFrame
    <3>4. CASE scheduler_park(c, "park_null", NULL)
      <4>1. QueueFramed(t)
        BY <3>4 DEF scheduler_park, QueueFramed, InSlot, Slots, HeldToRun
      <4> QED BY <1>0, <4>1, QueueFrame
    <3>5. CASE scheduler_park(c, "park_fail", "fail")
      <4>1. QueueFramed(t)
        BY <3>5 DEF scheduler_park, QueueFramed, InSlot, Slots, HeldToRun
      <4> QED BY <1>0, <4>1, QueueFrame
    <3>6. CASE scheduler_park(c, "sleep", "sleep")
      <4>1. QueueFramed(t)
        BY <3>6 DEF scheduler_park, QueueFramed, InSlot, Slots, HeldToRun
      <4> QED BY <1>0, <4>1, QueueFrame
    <3>7. CASE scheduler_reschedule_now(c)
      <4>1. QueueFramed(t)
        BY <3>7 DEF scheduler_reschedule_now, QueueFramed, InSlot, Slots, HeldToRun
      <4> QED BY <1>0, <4>1, QueueFrame
    <3>8. CASE scheduler_reschedule_later(c)
      <4>1. QueueFramed(t)
        BY <3>8 DEF scheduler_reschedule_later, QueueFramed, InSlot, Slots, HeldToRun
      <4> QED BY <1>0, <4>1, QueueFrame
    <3>9. CASE scheduler_preempt_disable(c)
      <4>1. QueueFramed(t)
        BY <3>9 DEF scheduler_preempt_disable, QueueFramed, InSlot, Slots, HeldToRun
      <4> QED BY <1>0, <4>1, QueueFrame
    <3>10. CASE scheduler_preempt_enable(c)
      <4>1. QueueFramed(t)
        BY <3>10 DEF scheduler_preempt_enable, QueueFramed, InSlot, Slots, HeldToRun
      <4> QED BY <1>0, <4>1, QueueFrame
    <3>11. CASE scheduler_wakeup_thread(c)
      <4>1. QueueFramed(t)
        BY <3>11 DEF scheduler_wakeup_thread, QueueFramed, InSlot, Slots, HeldToRun
      <4> QED BY <1>0, <4>1, QueueFrame
    <3>12. CASE thread_create(c)
      <4>1. QueueFramed(t)
        BY <3>12 DEF thread_create, QueueFramed, InSlot, Slots, HeldToRun
      <4> QED BY <1>0, <4>1, QueueFrame
    <3> QED BY <2>1, <3>1, <3>2, <3>3, <3>4, <3>5, <3>6, <3>7, <3>8, <3>9, <3>10, <3>11,
      <3>12
  <2> QED BY <1>4, <2>1 DEF ThreadCall
<1>5. ASSUME NEW c \in Cores, ThreadStep(c) PROVE QueuedOnceIn(t)'
  <2>1. CASE wakeup_enqueue(c)
    <3>1. target[current[c]] \in Threads
      BY <2>1, CorePointers, TargetPointers DEF wakeup_enqueue
    <3>2. status[target[current[c]]] = "WAITING" /\ status' = [status EXCEPT ![target[current[c]]] = "RUNNABLE"]
      BY <2>1 DEF wakeup_enqueue
    <3>3. queue' = [queue EXCEPT ![c] = <<target[current[c]]>> \o queue[c]] /\ UNCHANGED <<pc, held>>
      BY <2>1 DEF wakeup_enqueue
    <3>4. \A d \in Cores : d # c => \A i \in Nat : InSlot(d, i, t)' <=> InSlot(d, i, t)
      BY <3>3 DEF InSlot, Slots
    <3>5. \A i \in Nat : InSlot(c, i, t)' <=>
            (i = 1 /\ t = target[current[c]]) \/ (i > 1 /\ InSlot(c, i - 1, t))
      BY <3>1, <3>3, ConsSlots DEF InSlot, Slots
    <3>6. \A i \in Nat : InSlot(c, i, t) => i > 0
      BY DEF InSlot, Slots
    <3>7. \A d \in Cores : HeldToRun(d, t)' <=> HeldToRun(d, t)
      BY <3>3 DEF HeldToRun
    <3>8. (t = target[current[c]] => status[t] # "RUNNABLE" /\ status'[t] = "RUNNABLE") /\ (t # target[current[c]] => status'[t] = status[t])
      BY <3>1, <3>2
    <3> DEFINE u == target[current[c]]
    <3>9. /\ t = u => status[t] # "RUNNABLE" /\ status'[t] = "RUNNABLE"
          /\ t # u => status'[t] = status[t]
          /\ \A i \in Nat : InSlot(c, i, t)' <=> (i = 1 /\ t = u) \/ (i > 1 /\ InSlot(c, i - 1, t))
      BY <3>5, <3>8
    <3> HIDE DEF IInv, u
    <3> QED BY ONLY <1>0, <1>5, <3>4, <3>6, <3>7, <3>9, PushMoves
  <2>2. CASE create_alloc(c)
    <3> PICK u \in Threads :
             /\ thread_alloc_reuse(u) \/ thread_alloc_grow(u)
             /\ target' = [target EXCEPT ![current[c]] = u]
      BY <2>2 DEF create_alloc
    <3>1. status[u] \in {"IDLE", "DEAD"}
      BY AllocatedBlock
    <3>2. /\ status'[u] \in {"IDLE", "DEAD"}
          /\ \A v \in Threads : v # u => status'[v] = status[v]
      BY DEF thread_alloc_reuse, thread_alloc_grow
    <3>3. QueueFramed(t)
      BY <2>2, <3>1, <3>2 DEF create_alloc, QueueFramed, InSlot, Slots, HeldToRun
    <3> QED BY <1>0, <3>3, QueueFrame
  <2>3. CASE \/ preempt_enable_yield(c)
            \/ preempt_enable_skip(c)
            \/ preempt_enable_dec(c)
            \/ create_lock(c)
            \/ create_exhausted(c)
            \/ create_finish(c)
            \/ create_assert_fails(c)
    <3>1. CASE preempt_enable_yield(c)
      <4>1. QueueFramed(t)
        BY <3>1 DEF preempt_enable_yield, QueueFramed, InSlot, Slots, HeldToRun
      <4> QED BY <1>0, <4>1, QueueFrame
    <3>2. CASE preempt_enable_skip(c)
      <4>1. QueueFramed(t)
        BY <3>2 DEF preempt_enable_skip, QueueFramed, InSlot, Slots, HeldToRun
      <4> QED BY <1>0, <4>1, QueueFrame
    <3>3. CASE preempt_enable_dec(c)
      <4>1. QueueFramed(t)
        BY <3>3 DEF preempt_enable_dec, QueueFramed, InSlot, Slots, HeldToRun
      <4> QED BY <1>0, <4>1, QueueFrame
    <3>4. CASE create_lock(c)
      <4>1. QueueFramed(t)
        BY <3>4 DEF create_lock, thread_alloc_lock, QueueFramed, InSlot, Slots,
           HeldToRun
      <4> QED BY <1>0, <4>1, QueueFrame
    <3>5. CASE create_exhausted(c)
      <4>1. QueueFramed(t)
        BY <3>5 DEF create_exhausted, thread_alloc_exhausted, QueueFramed, InSlot,
           Slots, HeldToRun
      <4> QED BY <1>0, <4>1, QueueFrame
    <3>6. CASE create_finish(c)
      <4>1. QueueFramed(t)
        BY <3>6 DEF create_finish, QueueFramed, InSlot, Slots, HeldToRun
      <4> QED BY <1>0, <4>1, QueueFrame
    <3>7. CASE create_assert_fails(c)
      <4>1. QueueFramed(t)
        BY <3>7 DEF create_assert_fails, QueueFramed, InSlot, Slots, HeldToRun
      <4> QED BY <1>0, <4>1, QueueFrame
    <3> QED BY <2>3, <3>1, <3>2, <3>3, <3>4, <3>5, <3>6, <3>7
  <2> QED BY <1>5, <2>1, <2>2, <2>3 DEF ThreadStep
<1>6. ASSUME NEW c \in Cores, IrqStep(c) PROVE QueuedOnceIn(t)'
  <2>1. CASE \E u \in Threads : sleep_wakeup_thread(c, u)
    <3> PICK u \in Threads : sleep_wakeup_thread(c, u)
      BY <2>1
    <3>1. u \in Threads
      OBVIOUS
    <3>2. status[u] = "WAITING" /\ status' = [status EXCEPT ![u] = "RUNNABLE"]
      BY DEF sleep_wakeup_thread
    <3>3. queue' = [queue EXCEPT ![c] = <<u>> \o queue[c]] /\ UNCHANGED <<pc, held>>
      BY DEF sleep_wakeup_thread
    <3>4. \A d \in Cores : d # c => \A i \in Nat : InSlot(d, i, t)' <=> InSlot(d, i, t)
      BY <3>3 DEF InSlot, Slots
    <3>5. \A i \in Nat : InSlot(c, i, t)' <=>
            (i = 1 /\ t = u) \/ (i > 1 /\ InSlot(c, i - 1, t))
      BY <3>1, <3>3, ConsSlots DEF InSlot, Slots
    <3>6. \A i \in Nat : InSlot(c, i, t) => i > 0
      BY DEF InSlot, Slots
    <3>7. \A d \in Cores : HeldToRun(d, t)' <=> HeldToRun(d, t)
      BY <3>3 DEF HeldToRun
    <3>8. (t = u => status[t] # "RUNNABLE" /\ status'[t] = "RUNNABLE") /\ (t # u => status'[t] = status[t])
      BY <3>1, <3>2
    <3> HIDE DEF IInv
    <3> QED BY <1>0, <3>1, <3>4, <3>5, <3>6, <3>7, <3>8, PushMoves
  <2>2. CASE \/ scheduler_timer_tick(c)
            \/ irq_exit_yield(c)
            \/ irq_exit_return(c)
    <3>1. CASE scheduler_timer_tick(c)
      <4>1. QueueFramed(t)
        BY <3>1 DEF scheduler_timer_tick, QueueFramed, InSlot, Slots, HeldToRun
      <4> QED BY <1>0, <4>1, QueueFrame
    <3>2. CASE irq_exit_yield(c)
      <4>1. QueueFramed(t)
        BY <3>2, IrqYieldsThread DEF irq_exit_yield, QueueFramed, InSlot, Slots,
           HeldToRun
      <4> QED BY <1>0, <4>1, QueueFrame
    <3>3. CASE irq_exit_return(c)
      <4>1. QueueFramed(t)
        BY <3>3 DEF irq_exit_return, QueueFramed, InSlot, Slots, HeldToRun
      <4> QED BY <1>0, <4>1, QueueFrame
    <3> QED BY <2>2, <3>1, <3>2, <3>3
  <2> QED BY <1>6, <2>1, <2>2 DEF IrqStep
<1>7. ASSUME NEW c \in Cores, timer_interrupt_handler(c) PROVE QueuedOnceIn(t)'
  <2>1. QueueFramed(t)
    BY <1>7 DEF timer_interrupt_handler, QueueFramed, InSlot, Slots, HeldToRun
  <2> QED BY <1>0, <2>1, QueueFrame
<1>8. ASSUME NEW c \in Cores, core_stops(c) PROVE QueuedOnceIn(t)'
  <2>1. QueueFramed(t)
    BY <1>8 DEF core_stops, QueueFramed, InSlot, Slots, HeldToRun
  <2> QED BY <1>0, <2>1, QueueFrame
<1> QED BY <1>1, <1>2, <1>3, <1>4, <1>5, <1>6, <1>7, <1>8 DEF SchedNext

----------------------------------------------------------------------------
(* The state _start leaves behind satisfies the inductive invariant. *)
LEMMA InitInv == SchedInit => IInv
<1> SUFFICES ASSUME SchedInit PROVE IInv
  OBVIOUS
<1> USE PlatformAssumption, NullNotThread DEF SchedInit, scheduler_init_per_core
<1>1. 0 \in Threads
  BY DEF Threads
<1>2. TypeOK
  <2>1. queue \in [Cores -> Seq(Threads)]
    BY <1>1
  <2>2. ThreadTypeOK
    BY DEF ThreadTypeOK, thread_status
  <2> QED BY <2>1, <2>2 DEF TypeOK, CoreLabels, ThreadLabels, Callbacks
<1>3. FlowOK
  BY DEF FlowOK, CurrentLabels, HeldLabels
<1>4. PreemptOK
  BY DEF PreemptOK, PinnedLabels
<1>5. RunsOnOneCore
  BY DEF RunsOnOneCore
<1>6. RunnableIsQueuedOnce
  <2> SUFFICES ASSUME NEW t \in Threads PROVE QueuedOnce(t)
    BY DEF RunnableIsQueuedOnce
  <2>1. \A c \in Cores : \A i \in Slots(c) : c = BSP /\ i = 1 /\ queue[c][i] = 0
    BY DEF Slots
  <2>2. 1 \in Slots(BSP)
    BY DEF Slots
  <2>3. \A c \in Cores : ~HeldToRun(c, t)
    BY DEF HeldToRun
  <2>4. status[t] = "RUNNABLE" <=> t = 0
    OBVIOUS
  <2> QED BY <2>1, <2>2, <2>3, <2>4 DEF QueuedOnce
<1>7. WaitingHasOneWaker
  BY DEF WaitingHasOneWaker, OneWaker, HeldToPark, BeingWoken
<1>8. BlockHasOneOwner
  BY DEF BlockHasOneOwner, OneOwner, HeldToFree, BeingMade, Unused, Threads
<1> QED BY <1>2, <1>3, <1>4, <1>5, <1>6, <1>7, <1>8 DEF IInv

(* Every step preserves the inductive invariant, from whichever state. *)
LEMMA StepInv == IInv /\ [SchedNext]_schedVars => IInv'
  BY TypeStep, FlowStep, PreemptStep, RunsStep, RunnableStep, WaitingStep, BlockStep
     DEF IInv

(***************************************************************************)
(* The invariant holds in every state of the scheduler: on any number of   *)
(* cores and threads, no interleaving of the calls, the interrupts and the *)
(* scheduler functions breaks it.                                          *)
(***************************************************************************)
THEOREM Inductive == SchedSpec => []IInv
  BY InitInv, StepInv, PTL DEF SchedSpec

(* Every variable of the scheduler stays in its domain; in particular the  *)
(* preempt count of a core never drops below zero and the pointers that    *)
(* scheduler.c follows are threads.                                        *)
THEOREM TypeCorrect == SchedSpec => []TypeOK
<1>1. IInv => TypeOK
  BY DEF IInv
<1> QED BY Inductive, <1>1, PTL

(* scheduler_execute never resumes a thread that some core still runs.     *)
THEOREM RunningThreadsAreCurrent == SchedSpec => []RunsOnOneCore
<1>1. IInv => RunsOnOneCore
  BY DEF IInv
<1> QED BY Inductive, <1>1, PTL

(* The scheduler_node of a thread is linked into at most one run queue,    *)
(* once, and a RUNNABLE thread is never dropped.                           *)
THEOREM RunnableThreadsAreQueued == SchedSpec => []RunnableIsQueuedOnce
<1>1. IInv => RunnableIsQueuedOnce
  BY DEF IInv
<1> QED BY Inductive, <1>1, PTL

(* A parked thread has one party that will wake it, from the status switch *)
(* of scheduler_park_internal to that of scheduler_wakeup_thread.          *)
THEOREM WaitingThreadsHaveAWaker == SchedSpec => []WaitingHasOneWaker
<1>1. IInv => WaitingHasOneWaker
  BY DEF IInv
<1> QED BY Inductive, <1>1, PTL

(* thread_alloc never hands out a block that is in use, nor one block to   *)
(* two callers.                                                            *)
THEOREM BlocksHaveAnOwner == SchedSpec => []BlockHasOneOwner
<1>1. IInv => BlockHasOneOwner
  BY DEF IInv
<1> QED BY Inductive, <1>1, PTL

(* The inductive invariant implies the assertions of the code. *)
LEMMA InvAsserts == IInv => AssertionsHold
<1> SUFFICES ASSUME IInv PROVE AssertionsHold
  OBVIOUS
<1>0. \A c \in Cores : preempt_count[c] \in Nat /\ irq[c] \in BOOLEAN
  BY DEF IInv, TypeOK
<1>1. ASSUME NEW c \in Cores, At(c, "yield") \/ At(c, "park") \/ At(c, "exit")
      PROVE  /\ preempt_count[c] = 1
             /\ current[c] \in Threads /\ status[current[c]] = "RUNNING"
  <2>1. pc[c] \in CurrentLabels /\ pc[c] # "thread" /\ ~irq[c]
    BY <1>1 DEF CurrentLabels
  <2> QED BY <2>1, CorePointers DEF IInv, PreemptOK
<1>2. ASSUME NEW c \in Cores, At(c, "execute") \/ At(c, "execute_inherit")
      PROVE  held[c] \in Threads /\ status[held[c]] = "RUNNABLE"
  BY <1>2, CorePointers DEF HeldLabels
<1>3. ASSUME NEW c \in Cores, InCall(c, "enable") \/ InCall(c, "enable_dec")
      PROVE  preempt_count[c] >= 1
  BY <1>3 DEF IInv, PreemptOK, PinnedLabels
<1>4. ASSUME NEW c \in Cores, irq[c], preempt_count[c] = 1 PROVE current[c] \in Threads
  <2>1. pc[c] = "thread"
    BY <1>4 DEF IInv, PreemptOK
  <2> QED BY <2>1, CorePointers DEF CurrentLabels
<1>5. ASSUME NEW u \in Threads, tpc[u] = "wake"
      PROVE  target[u] \in Threads /\ status[target[u]] = "WAITING"
  BY <1>5, TargetPointers
<1> QED BY <1>1, <1>2, <1>3, <1>4, <1>5 DEF AssertionsHold

(* The assertions of scheduler.c and thread_switch_status never fail: they *)
(* follow from the inductive invariant.                                    *)
THEOREM AssertionsNeverFail == SchedSpec => []AssertionsHold
  BY Inductive, InvAsserts, PTL

----------------------------------------------------------------------------
(* Steps keep an idle core awake while it has work: whatever links a thread *)
(* into the queue of a core also clears parked.                            *)
LEMMA NoLostWakeupStep == IInv /\ NoLostWakeup /\ [SchedNext]_schedVars => NoLostWakeup'
<1> SUFFICES ASSUME IInv, NoLostWakeup, [SchedNext]_schedVars PROVE NoLostWakeup'
  OBVIOUS
<1> USE DEF IInv, TypeOK, CoreLabels, NoLostWakeup
<1>1. CASE UNCHANGED schedVars
  BY <1>1 DEF schedVars
<1>2. ASSUME NEW c \in Cores, SchedulerStep(c) PROVE NoLostWakeup'
  <2>1. CASE scheduler_yield_internal(c)
    BY <2>1 DEF scheduler_yield_internal
  <2>2. CASE core_prepare_park(c)
    BY <2>2 DEF core_prepare_park
  <2>3. CASE schedule_pop_empty(c)
    BY <2>3 DEF schedule_pop_empty
  <2>4. CASE schedule_pop(c)
    BY <2>4 DEF schedule_pop
  <2>5. CASE \/ scheduler_park_internal(c)
            \/ scheduler_park_internal_null(c)
            \/ park_callback_publish(c)
            \/ park_callback_fail(c)
            \/ scheduler_exit_internal(c)
            \/ exit_thread_free_clear(c)
            \/ exit_thread_free_link(c)
            \/ core_park(c)
    BY <2>5 DEF scheduler_park_internal, scheduler_park_internal_null,
      park_callback_publish, park_callback_fail, scheduler_exit_internal,
      exit_thread_free_clear, thread_free_clear, exit_thread_free_link,
      thread_free_link, core_park
  <2> QED BY <1>2, <2>1, <2>2, <2>3, <2>4, <2>5 DEF SchedulerStep
<1>3. ASSUME NEW c \in Cores, TimedSchedulerStep(c) PROVE NoLostWakeup'
  <2>1. CASE \/ sleep_park_callback(c)
            \/ schedule_cancel(c)
            \/ scheduler_execute(c)
    BY <2>1 DEF sleep_park_callback, schedule_cancel, scheduler_execute
  <2> QED BY <1>3, <2>1 DEF TimedSchedulerStep
<1>4. ASSUME NEW c \in Cores, ThreadCall(c) PROVE NoLostWakeup'
  <2>1. CASE scheduler_reschedule_later(c)
    BY <2>1 DEF scheduler_reschedule_later
  <2>2. CASE \/ scheduler_yield(c)
            \/ scheduler_exit(c)
            \/ scheduler_park(c, "park", "publish")
            \/ scheduler_park(c, "park_null", NULL)
            \/ scheduler_park(c, "park_fail", "fail")
            \/ scheduler_park(c, "sleep", "sleep")
            \/ scheduler_reschedule_now(c)
            \/ scheduler_preempt_disable(c)
            \/ scheduler_preempt_enable(c)
            \/ scheduler_wakeup_thread(c)
            \/ thread_create(c)
    BY <2>2 DEF scheduler_yield, scheduler_exit, scheduler_park,
      scheduler_reschedule_now, scheduler_preempt_disable, scheduler_preempt_enable,
      scheduler_wakeup_thread, thread_create
  <2> QED BY <1>4, <2>1, <2>2 DEF ThreadCall
<1>5. ASSUME NEW c \in Cores, ThreadStep(c) PROVE NoLostWakeup'
  <2>1. CASE wakeup_enqueue(c)
    BY <2>1 DEF wakeup_enqueue
  <2>2. CASE create_alloc(c)
    BY <2>2 DEF create_alloc, thread_alloc_reuse, thread_alloc_grow
  <2>3. CASE \/ preempt_enable_yield(c)
            \/ preempt_enable_skip(c)
            \/ preempt_enable_dec(c)
            \/ create_lock(c)
            \/ create_exhausted(c)
            \/ create_finish(c)
            \/ create_assert_fails(c)
    BY <2>3 DEF preempt_enable_yield, preempt_enable_skip, preempt_enable_dec,
      create_lock, thread_alloc_lock, create_exhausted, thread_alloc_exhausted,
      create_finish, create_assert_fails
  <2> QED BY <1>5, <2>1, <2>2, <2>3 DEF ThreadStep
<1>6. ASSUME NEW c \in Cores, IrqStep(c) PROVE NoLostWakeup'
  <2>1. CASE scheduler_timer_tick(c)
    BY <2>1 DEF scheduler_timer_tick
  <2>2. CASE \E t \in Threads : sleep_wakeup_thread(c, t)
    BY <2>2 DEF sleep_wakeup_thread
  <2>3. CASE \/ irq_exit_yield(c)
            \/ irq_exit_return(c)
    BY <2>3 DEF irq_exit_yield, irq_exit_return
  <2> QED BY <1>6, <2>1, <2>2, <2>3 DEF IrqStep
<1>7. ASSUME NEW c \in Cores, timer_interrupt_handler(c) PROVE NoLostWakeup'
  BY <1>7 DEF timer_interrupt_handler
<1>8. ASSUME NEW c \in Cores, core_stops(c) PROVE NoLostWakeup'
  BY <1>8 DEF core_stops
<1> QED BY <1>1, <1>2, <1>3, <1>4, <1>5, <1>6, <1>7, <1>8 DEF SchedNext

(* The monitor/mwait loop of core_park is never entered, or stayed in, by  *)
(* a core that has a runnable thread.                                      *)
THEOREM IdleCoreHasNoWork == SchedSpec => []NoLostWakeup
<1>1. SchedInit => NoLostWakeup
  BY DEF SchedInit, scheduler_init_per_core, NoLostWakeup
<1> QED BY Inductive, <1>1, NoLostWakeupStep, PTL DEF SchedSpec

(* Steps of the other cores never give them a thread.                      *)
LEMMA OnlyBootCoreStep == IInv /\ OnlyBootCoreRuns /\ [SchedNext]_schedVars => OnlyBootCoreRuns'
<1> SUFFICES ASSUME IInv, OnlyBootCoreRuns, [SchedNext]_schedVars PROVE OnlyBootCoreRuns'
  OBVIOUS
<1> USE PlatformAssumption, NullNotThread
<1>0. \A c \in Cores : pc[c] \in CurrentLabels \cup HeldLabels => c = BSP
  BY DEF IInv, TypeOK, FlowOK, OnlyBootCoreRuns
<1> USE DEF IInv, TypeOK, OnlyBootCoreRuns, CurrentLabels, HeldLabels
<1>1. CASE UNCHANGED schedVars
  BY <1>1 DEF schedVars
<1>2. ASSUME NEW c \in Cores, SchedulerStep(c) PROVE OnlyBootCoreRuns'
  <2>1. CASE scheduler_yield_internal(c)
    BY <2>1, <1>0 DEF scheduler_yield_internal
  <2>2. CASE scheduler_park_internal(c)
    BY <2>2, <1>0 DEF scheduler_park_internal
  <2>3. CASE scheduler_park_internal_null(c)
    BY <2>3, <1>0 DEF scheduler_park_internal_null
  <2>4. CASE scheduler_exit_internal(c)
    BY <2>4, <1>0 DEF scheduler_exit_internal
  <2>5. CASE schedule_pop_empty(c)
    BY <2>5, <1>0 DEF schedule_pop_empty
  <2>6. CASE schedule_pop(c)
    BY <2>6, <1>0 DEF schedule_pop
  <2>7. CASE \/ park_callback_publish(c)
            \/ park_callback_fail(c)
            \/ exit_thread_free_clear(c)
            \/ exit_thread_free_link(c)
            \/ core_prepare_park(c)
            \/ core_park(c)
    BY <2>7, <1>0 DEF park_callback_publish, park_callback_fail, exit_thread_free_clear,
      thread_free_clear, exit_thread_free_link, thread_free_link, core_prepare_park,
      core_park
  <2> QED BY <1>2, <2>1, <2>2, <2>3, <2>4, <2>5, <2>6, <2>7 DEF SchedulerStep
<1>3. ASSUME NEW c \in Cores, TimedSchedulerStep(c) PROVE OnlyBootCoreRuns'
  <2>1. CASE sleep_park_callback(c)
    BY <2>1, <1>0 DEF sleep_park_callback
  <2>2. CASE scheduler_execute(c)
    BY <2>2, <1>0 DEF scheduler_execute
  <2>3. CASE \/ schedule_cancel(c)
    BY <2>3, <1>0 DEF schedule_cancel
  <2> QED BY <1>3, <2>1, <2>2, <2>3 DEF TimedSchedulerStep
<1>4. ASSUME NEW c \in Cores, ThreadCall(c) PROVE OnlyBootCoreRuns'
  <2>1. CASE \/ scheduler_yield(c)
            \/ scheduler_exit(c)
            \/ scheduler_park(c, "park", "publish")
            \/ scheduler_park(c, "park_null", NULL)
            \/ scheduler_park(c, "park_fail", "fail")
            \/ scheduler_park(c, "sleep", "sleep")
            \/ scheduler_reschedule_now(c)
            \/ scheduler_reschedule_later(c)
            \/ scheduler_preempt_disable(c)
            \/ scheduler_preempt_enable(c)
            \/ scheduler_wakeup_thread(c)
            \/ thread_create(c)
    BY <2>1, <1>0 DEF scheduler_yield, scheduler_exit, scheduler_park,
      scheduler_reschedule_now, scheduler_reschedule_later, scheduler_preempt_disable,
      scheduler_preempt_enable, scheduler_wakeup_thread, thread_create
  <2> QED BY <1>4, <2>1 DEF ThreadCall
<1>5. ASSUME NEW c \in Cores, ThreadStep(c) PROVE OnlyBootCoreRuns'
  <2>1. CASE wakeup_enqueue(c)
    BY <2>1, <1>0 DEF wakeup_enqueue
  <2>2. CASE create_alloc(c)
    BY <2>2, <1>0 DEF create_alloc, thread_alloc_reuse, thread_alloc_grow
  <2>3. CASE \/ preempt_enable_yield(c)
            \/ preempt_enable_skip(c)
            \/ preempt_enable_dec(c)
            \/ create_lock(c)
            \/ create_exhausted(c)
            \/ create_finish(c)
            \/ create_assert_fails(c)
    BY <2>3, <1>0 DEF preempt_enable_yield, preempt_enable_skip, preempt_enable_dec,
      create_lock, thread_alloc_lock, create_exhausted, thread_alloc_exhausted,
      create_finish, create_assert_fails
  <2> QED BY <1>5, <2>1, <2>2, <2>3 DEF ThreadStep
<1>6. ASSUME NEW c \in Cores, IrqStep(c) PROVE OnlyBootCoreRuns'
  <2>1. CASE \E t \in Threads : sleep_wakeup_thread(c, t)
    BY <2>1, <1>0 DEF sleep_wakeup_thread
  <2>2. CASE \/ scheduler_timer_tick(c)
            \/ irq_exit_yield(c)
            \/ irq_exit_return(c)
    BY <2>2, <1>0 DEF scheduler_timer_tick, irq_exit_yield, irq_exit_return
  <2> QED BY <1>6, <2>1, <2>2 DEF IrqStep
<1>7. ASSUME NEW c \in Cores, timer_interrupt_handler(c) PROVE OnlyBootCoreRuns'
  BY <1>7, <1>0 DEF timer_interrupt_handler
<1>8. ASSUME NEW c \in Cores, core_stops(c) PROVE OnlyBootCoreRuns'
  BY <1>8, <1>0 DEF core_stops
<1> QED BY <1>1, <1>2, <1>3, <1>4, <1>5, <1>6, <1>7, <1>8 DEF SchedNext

(* Every thread runs, waits in a queue and sleeps on the boot core only,   *)
(* however many cores smp_entry started.                                   *)
THEOREM ThreadsStayOnBootCore == SchedSpec => []OnlyBootCoreRuns
<1>1. SchedInit => OnlyBootCoreRuns
  BY DEF SchedInit, scheduler_init_per_core, OnlyBootCoreRuns
<1> QED BY Inductive, <1>1, OnlyBootCoreStep, PTL DEF SchedSpec

----------------------------------------------------------------------------
(* A step that leaves sleeper t parked on its timer. *)
StaysAsleep(t) == status'[t] = "WAITING" /\ sleeping'[t] = sleeping[t]

(* Nothing but its own timer wakes a sleeping thread. *)
LEMMA OnlyTimerWakes ==
  ASSUME IInv, NEW t \in Threads, sleeping[t] # NULL, NEW c \in Cores,
         \/ SchedulerStep(c) \/ TimedSchedulerStep(c) \/ ThreadCall(c) \/ ThreadStep(c)
         \/ timer_interrupt_handler(c) \/ scheduler_timer_tick(c)
         \/ irq_exit_yield(c) \/ irq_exit_return(c) \/ core_stops(c)
         \/ \E u \in Threads \ {t} : sleep_wakeup_thread(c, u)
  PROVE  StaysAsleep(t)
<1> USE NullNotThread DEF StaysAsleep
<1>1. /\ status[t] = "WAITING"
      /\ \A d \in Cores : ~HeldToPark(d, t)
      /\ \A u \in Threads : ~BeingWoken(u, t)
  BY DEF IInv, WaitingHasOneWaker, OneWaker
<1>2. status \in [Threads -> thread_status] /\ sleeping \in [Threads -> Cores \cup {NULL}]
  BY DEF IInv, TypeOK, ThreadTypeOK
<1>3. CASE SchedulerStep(c)
  <2>1. CASE scheduler_yield_internal(c)
    BY <1>1, <1>2, <2>1, CorePointers DEF scheduler_yield_internal, CurrentLabels
  <2>2. CASE scheduler_park_internal(c)
    BY <1>1, <1>2, <2>2, CorePointers DEF scheduler_park_internal, CurrentLabels
  <2>3. CASE scheduler_park_internal_null(c)
    BY <1>1, <1>2, <2>3, CorePointers DEF scheduler_park_internal_null, CurrentLabels
  <2>4. CASE park_callback_fail(c)
    BY <1>1, <1>2, <2>4 DEF park_callback_fail, HeldToPark
  <2>5. CASE scheduler_exit_internal(c)
    BY <1>1, <1>2, <2>5, CorePointers DEF scheduler_exit_internal, CurrentLabels
  <2>6. CASE exit_thread_free_clear(c)
    BY <1>1, <1>2, <2>6, CorePointers DEF exit_thread_free_clear, HeldLabels, thread_free_clear
  <2>7. CASE \/ park_callback_publish(c)
            \/ exit_thread_free_link(c)
            \/ core_prepare_park(c)
            \/ schedule_pop_empty(c)
            \/ schedule_pop(c)
            \/ core_park(c)
    BY <1>1, <1>2, <2>7 DEF park_callback_publish, exit_thread_free_link,
      thread_free_link, core_prepare_park, schedule_pop_empty, schedule_pop, core_park
  <2> QED BY <1>3, <2>1, <2>2, <2>3, <2>4, <2>5, <2>6, <2>7 DEF SchedulerStep
<1>4. CASE TimedSchedulerStep(c)
  <2>1. CASE sleep_park_callback(c)
    BY <1>1, <1>2, <2>1, CorePointers DEF sleep_park_callback, HeldToPark, HeldLabels
  <2>2. CASE scheduler_execute(c)
    BY <1>1, <1>2, <2>2, CorePointers DEF scheduler_execute, HeldLabels
  <2>3. CASE schedule_cancel(c)
    BY <1>1, <1>2, <2>3 DEF schedule_cancel
  <2> QED BY <1>4, <2>1, <2>2, <2>3 DEF TimedSchedulerStep
<1>5. CASE ThreadCall(c)
  <2>1. CASE \/ scheduler_yield(c)
            \/ scheduler_exit(c)
            \/ scheduler_park(c, "park", "publish")
            \/ scheduler_park(c, "park_null", NULL)
            \/ scheduler_park(c, "park_fail", "fail")
            \/ scheduler_park(c, "sleep", "sleep")
            \/ scheduler_reschedule_now(c)
            \/ scheduler_reschedule_later(c)
            \/ scheduler_preempt_disable(c)
            \/ scheduler_preempt_enable(c)
            \/ scheduler_wakeup_thread(c)
            \/ thread_create(c)
    BY <1>1, <1>2, <2>1 DEF scheduler_yield, scheduler_exit, scheduler_park,
      scheduler_reschedule_now, scheduler_reschedule_later, scheduler_preempt_disable,
      scheduler_preempt_enable, scheduler_wakeup_thread, thread_create
  <2> QED BY <1>5, <2>1 DEF ThreadCall
<1>6. CASE ThreadStep(c)
  <2>1. CASE wakeup_enqueue(c)
    BY <1>1, <1>2, <2>1, CorePointers, TargetPointers DEF wakeup_enqueue, BeingWoken, CurrentLabels
  <2>2. CASE create_alloc(c)
    <3> PICK u \in Threads : thread_alloc_reuse(u) \/ thread_alloc_grow(u)
      BY <2>2 DEF create_alloc
    <3>1. u # t
      BY <1>1, AllocatedBlock
    <3> QED BY <1>1, <1>2, <2>2, <3>1 DEF create_alloc, thread_alloc_reuse, thread_alloc_grow
  <2>3. CASE create_finish(c)
    BY <1>1, <1>2, <2>3 DEF create_finish
  <2>4. CASE \/ preempt_enable_yield(c)
            \/ preempt_enable_skip(c)
            \/ preempt_enable_dec(c)
            \/ create_lock(c)
            \/ create_exhausted(c)
            \/ create_assert_fails(c)
    BY <1>1, <1>2, <2>4 DEF preempt_enable_yield, preempt_enable_skip,
      preempt_enable_dec, create_lock, thread_alloc_lock, create_exhausted,
      thread_alloc_exhausted, create_assert_fails
  <2> QED BY <1>6, <2>1, <2>2, <2>3, <2>4 DEF ThreadStep
<1>7. CASE \/ timer_interrupt_handler(c) \/ scheduler_timer_tick(c)
          \/ irq_exit_yield(c) \/ irq_exit_return(c) \/ core_stops(c)
  BY <1>1, <1>7 DEF timer_interrupt_handler, scheduler_timer_tick, irq_exit_yield,
     irq_exit_return, core_stops
<1>8. CASE \E u \in Threads \ {t} : sleep_wakeup_thread(c, u)
  BY <1>1, <1>2, <1>8 DEF sleep_wakeup_thread
<1> QED BY <1>3, <1>4, <1>5, <1>6, <1>7, <1>8
----------------------------------------------------------------------------
(* A step of the code that core c runs. *)
StepOf(c) ==
    \/ SchedulerStep(c) \/ TimedSchedulerStep(c) \/ ThreadCall(c) \/ ThreadStep(c)
    \/ timer_interrupt_handler(c) \/ IrqStep(c) \/ core_stops(c)

(* What core d executes, and in which state. *)
SameCore(d) ==
    /\ pc'[d] = pc[d] /\ irq'[d] = irq[d] /\ current'[d] = current[d]
    /\ preempt_count'[d] = preempt_count[d] /\ want_reschedule'[d] = want_reschedule[d]
    /\ park_callback'[d] = park_callback[d]

(* A step of one core leaves the others, and where their threads are in    *)
(* the API, as they were.                                                  *)
LEMMA OtherCores ==
  ASSUME IInv, NEW c \in Cores, NEW d \in Cores, d # c, StepOf(c)
  PROVE  /\ SameCore(d)
         /\ pc[d] = "thread" => tpc'[current[d]] = tpc[current[d]]
<1> USE NullNotThread DEF SameCore
<1>1. /\ pc \in [Cores -> CoreLabels] /\ irq \in [Cores -> BOOLEAN]
      /\ current \in [Cores -> Threads \cup {NULL}] /\ preempt_count \in [Cores -> Nat]
      /\ want_reschedule \in [Cores -> BOOLEAN] /\ tpc \in [Threads -> ThreadLabels]
      /\ park_callback \in [Cores -> Callbacks \cup {NULL}]
  BY DEF IInv, TypeOK
<1>2. pc[d] = "thread" => current[d] # current[c] /\ current[d] \in Threads
  BY CorePointers DEF IInv, RunsOnOneCore, CurrentLabels
<1>3. CASE SchedulerStep(c)
  BY <1>1, <1>3 DEF SchedulerStep, scheduler_yield_internal, scheduler_park_internal,
     scheduler_park_internal_null, park_callback_publish, park_callback_fail,
     scheduler_exit_internal, exit_thread_free_clear, exit_thread_free_link,
     core_prepare_park, schedule_pop_empty, schedule_pop, core_park
<1>4. CASE TimedSchedulerStep(c)
  BY <1>1, <1>4 DEF TimedSchedulerStep, sleep_park_callback, schedule_cancel,
     scheduler_execute
<1>5. CASE ThreadCall(c)
  BY <1>1, <1>2, <1>5 DEF ThreadCall, scheduler_yield, scheduler_exit, scheduler_park,
     scheduler_reschedule_now, scheduler_reschedule_later, scheduler_preempt_disable,
     scheduler_preempt_enable, scheduler_wakeup_thread, thread_create
<1>6. CASE ThreadStep(c)
  BY <1>1, <1>2, <1>6 DEF ThreadStep, preempt_enable_yield, preempt_enable_skip,
     preempt_enable_dec, wakeup_enqueue, create_lock, create_alloc, create_exhausted,
     create_finish, create_assert_fails
<1>7. CASE timer_interrupt_handler(c) \/ IrqStep(c) \/ core_stops(c)
  BY <1>1, <1>7 DEF timer_interrupt_handler, IrqStep, scheduler_timer_tick,
     sleep_wakeup_thread, irq_exit_yield, irq_exit_return, core_stops
<1> QED BY <1>3, <1>4, <1>5, <1>6, <1>7 DEF StepOf

(***************************************************************************)
(* What the claim of scheduler.h about delayed requests rests on, where no *)
(* thread disables preemption itself: the only count a thread then has is  *)
(* the one of scheduler_wakeup_thread, which has asked for a reschedule by *)
(* the time it reaches scheduler_preempt_enable, so that the enable always *)
(* yields and never merely decrements.                                     *)
(***************************************************************************)
Pinned(c) == tpc[current[c]] \in PinnedLabels

RequestsServed(c) ==
    pc[c] = "thread" =>
        /\ preempt_count[c] = (IF Pinned(c) THEN 1 ELSE 0) + (IF irq[c] THEN 1 ELSE 0)
        /\ tpc[current[c]] # "enable_dec"
        /\ tpc[current[c]] = "enable" => want_reschedule[c]
        /\ ~Pinned(c) /\ ~irq[c] => ~want_reschedule[c]

(* Steps of its own core keep it, if no thread disables preemption. *)
LEMMA ServedOwnStep ==
  ASSUME "preempt" \notin Calls, IInv, NEW c \in Cores, RequestsServed(c), StepOf(c)
  PROVE  RequestsServed(c)'
<1> USE NullNotThread DEF RequestsServed, Pinned, PinnedLabels
<1>1. /\ pc \in [Cores -> CoreLabels] /\ irq \in [Cores -> BOOLEAN]
      /\ current \in [Cores -> Threads \cup {NULL}] /\ preempt_count \in [Cores -> Nat]
      /\ want_reschedule \in [Cores -> BOOLEAN] /\ tpc \in [Threads -> ThreadLabels]
  BY DEF IInv, TypeOK
<1>2. pc[c] = "thread" => current[c] \in Threads
  BY CorePointers DEF CurrentLabels
<1>3. CASE SchedulerStep(c)
  <2>1. pc'[c] # "thread"
    BY <1>1, <1>3 DEF SchedulerStep, scheduler_yield_internal, scheduler_park_internal,
       scheduler_park_internal_null, park_callback_publish, park_callback_fail,
       scheduler_exit_internal, exit_thread_free_clear, exit_thread_free_link,
       core_prepare_park, schedule_pop_empty, schedule_pop, core_park
  <2> QED BY <2>1
<1>4. CASE TimedSchedulerStep(c)
  <2>1. CASE sleep_park_callback(c) \/ schedule_cancel(c)
    BY <1>1, <2>1 DEF sleep_park_callback, schedule_cancel
  <2>2. CASE scheduler_execute(c)
    <3>1. held[c] \in Threads /\ status[held[c]] = "RUNNABLE"
      BY <2>2, CorePointers DEF scheduler_execute, HeldLabels
    <3>2. \A d \in Cores : current[d] # held[c]
      BY <3>1 DEF IInv, RunsOnOneCore
    <3>3. tpc[held[c]] \notin PinnedLabels
      BY <3>1, <3>2 DEF IInv, PreemptOK
    <3> QED BY <1>1, <2>2, <3>1, <3>3 DEF scheduler_execute
  <2> QED BY <1>4, <2>1, <2>2 DEF TimedSchedulerStep
<1>5. CASE ThreadCall(c)
  <2>1. CASE \/ scheduler_yield(c) \/ scheduler_exit(c) \/ scheduler_reschedule_now(c)
             \/ \E call, callback : scheduler_park(c, call, callback)
    BY <1>1, <2>1 DEF scheduler_yield, scheduler_exit, scheduler_park,
       scheduler_reschedule_now
  <2>2. CASE scheduler_reschedule_later(c)
    BY <1>1, <2>2 DEF scheduler_reschedule_later
  <2>3. ~scheduler_preempt_disable(c) /\ ~scheduler_preempt_enable(c)
    BY DEF scheduler_preempt_disable, scheduler_preempt_enable
  <2>4. CASE scheduler_wakeup_thread(c)
    BY <1>1, <1>2, <2>4 DEF scheduler_wakeup_thread
  <2>5. CASE thread_create(c)
    BY <1>1, <1>2, <2>5 DEF thread_create
  <2> QED BY <1>5, <2>1, <2>2, <2>3, <2>4, <2>5 DEF ThreadCall
<1>6. CASE ThreadStep(c)
  <2>1. CASE preempt_enable_yield(c) \/ preempt_enable_skip(c) \/ preempt_enable_dec(c)
    BY <1>1, <1>2, <2>1 DEF preempt_enable_yield, preempt_enable_skip, preempt_enable_dec
  <2>2. CASE wakeup_enqueue(c)
    BY <1>1, <1>2, <2>2 DEF wakeup_enqueue
  <2>3. CASE create_lock(c) \/ create_alloc(c) \/ create_finish(c)
    BY <1>1, <1>2, <2>3 DEF create_lock, create_alloc, create_finish
  <2>4. CASE create_exhausted(c) \/ create_assert_fails(c)
    BY <2>4 DEF create_exhausted, create_assert_fails
  <2> QED BY <1>6, <2>1, <2>2, <2>3, <2>4 DEF ThreadStep
<1>7. CASE timer_interrupt_handler(c)
  BY <1>1, <1>7 DEF timer_interrupt_handler
<1>8. CASE scheduler_timer_tick(c) \/ \E t \in Threads : sleep_wakeup_thread(c, t)
  <2>1. /\ irq[c] /\ want_reschedule'[c]
        /\ UNCHANGED <<pc, irq, current, preempt_count, tpc>>
    BY <1>1, <1>8 DEF scheduler_timer_tick, sleep_wakeup_thread
  <2> QED BY <2>1
<1>9. CASE irq_exit_yield(c) \/ irq_exit_return(c)
  BY <1>1, <1>9 DEF irq_exit_yield, irq_exit_return
<1>10. CASE core_stops(c)
  BY <1>10 DEF core_stops
<1> QED BY <1>3, <1>4, <1>5, <1>6, <1>7, <1>8, <1>9, <1>10 DEF StepOf, IrqStep

(* Steps keep it on every core, if no thread disables preemption. *)
LEMMA ServedStep ==
  ASSUME "preempt" \notin Calls, IInv, \A c \in Cores : RequestsServed(c),
         [SchedNext]_schedVars
  PROVE  \A c \in Cores : RequestsServed(c)'
<1> SUFFICES ASSUME NEW d \in Cores PROVE RequestsServed(d)'
  OBVIOUS
<1>1. CASE UNCHANGED schedVars
  BY <1>1 DEF schedVars, RequestsServed, Pinned
<1>2. ASSUME NEW c \in Cores, StepOf(c) PROVE RequestsServed(d)'
  <2>1. CASE c = d
    BY <1>2, <2>1, ServedOwnStep
  <2>2. CASE c # d
    BY <1>2, <2>2, OtherCores DEF SameCore, RequestsServed, Pinned
  <2> QED BY <2>1, <2>2
<1> QED BY <1>1, <1>2 DEF SchedNext, StepOf

(***************************************************************************)
(* scheduler.h says that a reschedule asked for while preemption is        *)
(* disabled is delayed until the count reaches zero.  With nested          *)
(* preempt_disable calls it may be forgotten; as long as no thread makes   *)
(* that call itself, it never is, whatever interrupts and wakeups do.      *)
(***************************************************************************)
THEOREM RequestsAreServed ==
  ASSUME "preempt" \notin Calls
  PROVE  SchedSpec => []RescheduleNotForgotten
<1> DEFINE Served == \A c \in Cores : RequestsServed(c)
<1>1. SchedInit => Served
  BY DEF SchedInit, scheduler_init_per_core, RequestsServed
<1>2. IInv /\ Served /\ [SchedNext]_schedVars => Served'
  BY ServedStep
<1>3. IInv /\ Served => RescheduleNotForgotten
  BY DEF IInv, TypeOK, RequestsServed, RescheduleNotForgotten
<1> QED BY <1>1, <1>2, <1>3, Inductive, PTL DEF SchedSpec

----------------------------------------------------------------------------
(***************************************************************************)
(* The placement invariants with threads on two cores from the start.      *)
(* From SchedInit they speak of one busy core only (OnlyBootCoreRuns); the *)
(* inductive step does not depend on where threads are, so that only the   *)
(* busy initial state is left to prove.                                    *)
(***************************************************************************)

(* Each of two cores with a woken thread in its queue: the inductive       *)
(* invariant of the scheduler holds.                                       *)
LEMMA BusyInitInv == SeveralCores /\ BusyInit => IInv
<1> SUFFICES ASSUME SeveralCores, BusyInit PROVE IInv
  OBVIOUS
<1>0. AP \in Cores \ {BSP} /\ MaxThreads >= 2
  BY PlatformAssumption DEF AP, SeveralCores
<1> USE <1>0, PlatformAssumption, NullNotThread DEF BusyInit, scheduler_init_per_core
<1>1. 0 \in Threads /\ 1 \in Threads
  BY DEF Threads
<1>2. TypeOK
  <2>1. queue \in [Cores -> Seq(Threads)]
    BY <1>1
  <2>2. ThreadTypeOK
    BY DEF ThreadTypeOK, thread_status
  <2> QED BY <2>1, <2>2 DEF TypeOK, CoreLabels, ThreadLabels, Callbacks
<1>3. FlowOK
  BY DEF FlowOK, CurrentLabels, HeldLabels
<1>4. PreemptOK
  BY DEF PreemptOK, PinnedLabels
<1>5. RunsOnOneCore
  BY DEF RunsOnOneCore
<1>6. RunnableIsQueuedOnce
  <2> SUFFICES ASSUME NEW t \in Threads PROVE QueuedOnce(t)
    BY DEF RunnableIsQueuedOnce
  <2>1. \A c \in Cores : \A i \in Slots(c) :
          /\ i = 1
          /\ c \in {BSP, AP}
          /\ queue[c][i] = IF c = BSP THEN 0 ELSE 1
    BY DEF Slots
  <2>2. 1 \in Slots(BSP) /\ 1 \in Slots(AP) /\ queue[BSP][1] = 0 /\ queue[AP][1] = 1
    BY DEF Slots
  <2>3. \A c \in Cores : ~HeldToRun(c, t)
    BY DEF HeldToRun
  <2>4. status[t] = "RUNNABLE" <=> t = 0 \/ t = 1
    OBVIOUS
  <2> QED BY <2>1, <2>2, <2>3, <2>4 DEF QueuedOnce
<1>7. WaitingHasOneWaker
  BY DEF WaitingHasOneWaker, OneWaker, HeldToPark, BeingWoken
<1>8. BlockHasOneOwner
  BY DEF BlockHasOneOwner, OneOwner, HeldToFree, BeingMade, Unused, Threads
<1> QED BY <1>2, <1>3, <1>4, <1>5, <1>6, <1>7, <1>8 DEF IInv

(***************************************************************************)
(* With threads at work on several cores, which wake, create, park and     *)
(* free each other's, every thread is in exactly the place its status      *)
(* names, and the assertions of scheduler.c hold.                          *)
(***************************************************************************)
THEOREM BusyCoresKeepPlaces ==
  SeveralCores /\ BusySpec =>
              [](/\ RunsOnOneCore /\ RunnableIsQueuedOnce
                 /\ WaitingHasOneWaker /\ BlockHasOneOwner
                 /\ AssertionsHold)
<1>1. [BusyNext]_schedVars => [SchedNext]_schedVars
  BY DEF BusyNext, SchedNext
<1>2. IInv /\ [BusyNext]_schedVars => IInv'
  BY <1>1, StepInv
<1>3. IInv => /\ RunsOnOneCore /\ RunnableIsQueuedOnce
              /\ WaitingHasOneWaker /\ BlockHasOneOwner
              /\ AssertionsHold
  BY InvAsserts DEF IInv
<1> QED BY BusyInitInv, <1>2, <1>3, PTL DEF BusySpec

(* No core sleeps in mwait with a thread in its queue, wherever the thread *)
(* was woken from.                                                         *)
THEOREM BusyCoresLoseNoWakeup == SeveralCores /\ BusySpec => []NoLostWakeup
<1>1. BusyInit => NoLostWakeup
  BY DEF BusyInit, scheduler_init_per_core, NoLostWakeup
<1>2. [BusyNext]_schedVars => [SchedNext]_schedVars
  BY DEF BusyNext, SchedNext
<1>3. IInv /\ [BusyNext]_schedVars => IInv'
  BY <1>2, StepInv
<1>4. IInv /\ NoLostWakeup /\ [BusyNext]_schedVars => NoLostWakeup'
  BY <1>2, NoLostWakeupStep
<1> QED BY BusyInitInv, <1>1, <1>3, <1>4, PTL DEF BusySpec

----------------------------------------------------------------------------
(* Kernel *)
HIDE DEF At, InIrq, InCall, Calling, Goto, ThreadGoto, threadVars, poolVars, coreVars, flowVars,
         apiVars, wakeVars, thread_switch_status, request_reschedule, enqueue_woken,
         scheduler_call


(* A step of a core is a step of its scheduler or leaves that alone. *)
LEMMA CoreStepImplements ==
  ASSUME NEW c \in Cores, Call(c) \/ CoreStep(c)
  PROVE  SchedNext \/ UNCHANGED schedVars
<1> USE DEF SchedNext
<1>1. CASE Call(c)
  BY <1>1 DEF Call
<1>2. CASE Untimed(c)
  BY <1>2 DEF Untimed
<1>3. CASE cancel_return(c) \/ cancel_erase(c) \/ cancel_corrupt(c)
  BY <1>3 DEF cancel_return, cancel_erase, cancel_corrupt, TimedSchedulerStep
<1>4. CASE cancel_read(c) \/ cancel_clear(c) \/ dispatch_leave(c)
  BY <1>4 DEF cancel_read, cancel_clear, dispatch_leave
<1>5. CASE execute_slice(c) \/ execute_inherit(c)
  BY <1>5 DEF execute_slice, execute_inherit, TimedSchedulerStep
<1>6. CASE sleep_arm(c)
  BY <1>6 DEF sleep_arm, TimedSchedulerStep
<1>7. CASE interrupt(c)
  BY <1>7 DEF interrupt
<1>8. CASE dispatch_slice(c)
  BY <1>8 DEF dispatch_slice, IrqStep
<1>9. CASE dispatch_sleep(c)
  BY <1>9 DEF dispatch_sleep, IrqStep
<1>10. CASE interrupt_exit(c)
  BY <1>10 DEF interrupt_exit, IrqStep
<1>11. CASE cancel_stuck(c) \/ dispatch_panic(c)
  BY <1>11 DEF cancel_stuck, dispatch_panic
<1> QED
  BY <1>1, <1>2, <1>3, <1>4, <1>5, <1>6, <1>7, <1>8, <1>9, <1>10, <1>11 DEF CoreStep

(***************************************************************************)
(* The kernel implements the scheduler: adding the timer tree, the         *)
(* hardware timer and the interruptible timer_cancel of scheduler_schedule *)
(* gives no behaviour that Scheduler does not have.  (What a slice timer   *)
(* erased twice does to the tree is in the model; what it writes into the  *)
(* frames of threads whose timers are gone is not.)                        *)
(***************************************************************************)
THEOREM KernelImplementsScheduler == Spec => SchedSpec
<1>1. Init => SchedInit
  BY DEF Init
<1>2. [Next]_vars => [SchedNext]_schedVars
  <2>1. CASE UNCHANGED vars
    BY <2>1 DEF vars
  <2>2. CASE TimePasses
    BY <2>2 DEF TimePasses
  <2>3. CASE \E c \in Cores : Call(c) \/ CoreStep(c)
    BY <2>3, CoreStepImplements
  <2> QED BY <2>1, <2>2, <2>3 DEF Next
<1> QED BY <1>1, <1>2, PTL DEF Spec, SchedSpec

(* Hence the scheduler's inductive invariant, and with it its assertions,  *)
(* hold in the kernel whatever the timers do.                              *)
THEOREM KernelKeepsScheduler == Spec => [](IInv /\ AssertionsHold)
BY KernelImplementsScheduler, Inductive, AssertionsNeverFail, PTL

----------------------------------------------------------------------------
USE DEF Cancelling, set_deadline, clear

(* The names of the slice timers and of the sleep timers do not clash. *)
LEMMA TimerNames ==
  /\ NULL \notin Timers
  /\ \A c \in Cores : c \in Timers /\ c \notin Threads
  /\ \A t \in Threads : t \in Timers /\ t \notin Cores
BY PlatformAssumption DEF Timers, Threads

(* What rb_erase_cached leaves as the first node is in the tree. *)
LEMMA FirstsInTree ==
  ASSUME TimerTypeOK, NEW c \in Cores, NEW x, NEW left \in LeftmostWithout(c, x)
  PROVE  /\ left \in Timers \cup {NULL}
         /\ left = NULL \/ left \in tree[c] \/ left = rb_leftmost[c]
BY DEF LeftmostWithout, Firsts, TimerTypeOK

(* Reprogramming the hardware keeps its type. *)
LEMMA RearmTypes ==
  ASSUME TimerTypeOK, NEW c \in Cores, NEW x, NEW left \in Timers \cup {NULL},
         cancel_rearm(c, x, left)
  PROVE  /\ hw' \in [Cores -> (Nat \ {0}) \cup {NULL}]
         /\ pending' \in [Cores -> BOOLEAN]
<1> DEFINE erased == IF rb_leftmost[c] = x THEN left ELSE NULL
<1>1. erased \in Timers \cup {NULL}
  OBVIOUS
<1>2. CASE UNCHANGED <<hw, pending>>
  BY <1>2 DEF TimerTypeOK
<1>3. CASE erased # NULL /\ set_deadline(c, deadline[erased])
  BY <1>1, <1>3 DEF TimerTypeOK
<1>4. CASE clear(c)
  BY <1>4 DEF TimerTypeOK
<1> QED BY <1>2, <1>3, <1>4 DEF cancel_rearm

(* timer_set keeps the types of what it changes. *)
LEMMA SetTypes ==
  ASSUME TimerTypeOK, NEW c \in Cores, NEW x \in Timers, NEW d \in Nat,
         timer_set(c, x, d), UNCHANGED <<cancel_at, left_loop, stale, broken>>
  PROVE  TimerTypeOK'
<1>1. /\ deadline' \in [Timers -> Nat]
      /\ timers' \in [Timers -> Cores \cup {NULL}]
      /\ tree' \in [Cores -> SUBSET Timers]
  BY DEF timer_set, TimerTypeOK
<1>2. CASE /\ rb_leftmost' = [rb_leftmost EXCEPT ![c] = x]
           /\ set_deadline(c, d)
  BY <1>1, <1>2 DEF TimerTypeOK
<1>3. ASSUME NEW left \in LeftmostWithout(c, x),
             rb_leftmost' = [rb_leftmost EXCEPT ![c] = left],
             UNCHANGED <<hw, pending>> \/ cancel_rearm(c, x, left)
      PROVE  TimerTypeOK'
  <2>1. left \in Timers \cup {NULL}
    BY FirstsInTree
  <2>2. hw' \in [Cores -> (Nat \ {0}) \cup {NULL}] /\ pending' \in [Cores -> BOOLEAN]
    BY <1>3, <2>1, RearmTypes DEF TimerTypeOK
  <2> QED BY <1>1, <1>3, <2>1, <2>2 DEF TimerTypeOK
<1> QED BY <1>2, <1>3 DEF timer_set

(* Steps keep the types of the timer variables. *)
LEMMA TimerTypeStep == IInv /\ TimerTypeOK /\ [Next]_vars => TimerTypeOK'
<1> SUFFICES ASSUME IInv, TimerTypeOK, [Next]_vars PROVE TimerTypeOK'
  OBVIOUS
<1> USE PlatformAssumption, KernelAssumption, TimerNames
<1>1. CASE UNCHANGED timerVars
  BY <1>1 DEF timerVars, TimerTypeOK
<1>2. CASE TimePasses
  BY <1>2, SMTT(60) DEF TimePasses, Tick, TimerTypeOK
<1>3. ASSUME NEW c \in Cores, CoreStep(c) PROVE TimerTypeOK'
  <2>1. CASE Untimed(c) \/ cancel_return(c) \/ cancel_stuck(c) \/ dispatch_panic(c)
    BY <1>1, <2>1 DEF Untimed, cancel_return, cancel_stuck, dispatch_panic
  <2>2. CASE cancel_read(c) \/ cancel_clear(c) \/ dispatch_leave(c)
    BY <2>2 DEF cancel_read, cancel_clear, dispatch_leave, timer_dispatch_leave, TimerTypeOK
  <2>3. CASE cancel_erase(c)
    <3>1. PICK left \in LeftmostWithout(c, c) :
             /\ rb_leftmost' = [rb_leftmost EXCEPT ![c] = left]
             /\ cancel_rearm(c, c, left)
      BY <2>3 DEF cancel_erase, timer_cancel_erase
    <3>2. left \in Timers \cup {NULL}
      BY FirstsInTree
    <3>3. hw' \in [Cores -> (Nat \ {0}) \cup {NULL}] /\ pending' \in [Cores -> BOOLEAN]
      BY <3>1, <3>2, RearmTypes
    <3>4. tree' \in [Cores -> SUBSET Timers]
      BY <2>3 DEF cancel_erase, timer_cancel_erase, TimerTypeOK
    <3> QED BY <2>3, <3>1, <3>2, <3>3, <3>4
            DEF cancel_erase, timer_cancel_erase, TimerTypeOK
  <2>12. CASE cancel_corrupt(c)
    <3>1. timer_cancel_corrupts(c, c)
      BY <2>12 DEF cancel_corrupt
    <3>2. rb_leftmost[c] \in Timers \cup {NULL}
      BY DEF TimerTypeOK
    <3>3. hw' \in [Cores -> (Nat \ {0}) \cup {NULL}] /\ pending' \in [Cores -> BOOLEAN]
      BY <3>1, <3>2, RearmTypes DEF timer_cancel_corrupts
    <3>4. PICK nodes \in SUBSET (tree[c] \cup stale[c]) : tree' = [tree EXCEPT ![c] = nodes]
      BY <3>1 DEF timer_cancel_corrupts
    <3>5. tree' \in [Cores -> SUBSET Timers]
      BY <3>4 DEF TimerTypeOK
    <3> QED BY <2>12, <3>1, <3>3, <3>5 DEF cancel_corrupt, timer_cancel_corrupts, TimerTypeOK
  <2>4. CASE execute_slice(c)
    BY <2>4, SetTypes DEF execute_slice
  <2>5. CASE execute_inherit(c)
    <3>1. deadline[c] \in Nat
      BY DEF TimerTypeOK
    <3> QED BY <2>5, <3>1, SetTypes DEF execute_inherit
  <2>6. CASE sleep_arm(c)
    <3>1. pc[c] = "park_callback"
      BY <2>6 DEF sleep_arm, sleep_park_callback, At
    <3>2. held[c] \in Timers
      BY <3>1, CorePointers DEF HeldLabels
    <3> QED BY <2>6, <3>2, SetTypes DEF sleep_arm
  <2>7. CASE interrupt(c)
    BY <2>7 DEF interrupt, TimerTypeOK
  <2>8. ASSUME NEW x \in Timers, timer_dispatch_pop(c, x) PROVE TimerTypeOK'
    <3>1. PICK left \in LeftmostWithout(c, x) :
             rb_leftmost' = [rb_leftmost EXCEPT ![c] = left]
      BY <2>8 DEF timer_dispatch_pop
    <3>2. left \in Timers \cup {NULL}
      BY FirstsInTree
    <3> QED BY <2>8, <3>1, <3>2 DEF timer_dispatch_pop, TimerTypeOK
  <2>9. CASE dispatch_slice(c)
    BY <2>8, <2>9 DEF dispatch_slice
  <2>10. CASE dispatch_sleep(c)
    BY <2>8, <2>10 DEF dispatch_sleep
  <2>11. CASE interrupt_exit(c)
    <3>1. timer_dispatch_done(c)
      BY <2>11 DEF interrupt_exit
    <3>2. rb_leftmost[c] # NULL => deadline[rb_leftmost[c]] \in Nat
      BY DEF TimerTypeOK
    <3>3. hw' \in [Cores -> (Nat \ {0}) \cup {NULL}]
      BY <3>1, <3>2 DEF timer_dispatch_done, TimerTypeOK
    <3>4. pending' \in [Cores -> BOOLEAN]
      BY <3>1 DEF timer_dispatch_done, TimerTypeOK
    <3> QED BY <3>1, <3>3, <3>4 DEF timer_dispatch_done, TimerTypeOK
  <2> QED BY <1>3, <2>1, <2>2, <2>3, <2>4, <2>5, <2>6, <2>7, <2>9, <2>10, <2>11, <2>12
          DEF CoreStep
<1> QED BY <1>1, <1>2, <1>3 DEF Next, Call, vars

(* The variables of the timers stay in their domains: the hardware timer   *)
(* is never programmed with a deadline of zero, and the cached first node  *)
(* of a tree is a timer.                                                   *)
THEOREM KernelTypeCorrect == Spec => []KernelTypeOK
<1>1. Init => TimerTypeOK
  BY PlatformAssumption DEF Init, TimerInit, TimerTypeOK
<1>2. IInv /\ TimerTypeOK => KernelTypeOK
  BY DEF IInv, KernelTypeOK
<1> QED BY <1>1, <1>2, KernelKeepsScheduler, TimerTypeStep, PTL DEF Spec

----------------------------------------------------------------------------
(* A step of the kernel leaves a sleeper parked, or is the interrupt       *)
(* handler running the callback of its timer.                              *)
LEMMA SleeperStep ==
  ASSUME IInv, [Next]_vars, NEW t \in Threads, sleeping[t] # NULL
  PROVE  \/ StaysAsleep(t)
         \/ \E c \in Cores : sleep_wakeup_thread(c, t) /\ timer_dispatch_pop(c, t)
<1>1. CASE UNCHANGED schedVars
  <2>1. status[t] = "WAITING"
    BY DEF IInv, WaitingHasOneWaker, OneWaker
  <2> QED BY <1>1, <2>1 DEF schedVars, threadVars, wakeVars, StaysAsleep
<1>2. ASSUME NEW c \in Cores, Call(c) \/ Untimed(c) PROVE StaysAsleep(t)
  BY <1>2, OnlyTimerWakes DEF Call, Untimed
<1>3. ASSUME NEW c \in Cores,
             \/ cancel_return(c) \/ cancel_erase(c) \/ cancel_corrupt(c)
             \/ execute_slice(c) \/ execute_inherit(c) \/ sleep_arm(c)
      PROVE  StaysAsleep(t)
  <2>1. TimedSchedulerStep(c)
    BY <1>3 DEF cancel_return, cancel_erase, cancel_corrupt, execute_slice, execute_inherit,
       sleep_arm, TimedSchedulerStep
  <2> QED BY <2>1, OnlyTimerWakes
<1>4. ASSUME NEW c \in Cores,
             \/ interrupt(c) \/ dispatch_slice(c) \/ interrupt_exit(c)
             \/ cancel_stuck(c) \/ dispatch_panic(c)
      PROVE  StaysAsleep(t)
  BY <1>4, OnlyTimerWakes
     DEF interrupt, dispatch_slice, interrupt_exit, cancel_stuck, dispatch_panic
<1>5. ASSUME NEW c \in Cores, NEW u \in Threads, u # t, sleep_wakeup_thread(c, u)
      PROVE  StaysAsleep(t)
  BY <1>5, OnlyTimerWakes
<1>6. ASSUME NEW c \in Cores, cancel_read(c) \/ cancel_clear(c) \/ dispatch_leave(c)
      PROVE  UNCHANGED schedVars
  BY <1>6 DEF cancel_read, cancel_clear, dispatch_leave
<1> QED
  BY <1>1, <1>2, <1>3, <1>4, <1>5, <1>6
     DEF Next, CoreStep, dispatch_sleep, TimePasses, vars

(***************************************************************************)
(* timer_sleep never returns early, with any number of threads sleeping,   *)
(* parking and waking each other on any core, as long as no slice timer    *)
(* was erased twice (LinksSound).                                          *)
(***************************************************************************)
THEOREM SleepersAreNotWokenEarly == Spec => SleepsLongEnough
<1>1. IInv /\ [Next]_vars => [SleepersWakeWhenDue]_vars
  <2> SUFFICES ASSUME IInv, [Next]_vars PROVE SleepersWakeWhenDue
    OBVIOUS
  <2> SUFFICES ASSUME NEW t \in Threads, sleeping[t] # NULL, status'[t] # "WAITING"
               PROVE  deadline[t] = 0 /\ irq[sleeping[t]]
    BY DEF SleepersWakeWhenDue, WakesWhenDue
  <2>1. PICK c \in Cores : sleep_wakeup_thread(c, t) /\ timer_dispatch_pop(c, t)
    BY SleeperStep DEF StaysAsleep
  <2> QED BY <2>1 DEF sleep_wakeup_thread, InIrq, timer_dispatch_pop, Due
<1> QED BY <1>1, KernelKeepsScheduler, PTL DEF Spec, SleepsLongEnough

----------------------------------------------------------------------------
(* The timer of t is linked into the tree of core d. *)
Linked(d, t) == t \in tree[d] \/ rb_leftmost[d] = t

(* timer_set on core c links no timer but x, and x on that core only. *)
LEMMA SetLinks ==
  ASSUME TimerTypeOK, NEW c \in Cores, NEW x \in Timers, NEW e, timer_set(c, x, e),
         NEW d \in Cores, NEW t \in Threads, Linked(d, t)'
  PROVE  Linked(d, t) \/ (c = d /\ t = x)
<1> USE TimerNames, NullNotThread DEF Linked
<1>1. tree' = [tree EXCEPT ![c] = (tree[c] \ {x}) \cup {x}]
  BY DEF timer_set
<1>2. CASE rb_leftmost' = [rb_leftmost EXCEPT ![c] = x]
  BY <1>1, <1>2 DEF TimerTypeOK
<1>3. ASSUME NEW left \in LeftmostWithout(c, x),
             rb_leftmost' = [rb_leftmost EXCEPT ![c] = left]
      PROVE  Linked(d, t) \/ (c = d /\ t = x)
  <2>1. left = NULL \/ left \in tree[c] \/ left = rb_leftmost[c]
    BY FirstsInTree
  <2> QED BY <1>1, <1>3, <2>1 DEF TimerTypeOK
<1> QED BY <1>2, <1>3 DEF timer_set

(* Links that are sound were sound before: a broken tree stays broken. *)
LEMMA SoundBefore ==
  ASSUME TimerTypeOK, [Next]_vars, LinksSound'
  PROVE  LinksSound /\ \A c \in Cores : ~cancel_corrupt(c)
<1>1. \A c \in Cores : ~cancel_corrupt(c)
  BY DEF cancel_corrupt, timer_cancel_corrupts, LinksSound, TimerTypeOK
<1>2. UNCHANGED broken
  <2>1. ASSUME NEW c \in Cores, CoreStep(c) PROVE UNCHANGED broken
    BY <1>1, <2>1 DEF CoreStep, Untimed, cancel_return, cancel_read, cancel_clear,
       cancel_erase, timer_cancel_erase, cancel_stuck, execute_slice, execute_inherit,
       sleep_arm, interrupt, dispatch_slice, dispatch_sleep, timer_dispatch_pop,
       dispatch_panic, dispatch_leave, timer_dispatch_leave, interrupt_exit,
       timer_dispatch_done, timerVars
  <2>2. ASSUME NEW c \in Cores, Call(c) PROVE UNCHANGED broken
    BY <2>2 DEF Call, timerVars
  <2> QED BY <2>1, <2>2 DEF Next, TimePasses, Tick, vars, timerVars
<1> QED BY <1>1, <1>2 DEF LinksSound

(* A step that keeps the links sound links the timer of a thread only in   *)
(* its sleep_park_callback.                                                *)
LEMMA OnlySleepLinks ==
  ASSUME IInv, TimerTypeOK, [Next]_vars, LinksSound',
         NEW d \in Cores, NEW t \in Threads, Linked(d, t)'
  PROVE  Linked(d, t) \/ (sleep_arm(d) /\ t = held[d])
<1> USE TimerNames, NullNotThread
<1>1. CASE UNCHANGED <<tree, rb_leftmost>>
  BY <1>1 DEF Linked
<1>2. ASSUME NEW c \in Cores, NEW x \in Timers, NEW left \in LeftmostWithout(c, x),
             rb_leftmost' = [rb_leftmost EXCEPT ![c] = left],
             \A e \in Cores : tree'[e] \subseteq tree[e]
      PROVE  Linked(d, t)
  <2>1. left = NULL \/ left \in tree[c] \/ left = rb_leftmost[c]
    BY FirstsInTree
  <2> QED BY <1>2, <2>1 DEF Linked, TimerTypeOK
<1>3. ASSUME NEW c \in Cores, CoreStep(c)
      PROVE  Linked(d, t) \/ (sleep_arm(d) /\ t = held[d])
  <2>1. CASE \/ Untimed(c) \/ cancel_return(c) \/ cancel_read(c) \/ cancel_clear(c)
             \/ interrupt(c) \/ interrupt_exit(c) \/ cancel_stuck(c) \/ dispatch_panic(c)
             \/ dispatch_leave(c)
    BY <1>1, <2>1 DEF Untimed, cancel_return, cancel_read, cancel_clear, interrupt,
       interrupt_exit, cancel_stuck, dispatch_panic, timer_dispatch_done, dispatch_leave,
       timer_dispatch_leave, timerVars
  <2>2. CASE cancel_erase(c)
    <3>1. \A e \in Cores : tree'[e] \subseteq tree[e]
      BY <2>2 DEF cancel_erase, timer_cancel_erase, TimerTypeOK
    <3> QED BY <1>2, <2>2, <3>1 DEF cancel_erase, timer_cancel_erase
  <2>3. ASSUME NEW x \in Timers, timer_dispatch_pop(c, x) PROVE Linked(d, t)
    <3>1. \A e \in Cores : tree'[e] \subseteq tree[e]
      BY <2>3 DEF timer_dispatch_pop, TimerTypeOK
    <3> QED BY <1>2, <2>3, <3>1 DEF timer_dispatch_pop
  <2>4. CASE dispatch_slice(c)
    BY <2>3, <2>4 DEF dispatch_slice
  <2>5. CASE dispatch_sleep(c)
    BY <2>3, <2>5 DEF dispatch_sleep
  <2>6. CASE execute_slice(c) \/ execute_inherit(c)
    BY <2>6, SetLinks DEF execute_slice, execute_inherit
  <2>7. CASE sleep_arm(c)
    <3>1. pc[c] = "park_callback"
      BY <2>7 DEF sleep_arm, sleep_park_callback, At
    <3>2. held[c] \in Timers
      BY <3>1, CorePointers DEF HeldLabels
    <3> QED BY <2>7, <3>2, SetLinks DEF sleep_arm
  <2> QED BY <1>3, <2>1, <2>2, <2>4, <2>5, <2>6, <2>7, SoundBefore DEF CoreStep
<1>4. ASSUME NEW c \in Cores, Call(c) PROVE UNCHANGED <<tree, rb_leftmost>>
  BY <1>4 DEF Call, timerVars
<1>5. CASE TimePasses
  BY <1>1, <1>5 DEF TimePasses, Tick
<1> QED BY <1>1, <1>3, <1>4, <1>5 DEF Next, vars, timerVars

(* Steps keep every linked sleep timer with the thread that sleeps on it. *)
LEMMA NoDanglingStep == IInv /\ TimerTypeOK /\ NoDanglingTimer /\ [Next]_vars => NoDanglingTimer'
<1> SUFFICES ASSUME IInv, TimerTypeOK, NoDanglingTimer, [Next]_vars, LinksSound',
                    NEW d \in Cores, NEW t \in Threads, Linked(d, t)'
             PROVE  sleeping'[t] = d /\ status'[t] = "WAITING"
  BY DEF NoDanglingTimer, Linked
<1>3. LinksSound
  BY SoundBefore
<1> USE PlatformAssumption, TimerNames, NullNotThread
<1>1. CASE Linked(d, t)
  <2>1. sleeping[t] = d
    BY <1>1, <1>3 DEF NoDanglingTimer, Linked
  <2>2. CASE StaysAsleep(t)
    BY <2>1, <2>2 DEF StaysAsleep
  <2>3. ASSUME NEW c \in Cores, sleep_wakeup_thread(c, t), timer_dispatch_pop(c, t)
        PROVE  FALSE
    <3>1. c = d
      BY <2>1, <2>3 DEF sleep_wakeup_thread
    <3>2. t \notin tree'[d]
      BY <2>3, <3>1 DEF timer_dispatch_pop, TimerTypeOK
    <3>3. rb_leftmost'[d] # t
      <4>1. PICK left \in LeftmostWithout(d, t) : rb_leftmost' = [rb_leftmost EXCEPT ![d] = left]
        BY <2>3, <3>1 DEF timer_dispatch_pop
      <4>2. rb_leftmost[d] = t
        BY <2>3, <3>1 DEF timer_dispatch_pop
      <4>3. left # t
        <5>1. CASE t \in tree[d]
          BY <4>2, <5>1 DEF LeftmostWithout, Firsts
        <5>2. CASE t \notin tree[d]
          BY <4>2, <5>2 DEF LeftmostWithout
        <5> QED BY <5>1, <5>2
      <4> QED BY <4>1, <4>3 DEF TimerTypeOK
    <3> QED BY <3>2, <3>3 DEF Linked
  <2> QED BY <2>1, <2>2, <2>3, SleeperStep
<1>2. CASE sleep_arm(d) /\ t = held[d]
  <2>1. pc[d] = "park_callback" /\ sleeping' = [sleeping EXCEPT ![t] = d]
    BY <1>2 DEF sleep_arm, sleep_park_callback, At
  <2>2. status[t] = "WAITING"
    BY <1>2, <2>1, CorePointers
  <2>3. status' = status
    BY <1>2 DEF sleep_arm, sleep_park_callback, threadVars
  <2> QED BY <2>1, <2>2, <2>3 DEF IInv, TypeOK
<1> QED BY <1>1, <1>2, OnlySleepLinks

(***************************************************************************)
(* A sleep timer, which lives on the stack of a thread in timer_sleep, is  *)
(* in no tree once that thread was woken: timer_dispatch unlinks it before *)
(* it runs the callback, and nothing links it again.  The hypothesis       *)
(* LinksSound of the property is needed: the second erase of a slice timer *)
(* that expired inside timer_cancel may link any timer it finds.           *)
(***************************************************************************)
THEOREM SleepTimersDoNotDangle == Spec => []NoDanglingTimer
<1>1. Init => NoDanglingTimer
  BY NullNotThread DEF Init, TimerInit, NoDanglingTimer
<1>2. KernelTypeOK => TimerTypeOK
  BY DEF KernelTypeOK
<1> QED BY <1>1, <1>2, KernelKeepsScheduler, KernelTypeCorrect, NoDanglingStep, PTL DEF Spec
----------------------------------------------------------------------------
USE DEF At, InIrq, InCall, Calling, Goto, ThreadGoto, threadVars, poolVars, coreVars, flowVars,
        apiVars, wakeVars, request_reschedule, enqueue_woken, scheduler_call

(* The timers of core d. *)
SameTimers(d) ==
    /\ tree'[d] = tree[d] /\ rb_leftmost'[d] = rb_leftmost[d]
    /\ hw'[d] = hw[d] /\ pending'[d] = pending[d] /\ deadline'[d] = deadline[d]
    /\ stale'[d] = stale[d]

(* A step of one core leaves the timers of the others alone. *)
LEMMA OtherTimers ==
  ASSUME IInv, TimerTypeOK, NEW c \in Cores, NEW d \in Cores, d # c, CoreStep(c)
  PROVE  SameTimers(d)
<1> USE TimerNames DEF SameTimers
<1>1. CASE UNCHANGED timerVars
  BY <1>1 DEF timerVars
<1>2. ASSUME NEW x, NEW left, cancel_rearm(c, x, left)
      PROVE  hw'[d] = hw[d] /\ pending'[d] = pending[d]
  BY <1>2 DEF cancel_rearm, TimerTypeOK
<1>3. ASSUME NEW x \in Timers, x # d, NEW e, timer_set(c, x, e), UNCHANGED stale
      PROVE  SameTimers(d)
  <2>1. tree'[d] = tree[d] /\ deadline'[d] = deadline[d]
    BY <1>3 DEF timer_set, TimerTypeOK
  <2>2. rb_leftmost'[d] = rb_leftmost[d]
    BY <1>3 DEF timer_set, TimerTypeOK
  <2>3. hw'[d] = hw[d] /\ pending'[d] = pending[d]
    BY <1>2, <1>3 DEF timer_set, TimerTypeOK
  <2> QED BY <1>3, <2>1, <2>2, <2>3
<1>4. CASE Untimed(c) \/ cancel_return(c) \/ cancel_stuck(c) \/ dispatch_panic(c)
  BY <1>1, <1>4 DEF Untimed, cancel_return, cancel_stuck, dispatch_panic
<1>5. CASE cancel_read(c) \/ cancel_clear(c) \/ dispatch_leave(c)
  BY <1>5 DEF cancel_read, cancel_clear, dispatch_leave, timer_dispatch_leave
<1>6. CASE cancel_erase(c)
  BY <1>2, <1>6 DEF cancel_erase, timer_cancel_erase, TimerTypeOK
<1>12. CASE cancel_corrupt(c)
  BY <1>2, <1>12 DEF cancel_corrupt, timer_cancel_corrupts, TimerTypeOK
<1>7. CASE execute_slice(c) \/ execute_inherit(c)
  BY <1>3, <1>7 DEF execute_slice, execute_inherit
<1>8. CASE sleep_arm(c)
  <2>1. held[c] \in Threads
    BY <1>8, CorePointers DEF sleep_arm, sleep_park_callback, HeldLabels
  <2> QED BY <1>3, <1>8, <2>1 DEF sleep_arm
<1>9. CASE interrupt(c) \/ interrupt_exit(c)
  BY <1>9 DEF interrupt, interrupt_exit, timer_dispatch_done, TimerTypeOK
<1>10. ASSUME NEW x, timer_dispatch_pop(c, x) PROVE SameTimers(d)
  BY <1>10 DEF timer_dispatch_pop, TimerTypeOK
<1>11. CASE dispatch_slice(c) \/ dispatch_sleep(c)
  BY <1>10, <1>11 DEF dispatch_slice, dispatch_sleep
<1> QED BY <1>4, <1>5, <1>6, <1>7, <1>8, <1>9, <1>11, <1>12 DEF CoreStep

(* A step of the kernel on a core is a step of its scheduler or leaves that alone. *)
LEMMA KernelStepOf ==
  ASSUME NEW c \in Cores, Call(c) \/ CoreStep(c)
  PROVE  StepOf(c) \/ UNCHANGED schedVars
<1> USE DEF StepOf
<1>1. CASE Call(c) \/ Untimed(c)
  BY <1>1 DEF Call, Untimed
<1>2. CASE cancel_return(c) \/ cancel_erase(c) \/ cancel_corrupt(c)
  BY <1>2 DEF cancel_return, cancel_erase, cancel_corrupt, TimedSchedulerStep
<1>3. CASE cancel_read(c) \/ cancel_clear(c) \/ dispatch_leave(c)
  BY <1>3 DEF cancel_read, cancel_clear, dispatch_leave
<1>4. CASE execute_slice(c) \/ execute_inherit(c) \/ sleep_arm(c)
  BY <1>4 DEF execute_slice, execute_inherit, sleep_arm, TimedSchedulerStep
<1>5. CASE interrupt(c) \/ dispatch_slice(c) \/ interrupt_exit(c)
  BY <1>5 DEF interrupt, dispatch_slice, interrupt_exit, IrqStep
<1>6. CASE dispatch_sleep(c)
  BY <1>6 DEF dispatch_sleep, IrqStep
<1>7. CASE cancel_stuck(c) \/ dispatch_panic(c)
  BY <1>7 DEF cancel_stuck, dispatch_panic
<1> QED BY <1>1, <1>2, <1>3, <1>4, <1>5, <1>6, <1>7 DEF CoreStep

(* A step of the kernel on one core, as seen by another one. *)
LEMMA OtherKernelCores ==
  ASSUME IInv, TimerTypeOK, NEW c \in Cores, NEW d \in Cores, d # c, Call(c) \/ CoreStep(c)
  PROVE  SameCore(d) /\ SameTimers(d)
<1>1. SameTimers(d)
  <2>1. CASE Call(c)
    BY <2>1 DEF Call, timerVars, SameTimers
  <2> QED BY <2>1, OtherTimers
<1>2. StepOf(c) \/ UNCHANGED schedVars
  BY KernelStepOf
<1>3. CASE UNCHANGED schedVars
  BY <1>1, <1>3 DEF schedVars, SameCore
<1> QED BY <1>1, <1>2, <1>3, OtherCores

----------------------------------------------------------------------------
(* While a core is in its thread, the slice timer of the core is armed or  *)
(* its expiry is on record.                                                *)
SliceKept(c) == pc[c] = "thread" => c \in tree[c] \/ want_reschedule[c]

(* Only scheduler_execute resumes a thread and drops a request. *)
LEMMA RequestsStay ==
  ASSUME IInv, NEW c \in Cores, SchedulerStep(c) \/ ThreadCall(c) \/ ThreadStep(c),
         pc'[c] = "thread"
  PROVE  pc[c] = "thread" /\ (want_reschedule[c] => want_reschedule'[c])
<1>1. /\ pc \in [Cores -> CoreLabels] /\ want_reschedule \in [Cores -> BOOLEAN]
  BY DEF IInv, TypeOK
<1>2. CASE SchedulerStep(c)
  BY <1>1, <1>2 DEF SchedulerStep, scheduler_yield_internal, scheduler_park_internal,
     scheduler_park_internal_null, park_callback_publish, park_callback_fail,
     scheduler_exit_internal, exit_thread_free_clear, exit_thread_free_link,
     core_prepare_park, schedule_pop_empty, schedule_pop, core_park
<1>3. CASE ThreadCall(c)
  BY <1>1, <1>3 DEF ThreadCall, scheduler_yield, scheduler_exit, scheduler_park,
     scheduler_reschedule_now, scheduler_reschedule_later, scheduler_preempt_disable,
     scheduler_preempt_enable, scheduler_wakeup_thread, thread_create
<1>4. CASE ThreadStep(c)
  BY <1>1, <1>4 DEF ThreadStep, preempt_enable_yield, preempt_enable_skip,
     preempt_enable_dec, wakeup_enqueue, create_lock, create_alloc, create_exhausted,
     create_finish, create_assert_fails
<1> QED BY <1>2, <1>3, <1>4

(* Steps of its own core keep its slice armed or on record. *)
LEMMA SliceOwnStep ==
  ASSUME IInv, TimerTypeOK, NEW c \in Cores, SliceKept(c), Call(c) \/ CoreStep(c)
  PROVE  SliceKept(c)'
<1> SUFFICES ASSUME pc'[c] = "thread" PROVE c \in tree'[c] \/ want_reschedule'[c]
  BY DEF SliceKept
<1> USE TimerNames
<1>1. pc \in [Cores -> CoreLabels] /\ want_reschedule \in [Cores -> BOOLEAN]
  BY DEF IInv, TypeOK
<1>2. CASE Call(c) \/ Untimed(c)
  BY <1>2, RequestsStay DEF Call, Untimed, timerVars, SliceKept
<1>3. CASE \/ cancel_return(c) \/ cancel_read(c) \/ cancel_clear(c) \/ cancel_erase(c)
           \/ cancel_corrupt(c) \/ cancel_stuck(c)
  <2>1. pc[c] = "cancel" /\ (pc' = [pc EXCEPT ![c] = "prepare"] \/ pc' = pc)
    BY <1>3 DEF cancel_return, cancel_read, cancel_clear, cancel_erase, cancel_corrupt,
       cancel_stuck, schedule_cancel, core_stops, schedVars
  <2> QED BY <1>1, <2>1
<1>4. CASE execute_slice(c) \/ execute_inherit(c)
  <2>1. PICK e : timer_set(c, c, e)
    BY <1>4 DEF execute_slice, execute_inherit
  <2> QED BY <2>1 DEF timer_set, TimerTypeOK
<1>5. CASE sleep_arm(c)
  BY <1>1, <1>5 DEF sleep_arm, sleep_park_callback
<1>6. CASE interrupt(c)
  BY <1>6 DEF interrupt, timer_interrupt_handler, SliceKept
<1>7. CASE dispatch_slice(c) \/ dispatch_sleep(c)
  BY <1>1, <1>7 DEF dispatch_slice, dispatch_sleep, scheduler_timer_tick,
     sleep_wakeup_thread
<1>8. CASE dispatch_panic(c) \/ dispatch_leave(c)
  BY <1>8 DEF dispatch_panic, core_stops, dispatch_leave, timer_dispatch_leave, schedVars,
     timerVars, SliceKept
<1>9. CASE interrupt_exit(c)
  <2>1. tree' = tree /\ want_reschedule' = want_reschedule
    BY <1>9 DEF interrupt_exit, timer_dispatch_done, irq_exit_yield, irq_exit_return
  <2>2. pc[c] = "thread"
    BY <1>1, <1>9 DEF interrupt_exit, irq_exit_yield, irq_exit_return
  <2> QED BY <2>1, <2>2 DEF SliceKept
<1> QED BY <1>2, <1>3, <1>4, <1>5, <1>6, <1>7, <1>8, <1>9 DEF CoreStep

(***************************************************************************)
(* A slice is never lost, with any number of threads and cores, with       *)
(* either backend and whatever threads sleep, as long as no slice timer    *)
(* was erased twice (LinksSound): a thread that runs has its slice timer   *)
(* in the tree, or preemption disabled with the expiry on record.  A       *)
(* thread that disables preemption itself is left out: between the test of *)
(* want_reschedule and the decrement of scheduler_preempt_enable it can    *)
(* lose the expiry.                                                        *)
(***************************************************************************)
THEOREM SlicesAreNeverLost ==
  ASSUME "preempt" \notin Calls
  PROVE  Spec => []SliceNeverLost
<1> DEFINE Served == \A c \in Cores : RequestsServed(c)
           Kept == \A c \in Cores : SliceKept(c)
<1>1. Init => Served /\ Kept
  BY DEF Init, SchedInit, scheduler_init_per_core, RequestsServed, SliceKept
<1>2. IInv /\ Served /\ [Next]_vars => Served'
  <2>1. [Next]_vars => [SchedNext]_schedVars
    BY CoreStepImplements DEF Next, vars, TimePasses
  <2> QED BY <2>1, ServedStep
<1>3. IInv /\ TimerTypeOK /\ Kept /\ [Next]_vars => Kept'
  <2> SUFFICES ASSUME IInv, TimerTypeOK, Kept, [Next]_vars, NEW d \in Cores
               PROVE  SliceKept(d)'
    OBVIOUS
  <2>1. CASE UNCHANGED vars \/ TimePasses
    <3>1. UNCHANGED <<pc, want_reschedule, tree>>
      BY <2>1 DEF vars, schedVars, timerVars, TimePasses, Tick
    <3> QED BY <3>1 DEF SliceKept
  <2>2. ASSUME NEW c \in Cores, Call(c) \/ CoreStep(c) PROVE SliceKept(d)'
    <3>1. CASE c = d
      BY <2>2, <3>1, SliceOwnStep
    <3>2. CASE c # d
      BY <2>2, <3>2, OtherKernelCores DEF SameCore, SameTimers, SliceKept
    <3> QED BY <3>1, <3>2
  <2> QED BY <2>1, <2>2 DEF Next
<1>4. IInv /\ Served /\ Kept => SliceNeverLost
  BY DEF IInv, TypeOK, RequestsServed, SliceKept, SliceNeverLost
<1>5. KernelTypeOK => TimerTypeOK
  BY DEF KernelTypeOK
<1> QED BY <1>1, <1>2, <1>3, <1>4, <1>5, KernelKeepsScheduler, KernelTypeCorrect, PTL
        DEF Spec
----------------------------------------------------------------------------
(* Without sleepers the tree of a core holds its slice timer or nothing,   *)
(* the hardware is armed for it, and a slice timer that is erased twice    *)
(* has no neighbours its links could name.                                 *)
OnlySlice(c) ==
    /\ park_callback[c] # "sleep"
    /\ stale[c] = {}
    /\ tree[c] \subseteq {c}
    /\ rb_leftmost[c] = IF tree[c] = {} THEN NULL ELSE c
    /\ tree[c] # {} /\ ~irq[c] => pending[c] \/ (hw[c] # NULL /\ hw[c] <= deadline[c])

(* No call but timer_sleep sets the callback that arms a sleep timer. *)
LEMMA NoSleepCallback ==
  ASSUME "sleep" \notin Calls, IInv, NEW c \in Cores, StepOf(c), park_callback[c] # "sleep"
  PROVE  park_callback'[c] # "sleep"
<1>1. park_callback \in [Cores -> Callbacks \cup {NULL}]
  BY DEF IInv, TypeOK
<1>2. NULL # "sleep"
  BY CallbackAssumption DEF Callbacks
<1>3. CASE SchedulerStep(c) \/ TimedSchedulerStep(c)
  BY <1>1, <1>2, <1>3 DEF SchedulerStep, scheduler_yield_internal, scheduler_park_internal,
     scheduler_park_internal_null, park_callback_publish, park_callback_fail,
     scheduler_exit_internal, exit_thread_free_clear, exit_thread_free_link,
     core_prepare_park, schedule_pop_empty, schedule_pop, core_park,
     TimedSchedulerStep, sleep_park_callback, schedule_cancel, scheduler_execute
<1>4. CASE ThreadCall(c)
  BY <1>1, <1>2, <1>4 DEF ThreadCall, scheduler_yield, scheduler_exit, scheduler_park,
     scheduler_reschedule_now, scheduler_reschedule_later, scheduler_preempt_disable,
     scheduler_preempt_enable, scheduler_wakeup_thread, thread_create
<1>5. CASE ThreadStep(c)
  BY <1>1, <1>5 DEF ThreadStep, preempt_enable_yield, preempt_enable_skip,
     preempt_enable_dec, wakeup_enqueue, create_lock, create_alloc, create_exhausted,
     create_finish, create_assert_fails
<1>6. CASE timer_interrupt_handler(c) \/ IrqStep(c) \/ core_stops(c)
  BY <1>1, <1>6 DEF timer_interrupt_handler, IrqStep, scheduler_timer_tick,
     sleep_wakeup_thread, irq_exit_yield, irq_exit_return, core_stops
<1> QED BY <1>3, <1>4, <1>5, <1>6 DEF StepOf

(* Steps of its own core keep the tree and the hardware in line. *)
LEMMA OnlySliceOwnStep ==
  ASSUME "sleep" \notin Calls, Backend = "tsc", IInv, TimerTypeOK,
         NEW c \in Cores, OnlySlice(c), Call(c) \/ CoreStep(c)
  PROVE  OnlySlice(c)'
<1> USE TimerNames, PlatformAssumption
<1>1. park_callback'[c] # "sleep"
  <2>1. CASE UNCHANGED schedVars
    BY <2>1 DEF OnlySlice, schedVars
  <2> QED BY <2>1, KernelStepOf, NoSleepCallback DEF OnlySlice
<1>2. CASE UNCHANGED <<tree, rb_leftmost, hw, pending, deadline, stale>> /\ UNCHANGED irq
  BY <1>1, <1>2 DEF OnlySlice
<1>3. CASE Call(c) \/ Untimed(c)
  <2>1. SchedulerStep(c) \/ ThreadCall(c) \/ ThreadStep(c)
    BY <1>3 DEF Call, Untimed
  <2>2. irq' = irq
    <3>1. CASE SchedulerStep(c)
      BY <3>1 DEF SchedulerStep, scheduler_yield_internal, scheduler_park_internal,
         scheduler_park_internal_null, park_callback_publish, park_callback_fail,
         scheduler_exit_internal, exit_thread_free_clear, exit_thread_free_link,
         core_prepare_park, schedule_pop_empty, schedule_pop, core_park
    <3>2. CASE ThreadCall(c)
      BY <3>2 DEF ThreadCall, scheduler_yield, scheduler_exit, scheduler_park,
         scheduler_reschedule_now, scheduler_reschedule_later, scheduler_preempt_disable,
         scheduler_preempt_enable, scheduler_wakeup_thread, thread_create
    <3>3. CASE ThreadStep(c)
      BY <3>3 DEF ThreadStep, preempt_enable_yield, preempt_enable_skip,
         preempt_enable_dec, wakeup_enqueue, create_lock, create_alloc, create_exhausted,
         create_finish, create_assert_fails
    <3> QED BY <2>1, <3>1, <3>2, <3>3
  <2> QED BY <1>2, <1>3, <2>2 DEF Call, Untimed, timerVars
<1>4. CASE cancel_return(c) \/ dispatch_panic(c)
  BY <1>2, <1>4 DEF cancel_return, dispatch_panic, schedule_cancel, core_stops, timerVars
<1>14. ~cancel_corrupt(c) /\ ~cancel_stuck(c)
  BY DEF cancel_corrupt, timer_cancel_corrupts, cancel_stuck, ErasedTwice, OnlySlice
<1>5. CASE cancel_read(c) \/ cancel_clear(c) \/ dispatch_leave(c)
  BY <1>2, <1>5 DEF cancel_read, cancel_clear, dispatch_leave, timer_dispatch_leave, schedVars
<1>6. ASSUME tree' = [tree EXCEPT ![c] = @ \ {c}],
             \E left \in LeftmostWithout(c, c) :
                rb_leftmost' = [rb_leftmost EXCEPT ![c] = left],
             stale'[c] = {}
      PROVE  OnlySlice(c)'
  <2>1. tree'[c] = {}
    BY <1>6 DEF OnlySlice, TimerTypeOK
  <2>2. LeftmostWithout(c, c) = {NULL}
    BY DEF OnlySlice, LeftmostWithout, Firsts
  <2>3. rb_leftmost'[c] = NULL
    BY <1>6, <2>2 DEF TimerTypeOK
  <2> QED BY <1>1, <1>6, <2>1, <2>3 DEF OnlySlice
<1>7. CASE cancel_erase(c)
  <2>1. stale'[c] = {}
    BY <1>7 DEF cancel_erase, timer_cancel_erase, TimerTypeOK
  <2> QED BY <1>6, <1>7, <2>1 DEF cancel_erase, timer_cancel_erase
<1>8. CASE dispatch_slice(c)
  <2>1. stale'[c] = {}
    BY <1>8 DEF dispatch_slice, timer_dispatch_pop, TimerTypeOK, OnlySlice
  <2> QED BY <1>6, <1>8, <2>1 DEF dispatch_slice, timer_dispatch_pop
<1>9. ~dispatch_sleep(c)
  BY DEF dispatch_sleep, timer_dispatch_pop, Due, OnlySlice
<1>10. ~sleep_arm(c)
  BY DEF sleep_arm, sleep_park_callback, OnlySlice
<1>11. CASE execute_slice(c) \/ execute_inherit(c)
  <2>1. PICK e \in Nat : timer_set(c, c, e)
    <3>1. deadline[c] \in Nat
      BY DEF TimerTypeOK
    <3> QED BY <1>11, <3>1, KernelAssumption DEF execute_slice, execute_inherit
  <2>2. tree[c] \ {c} = {}
    BY DEF OnlySlice
  <2>3. /\ tree'[c] = {c} /\ deadline'[c] = e
        /\ rb_leftmost'[c] = c
        /\ set_deadline(c, e)
    BY <2>1, <2>2 DEF timer_set, TimerTypeOK
  <2>4. pending'[c] \/ (hw'[c] # NULL /\ hw'[c] <= e)
    <3>1. CASE e = 0
      BY <2>3, <3>1 DEF TimerTypeOK
    <3>2. CASE e > 0
      <4>1. hw'[c] = e
        BY <2>3, <3>2 DEF TimerTypeOK
      <4> QED BY <4>1
    <3> QED BY <3>1, <3>2
  <2>5. stale' = stale
    BY <1>11 DEF execute_slice, execute_inherit
  <2> QED BY <1>1, <2>3, <2>4, <2>5 DEF OnlySlice
<1>12. CASE interrupt(c)
  <2>1. irq'[c]
    BY <1>12 DEF interrupt, timer_interrupt_handler, IInv, TypeOK
  <2> QED BY <1>1, <1>12, <2>1 DEF interrupt, OnlySlice
<1>13. CASE interrupt_exit(c)
  <2>1. timer_dispatch_done(c)
    BY <1>13 DEF interrupt_exit
  <2>2. UNCHANGED <<tree, rb_leftmost, deadline, stale>>
    BY <2>1 DEF timer_dispatch_done
  <2>3. ASSUME tree[c] # {}
        PROVE  pending'[c] \/ (hw'[c] # NULL /\ hw'[c] <= deadline[c])
    <3>1. rb_leftmost[c] = c /\ c # NULL /\ deadline[c] \in Nat
      BY <2>3 DEF OnlySlice, TimerTypeOK
    <3>2. CASE deadline[c] = 0
      BY <2>1, <3>1, <3>2 DEF timer_dispatch_done, TimerTypeOK
    <3>3. CASE deadline[c] > 0
      BY <2>1, <3>1, <3>3 DEF timer_dispatch_done, TimerTypeOK
    <3> QED BY <3>1, <3>2, <3>3
  <2> QED BY <1>1, <2>2, <2>3 DEF OnlySlice
<1> QED BY <1>3, <1>4, <1>5, <1>7, <1>8, <1>9, <1>10, <1>11, <1>12, <1>13, <1>14 DEF CoreStep

(* The passage of time keeps the hardware ahead of the first deadline. *)
LEMMA OnlySliceTick ==
  ASSUME TimerTypeOK, NEW c \in Cores, OnlySlice(c), TimePasses
  PROVE  OnlySlice(c)'
<1> USE TimerNames, PlatformAssumption
<1>1. UNCHANGED <<tree, rb_leftmost, irq, park_callback, stale>>
  BY DEF TimePasses, Tick, schedVars
<1>2. ASSUME pending[c] \/ (hw[c] # NULL /\ hw[c] <= deadline[c])
      PROVE  pending'[c] \/ (hw'[c] # NULL /\ hw'[c] <= deadline'[c])
  <2>1. /\ hw'[c] = IF hw[c] \in {NULL, 1} THEN NULL ELSE hw[c] - 1
        /\ deadline'[c] = IF deadline[c] > 0 THEN deadline[c] - 1 ELSE 0
        /\ pending'[c] <=> pending[c] \/ hw[c] = 1
    BY DEF TimePasses, Tick
  <2>2. CASE pending[c] \/ hw[c] = 1
    BY <2>1, <2>2
  <2>3. CASE ~pending[c] /\ hw[c] # 1
    <3>1. hw[c] \in Nat \ {0} /\ deadline[c] \in Nat /\ hw[c] <= deadline[c]
      BY <1>2, <2>3 DEF TimerTypeOK
    <3>2. hw[c] \notin {NULL, 1}
      BY <1>2, <2>3
    <3>3. hw'[c] = hw[c] - 1 /\ deadline'[c] = deadline[c] - 1
      BY <2>1, <3>1, <3>2
    <3>4. hw'[c] # NULL
      BY <3>1, <3>3
    <3> QED BY <3>1, <3>3, <3>4
  <2> QED BY <2>2, <2>3
<1> QED BY <1>1, <1>2 DEF OnlySlice

(***************************************************************************)
(* The hardware is armed, or the interrupt raised, as long as a timer is   *)
(* in the tree of a core, for any number of cores and threads, with the    *)
(* TSC-deadline backend and no sleepers.  Both hypotheses are needed: the  *)
(* one-shot count of the local APIC is stopped by a deadline in the past,  *)
(* and timer_cancel of a timer that is not the first clears the hardware.  *)
(***************************************************************************)
THEOREM SliceTimersStayArmed ==
  ASSUME "sleep" \notin Calls, Backend = "tsc"
  PROVE  Spec => []ArmedWhileTimersRemain
<1> DEFINE Lone == \A c \in Cores : OnlySlice(c)
<1>1. Init => Lone
  BY CallbackAssumption, ZenonT(60)
     DEF Init, SchedInit, scheduler_init_per_core, TimerInit, OnlySlice, Callbacks
<1>2. IInv /\ TimerTypeOK /\ Lone /\ [Next]_vars => Lone'
  <2> SUFFICES ASSUME IInv, TimerTypeOK, Lone, [Next]_vars, NEW d \in Cores
               PROVE  OnlySlice(d)'
    OBVIOUS
  <2>1. CASE UNCHANGED vars
    BY <2>1 DEF vars, schedVars, timerVars, OnlySlice
  <2>2. CASE TimePasses
    BY <2>2, OnlySliceTick
  <2>3. ASSUME NEW c \in Cores, Call(c) \/ CoreStep(c) PROVE OnlySlice(d)'
    <3>1. CASE c = d
      BY <2>3, <3>1, OnlySliceOwnStep
    <3>2. CASE c # d
      BY <2>3, <3>2, OtherKernelCores DEF SameCore, SameTimers, OnlySlice
    <3> QED BY <3>1, <3>2
  <2> QED BY <2>1, <2>2, <2>3 DEF Next
<1>3. Lone => ArmedWhileTimersRemain
  BY DEF OnlySlice, ArmedWhileTimersRemain
<1>4. KernelTypeOK => TimerTypeOK
  BY DEF KernelTypeOK
<1> QED BY <1>1, <1>2, <1>3, <1>4, KernelKeepsScheduler, KernelTypeCorrect, PTL DEF Spec
=============================================================================
