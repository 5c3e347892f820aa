------------------------------- MODULE Timer -------------------------------
(***************************************************************************)
(* The timer subsystem (timer.c): on every core a red-black tree of armed  *)
(* timers with a cached leftmost node, and one hardware timer programmed   *)
(* for that node.  Two kinds of timer exist: the slice timer embedded in   *)
(* the scheduler context of core c, named c, and the sleep timer on the    *)
(* stack of a thread in timer_sleep, named by the thread.                  *)
(*                                                                         *)
(* A deadline is kept as the ticks that remain, 0 once it has passed.  The *)
(* tree is the set of its nodes; which of several equally due nodes comes  *)
(* first depends on TSC values finer than a tick and is left open.         *)
(* An erase through stale links may leave any nodes in the tree.           *)
(*                                                                         *)
(* The operators are fragments of the actions of Kernel.                   *)
(***************************************************************************)
EXTENDS Platform

CONSTANT Backend  \* m_timer_backend: "tsc" (TSC deadline) or "lapic" (one-shot count)

ASSUME TimerAssumption == Backend \in {"tsc", "lapic"}

Timers == Cores \cup Threads

VARIABLES
    deadline,     \* timer_t.deadline, as remaining ticks
    timers,       \* timer_t.timers: the core whose tree holds the timer, or NULL
    tree,         \* m_timers.tree of each core
    rb_leftmost,  \* its cached first node, or NULL
    hw,           \* ticks until the hardware timer fires, NULL when not armed
    pending,      \* the timer interrupt is raised and not yet taken
    cancel_at,    \* how far the timer_cancel call of scheduler_schedule got
    left_loop,    \* timer_dispatch has found no more timer due
    stale,        \* the nodes the links of a slice timer dispatched meanwhile may name
    broken        \* history: a node was erased twice, through stale links

timerVars == <<deadline, timers, tree, rb_leftmost, hw, pending, cancel_at, left_loop, stale, broken>>

TimerInit ==
    /\ deadline = [x \in Timers |-> 0]
    /\ timers = [x \in Timers |-> NULL]
    /\ tree = [c \in Cores |-> {}]
    /\ rb_leftmost = [c \in Cores |-> NULL]
    /\ hw = [c \in Cores |-> NULL]
    /\ pending = [c \in Cores |-> FALSE]
    /\ cancel_at = [c \in Cores |-> "read"]
    /\ left_loop = [c \in Cores |-> FALSE]
    /\ stale = [c \in Cores |-> {}]
    /\ broken = [c \in Cores |-> FALSE]

TimerTypeOK ==
    /\ deadline \in [Timers -> Nat]
    /\ timers \in [Timers -> Cores \cup {NULL}]
    /\ tree \in [Cores -> SUBSET Timers]
    /\ rb_leftmost \in [Cores -> Timers \cup {NULL}]
    /\ hw \in [Cores -> (Nat \ {0}) \cup {NULL}]
    /\ pending \in [Cores -> BOOLEAN]
    /\ cancel_at \in [Cores -> {"read", "clear", "erase"}]
    /\ left_loop \in [Cores -> BOOLEAN]
    /\ stale \in [Cores -> SUBSET Timers]
    /\ broken \in [Cores -> BOOLEAN]

(* Mutant: a deadline that has passed is programmed like any other.        *)
set_deadline_past(c, d) ==
    /\ hw' = [hw EXCEPT ![c] = d]
    /\ UNCHANGED pending

(***************************************************************************)
(* The two backends.  A deadline in the past makes the TSC-deadline timer  *)
(* fire at once, but is a count of 0 to the local APIC, which stops it.    *)
(***************************************************************************)
set_deadline(c, d) ==
    /\ hw' = [hw EXCEPT ![c] = IF d > 0 THEN d ELSE NULL]
    /\ pending' = [pending EXCEPT ![c] = @ \/ (d = 0 /\ Backend = "tsc")]

clear(c) ==
    /\ hw' = [hw EXCEPT ![c] = NULL]
    /\ UNCHANGED pending

(* The nodes rb_next may return as the new first of a set of nodes.        *)
Firsts(S) ==
    IF S = {} THEN {NULL} ELSE {x \in S : \A y \in S : deadline[x] <= deadline[y]}

(* What rb_erase_cached may leave in rb_leftmost after x is removed, which *)
(* for a node that was cut off may be anything its links lead to.          *)
LeftmostWithout(c, x) ==
    IF rb_leftmost[c] # x THEN {rb_leftmost[c]}
    ELSE IF x \in tree[c] THEN Firsts(tree[c] \ {x})
    ELSE tree[c] \cup {NULL}

(***************************************************************************)
(* The end of timer_cancel.  rb_erase_cached returns the new leftmost node *)
(* if x was the leftmost one and NULL if it was not; timer_cancel compares *)
(* that with the old leftmost node and reprograms the hardware when they   *)
(* differ, clearing it on NULL.                                            *)
(***************************************************************************)
cancel_rearm(c, x, left) ==
    LET erased == IF rb_leftmost[c] = x THEN left ELSE NULL
    IN \/ erased = rb_leftmost[c] /\ UNCHANGED <<hw, pending>>
       \/ erased # rb_leftmost[c] /\ erased # NULL /\ set_deadline(c, deadline[erased])
       \/ erased # rb_leftmost[c] /\ erased = NULL /\ clear(c)

(***************************************************************************)
(* The erase of timer_cancel, interrupts off.  A node that timer_dispatch  *)
(* took out meanwhile is erased a second time.  If it was the only node,   *)
(* that empties an empty tree.  Otherwise its parent, its child and its    *)
(* colour are those it had in a tree that has changed: the second erase    *)
(* writes them into nodes which may be gone, cuts off or relinks whole     *)
(* subtrees and rebalances what it finds.  It leaves rb_leftmost alone,    *)
(* and the hardware is cleared.                                            *)
(***************************************************************************)
ErasedTwice(c, x) == x \notin tree[c] /\ stale[c] # {}

timer_cancel_erase(c, x) ==
    /\ ~ErasedTwice(c, x)
    /\ tree' = [tree EXCEPT ![c] = @ \ {x}]
    /\ \E left \in LeftmostWithout(c, x) :
         /\ rb_leftmost' = [rb_leftmost EXCEPT ![c] = left]
         /\ cancel_rearm(c, x, left)
    /\ stale' = [stale EXCEPT ![c] = {}]
    /\ UNCHANGED <<deadline, timers, broken>>

timer_cancel_corrupts(c, x) ==
    /\ ErasedTwice(c, x)
    /\ \E nodes \in SUBSET (tree[c] \cup stale[c]) : tree' = [tree EXCEPT ![c] = nodes]
    /\ cancel_rearm(c, x, rb_leftmost[c])
    /\ broken' = [broken EXCEPT ![c] = TRUE]
    /\ stale' = [stale EXCEPT ![c] = {}]
    /\ UNCHANGED <<deadline, timers, rb_leftmost>>

(* Mutant: the hardware is not programmed for a new leftmost node.         *)
timer_set_unprogrammed(c, x, d) ==
    LET rest == tree[c] \ {x}
    IN /\ deadline' = [deadline EXCEPT ![x] = d]
       /\ timers' = [timers EXCEPT ![x] = c]
       /\ tree' = [tree EXCEPT ![c] = rest \cup {x}]
       /\ rb_leftmost' =
            [rb_leftmost EXCEPT ![c] = IF \A y \in rest : d <= deadline[y] THEN x ELSE @]
       /\ UNCHANGED <<hw, pending>>

(***************************************************************************)
(* timer_set with interrupts off: cancel the timer if it is armed, insert  *)
(* it, and program the hardware if it is the new leftmost node.  An equal  *)
(* deadline may sort either way (finer TSC values).                        *)
(***************************************************************************)
timer_set(c, x, d) ==
    LET rest == tree[c] \ {x}
    IN /\ deadline' = [deadline EXCEPT ![x] = d]
       /\ timers' = [timers EXCEPT ![x] = c]
       /\ tree' = [tree EXCEPT ![c] = rest \cup {x}]
       /\ \/ /\ \A y \in rest : d <= deadline[y]
             /\ rb_leftmost' = [rb_leftmost EXCEPT ![c] = x]
             /\ set_deadline(c, d)
          \/ /\ \E y \in rest : deadline[y] <= d
             /\ \E left \in LeftmostWithout(c, x) :
                  /\ rb_leftmost' = [rb_leftmost EXCEPT ![c] = left]
                  /\ \/ timers[x] = NULL /\ UNCHANGED <<hw, pending>>
                     \/ timers[x] # NULL /\ cancel_rearm(c, x, left)

(* Mutant: a timer is dispatched one tick before its deadline.             *)
Due_early(c) == rb_leftmost[c] # NULL /\ deadline[rb_leftmost[c]] <= 1

(***************************************************************************)
(* timer_dispatch: one round of the loop takes out the first timer if it   *)
(* is due (its callback is the other half of the action in Kernel); the    *)
(* loop ends when it is not, and the hardware is programmed for it, which  *)
(* may be due by then.                                                     *)
(***************************************************************************)
Due(c) == rb_leftmost[c] # NULL /\ deadline[rb_leftmost[c]] = 0

(* Mutant: the expired timer is not erased from the tree.                  *)
timer_dispatch_pop_linked(c, x) ==
    /\ ~left_loop[c] /\ Due(c) /\ x = rb_leftmost[c]
    /\ timers[x] = c
    /\ timers' = [timers EXCEPT ![x] = NULL]
    /\ UNCHANGED <<deadline, tree, rb_leftmost, hw, pending, cancel_at, left_loop, stale, broken>>

timer_dispatch_pop(c, x) ==
    /\ ~left_loop[c] /\ Due(c) /\ x = rb_leftmost[c]
    /\ timers[x] = c
    /\ tree' = [tree EXCEPT ![c] = @ \ {x}]
    /\ \E left \in LeftmostWithout(c, x) : rb_leftmost' = [rb_leftmost EXCEPT ![c] = left]
    /\ timers' = [timers EXCEPT ![x] = NULL]
    /\ stale' = IF x = c /\ cancel_at[c] = "clear"
                THEN [stale EXCEPT ![c] = tree[c] \ {x}]
                ELSE stale
    /\ UNCHANGED <<deadline, hw, pending, cancel_at, left_loop, broken>>

timer_dispatch_leave(c) ==
    /\ ~left_loop[c] /\ ~Due(c)
    /\ left_loop' = [left_loop EXCEPT ![c] = TRUE]
    /\ UNCHANGED <<deadline, timers, tree, rb_leftmost, hw, pending, cancel_at, stale, broken>>

timer_dispatch_done(c) ==
    /\ left_loop[c]
    /\ \/ rb_leftmost[c] = NULL /\ clear(c)
       \/ rb_leftmost[c] # NULL /\ set_deadline(c, deadline[rb_leftmost[c]])
    /\ left_loop' = [left_loop EXCEPT ![c] = FALSE]
    /\ UNCHANGED <<deadline, timers, tree, rb_leftmost, cancel_at, stale, broken>>

(***************************************************************************)
(* The passage of time: deadlines come closer, and a hardware timer that   *)
(* reaches its own raises the interrupt and disarms itself.                *)
(***************************************************************************)
Tick ==
    /\ \/ \E x \in Timers : deadline[x] > 0
       \/ \E c \in Cores : hw[c] # NULL
    /\ deadline' = [x \in Timers |-> IF deadline[x] > 0 THEN deadline[x] - 1 ELSE 0]
    /\ hw' = [c \in Cores |-> IF hw[c] \in {NULL, 1} THEN NULL ELSE hw[c] - 1]
    /\ pending' = [c \in Cores |-> pending[c] \/ hw[c] = 1]
    /\ UNCHANGED <<timers, tree, rb_leftmost, cancel_at, left_loop, stale, broken>>
=============================================================================
