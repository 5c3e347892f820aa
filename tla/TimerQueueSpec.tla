--------------------------- MODULE TimerQueueSpec ---------------------------
(***************************************************************************)
(* What timer.c needs of the tree its timers are kept in: a queue ordered  *)
(* by deadline, timers with equal deadlines in the order they were set,    *)
(* and the first of them at hand without a search.                         *)
(***************************************************************************)
EXTENDS Integers, Sequences

CONSTANTS
    Nodes,
    Key,    \* the deadline of each node
    NULL

VARIABLES
    queue,  \* the nodes, in order
    first   \* the node rb_first_cached returns

QueueVars == <<queue, first>>

FirstOf(q) == IF q = <<>> THEN NULL ELSE Head(q)
Queued == {queue[i] : i \in DOMAIN queue}

QueueInit == queue = <<>> /\ first = NULL

(* A node goes behind every node that is not later than it.                *)
Add(n) ==
    /\ n \notin Queued
    /\ \E i \in 0 .. Len(queue) :
         /\ \A j \in DOMAIN queue : j <= i <=> Key[queue[j]] <= Key[n]
         /\ queue' = SubSeq(queue, 1, i) \o <<n>> \o SubSeq(queue, i + 1, Len(queue))
    /\ first' = FirstOf(queue')

Erase(n) ==
    /\ \E i \in DOMAIN queue :
         /\ queue[i] = n
         /\ queue' = SubSeq(queue, 1, i - 1) \o SubSeq(queue, i + 1, Len(queue))
    /\ first' = FirstOf(queue')

QueueNext == \E n \in Nodes : Add(n) \/ Erase(n)

QueueSpec == QueueInit /\ [][QueueNext]_QueueVars
=============================================================================
