------------------------------- MODULE Thread -------------------------------
(***************************************************************************)
(* Thread control blocks (thread.c): the status word of every thread, the  *)
(* grow-only top of the THREADS array, the freelist of released blocks and *)
(* the spinlock that guards both.  The lock is a plain spinlock: a thread  *)
(* that holds it may be preempted.                                         *)
(*                                                                         *)
(* The operators below are fragments of the actions of Scheduler: each one *)
(* constrains the primed variables it names and no others.                 *)
(***************************************************************************)
EXTENDS Platform

VARIABLES
    status,                 \* thread_t.status
    m_thread_top,           \* blocks 0 .. m_thread_top-1 were handed out once
    m_thread_freelist,      \* the released blocks (the order is abstracted)
    m_thread_freelist_lock  \* the thread that holds the lock, or NULL

threadVars == <<status, m_thread_top, m_thread_freelist, m_thread_freelist_lock>>
poolVars   == <<m_thread_top, m_thread_freelist, m_thread_freelist_lock>>

thread_status == {"IDLE", "RUNNABLE", "RUNNING", "WAITING", "DEAD"}

ThreadTypeOK ==
    /\ status \in [Threads -> thread_status]
    /\ m_thread_top \in 0 .. MaxThreads
    /\ m_thread_freelist \in SUBSET Threads
    /\ m_thread_freelist_lock \in Threads \cup {NULL}

(***************************************************************************)
(* The compare-and-swap loop of thread_switch_status: it spins, and the    *)
(* step is not enabled, while the status is not old.                       *)
(***************************************************************************)
thread_switch_status(t, old, new) ==
    /\ status[t] = old
    /\ status' = [status EXCEPT ![t] = new]

(***************************************************************************)
(* thread_alloc: acquire the lock (t is the caller), then take a released  *)
(* block, zeroed, or grow the pool.  Zero is THREAD_STATUS_IDLE.           *)
(***************************************************************************)
thread_alloc_lock(t) ==
    /\ m_thread_freelist_lock = NULL
    /\ m_thread_freelist_lock' = t
    /\ UNCHANGED <<status, m_thread_top, m_thread_freelist>>

(* Mutant: the block is taken but not unlinked from the freelist.          *)
thread_alloc_reuse_linked(u) ==
    /\ u \in m_thread_freelist
    /\ status' = [status EXCEPT ![u] = "IDLE"]
    /\ m_thread_freelist_lock' = NULL
    /\ UNCHANGED <<m_thread_top, m_thread_freelist>>

thread_alloc_reuse(u) ==
    /\ u \in m_thread_freelist
    /\ m_thread_freelist' = m_thread_freelist \ {u}
    /\ status' = [status EXCEPT ![u] = "IDLE"]
    /\ m_thread_freelist_lock' = NULL
    /\ UNCHANGED m_thread_top

thread_alloc_grow(u) ==
    /\ m_thread_freelist = {}
    /\ m_thread_top < MaxThreads
    /\ u = m_thread_top
    /\ m_thread_top' = m_thread_top + 1
    /\ thread_switch_status(u, "IDLE", "DEAD")
    /\ m_thread_freelist_lock' = NULL
    /\ UNCHANGED m_thread_freelist

thread_alloc_exhausted ==
    /\ m_thread_freelist = {}
    /\ m_thread_top >= MaxThreads

(***************************************************************************)
(* thread_free: the block is zeroed before the lock is taken; the critical *)
(* section itself is one list_add.                                         *)
(***************************************************************************)
thread_free_clear(t) ==
    /\ status' = [status EXCEPT ![t] = "IDLE"]
    /\ UNCHANGED poolVars

thread_free_link(t) ==
    /\ m_thread_freelist_lock = NULL
    /\ m_thread_freelist' = m_thread_freelist \cup {t}
    /\ UNCHANGED <<status, m_thread_top, m_thread_freelist_lock>>
=============================================================================
