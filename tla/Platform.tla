-------------------------- MODULE Platform --------------------------
(***************************************************************************)
(* The machine the kernel runs on: its cores and the static array of       *)
(* thread control blocks (THREADS, indexed by thread id).  Everything else *)
(* in the kernel model is built on these sets.                             *)
(***************************************************************************)
EXTENDS Integers

CONSTANTS
    Cores,       \* the processors started by smp_entry, the boot core included
    BSP,         \* the boot core, which creates and queues the init thread
    MaxThreads,  \* the size of the THREADS array (UINT16_MAX in the code)
    NULL         \* no thread, no core, no timer

Threads == 0 .. MaxThreads - 1

ASSUME PlatformAssumption ==
    /\ BSP \in Cores
    /\ MaxThreads \in Nat \ {0}
    /\ NULL \notin Cores
    /\ NULL \notin Int
    /\ Cores \cap Int = {}
=============================================================================
