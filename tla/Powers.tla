------------------------------- MODULE Powers -------------------------------
(***************************************************************************)
(* The powers of two the allocators shift 1 into.  A recursive function,   *)
(* and not the operator ^, whose laws the provers do not know.             *)
(***************************************************************************)
EXTENDS Integers

Pow2[n \in Nat] == IF n = 0 THEN 1 ELSE 2 * Pow2[n - 1]
=============================================================================
