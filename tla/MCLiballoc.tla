---------------------------- MODULE MCLiballoc ----------------------------
(* Liballoc on small heaps. *)
EXTENDS Liballoc, TLC

ThreadSymmetry == Permutations(Threads)
=============================================================================
