---------------------------- MODULE MCCacheWorker ----------------------------
(* Instances of CacheWorker for TLC. *)
EXTENDS CacheWorker, TLC

CONSTANTS r1, r2

Symmetry == Permutations(Roots)
=============================================================================
