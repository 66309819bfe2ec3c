--------------------------- MODULE MCCachedRuns ---------------------------
(***************************************************************************)
(* Small instances of CachedRuns: runs are interchangeable.                *)
(***************************************************************************)
EXTENDS CachedRuns, TLC

Symmetry == Permutations(Runs)
===========================================================================
