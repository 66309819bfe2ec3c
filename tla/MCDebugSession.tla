-------------------------- MODULE MCDebugSession --------------------------
(***************************************************************************)
(* Small instances of DebugSession: threads are interchangeable.           *)
(***************************************************************************)
EXTENDS DebugSession, TLC

ThreadSymmetry == Permutations(Threads)
===========================================================================
