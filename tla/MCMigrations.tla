--------------------------- MODULE MCMigrations ---------------------------
(***************************************************************************)
(* A small instance of Migrations: a strict and a tolerant file, and two   *)
(* that were created in the same second.                                   *)
(***************************************************************************)
EXTENDS Migrations, TLC

CONSTANTS f1, f2, f3, f4

MCVersionOf == f1 :> 1 @@ f2 :> 2 @@ f3 :> 3 @@ f4 :> 3

Symmetry == Permutations(Processes)
===========================================================================
