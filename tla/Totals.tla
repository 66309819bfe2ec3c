------------------------------- MODULE Totals ------------------------------
(***************************************************************************)
(* Sums over finite sets.  A member of S for which f says n has n units;   *)
(* the units of all members, counted, are the sum of f over S.  Counting   *)
(* needs no recursion, so what a sum does can be proved.                   *)
(***************************************************************************)
EXTENDS Integers, FiniteSets

Units(f, S) == UNION {{x} \X (1..f[x]) : x \in S}

Total(f, S) == Cardinality(Units(f, S))
===========================================================================
