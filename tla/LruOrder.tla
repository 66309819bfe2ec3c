----------------------------- MODULE LruOrder -----------------------------
(***************************************************************************)
(* The recency order of an `lru::LruCache', the map under the response     *)
(* cache and under the rate limiter.  An order is a function from the keys *)
(* held to their places, 1 being the most recently used.                   *)
(***************************************************************************)
EXTENDS Integers, FiniteSets

EmptyOrder == [k \in {} |-> 0]

IsOrder(order) ==
  /\ IsFiniteSet(DOMAIN order)
  /\ \A k \in DOMAIN order : order[k] \in 1..Cardinality(DOMAIN order)
  /\ \A j, k \in DOMAIN order : order[j] = order[k] => j = k

\* get_mut, put or push of k: k comes first, what was before k moves back.
Promoted(order, k) ==
  [j \in DOMAIN order \cup {k} |->
     IF j = k THEN 1
     ELSE IF k \in DOMAIN order /\ order[j] > order[k] THEN order[j]
     ELSE order[j] + 1]

\* pop of k: what was behind k moves up.
Removed(order, k) ==
  [j \in DOMAIN order \ {k} |->
     IF order[j] > order[k] THEN order[j] - 1 ELSE order[j]]

\* The n most recently used keys, and the order they keep (pop_lru of others).
Newest(order, n) == {k \in DOMAIN order : order[k] <= n}
Truncated(order, n) == [k \in Newest(order, n) |-> order[k]]
===========================================================================
