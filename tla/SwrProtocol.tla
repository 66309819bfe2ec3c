--------------------------- MODULE SwrProtocol ----------------------------
(***************************************************************************)
(* What the cache promises its callers under stale-while-revalidate, with  *)
(* no clock, no sizes and no LRU order.  A cached item only ever ages      *)
(* (fresh, stale, gone); it becomes fresh again by a write and in no other *)
(* way; a stale item is refreshed by at most one elected caller, and every *)
(* generation of an item starts with its refresh slot free.                *)
(***************************************************************************)
CONSTANTS Keys, Bodies, None

VARIABLE item    \* [Keys -> Item]

Absent == [phase |-> "absent", body |-> None]

Item == {Absent} \cup [phase: {"fresh", "stale", "refreshing"}, body: Bodies]

Init == item = [k \in Keys |-> Absent]

\* Items may leave at any moment: evicted for room, or out of their window.
Gone(S) == [k \in Keys |-> IF k \in S THEN Absent ELSE item[k]]

Vanish == \E S \in SUBSET Keys : item' = Gone(S)

Write(k, b) ==
  \E S \in SUBSET Keys :
    item' = [Gone(S) EXCEPT ![k] = [phase |-> "fresh", body |-> b]]

InPhase(i, phase) == [phase |-> phase, body |-> i.body]

Elect(k) ==
  /\ item[k].phase = "stale"
  /\ item' = [item EXCEPT ![k] = InPhase(@, "refreshing")]

Release(k) ==
  /\ item[k].phase = "refreshing"
  /\ item' = [item EXCEPT ![k] = InPhase(@, "stale")]

\* As time passes fresh items go stale, and any item may end.
Older(i) == {i, Absent} \cup
            (IF i.phase = "fresh" THEN {InPhase(i, "stale")} ELSE {})

Age ==
  /\ \A k \in Keys : item'[k] \in Older(item[k])
  /\ item' = [k \in Keys |-> item'[k]]

Next ==
  \/ Vanish
  \/ Age
  \/ \E k \in Keys : Elect(k) \/ Release(k) \/ \E b \in Bodies : Write(k, b)

Spec == Init /\ [][Next]_item
===========================================================================
