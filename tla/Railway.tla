------------------------------ MODULE Railway ------------------------------
(***************************************************************************)
(* What one pipeline with a `result' promises the client, whatever its     *)
(* steps do and however they are nested: the run stays on the main track   *)
(* until a step gives a typed error, the first error is never replaced,    *)
(* renamed or lost before it is routed, and the answer carries the status  *)
(* of the branch written for it.                                           *)
(***************************************************************************)
CONSTANTS
  Types,        \* error types
  Statuses,
  Clear,        \* no typed error
  Any           \* no branch decides the status

VARIABLES
  table,  \* the status of the branch for each track, or Any
  run

Tracks == Types \cup {Clear}

On(track) == [phase |-> "on", value |-> track]
Routed(s) == [phase |-> "routed", value |-> s]
Answered(s) == [phase |-> "answered", value |-> s]
Replaying == [phase |-> "replaying", value |-> Any]
Failed == [phase |-> "failed", value |-> Any]

Init ==
  /\ table \in [Tracks -> Statuses \cup {Any}]
  /\ run = On(Clear)

\* A step gives a typed error.
Err(t) == run = On(Clear) /\ run' = On(t)

Route(track) ==
  /\ run = On(track) /\ table[track] # Any
  /\ run' = Routed(table[track])

\* A cache hit ends the run, and only one no step has failed in.
Hit == run = On(Clear) /\ run' = Replaying

Answer(s) ==
  /\ \/ run = Routed(s)
     \/ run = Replaying
     \/ \E track \in Tracks : run = On(track) /\ table[track] = Any
  /\ run' = Answered(s)

\* A hard error ends the run at any moment before the answer.
Fail == run.phase \in {"on", "routed"} /\ run' = Failed

Next ==
  \/ \E t \in Types : Err(t)
  \/ \E track \in Tracks : Route(track)
  \/ Hit
  \/ \E s \in Statuses : Answer(s)
  \/ Fail

Spec == Init /\ [][Next /\ UNCHANGED table]_<<table, run>>
===========================================================================
