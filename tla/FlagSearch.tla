----------------------------- MODULE FlagSearch -----------------------------
(***************************************************************************)
(* pipeline_needs_flags (src/src/server.rs): the search a route is put     *)
(* through when the server is built.  It is recursive, over the steps, the *)
(* branches of a step and the pipelines a step calls by name.              *)
(***************************************************************************)
EXTENDS Linking

RECURSIVE Search(_, _, _, _), SearchEach(_, _, _, _)
\* Of the steps of a pipeline in module m; `calls' are the pipelines the
\* search is inside of.  "endless" is a search that does not return.
Search(env, m, steps, calls) ==
  IF steps = <<>> THEN "no"
  ELSE
    LET s == Head(steps)
        found ==
          IF HasFlag(s.tag) \/ NeedsTag(s.tag) THEN "yes"
          ELSE IF s.op = "call" /\ Parts(env, m, s) # {}
            THEN LET called == ResolvePipeline(env, m, s.ref)
                 IN  IF called \in calls THEN "endless"
                     ELSE Search(env, called.module, called.steps, calls \cup {called})
          ELSE IF s.op = "block"
            THEN SearchEach(env, m, <<[tag |-> [kind |-> "none"], steps |-> s.lead]>> \o s.branches, calls)
          ELSE "no"
    IN  IF found # "no" THEN found ELSE Search(env, m, Tail(steps), calls)

\* Branch by branch.
SearchEach(env, m, branches, calls) ==
  IF branches = <<>> THEN "no"
  ELSE IF HasFlag(Head(branches).tag) THEN "yes"
  ELSE LET found == Search(env, m, Head(branches).steps, calls)
       IN  IF found # "no" THEN found ELSE SearchEach(env, m, Tail(branches), calls)

PipelineNeedsFlags(env, pipeline) == Search(env, pipeline.module, pipeline.steps, {pipeline})

RECURSIVE Visited(_, _)
\* The pipelines, and what is left of them after each step, that a search
\* looks at which finds nothing and returns.
Visited(env, pipeline) ==
  {pipeline} \cup
  IF pipeline.steps = <<>> THEN {}
  ELSE UNION {Visited(env, p) :
                p \in {Located(pipeline.module, Tail(pipeline.steps))}
                      \cup Parts(env, pipeline.module, Head(pipeline.steps))}
=============================================================================
