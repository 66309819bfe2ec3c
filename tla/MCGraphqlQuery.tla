-------------------------- MODULE MCGraphqlQuery --------------------------
(* A field with a resolver and one without in the query's root; in the      *)
(* first, loader fields for two pipelines, one of a module of its own, with *)
(* keys that are one string, and steps around the loader step.              *)
EXTENDS GraphqlQuery, TLC

CONSTANTS root, none, shop

Field(parent, steps, nonNull) ==
  [parent |-> parent, steps |-> steps, nonNull |-> nonNull, before |-> FALSE,
   after |-> FALSE, name |-> "-", module |-> none, key |-> "-", args |-> "-"]

Loads(parent, nonNull, name, module, key, args) ==
  [Field(parent, "loader", nonNull) EXCEPT
     !.name = name, !.module = module, !.key = key, !.args = args]

\* team { lead(a) } and a sibling; lead has steps around its loader.
Around(nonNull) ==
  "team" :> Field(root, "pipeline", nonNull) @@ "now" :> Field(root, "pipeline", FALSE) @@
  "lead" :> [Loads("team", nonNull, "byId", none, "n1", "a") EXCEPT !.before = TRUE, !.after = TRUE]

\* Two names for one field, with different arguments, one pipeline of a module.
Aliased(nonNull) ==
  "team" :> Field(root, "pipeline", FALSE) @@
  "one" :> Loads("team", nonNull, "byId", none, "n1", "a") @@
  "two" :> Loads("team", FALSE, "byId", shop, "s1", "b") @@
  "log" :> Loads("team", FALSE, "logs", shop, "n1", "b")

\* A query with one field, one with a pipeline nobody defines, one misplaced.
Small ==
  { "now" :> Field(root, "none", FALSE),
    "team" :> Field(root, "pipeline", FALSE) @@ "one" :> Loads("team", TRUE, "gone", shop, "n1", "a")
      @@ "two" :> Loads("team", FALSE, "byId", none, "n1", "a"),
    "now" :> Loads(root, FALSE, "byId", none, "n1", "a") @@ "team" :> Field(root, "none", TRUE) }

MCQueries == {Around(n) : n \in BOOLEAN} \cup {Aliased(n) : n \in BOOLEAN} \cup Small
MCPipelines == {<<none, "byId">>, <<shop, "logs">>}
MCNesting == {"now", "logs"}
MCKeyString == "n1" :> "1" @@ "s1" :> "1"
==========================================================================
