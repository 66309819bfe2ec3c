--------------------------- MODULE MCPipelineRun ---------------------------
(***************************************************************************)
(* Every route of three steps over an alphabet of steps: errors given,     *)
(* renamed and routed, branches that fail again, nested control flow, and  *)
(* pages.  A pipeline's name is the list of its steps' names.              *)
(***************************************************************************)
EXTENDS PipelineRun

Fine(b) == [shape |-> "object", err |-> "none", flag |-> b]
Error(t) == [shape |-> "object", err |-> t, flag |-> FALSE]
Text == [shape |-> "text", err |-> "none", flag |-> FALSE]
No == [shape |-> "false", err |-> "none", flag |-> FALSE]

Mw(tag, behavior, gives, rename) ==
  [op |-> "mw", tag |-> tag, behavior |-> behavior, gives |-> gives, rename |-> rename,
   fails |-> FALSE, aborts |-> FALSE, stored |-> {}]
Failing(s) == [s EXCEPT !.fails = TRUE]
Calling(tag, p, rename) == [op |-> "call", tag |-> tag, pipe |-> p, rename |-> rename]
Routing(branches) == [op |-> "result", branches |-> branches]
To(for, status, p) == [for |-> for, status |-> status, pipe |-> p]

MCTypes == {"a", "b", "mwError", "callError"}
MCStatuses == {"200", "404", "500"}

Alphabet ==
  [fetch |-> Failing([Mw("always", "merge", {Fine(TRUE), Error("a")}, "none")
                        EXCEPT !.aborts = TRUE]),
   query |-> Mw("always", "wrap", {Fine(FALSE), Error("b"), Error("untyped")}, "a"),
   shape |-> Mw("guard", "transform", {Fine(TRUE), Fine(FALSE), Error("untyped")}, "none"),
   page |-> Mw("unguard", "render", {Text}, "b"),
   log |-> Failing(Mw("always", "merge", {}, "none")),
   cache |-> [Mw("always", "merge", {}, "none") EXCEPT !.stored = {Text}],
   retry |-> Mw("always", "transform", {Error("a"), Error("b")}, "none"),
   test |-> Failing(Mw("always", "transform", {No, Fine(TRUE)}, "none")),
   call |-> Calling("always", <<"log", "route">>, "none"),
   loop |-> Calling("guard", <<"each", "retry">>, "a"),
   if |-> [op |-> "if", cond |-> <<"test">>, then |-> <<"shape">>, else |-> <<<<"call">>>>],
   when |-> [op |-> "if", cond |-> <<"test">>, then |-> <<"route">>, else |-> <<>>],
   case |-> [op |-> "dispatch", cases |-> <<[tag |-> "guard", pipe |-> <<"page">>]>>,
             default |-> <<>>],
   each |-> [op |-> "foreach", body |-> <<"shape">>, items |-> {Fine(TRUE), Error("b")},
             fails |-> TRUE],
   route |-> Routing(<<To("ok", "200", <<"shape">>), To("a", "404", <<"retry", "page">>),
                       To("default", "500", <<"if", "log">>)>>),
   reroute |-> Routing(<<To("a", "500", <<"call">>), To("mwError", "500", <<>>)>>)]

\* Steps a route may hold; the others stand in the pipelines they call.
Held == DOMAIN Alphabet \ {"test", "retry"}
Ends == {"route", "reroute", "log", "shape"}

MCMains == {<<x, y, z>> : x \in Held, y \in Held, z \in Ends}
Called == {<<"log", "route">>, <<"each", "retry">>, <<"test">>, <<"shape">>, <<"call">>,
           <<"route">>, <<"page">>, <<"retry", "page">>, <<"if", "log">>, <<>>}

MCPipelines == [p \in MCMains \cup Called |-> [i \in DOMAIN p |-> Alphabet[p[i]]]]
===========================================================================
