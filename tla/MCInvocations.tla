--------------------------- MODULE MCInvocations ---------------------------
(***************************************************************************)
(* Small programs for RequestEntry: a library and a main file that imports *)
(* it, with flags in branches, behind an alias, in a task and in a query;  *)
(* a flags pipeline that succeeds and spawns a task, one that fails and    *)
(* none; a name that both files have; recursion by name, past a flag,      *)
(* through an alias and in the flags pipeline.                             *)
(***************************************************************************)
EXTENDS RequestEntry, FlagSearch

Plain0 == [kind |-> "none"]
Beta(neg) == [kind |-> "flag", name |-> "beta", negated |-> neg]
Needs == [kind |-> "needs"]

Work(tag) == [op |-> "work", tag |-> tag]
Do(op) == [op |-> op, tag |-> Plain0]
SetFlag(f, on) == [op |-> "lua", tag |-> Plain0, flag |-> f, on |-> on]
CallTo(a, n, async) ==
  [op |-> "call", tag |-> Plain0, ref |-> [alias |-> a, name |-> n], async |-> async]
Ask(q) == [op |-> "query", tag |-> Plain0, name |-> q]
Branches(lead, bs) == [op |-> "block", tag |-> Plain0, lead |-> lead, branches |-> bs]
Branch(tag, steps) == [tag |-> tag, steps |-> steps]
RouteTo(method, path, steps) == [method |-> method, path |-> path, steps |-> steps]

Nothing == [n \in {} |-> <<>>]

Lib ==
  [imports |-> Nothing,
   pipelines |-> [n \in {"check", "main", "gate", "shared"} |->
     CASE n = "check" -> <<Branches(<<Do("work")>>,
                            <<Branch(Beta(FALSE), <<Do("defer")>>), Branch(Plain0, <<>>)>>)>>
       [] n = "gate" -> <<Work(Beta(TRUE)), CallTo(NoAlias, "check", FALSE)>>
       [] n = "shared" -> <<Do("work")>>
       [] n = "main" -> <<Do("stop")>>],
   variables |-> [n \in {"sql"} |-> <<"lib">>],
   queries |-> [n \in {"users"} |-> <<Work(Beta(FALSE))>>],
   routes |-> <<RouteTo("GET", <<"users">>, <<CallTo(NoAlias, "shared", FALSE)>>)>>]

MainFile ==
  [imports |-> [a \in {"lib"} |-> 1],
   pipelines |-> [n \in {"main", "page", "shared"} |->
     CASE n = "main" -> <<SetFlag("alpha", TRUE), SetFlag("alpha", FALSE), Do("defer")>>
       [] n = "shared" -> <<Work(Beta(FALSE))>>
       [] n = "page" -> <<CallTo(NoAlias, "check", FALSE), Do("defer")>>],
   variables |-> [n \in {"sql", "page"} |-> <<"main">>],
   queries |-> Nothing,
   routes |->
     <<RouteTo("GET", <<"users">>, <<Do("stop")>>),
       RouteTo("GET", <<"users", Param>>, <<CallTo(NoAlias, "page", FALSE), Work(Plain0)>>),
       RouteTo("GET", <<"users", "me">>, <<CallTo("lib", "gate", FALSE)>>),
       RouteTo("GET", Health, <<Do("work")>>),
       RouteTo("POST", <<>>, <<Do("work")>>),
       RouteTo("PATCH", <<"users">>, <<Do("work")>>),
       RouteTo("POST", <<"users">>, <<CallTo("typo", "gate", TRUE), Ask("users")>>),
       RouteTo("PUT", <<"users">>, <<CallTo("lib", "nothing", FALSE), Do("work")>>),
       RouteTo("DELETE", <<"users">>,
               <<Branches(<<>>, <<Branch(Plain0, <<CallTo(NoAlias, "gate", TRUE)>>)>>),
                 SetFlag("beta", TRUE), Work(Needs), Work(Beta(FALSE)), Do("stop")>>)>>]

Program(lib, main, flags) ==
  [modules |-> <<lib, main>>, root |-> 2, flags |-> flags, files |-> {<<"logo">>, <<"users", "me">>}]

Giving == <<SetFlag("beta", TRUE), CallTo(NoAlias, "main", TRUE), Do("user"), Do("defer")>>
Failing == <<SetFlag("beta", TRUE), Do("stop")>>

\* A pipeline "page" that calls itself, directly or not.
Looping(steps) ==
  [MainFile EXCEPT !.pipelines = [n \in {"page"} |-> steps],
                   !.routes = <<RouteTo("GET", <<"users", Param>>, <<CallTo(NoAlias, "page", FALSE)>>)>>]
Back == [Lib EXCEPT !.pipelines = [n \in {"check"} |-> <<CallTo(NoAlias, "page", FALSE)>>]]

MCPrograms ==
  {Program(Lib, MainFile, f) : f \in {NoValue, Giving, Failing}}
  \cup {Program(Lib, Looping(<<Do("work"), CallTo(NoAlias, "page", FALSE)>>), NoValue),
        Program(Lib, Looping(<<Work(Beta(FALSE)), CallTo(NoAlias, "page", FALSE)>>), Giving),
        Program(Back, Looping(<<CallTo("lib", "check", FALSE)>>), NoValue),
        Program(Lib, Looping(<<Work(Beta(FALSE))>>),
                <<Branches(<<>>, <<Branch(Plain0, <<CallTo(NoAlias, "deep", FALSE)>>)>>)>>),
        Program([Lib EXCEPT !.pipelines =
                   [n \in {"deep"} |-> <<CallTo(NoAlias, "deep", FALSE)>>]],
                Looping(<<Work(Beta(FALSE))>>), <<CallTo(NoAlias, "deep", FALSE)>>)}

MCCommands == SUBSET {"test", "inspect", "serve", "port", "run"}

Sent(m, path, f, r, b, t) ==
  [method |-> m, path |-> path, forwarded |-> f, real |-> r, peer |-> "peer", body |-> b, type |-> t]

MCRequests ==
  {Sent(m, path, NoValue, NoValue, "empty", "json") :
     m \in Methods \cup {"PATCH", "HEAD"},
     path \in {<<>>, Health, <<"users">>, <<"users", "me">>, <<"users", "other">>, <<"logo">>}}
  \cup {Sent("POST", <<"users">>, f, r, b, t) :
          f \in {NoValue, "first"}, r \in {NoValue, "real"}, b \in {"json", "broken"},
          t \in {"json", "form", "other"}}
============================================================================
