------------------------------ MODULE Linking ------------------------------
(***************************************************************************)
(* What the names of a program stand for once its modules are loaded       *)
(* (src/src/server.rs, src/src/executor/{modules,resolver,step}.rs and     *)
(* load_imports_for_tests of src/src/test_runner.rs): the tables of named  *)
(* pipelines and variables, the lookup of a reference, the routes, and     *)
(* what the search for feature flags looks at.                             *)
(*                                                                         *)
(* A program p has the fields                                              *)
(*   modules  by module id, that is in the order of the files' paths, each *)
(*            with imports (alias to id), pipelines, variables and queries *)
(*            (by name) and routes (a sequence)                            *)
(*   root     the id of the main file                                      *)
(*   flags    its featureFlags pipeline, or NoValue                         *)
(*   files    the GET paths of the files in public/                        *)
(* A pipeline is a sequence of steps, records with the field op:           *)
(*   "work"   a middleware that touches nothing modelled here              *)
(*   "lua"    setFlag(flag, on)                                            *)
(*   "user"   an authentication, which leaves .user in the state           *)
(*   "defer"  a step that registers a deferred action                      *)
(*   "stop"   a step whose error ends the run                              *)
(*   "call"   a reference to a pipeline, perhaps @async                    *)
(*   "query"  a graphql step, which runs the pipeline of a query           *)
(*   "block"  if, dispatch, foreach or result: what runs first (`lead'),   *)
(*            and branches of which at most one runs                       *)
(* and a tag.                                                              *)
(***************************************************************************)
EXTENDS Naturals, Sequences, FiniteSetsExt

CONSTANT NoValue

NoModule == 0
NoAlias == ""
Absent == [module |-> NoModule, steps |-> <<>>, found |-> FALSE]

\* A pipeline whose steps know their module (set_pipeline_module_info).
Located(m, steps) == [module |-> m, steps |-> steps, found |-> TRUE]

Named(p, kind) == UNION {DOMAIN p.modules[m][kind] : m \in DOMAIN p.modules}

Definers(p, kind, n) == {m \in DOMAIN p.modules : n \in DOMAIN p.modules[m][kind]}

\* The one of that name in the module with the highest id.
LastNamed(p, kind, n) ==
  LET m == Max(Definers(p, kind, n)) IN Located(m, p.modules[m][kind][n])

ByModule(p, kind) ==
  {k \in (DOMAIN p.modules) \X Named(p, kind) : k[2] \in DOMAIN p.modules[k[1]][kind]}

\* build_runtime: every name without a module, and, if the modules could be
\* loaded again, every name with its own.
ServerTable(p, kind, loaded) ==
  [k \in ({NoModule} \X Named(p, kind)) \cup (IF loaded THEN ByModule(p, kind) ELSE {}) |->
     IF k[1] = NoModule THEN LastNamed(p, kind, k[2])
     ELSE Located(k[1], p.modules[k[1]][kind][k[2]])]

\* load_imports_for_tests: names with their module, or else the main file's
\* without one.
TestTable(p, kind, loaded) ==
  IF loaded
    THEN [k \in ByModule(p, kind) |-> Located(k[1], p.modules[k[1]][kind][k[2]])]
    ELSE [k \in {NoModule} \X (DOMAIN p.modules[p.root][kind]) |->
            Located(NoModule, p.modules[p.root][kind][k[2]])]

\* What a test executes by a name, whichever file the test is in: a pipeline is
\* the first of that name in the merged program, a variable is the main file's,
\* run in a step that belongs to no module.
TestPipeline(p, n) ==
  LET m == Min(Definers(p, "pipelines", n)) IN Located(m, p.modules[m].pipelines[n])

TestVariable(p, n) ==
  LET own == p.modules[p.root].variables
  IN  IF n \in DOMAIN own THEN Located(NoModule, own[n]) ELSE Absent

\* What a program is at run time.
Linked(p, loaded, Table(_, _, _)) ==
  [pipelines |-> Table(p, "pipelines", loaded),
   variables |-> Table(p, "variables", loaded),
   imports |-> IF loaded THEN [m \in DOMAIN p.modules |-> p.modules[m].imports] ELSE <<>>]

\* ModuleRegistry: the module an alias stands for in module m.
Target(env, m, alias) ==
  IF m \in DOMAIN env.imports /\ alias \in DOMAIN env.imports[m]
    THEN env.imports[m][alias] ELSE NoModule

Find(table, m, name) ==
  IF <<m, name>> \in DOMAIN table THEN table[<<m, name>>] ELSE Absent

\* A name without an alias: in the module, then among those without one.
FindPlain(table, m, name) ==
  IF Find(table, m, name).found THEN Find(table, m, name) ELSE Find(table, NoModule, name)

\* Mutant: the names without a module come first.
ResolveGlobally(env, m, ref) ==
  IF ref.alias = NoAlias /\ Find(env.pipelines, NoModule, ref.name).found
    THEN Find(env.pipelines, NoModule, ref.name)
    ELSE Find(env.pipelines, IF ref.alias = NoAlias THEN m ELSE Target(env, m, ref.alias), ref.name)

\* resolve_named_pipeline.  An alias the module does not import is looked up
\* as if it had not been written, among the names without a module.
ResolvePipeline(env, m, ref) ==
  IF ref.alias = NoAlias THEN FindPlain(env.pipelines, m, ref.name)
  ELSE Find(env.pipelines, Target(env, m, ref.alias), ref.name)

\* resolve_config_and_autoname: a text that names no variable is the
\* configuration itself (Absent).
ResolveVariable(env, m, ref) ==
  IF ref.alias = NoAlias THEN FindPlain(env.variables, m, ref.name)
  ELSE IF Target(env, m, ref.alias) = NoModule THEN Absent
  ELSE Find(env.variables, Target(env, m, ref.alias), ref.name)

---------------------------------------------------------------------------
(***************************************************************************)
(* What pipeline_needs_flags looks at (FlagSearch has the search).         *)
(***************************************************************************)
\* tag_expr_has_flag; tag_expr_has_needs_flags.
HasFlag(tag) == tag.kind = "flag"
NeedsTag(tag) == tag.kind = "needs"

\* A step tagged with a flag, or with a branch that is.
AsksForFlag(s) ==
  \/ HasFlag(s.tag)
  \/ s.op = "block" /\ \E i \in DOMAIN s.branches : HasFlag(s.branches[i].tag)

\* The pipelines the search goes on into from a step.  A name with an alias
\* is looked up whole, and no pipeline is called that.
Parts(env, m, s) ==
  IF s.op = "call" /\ s.ref.alias = NoAlias
    THEN {p \in {ResolvePipeline(env, m, s.ref)} : p.found}
  ELSE IF s.op = "block"
    THEN {Located(m, s.lead)} \cup {Located(m, s.branches[i].steps) : i \in DOMAIN s.branches}
  ELSE {}

---------------------------------------------------------------------------
(***************************************************************************)
(* Routes.  A path is a sequence of segments; the segment Param stands for *)
(* any one segment.                                                        *)
(***************************************************************************)
Param == ":"
Methods == {"GET", "POST", "PUT", "DELETE"}

\* A route is named by its module and its place there.
RouteIds(p) == UNION {{m} \X DOMAIN p.modules[m].routes : m \in DOMAIN p.modules}
Precedes(a, b) == a[1] < b[1] \/ (a[1] = b[1] /\ a[2] < b[2])

\* merge_from_module_tree_for_tests: the routes of all modules, by id.
Merged(p) ==
  [id \in RouteIds(p) |->
     LET r == p.modules[id[1]].routes[id[2]]
     IN  [method |-> r.method, path |-> r.path, pipeline |-> Located(id[1], r.steps)]]

\* Two routes the same requests match; the router takes only the first.
SameShape(r, s) == r.method = s.method /\ r.path = s.path

\* Mutant: the last insertion wins.
InsertedLast(p) ==
  LET all == Merged(p)
  IN  {all[i] : i \in {j \in DOMAIN all :
         all[j].method \in Methods
         /\ \A k \in DOMAIN all : Precedes(j, k) => ~SameShape(all[j], all[k])}}

\* router(): the routes that were inserted.
Inserted(p) ==
  LET all == Merged(p)
  IN  {all[i] : i \in {j \in DOMAIN all :
         all[j].method \in Methods
         /\ \A k \in DOMAIN all : Precedes(k, j) => ~SameShape(all[j], all[k])}}

Matches(r, method, path) ==
  /\ r.method = method /\ Len(r.path) = Len(path)
  /\ \A i \in DOMAIN path : r.path[i] \in {path[i], Param}

\* Of two patterns the one with a literal where they first differ.
Prefers(r, s) ==
  \E i \in DOMAIN r.path :
    /\ r.path[i] # Param /\ s.path[i] = Param
    /\ \A j \in 1..(i - 1) : r.path[j] = s.path[j]

\* The route of a request, a set of at most one.
RouteFor(routes, method, path) ==
  LET found == {r \in routes : Matches(r, method, path)}
  IN  {r \in found : \A s \in found \ {r} : Prefers(r, s)}

\* What axum routes to the handler of the program: /health is its own, and
\* `/*path' does not match the path "/".
Health == <<"health">>
Handled(method, path) ==
  /\ path # Health
  /\ method = "GET" \/ path # <<>>
============================================================================
