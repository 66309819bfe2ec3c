---------------------------- MODULE RequestEntry ----------------------------
(***************************************************************************)
(* How a run of a program begins and ends (src/src/cli.rs, main.rs and     *)
(* server.rs): the mode the command line asks for, the routes and the      *)
(* search for flags when the server is built, and for each request the     *)
(* static files, the route, the flags pipeline with its 50 ms, the run of  *)
(* the route and the answer; for a script, the same without a route.       *)
(*                                                                         *)
(* Actors: the run that is answered, an @async run it has spawned, and the *)
(* clock of the flags pipeline.  The steps of a run are the ones Linking   *)
(* names; what they make of the state is the matter of PipelineRun.        *)
(***************************************************************************)
EXTENDS Linking, SequencesExt

CONSTANTS
  Programs,   \* programs the server may be started on
  Commands,   \* command lines: records of the switches given
  Requests,   \* what clients send
  MaxDepth,   \* nested calls the stack has room for
  NeedsFlags(_, _),  \* pipeline_needs_flags of a pipeline, as FlagSearch has it
  Looked(_, _)       \* the pipelines a search that finds no flag has looked at

\* A sequence, of whatever it has.
IsListed(s) == s \in Seq(ToSet(s))

\* A segment that no program writes: what a client sends for a parameter.
OtherSegment == "other"

\* Modules are numbered from 1, their routes by their place in the file, and
\* the main file is one of them.
ASSUME EntryAssumption ==
  \A p \in Programs :
    /\ DOMAIN p.modules \subseteq Nat \ {NoModule}
    /\ p.root \in DOMAIN p.modules
    /\ \A m \in DOMAIN p.modules :
         /\ DOMAIN p.modules[m].routes \subseteq Nat
         /\ \A i \in DOMAIN p.modules[m].routes :
              LET path == p.modules[m].routes[i].path
              IN  IsListed(path) /\ \A j \in DOMAIN path : path[j] # OtherSegment

\* Nothing in these pipelines asks for a flag, nor in what follows their first
\* step or in what that step goes on into, which is among them.
FlagFree(env, pipelines) ==
  \A p \in pipelines :
    /\ p = Located(p.module, p.steps) /\ IsListed(p.steps)
    /\ p.steps # <<>> =>
         /\ ~AsksForFlag(Head(p.steps))
         /\ Located(p.module, Tail(p.steps)) \in pipelines
         /\ Parts(env, p.module, Head(p.steps)) \subseteq pipelines

\* The search looks everywhere before it answers "no".  Whether it does is a
\* question about each program, not about what the server does.
ASSUME SearchAssumption ==
  \A p \in Programs, l \in BOOLEAN :
    \A id \in RouteIds(p) :
      LET env == Linked(p, l, ServerTable)
          route == Merged(p)[id].pipeline
      IN  /\ NeedsFlags(env, route) \in {"yes", "no", "endless"}
          /\ NeedsFlags(env, route) = "no" =>
               route \in Looked(env, route) /\ FlagFree(env, Looked(env, route))

VARIABLES
  prog,       \* the merged program
  loaded,     \* build_runtime could load the modules
  phase,      \* where the process is
  incoming,   \* the request being served
  state,      \* its JSON, as assembled, and .user
  runs,       \* the run in front and the task it has spawned
  performed,  \* deferred actions carried out
  granted     \* history: flags the flags pipeline or setFlag has given

entryVars == <<prog, loaded, phase, incoming, state, runs, performed, granted>>

Env == Linked(prog, loaded, ServerTable)
RootId == IF loaded THEN prog.root ELSE NoModule

NoRun == [stack |-> <<>>, flags |-> {}, user |-> FALSE, deferred |-> 0]
Frame(pipeline, by) == [module |-> pipeline.module, steps |-> pipeline.steps, by |-> by]

\* create_request_context, or RequestContext::for_script.
NewRun(pipeline, flags) ==
  [NoRun EXCEPT !.stack = <<Frame(pipeline, "entry")>>, !.flags = flags]

---------------------------------------------------------------------------
(***************************************************************************)
(* The command line (cli.rs mode(), auto_mode, run_mode and                *)
(* inspect_runs_standalone_script).                                        *)
(***************************************************************************)
HasMain(p) == "main" \in DOMAIN p.modules[p.root].pipelines

Mode(given) ==
  CASE {"test", "inspect"} \subseteq given -> "test"
    [] "inspect" \in given /\ "test" \notin given -> "inspect"
    [] "test" \in given /\ "inspect" \notin given -> "test"
    [] given \cap {"test", "inspect"} = {} /\ given \cap {"serve", "port"} # {} -> "serve"
    [] given \cap {"test", "inspect", "serve", "port"} = {} /\ "run" \in given -> "run"
    [] OTHER -> "auto"

\* What the process becomes.
ProcessStart(given, p) ==
  CASE Mode(given) = "test" -> "tests"
    [] Mode(given) = "serve" -> "build"
    [] Mode(given) = "run" -> IF HasMain(p) THEN "script" ELSE "exit"
    [] Mode(given) = "auto" -> IF HasMain(p) THEN "script" ELSE "build"
    [] Mode(given) = "inspect" ->
         IF HasMain(p) /\ "serve" \notin given THEN "script" ELSE "build"

EntryInit ==
  /\ prog \in Programs
  /\ loaded \in BOOLEAN
  /\ \E given \in Commands : phase = ProcessStart(given, prog)
  /\ incoming = NoValue /\ state = NoValue
  /\ runs = [r \in {"front", "task"} |-> NoRun]
  /\ performed = 0 /\ granted = {}

---------------------------------------------------------------------------
(***************************************************************************)
(* Requests (http/request.rs).                                             *)
(***************************************************************************)
\* extract_client_ip, and the peer's address after it.
ClientIp(sent) ==
  IF sent.forwarded # NoValue THEN sent.forwarded
  ELSE IF sent.real # NoValue THEN sent.real ELSE sent.peer

\* parse_body_from_content_type
ParsedBody(sent) ==
  CASE sent.body = "empty" -> "{}"
    [] sent.body # "empty" /\ sent.type = "json" ->
         IF sent.body = "json" THEN "object" ELSE "null"
    [] sent.body # "empty" /\ sent.type = "form" -> "pairs"
    [] sent.body # "empty" /\ sent.type = "other" -> "text"

Assembled(sent) == [ip |-> ClientIp(sent), body |-> ParsedBody(sent), user |-> FALSE]

---------------------------------------------------------------------------
(***************************************************************************)
(* The steps of a run.                                                     *)
(***************************************************************************)
Top(r) == Last(runs[r].stack)
Begins(r) == runs[r].stack # <<>> /\ Top(r).steps # <<>>
Step(r) == Head(Top(r).steps)

\* check_flag_tag for one flag; other tags do not hold a step here.
TagOn(tag, flags) == tag.kind = "flag" => (tag.name \in flags) # tag.negated

Advanced(r) == [runs[r].stack EXCEPT ![Len(runs[r].stack)].steps = Tail(@)]
Enter(r, frames) == [runs EXCEPT ![r].stack = Advanced(r) \o frames]

\* A step that takes effect.
Executes(r) == Begins(r) /\ TagOn(Step(r).tag, runs[r].flags)

Skip(r) ==
  /\ Begins(r) /\ ~TagOn(Step(r).tag, runs[r].flags)
  /\ runs' = Enter(r, <<>>)
  /\ UNCHANGED <<prog, loaded, phase, incoming, state, performed, granted>>

\* setFlag writes the flags of its own run.
Lua(r) ==
  /\ Executes(r) /\ Step(r).op = "lua"
  /\ LET s == Step(r)
     IN  runs' = [Enter(r, <<>>) EXCEPT ![r].flags =
                    IF s.on THEN @ \cup {s.flag} ELSE @ \ {s.flag}]
  /\ granted' = IF phase = "preflight" /\ r = "front" THEN granted
                ELSE granted \cup (runs'[r].flags \ runs[r].flags)
  /\ UNCHANGED <<prog, loaded, phase, incoming, state, performed>>

Plain(r) ==
  /\ Executes(r) /\ Step(r).op \in {"work", "user", "defer"}
  /\ runs' = [Enter(r, <<>>) EXCEPT
                ![r].user = @ \/ Step(r).op = "user",
                ![r].deferred = IF Step(r).op = "defer" THEN @ + 1 ELSE @]
  /\ UNCHANGED <<prog, loaded, phase, incoming, state, performed, granted>>

\* Mutant: names are looked up in the main file.
CallFromMain(r) ==
  /\ Executes(r) /\ Step(r).op = "call" /\ ~Step(r).async
  /\ Len(runs[r].stack) < MaxDepth
  /\ LET p == ResolvePipeline(Env, RootId, Step(r).ref)
     IN  runs' = Enter(r, <<Frame(p, "name")>>)
  /\ UNCHANGED <<prog, loaded, phase, incoming, state, performed, granted>>

\* handle_recursive_pipeline.  A name that stands for nothing is an error in
\* the state, which holds the steps that are left.
Call(r) ==
  /\ Executes(r) /\ Step(r).op = "call" /\ ~Step(r).async
  /\ Len(runs[r].stack) < MaxDepth
  /\ LET p == ResolvePipeline(Env, Top(r).module, Step(r).ref)
         by == IF Step(r).ref.alias = NoAlias THEN "name" ELSE "alias"
     IN  runs' = IF p.found THEN Enter(r, <<Frame(p, by)>>)
                 ELSE [runs EXCEPT ![r].stack = <<Frame(Absent, "entry")>>]
  /\ UNCHANGED <<prog, loaded, phase, incoming, state, performed, granted>>

\* History: the run is in something the search for flags does not look into.
Hidden(r) == \E i \in DOMAIN runs[r].stack : runs[r].stack[i].by \in {"alias", "query"}

\* spawn_async_step: the task has a context of its own.  (At most one task.)
SpawnTask(r) ==
  /\ Executes(r) /\ Step(r).op = "call" /\ Step(r).async
  /\ r = "front" /\ runs["task"].stack = <<>>
  /\ LET p == ResolvePipeline(Env, Top(r).module, Step(r).ref)
         by == IF Hidden(r) \/ Step(r).ref.alias # NoAlias THEN "alias" ELSE "name"
     IN  runs' = [Enter(r, <<>>) EXCEPT
                    !["task"] = IF p.found THEN [NoRun EXCEPT !.stack = <<Frame(p, by)>>] ELSE NoRun]
  /\ UNCHANGED <<prog, loaded, phase, incoming, state, performed, granted>>

\* A graphql step: the pipeline of the query of that name in the last module.
Query(r) ==
  /\ Executes(r) /\ Step(r).op = "query"
  /\ Len(runs[r].stack) < MaxDepth
  /\ runs' = Enter(r, <<Frame(LastNamed(prog, "queries", Step(r).name), "query")>>)
  /\ UNCHANGED <<prog, loaded, phase, incoming, state, performed, granted>>

\* A branch runs if its tag is on and no tag before it is known to be on; or
\* none does.
Block(r) ==
  /\ Executes(r) /\ Step(r).op = "block"
  /\ Len(runs[r].stack) < MaxDepth
  /\ LET s == Step(r)
         On(i) == TagOn(s.branches[i].tag, runs[r].flags)
         Taken == {i \in DOMAIN s.branches :
                     On(i) /\ \A j \in 1..(i - 1) : HasFlag(s.branches[j].tag) => ~On(j)}
         Goes(steps) == runs' = Enter(r, <<Frame(Located(Top(r).module, steps), "block")>>)
     IN  \/ Goes(s.lead)
         \/ \E i \in Taken : Goes(s.lead \o s.branches[i].steps)
  /\ UNCHANGED <<prog, loaded, phase, incoming, state, performed, granted>>

ReturnFrom(r) ==
  /\ Len(runs[r].stack) > 1 /\ Top(r).steps = <<>>
  /\ runs' = [runs EXCEPT ![r].stack = Front(@)]
  /\ UNCHANGED <<prog, loaded, phase, incoming, state, performed, granted>>

\* A call deeper than the stack aborts the process.
Overflow(r) ==
  /\ Executes(r) /\ Len(runs[r].stack) = MaxDepth
  /\ Step(r).op \in {"query", "block"} \/ (Step(r).op = "call" /\ ~Step(r).async)
  /\ phase' = "crashed"
  /\ UNCHANGED <<prog, loaded, incoming, state, runs, performed, granted>>

Completed(r) == Len(runs[r].stack) = 1 /\ Top(r).steps = <<>>
Fails(r) == Executes(r) /\ Step(r).op = "stop"

\* The task's answer waits for a join or is dropped with its handle.
TaskOver ==
  /\ phase # "crashed"
  /\ Completed("task") \/ Fails("task")
  /\ runs' = [runs EXCEPT !["task"] = NoRun]
  /\ UNCHANGED <<prog, loaded, phase, incoming, state, performed, granted>>

Runs(r) ==
  /\ phase # "crashed"
  /\ \/ Skip(r) \/ Lua(r) \/ Plain(r) \/ Call(r) \/ SpawnTask(r) \/ Query(r)
     \/ Block(r) \/ ReturnFrom(r) \/ Overflow(r)

---------------------------------------------------------------------------
(***************************************************************************)
(* The server.                                                             *)
(***************************************************************************)
FlagsPipeline == Located(RootId, prog.flags)

\* Mutant: the search does not come back for a pipeline it is inside of.
BuildAnyway ==
  /\ phase = "build" /\ phase' = "idle"
  /\ UNCHANGED <<prog, loaded, incoming, state, runs, performed, granted>>

\* router(): every route is searched for flags, whether it is inserted or not.
Build ==
  /\ phase = "build"
  /\ phase' = IF \E id \in RouteIds(prog) : NeedsFlags(Env, Merged(prog)[id].pipeline) = "endless"
                THEN "crashed" ELSE "idle"
  /\ UNCHANGED <<prog, loaded, incoming, state, runs, performed, granted>>

Foreseen(route) == prog.flags # NoValue /\ NeedsFlags(Env, route.pipeline) = "yes"

\* unified_handler: who answers a request.  HEAD is routed as GET, and the
\* handler has no router for it.
Receiver(sent) ==
  CASE sent.method \notin Methods -> "405"
    [] sent.method \in Methods /\ ~Handled(sent.method, sent.path) ->
         IF sent.path = Health /\ sent.method = "GET" THEN "health" ELSE "405"
    [] sent.method = "GET" /\ Handled("GET", sent.path) /\ sent.path \in prog.files -> "file"
    [] OTHER -> IF RouteFor(Inserted(prog), sent.method, sent.path) = {} THEN "404" ELSE "route"

Route(sent) == CHOOSE r \in RouteFor(Inserted(prog), sent.method, sent.path) : TRUE

\* The flags pipeline first, if the route was found to need it.
Arrive ==
  /\ phase = "idle"
  /\ \E sent \in Requests :
       /\ incoming' = sent
       /\ IF Receiver(sent) = "route"
            THEN /\ state' = Assembled(sent)
                 /\ IF Foreseen(Route(sent))
                      THEN /\ phase' = "preflight"
                           /\ runs' = [runs EXCEPT !["front"] = NewRun(FlagsPipeline, {})]
                      ELSE /\ phase' = "main"
                           /\ runs' = [runs EXCEPT !["front"] = NewRun(Route(sent).pipeline, {})]
            ELSE phase' = "answered" /\ UNCHANGED <<state, runs>>
  /\ UNCHANGED <<prog, loaded, performed, granted>>

\* execute_main_pipeline: main of the main file, else of any.
MainPipeline == FindPlain(Env.pipelines, RootId, "main")

RunScript ==
  /\ phase = "script"
  /\ incoming' = [method |-> "script"] /\ state' = [ip |-> NoValue, body |-> "{}", user |-> FALSE]
  /\ IF prog.flags # NoValue
       THEN /\ phase' = "preflight"
            /\ runs' = [runs EXCEPT !["front"] = NewRun(FlagsPipeline, {})]
       ELSE /\ phase' = "main"
            /\ runs' = [runs EXCEPT !["front"] = NewRun(MainPipeline, {})]
  /\ UNCHANGED <<prog, loaded, performed, granted>>

\* The run proper: its flags are those of the flags pipeline's context.
Proceed(flags, user) ==
  /\ phase' = "main" /\ granted' = granted \cup flags
  /\ state' = [state EXCEPT !.user = user /\ incoming.method # "script"]
  /\ runs' = [runs EXCEPT !["front"] =
                NewRun(IF incoming.method = "script" THEN MainPipeline ELSE Route(incoming).pipeline,
                       flags)]
  /\ UNCHANGED <<prog, loaded, incoming, performed>>

FlagsResolved ==
  /\ phase = "preflight" /\ Completed("front")
  /\ Proceed(runs["front"].flags, runs["front"].user)

\* Mutant: what the flags pipeline had set so far is used.
FlagsTimeOutKeeping ==
  /\ phase = "preflight" /\ incoming.method # "script"
  /\ runs' = [runs EXCEPT !["front"] = NewRun(Route(incoming).pipeline, runs["front"].flags)]
  /\ phase' = "main"
  /\ UNCHANGED <<prog, loaded, incoming, state, performed, granted>>

\* Its 50 ms are over: it is dropped with its context.
FlagsTimeOut ==
  /\ phase = "preflight" /\ incoming.method # "script"
  /\ Proceed({}, FALSE)

\* A request goes on without flags; a script ends.
FlagsFail ==
  /\ phase = "preflight" /\ Fails("front")
  /\ IF incoming.method = "script"
       THEN /\ phase' = "answered" /\ runs' = [runs EXCEPT !["front"] = NoRun]
            /\ UNCHANGED <<prog, loaded, incoming, state, performed, granted>>
       ELSE Proceed({}, FALSE)

\* respond_with_pipeline after the run: the deferred actions, the answer.
Respond ==
  /\ phase = "main" /\ Completed("front")
  /\ performed' = performed + runs["front"].deferred
  /\ phase' = "answered" /\ runs' = [runs EXCEPT !["front"] = NoRun]
  /\ UNCHANGED <<prog, loaded, incoming, state, granted>>

\* An error that ended the run: 500, or exit code 1.
RespondError ==
  /\ phase = "main" /\ Fails("front")
  /\ phase' = "answered" /\ runs' = [runs EXCEPT !["front"] = NoRun]
  /\ UNCHANGED <<prog, loaded, incoming, state, performed, granted>>

---------------------------------------------------------------------------
Handling ==
  \/ Build \/ Arrive \/ RunScript
  \/ FlagsResolved \/ FlagsTimeOut \/ FlagsFail \/ Respond \/ RespondError
  \/ Runs("front")

EntryNext == Handling \/ Runs("task") \/ TaskOver

EntrySpec == EntryInit /\ [][EntryNext]_entryVars

---------------------------------------------------------------------------
(***************************************************************************)
(* Properties.                                                             *)
(***************************************************************************)
Served == incoming # NoValue /\ incoming.method # "script"

\* A step about to run is tagged with a flag, or a branch of it is.
Consults(r) == Begins(r) /\ AsksForFlag(Step(r))

\* The flags pipeline is skipped for a route only if no run of the route comes
\* to a step or branch that asks for a flag (pipeline_needs_flags), whatever
\* it calls by name: what it calls through an alias, and the resolvers of a
\* query, the search does not see.
FlagsForeseen ==
  \A r \in DOMAIN runs :
    phase = "main" /\ Served /\ prog.flags # NoValue /\ Consults(r)
    => Foreseen(Route(incoming)) \/ Hidden(r)

\* Steps tagged @flag run for a request only by a flag that its flags
\* pipeline gave, having run to its end in time, or that its own setFlag did
\* (check_flag_tag: "Default: False (Fail Closed)").
FlagsAreGranted ==
  phase = "main" => \A r \in DOMAIN runs : runs[r].flags \subseteq granted

\* A request overflows the stack of a server that has started only through
\* what the search at the start did not see: the flags pipeline, an alias, a
\* query, or what comes after the first flag it found.
OverflowHidden ==
  phase = "crashed" /\ Served =>
    \/ NeedsFlags(Env, Route(incoming).pipeline) = "yes"
    \/ \E r \in DOMAIN runs : Len(runs[r].stack) = MaxDepth /\ Hidden(r)

Unqualified(n) == [alias |-> NoAlias, name |-> n]

\* What the steps of a test find under a name, the server finds under it too
\* (load_imports_for_tests, build_runtime): pipelines and variables.  What the
\* test itself executes is looked up in another way: the pipeline is the one
\* that the name stands for in the test's own file m if and only if no file
\* before m has one of that name, or m has none and just one other file has.
\* The variables of files other than the main one are not found.
TestsAgree ==
  loaded =>
    LET Test == Linked(prog, TRUE, TestTable)
        Names(kind) == Named(prog, kind)
        Aliases == {NoAlias} \cup UNION {DOMAIN prog.modules[m].imports : m \in DOMAIN prog.modules}
    IN  /\ \A m \in DOMAIN prog.modules :
             /\ \A a \in Aliases, n \in Names("pipelines") :
                  LET ref == [alias |-> a, name |-> n]
                  IN  ResolvePipeline(Test, m, ref).found
                      => ResolvePipeline(Env, m, ref) = ResolvePipeline(Test, m, ref)
             /\ \A a \in Aliases, n \in Names("variables") :
                  LET ref == [alias |-> a, name |-> n]
                  IN  ResolveVariable(Test, m, ref).found
                      => ResolveVariable(Env, m, ref) = ResolveVariable(Test, m, ref)
             /\ \A n \in Names("pipelines") :
                  LET all == Definers(prog, "pipelines", n)
                  IN  TestPipeline(prog, n) = ResolvePipeline(Env, m, Unqualified(n))
                      <=> IF m \in all THEN m = Min(all) ELSE Min(all) = Max(all)
        /\ \A n \in DOMAIN prog.modules[prog.root].variables :
             LET found == ResolveVariable(Env, prog.root, Unqualified(n))
             IN  TestVariable(prog, n) = Located(NoModule, found.steps)

\* A request that only this route matches.
Example(r) == [i \in DOMAIN r.path |-> IF r.path[i] = Param THEN OtherSegment ELSE r.path[i]]

\* Every route of the program answers requests, except those behind the
\* server's own (/health, and anything but GET on "/"), those of other
\* methods, those of a path that a route of an earlier module took, and those
\* behind a file.
EveryRouteAnswers ==
  LET all == Merged(prog)
  IN  \A i \in DOMAIN all :
        LET sent == [method |-> all[i].method, path |-> Example(all[i])]
        IN  \/ sent.method \notin Methods
            \/ ~Handled(sent.method, sent.path)
            \/ \E j \in DOMAIN all : Precedes(j, i) /\ SameShape(all[j], all[i])
            \/ sent.method = "GET" /\ sent.path \in prog.files
            \/ Receiver(sent) = "route" /\ Route(sent) = all[i]
=============================================================================
