---------------------------- MODULE PipelineRun ----------------------------
(***************************************************************************)
(* One run of a pipeline by the executor (src/src/executor/mod.rs, step.rs,*)
(* resolver.rs): the steps, the pipelines they call, the branches of if,   *)
(* dispatch, foreach and result, the short circuit of typed errors, and    *)
(* the content type and status of the answer.                              *)
(*                                                                         *)
(* The recursion of execute_pipeline_internal is a stack of frames.  Of    *)
(* the JSON state the model keeps its shape, its first error and the truth *)
(* of one @guard expression; what a middleware returns is any of the       *)
(* values its step lists.                                                  *)
(***************************************************************************)
EXTENDS Naturals, Sequences

CONSTANTS
  Pipelines,  \* [names -> sequences of steps]; an absent branch is <<>>, a
              \* present one <<name>>
  Mains,      \* the names a route may run
  Types,      \* types of the errors
  Statuses,
  MaxItems    \* bound on the items of a foreach

VARIABLES
  main,     \* the pipeline of the request's route
  stack,    \* the pipelines being executed, innermost last
  outcome   \* what the request gets

vars == <<main, stack, outcome>>

\* "none": no errors; "untyped": a first error without a `type'.
Errs == Types \cup {"none", "untyped"}
Values == [shape: {"object"}, err: Errs, flag: BOOLEAN]
          \cup [shape: {"false", "text"}, err: {"none"}, flag: {FALSE}]

Branches == [for : Types \cup {"ok", "default"}, status : Statuses, pipe : DOMAIN Pipelines]
Cases == [tag : {"always", "guard", "unguard"}, pipe : DOMAIN Pipelines]

\* The steps as the parser leaves them, with values for what they give.  A step
\* that calls a pipeline that is not there ends the run as PipelineNotFound, and
\* stands among the middlewares that abort.
WellFormed(s) ==
  CASE s.op = "mw" -> s.rename \in Types \cup {"none"} /\ s.gives \cup s.stored \subseteq Values
    [] s.op = "call" -> s.rename \in Types \cup {"none"} /\ s.pipe \in DOMAIN Pipelines
    [] s.op = "if" -> {s.cond, s.then} \subseteq DOMAIN Pipelines /\ s.else \in Seq(DOMAIN Pipelines)
    [] s.op = "dispatch" -> s.cases \in Seq(Cases) /\ s.default \in Seq(DOMAIN Pipelines)
    [] s.op = "foreach" -> s.body \in DOMAIN Pipelines /\ s.items \subseteq Values
    [] s.op = "result" -> s.branches \in Seq(Branches)

\* The words for what is absent are no types and no statuses.
ASSUME PipelineAssumption ==
  /\ {"none", "untyped"} \cap Types = {} /\ {"mwError", "callError"} \subseteq Types
  /\ {"unset", "open", "hit"} \cap Statuses = {}
  /\ MaxItems \in Nat
  /\ Mains \subseteq DOMAIN Pipelines
  /\ \A p \in DOMAIN Pipelines :
       /\ Len(Pipelines[p]) \in Nat
       /\ DOMAIN Pipelines[p] = 1..Len(Pipelines[p])
       /\ \A i \in DOMAIN Pipelines[p] :
            /\ Pipelines[p][i].op \in {"mw", "call", "if", "dispatch", "foreach", "result"}
            /\ WellFormed(Pipelines[p][i])

ErrorValue(t) == [shape |-> "object", err |-> t, flag |-> FALSE]
Pending == [kind |-> "pending"]
Failed == [kind |-> "failed"]

Frame(p, state, handled) ==
  [pipe |-> p, at |-> 1, state |-> state, ct |-> "json", status |-> "unset",
   handled |-> handled, waits |-> "no", left |-> 0, last |-> FALSE, exit |-> "open"]

Init ==
  /\ main \in Mains
  /\ \E b \in BOOLEAN :
       stack = <<Frame(main, [shape |-> "object", err |-> "none", flag |-> b], "none")>>
  /\ outcome = Pending

\* The first element of s that Is, as a set of at most one.
First(s, Is(_)) == {s[i] : i \in {i \in DOMAIN s : Is(s[i]) /\ \A j \in 1..i - 1 : ~Is(s[j])}}

Top == stack[Len(stack)]
Steps(f) == Pipelines[f.pipe]
Done(f) == f.at > Len(Steps(f))
Step(f) == Steps(f)[f.at]
Replace(f) == stack' = [stack EXCEPT ![Len(stack)] = f]
Enter(f, callee) == stack' = Append([stack EXCEPT ![Len(stack)] = f], callee)

\* extract_error_type
ErrorType(v) == IF v.err \in Types THEN v.err ELSE "none"

\* The top of the loop: an error other than the handled one ends the
\* handling of it, and holds every step but a result.
Handling(f) == f.handled # "none" /\ f.handled = ErrorType(f.state)

\* Mutant: only the steps that run a middleware are held.
HoldsMiddlewareOnly(f) ==
  ErrorType(f.state) # "none" /\ ~Handling(f) /\ Step(f).op = "mw"

\* Mutant: a branch that began with an error runs to its end.
HoldsUnlessHandler(f) ==
  ErrorType(f.state) # "none" /\ f.handled = "none" /\ Step(f).op # "result"

Holds(f) ==
  ErrorType(f.state) # "none" /\ ~Handling(f) /\ Step(f).op # "result"

\* handled_error_type is forgotten for good.
Noted(f) == IF Handling(f) THEN f ELSE [f EXCEPT !.handled = "none"]

\* A step that can begin.
Begins(op) ==
  /\ stack # <<>> /\ Top.waits = "no" /\ ~Done(Top)
  /\ Step(Top).op = op

Runs(op) == Begins(op) /\ ~Holds(Top)

Advance(f) == [f EXCEPT !.at = @ + 1, !.waits = "no"]
Leave(f) == [f EXCEPT !.at = Len(Steps(f)) + 1, !.waits = "no"]

---------------------------------------------------------------------------
(***************************************************************************)
(* Tags, and the step taken for the last (is_effectively_last_step).       *)
(***************************************************************************)
\* A @guard that cannot be evaluated holds a step back, negated or not.
TagHolds(tag, v) ==
  CASE tag = "always" -> TRUE
    [] tag = "guard" -> v.flag
    [] tag = "unguard" -> v.shape = "object" /\ ~v.flag

Regular(s) == s.op \in {"mw", "call"}

IsLast(f) ==
  \A i \in f.at + 1..Len(Steps(f)) :
    Regular(Steps(f)[i]) /\ ~TagHolds(Steps(f)[i].tag, f.state)

---------------------------------------------------------------------------
(***************************************************************************)
(* What a step does to the state and to the answer's metadata.             *)
(***************************************************************************)
Merged(old, new) ==
  IF old.shape = "object" /\ new.shape = "object"
  THEN [new EXCEPT !.err = IF @ = "none" THEN old.err ELSE @]
  ELSE new

\* apply_data_wrap: the value goes under `.data', where its errors are data.
Wrapped(old, new) == [shape |-> "object", err |-> old.err, flag |-> new.flag]

\* The system keys that outlive a transform are data.
Applied(behavior, old, new) ==
  CASE behavior = "merge" -> Merged(old, new)
    [] behavior = "wrap" /\ ErrorType(new) = "none" -> Wrapped(old, new)
    [] OTHER -> new

\* override_error_type
Renamed(v, rename) == IF rename # "none" /\ v.err # "none" THEN [v EXCEPT !.err = rename] ELSE v

\* update_metadata: a step's content type counts if it is none of the
\* default, or if the step is last.
WithType(f, ct, last, ofPage) ==
  IF (ct # "json" /\ ofPage) \/ last THEN [f EXCEPT !.ct = ct] ELSE f

WithStatus(f, s) == IF s = "unset" THEN f ELSE [f EXCEPT !.status = s]

---------------------------------------------------------------------------
(***************************************************************************)
(* Regular steps.                                                          *)
(***************************************************************************)
\* A step held by a typed error.
Skip ==
  /\ stack # <<>> /\ Top.waits = "no" /\ ~Done(Top)
  /\ Holds(Top)
  /\ Replace(Advance(Noted(Top)))
  /\ UNCHANGED <<main, outcome>>

TagOff ==
  /\ \E op \in {"mw", "call"} : Runs(op)
  /\ ~TagHolds(Step(Top).tag, Top.state)
  /\ Replace(Advance(Noted(Top)))
  /\ UNCHANGED <<main, outcome>>

\* What the middleware returns: its own values, or its input unchanged.
Yields(s, f) == IF s.gives = {} THEN {f.state} ELSE s.gives

\* A step that gives a page gives text and its type.
RunMw ==
  /\ Runs("mw") /\ TagHolds(Step(Top).tag, Top.state)
  /\ \E v \in Yields(Step(Top), Top) :
       LET s == Step(Top)
           f == [Noted(Top) EXCEPT !.last = IsLast(Top),
                                   !.state = Applied(s.behavior, @, Renamed(v, s.rename))]
           ct == IF s.behavior = "render" THEN "html" ELSE "json"
       IN  Replace(Advance(WithType(f, ct, f.last, TRUE)))
  /\ UNCHANGED <<main, outcome>>

\* An error of the middleware becomes an error in the state, which it
\* replaces.
MwFails ==
  /\ Runs("mw") /\ Step(Top).fails /\ TagHolds(Step(Top).tag, Top.state)
  /\ Replace(Advance([Noted(Top) EXCEPT
                        !.state = Renamed(ErrorValue("mwError"), Step(Top).rename)]))
  /\ UNCHANGED <<main, outcome>>

\* Any other kind of error ends the run.
Abort ==
  /\ Runs("mw") /\ Step(Top).aborts /\ TagHolds(Step(Top).tag, Top.state)
  /\ stack' = <<>>
  /\ outcome' = Failed
  /\ UNCHANGED main

\* check_cache_stop: the stored answer ends this pipeline.  What is stored
\* is no error (run_pending_cache_saves).
CacheHit ==
  /\ Runs("mw") /\ TagHolds(Step(Top).tag, Top.state)
  /\ \E v \in Step(Top).stored, s \in Statuses \cup {"unset"}, ct \in {"json", "html"} :
       Replace(Leave(WithStatus([Noted(Top) EXCEPT !.state = v, !.ct = ct, !.exit = "hit"], s)))
  /\ UNCHANGED <<main, outcome>>

Call ==
  /\ Runs("call") /\ TagHolds(Step(Top).tag, Top.state)
  /\ Enter([Noted(Top) EXCEPT !.waits = "call", !.last = IsLast(Top)],
           Frame(Step(Top).pipe, Top.state, "none"))
  /\ UNCHANGED <<main, outcome>>

---------------------------------------------------------------------------
(***************************************************************************)
(* if, dispatch and foreach.                                               *)
(***************************************************************************)
\* The condition runs on a clone of the state.
If ==
  /\ Runs("if")
  /\ Enter([Noted(Top) EXCEPT !.waits = "cond"], Frame(Step(Top).cond, Top.state, "none"))
  /\ UNCHANGED <<main, outcome>>

\* execute_branch: the branch runs on the state itself.
EnterBranch(f, p) == Enter([f EXCEPT !.waits = "branch"], Frame(p, f.state, "none"))

Then ==
  /\ stack # <<>> /\ Top.waits = "then"
  /\ EnterBranch(Top, Step(Top).then)
  /\ UNCHANGED <<main, outcome>>

Else ==
  /\ stack # <<>> /\ Top.waits = "else"
  /\ IF Step(Top).else = <<>> THEN Replace(Advance(Top)) ELSE EnterBranch(Top, Step(Top).else[1])
  /\ UNCHANGED <<main, outcome>>

\* The first case that matches, or the default.
Dispatch ==
  /\ Runs("dispatch")
  /\ LET s == Step(Top)
         case == First(s.cases, LAMBDA c : TagHolds(c.tag, Top.state))
         ps == IF case = {} THEN {s.default[i] : i \in DOMAIN s.default} ELSE {c.pipe : c \in case}
     IN  \/ ps = {} /\ Replace(Advance(Noted(Top)))
         \/ \E p \in ps : EnterBranch(Noted(Top), p)
  /\ UNCHANGED <<main, outcome>>

\* The selector gives an array of any length.
Foreach ==
  /\ Runs("foreach")
  /\ \E n \in 0..MaxItems : Replace([Noted(Top) EXCEPT !.waits = "items", !.left = n])
  /\ UNCHANGED <<main, outcome>>

NextItem ==
  /\ stack # <<>> /\ Top.waits = "items"
  /\ IF Top.left = 0
     THEN Replace(Advance(Top))
     ELSE \E v \in Step(Top).items :
            Enter([Top EXCEPT !.waits = "item", !.left = @ - 1], Frame(Step(Top).body, v, "none"))
  /\ UNCHANGED <<main, outcome>>

\* It gives no array: an error that no step catches but the innermost call.
ForeachFails ==
  /\ Runs("foreach") /\ Step(Top).fails
  /\ LET calls == {i \in DOMAIN stack : stack[i].waits = "call"}
     IN  \/ calls = {} /\ stack' = <<>> /\ outcome' = Failed /\ UNCHANGED main
         \/ \E i \in calls :
              LET f == stack[i]
                  caught == Renamed(ErrorValue("callError"), Step(f).rename)
              IN  /\ \A j \in calls : j <= i
                  /\ stack' = Append(SubSeq(stack, 1, i - 1), Advance([f EXCEPT !.state = caught]))
                  /\ UNCHANGED <<main, outcome>>

---------------------------------------------------------------------------
(***************************************************************************)
(* result.                                                                 *)
(***************************************************************************)
\* select_branch: the first branch for the error, or else the first default.
Selected(branches, t) ==
  LET own == First(branches, LAMBDA b : b.for = IF t = "none" THEN "ok" ELSE t)
  IN  IF own = {} THEN First(branches, LAMBDA b : b.for = "default") ELSE own

Branch(f) == Selected(Step(f).branches, ErrorType(f.state))

Result ==
  /\ Begins("result")
  /\ \/ Branch(Top) = {} /\ Replace(Leave(Noted(Top)))
     \/ \E b \in Branch(Top) :
          Enter([Noted(Top) EXCEPT !.waits = "handler", !.exit = b.status],
                Frame(b.pipe, Top.state, ErrorType(Top.state)))
  /\ UNCHANGED <<main, outcome>>

---------------------------------------------------------------------------
(***************************************************************************)
(* The end of a pipeline: what its caller makes of the answer g.           *)
(***************************************************************************)
\* Mutant: the status of the branch's own pipeline wins.
ResumedByStatus(f, g) ==
  CASE f.waits = "call" ->
         LET v == Renamed(g.state, Step(f).rename)
         IN  Advance(WithStatus(WithType([f EXCEPT !.state = Merged(@, v)], g.ct, f.last, TRUE),
                                g.status))
    [] f.waits = "cond" -> [f EXCEPT !.waits = IF g.state.shape = "false" THEN "else" ELSE "then"]
    [] f.waits = "branch" ->
         Advance(WithStatus(WithType([f EXCEPT !.state = g.state], g.ct, FALSE, TRUE), g.status))
    [] f.waits = "item" -> [f EXCEPT !.waits = "items"]
    [] f.waits = "handler" ->
         Leave(WithStatus(WithType([f EXCEPT !.state = g.state, !.status = f.exit],
                                   g.ct, FALSE, TRUE), g.status))

Resumed(f, g) ==
  CASE f.waits = "call" ->
         LET v == Renamed(g.state, Step(f).rename)
         IN  Advance(WithStatus(WithType([f EXCEPT !.state = Merged(@, v)], g.ct, f.last, TRUE),
                                g.status))
    [] f.waits = "cond" -> [f EXCEPT !.waits = IF g.state.shape = "false" THEN "else" ELSE "then"]
    [] f.waits = "branch" ->
         Advance(WithStatus(WithType([f EXCEPT !.state = g.state], g.ct, FALSE, TRUE), g.status))
    [] f.waits = "item" -> [f EXCEPT !.waits = "items"]
    [] f.waits = "handler" ->
         Leave(WithType([f EXCEPT !.state = g.state, !.status = f.exit], g.ct, FALSE, TRUE))

Return ==
  /\ stack # <<>> /\ Top.waits = "no" /\ Done(Top)
  /\ LET below == SubSeq(stack, 1, Len(stack) - 1)
     IN  IF below = <<>>
         THEN /\ stack' = <<>>
              /\ outcome' = [kind |-> "answer", state |-> Top.state, ct |-> Top.ct,
                             status |-> Top.status]
              /\ UNCHANGED main
         ELSE /\ stack' = [below EXCEPT ![Len(below)] = Resumed(@, Top)]
              /\ UNCHANGED <<main, outcome>>

---------------------------------------------------------------------------
Next ==
  \/ Skip \/ TagOff \/ RunMw \/ MwFails \/ Abort \/ CacheHit \/ Call
  \/ If \/ Then \/ Else \/ Dispatch \/ Foreach \/ NextItem \/ ForeachFails
  \/ Result \/ Return

Spec == Init /\ [][Next]_vars

---------------------------------------------------------------------------
(***************************************************************************)
(* Properties.                                                             *)
(***************************************************************************)

\* docs/result-routing.md: a typed error that no branch is handling stands, in
\* every pipeline and nested one, until a result routes it: no step replaces
\* it, renames it or hides it.
ErrorStands ==
  [][\A i \in DOMAIN stack \cap DOMAIN stack' :
       /\ ErrorType(stack[i].state) # "none" /\ ~Handling(stack[i])
       /\ stack[i].waits # "handler"
       => stack'[i].state = stack[i].state]_vars

\* The run of the route's own pipeline, as a Railway.
StatusFor(p, t) ==
  LET results == First(Pipelines[p], LAMBDA s : s.op = "result")
      chosen == UNION {Selected(s.branches, t) : s \in results}
  IN  IF chosen = {} THEN "unset" ELSE (CHOOSE b \in chosen : TRUE).status

At(phase, value) == [phase |-> phase, value |-> value]

RunSoFar ==
  CASE outcome.kind = "failed" -> At("failed", "unset")
    [] outcome.kind = "answer" -> At("answered", outcome.status)
    [] outcome.kind = "pending" ->
         CASE stack[1].exit = "open" -> At("on", ErrorType(stack[1].state))
           [] stack[1].exit = "hit" -> At("replaying", "unset")
           [] stack[1].exit \in Statuses -> At("routed", stack[1].exit)

Promised == INSTANCE Railway
              WITH Statuses <- Statuses \cup {"unset"}, Clear <- "none", Any <- "unset",
                   table <- [t \in Types \cup {"none"} |-> StatusFor(main, t)],
                   run <- RunSoFar

\* The first typed error of the route's pipeline decides the answer, however
\* deeply the steps are nested and whatever its branch does.
ImplementsRailway == Promised!Spec
===========================================================================
