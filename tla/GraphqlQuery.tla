---------------------------- MODULE GraphqlQuery ----------------------------
(***************************************************************************)
(* A `graphql' step (src/src/middleware/graphql.rs) and the query it runs  *)
(* (src/src/graphql/mod.rs, src/src/graphql/loader.rs): the resolvers of   *)
(* the fields and the batched loads they wait for, which share the         *)
(* request's context through a mutex.                                      *)
(*                                                                         *)
(* Actors: the fields, futures of one task that interleave where they      *)
(* await; the loads, tasks of their own that outlive the query; the step   *)
(* itself.  async-graphql and its DataLoader are modelled from how this    *)
(* code uses them: fields of a query run together and those of a mutation  *)
(* in turn; an error of a non-null field ends the object it is in and      *)
(* drops the other fields of it; the keys asked for within a millisecond   *)
(* become one load.                                                        *)
(*                                                                         *)
(* A field of the query is a place of its answer:                          *)
(*   parent   the field whose value it is in, or Root                      *)
(*   steps    "none" (no resolver), "pipeline", or "loader": its resolver  *)
(*            has a loader step                                            *)
(*   before, after   a loader resolver has steps before, after that step   *)
(*   name, module    the pipeline the loader step names, and its module    *)
(*   key, args       what it asks for;  nonNull  its type                  *)
(***************************************************************************)
EXTENDS Naturals, FiniteSets, Sequences, Functions

CONSTANTS
  Queries,    \* sets of fields: functions from fields to such records
  Root,
  None,
  Pipelines,  \* the table of named pipelines: pairs <<module or None, name>>
  KeyString,  \* what a key is called in a loader pipeline's answer
  Nesting     \* the fields and loader pipelines with a `graphql' step in them

ASSUME QueriesAssumption ==
  \A q \in Queries : \A f \in DOMAIN q : q[f].steps \in {"none", "pipeline", "loader"}

VARIABLES
  query,     \* the query: its fields
  mutation,  \* it is a mutation
  target,    \* the step's result name: a root field of the query or None
  at,        \* where each field is
  value,     \* what each loader field was given
  lock,      \* who holds the mutex: a field, a load or nobody
  ctx,       \* the context in the mutex
  open,      \* the keys that wait for the next load, and their fields
  loads,     \* the loads that run
  returned,  \* the context given back to the caller, once there is one
  result,    \* the state the step leaves, or None
  ran,       \* history: who worked with the context
  left,      \* history: who left entries on the profiler's stack
  lost       \* history: in whose nested query the context was lost

vars == <<query, mutation, target, at, value, lock, ctx, open, loads,
          returned, result, ran, left, lost>>
history == <<left, lost>>
asked == <<query, mutation, target>>

Fields == DOMAIN query
Settled == {"done", "null", "failed", "dropped"}
Null == [name |-> None]

\* A field or a group of keys whose pipelines run.  What the model keeps of a
\* RequestContext: whether it is the request's, the profiler's stack and who has
\* worked with it.  The entries of one work that lie together on the stack, its
\* own and those of the steps it is in, count as one.
Work(kind, of) == <<kind, of>>
Nobody == Work("nobody", None)
Context(own) == [own |-> own, stack |-> <<>>, log |-> {}]
NoKeys == [keys |-> {}, fields |-> {}]

Init ==
  /\ query \in Queries /\ mutation \in BOOLEAN
  /\ target \in {f \in DOMAIN query : query[f].parent = Root} \cup {None}
  /\ at = [f \in DOMAIN query |-> "unborn"]
  /\ value = [f \in DOMAIN query |-> None]
  /\ lock = Nobody
  /\ ctx = Context(TRUE)       \* execute: mem::take(ctx)
  /\ open = NoKeys /\ loads = {}
  /\ returned = {} /\ result = None
  /\ ran = {} /\ left = {} /\ lost = {}

---------------------------------------------------------------------------
(***************************************************************************)
(* The mutex and the context in it.                                        *)
(***************************************************************************)
\* Profiler::push and Profiler::pop, which does nothing on an empty stack.
Pushed(w) == [ctx EXCEPT !.stack = Append(@, w), !.log = @ \cup {w}]
Pop(s) == SubSeq(s, 1, Len(s) - 1)

Nests(w) ==
  IF w[1] = "field" THEN w[2] \in Nesting ELSE \E k \in w[2] : k.name \in Nesting

\* w lets the mutex go.  Its entries are popped or left on the stack.  A nested
\* query takes the context out of the mutex's hands: fields that end in it leave
\* entries though w ends well, and a query that is dropped before it puts the
\* context back leaves an empty one, which w may still go on with.
LetGo(w, ends) ==
  /\ lock' = Nobody
  /\ \/ /\ "popped" \in ends
        /\ ctx' = [ctx EXCEPT !.stack = Pop(@)]
        /\ UNCHANGED history
     \/ /\ "left" \in ends \/ Nests(w)
        /\ left' = IF returned = {} THEN left \cup {w} ELSE left
        /\ UNCHANGED <<ctx, lost>>
     \/ /\ Nests(w)
        /\ \E stack \in {<<>>, <<w>>} :
             /\ ctx' = [Context(FALSE) EXCEPT !.stack = stack]
             /\ left' = IF returned = {} THEN left \cup Range(stack) ELSE left
        /\ lost' = IF returned = {} THEN lost \cup {w} ELSE lost

---------------------------------------------------------------------------
(***************************************************************************)
(* The order of the fields, and errors (async-graphql).                    *)
(***************************************************************************)
Ancestors(q, f) ==
  LET above[g \in DOMAIN q] ==
        IF q[g].parent = Root THEN {} ELSE {q[g].parent} \cup above[q[g].parent]
  IN  above[f]

Above(f) == Ancestors(query, f)

Below(f) == {g \in Fields : f \in Above(g)}

\* In a mutation a root field, with all that is in it, is over before the next.
InTurn(f) ==
  mutation /\ query[f].parent = Root =>
    \A g \in Fields : \/ at[g] \in Settled
                      \/ at[g] = "unborn" /\ \A h \in Above(g) : at[h] # "done"

\* Which resolver a field has (GraphQLRuntime::from_program).
Resolver(f) ==
  CASE query[f].steps = "none" -> "read"
    [] query[f].steps = "pipeline" -> "resolve"
    [] query[f].steps = "loader" ->
         IF query[f].parent = Root THEN "misplaced"
         ELSE IF query[f].before THEN "before" ELSE "ask"

Start(f) ==
  /\ at[f] = "unborn" /\ returned = {}
  /\ query[f].parent # Root => at[query[f].parent] = "done"
  /\ InTurn(f)
  /\ at' = [at EXCEPT ![f] = Resolver(f)]
  /\ UNCHANGED <<asked, value, lock, ctx, open, loads, returned, result, ran, history>>

\* The fields that end when f does with that outcome: what is in it never
\* starts without a value, and the error of a non-null field takes the object
\* it is in along, up to a field that may be null.
Along(f) ==
  LET along[g \in Fields] ==
        IF ~query[g].nonNull THEN {}
        ELSE IF query[g].parent = Root THEN Fields
        ELSE Below(query[g].parent) \cup along[query[g].parent]
  IN  along[f]

Outcome(f, outcome) ==
  IF outcome = "null" /\ query[f].nonNull THEN "failed" ELSE outcome

Ended(f, outcome) ==
  [g \in Fields |->
     IF g = f THEN Outcome(f, outcome)
     ELSE IF outcome # "done" /\ g \in Below(f) THEN "dropped"
     ELSE IF Outcome(f, outcome) = "failed" /\ g \in Along(f) /\ at[g] \notin Settled
       THEN "dropped"
     ELSE at[g]]

\* f ends; a field that is dropped, or ends, lets the mutex go.  One that is
\* dropped in the middle of its steps pops nothing.
End(f, outcome, ends) ==
  LET ended == Ended(f, outcome)
      holder == {g \in Fields : lock = Work("field", g) /\ (g = f \/ ended[g] = "dropped")}
  IN  /\ at' = ended
      /\ IF holder = {} THEN UNCHANGED <<lock, ctx, history>>
         ELSE \E g \in holder : LetGo(lock, IF g = f THEN ends ELSE {"left"})

---------------------------------------------------------------------------
(***************************************************************************)
(* Fields without a loader step.                                           *)
(***************************************************************************)
\* The default resolver reads the parent's value.
Read(f) ==
  /\ at[f] = "read"
  /\ \E outcome \in {"done", "null", "failed"} : End(f, outcome, {"popped"})
  /\ UNCHANGED <<asked, value, open, loads, returned, result, ran>>

\* A loader step in a field of Query or Mutation.
Misplaced(f) ==
  /\ at[f] = "misplaced" /\ End(f, "failed", {"popped"})
  /\ UNCHANGED <<asked, value, open, loads, returned, result, ran>>

Works(f) ==
  /\ lock = Nobody /\ lock' = Work("field", f)
  /\ ctx' = Pushed(Work("field", f))
  /\ ran' = ran \cup {Work("field", f)}
  /\ UNCHANGED <<asked, value, open, loads, returned, result, history>>

Resolve(f) ==
  /\ at[f] = "resolve" /\ Works(f)
  /\ at' = [at EXCEPT ![f] = "resolving"]

\* The pipeline's answer; an `errors' entry in it is an error of the field.
Resolved(f) ==
  /\ at[f] = "resolving"
  /\ \E outcome \in {"done", "null", "failed"} : End(f, outcome, {"popped"})
  /\ UNCHANGED <<asked, value, open, loads, returned, result, ran>>

\* An error of the pipeline returns before the resolver's own entry is popped.
ResolverFails(f) ==
  /\ at[f] = "resolving" /\ End(f, "failed", {"left"})
  /\ UNCHANGED <<asked, value, open, loads, returned, result, ran>>

---------------------------------------------------------------------------
(***************************************************************************)
(* Fields with a loader step.                                              *)
(***************************************************************************)
\* The steps before and after the loader step run with the mutex held, and have
\* entries of their own, popped unless the debugger ends the step.
Steps(f, from, to) ==
  /\ at[f] = from /\ Works(f)
  /\ at' = [at EXCEPT ![f] = to]

Before(f) == Steps(f, "before", "preparing")
After(f) == Steps(f, "after", "finishing")

\* Mutant: the guard lives as long as the resolver.
PreparedHolding(f) ==
  /\ at[f] = "preparing"
  /\ at' = [at EXCEPT ![f] = "ask"]
  /\ UNCHANGED <<asked, value, lock, ctx, open, loads, returned, result, ran, history>>

Prepared(f) ==
  /\ at[f] = "preparing"
  /\ \/ at' = [at EXCEPT ![f] = "ask"] /\ LetGo(lock, {"popped"})
     \/ End(f, "failed", {"popped", "left"})
  /\ UNCHANGED <<asked, value, open, loads, returned, result, ran>>

LoaderKey(f) ==
  [name |-> query[f].name, key |-> query[f].key, args |-> query[f].args,
   module |-> query[f].module]

\* Mutant: nor does the pipeline.
SameKeyAnywhere(k, l) == k.key = l.key

\* LoaderKey::eq: neither the arguments nor the module count.
SameKey(k, l) == k.name = l.name /\ k.key = l.key

\* load_one: of equal keys the first is kept.
Ask(f) ==
  /\ at[f] = "ask"
  /\ at' = [at EXCEPT ![f] = "loading"]
  /\ open' = [keys |-> IF \E k \in open.keys : SameKey(k, LoaderKey(f)) THEN open.keys
                       ELSE open.keys \cup {LoaderKey(f)},
              fields |-> open.fields \cup {f}]
  /\ UNCHANGED <<asked, value, lock, ctx, loads, returned, result, ran, history>>

\* The key expression fails, or the parent has no value.
AskFails(f) ==
  /\ at[f] = "ask" /\ End(f, "failed", {"popped"})
  /\ UNCHANGED <<asked, value, open, loads, returned, result, ran>>

\* What the load gave is the field's value, unless steps follow.
Loaded(f) ==
  /\ at[f] \in {"loaded", "refused"}
  /\ IF at[f] = "refused" THEN End(f, "failed", {"popped"})
     ELSE IF query[f].after
       THEN at' = [at EXCEPT ![f] = "after"] /\ UNCHANGED <<lock, ctx, history>>
     ELSE End(f, IF value[f] = Null THEN "null" ELSE "done", {"popped"})
  /\ UNCHANGED <<asked, value, open, loads, returned, result, ran>>

Finished(f) ==
  /\ at[f] = "finishing"
  /\ \/ \E outcome \in {"done", "null", "failed"} : End(f, outcome, {"popped"})
     \/ End(f, "failed", {"left"})
  /\ UNCHANGED <<asked, value, open, loads, returned, result, ran>>

---------------------------------------------------------------------------
(***************************************************************************)
(* The loads (PipelineLoader::load), tasks of their own.  A load has the   *)
(* groups of keys it still has to ask for, the one it is running with the  *)
(* key whose arguments it uses, what it got so far, and who waits.         *)
(***************************************************************************)
\* The keys of a load, grouped by pipeline.
Grouped(keys) == {{k \in keys : k.name = n} : n \in {k.name : k \in keys}}

\* The millisecond is over.
Dispatch ==
  /\ open.keys # {}
  /\ loads' = loads \cup {[groups |-> Grouped(open.keys), running |-> {},
                           got |-> {}, fields |-> open.fields]}
  /\ open' = NoKeys
  /\ UNCHANGED <<asked, at, value, lock, ctx, returned, result, ran, history>>

\* The pipeline of a group: the module's, else the main file's.
Known(k) == <<k.module, k.name>> \in Pipelines \/ <<None, k.name>> \in Pipelines

\* The fields that still wait for a load get what it brings; nobody reads the
\* rest.  A key that is not in the answer is null.
Waiting(l) == {f \in l.fields : at[f] = "loading"}

Given(f, got) ==
  CHOOSE v \in {g.value : g \in {g \in got : SameKey(g.key, LoaderKey(f))}} : TRUE

Deliver(l, got) ==
  /\ at' = [f \in Fields |-> IF f \in Waiting(l) THEN "loaded" ELSE at[f]]
  /\ value' = [f \in Fields |-> IF f \in Waiting(l) THEN Given(f, got) ELSE value[f]]

Refuse(l) ==
  /\ at' = [f \in Fields |-> IF f \in Waiting(l) THEN "refused" ELSE at[f]]
  /\ UNCHANGED value

Begun(l, g, run) == [l EXCEPT !.groups = @ \ {g}, !.running = {run}]
Brings(l, got) == [l EXCEPT !.running = {}, !.got = got]

\* The next group; its first key, in whatever order the set gives them,
\* brings the arguments and the module.
LoadGroup(l) ==
  /\ l.running = {}
  /\ \E g \in l.groups : \E first \in g :
       /\ Known(first) /\ lock = Nobody
       /\ lock' = Work("load", g)
       /\ ctx' = Pushed(Work("load", g))
       /\ ran' = IF returned = {} THEN ran \cup {Work("load", g)} ELSE ran
       /\ loads' = (loads \ {l}) \cup
            {Begun(l, g, [group |-> g, first |-> first])}
  /\ UNCHANGED <<asked, at, value, open, returned, result, history>>

\* There is no such pipeline: the whole load fails.
LoadUnknown(l) ==
  /\ l.running = {}
  /\ \E g \in l.groups : \E first \in g : ~Known(first)
  /\ Refuse(l) /\ loads' = loads \ {l}
  /\ UNCHANGED <<asked, lock, ctx, open, returned, result, ran, history>>

\* What the pipeline answers for a key, with the arguments it was given.
Entry(k, first) ==
  [name |-> k.name, key |-> KeyString[k.key], args |-> first.args, module |-> first.module]

Brought(r, has) ==
  {[key |-> k, value |-> IF KeyString[k.key] \in has THEN Entry(k, r.first) ELSE Null] :
     k \in r.group}

\* The group's pipeline ends: with an object that has some of the keys, or
\* with anything else, which fails the whole load.  The loader's entry is popped
\* either way, but it is not the last one when the debugger ended a step.
LoadRan(l) ==
  /\ l.running # {}
  /\ \/ \E r \in l.running : \E has \in SUBSET {KeyString[k.key] : k \in r.group} :
          /\ LetGo(lock, {"popped"})
          /\ LET got == l.got \cup Brought(r, has)
             IN  IF l.groups = {}
                   THEN Deliver(l, got) /\ loads' = loads \ {l}
                   ELSE /\ loads' = (loads \ {l}) \cup {Brings(l, got)}
                        /\ UNCHANGED <<at, value>>
     \/ LetGo(lock, {"popped", "left"}) /\ Refuse(l) /\ loads' = loads \ {l}
  /\ UNCHANGED <<asked, open, returned, result, ran>>

\* Mutant: does not wait for a load that has no one left to wait for it.
ReturnAtOnce ==
  /\ returned = {} /\ \A f \in Fields : at[f] \in Settled
  /\ returned' = {ctx} /\ ctx' = Context(FALSE)
  /\ UNCHANGED <<asked, at, value, lock, open, loads, result, ran, history>>

---------------------------------------------------------------------------
(***************************************************************************)
(* The step.                                                               *)
(***************************************************************************)
\* schema.execute has its response: the context is taken out of the mutex.
Return ==
  /\ returned = {} /\ \A f \in Fields : at[f] \in Settled
  /\ lock = Nobody
  /\ returned' = {ctx} /\ ctx' = Context(FALSE)
  /\ UNCHANGED <<asked, at, value, lock, open, loads, result, ran, history>>

RootFields == {f \in Fields : query[f].parent = Root}

\* The response's `data', null when an error went all the way up, and whether it
\* has `errors'.
Response ==
  [data |-> IF \E f \in Fields : /\ at[f] = "failed"
                                 /\ \A g \in Above(f) \cup {f} : query[g].nonNull
              THEN {} ELSE RootFields,
   errors |-> \E f \in Fields : at[f] = "failed"]

\* Mutant: one of the fields.
UnwrapsAny(data) == target \in data

\* The only field, when the step's result has its name, stands for itself.
Unwraps(data) == data = {target}

Answer ==
  /\ returned # {} /\ result = None
  /\ result' = IF Unwraps(Response.data)
                 THEN [data |-> {target}, errors |-> FALSE, bare |-> TRUE]
                 ELSE [data |-> Response.data, errors |-> Response.errors, bare |-> FALSE]
  /\ UNCHANGED <<asked, at, value, lock, ctx, open, loads, returned, ran, history>>

FieldNext(f) ==
  \/ Start(f) \/ Read(f) \/ Misplaced(f)
  \/ Resolve(f) \/ Resolved(f) \/ ResolverFails(f)
  \/ Before(f) \/ Prepared(f) \/ Ask(f) \/ AskFails(f)
  \/ Loaded(f) \/ After(f) \/ Finished(f)

LoadNext == \E l \in loads : LoadGroup(l) \/ LoadUnknown(l) \/ LoadRan(l)

Next == (\E f \in Fields : FieldNext(f)) \/ Dispatch \/ LoadNext \/ Return \/ Answer

\* Every future that can go on is polled again, and pipelines end.  Finitely
\* many turns at the mutex are taken, so weak fairness is enough for it.
Fairness ==
  /\ \A f \in UNION {DOMAIN q : q \in Queries} : WF_vars(f \in Fields /\ FieldNext(f))
  /\ WF_vars(Dispatch) /\ WF_vars(LoadNext) /\ WF_vars(Return) /\ WF_vars(Answer)

Spec == Init /\ [][Next]_vars /\ Fairness

---------------------------------------------------------------------------
(***************************************************************************)
(* Properties                                                              *)
(***************************************************************************)
\* The context that execute gives back is the request's own, with the work of
\* every resolver and load that ran before, and its profiler has entries of those
\* that were ended in the middle of their pipeline, by an error of theirs or of a
\* field next to them, and of nobody who is still at it or ended well.  Loads may
\* be under way, for fields that were dropped.  Only a nested query that was
\* dropped loses the context; what comes back then is what was done since.
ContextWhole ==
  \A given \in returned :
    /\ Range(given.stack) \subseteq left
    /\ lost = {} => given.own /\ given.log = ran /\ left \subseteq Range(given.stack)

\* A loader field is given what its own pipeline answered for its own key.  The
\* arguments and the module it was asked with are its own if all fields that
\* name that pipeline agree on them: fields that do not may get each other's.
OwnAnswer ==
  \A f \in Fields :
    value[f] \notin {None, Null} =>
      LET peers == {g \in Fields : query[g].steps = "loader" /\ query[g].name = query[f].name}
      IN  /\ value[f].name = query[f].name
          /\ value[f].key = KeyString[query[f].key]
          /\ \E g \in peers : value[f].args = query[g].args /\ value[f].module = query[g].module

\* The state a graphql step leaves has every root field that got a value, and
\* it tells of errors unless it is the bare value of the query's only field: an
\* error below that field, or of it, is then not to be seen.
AnswerIsWhole ==
  result # None =>
    /\ (\E f \in RootFields : at[f] = "done") /\ ~Response.errors => result.data = RootFields
    /\ Response.errors => result.errors \/ (result.bare /\ RootFields = {target})

\* Every query is answered, and no load is left waiting for the mutex: nobody
\* holds it while it waits for somebody who needs it.
Ends == <>(result # None /\ loads = {} /\ open = NoKeys)
=============================================================================
