---------------------------- MODULE AsyncTasks ----------------------------
(***************************************************************************)
(* `@async' steps and `join' within one request: the task registry         *)
(* (src/src/executor/tasks.rs), spawn_async_step and handle_join           *)
(* (src/src/executor/step.rs).                                             *)
(*                                                                         *)
(* The registry is shared by every pipeline the request runs, nested ones  *)
(* and the rounds of a foreach included, so which step comes next is left  *)
(* open.  Of the state the model keeps its `.async' object.                *)
(***************************************************************************)
EXTENDS Integers, Sequences, FiniteSets, Functions

CONSTANTS
  Names,     \* task names
  Lists,     \* target lists of join steps, in source order
  MaxTasks,  \* bound on the tasks a request spawns
  NoTask     \* no task

ASSUME AsyncAssumption ==
  /\ Lists \subseteq Seq(Names)
  /\ MaxTasks \in Nat
  /\ NoTask \notin Nat

VARIABLES
  tasks,      \* the tasks in the order they were spawned: name and state
  registry,   \* the JoinHandle held under each name
  request,    \* "step", "join", "ended" (answered) or "dropped"
  targets,    \* names the running join has still to look at
  awaited,    \* the handle it awaits
  collected,  \* async_results of the running join
  async,      \* the state's `.async': results by name, NoTask if there are none
  due         \* history: the tasks registered under the join's names at its start

tasksVars == <<tasks, registry, request, targets, awaited, collected, async, due>>
join == <<targets, awaited, collected, due>>

Ids == 1..MaxTasks
IsOver(id) == tasks[id].state # "running"
NoResults == [n \in {} |-> NoTask]

TasksInit ==
  /\ tasks = <<>>
  /\ registry = NoResults
  /\ request = "step"
  /\ targets = <<>>
  /\ awaited = NoTask
  /\ collected = NoResults
  /\ async = NoTask
  /\ due = {}

With(f, n, id) == [m \in DOMAIN f \cup {n} |-> IF m = n THEN id ELSE f[m]]
Without(f, n) == Restrict(f, DOMAIN f \ {n})

---------------------------------------------------------------------------

\* register: the handle that was held under the name is dropped, and its
\* task runs on unobserved.
Spawn(n) ==
  /\ request = "step" /\ Len(tasks) < MaxTasks
  /\ tasks' = Append(tasks, [name |-> n, state |-> "running"])
  /\ registry' = With(registry, n, Len(tasks) + 1)
  /\ UNCHANGED <<request, join, async>>

\* The task ends with a value, with an error, or with a panic.
TaskEnds(id) ==
  /\ id \in DOMAIN tasks /\ ~IsOver(id)
  /\ \E s \in {"ok", "error", "panic"} : tasks' = [tasks EXCEPT ![id].state = s]
  /\ UNCHANGED <<registry, request, join, async>>

\* A step that replaces the state by something without an `.async'.
Replace ==
  /\ request = "step" /\ async # NoTask
  /\ async' = NoTask
  /\ UNCHANGED <<tasks, registry, request, join>>

StartJoin(list) ==
  /\ request = "step"
  /\ request' = "join"
  /\ targets' = list
  /\ collected' = NoResults
  /\ due' = {registry[n] : n \in DOMAIN registry \cap Range(list)}
  /\ UNCHANGED <<tasks, registry, awaited, async>>

\* Mutants: a name nobody registered is waited for; a joined handle stays in
\* the registry.
TakeOnlyHeld ==
  /\ request = "join" /\ awaited = NoTask /\ targets # <<>>
  /\ Head(targets) \in DOMAIN registry
  /\ awaited' = registry[Head(targets)]
  /\ registry' = Without(registry, Head(targets))
  /\ UNCHANGED <<tasks, request, targets, collected, async, due>>

TakeKeeping ==
  /\ request = "join" /\ awaited = NoTask /\ targets # <<>>
  /\ IF Head(targets) \in DOMAIN registry
     THEN awaited' = registry[Head(targets)] /\ UNCHANGED targets
     ELSE targets' = Tail(targets) /\ UNCHANGED awaited
  /\ UNCHANGED <<tasks, registry, request, collected, async, due>>

\* take: a name nobody registered is passed over.
Take ==
  /\ request = "join" /\ awaited = NoTask /\ targets # <<>>
  /\ IF Head(targets) \in DOMAIN registry
     THEN /\ awaited' = registry[Head(targets)]
          /\ registry' = Without(registry, Head(targets))
          /\ UNCHANGED targets
     ELSE targets' = Tail(targets) /\ UNCHANGED <<registry, awaited>>
  /\ UNCHANGED <<tasks, request, collected, async, due>>

\* Mutant: an error is left out of the results.
CollectSuccess ==
  /\ request = "join" /\ awaited # NoTask
  /\ IsOver(awaited)
  /\ collected' = IF tasks[awaited].state = "ok"
                  THEN With(collected, Head(targets), awaited) ELSE collected
  /\ targets' = Tail(targets)
  /\ awaited' = NoTask
  /\ UNCHANGED <<tasks, registry, request, async, due>>

\* The value, or an object with the error, under the task's name.
Collect ==
  /\ request = "join" /\ awaited # NoTask
  /\ IsOver(awaited)
  /\ collected' = With(collected, Head(targets), awaited)
  /\ targets' = Tail(targets)
  /\ awaited' = NoTask
  /\ UNCHANGED <<tasks, registry, request, async, due>>

\* `.async' is set, unless the state is no object (and so had none before).
EndJoin ==
  /\ request = "join" /\ awaited = NoTask /\ targets = <<>>
  /\ request' = "step"
  /\ \/ async' = collected
     \/ async = NoTask /\ async' = NoTask
  /\ UNCHANGED <<tasks, registry, join>>

\* The request is answered or its client gone; the registry goes with it.
EndRequest ==
  /\ request \in {"step", "join"}
  /\ request' \in (IF request = "step" THEN {"ended", "dropped"} ELSE {"dropped"})
  /\ registry' = NoResults
  /\ awaited' = NoTask
  /\ UNCHANGED <<tasks, targets, collected, async, due>>

TasksNext ==
  \/ \E n \in Names : Spawn(n)
  \/ \E list \in Lists : StartJoin(list)
  \/ \E id \in Ids : TaskEnds(id)
  \/ Replace \/ Take \/ Collect \/ EndJoin \/ EndRequest

TasksSpec == TasksInit /\ [][TasksNext]_tasksVars

\* The task of the request is scheduled; the tasks it awaits may never end.
FairTasks == TasksSpec /\ WF_tasksVars(Take) /\ WF_tasksVars(Collect) /\ WF_tasksVars(EndJoin)

---------------------------------------------------------------------------
(***************************************************************************)
(* Properties.                                                             *)
(***************************************************************************)

\* A handle is joined once: what the registry holds, what is awaited and what
\* has been collected never share a task.
HandlesAreDisjoint ==
  /\ IsInjective(registry)
  /\ Range(registry) \cap (Range(collected) \cup {awaited}) = {}
  /\ awaited \notin Range(collected)

\* A join that ends has waited for, and carries, every task that was
\* registered under its names when it began: errors and panics included, and
\* each under its own name.
JoinIsComplete ==
  [][EndJoin => /\ due = Range(collected)
                /\ \A n \in DOMAIN collected :
                     tasks[collected[n]].name = n /\ IsOver(collected[n])]_tasksVars

\* A join ends once the tasks it found have, whichever names it lists: a name
\* that is unknown, listed twice or joined before never blocks it.
JoinEnds ==
  request = "join" /\ (\A id \in due : IsOver(id)) ~> request # "join"
===========================================================================
