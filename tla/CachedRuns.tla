---------------------------- MODULE CachedRuns ----------------------------
(***************************************************************************)
(* Pipelines that hold `cache' steps over one CacheStore:                  *)
(* middleware/cache.rs, and the parts of the executor that short-circuit   *)
(* on a hit, run the pending saves and pass states and status codes        *)
(* between a pipeline and those it runs (executor/mod.rs, step.rs).        *)
(*                                                                         *)
(* A run is a stack of frames, one per execute_pipeline_internal: the      *)
(* pipeline of a route, of an @async step or of a resolver, and below it   *)
(* the pipelines its steps run.  The steps a pipeline is made of are left  *)
(* open: at a step boundary any step may come next.  Of the state a        *)
(* pipeline carries the model keeps whether it is a typed error envelope;  *)
(* of the status code, its class.                                          *)
(***************************************************************************)
EXTENDS Integers, Sequences, FiniteSets, Functions

CONSTANTS
  Runs,          \* pipelines run on their own
  Keys, Ttls, Sizes, MaxEntries, MaxEntrySize, MaxTotalSize, Grace, Takeover,
  MaxTime, None, \* the store, see CacheStore
  Faults,        \* what may go wrong: subset of {"error", "5xx", "abort"}
  MaxDepth,      \* bound on the frames of a run
  MaxFrames,     \* bound on the frames of all runs
  MaxSaves       \* bound on the pending saves of a run

ASSUME CachedRunsAssumption ==
  /\ Sizes \subseteq Nat
  /\ Ttls \subseteq Nat
  /\ MaxEntries \in Nat \ {0}
  /\ MaxEntrySize \in Nat
  /\ MaxTotalSize \in Nat
  /\ Grace \in Nat
  /\ Takeover \in Nat
  /\ MaxTime \in Nat
  /\ None \notin Int

VARIABLES
  entries, rank, current_size, now,  \* the store
  frames,        \* frames[r]: the stack of pipelines run r executes
  abandoned,     \* history: keys whose elected refresher ended without
                 \* writing the entry or clearing the slot
  inBranch       \* history: keys of the cache steps passed inside a result
                 \* branch that answers 5xx

Status == {"none", "ok", "5xx"}
Codes == {"ok"} \cup ({"5xx"} \cap Faults)
Errors == {FALSE} \cup {e \in {TRUE} : "error" \in Faults}

\* CachedResponse: what a hit replays.  `page' is an observation: the save
\* ran inside a result branch that answers 5xx.
Body == [err: BOOLEAN, status: Status, page: BOOLEAN]

Store == INSTANCE CacheStore WITH Bodies <- Body

storeVars == <<entries, rank, current_size, now>>
vars == <<entries, rank, current_size, now, frames, abandoned, inBranch>>

\* PendingCacheSave
Save == [key: Keys, ttl: Ttls, refreshing: BOOLEAN]

\* What the pipeline above runs this one for; aside: the condition of an `if'
\* or the body of a `foreach', which give no state to go on with.
Roles == {"main", "call", "branch", "aside", "handler"}

\* `handled' is handled_error_type, when it is the type of the state's error;
\* `exit' the status of the result branch, when the frame is one.
Frame == [role: Roles, exit: Status, pending: Seq(Save), err: BOOLEAN, handled: BOOLEAN,
          status: Status, phase: {"run", "save"}]

NewFrame(role, err) ==
  [role |-> role, exit |-> "none", pending |-> <<>>, err |-> err, handled |-> FALSE,
   status |-> "none", phase |-> "run"]

Depth(r) == Len(frames[r])
Top(r) == frames[r][Depth(r)]
SetTop(r, f) == frames' = [frames EXCEPT ![r][Depth(r)] = f]
Room == Cardinality(UNION {{r} \X (1..Depth(r)) : r \in Runs}) < MaxFrames
Push(r, f) ==
  /\ Depth(r) < MaxDepth /\ Room
  /\ frames' = [frames EXCEPT ![r] = Append(@, f)]
Idle(r) == frames[r] = <<>>

\* The run is at a step boundary of its innermost pipeline; a typed error
\* envelope that is not being handled skips every step up to `result'.
AtStep(r) == ~Idle(r) /\ Top(r).phase = "run"
CanStep(r) == AtStep(r) /\ (Top(r).err => Top(r).handled)

\* The state is now an error or none; same: of the type that was handled.
Facing(f, err, same) == [f EXCEPT !.err = err, !.handled = @ /\ err /\ same]

\* The loop over the steps is left.
Ended(f) == [f EXCEPT !.phase = "save", !.handled = FALSE]

WithStatus(f, st) == [f EXCEPT !.status = IF st = "none" THEN @ ELSE st]

\* The keys that frames d and above of r have been elected to refresh.
Refreshing(r, d) ==
  {s.key : s \in {s \in UNION {Range(frames[r][c].pending) : c \in d..Depth(r)} : s.refreshing}}
Refreshes(r, k) == k \in Refreshing(r, 1)

InErrorBranch(r) == \E d \in 1..Depth(r) : frames[r][d].exit = "5xx"

Init ==
  /\ Store!Init
  /\ frames = [r \in Runs |-> <<>>]
  /\ abandoned = {}
  /\ inBranch = {}

SlotHeld(k) == k \in DOMAIN entries /\ entries[k].refresh_started # None
StillHeld(K) == {k \in K : SlotHeld(k)'}
Untouched == UNCHANGED <<storeVars, abandoned, inBranch>>

---------------------------------------------------------------------------
(***************************************************************************)
(* Steps that do not touch the store.                                      *)
(***************************************************************************)
\* The input may be an error envelope: an @async pipeline gets a copy of the
\* state of the step that starts it.
Start(r) ==
  /\ Idle(r) /\ Room
  /\ \E e \in Errors : frames' = [frames EXCEPT ![r] = <<NewFrame("main", e)>>]
  /\ Untouched

\* A step gives a new state, or its failure becomes one.
Work(r) ==
  /\ CanStep(r)
  /\ \E e \in Errors, same \in BOOLEAN : SetTop(r, Facing(Top(r), e, same))
  /\ Untouched

\* A step runs a pipeline: `pipeline' on the state and its argument, `if' its
\* condition on a copy, `if' and `dispatch' a branch on the state, `foreach'
\* its body on an item.  Nothing is handled in it.
Enter(r) ==
  /\ CanStep(r)
  /\ \/ \E role \in {"call", "aside"}, e \in Errors : Push(r, NewFrame(role, e))
     \/ Push(r, NewFrame("branch", Top(r).err))
  /\ Untouched

\* `result' runs the branch it selects on the state, handling its error.
Result(r) ==
  /\ AtStep(r)
  /\ \E st \in Codes :
       Push(r, [NewFrame("handler", Top(r).err) EXCEPT !.handled = Top(r).err, !.exit = st])
  /\ Untouched

\* The steps are over, or `result' has no branch for the state.
Return(r) ==
  /\ AtStep(r)
  /\ SetTop(r, Ended(Top(r)))
  /\ Untouched

\* What the pipeline at f may make of the answer of g, which it ran: `pipeline'
\* merges it, errors of f's own state outliving an object without errors; a
\* condition's and an item's leave state and status alone; the branch of a
\* `result' ends f, with the branch's status for answer.
Resumed(f, g) ==
  CASE g.role = "call" ->
         {Facing(WithStatus(f, g.status), e, same) : e \in {g.err, g.err \/ f.err}, same \in BOOLEAN}
    [] g.role = "branch" -> {Facing(WithStatus(f, g.status), g.err, same) : same \in BOOLEAN}
    [] g.role = "handler" -> {Ended([f EXCEPT !.err = g.err, !.status = g.exit])}
    [] OTHER -> {f}

\* The innermost pipeline has run its saves, and with the outermost one the
\* run is over.
Leave(r) ==
  /\ ~Idle(r) /\ Top(r).phase = "save" /\ Top(r).pending = <<>>
  /\ LET d == Depth(r) - 1
     IN  \/ d = 0 /\ frames' = [frames EXCEPT ![r] = <<>>]
         \/ /\ d > 0
            /\ \E f \in Resumed(frames[r][d], Top(r)) :
                 frames' = [frames EXCEPT ![r] = Append(SubSeq(@, 1, d - 1), f)]
  /\ Untouched

---------------------------------------------------------------------------
(***************************************************************************)
(* The cache step.                                                         *)
(***************************************************************************)
PassedWith(f, k, ttl, elected) ==
  [f EXCEPT !.pending = Append(@, [key |-> k, ttl |-> ttl, refreshing |-> elected])]

\* check_cache_stop: the pipeline returns the cached response at once, and
\* the saves of its earlier cache steps run on that response.
ShortCircuited(f, body) == Ended([WithStatus(f, body.status) EXCEPT !.err = body.err])

CacheStep(r, k, ttl) ==
  /\ CanStep(r)
  /\ Cardinality(UNION {{d} \X DOMAIN frames[r][d].pending : d \in 1..Depth(r)}) < MaxSaves
  /\ Store!Lookup(k)
  /\ LET res == Store!LookupResult(k)
     IN \/ /\ res \in {"Fresh", "Stale"}
           /\ SetTop(r, ShortCircuited(Top(r), entries[k].body))
           /\ abandoned' = StillHeld(abandoned)
           /\ UNCHANGED inBranch
        \/ /\ res \notin {"Fresh", "Stale"}
           /\ SetTop(r, PassedWith(Top(r), k, ttl, res = "Refresh"))
           /\ abandoned' = IF res = "Refresh" THEN StillHeld(abandoned) \ {k}
                           ELSE StillHeld(abandoned)
           /\ inBranch' = IF InErrorBranch(r) THEN inBranch \cup {k} ELSE inBranch

\* spawn_async_step: the lookup of an @async cache step is a task's, whose
\* hit or pending save is dropped with the task's own pipeline context.
AsyncCacheStep(k) ==
  /\ Store!Lookup(k)
  /\ abandoned' = IF Store!LookupResult(k) = "Refresh" THEN StillHeld(abandoned \cup {k})
                  ELSE StillHeld(abandoned)
  /\ UNCHANGED <<frames, inBranch>>

---------------------------------------------------------------------------
(***************************************************************************)
(* run_pending_cache_saves: one save (one lock of the store) at a time.    *)
(***************************************************************************)
\* Mutants: a 5xx answer is cached; a failed refresher keeps the slot.
UncacheableByErrorOnly(f) == f.err

ReleasedLate(r, s) ==
  /\ UNCHANGED storeVars
  /\ abandoned' = StillHeld(abandoned)

Uncacheable(f) == f.err \/ f.status = "5xx"

Released(r, s) ==
  /\ IF s.refreshing THEN Store!ClearRefresh(s.key) ELSE UNCHANGED storeVars
  /\ abandoned' = StillHeld(abandoned)

Response(r) == [err |-> Top(r).err, status |-> Top(r).status, page |-> InErrorBranch(r)]

Saved(r, s, size) ==
  /\ Store!PutResponse(s.key, Response(r), size, s.ttl)
  /\ abandoned' = IF s.refreshing /\ Store!Rejected(size, s.ttl)
                  THEN StillHeld(abandoned \cup {s.key})
                  ELSE StillHeld(abandoned)

SaveNext(r) ==
  /\ ~Idle(r) /\ Top(r).phase = "save" /\ Top(r).pending # <<>>
  /\ LET s == Head(Top(r).pending)
     IN IF Uncacheable(Top(r)) THEN Released(r, s)
        ELSE \E size \in Sizes : Saved(r, s, size)
  /\ SetTop(r, [Top(r) EXCEPT !.pending = Tail(@)])
  /\ UNCHANGED inBranch

---------------------------------------------------------------------------
(***************************************************************************)
(* Failures that end pipelines with their saves undone.                    *)
(***************************************************************************)
Dropped(r, d) ==
  /\ UNCHANGED <<storeVars, inBranch>>
  /\ abandoned' = StillHeld(abandoned \cup Refreshing(r, d))

\* An error that is not a middleware failure (`?' through every pipeline), or
\* the run's future is dropped: the client is gone, or the feature flags'
\* pipeline has used up its 50 ms.
Abort(r) ==
  /\ AtStep(r) /\ "abort" \in Faults
  /\ frames' = [frames EXCEPT ![r] = <<>>]
  /\ Dropped(r, 1)

\* The path of a `foreach' is no array: no step catches that but the innermost
\* `pipeline' step, whose own pipeline goes on with an error for state.
Unwind(r) ==
  /\ CanStep(r) /\ "error" \in Faults
  /\ LET calls == {d \in 2..Depth(r) : frames[r][d].role = "call"}
     IN  \/ /\ calls = {}
            /\ frames' = [frames EXCEPT ![r] = <<>>]
            /\ Dropped(r, 1)
         \/ \E d \in calls, same \in BOOLEAN :
              /\ \A c \in calls : c <= d
              /\ frames' = [frames EXCEPT
                   ![r] = Append(SubSeq(@, 1, d - 2), Facing(@[d - 1], TRUE, same))]
              /\ Dropped(r, d)

Tick ==
  /\ Store!Tick
  /\ UNCHANGED <<frames, abandoned, inBranch>>

Next ==
  \/ \E r \in Runs :
       \/ Start(r) \/ Work(r) \/ Enter(r) \/ Result(r) \/ Return(r) \/ Leave(r)
       \/ \E k \in Keys, t \in Ttls : CacheStep(r, k, t)
       \/ SaveNext(r) \/ Abort(r) \/ Unwind(r)
  \/ \E k \in Keys : AsyncCacheStep(k)
  \/ Tick

Spec == Init /\ [][Next]_vars

---------------------------------------------------------------------------
(***************************************************************************)
(* Properties.                                                             *)
(***************************************************************************)

\* A refresh slot is never held for nobody: some run in flight will still
\* write the entry or release the slot (run_pending_cache_saves), unless its
\* refresher was dropped with its saves undone, was an @async step
\* (spawn_async_step), or had its response refused by put_response.
SlotHasOwner ==
  \A k \in Keys :
    SlotHeld(k) => k \in abandoned \/ \E r \in Runs : Refreshes(r, k)

\* Typed error envelopes and 5xx answers are not pinned in the cache, from
\* whichever nested pipeline or earlier cache step they come
\* (run_pending_cache_saves); save what a cache step inside a result branch
\* that answers 5xx keeps of it, whose saves run before the branch's status is
\* set (handle_result_step).
FailuresNeverCached ==
  \A k \in DOMAIN entries :
    LET body == entries[k].body
    IN  ~body.err /\ body.status # "5xx" /\ (body.page => k \in inBranch)
===========================================================================
