------------------------- MODULE PipelineRunProofs -------------------------
(***************************************************************************)
(* A run of a pipeline, for all pipelines: a typed error stands until a    *)
(* result routes it, and the run of the route's own pipeline is a Railway, *)
(* however deep the pipelines are nested.                                  *)
(*                                                                         *)
(* The invariant is about the stack of frames.  It is stated of a stack    *)
(* and the pipeline at its bottom, so that the lemmas on the ways a step   *)
(* changes the stack speak of no step in particular.                       *)
(***************************************************************************)
EXTENDS PipelineRun, SequenceTheorems, TLAPS

Contents == {"json", "html"}

\* What a frame waits for: a frame above it, or its own next move.
Below == {"call", "cond", "branch", "item", "handler"}
Idle == {"no", "then", "else", "items"}

Frames ==
  [pipe : DOMAIN Pipelines, at : Nat \ {0}, state : Values, ct : Contents,
   status : Statuses \cup {"unset"}, handled : Types \cup {"none"}, waits : Below \cup Idle,
   left : Nat, last : BOOLEAN, exit : Statuses \cup {"open", "hit"}]

\* The kinds of step a frame can be in while it waits.
OpsFor(w) ==
  CASE w = "call" -> {"call"}
    [] w \in {"cond", "then", "else"} -> {"if"}
    [] w = "branch" -> {"if", "dispatch"}
    [] w \in {"item", "items"} -> {"foreach"}
    [] w = "handler" -> {"result"}

OnStep(f) ==
  /\ f.waits # "no" => ~Done(f) /\ Step(f).op \in OpsFor(f.waits)
  /\ f.waits = "handler" => f.exit \in Statuses

\* A frame is in a step other than a result only if no error holds it.
Unheld(f) == f.waits \notin {"no", "handler"} => ErrorType(f.state) = "none" \/ Handling(f)

Sound(f) == f \in Frames /\ OnStep(f) /\ Unheld(f)

\* What the exit of the route's own pipeline m says.
ExitTold(m, f) ==
  /\ f.exit = "hit" => Done(f) /\ f.waits = "no"
  /\ f.exit \in Statuses => \/ f.waits = "handler"
                            \/ Done(f) /\ f.waits = "no" /\ f.status = f.exit
  /\ f.exit = "open" => \/ \A j \in 1..Len(Steps(f)) : j < f.at => Steps(f)[j].op # "result"
                        \/ Done(f) /\ f.waits = "no" /\ StatusFor(m, ErrorType(f.state)) = "unset"

MainFrame(m, f) == f.pipe = m /\ f.handled = "none" /\ ExitTold(m, f)

WellStacked(m, st) ==
  /\ st \in Seq(Frames)
  /\ \A i \in 1..Len(st) :
       /\ Sound(st[i])
       /\ st[i].waits \in IF i < Len(st) THEN Below ELSE Idle
  /\ st # <<>> => MainFrame(m, st[1])

Answers == [kind : {"answer"}, state : Values, ct : Contents, status : Statuses \cup {"unset"}]

IInv ==
  /\ main \in Mains
  /\ WellStacked(main, stack)
  /\ IF stack = <<>> THEN outcome \in {Failed} \cup Answers ELSE outcome = Pending

---------------------------------------------------------------------------
(***************************************************************************)
(* The operators the steps are built from.                                 *)
(***************************************************************************)
\* A step of a pipeline is one of the six kinds, and what it names is there.
LEMMA StepsWellFormed ==
  ASSUME NEW f \in Frames, ~Done(f)
  PROVE  /\ f.at \in DOMAIN Steps(f) /\ f.at \in 1..Len(Steps(f))
         /\ Step(f).op \in {"mw", "call", "if", "dispatch", "foreach", "result"}
         /\ WellFormed(Step(f))
BY PipelineAssumption DEF Frames, Done, Steps, Step

\* The number of steps is a number, and a frame's place in them too.
LEMMA Lengths ==
  ASSUME NEW f \in Frames
  PROVE  Len(Steps(f)) \in Nat /\ f.at \in Nat /\ f.at > 0
BY PipelineAssumption DEF Frames, Steps

\* What merging, wrapping, renaming and a failure give is a value.
LEMMA ValuesClosed ==
  ASSUME NEW v \in Values, NEW w \in Values, NEW r \in Types \cup {"none"}
  PROVE  /\ Merged(v, w) \in Values
         /\ Wrapped(v, w) \in Values
         /\ Renamed(w, r) \in Values
         /\ \A b : Applied(b, v, w) \in Values
         /\ \A t \in Types : ErrorValue(t) \in Values
         /\ ErrorType(v) \in Types \cup {"none"}
<1>1. Merged(v, w) \in Values
  BY DEF Merged, Values, Errs
<1>2. Wrapped(v, w) \in Values
  BY DEF Wrapped, Values, Errs
<1>3. Renamed(w, r) \in Values
  BY DEF Renamed, Values, Errs
<1>4. \A b : Applied(b, v, w) \in Values
  BY <1>1, <1>2 DEF Applied
<1>5. \A t \in Types : ErrorValue(t) \in Values
  BY DEF ErrorValue, Values, Errs
<1>6. ErrorType(v) \in Types \cup {"none"}
  BY DEF ErrorType
<1>. QED
  BY <1>1, <1>2, <1>3, <1>4, <1>5, <1>6

\* What the updates of a frame leave alone.
LEMMA NotedKeeps ==
  ASSUME NEW f \in Frames
  PROVE  /\ Noted(f) \in Frames
         /\ Noted(f) = [f EXCEPT !.handled = Noted(f).handled]
         /\ f.handled = "none" => Noted(f).handled = "none"
         /\ Handling(f) => Noted(f) = f
<1>1. [f EXCEPT !.handled = "none"] \in Frames
  BY DEF Frames
<1>2. f = [f EXCEPT !.handled = f.handled]
  BY DEF Frames
<1>3. [f EXCEPT !.handled = "none"].handled = "none"
  BY DEF Frames
<1>. QED
  BY <1>1, <1>2, <1>3 DEF Noted

\* g differs from f in its content type and status at most.
SamePlace(f, g) ==
  /\ g.pipe = f.pipe /\ g.at = f.at /\ g.state = f.state /\ g.handled = f.handled
  /\ g.waits = f.waits /\ g.exit = f.exit /\ g.last = f.last

\* A step's content type changes nothing else of a frame.
LEMMA TypeKeeps ==
  ASSUME NEW f \in Frames, NEW ct \in Contents, NEW last
  PROVE  /\ WithType(f, ct, last, TRUE) \in Frames
         /\ SamePlace(f, WithType(f, ct, last, TRUE))
         /\ WithType(f, ct, last, TRUE).status = f.status
BY DEF WithType, Frames, SamePlace

\* Nor does a status.
LEMMA StatusKeeps ==
  ASSUME NEW f \in Frames, NEW s \in Statuses \cup {"unset"}
  PROVE  WithStatus(f, s) \in Frames /\ SamePlace(f, WithStatus(f, s))
BY DEF WithStatus, Frames, SamePlace

---------------------------------------------------------------------------
(***************************************************************************)
(* What a step may do to one frame.                                        *)
(***************************************************************************)
ErrorKept(f, g) ==
  ErrorType(f.state) # "none" /\ ~Handling(f) /\ f.waits # "handler" => g.state = f.state

\* The run of the route's own pipeline, as its frame tells it.
Told(f) ==
  CASE f.exit = "open" -> At("on", ErrorType(f.state))
    [] f.exit = "hit" -> At("replaying", "unset")
    [] f.exit \in Statuses -> At("routed", f.exit)

RailwayMove(m, f, g) ==
  \/ Told(g) = Told(f)
  \/ /\ f.exit = "open" /\ ErrorType(f.state) = "none"
     /\ \/ g.exit = "open" /\ ErrorType(g.state) \in Types
        \/ g.exit = "hit"
  \/ /\ f.exit = "open"
     /\ g.exit \in Statuses /\ g.exit = StatusFor(m, ErrorType(f.state))

Moves(f, g) ==
  /\ Sound(g) /\ ErrorKept(f, g)
  /\ \A m : MainFrame(m, f) => MainFrame(m, g) /\ RailwayMove(m, f, g)

\* Before the route's own pipeline has left its steps for good, no result has
\* been passed.
LEMMA ExitOpen ==
  ASSUME NEW m, NEW f, Sound(f), MainFrame(m, f), ~Done(f), f.waits # "handler"
  PROVE  f.exit = "open" /\ \A j \in 1..Len(Steps(f)) : j < f.at => Steps(f)[j].op # "result"
BY DEF Sound, MainFrame, ExitTold, Frames

\* The frame of a step other than a result stays there or takes the next.
LEMMA StepMoves ==
  ASSUME NEW f, Sound(f), ~Done(f), f.waits # "handler", Step(f).op # "result",
         NEW g, Sound(g), ErrorKept(f, g), g.waits # "handler",
         g.pipe = f.pipe, g.exit = f.exit, g.at \in {f.at, f.at + 1},
         f.handled = "none" => g.handled = "none"
  PROVE  Moves(f, g)
<1>. SUFFICES ASSUME NEW m, MainFrame(m, f)
              PROVE  MainFrame(m, g) /\ RailwayMove(m, f, g)
  BY DEF Moves
<1>1. f.exit = "open" /\ \A j \in 1..Len(Steps(f)) : j < f.at => Steps(f)[j].op # "result"
  BY ExitOpen
<1>2. Steps(g) = Steps(f)
  BY DEF Steps
<1>3. \A j \in 1..Len(Steps(g)) : j < g.at => Steps(g)[j].op # "result"
  BY <1>1, <1>2, Lengths DEF Sound, Step
<1>4. MainFrame(m, g)
  BY <1>1, <1>3, PipelineAssumption DEF MainFrame, ExitTold
<1>5. RailwayMove(m, f, g)
  <2>1. CASE ErrorType(f.state) # "none"
    <3>1. ~Handling(f)
      BY <2>1 DEF MainFrame, Handling
    <3>2. g.state = f.state
      BY <2>1, <3>1 DEF ErrorKept
    <3>. QED
      BY <3>2, <1>1 DEF RailwayMove, Told
  <2>2. CASE ErrorType(f.state) = "none" /\ ErrorType(g.state) = "none"
    BY <2>2, <1>1 DEF RailwayMove, Told
  <2>3. CASE ErrorType(f.state) = "none" /\ ErrorType(g.state) # "none"
    BY <2>3, <1>1 DEF RailwayMove, ErrorType
  <2>. QED
    BY <2>1, <2>2, <2>3
<1>. QED
  BY <1>4, <1>5

\* At most one branch is selected, and it is one of the result's.
LEMMA OneBranch ==
  ASSUME NEW branches \in Seq(Branches), NEW t
  PROVE  /\ Selected(branches, t) \subseteq Branches
         /\ \A b, c \in Selected(branches, t) : b = c
<1>. DEFINE For(k) == {branches[i] : i \in {i \in DOMAIN branches :
                        branches[i].for = k /\ \A j \in 1..i - 1 : branches[j].for # k}}
<1>1. \A k : For(k) \subseteq Branches
  OBVIOUS
<1>2. \A k : \A b, c \in For(k) : b = c
  <2>. SUFFICES ASSUME NEW k, NEW b \in For(k), NEW c \in For(k)
                PROVE  b = c
    OBVIOUS
  <2>1. PICK i \in DOMAIN branches :
          b = branches[i] /\ branches[i].for = k /\ \A j \in 1..i - 1 : branches[j].for # k
    OBVIOUS
  <2>2. PICK l \in DOMAIN branches :
          c = branches[l] /\ branches[l].for = k /\ \A j \in 1..l - 1 : branches[j].for # k
    OBVIOUS
  <2>3. i \in Nat /\ l \in Nat /\ i > 0 /\ l > 0
    BY LenProperties
  <2>4. ~(i < l) /\ ~(l < i)
    BY <2>1, <2>2, <2>3
  <2>. QED
    BY <2>1, <2>2, <2>3, <2>4
<1>3. Selected(branches, t) \in {For(IF t = "none" THEN "ok" ELSE t), For("default")}
  BY DEF Selected, First
<1>. HIDE DEF For
<1>. QED
  BY <1>1, <1>2, <1>3

\* At the first result of a pipeline, the status promised for an error is the
\* status of the branch selected for it.
LEMMA StatusAtResult ==
  ASSUME NEW f \in Frames, ~Done(f), Step(f).op = "result",
         \A j \in 1..Len(Steps(f)) : j < f.at => Steps(f)[j].op # "result",
         NEW t
  PROVE  LET bs == Selected(Step(f).branches, t)
         IN  IF bs = {} THEN StatusFor(f.pipe, t) = "unset"
             ELSE \A b \in bs : StatusFor(f.pipe, t) = b.status
<1>. DEFINE steps == Pipelines[f.pipe]
            results == {steps[i] : i \in {i \in DOMAIN steps :
                         steps[i].op = "result" /\ \A j \in 1..i - 1 : steps[j].op # "result"}}
            bs == Selected(Step(f).branches, t)
<1>1. f.at \in DOMAIN steps /\ steps[f.at] = Step(f) /\ DOMAIN steps = 1..Len(steps)
        /\ Len(steps) \in Nat /\ steps = Steps(f)
  BY StepsWellFormed, PipelineAssumption DEF Steps, Step, Frames
<1>2. \A i \in DOMAIN steps :
        (steps[i].op = "result" /\ \A j \in 1..i - 1 : steps[j].op # "result") <=> i = f.at
  <2>. SUFFICES ASSUME NEW i \in 1..Len(steps)
                PROVE  (steps[i].op = "result" /\ \A j \in 1..i - 1 : steps[j].op # "result")
                          <=> i = f.at
    BY <1>1
  <2>1. f.at \in 1..Len(steps) /\ \A j \in 1..Len(steps) : j < f.at => steps[j].op # "result"
    BY <1>1
  <2>2. CASE i = f.at
    BY <2>1, <2>2, <1>1
  <2>3. CASE i < f.at
    BY <2>1, <2>3, <1>1
  <2>4. CASE i > f.at
    <3>1. f.at \in 1..i - 1
      BY <2>1, <2>4, <1>1
    <3>. QED
      BY <3>1, <2>4, <1>1
  <2>. QED
    BY <2>1, <2>2, <2>3, <2>4, <1>1
<1>3. results = {Step(f)}
  BY <1>1, <1>2
<1>4. UNION {Selected(s.branches, t) : s \in results} = bs
  BY <1>3
<1>5. StatusFor(f.pipe, t) = IF bs = {} THEN "unset" ELSE (CHOOSE b \in bs : TRUE).status
  <2>1. StatusFor(f.pipe, t) =
          LET chosen == UNION {Selected(s.branches, t) : s \in results}
          IN  IF chosen = {} THEN "unset" ELSE (CHOOSE b \in chosen : TRUE).status
    BY Zenon DEF StatusFor, First
  <2>. HIDE DEF results, bs
  <2>. QED
    BY <2>1, <1>4, Zenon
<1>6. \A b, c \in bs : b = c
  BY OneBranch, StepsWellFormed DEF WellFormed
<1>. QED
  BY <1>5, <1>6

\* A frame whose run ends with a stored answer: only one that no error holds.
LEMMA HitMoves ==
  ASSUME NEW f, Sound(f), ~Done(f), f.waits = "no", ErrorType(f.state) = "none" \/ Handling(f),
         NEW g, Sound(g), g.waits = "no", Done(g), g.exit = "hit",
         g.pipe = f.pipe, f.handled = "none" => g.handled = "none"
  PROVE  Moves(f, g)
<1>. SUFFICES ASSUME NEW m, MainFrame(m, f)
              PROVE  MainFrame(m, g) /\ RailwayMove(m, f, g)
  BY DEF Moves, ErrorKept
<1>1. f.exit = "open" /\ ErrorType(f.state) = "none"
  BY ExitOpen DEF MainFrame, Handling
<1>. QED
  BY <1>1, PipelineAssumption DEF MainFrame, ExitTold, RailwayMove

\* A result with no branch for the track the run is on ends its pipeline, which
\* has no status but the one its steps left.
LEMMA UnroutedMoves ==
  ASSUME NEW f, Sound(f), ~Done(f), f.waits = "no", Step(f).op = "result", Branch(f) = {},
         NEW g, Sound(g), g.waits = "no", Done(g), g.exit = f.exit,
         g.pipe = f.pipe, g.state = f.state, f.handled = "none" => g.handled = "none"
  PROVE  Moves(f, g)
<1>. SUFFICES ASSUME NEW m, MainFrame(m, f)
              PROVE  MainFrame(m, g) /\ RailwayMove(m, f, g)
  BY DEF Moves, ErrorKept
<1>1. f.exit = "open" /\ \A j \in 1..Len(Steps(f)) : j < f.at => Steps(f)[j].op # "result"
  BY ExitOpen
<1>2. StatusFor(m, ErrorType(f.state)) = "unset"
  BY <1>1, StatusAtResult DEF Sound, Branch, MainFrame
<1>3. Told(g) = Told(f)
  BY <1>1 DEF Told
<1>. QED
  BY <1>1, <1>2, <1>3, PipelineAssumption DEF MainFrame, ExitTold, RailwayMove

\* A result with a branch routes the error, to that branch's status.
LEMMA RoutedMoves ==
  ASSUME NEW f, Sound(f), ~Done(f), f.waits = "no", Step(f).op = "result",
         NEW b \in Branch(f),
         NEW g, Sound(g), g.waits = "handler", g.exit = b.status,
         g.pipe = f.pipe, g.state = f.state, f.handled = "none" => g.handled = "none"
  PROVE  Moves(f, g)
<1>. SUFFICES ASSUME NEW m, MainFrame(m, f)
              PROVE  MainFrame(m, g) /\ RailwayMove(m, f, g)
  BY DEF Moves, ErrorKept
<1>1. f.exit = "open" /\ \A j \in 1..Len(Steps(f)) : j < f.at => Steps(f)[j].op # "result"
  BY ExitOpen
<1>2. b.status \in Statuses
  <2>1. Step(f).branches \in Seq(Branches)
    BY StepsWellFormed DEF WellFormed, Sound
  <2>2. b \in Branches
    BY <2>1, OneBranch DEF Branch
  <2>. QED
    BY <2>2 DEF Branches
<1>3. StatusFor(m, ErrorType(f.state)) = b.status
  BY <1>1, StatusAtResult DEF Sound, Branch, MainFrame
<1>. QED
  BY <1>1, <1>2, <1>3, PipelineAssumption DEF MainFrame, ExitTold, RailwayMove

\* The end of the branch: the pipeline ends with the branch's status.
LEMMA HandledMoves ==
  ASSUME NEW f, Sound(f), f.waits = "handler",
         NEW g, Sound(g), g.waits = "no", Done(g), g.exit = f.exit, g.status = f.exit,
         g.pipe = f.pipe, f.handled = "none" => g.handled = "none"
  PROVE  Moves(f, g)
<1>. SUFFICES ASSUME NEW m, MainFrame(m, f)
              PROVE  MainFrame(m, g) /\ RailwayMove(m, f, g)
  BY DEF Moves, ErrorKept
<1>1. f.exit \in Statuses
  BY DEF Sound, OnStep
<1>2. Told(g) = Told(f)
  BY <1>1, PipelineAssumption DEF Told
<1>. QED
  BY <1>1, <1>2, PipelineAssumption DEF MainFrame, ExitTold, RailwayMove

---------------------------------------------------------------------------
(***************************************************************************)
(* What a step may do to the stack: one frame moves, the frames above it   *)
(* are gone, or one new frame is on top of it, and those below are left.   *)
(***************************************************************************)
Restacked(st, r) ==
  /\ r \in Seq(Frames)
  /\ \E n \in 1..Len(st) :
       /\ Len(r) = n \/ (Len(r) = n + 1 /\ n = Len(st))
       /\ \A i \in 1..n - 1 : r[i] = st[i]
       /\ Moves(st[n], r[n])
       /\ r[n].waits \in IF n < Len(r) THEN Below ELSE Idle
       /\ n < Len(r) => Sound(r[n + 1]) /\ r[n + 1].waits \in Idle

\* A stack so changed is well stacked as before.
LEMMA RestackedWell ==
  ASSUME NEW m, NEW st, WellStacked(m, st), NEW r, Restacked(st, r)
  PROVE  /\ WellStacked(m, r) /\ st # <<>> /\ r # <<>>
         /\ RailwayMove(m, st[1], r[1])
         /\ \A i \in DOMAIN st \cap DOMAIN r : ErrorKept(st[i], r[i])
<1>. DEFINE l == Len(st)
            k == Len(r)
<1>1. PICK n \in 1..l :
        /\ k = n \/ (k = n + 1 /\ n = l)
        /\ \A i \in 1..n - 1 : r[i] = st[i]
        /\ Moves(st[n], r[n])
        /\ r[n].waits \in IF n < k THEN Below ELSE Idle
        /\ n < k => Sound(r[n + 1]) /\ r[n + 1].waits \in Idle
  BY DEF Restacked
<1>2. /\ st \in Seq(Frames) /\ l \in Nat /\ DOMAIN st = 1..l
      /\ r \in Seq(Frames) /\ k \in Nat /\ DOMAIN r = 1..k
  BY LenProperties DEF WellStacked, Restacked
<1>3. \A i \in 1..l : Sound(st[i]) /\ st[i].waits \in IF i < l THEN Below ELSE Idle
  BY DEF WellStacked
<1>4. Len(<<>>) = 0
  OBVIOUS
<1>5. (l # 0 => st # <<>>) /\ (k # 0 => r # <<>>)
  BY <1>4
<1>. HIDE DEF l, k
<1>6. n \in Nat /\ n > 0 /\ n <= l /\ n <= k /\ k <= n + 1
  BY <1>1, <1>2
<1>7. st # <<>> /\ r # <<>>
  BY <1>5, <1>6, <1>2
<1>8. MainFrame(m, st[1])
  BY <1>7 DEF WellStacked
<1>9. MainFrame(m, r[1]) /\ RailwayMove(m, st[1], r[1])
  <2>1. CASE n = 1
    BY <2>1, <1>1, <1>8 DEF Moves
  <2>2. CASE n > 1
    <3>1. r[1] = st[1]
      BY <2>2, <1>1, <1>6
    <3>. QED
      BY <3>1, <1>8 DEF RailwayMove
  <2>. QED
    BY <2>1, <2>2, <1>6
<1>10. ASSUME NEW i \in 1..k
       PROVE  Sound(r[i]) /\ r[i].waits \in IF i < k THEN Below ELSE Idle
  <2>1. CASE i < n
    <3>1. i < k /\ i < l /\ i \in 1..l /\ r[i] = st[i]
      BY <2>1, <1>1, <1>2, <1>6
    <3>. QED
      BY <3>1, <1>3
  <2>2. CASE i = n
    BY <2>2, <1>1 DEF Moves
  <2>3. CASE i > n
    <3>1. n < k /\ i = n + 1 /\ ~(i < k)
      BY <2>3, <1>2, <1>6
    <3>. QED
      BY <3>1, <1>1
  <2>. QED
    BY <2>1, <2>2, <2>3, <1>2, <1>6
<1>11. ASSUME NEW i \in DOMAIN st \cap DOMAIN r
       PROVE  ErrorKept(st[i], r[i])
  <2>1. CASE i < n
    <3>1. r[i] = st[i]
      BY <2>1, <1>1, <1>2, <1>6
    <3>. QED
      BY <3>1 DEF ErrorKept
  <2>2. CASE i = n
    BY <2>2, <1>1 DEF Moves
  <2>3. i <= n
    BY <1>1, <1>2, <1>6
  <2>. QED
    BY <2>1, <2>2, <2>3, <1>2, <1>6
<1>12. WellStacked(m, r)
  BY <1>2, <1>7, <1>9, <1>10 DEF WellStacked, k
<1>. QED
  BY <1>7, <1>9, <1>11, <1>12

\* The frame on top, and what is known of it.
LEMMA TopSound ==
  ASSUME NEW m, NEW st, WellStacked(m, st), st # <<>>
  PROVE  /\ Len(st) \in 1..Len(st) /\ Len(st) \in Nat /\ st \in Seq(Frames)
         /\ Sound(st[Len(st)]) /\ st[Len(st)] \in Frames /\ st[Len(st)].waits \in Idle
<1>1. Len(st) \in Nat \ {0}
  BY EmptySeq DEF WellStacked
<1>. QED
  BY <1>1 DEF WellStacked, Sound

\* The top frame moves.
LEMMA ReplaceRestacks ==
  ASSUME NEW m, NEW st, WellStacked(m, st), st # <<>>,
         NEW f, Moves(st[Len(st)], f), f.waits \in Idle
  PROVE  Restacked(st, [st EXCEPT ![Len(st)] = f])
<1>. DEFINE r == [st EXCEPT ![Len(st)] = f]
<1>1. Len(st) \in 1..Len(st) /\ Len(st) \in Nat /\ st \in Seq(Frames) /\ f \in Frames
  BY TopSound DEF Moves, Sound
<1>2. /\ r \in Seq(Frames) /\ Len(r) = Len(st)
      /\ \A i \in 1..Len(st) : r[i] = IF i = Len(st) THEN f ELSE st[i]
  BY <1>1, ExceptSeq
<1>. QED
  BY <1>1, <1>2 DEF Restacked

\* The top frame moves and calls.
LEMMA EnterRestacks ==
  ASSUME NEW m, NEW st, WellStacked(m, st), st # <<>>,
         NEW f, Moves(st[Len(st)], f), f.waits \in Below,
         NEW g, Sound(g), g.waits \in Idle
  PROVE  Restacked(st, Append([st EXCEPT ![Len(st)] = f], g))
<1>. DEFINE s == [st EXCEPT ![Len(st)] = f]
            r == Append(s, g)
<1>1. Len(st) \in 1..Len(st) /\ Len(st) \in Nat /\ st \in Seq(Frames) /\ f \in Frames /\ g \in Frames
  BY TopSound DEF Moves, Sound
<1>2. /\ s \in Seq(Frames) /\ Len(s) = Len(st)
      /\ \A i \in 1..Len(st) : s[i] = IF i = Len(st) THEN f ELSE st[i]
  BY <1>1, ExceptSeq
<1>. HIDE DEF s
<1>3. /\ r \in Seq(Frames) /\ Len(r) = Len(st) + 1 /\ r[Len(st) + 1] = g
      /\ \A i \in 1..Len(st) : r[i] = IF i = Len(st) THEN f ELSE st[i]
  BY <1>1, <1>2, AppendProperties
<1>. HIDE DEF r
<1>4. Restacked(st, r)
  BY <1>1, <1>3 DEF Restacked
<1>. QED
  BY <1>4 DEF r, s

\* The frames above the n-th end, and it moves.
LEMMA UnwindRestacks ==
  ASSUME NEW m, NEW st, WellStacked(m, st), NEW n \in 1..Len(st),
         NEW f, Moves(st[n], f), f.waits \in Idle
  PROVE  Restacked(st, Append(SubSeq(st, 1, n - 1), f))
<1>. DEFINE s == SubSeq(st, 1, n - 1)
            r == Append(s, f)
<1>1. n \in Nat /\ n > 0 /\ Len(st) \in Nat /\ st \in Seq(Frames) /\ f \in Frames
  BY LenProperties DEF WellStacked, Moves, Sound
<1>2. \A i \in 1..n - 1 : st[i] \in Frames
  BY <1>1, ElementOfSeq
<1>3. /\ s \in Seq(Frames) /\ Len(s) = n - 1
      /\ \A i \in 1..n - 1 : s[i] = st[i]
  BY <1>1, <1>2, SubSeqProperties
<1>. HIDE DEF s
<1>4. /\ r \in Seq(Frames) /\ Len(r) = n /\ r[n] = f
      /\ \A i \in 1..n - 1 : r[i] = st[i]
  BY <1>1, <1>3, AppendProperties
<1>. HIDE DEF r
<1>5. ~(n < Len(r)) /\ Moves(st[n], r[n]) /\ r[n].waits \in Idle
  BY <1>1, <1>4
<1>6. Restacked(st, r)
  <2>1. /\ Len(r) = n \/ (Len(r) = n + 1 /\ n = Len(st))
        /\ r[n].waits \in IF n < Len(r) THEN Below ELSE Idle
        /\ n < Len(r) => Sound(r[n + 1]) /\ r[n + 1].waits \in Idle
    BY <1>4, <1>5, Zenon
  <2>. QED
    BY <1>4, <1>5, <2>1, Zenon DEF Restacked
<1>. QED
  BY <1>6 DEF r, s

\* The top frame ends, and the one below it moves.
LEMMA PopRestacks ==
  ASSUME NEW m, NEW st, WellStacked(m, st), NEW n \in Nat \ {0}, Len(st) = n + 1,
         NEW f, Moves(st[n], f), f.waits \in Idle
  PROVE  Restacked(st, [SubSeq(st, 1, n) EXCEPT ![n] = f])
<1>. DEFINE s == SubSeq(st, 1, n)
            r == [s EXCEPT ![n] = f]
<1>1. st \in Seq(Frames) /\ f \in Frames /\ n \in 1..Len(st)
  BY DEF WellStacked, Moves, Sound
<1>2. \A i \in 1..n : st[i] \in Frames
  BY <1>1, ElementOfSeq
<1>3. /\ s \in Seq(Frames) /\ Len(s) = n
      /\ \A i \in 1..n : s[i] = st[i]
  BY <1>1, <1>2, SubSeqProperties
<1>. HIDE DEF s
<1>4. n \in 1..Len(s)
  BY <1>3
<1>5. /\ r \in Seq(Frames) /\ Len(r) = n
      /\ \A i \in 1..n : r[i] = IF i = n THEN f ELSE s[i]
  BY <1>1, <1>3, <1>4, ExceptSeq
<1>. HIDE DEF r
<1>6. /\ \A i \in 1..n - 1 : r[i] = st[i]
      /\ r[n] = f /\ ~(n < Len(r))
  BY <1>3, <1>5
<1>7. Restacked(st, r)
  BY <1>1, <1>5, <1>6 DEF Restacked
<1>. QED
  BY <1>7 DEF r, s

---------------------------------------------------------------------------
(***************************************************************************)
(* The frames a step makes of the frame it runs in.                        *)
(***************************************************************************)
\* A frame in a step that no error holds may become any frame in its place.
LEMMA NotedFrame ==
  ASSUME NEW f, Sound(f)
  PROVE  LET g == Noted(f)
         IN  /\ g \in Frames
             /\ g.pipe = f.pipe /\ g.at = f.at /\ g.state = f.state /\ g.exit = f.exit
             /\ g.waits = f.waits /\ g.status = f.status
             /\ f.handled = "none" => g.handled = "none"
             /\ Handling(f) => Handling(g)
<1>1. f \in Frames
  BY DEF Sound
<1>. QED
  BY <1>1, NotedKeeps DEF Frames

\* What runs, no error holds.
LEMMA NotHeld ==
  ASSUME NEW f, ~Holds(f), Step(f).op # "result"
  PROVE  /\ ErrorType(f.state) = "none" \/ Handling(f)
         /\ \A g : ErrorKept(f, g)
BY DEF Holds, ErrorKept

\* The frame that takes the next step: it may have any state if no error held
\* the step, and any content type and status.
LEMMA AdvanceMoves ==
  ASSUME NEW f, Sound(f), ~Done(f), f.waits # "handler", Step(f).op # "result",
         NEW g \in Frames, g.pipe = f.pipe, g.exit = f.exit, g.at = f.at,
         f.handled = "none" => g.handled = "none", ErrorKept(f, g)
  PROVE  Moves(f, Advance(g)) /\ Advance(g).waits = "no"
<1>. DEFINE h == Advance(g)
<1>1. /\ h \in Frames /\ h.waits = "no" /\ h.at = f.at + 1 /\ h.pipe = f.pipe /\ h.exit = f.exit
      /\ h.state = g.state /\ h.handled = g.handled
  <2>1. g.at + 1 \in Nat \ {0} /\ g.at + 1 = f.at + 1
    BY DEF Frames
  <2>2. h.waits = "no" /\ h.at = g.at + 1 /\ h.pipe = f.pipe /\ h.exit = f.exit
          /\ h.state = g.state /\ h.handled = g.handled
    BY DEF Advance, Frames
  <2>3. h \in Frames
    BY <2>1 DEF Advance, Frames, Idle
  <2>. QED
    BY <2>1, <2>2, <2>3
<1>. HIDE DEF h
<1>2. Sound(h) /\ ErrorKept(f, h)
  BY <1>1 DEF Sound, OnStep, Unheld, ErrorKept
<1>3. Moves(f, h) /\ h.waits = "no"
  BY <1>1, <1>2, StepMoves
<1>. QED
  BY <1>3 DEF h

\* The frame that stays in its step and waits.
LEMMA WaitMoves ==
  ASSUME NEW f, Sound(f), ~Done(f), f.waits # "handler", Step(f).op # "result",
         ErrorType(f.state) = "none" \/ Handling(f),
         NEW g \in Frames, g.pipe = f.pipe, g.exit = f.exit, g.at = f.at, g.state = f.state,
         f.handled = "none" => g.handled = "none", Handling(f) => Handling(g),
         g.waits \notin {"no", "handler"}, Step(f).op \in OpsFor(g.waits)
  PROVE  Moves(f, g)
<1>1. Sound(g)
  BY DEF Sound, OnStep, Unheld, Done, Step, Steps
<1>2. ErrorKept(f, g)
  BY DEF ErrorKept
<1>. QED
  BY <1>1, <1>2, StepMoves

\* The frame of a pipeline that begins.
LEMMA NewFrame ==
  ASSUME NEW p \in DOMAIN Pipelines, NEW v \in Values, NEW t \in Types \cup {"none"}
  PROVE  Sound(Frame(p, v, t)) /\ Frame(p, v, t).waits = "no"
<1>. DEFINE f == Frame(p, v, t)
<1>1. f \in Frames /\ f.waits = "no"
  BY DEF Frame, Frames, Idle, Contents
<1>. HIDE DEF f
<1>2. Sound(f)
  BY <1>1 DEF Sound, OnStep, Unheld
<1>. QED
  BY <1>1, <1>2 DEF f

\* A step of the pipeline on top.
LEMMA TopStep ==
  ASSUME IInv, stack # <<>>
  PROVE  /\ WellStacked(main, stack) /\ Sound(Top) /\ Top \in Frames /\ Top.waits \in Idle
         /\ Top.state \in Values /\ Noted(Top).state = Top.state
         /\ ErrorType(Top.state) \in Types \cup {"none"}
<1>1. WellStacked(main, stack) /\ Sound(Top) /\ Top \in Frames /\ Top.waits \in Idle
  BY TopSound DEF IInv, Top
<1>. QED
  BY <1>1, NotedFrame DEF Frames, ErrorType

---------------------------------------------------------------------------
(***************************************************************************)
(* One lemma per action.                                                   *)
(***************************************************************************)
\* A held step.
LEMMA SkipRestacks ==
  ASSUME IInv, Skip
  PROVE  Restacked(stack, stack')
<1>1. stack # <<>> /\ Top.waits = "no" /\ ~Done(Top) /\ Holds(Top)
        /\ stack' = [stack EXCEPT ![Len(stack)] = Advance(Noted(Top))]
  BY DEF Skip, Replace
<1>2. Step(Top).op # "result" /\ ErrorKept(Top, Noted(Top))
  BY <1>1, TopStep DEF Holds, ErrorKept
<1>3. Moves(Top, Advance(Noted(Top))) /\ Advance(Noted(Top)).waits = "no"
  BY <1>1, <1>2, TopStep, NotedFrame, AdvanceMoves
<1>. QED
  BY <1>1, <1>3, TopStep, ReplaceRestacks DEF Top, Idle

\* What the guards of the steps that run say of the top frame.
LEMMA Running ==
  ASSUME IInv, NEW op \in {"mw", "call", "if", "dispatch", "foreach"}, Runs(op)
  PROVE  /\ stack # <<>> /\ Top.waits = "no" /\ ~Done(Top) /\ Step(Top).op = op
         /\ Sound(Top) /\ Step(Top).op # "result" /\ WellFormed(Step(Top))
         /\ ErrorType(Top.state) = "none" \/ Handling(Top)
         /\ \A g : ErrorKept(Top, g)
<1>1. stack # <<>> /\ Top.waits = "no" /\ ~Done(Top) /\ Step(Top).op = op /\ ~Holds(Top)
  BY DEF Runs, Begins
<1>2. Sound(Top) /\ Top \in Frames
  BY <1>1, TopStep
<1>. QED
  BY <1>1, <1>2, NotHeld, StepsWellFormed

\* The top frame takes the next step.
LEMMA AdvancesTop ==
  ASSUME IInv, stack # <<>>, Top.waits # "handler", ~Done(Top), Step(Top).op # "result",
         NEW g \in Frames, g.pipe = Top.pipe, g.exit = Top.exit, g.at = Top.at,
         Top.handled = "none" => g.handled = "none", ErrorKept(Top, g),
         stack' = [stack EXCEPT ![Len(stack)] = Advance(g)]
  PROVE  Restacked(stack, stack')
<1>1. Moves(Top, Advance(g)) /\ Advance(g).waits = "no"
  BY TopStep, AdvanceMoves
<1>. QED
  BY <1>1, TopStep, ReplaceRestacks DEF Top, Idle

\* The top frame takes a pipeline's frame on top of it and waits.
LEMMA EntersTop ==
  ASSUME IInv, stack # <<>>, NEW f, Moves(Top, f), f.waits \in Below,
         NEW p \in DOMAIN Pipelines, NEW v \in Values, NEW t \in Types \cup {"none"},
         stack' = Append([stack EXCEPT ![Len(stack)] = f], Frame(p, v, t))
  PROVE  Restacked(stack, stack')
<1>1. Sound(Frame(p, v, t)) /\ Frame(p, v, t).waits \in Idle
  BY NewFrame DEF Idle
<1>. QED
  BY <1>1, TopStep, EnterRestacks DEF Top

\* A tag that does not hold.
LEMMA TagOffRestacks ==
  ASSUME IInv, TagOff
  PROVE  Restacked(stack, stack')
<1>1. PICK op \in {"mw", "call"} : Runs(op)
  BY DEF TagOff
<1>2. stack' = [stack EXCEPT ![Len(stack)] = Advance(Noted(Top))]
  BY DEF TagOff, Replace
<1>. QED
  BY <1>1, <1>2, Running, NotedFrame, AdvancesTop

\* A middleware's values.
LEMMA RunMwRestacks ==
  ASSUME IInv, RunMw
  PROVE  Restacked(stack, stack')
<1>1. Runs("mw")
  BY DEF RunMw
<1>. DEFINE s == Step(Top)
            ct == IF s.behavior = "render" THEN "html" ELSE "json"
<1>2. PICK v \in Yields(s, Top) :
        LET w == [Noted(Top) EXCEPT !.last = IsLast(Top),
                    !.state = Applied(s.behavior, @, Renamed(v, s.rename))]
        IN  stack' = [stack EXCEPT ![Len(stack)] = Advance(WithType(w, ct, w.last, TRUE))]
  BY DEF RunMw, Replace
<1>. DEFINE w == [Noted(Top) EXCEPT !.last = IsLast(Top),
                    !.state = Applied(s.behavior, @, Renamed(v, s.rename))]
<1>3. v \in Values /\ s.rename \in Types \cup {"none"}
  <2>1. s.gives \subseteq Values /\ s.rename \in Types \cup {"none"}
    BY <1>1, Running DEF WellFormed
  <2>. QED
    BY <2>1, <1>1, Running, TopStep DEF Yields
<1>4. Applied(s.behavior, Noted(Top).state, Renamed(v, s.rename)) \in Values
  BY <1>1, <1>3, Running, TopStep, ValuesClosed
<1>5. IsLast(Top) \in BOOLEAN
  BY DEF IsLast
<1>6. /\ w \in Frames
      /\ w.pipe = Top.pipe /\ w.exit = Top.exit /\ w.at = Top.at
      /\ Top.handled = "none" => w.handled = "none"
  <2>1. /\ Noted(Top) \in Frames
        /\ Noted(Top).pipe = Top.pipe /\ Noted(Top).exit = Top.exit /\ Noted(Top).at = Top.at
        /\ Top.handled = "none" => Noted(Top).handled = "none"
    BY <1>1, Running, NotedFrame
  <2>. QED
    BY <2>1, <1>4, <1>5 DEF Frames
<1>. HIDE DEF w
<1>. DEFINE g == WithType(w, ct, w.last, TRUE)
<1>7. g \in Frames /\ SamePlace(w, g)
  <2>1. ct \in Contents
    BY DEF Contents
  <2>. HIDE DEF ct
  <2>. QED
    BY <2>1, <1>6, TypeKeeps
<1>8. /\ g.pipe = Top.pipe /\ g.exit = Top.exit /\ g.at = Top.at
      /\ Top.handled = "none" => g.handled = "none"
  BY <1>6, <1>7 DEF SamePlace
<1>9. stack' = [stack EXCEPT ![Len(stack)] = Advance(g)]
  BY <1>2 DEF w
<1>. HIDE DEF g
<1>. QED
  BY <1>1, <1>7, <1>8, <1>9, Running, AdvancesTop

\* A middleware's failure.
LEMMA MwFailsRestacks ==
  ASSUME IInv, MwFails
  PROVE  Restacked(stack, stack')
<1>1. Runs("mw")
  BY DEF MwFails
<1>. DEFINE v == Renamed(ErrorValue("mwError"), Step(Top).rename)
            g == [Noted(Top) EXCEPT !.state = v]
<1>2. stack' = [stack EXCEPT ![Len(stack)] = Advance(g)]
  BY DEF MwFails, Replace
<1>3. v \in Values
  <2>1. Step(Top).rename \in Types \cup {"none"}
    BY <1>1, Running DEF WellFormed
  <2>2. ErrorValue("mwError") \in Values
    BY PipelineAssumption DEF ErrorValue, Values, Errs
  <2>. QED
    BY <2>1, <2>2, ValuesClosed
<1>. HIDE DEF v
<1>4. /\ g \in Frames
      /\ g.pipe = Top.pipe /\ g.exit = Top.exit /\ g.at = Top.at
      /\ Top.handled = "none" => g.handled = "none"
  <2>1. /\ Noted(Top) \in Frames
        /\ Noted(Top).pipe = Top.pipe /\ Noted(Top).exit = Top.exit /\ Noted(Top).at = Top.at
        /\ Top.handled = "none" => Noted(Top).handled = "none"
    BY <1>1, Running, NotedFrame
  <2>. QED
    BY <2>1, <1>3 DEF Frames
<1>. HIDE DEF g
<1>. QED
  BY <1>1, <1>2, <1>4, Running, AdvancesTop

\* A frame whose pipeline is left.
LEMMA LeaveFrame ==
  ASSUME NEW g \in Frames
  PROVE  LET h == Leave(g)
         IN  /\ Sound(h) /\ Done(h) /\ h.waits = "no"
             /\ h.pipe = g.pipe /\ h.exit = g.exit /\ h.state = g.state
             /\ h.handled = g.handled /\ h.status = g.status
<1>. DEFINE h == Leave(g)
<1>1. Len(Steps(g)) + 1 \in Nat \ {0} /\ Len(Steps(g)) + 1 > Len(Steps(g))
  BY Lengths
<1>2. /\ h \in Frames /\ h.at = Len(Steps(g)) + 1 /\ h.waits = "no" /\ h.pipe = g.pipe
      /\ h.exit = g.exit /\ h.state = g.state /\ h.handled = g.handled /\ h.status = g.status
  BY <1>1 DEF Leave, Frames, Idle
<1>. HIDE DEF h
<1>3. Done(h)
  BY <1>1, <1>2 DEF Done, Steps
<1>4. Sound(h)
  BY <1>2 DEF Sound, OnStep, Unheld
<1>. QED
  BY <1>2, <1>3, <1>4 DEF h

\* A stored answer.
LEMMA CacheHitRestacks ==
  ASSUME IInv, CacheHit
  PROVE  Restacked(stack, stack')
<1>1. Runs("mw")
  BY DEF CacheHit
<1>2. PICK v \in Step(Top).stored, s \in Statuses \cup {"unset"}, ct \in {"json", "html"} :
        stack' = [stack EXCEPT ![Len(stack)] =
          Leave(WithStatus([Noted(Top) EXCEPT !.state = v, !.ct = ct, !.exit = "hit"], s))]
  BY DEF CacheHit, Replace
<1>. DEFINE g == [Noted(Top) EXCEPT !.state = v, !.ct = ct, !.exit = "hit"]
            h == WithStatus(g, s)
<1>3. v \in Values
  BY <1>1, Running DEF WellFormed
<1>4. /\ Noted(Top) \in Frames /\ Noted(Top).pipe = Top.pipe
      /\ Top.handled = "none" => Noted(Top).handled = "none"
  BY <1>1, Running, NotedFrame
<1>5. /\ g \in Frames /\ g.pipe = Top.pipe /\ g.exit = "hit"
      /\ Top.handled = "none" => g.handled = "none"
  BY <1>3, <1>4 DEF Frames, Contents
<1>. HIDE DEF g
<1>6. /\ h \in Frames /\ h.pipe = Top.pipe /\ h.exit = "hit"
      /\ Top.handled = "none" => h.handled = "none"
  BY <1>5, StatusKeeps DEF SamePlace
<1>7. stack' = [stack EXCEPT ![Len(stack)] = Leave(h)]
  BY <1>2 DEF g
<1>. HIDE DEF h
<1>8. Moves(Top, Leave(h)) /\ Leave(h).waits \in Idle
  BY <1>1, <1>6, Running, LeaveFrame, HitMoves DEF Idle
<1>. QED
  BY <1>1, <1>7, <1>8, Running, TopStep, ReplaceRestacks DEF Top

\* A frame that waits in the step it is in.
LEMMA WaitingFrame ==
  ASSUME IInv, NEW op \in {"call", "if", "dispatch", "foreach"}, Runs(op),
         NEW g \in Frames, g.pipe = Top.pipe, g.at = Top.at, g.state = Top.state,
         g.exit = Top.exit, g.handled = Noted(Top).handled,
         g.waits \in {"call", "cond", "branch", "items"}, op \in OpsFor(g.waits)
  PROVE  Moves(Top, g)
<1>1. /\ Top.handled = "none" => g.handled = "none"
      /\ Handling(Top) => Handling(g)
  BY Running, NotedFrame DEF Handling
<1>. QED
  BY <1>1, Running, WaitMoves

\* A pipeline called.
LEMMA CallRestacks ==
  ASSUME IInv, Call
  PROVE  Restacked(stack, stack')
<1>1. Runs("call")
  BY DEF Call
<1>. DEFINE g == [Noted(Top) EXCEPT !.waits = "call", !.last = IsLast(Top)]
<1>2. stack' = Append([stack EXCEPT ![Len(stack)] = g], Frame(Step(Top).pipe, Top.state, "none"))
  BY DEF Call, Enter
<1>3. Noted(Top) \in Frames /\ Noted(Top).pipe = Top.pipe /\ Noted(Top).at = Top.at
        /\ Noted(Top).state = Top.state /\ Noted(Top).exit = Top.exit
  BY <1>1, Running, NotedFrame
<1>4. IsLast(Top) \in BOOLEAN
  BY DEF IsLast
<1>5. g \in Frames /\ g.pipe = Top.pipe /\ g.at = Top.at /\ g.state = Top.state
        /\ g.exit = Top.exit /\ g.handled = Noted(Top).handled /\ g.waits = "call"
  BY <1>3, <1>4 DEF Frames, Below
<1>. HIDE DEF g
<1>6. Moves(Top, g) /\ g.waits \in Below
  BY <1>1, <1>5, WaitingFrame DEF OpsFor, Below
<1>7. Step(Top).pipe \in DOMAIN Pipelines
  BY <1>1, Running DEF WellFormed
<1>. QED
  BY <1>1, <1>2, <1>6, <1>7, Running, TopStep, EntersTop

\* A condition begun.
LEMMA IfRestacks ==
  ASSUME IInv, If
  PROVE  Restacked(stack, stack')
<1>1. Runs("if")
  BY DEF If
<1>. DEFINE g == [Noted(Top) EXCEPT !.waits = "cond"]
<1>2. stack' = Append([stack EXCEPT ![Len(stack)] = g], Frame(Step(Top).cond, Top.state, "none"))
  BY DEF If, Enter
<1>3. Noted(Top) \in Frames /\ Noted(Top).pipe = Top.pipe /\ Noted(Top).at = Top.at
        /\ Noted(Top).state = Top.state /\ Noted(Top).exit = Top.exit
  BY <1>1, Running, NotedFrame
<1>4. g \in Frames /\ g.pipe = Top.pipe /\ g.at = Top.at /\ g.state = Top.state
        /\ g.exit = Top.exit /\ g.handled = Noted(Top).handled /\ g.waits = "cond"
  BY <1>3 DEF Frames, Below
<1>. HIDE DEF g
<1>5. Moves(Top, g) /\ g.waits \in Below
  BY <1>1, <1>4, WaitingFrame DEF OpsFor, Below
<1>6. Step(Top).cond \in DOMAIN Pipelines
  BY <1>1, Running DEF WellFormed
<1>. QED
  BY <1>1, <1>2, <1>5, <1>6, Running, TopStep, EntersTop

\* What a frame between two of its step's pipelines knows.
LEMMA InStep ==
  ASSUME IInv, stack # <<>>, Top.waits \in {"then", "else", "items"}
  PROVE  /\ ~Done(Top) /\ Step(Top).op \in OpsFor(Top.waits) /\ Step(Top).op # "result"
         /\ Top.waits # "handler" /\ WellFormed(Step(Top))
         /\ ErrorType(Top.state) = "none" \/ Handling(Top)
         /\ \A g : ErrorKept(Top, g)
<1>1. Sound(Top) /\ Top \in Frames
  BY TopStep
<1>2. /\ ~Done(Top) /\ Step(Top).op \in OpsFor(Top.waits)
      /\ ErrorType(Top.state) = "none" \/ Handling(Top)
  BY <1>1 DEF Sound, OnStep, Unheld
<1>3. Step(Top).op # "result"
  BY <1>2 DEF OpsFor
<1>. QED
  BY <1>1, <1>2, <1>3, StepsWellFormed DEF ErrorKept

\* A branch of if or dispatch begun.
LEMMA EnterBranchRestacks ==
  ASSUME IInv, stack # <<>>, ~Done(Top), Top.waits # "handler",
         Step(Top).op \in {"if", "dispatch"},
         ErrorType(Top.state) = "none" \/ Handling(Top),
         NEW f \in Frames, f.pipe = Top.pipe, f.at = Top.at, f.state = Top.state,
         f.exit = Top.exit, Top.handled = "none" => f.handled = "none",
         Handling(Top) => Handling(f),
         NEW p \in DOMAIN Pipelines, EnterBranch(f, p)
  PROVE  Restacked(stack, stack')
<1>. DEFINE g == [f EXCEPT !.waits = "branch"]
<1>1. stack' = Append([stack EXCEPT ![Len(stack)] = g], Frame(p, f.state, "none"))
  BY DEF EnterBranch, Enter
<1>2. g \in Frames /\ g.pipe = Top.pipe /\ g.at = Top.at /\ g.state = Top.state
        /\ g.exit = Top.exit /\ g.handled = f.handled /\ g.waits = "branch"
  BY DEF Frames, Below
<1>. HIDE DEF g
<1>3. Handling(Top) => Handling(g)
  BY <1>2 DEF Handling
<1>4. Moves(Top, g)
  BY <1>2, <1>3, TopStep, WaitMoves DEF OpsFor
<1>. QED
  BY <1>1, <1>2, <1>4, TopStep, EntersTop DEF Below

\* The branch for a condition that holds.
LEMMA ThenRestacks ==
  ASSUME IInv, Then
  PROVE  Restacked(stack, stack')
<1>1. stack # <<>> /\ Top.waits = "then" /\ EnterBranch(Top, Step(Top).then)
  BY DEF Then
<1>2. Step(Top).op = "if"
  BY <1>1, InStep DEF OpsFor
<1>3. Step(Top).then \in DOMAIN Pipelines
  BY <1>1, <1>2, InStep DEF WellFormed
<1>. QED
  BY <1>1, <1>2, <1>3, InStep, TopStep, EnterBranchRestacks

\* The branch for a condition that does not, if there is one.
LEMMA ElseRestacks ==
  ASSUME IInv, Else
  PROVE  Restacked(stack, stack')
<1>1. stack # <<>> /\ Top.waits = "else"
  BY DEF Else
<1>2. Step(Top).op = "if"
  BY <1>1, InStep DEF OpsFor
<1>3. CASE Step(Top).else = <<>>
  <2>1. stack' = [stack EXCEPT ![Len(stack)] = Advance(Top)]
    BY <1>3 DEF Else, Replace
  <2>. QED
    BY <2>1, <1>1, InStep, TopStep, AdvancesTop
<1>4. CASE Step(Top).else # <<>>
  <2>1. Step(Top).else \in Seq(DOMAIN Pipelines)
    BY <1>1, <1>2, InStep DEF WellFormed
  <2>2. Step(Top).else[1] \in DOMAIN Pipelines
    <3>1. Len(Step(Top).else) \in Nat \ {0}
      BY <2>1, <1>4, EmptySeq
    <3>. QED
      BY <2>1, <3>1, ElementOfSeq
  <2>3. EnterBranch(Top, Step(Top).else[1])
    BY <1>4 DEF Else
  <2>. QED
    BY <2>2, <2>3, <1>1, <1>2, InStep, TopStep, EnterBranchRestacks
<1>. QED
  BY <1>3, <1>4

\* The case that matches, the default, or nothing.
LEMMA DispatchRestacks ==
  ASSUME IInv, Dispatch
  PROVE  Restacked(stack, stack')
<1>1. Runs("dispatch")
  BY DEF Dispatch
<1>2. /\ stack # <<>> /\ Step(Top).op = "dispatch" /\ WellFormed(Step(Top))
      /\ Noted(Top) \in Frames
  BY <1>1, Running, NotedFrame
<1>. DEFINE s == Step(Top)
            matched == First(s.cases, LAMBDA c : TagHolds(c.tag, Top.state))
            ps == IF matched = {} THEN {s.default[i] : i \in DOMAIN s.default}
                  ELSE {c.pipe : c \in matched}
<1>3. matched \subseteq {s.cases[i] : i \in DOMAIN s.cases}
  BY DEF First
<1>4. ps \subseteq DOMAIN Pipelines
  <2>1. s.cases \in Seq(Cases) /\ s.default \in Seq(DOMAIN Pipelines)
    BY <1>2 DEF WellFormed
  <2>2. \A i \in DOMAIN s.cases : s.cases[i].pipe \in DOMAIN Pipelines
    <3>1. \A i \in DOMAIN s.cases : s.cases[i] \in Cases
      BY <2>1
    <3>2. \A c \in Cases : c.pipe \in DOMAIN Pipelines
      BY DEF Cases
    <3>. QED
      BY <3>1, <3>2
  <2>3. \A i \in DOMAIN s.default : s.default[i] \in DOMAIN Pipelines
    BY <2>1
  <2>. HIDE DEF matched, s
  <2>. QED
    BY <1>3, <2>2, <2>3
<1>5. \/ Replace(Advance(Noted(Top)))
      \/ \E p \in ps : EnterBranch(Noted(Top), p)
  BY DEF Dispatch
<1>. HIDE DEF ps
<1>6. CASE Replace(Advance(Noted(Top)))
  <2>1. stack' = [stack EXCEPT ![Len(stack)] = Advance(Noted(Top))]
    BY <1>6 DEF Replace
  <2>. QED
    BY <2>1, <1>1, Running, NotedFrame, AdvancesTop
<1>7. CASE \E p \in ps : EnterBranch(Noted(Top), p)
  <2>1. PICK p \in DOMAIN Pipelines : EnterBranch(Noted(Top), p)
    BY <1>7, <1>4
  <2>. QED
    BY <2>1, <1>1, <1>2, Running, NotedFrame, EnterBranchRestacks
<1>. QED
  BY <1>5, <1>6, <1>7

\* The items of a foreach, counted.
LEMMA ForeachRestacks ==
  ASSUME IInv, Foreach
  PROVE  Restacked(stack, stack')
<1>1. Runs("foreach")
  BY DEF Foreach
<1>2. PICK n \in 0..MaxItems :
        stack' = [stack EXCEPT ![Len(stack)] = [Noted(Top) EXCEPT !.waits = "items", !.left = n]]
  BY DEF Foreach, Replace
<1>. DEFINE g == [Noted(Top) EXCEPT !.waits = "items", !.left = n]
<1>3. Noted(Top) \in Frames /\ Noted(Top).pipe = Top.pipe /\ Noted(Top).at = Top.at
        /\ Noted(Top).state = Top.state /\ Noted(Top).exit = Top.exit
  BY <1>1, Running, NotedFrame
<1>4. n \in Nat
  BY PipelineAssumption
<1>5. g \in Frames /\ g.pipe = Top.pipe /\ g.at = Top.at /\ g.state = Top.state
        /\ g.exit = Top.exit /\ g.handled = Noted(Top).handled /\ g.waits = "items"
  BY <1>3, <1>4 DEF Frames, Idle
<1>. HIDE DEF g
<1>6. Moves(Top, g) /\ g.waits \in Idle
  BY <1>1, <1>5, WaitingFrame DEF OpsFor, Idle
<1>. QED
  BY <1>1, <1>2, <1>6, Running, TopStep, ReplaceRestacks DEF Top, g

\* The next item, or the end of them.
LEMMA NextItemRestacks ==
  ASSUME IInv, NextItem
  PROVE  Restacked(stack, stack')
<1>1. stack # <<>> /\ Top.waits = "items"
  BY DEF NextItem
<1>2. Step(Top).op = "foreach"
  BY <1>1, InStep DEF OpsFor
<1>3. CASE Top.left = 0
  <2>1. stack' = [stack EXCEPT ![Len(stack)] = Advance(Top)]
    BY <1>3 DEF NextItem, Replace
  <2>. QED
    BY <2>1, <1>1, InStep, TopStep, AdvancesTop
<1>4. CASE Top.left # 0
  <2>. DEFINE g == [Top EXCEPT !.waits = "item", !.left = @ - 1]
  <2>1. PICK v \in Step(Top).items :
          stack' = Append([stack EXCEPT ![Len(stack)] = g], Frame(Step(Top).body, v, "none"))
    BY <1>4 DEF NextItem, Enter
  <2>2. Step(Top).body \in DOMAIN Pipelines /\ v \in Values
    BY <1>1, <1>2, InStep DEF WellFormed
  <2>3. Top \in Frames
    BY <1>1, TopStep
  <2>4. Top.left - 1 \in Nat
    BY <2>3, <1>4 DEF Frames
  <2>5. g \in Frames /\ g.pipe = Top.pipe /\ g.at = Top.at /\ g.state = Top.state
          /\ g.exit = Top.exit /\ g.handled = Top.handled /\ g.waits = "item"
    BY <2>3, <2>4 DEF Frames, Below
  <2>. HIDE DEF g
  <2>6. Handling(Top) => Handling(g)
    BY <2>5 DEF Handling
  <2>7. Moves(Top, g) /\ g.waits \in Below
    BY <2>5, <2>6, <1>1, <1>2, InStep, TopStep, WaitMoves DEF OpsFor, Below
  <2>. QED
    BY <2>1, <2>2, <2>7, <1>1, EntersTop
<1>. QED
  BY <1>3, <1>4

\* No array: the innermost call catches it.  The frame of that call is one that
\* no error held, so its error is the first.
LEMMA ForeachFailsRestacks ==
  ASSUME IInv, ForeachFails, \E i \in DOMAIN stack : stack[i].waits = "call"
  PROVE  Restacked(stack, stack') /\ UNCHANGED <<main, outcome>>
<1>1. PICK n \in DOMAIN stack :
        LET f == stack[n]
            caught == Renamed(ErrorValue("callError"), Step(f).rename)
        IN  /\ stack[n].waits = "call"
            /\ stack' = Append(SubSeq(stack, 1, n - 1), Advance([f EXCEPT !.state = caught]))
            /\ UNCHANGED <<main, outcome>>
  BY DEF ForeachFails
<1>. DEFINE f == stack[n]
            v == Renamed(ErrorValue("callError"), Step(f).rename)
            g == [f EXCEPT !.state = v]
<1>2. stack' = Append(SubSeq(stack, 1, n - 1), Advance(g)) /\ UNCHANGED <<main, outcome>>
  BY <1>1
<1>3. n \in 1..Len(stack) /\ WellStacked(main, stack) /\ Sound(f) /\ f.waits = "call"
  BY <1>1, LenProperties DEF IInv, WellStacked
<1>4. f \in Frames /\ ~Done(f) /\ Step(f).op = "call" /\ (ErrorType(f.state) = "none" \/ Handling(f))
  BY <1>3 DEF Sound, OnStep, Unheld, OpsFor
<1>5. v \in Values
  <2>1. Step(f).rename \in Types \cup {"none"}
    BY <1>4, StepsWellFormed DEF WellFormed
  <2>2. ErrorValue("callError") \in Values
    BY PipelineAssumption DEF ErrorValue, Values, Errs
  <2>. QED
    BY <2>1, <2>2, ValuesClosed
<1>. HIDE DEF v, f
<1>6. /\ g \in Frames /\ g.pipe = f.pipe /\ g.exit = f.exit /\ g.at = f.at
      /\ g.handled = f.handled
  BY <1>4, <1>5 DEF Frames
<1>. HIDE DEF g
<1>7. Moves(f, Advance(g)) /\ Advance(g).waits = "no"
  BY <1>3, <1>4, <1>6, AdvanceMoves DEF ErrorKept
<1>. QED
  BY <1>2, <1>3, <1>7, UnwindRestacks DEF f, Idle

\* The branch of a result begun, or its pipeline left.
LEMMA ResultRestacks ==
  ASSUME IInv, Result
  PROVE  Restacked(stack, stack')
<1>1. stack # <<>> /\ Top.waits = "no" /\ ~Done(Top) /\ Step(Top).op = "result"
  BY DEF Result, Begins
<1>2. /\ Sound(Top) /\ Top \in Frames /\ Top.state \in Values
      /\ ErrorType(Top.state) \in Types \cup {"none"}
  BY <1>1, TopStep
<1>3. /\ Noted(Top) \in Frames /\ Noted(Top).pipe = Top.pipe /\ Noted(Top).exit = Top.exit
      /\ Noted(Top).at = Top.at /\ Noted(Top).state = Top.state
      /\ Top.handled = "none" => Noted(Top).handled = "none"
  BY <1>2, NotedFrame
<1>4. CASE Branch(Top) = {} /\ Replace(Leave(Noted(Top)))
  <2>1. stack' = [stack EXCEPT ![Len(stack)] = Leave(Noted(Top))]
    BY <1>4 DEF Replace
  <2>2. Moves(Top, Leave(Noted(Top))) /\ Leave(Noted(Top)).waits \in Idle
    BY <1>1, <1>2, <1>3, <1>4, LeaveFrame, UnroutedMoves DEF Idle
  <2>. QED
    BY <2>1, <2>2, <1>1, TopStep, ReplaceRestacks DEF Top
<1>5. ASSUME NEW b \in Branch(Top),
             Enter([Noted(Top) EXCEPT !.waits = "handler", !.exit = b.status],
                   Frame(b.pipe, Top.state, ErrorType(Top.state)))
      PROVE  Restacked(stack, stack')
  <2>. DEFINE g == [Noted(Top) EXCEPT !.waits = "handler", !.exit = b.status]
  <2>1. stack' = Append([stack EXCEPT ![Len(stack)] = g],
                        Frame(b.pipe, Top.state, ErrorType(Top.state)))
    BY <1>5 DEF Enter
  <2>2. b.status \in Statuses /\ b.pipe \in DOMAIN Pipelines
    <3>1. Step(Top).branches \in Seq(Branches)
      BY <1>1, <1>2, StepsWellFormed DEF WellFormed
    <3>2. b \in Branches
      BY <3>1, OneBranch DEF Branch
    <3>. QED
      BY <3>2 DEF Branches
  <2>3. /\ g \in Frames /\ g.pipe = Top.pipe /\ g.at = Top.at /\ g.state = Top.state
        /\ g.waits = "handler" /\ g.exit = b.status
        /\ Top.handled = "none" => g.handled = "none"
    BY <1>3, <2>2 DEF Frames, Below
  <2>. HIDE DEF g
  <2>4. Sound(g)
    BY <2>2, <2>3, <1>1 DEF Sound, OnStep, Unheld, Done, Step, Steps, OpsFor
  <2>5. Moves(Top, g)
    BY <2>3, <2>4, <1>1, <1>2, RoutedMoves
  <2>. QED
    BY <2>1, <2>2, <2>3, <2>5, <1>1, <1>2, EntersTop DEF Below
<1>. QED
  BY <1>4, <1>5 DEF Result

\* The frame below a pipeline that ended with the frame g.
LEMMA ResumedMoves ==
  ASSUME NEW f, Sound(f), f.waits \in Below, NEW g \in Frames
  PROVE  Moves(f, Resumed(f, g)) /\ Resumed(f, g).waits \in Idle
<1>1. /\ f \in Frames /\ ~Done(f) /\ Step(f).op \in OpsFor(f.waits)
      /\ f.state \in Values /\ g.state \in Values /\ g.ct \in Contents
      /\ g.status \in Statuses \cup {"unset"} /\ WellFormed(Step(f))
  <2>1. f \in Frames /\ ~Done(f) /\ Step(f).op \in OpsFor(f.waits)
    BY DEF Sound, OnStep, Below
  <2>. QED
    BY <2>1, StepsWellFormed DEF Frames
<1>2. f.waits # "handler" => ErrorType(f.state) = "none" \/ Handling(f)
  BY DEF Sound, Unheld, Below
<1>3. CASE f.waits = "call"
  <2>. DEFINE v == Renamed(g.state, Step(f).rename)
              h == [f EXCEPT !.state = Merged(@, v)]
              k == WithType(h, g.ct, f.last, TRUE)
              l == WithStatus(k, g.status)
  <2>1. Step(f).op = "call"
    BY <1>1, <1>3 DEF OpsFor
  <2>2. Merged(f.state, v) \in Values
    <3>1. Step(f).rename \in Types \cup {"none"}
      BY <1>1, <2>1 DEF WellFormed
    <3>. QED
      BY <3>1, <1>1, ValuesClosed
  <2>. HIDE DEF v
  <2>3. h \in Frames /\ h.pipe = f.pipe /\ h.exit = f.exit /\ h.at = f.at /\ h.handled = f.handled
    BY <1>1, <2>2 DEF Frames
  <2>. HIDE DEF h
  <2>4. k \in Frames /\ SamePlace(h, k)
    BY <2>3, <1>1, TypeKeeps
  <2>. HIDE DEF k
  <2>5. l \in Frames /\ SamePlace(k, l)
    BY <2>4, <1>1, StatusKeeps
  <2>6. l.pipe = f.pipe /\ l.exit = f.exit /\ l.at = f.at /\ l.handled = f.handled
    BY <2>3, <2>4, <2>5 DEF SamePlace
  <2>7. Resumed(f, g) = Advance(l)
    BY <1>3 DEF Resumed, h, k, v
  <2>. HIDE DEF l
  <2>8. Moves(f, Advance(l)) /\ Advance(l).waits = "no"
    BY <1>1, <1>2, <1>3, <2>1, <2>5, <2>6, AdvanceMoves DEF ErrorKept
  <2>. QED
    BY <2>7, <2>8 DEF Idle
<1>4. CASE f.waits = "cond"
  <2>. DEFINE w == IF g.state.shape = "false" THEN "else" ELSE "then"
              h == [f EXCEPT !.waits = w]
  <2>1. Step(f).op = "if" /\ w \in Idle /\ w \in {"then", "else"}
    BY <1>1, <1>4 DEF OpsFor, Idle
  <2>2. Resumed(f, g) = h
    BY <1>4 DEF Resumed
  <2>. HIDE DEF w
  <2>3. h \in Frames /\ h.pipe = f.pipe /\ h.exit = f.exit /\ h.at = f.at /\ h.state = f.state
          /\ h.handled = f.handled /\ h.waits = w
    BY <1>1, <2>1 DEF Frames
  <2>. HIDE DEF h
  <2>4. Moves(f, h)
    BY <1>1, <1>2, <1>4, <2>1, <2>3, WaitMoves DEF Handling, OpsFor
  <2>. QED
    BY <2>1, <2>2, <2>3, <2>4
<1>5. CASE f.waits = "branch"
  <2>. DEFINE h == [f EXCEPT !.state = g.state]
              k == WithType(h, g.ct, FALSE, TRUE)
              l == WithStatus(k, g.status)
  <2>1. Step(f).op # "result"
    BY <1>1, <1>5 DEF OpsFor
  <2>2. h \in Frames /\ h.pipe = f.pipe /\ h.exit = f.exit /\ h.at = f.at /\ h.handled = f.handled
    BY <1>1 DEF Frames
  <2>. HIDE DEF h
  <2>3. k \in Frames /\ SamePlace(h, k)
    BY <2>2, <1>1, TypeKeeps
  <2>. HIDE DEF k
  <2>4. l \in Frames /\ SamePlace(k, l)
    BY <2>3, <1>1, StatusKeeps
  <2>5. l.pipe = f.pipe /\ l.exit = f.exit /\ l.at = f.at /\ l.handled = f.handled
    BY <2>2, <2>3, <2>4 DEF SamePlace
  <2>6. Resumed(f, g) = Advance(l)
    BY <1>5 DEF Resumed, h, k
  <2>. HIDE DEF l
  <2>7. Moves(f, Advance(l)) /\ Advance(l).waits = "no"
    BY <1>1, <1>2, <1>5, <2>1, <2>4, <2>5, AdvanceMoves DEF ErrorKept
  <2>. QED
    BY <2>6, <2>7 DEF Idle
<1>6. CASE f.waits = "item"
  <2>. DEFINE h == [f EXCEPT !.waits = "items"]
  <2>1. Step(f).op = "foreach"
    BY <1>1, <1>6 DEF OpsFor
  <2>2. Resumed(f, g) = h
    BY <1>6 DEF Resumed
  <2>3. h \in Frames /\ h.pipe = f.pipe /\ h.exit = f.exit /\ h.at = f.at /\ h.state = f.state
          /\ h.handled = f.handled /\ h.waits = "items"
    BY <1>1 DEF Frames, Idle
  <2>. HIDE DEF h
  <2>4. Moves(f, h)
    BY <1>1, <1>2, <1>6, <2>1, <2>3, WaitMoves DEF Handling, OpsFor
  <2>. QED
    BY <2>2, <2>3, <2>4 DEF Idle
<1>7. CASE f.waits = "handler"
  <2>. DEFINE h == [f EXCEPT !.state = g.state, !.status = f.exit]
              k == WithType(h, g.ct, FALSE, TRUE)
  <2>1. f.exit \in Statuses
    BY <1>7 DEF Sound, OnStep
  <2>2. /\ h \in Frames /\ h.pipe = f.pipe /\ h.exit = f.exit /\ h.handled = f.handled
        /\ h.status = f.exit
    BY <1>1, <2>1 DEF Frames
  <2>. HIDE DEF h
  <2>3. k \in Frames /\ SamePlace(h, k) /\ k.status = h.status
    BY <2>2, <1>1, TypeKeeps
  <2>4. k.pipe = f.pipe /\ k.exit = f.exit /\ k.handled = f.handled /\ k.status = f.exit
    BY <2>2, <2>3 DEF SamePlace
  <2>5. Resumed(f, g) = Leave(k)
    BY <1>7 DEF Resumed, h
  <2>. HIDE DEF k
  <2>6. Moves(f, Leave(k)) /\ Leave(k).waits = "no"
    BY <1>7, <2>3, <2>4, LeaveFrame, HandledMoves
  <2>. QED
    BY <2>5, <2>6 DEF Idle
<1>. QED
  BY <1>3, <1>4, <1>5, <1>6, <1>7 DEF Below

\* The end of a called pipeline.
LEMMA ReturnRestacks ==
  ASSUME IInv, Return, Len(stack) # 1
  PROVE  Restacked(stack, stack') /\ UNCHANGED <<main, outcome>>
<1>1. stack # <<>> /\ WellStacked(main, stack) /\ Top \in Frames
  BY TopStep DEF Return
<1>2. Len(stack) \in Nat \ {0} /\ stack \in Seq(Frames)
  BY <1>1, EmptySeq DEF WellStacked
<1>. DEFINE n == Len(stack) - 1
            below == SubSeq(stack, 1, n)
<1>3. n \in Nat \ {0} /\ Len(stack) = n + 1 /\ n \in 1..Len(stack) /\ n < Len(stack)
  <2>1. \A l \in Nat \ {0} : l # 1 =>
          l - 1 \in Nat \ {0} /\ l = (l - 1) + 1 /\ l - 1 \in 1..l /\ l - 1 < l
    OBVIOUS
  <2>. QED
    BY <1>2, <2>1
<1>4. Sound(stack[n]) /\ stack[n].waits \in Below
  BY <1>1, <1>3 DEF WellStacked
<1>5. \A i \in 1..n : stack[i] \in Frames
  BY <1>2, <1>3, ElementOfSeq
<1>. HIDE DEF n
<1>6. Len(below) = n /\ below[n] = stack[n] /\ below # <<>>
  <2>1. Len(below) = n /\ \A i \in 1..n : below[i] = stack[i]
    BY <1>3, <1>5, SubSeqProperties
  <2>2. n \in 1..n /\ n # 0
    BY <1>3
  <2>3. Len(<<>>) = 0
    OBVIOUS
  <2>. HIDE DEF below
  <2>. QED
    BY <2>1, <2>2, <2>3
<1>7. /\ stack' = [below EXCEPT ![n] = Resumed(stack[n], Top)]
      /\ UNCHANGED <<main, outcome>>
  <2>1. /\ stack' = [below EXCEPT ![Len(below)] = Resumed(below[Len(below)], Top)]
        /\ UNCHANGED <<main, outcome>>
    BY <1>6 DEF Return, n
  <2>. QED
    BY <2>1, <1>6
<1>8. Moves(stack[n], Resumed(stack[n], Top)) /\ Resumed(stack[n], Top).waits \in Idle
  BY <1>1, <1>4, ResumedMoves
<1>. QED
  BY <1>1, <1>3, <1>7, <1>8, PopRestacks

\* The end of the run: its own pipeline is through, or an error nothing catches.
Ends ==
  /\ stack # <<>> /\ stack' = <<>>
  /\ \/ outcome' = Failed /\ stack[1].exit # "hit"
     \/ /\ Len(stack) = 1 /\ Done(stack[1]) /\ stack[1].waits = "no"
        /\ outcome' = [kind |-> "answer", state |-> stack[1].state, ct |-> stack[1].ct,
                       status |-> stack[1].status]

\* A step in progress is not that of a run that replays a stored answer.
LEMMA NotReplaying ==
  ASSUME IInv, stack # <<>>, ~Done(Top)
  PROVE  stack[1].exit # "hit"
<1>1. WellStacked(main, stack)
  BY DEF IInv
<1>2. Len(stack) \in Nat \ {0}
  BY <1>1, EmptySeq DEF WellStacked
<1>3. MainFrame(main, stack[1])
  BY <1>1 DEF WellStacked
<1>4. CASE Len(stack) = 1
  BY <1>3, <1>4 DEF MainFrame, ExitTold, Top
<1>5. CASE Len(stack) # 1
  <2>1. 1 \in 1..Len(stack) /\ 1 < Len(stack)
    <3>1. \A l \in Nat \ {0} : l # 1 => 1 \in 1..l /\ 1 < l
      OBVIOUS
    <3>. QED
      BY <1>2, <1>5, <3>1
  <2>2. stack[1].waits \in Below
    BY <1>1, <2>1 DEF WellStacked
  <2>. QED
    BY <2>2, <1>3 DEF MainFrame, ExitTold, Below
<1>. QED
  BY <1>4, <1>5

\* Every step restacks the frames or ends the run.
LEMMA NextMoves ==
  ASSUME IInv, Next
  PROVE  /\ main' = main
         /\ \/ Restacked(stack, stack') /\ outcome' = outcome
            \/ Ends
<1>1. CASE Skip
  BY <1>1, SkipRestacks DEF Skip
<1>2. CASE TagOff
  BY <1>2, TagOffRestacks DEF TagOff
<1>3. CASE RunMw
  BY <1>3, RunMwRestacks DEF RunMw
<1>4. CASE MwFails
  BY <1>4, MwFailsRestacks DEF MwFails
<1>5. CASE Abort
  <2>1. stack # <<>> /\ ~Done(Top) /\ stack' = <<>> /\ outcome' = Failed /\ main' = main
    BY <1>5, Running DEF Abort
  <2>. QED
    BY <2>1, NotReplaying DEF Ends
<1>6. CASE CacheHit
  BY <1>6, CacheHitRestacks DEF CacheHit
<1>7. CASE Call
  BY <1>7, CallRestacks DEF Call
<1>8. CASE If
  BY <1>8, IfRestacks DEF If
<1>9. CASE Then
  BY <1>9, ThenRestacks DEF Then
<1>10. CASE Else
  BY <1>10, ElseRestacks DEF Else
<1>11. CASE Dispatch
  BY <1>11, DispatchRestacks DEF Dispatch
<1>12. CASE Foreach
  BY <1>12, ForeachRestacks DEF Foreach
<1>13. CASE NextItem
  BY <1>13, NextItemRestacks DEF NextItem
<1>14. CASE ForeachFails
  <2>1. CASE \E i \in DOMAIN stack : stack[i].waits = "call"
    BY <1>14, <2>1, ForeachFailsRestacks
  <2>2. CASE ~\E i \in DOMAIN stack : stack[i].waits = "call"
    <3>1. stack' = <<>> /\ outcome' = Failed /\ main' = main
      BY <1>14, <2>2 DEF ForeachFails
    <3>2. stack # <<>> /\ ~Done(Top)
      BY <1>14, Running DEF ForeachFails
    <3>. QED
      BY <3>1, <3>2, NotReplaying DEF Ends
  <2>. QED
    BY <2>1, <2>2
<1>15. CASE Result
  BY <1>15, ResultRestacks DEF Result
<1>16. CASE Return
  <2>1. CASE Len(stack) # 1
    BY <1>16, <2>1, ReturnRestacks
  <2>2. CASE Len(stack) = 1
    <3>1. SubSeq(stack, 1, Len(stack) - 1) = <<>>
      BY <2>2, SubSeqEmpty
    <3>. QED
      BY <1>16, <2>2, <3>1 DEF Return, Ends, Top
  <2>. QED
    BY <2>1, <2>2
<1>. QED
  BY <1>1, <1>2, <1>3, <1>4, <1>5, <1>6, <1>7, <1>8, <1>9, <1>10, <1>11, <1>12, <1>13,
     <1>14, <1>15, <1>16 DEF Next

---------------------------------------------------------------------------
(***************************************************************************)
(* The theorems.                                                           *)
(***************************************************************************)
\* The run begins well stacked.
LEMMA InitIInv == Init => IInv
<1>. SUFFICES ASSUME Init PROVE IInv
  OBVIOUS
<1>1. PICK b \in BOOLEAN :
        stack = <<Frame(main, [shape |-> "object", err |-> "none", flag |-> b], "none")>>
  BY DEF Init
<1>. DEFINE v == [shape |-> "object", err |-> "none", flag |-> b]
            f == Frame(main, v, "none")
<1>2. main \in Mains /\ main \in DOMAIN Pipelines /\ outcome = Pending
  BY PipelineAssumption DEF Init
<1>3. v \in Values
  BY DEF Values, Errs
<1>4. Sound(f) /\ f.waits = "no"
  BY <1>2, <1>3, NewFrame
<1>5. f.pipe = main /\ f.handled = "none" /\ f.exit = "open" /\ f.at = 1
  BY DEF Frame
<1>6. Len(Steps(f)) \in Nat
  BY <1>4, Lengths DEF Sound
<1>. HIDE DEF f
<1>7. MainFrame(main, f)
  BY <1>5, <1>6, PipelineAssumption DEF MainFrame, ExitTold
<1>8. stack = <<f>> /\ stack \in Seq(Frames) /\ Len(stack) = 1 /\ stack[1] = f /\ stack # <<>>
  BY <1>1, <1>4 DEF f, Sound
<1>9. WellStacked(main, stack)
  BY <1>4, <1>7, <1>8 DEF WellStacked, Idle
<1>. QED
  BY <1>2, <1>8, <1>9 DEF IInv

\* Every step keeps the invariant.
LEMMA NextIInv == IInv /\ [Next]_vars => IInv'
<1>. SUFFICES ASSUME IInv, [Next]_vars PROVE IInv'
  OBVIOUS
<1>1. CASE Restacked(stack, stack') /\ outcome' = outcome /\ main' = main
  <2>1. WellStacked(main, stack') /\ stack # <<>> /\ stack' # <<>>
    BY <1>1, RestackedWell DEF IInv
  <2>. QED
    BY <1>1, <2>1 DEF IInv, WellStacked, Pending
<1>2. CASE Ends /\ main' = main
  <2>1. WellStacked(main', stack')
    BY <1>2, EmptySeq DEF Ends, WellStacked
  <2>2. outcome' \in {Failed} \cup Answers
    <3>1. CASE Len(stack) = 1
      <4>1. stack[1] \in Frames
        BY <3>1, TopStep, <1>2 DEF Top, Ends
      <4>. QED
        BY <1>2, <4>1 DEF Ends, Answers, Frames
    <3>2. CASE Len(stack) # 1
      BY <1>2, <3>2 DEF Ends
    <3>. QED
      BY <3>1, <3>2
  <2>. QED
    BY <1>2, <2>1, <2>2 DEF IInv, Ends
<1>3. CASE UNCHANGED vars
  BY <1>3 DEF IInv, WellStacked, vars
<1>. QED
  BY <1>1, <1>2, <1>3, NextMoves

\* The frames are well formed, a frame with another above it waits for it, and
\* one in the middle of a step is there because no error holds it.
THEOREM Invariance == Spec => []IInv
BY InitIInv, NextIInv, PTL DEF Spec

\* For all pipelines: a typed error that no branch is handling stands, in every
\* frame, until a result routes it (execute_pipeline_internal's check at the
\* top of its loop, for every kind of step and every depth of calls).
THEOREM ErrorsStand == Spec => ErrorStands
<1>1. IInv /\ [Next]_vars =>
        [\A i \in DOMAIN stack \cap DOMAIN stack' :
           /\ ErrorType(stack[i].state) # "none" /\ ~Handling(stack[i])
           /\ stack[i].waits # "handler"
           => stack'[i].state = stack[i].state]_vars
  <2>. SUFFICES ASSUME IInv, Next,
                       NEW i \in DOMAIN stack \cap DOMAIN stack',
                       ErrorType(stack[i].state) # "none", ~Handling(stack[i]),
                       stack[i].waits # "handler"
                PROVE  stack'[i].state = stack[i].state
    OBVIOUS
  <2>1. CASE Restacked(stack, stack')
    BY <2>1, RestackedWell DEF IInv, ErrorKept
  <2>2. CASE Ends
    <3>1. DOMAIN stack' = {}
      BY <2>2 DEF Ends
    <3>. QED
      BY <3>1
  <2>. QED
    BY <2>1, <2>2, NextMoves
<1>. QED
  BY <1>1, Invariance, PTL DEF Spec, ErrorStands

\* The statuses a track of the run of p can be promised.
LEMMA StatusPromised ==
  ASSUME NEW p \in DOMAIN Pipelines, NEW t
  PROVE  StatusFor(p, t) \in Statuses \cup {"unset"}
<1>. DEFINE steps == Pipelines[p]
            results == First(steps, LAMBDA s : s.op = "result")
            chosen == UNION {Selected(s.branches, t) : s \in results}
<1>1. \A s \in results : s.branches \in Seq(Branches)
  BY PipelineAssumption DEF First, WellFormed
<1>. HIDE DEF results
<1>2. chosen \subseteq Branches
  BY <1>1, OneBranch
<1>. HIDE DEF chosen
<1>3. chosen # {} => (CHOOSE b \in chosen : TRUE) \in Branches
  BY <1>2
<1>4. chosen # {} => (CHOOSE b \in chosen : TRUE).status \in Statuses
  BY <1>3 DEF Branches
<1>5. StatusFor(p, t) = IF chosen = {} THEN "unset" ELSE (CHOOSE b \in chosen : TRUE).status
  BY Zenon DEF StatusFor, chosen, results
<1>. QED
  BY <1>4, <1>5

\* The table the run of the pipeline p keeps to.
Table(p) == [t \in Types \cup {"none"} |-> StatusFor(p, t)]

\* At the beginning the run is on the main track.
LEMMA InitRailway == Init => Promised!Init
<1>. SUFFICES ASSUME Init PROVE Promised!Init
  OBVIOUS
<1>1. main \in DOMAIN Pipelines
  BY PipelineAssumption DEF Init
<1>2. Table(main) \in [Types \cup {"none"} -> (Statuses \cup {"unset"}) \cup {"unset"}]
  BY <1>1, StatusPromised DEF Table
<1>3. RunSoFar = At("on", "none")
  <2>1. stack[1].exit = "open" /\ ErrorType(stack[1].state) = "none" /\ outcome.kind = "pending"
    BY PipelineAssumption DEF Init, Frame, ErrorType, Pending
  <2>. QED
    BY <2>1, PipelineAssumption DEF RunSoFar
<1>. QED
  BY <1>2, <1>3 DEF Promised!Init, Promised!Tracks, Promised!On, Table, At

\* While the run goes on, what it tells is what its own pipeline's frame tells.
LEMMA RunTold ==
  ASSUME IInv
  PROVE  /\ stack # <<>> => RunSoFar = Told(stack[1])
         /\ stack # <<>> => MainFrame(main, stack[1]) /\ stack[1] \in Frames
<1>. SUFFICES ASSUME stack # <<>>
              PROVE  RunSoFar = Told(stack[1]) /\ MainFrame(main, stack[1]) /\ stack[1] \in Frames
  OBVIOUS
<1>1. outcome.kind = "pending"
  BY DEF IInv, Pending
<1>2. MainFrame(main, stack[1])
  BY DEF IInv, WellStacked
<1>3. stack[1] \in Frames
  <2>1. stack \in Seq(Frames)
    BY DEF IInv, WellStacked
  <2>2. Len(stack) \in Nat \ {0}
    BY <2>1, EmptySeq
  <2>. QED
    BY <2>1, <2>2, ElementOfSeq
<1>. QED
  BY <1>1, <1>2, <1>3 DEF RunSoFar, Told

\* A move of the frame of the route's own pipeline is a step of the railway.
LEMMA MoveOnRails ==
  ASSUME main \in Mains, main' = main, NEW f \in Frames, NEW g \in Frames,
         RunSoFar = Told(f), RunSoFar' = Told(g), RailwayMove(main, f, g)
  PROVE  [Promised!Next /\ UNCHANGED Table(main)]_<<Table(main), RunSoFar>>
<1>1. UNCHANGED Table(main)
  BY DEF Table
<1>2. ErrorType(f.state) \in Types \cup {"none"} /\ ErrorType(g.state) \in Types \cup {"none"}
  BY DEF ErrorType
<1>3. CASE Told(g) = Told(f)
  BY <1>1, <1>3
<1>. DEFINE track == ErrorType(f.state)
<1>open. f.exit = "open" => RunSoFar = At("on", track)
  BY PipelineAssumption DEF Told
<1>4. CASE /\ f.exit = "open" /\ ErrorType(f.state) = "none"
           /\ g.exit = "open" /\ ErrorType(g.state) \in Types
  <2>1. Promised!Err(ErrorType(g.state))
    <3>1. RunSoFar' = At("on", ErrorType(g.state))
      BY <1>4, PipelineAssumption DEF Told
    <3>. QED
      BY <1>4, <1>open, <3>1 DEF Promised!Err, Promised!On, At
  <2>. QED
    BY <1>1, <1>4, <2>1 DEF Promised!Next
<1>5. CASE f.exit = "open" /\ ErrorType(f.state) = "none" /\ g.exit = "hit"
  <2>1. Promised!Hit
    <3>1. RunSoFar' = At("replaying", "unset")
      BY <1>5, PipelineAssumption DEF Told
    <3>. QED
      BY <1>5, <1>open, <3>1 DEF Promised!Hit, Promised!On, Promised!Replaying, At
  <2>. QED
    BY <1>1, <2>1 DEF Promised!Next
<1>6. CASE /\ f.exit = "open" /\ g.exit \in Statuses
           /\ g.exit = StatusFor(main, ErrorType(f.state))
  <2>1. [t \in Types \cup {"none"} |-> StatusFor(main, t)][track] = g.exit /\ g.exit # "unset"
    BY <1>2, <1>6, PipelineAssumption
  <2>2. RunSoFar' = At("routed", g.exit)
    BY <1>6, PipelineAssumption DEF Told
  <2>3. Promised!Route(track)
    BY <1>open, <1>6, <2>1, <2>2 DEF Promised!Route, Promised!On, Promised!Routed, At
  <2>. QED
    BY <1>1, <1>2, <2>3 DEF Promised!Next, Promised!Tracks
<1>. QED
  BY <1>3, <1>4, <1>5, <1>6 DEF RailwayMove

\* So is the end of the run.
LEMMA EndOnRails ==
  ASSUME IInv, Ends, main' = main
  PROVE  Promised!Next /\ UNCHANGED Table(main)
<1>1. UNCHANGED Table(main)
  BY DEF Table
<1>. DEFINE f == stack[1]
<1>2. RunSoFar = Told(f) /\ f \in Frames /\ MainFrame(main, f) /\ main \in Mains
  BY RunTold DEF IInv, Ends
<1>3. ErrorType(f.state) \in Types \cup {"none"}
  BY DEF ErrorType
<1>. HIDE DEF f
<1>4. CASE outcome' = Failed /\ f.exit # "hit"
  <2>1. RunSoFar.phase \in {"on", "routed"}
    <3>1. f.exit = "open" \/ f.exit \in Statuses
      BY <1>2, <1>4 DEF Frames
    <3>. QED
      BY <1>2, <3>1, PipelineAssumption DEF Told, At
  <2>2. RunSoFar' = At("failed", "unset")
    BY <1>4 DEF RunSoFar, Failed
  <2>. QED
    BY <1>1, <2>1, <2>2 DEF Promised!Next, Promised!Fail, Promised!Failed, At
<1>5. CASE /\ Done(f) /\ f.waits = "no"
           /\ outcome' = [kind |-> "answer", state |-> f.state, ct |-> f.ct, status |-> f.status]
  <2>1. RunSoFar' = At("answered", f.status)
    BY <1>5 DEF RunSoFar
  <2>2. f.status \in Statuses \cup {"unset"}
    BY <1>2 DEF Frames
  <2>3. CASE f.exit = "hit"
    <3>1. Promised!Answer(f.status)
      BY <2>1, <2>3, <1>2, PipelineAssumption
         DEF Promised!Answer, Promised!Replaying, Promised!Answered, Told, At
    <3>. QED
      BY <1>1, <2>2, <3>1 DEF Promised!Next
  <2>4. CASE f.exit \in Statuses
    <3>1. f.status = f.exit
      BY <1>2, <1>5, <2>4 DEF MainFrame, ExitTold
    <3>2. Promised!Answer(f.status)
      BY <2>1, <2>4, <3>1, <1>2, PipelineAssumption
         DEF Promised!Answer, Promised!Routed, Promised!Answered, Told, At
    <3>. QED
      BY <1>1, <2>2, <3>2 DEF Promised!Next
  <2>5. CASE f.exit = "open"
    <3>. DEFINE track == ErrorType(f.state)
    <3>1. StatusFor(main, track) = "unset"
      <4>1. CASE \A j \in 1..Len(Steps(f)) : j < f.at => Steps(f)[j].op # "result"
        <5>1. \A j \in 1..Len(Steps(f)) : Steps(f)[j].op # "result"
          BY <4>1, <1>2, <1>5, Lengths DEF Done
        <5>2. \A j \in DOMAIN Pipelines[main] : Pipelines[main][j].op # "result"
          BY <5>1, <1>2, PipelineAssumption DEF Steps, MainFrame
        <5>3. First(Pipelines[main], LAMBDA s : s.op = "result") = {}
          BY <5>2 DEF First
        <5>4. UNION {Selected(s.branches, track) :
                       s \in First(Pipelines[main], LAMBDA s : s.op = "result")} = {}
          BY <5>3, Zenon
        <5>. QED
          BY <5>4, Zenon DEF StatusFor
      <4>. QED
        BY <4>1, <1>2, <2>5 DEF MainFrame, ExitTold
    <3>2. [t \in Types \cup {"none"} |-> StatusFor(main, t)][track] = "unset"
      BY <3>1, <1>3
    <3>3. RunSoFar = At("on", track)
      BY <2>5, <1>2, PipelineAssumption DEF Told
    <3>. HIDE DEF track
    <3>4. Promised!Answer(f.status)
      BY <2>1, <3>2, <3>3, <1>3
         DEF Promised!Answer, Promised!On, Promised!Tracks, Promised!Answered, At, track
    <3>. QED
      BY <1>1, <2>2, <3>4 DEF Promised!Next
  <2>. QED
    BY <2>3, <2>4, <2>5, <1>2 DEF Frames
<1>. QED
  BY <1>4, <1>5 DEF Ends, f

\* For all pipelines: the run of the route's own pipeline is a Railway.  It
\* stays on the main track until a step gives a typed error, the first one is
\* never replaced, and the answer has the status of the branch its result has
\* for it (select_branch, and the status that execute_pipeline_internal keeps).
THEOREM RunIsRailway == Spec => ImplementsRailway
<1>1. IInv /\ [Next]_vars =>
        [Promised!Next /\ UNCHANGED Table(main)]_<<Table(main), RunSoFar>>
  <2>. SUFFICES ASSUME IInv, [Next]_vars
                PROVE  [Promised!Next /\ UNCHANGED Table(main)]_<<Table(main), RunSoFar>>
    OBVIOUS
  <2>1. CASE Restacked(stack, stack') /\ outcome' = outcome /\ main' = main
    <3>1. stack # <<>> /\ stack' # <<>> /\ RailwayMove(main, stack[1], stack'[1])
      BY <2>1, RestackedWell DEF IInv
    <3>2. RunSoFar = Told(stack[1]) /\ stack[1] \in Frames
      BY <3>1, RunTold
    <3>3. IInv'
      BY NextIInv
    <3>4. RunSoFar' = Told(stack'[1]) /\ stack'[1] \in Frames
      <4>1. outcome'.kind = "pending"
        BY <3>1, <3>3 DEF IInv, Pending
      <4>2. stack'[1] \in Frames
        <5>1. stack' \in Seq(Frames)
          BY <3>3 DEF IInv, WellStacked
        <5>2. Len(stack') \in Nat \ {0}
          BY <3>1, <5>1, EmptySeq
        <5>. QED
          BY <5>1, <5>2, ElementOfSeq
      <4>. QED
        BY <4>1, <4>2 DEF RunSoFar, Told
    <3>. QED
      BY <2>1, <3>1, <3>2, <3>4, MoveOnRails DEF IInv
  <2>2. CASE Ends /\ main' = main
    BY <2>2, EndOnRails
  <2>3. CASE UNCHANGED vars
    BY <2>3 DEF vars, Table, RunSoFar
  <2>. QED
    BY <2>1, <2>2, <2>3, NextMoves
<1>. QED
  BY <1>1, InitRailway, Invariance, PTL DEF Spec, ImplementsRailway, Promised!Spec, Table

===========================================================================
