--------------------------- MODULE DebugSession ---------------------------
(***************************************************************************)
(* A debugging session: the DAP message handler, the request threads that  *)
(* stop at breakpoints, the client, and the main task that waits for it    *)
(* (src/src/debugger/dap_server.rs, executor/step.rs, main.rs).            *)
(*                                                                         *)
(* The handler and the threads run on different workers and share DashMaps,*)
(* so what one of them does with two maps is two actions.  A send over the *)
(* socket of a client that is gone may fail or vanish in a buffer.         *)
(***************************************************************************)
EXTENDS Integers, Sequences, FiniteSets, Functions

CONSTANTS
  Threads,      \* request threads; ids come from one counter and are unique
  Lines,        \* source lines of the steps
  MaxDepth,     \* bound on the depth of the execution stack
  Modes,        \* subset of {"serve", "oneshot"}
  MaxQueue,     \* bound on messages the client has sent ahead
  Repeats,      \* whether the client may send the same command twice
  MayLeave      \* whether the client may disconnect or vanish

VARIABLES
  mode,         \* "serve" (run_inspect_mode) or "oneshot" (script and test mode)
  breakpoints, stepping, paused, announced,  \* the maps of DapServer
  pc, depth, line,   \* where each thread is, and the step it is at
  inbox,             \* the command sent on the thread's resume channel
  conn, view, queue, \* the socket; the threads the client shows as stopped;
                     \* its messages on the way
  handler,           \* the message being handled, and how far
  configured,        \* configuration_done_received
  main,              \* run_script_inspect_mode, test_inspect_mode
  notified,          \* shutdown_notify
  alive,             \* the process runs
  promise            \* history: the step command a thread was resumed by

maps == <<breakpoints, stepping, paused, announced>>
threads == <<pc, depth, line, inbox>>
client == <<conn, view, queue>>
process == <<mode, configured, main, notified, alive>>
debugVars == <<maps, threads, client, handler, process, promise>>

Steps == {"next", "stepIn", "stepOut"}
Resumes == Steps \cup {"continue"}
NoMessage == [op |-> "none"]
Message ==
  [op: Resumes, thread: Threads] \cup [op: {"setBreakpoints"}, lines: SUBSET Lines]
    \cup [op: {"configurationDone", "disconnect"}]

NoMode == [op |-> "continue", depth |-> 0]
SteppingMode == [op: Steps, depth: 1..MaxDepth]

DebugInit ==
  /\ mode \in Modes
  /\ breakpoints = {}
  /\ stepping = [t \in {} |-> NoMode]
  /\ paused = {}
  /\ announced = {}
  /\ pc = [t \in Threads |-> "idle"]
  /\ depth = [t \in Threads |-> 1]
  /\ line \in [Threads -> Lines]
  /\ inbox = [t \in Threads |-> "none"]
  /\ conn = "open"
  /\ view = {}
  /\ queue = <<>>
  /\ handler = [stage |-> "read", msg |-> NoMessage]
  /\ configured = FALSE
  /\ main = "load"
  /\ notified = FALSE
  /\ alive = TRUE
  /\ promise = [t \in Threads |-> NoMode]

---------------------------------------------------------------------------
(***************************************************************************)
(* The main task.  One-shot modes wait for configurationDone before they   *)
(* run anything; the server in inspect mode does not.                      *)
(***************************************************************************)
\* Mutant: the one-shot modes do not wait.
MainRuns ==
  /\ main = "load"
  /\ main' = "go"
  /\ UNCHANGED <<maps, threads, client, handler, mode, configured, notified, alive, promise>>

\* wait_for_configuration_done reads the flag, then starts to wait.
MainLoad ==
  /\ main = "load"
  /\ main' = IF mode = "serve" \/ configured THEN "go" ELSE "subscribe"
  /\ UNCHANGED <<maps, threads, client, handler, mode, configured, notified, alive, promise>>

MainSubscribe ==
  /\ main = "subscribe"
  /\ main' = "wait"
  /\ UNCHANGED <<maps, threads, client, handler, mode, configured, notified, alive, promise>>

\* The process ends: in inspect mode once notified, else when its run is over.
Exit ==
  /\ alive
  /\ IF mode = "serve" THEN notified
     ELSE main = "go" /\ \A t \in Threads : pc[t] \in {"done", "failed"}
  /\ alive' = FALSE
  /\ UNCHANGED <<maps, threads, client, handler, mode, configured, main, notified, promise>>

---------------------------------------------------------------------------
(***************************************************************************)
(* A thread: before_step at every step, then the step itself.              *)
(***************************************************************************)
Goto(t, label) == pc' = [pc EXCEPT ![t] = label]

Arrive(t) ==
  /\ pc[t] = "idle" /\ main = "go"
  /\ Goto(t, "hook")
  /\ UNCHANGED <<maps, depth, line, inbox, client, handler, process, promise>>

SteppingStops(m, d) ==
  \/ m.op = "stepIn"
  \/ m.op = "next" /\ d <= m.depth
  \/ m.op = "stepOut" /\ d < m.depth

Stops(t) ==
  \/ line[t] \in breakpoints
  \/ t \in DOMAIN stepping /\ SteppingStops(stepping[t], depth[t])

Decide(t) ==
  /\ pc[t] = "hook"
  /\ Goto(t, IF ~Stops(t) THEN "run" ELSE IF t \in announced THEN "disarm" ELSE "announce")
  /\ announced' = IF Stops(t) THEN announced \cup {t} ELSE announced
  /\ UNCHANGED <<breakpoints, stepping, paused, depth, line, inbox, client, handler,
                 process, promise>>

\* An error of the hook is no middleware failure: the request fails with it.
SendFails == conn = "closed"

Announce(t) ==
  /\ pc[t] = "announce"
  /\ \/ Goto(t, "disarm")
     \/ SendFails /\ Goto(t, "failed")
  /\ UNCHANGED <<maps, depth, line, inbox, client, handler, process, promise>>

\* Mutant: the modes of all threads are dropped.
DisarmAll(t) ==
  /\ pc[t] = "disarm"
  /\ stepping' = [u \in {} |-> NoMode]
  /\ Goto(t, "park")
  /\ UNCHANGED <<breakpoints, paused, announced, depth, line, inbox, client, handler,
                 process, promise>>

Disarm(t) ==
  /\ pc[t] = "disarm"
  /\ stepping' = Restrict(stepping, DOMAIN stepping \ {t})
  /\ Goto(t, "park")
  /\ UNCHANGED <<breakpoints, paused, announced, depth, line, inbox, client, handler,
                 process, promise>>

\* Mutant: the entry is made after the stopped event is sent.
ParkLate(t) ==
  /\ \/ pc[t] = "park" /\ Goto(t, "tell") /\ UNCHANGED paused
     \/ pc[t] = "wait" /\ t \notin paused /\ paused' = paused \cup {t} /\ UNCHANGED pc
  /\ UNCHANGED <<breakpoints, stepping, announced, depth, line, inbox, client, handler,
                 process, promise>>

Park(t) ==
  /\ pc[t] = "park"
  /\ paused' = paused \cup {t}
  /\ inbox' = [inbox EXCEPT ![t] = "none"]
  /\ promise' = [promise EXCEPT ![t] = NoMode]
  /\ Goto(t, "tell")
  /\ UNCHANGED <<breakpoints, stepping, announced, depth, line, client, handler, process>>

\* The stopped event; the client may be gone.
Tell(t) ==
  /\ pc[t] = "tell"
  /\ \/ Goto(t, "wait") /\ view' = IF conn = "open" THEN view \cup {t} ELSE view
     \/ SendFails /\ Goto(t, "failed") /\ UNCHANGED view
  /\ UNCHANGED <<maps, depth, line, inbox, conn, queue, handler, process, promise>>

Wake(t) ==
  /\ pc[t] = "wait" /\ inbox[t] # "none"
  /\ inbox' = [inbox EXCEPT ![t] = "none"]
  /\ Goto(t, "run")
  /\ UNCHANGED <<maps, depth, line, client, handler, process, promise>>

\* The step runs; the next one is nested, beside it or further out.
RunStep(t) ==
  /\ pc[t] = "run"
  /\ \/ /\ Goto(t, "hook")
        /\ \E d \in 1..MaxDepth, l \in Lines :
             /\ d <= depth[t] + 1
             /\ depth' = [depth EXCEPT ![t] = d]
             /\ line' = [line EXCEPT ![t] = l]
     \/ Goto(t, "done") /\ UNCHANGED <<depth, line>>
  /\ UNCHANGED <<maps, inbox, client, handler, process, promise>>

\* A server drops a request when its client hangs up, or the feature flags'
\* pipeline after 50 ms: at an await, and what the maps hold of it stays.
Drop(t) ==
  /\ mode = "serve" /\ pc[t] \in {"announce", "tell", "wait", "run"}
  /\ Goto(t, "failed")
  /\ UNCHANGED <<maps, depth, line, inbox, client, handler, process, promise>>

ThreadStep(t) ==
  \/ Arrive(t) \/ Decide(t) \/ Announce(t) \/ Disarm(t) \/ Park(t) \/ Tell(t)
  \/ Wake(t) \/ RunStep(t)

---------------------------------------------------------------------------
(***************************************************************************)
(* The message handler takes one message at a time.                        *)
(***************************************************************************)
At(stage) == handler.stage = stage
Got(op) == At("read") /\ queue # <<>> /\ Head(queue).op = op
GotResume == \E op \in Resumes : Got(op)
Then(stage, msg) == handler' = [stage |-> stage, msg |-> msg]
Take(stage) == Then(stage, Head(queue)) /\ queue' = Tail(queue)

HandleSetBreakpoints ==
  /\ Got("setBreakpoints")
  /\ breakpoints' = Head(queue).lines
  /\ Take("respond")
  /\ UNCHANGED <<stepping, paused, announced, threads, conn, view, process, promise>>

\* The flag, then the tasks that wait at this moment (notify_waiters).
HandleConfigurationDone ==
  /\ Got("configurationDone")
  /\ configured' = TRUE
  /\ Take("notify")
  /\ UNCHANGED <<maps, threads, conn, view, mode, main, notified, alive, promise>>

NotifyWaiters ==
  /\ At("notify")
  /\ main' = IF main = "wait" THEN "go" ELSE main
  /\ Then("respond", handler.msg)
  /\ UNCHANGED <<maps, threads, client, mode, configured, notified, alive, promise>>

\* continue, next, stepIn, stepOut: first the stepping mode, ...
ModeOf(op, t) == [op |-> op, depth |-> IF t \in paused THEN depth[t] ELSE 1]

Remode(op, t) ==
  stepping' = IF op = "continue" THEN Restrict(stepping, DOMAIN stepping \ {t})
              ELSE [u \in DOMAIN stepping \cup {t} |->
                      IF u = t THEN ModeOf(op, t) ELSE stepping[u]]

HandleResume ==
  /\ GotResume
  /\ Remode(Head(queue).op, Head(queue).thread)
  /\ Take("resume")
  /\ UNCHANGED <<breakpoints, paused, announced, threads, conn, view, process, promise>>

\* Mutant: the entry of a resumed thread stays.
ReleaseKeeping(T, op) ==
  /\ paused' = paused
  /\ inbox' = [t \in Threads |-> IF t \in paused \cap T THEN op ELSE inbox[t]]
  /\ promise' = [t \in Threads |->
                   IF t \in paused \cap T THEN ModeOf(op, t) ELSE promise[t]]

\* ... then the thread, if it is paused.
Release(T, op) ==
  /\ paused' = paused \ T
  /\ inbox' = [t \in Threads |-> IF t \in paused \cap T THEN op ELSE inbox[t]]
  /\ promise' = [t \in Threads |->
                   IF t \in paused \cap T THEN ModeOf(op, t) ELSE promise[t]]

Resume ==
  /\ At("resume")
  /\ Release({handler.msg.thread}, handler.msg.op)
  /\ Then("respond", handler.msg)
  /\ UNCHANGED <<breakpoints, stepping, announced, pc, depth, line, client, process>>

HandleDisconnect ==
  /\ Got("disconnect")
  /\ Release(Threads, "continue")
  /\ announced' = {}
  /\ Take("respond")
  /\ UNCHANGED <<breakpoints, stepping, pc, depth, line, conn, view, process>>

\* Mutant: the handler ends and tells nobody.
EndSilently == Then("ended", NoMessage) /\ UNCHANGED notified

\* The handler is over, and says so.
End == Then("ended", NoMessage) /\ notified' = TRUE

Respond ==
  /\ At("respond")
  /\ \/ /\ IF handler.msg.op = "disconnect" THEN End
           ELSE Then("read", NoMessage) /\ UNCHANGED notified
        /\ view' = IF handler.msg.op = "disconnect" THEN {}
                   ELSE IF handler.msg.op \in Resumes THEN view \ {handler.msg.thread}
                   ELSE view
     \/ SendFails /\ End /\ UNCHANGED view
  /\ UNCHANGED <<maps, threads, conn, queue, mode, configured, main, alive, promise>>

\* The connection is lost, and with it what was on the way.
Lose ==
  /\ At("read") /\ conn = "closed"
  /\ End
  /\ queue' = <<>>
  /\ UNCHANGED <<maps, threads, conn, view, mode, configured, main, alive, promise>>

HandlerStep ==
  \/ HandleSetBreakpoints \/ HandleConfigurationDone \/ NotifyWaiters
  \/ HandleResume \/ Resume \/ HandleDisconnect \/ Respond \/ Lose

---------------------------------------------------------------------------
(***************************************************************************)
(* The client: it resumes the threads it shows as stopped.                 *)
(***************************************************************************)
OnTheWay == Range(queue) \cup {handler.msg}

MaySend(m) ==
  /\ m.op \in Resumes =>
       /\ m.thread \in view
       /\ \A o \in OnTheWay : o.op \in Resumes /\ o.thread = m.thread => Repeats /\ o = m
  /\ m.op = "configurationDone" => ~configured /\ m \notin OnTheWay
  /\ m.op = "disconnect" => MayLeave

ClientSends(m) ==
  /\ conn = "open" /\ Len(queue) < MaxQueue
  /\ \A o \in OnTheWay : o.op # "disconnect"
  /\ handler.stage # "ended"
  /\ MaySend(m)
  /\ queue' = Append(queue, m)
  /\ UNCHANGED <<maps, threads, conn, view, handler, process, promise>>

Vanish ==
  /\ MayLeave /\ conn = "open"
  /\ conn' = "closed"
  /\ view' = {}
  /\ UNCHANGED <<maps, threads, queue, handler, process, promise>>

DebugNext ==
  \/ alive /\ (\/ MainLoad \/ MainSubscribe \/ HandlerStep
               \/ \E t \in Threads : ThreadStep(t) \/ Drop(t)
               \/ \E m \in Message : ClientSends(m)
               \/ Vanish)
  \/ Exit

DebugSpec == DebugInit /\ [][DebugNext]_debugVars

\* Every task of the process is scheduled; the client owes nothing.
Fairness ==
  /\ WF_debugVars(alive /\ (MainLoad \/ MainSubscribe))
  /\ WF_debugVars(alive /\ HandlerStep)
  /\ \A t \in Threads : WF_debugVars(alive /\ ThreadStep(t))
  /\ WF_debugVars(Exit)

FairDebugging == DebugSpec /\ Fairness

---------------------------------------------------------------------------
(***************************************************************************)
(* Properties.                                                             *)
(***************************************************************************)

\* An entry of paused_threads stands for exactly one thread that can still be
\* woken by it, and a thread that waits can be woken: by its entry, or by the
\* command already on its channel.  A thread that failed or was dropped leaves
\* its entry behind.
PausedIsAwaited ==
  \A t \in Threads :
    /\ t \in paused => pc[t] \in {"tell", "wait", "failed"} /\ inbox[t] = "none"
    /\ pc[t] \in {"tell", "wait"} => t \in paused \/ inbox[t] # "none"

\* hook.rs: "Step over: pause at next step in same pipeline", and likewise
\* step in and out: no thread resumed by a step command passes the step where
\* it has to pause.
NoOvershoot ==
  [][\A t \in Threads :
       Decide(t) /\ ~Stops(t) => ~SteppingStops(promise[t], depth[t])]_debugVars

\* A command for a waiting thread gets there, unless its client is lost or the
\* process ends.
ResumeReaches ==
  \A t \in Threads :
    pc[t] = "wait" /\ (\E m \in Range(queue) : m.op \in Resumes /\ m.thread = t)
      ~> pc[t] # "wait" \/ conn = "closed" \/ ~alive

\* dap_server.rs: "Connection closed or error occurred - trigger shutdown": a
\* thread of the server does not wait for a client that is gone.
OrphansEnd ==
  \A t \in Threads :
    mode = "serve" /\ pc[t] = "wait" /\ conn = "closed" ~> pc[t] # "wait" \/ ~alive

\* main.rs: "The script is one-shot, so wait until the client has sent
\* breakpoints": nothing runs before.
RunsConfigured ==
  mode = "oneshot" => \A t \in Threads : pc[t] # "idle" => configured
===========================================================================
