----------------------------- MODULE DevServer -----------------------------
(***************************************************************************)
(* serve_mode (src/src/main.rs) with what it calls: the program and its    *)
(* modules are loaded, watched and served until a file changes, then the   *)
(* server is shut down and the loop starts again.                          *)
(*                                                                         *)
(* Actors: the main task, the loader it runs (ModuleLoader), the watcher   *)
(* threads that forward events, somebody who edits files, the clients of   *)
(* the server and whoever presses Ctrl-C.  A build reads the modules three *)
(* times (from_program, load_imported_configs, router), and each reading   *)
(* may see other files.                                                    *)
(*                                                                         *)
(* The watcher reports changes and not reads, and a path that is watched   *)
(* when it changes (both are about the notify crate).  Not modelled: the   *)
(* values of .env, of which only the event is left.                        *)
(***************************************************************************)
EXTENDS ModuleLoader

CONSTANTS
  Root,         \* the main file
  EnvDir,       \* the paths in the directory of the main file
  Contents,     \* what an edit may leave at each path
  StartDisks,   \* the files the server is started on
  MaxEdits,     \* bound on changes of the directory
  MaxRequests,  \* bound on requests in flight
  None

\* What there may be at a path: nothing that can be read, nothing that can be
\* parsed, or a program whose imports are resolved to paths.
ASSUME DevServerAssumption ==
  /\ Root \in Files
  /\ \A f \in Files : \A c \in Contents[f] : IsProgram(c) => c.imports \in Seq(Files)
  /\ \A d \in StartDisks :
       /\ DOMAIN d = Files
       /\ \A f \in Files : IsProgram(d[f]) => d[f].imports \in Seq(Files)

VARIABLES
  phase,     \* where serve_mode is
  program,   \* the main file as parsed at the top of the loop
  tree,      \* the modules loaded by from_program: what is served
  pos,       \* import that load_imported_configs is at
  configs,   \* all_configs of this build: the programs they came from
  config,    \* GLOBAL_CONFIG
  linked,    \* the modules that router() has loaded, None if that failed
  started,   \* the server is bound and accepts
  watched,   \* paths of the current watcher
  inflight,  \* events on their way to the channel
  queued,    \* events in the channel
  requests,  \* requests in flight
  stopping,  \* the shutdown in progress was asked for by Ctrl-C
  edits,     \* changes so far
  reloads,   \* turns of the loop after the first
  missed     \* history: paths changed unwatched during the current build

build == <<program, tree, pos, configs, config, linked>>
notices == <<inflight, queued>>
server == <<started, requests, stopping>>
history == <<edits, reloads, missed>>
vars == <<disk, loader, phase, build, watched, notices, server, history>>

Ended == phase \in {"exited", "stopped"}

Init ==
  /\ disk \in StartDisks
  /\ cache = NoPrograms /\ loading = <<>> /\ calls = <<>>
  /\ registry = {} /\ outcome = "ok"
  /\ phase = "read"
  /\ program = None /\ tree = NoPrograms /\ pos = 1
  /\ configs = {} /\ config = None /\ linked = None
  /\ started = FALSE /\ requests = 0 /\ stopping = FALSE
  /\ watched = {} /\ inflight = 0 /\ queued = 0
  /\ edits = 0 /\ reloads = 0 /\ missed = {}

---------------------------------------------------------------------------
(* Building the server: WebPipeServer::from_program and the watcher.       *)

\* read_to_string and parse_program; either error ends serve_mode.
ReadMain ==
  /\ phase = "read"
  /\ IF IsProgram(disk[Root])
       THEN /\ program' = disk[Root] /\ phase' = "tree"
            /\ NewTreeLoader(Root)
       ELSE phase' = "exited" /\ UNCHANGED <<program, loader>>
  /\ missed' = {}
  /\ UNCHANGED <<disk, tree, pos, configs, config, linked, watched, notices,
                 server, edits, reloads>>

Load ==
  /\ phase \in {"tree", "config", "link"}
  /\ LoaderStep
  /\ UNCHANGED <<disk, phase, build, watched, notices, server, history>>

TreeLoaded ==
  /\ phase = "tree" /\ outcome # "busy"
  /\ IF outcome = "ok"
       THEN /\ tree' = Tree /\ pos' = 1 /\ configs' = {program}
            /\ phase' = "configs" /\ NewLoader
       ELSE phase' = "exited" /\ UNCHANGED <<tree, pos, configs, loader>>
  /\ UNCHANGED <<disk, program, config, linked, watched, notices, server,
                 history>>

\* load_imported_configs: one loader for all imports of the main file; what
\* it cannot resolve or load it leaves out.
ConfigSkipped ==
  /\ phase = "configs" /\ outcome # "busy" /\ pos <= Len(program.imports)
  /\ disk[program.imports[pos]] = Missing
  /\ pos' = pos + 1
  /\ UNCHANGED <<disk, loader, phase, program, tree, configs, config, linked,
                 watched, notices, server, history>>

ConfigOpened ==
  /\ phase = "configs" /\ pos <= Len(program.imports)
  /\ disk[program.imports[pos]] # Missing
  /\ OpenModule(program.imports[pos], <<>>)
  /\ phase' = "config"
  /\ UNCHANGED <<disk, build, watched, notices, server, history>>

\* Mutant: the last import's configuration is all there is.
ConfigLoadedOver ==
  /\ phase = "config" /\ outcome # "busy"
  /\ configs' = IF outcome = "ok" THEN {cache[program.imports[pos]]} ELSE configs
  /\ pos' = pos + 1 /\ phase' = "configs"
  /\ UNCHANGED <<disk, loader, program, tree, config, linked, watched, notices,
                 server, history>>

ConfigLoaded ==
  /\ phase = "config" /\ outcome # "busy"
  /\ configs' = IF outcome = "ok"
                  THEN configs \cup {cache[program.imports[pos]]} ELSE configs
  /\ pos' = pos + 1 /\ phase' = "configs"
  /\ UNCHANGED <<disk, loader, program, tree, config, linked, watched, notices,
                 server, history>>

\* init_global sets a OnceCell: only the first call has an effect.  The
\* schema may be invalid or the database unreachable.
ContextBuilt ==
  /\ phase = "configs" /\ pos > Len(program.imports)
  /\ config' = IF config = None THEN configs ELSE config
  /\ phase' \in {"watch", "exited"}
  /\ UNCHANGED <<disk, loader, program, tree, pos, configs, linked, watched,
                 notices, server, history>>

\* Mutant: only the main file and its directory are watched.
WatchMain ==
  /\ phase = "watch"
  /\ IF disk[Root] = Missing
       THEN phase' = "exited" /\ UNCHANGED watched
       ELSE phase' = "select" /\ watched' = {Root} \cup EnvDir
  /\ started' = FALSE
  /\ UNCHANGED <<disk, loader, build, notices, requests, stopping, history>>

\* The new watcher replaces the old one when it has all its paths.
Watch ==
  /\ phase = "watch"
  /\ IF disk[Root] = Missing
       THEN phase' = "exited" /\ UNCHANGED watched
       ELSE /\ phase' = "select"
            /\ watched' = {Root} \cup EnvDir
                          \cup {f \in DOMAIN tree : disk[f] # Missing}
  /\ started' = FALSE
  /\ UNCHANGED <<disk, loader, build, notices, requests, stopping, history>>

---------------------------------------------------------------------------
(* The select! of serve_mode: the server, the channel, Ctrl-C.             *)

\* The server future is polled: bind, then router(), which does not yield.
Bind ==
  /\ phase = "select" /\ ~started
  /\ \/ phase' = "link" /\ NewTreeLoader(Root)
     \/ phase' = "exited" /\ UNCHANGED loader
  /\ UNCHANGED <<disk, build, watched, notices, server, history>>

\* build_runtime: without the tree the server runs without modules.
Linked ==
  /\ phase = "link" /\ outcome # "busy"
  /\ linked' = IF outcome = "ok" THEN Tree ELSE None
  /\ phase' = "select" /\ started' = TRUE
  /\ UNCHANGED <<disk, loader, program, tree, pos, configs, config, watched,
                 notices, requests, stopping, history>>

Accept ==
  /\ phase = "select" /\ started /\ requests < MaxRequests
  /\ requests' = requests + 1
  /\ UNCHANGED <<disk, loader, phase, build, watched, notices, started,
                 stopping, history>>

\* Mutant: requests go on only while the server is polled.
AnswerPolled ==
  /\ requests > 0 /\ phase = "select"
  /\ requests' = requests - 1
  /\ UNCHANGED <<disk, loader, phase, build, watched, notices, started,
                 stopping, history>>

\* Connections are tasks of their own.
Answer ==
  /\ requests > 0
  /\ requests' = requests - 1
  /\ UNCHANGED <<disk, loader, phase, build, watched, notices, started,
                 stopping, history>>

Changed ==
  /\ phase = "select" /\ queued > 0
  /\ queued' = queued - 1 /\ phase' = "debounce"
  /\ UNCHANGED <<disk, loader, build, watched, inflight, server, history>>

\* After 150 ms the channel is drained and the shutdown is sent.
Drain ==
  /\ phase = "debounce"
  /\ queued' = 0 /\ phase' = "closing"
  /\ UNCHANGED <<disk, loader, build, watched, inflight, server, history>>

\* `serve_fut.await': the graceful shutdown waits for the requests in flight.
Close ==
  /\ phase = "closing" /\ requests = 0 /\ ~stopping
  /\ phase' = "read" /\ reloads' = reloads + 1
  /\ UNCHANGED <<disk, loader, build, watched, notices, server, edits, missed>>

CloseForGood ==
  /\ phase = "closing" /\ requests = 0 /\ stopping
  /\ phase' = "stopped"
  /\ UNCHANGED <<disk, loader, build, watched, notices, server, history>>

\* Ctrl-C in the select.  Elsewhere it ends a process that has not reached
\* the select yet, and is lost afterwards.
Interrupt ==
  /\ ~Ended /\ ~stopping
  /\ \/ phase = "select" /\ phase' = "closing" /\ stopping' = TRUE
     \/ phase # "select" /\ watched = {} /\ phase' = "exited" /\ UNCHANGED stopping
  /\ UNCHANGED <<disk, loader, build, watched, notices, started, requests,
                 history>>

---------------------------------------------------------------------------
(* The directory and the watcher threads.                                  *)

Building == phase \in {"tree", "configs", "config", "watch"}

Edit(f, c) ==
  /\ ~Ended /\ edits < MaxEdits /\ c # disk[f]
  /\ disk' = [disk EXCEPT ![f] = c]
  /\ edits' = edits + 1
  /\ inflight' = IF f \in watched THEN inflight + 1 ELSE inflight
  /\ missed' = IF Building /\ f \notin watched THEN missed \cup {f} ELSE missed
  /\ UNCHANGED <<loader, phase, build, watched, queued, server, reloads>>

\* Some other file of the directory changes, .env among them.
Touch ==
  /\ ~Ended /\ edits < MaxEdits /\ watched # {}
  /\ edits' = edits + 1 /\ inflight' = inflight + 1
  /\ UNCHANGED <<disk, loader, phase, build, watched, queued, server, reloads,
                 missed>>

\* The thread that bridges notify to tokio.
Forward ==
  /\ ~Ended /\ inflight > 0
  /\ inflight' = inflight - 1 /\ queued' = queued + 1
  /\ UNCHANGED <<disk, loader, phase, build, watched, server, history>>

Main ==
  \/ ReadMain \/ Load \/ TreeLoaded
  \/ ConfigSkipped \/ ConfigOpened \/ ConfigLoaded \/ ContextBuilt
  \/ Watch \/ Bind \/ Linked \/ Changed \/ Drain \/ Close \/ CloseForGood

Next ==
  \/ Main
  \/ Accept \/ Answer \/ Interrupt \/ Touch \/ Forward
  \/ \E f \in Files : \E c \in Contents[f] : Edit(f, c)

Spec == Init /\ [][Next]_vars

\* The main task and the bridge are scheduled; a request ends (a pipeline
\* that never does holds up every reload and every stop: nothing limits
\* the shutdown of this mode).
FairSpec ==
  /\ Spec
  /\ WF_vars(Main) /\ WF_vars(Forward) /\ WF_vars(Answer)

---------------------------------------------------------------------------
\* Serving, and nothing on its way that would change that.
Quiet == phase = "select" /\ started /\ inflight = 0 /\ queued = 0

\* f is served, and one of its readings had another content.
Stale(f) ==
  \/ f = Root /\ disk[f] # program
  \/ f \in DOMAIN tree /\ disk[f] # tree[f]

\* Once no event is left, the readings a server is built from agree with the
\* files and with each other, but for files edited during the build while no
\* watcher looked at them; after the first round those are neither the main
\* file nor in its directory.
NothingForgotten ==
  Quiet =>
    /\ \A f \in Files : Stale(f) => f \in missed
    /\ linked # tree => missed # {}
    /\ reloads > 0 => missed \cap ({Root} \cup EnvDir) = {}

\* A tree that is handed out is the root with all it imports, directly or
\* not, and a reported cycle is one of the files as they were read.
LoadIsWhole ==
  /\ phase \in {"tree", "link"} /\ outcome = "ok" =>
       registry = Reachable(Root, cache)
  /\ phase \in {"tree", "link"} /\ outcome = "circular" =>
       LET cycle == Cycle(Reported)
       IN  \A i \in 1..(Len(cycle) - 1) :
             \E c \in ToSet(calls) :
               /\ c.fn = "module" /\ c.file = cycle[i]
               /\ cycle[i + 1] \in ToSet(c.prog.imports)

\* A server at rest has collected the configuration of the main file it serves
\* and of each of the modules that file imports, in the version that is served,
\* if no edit was missed: the loader with one cache for all imports refuses
\* none of them.  It is in force, too, unless the server has been reloaded: then
\* the first build's still is, however the blocks were edited since.
ConfigIsServed ==
  Quiet /\ missed = {} =>
    /\ configs = {program} \cup {tree[f] : f \in ToSet(program.imports)}
    /\ reloads = 0 => config = configs

\* Once the edits are over the loop comes to rest: it serves, with no event
\* left, or it has ended.
Settles == <>[](Ended \/ Quiet)
===========================================================================
