----------------------------- MODULE Migrations ----------------------------
(***************************************************************************)
(* Database migrations (src/src/migrations/mod.rs): several invocations of *)
(* `webpipe migrate' against one database.  An invocation computes what it *)
(* has to do once and then runs one transaction per migration: the script, *)
(* and the row of _wp_migrations.  Nothing but the UNIQUE version of that  *)
(* table keeps two invocations apart.                                      *)
(*                                                                         *)
(* PostgreSQL is external: transactions are atomic, a failed or broken one *)
(* leaves nothing, and a write of a row waits for the transaction that has *)
(* written it.  A strict script (CREATE, DROP) fails where its effect is   *)
(* already there; a tolerant one (UPDATE, IF EXISTS) takes effect again.   *)
(***************************************************************************)
EXTENDS Integers, FiniteSets

CONSTANTS
  Processes,
  Files,      \* migration files there may be
  VersionOf,  \* the version in the name of each: seconds, so two may agree
  Tolerant,   \* files whose scripts are tolerant
  MaxRuns,    \* bound on the invocations
  None        \* no file

ASSUME MigrationsAssumption ==
  /\ VersionOf \in [Files -> Nat]
  /\ Tolerant \subseteq Files
  /\ MaxRuns \in Nat
  /\ None \notin Files

VARIABLES
  files,    \* the files in migrations/
  applied,  \* versions in _wp_migrations
  effect,   \* how often each file's effect is in the schema
  cmd,      \* what each process runs: "none", "up" or "down"
  todo,     \* files it has still to run
  doing,    \* the file of its open transaction, or None
  row,      \* whether that transaction has "written" its row: "open" if not yet,
            \* "absent" if its DELETE found none
  runs,     \* invocations so far
  forced,   \* history: versions recorded by force alone
  mixed     \* history: an up and a down have run at the same time

tx == <<doing, row>>
vars == <<files, applied, effect, cmd, todo, tx, runs, forced, mixed>>

Init ==
  /\ files = {}
  /\ applied = {}
  /\ effect = [f \in Files |-> 0]
  /\ cmd = [p \in Processes |-> "none"]
  /\ todo = [p \in Processes |-> {}]
  /\ doing = [p \in Processes |-> None]
  /\ row = [p \in Processes |-> "open"]
  /\ runs = 0
  /\ forced = {}
  /\ mixed = FALSE

Version(p) == VersionOf[doing[p]]
Applied(f) == VersionOf[f] \in applied

---------------------------------------------------------------------------
(***************************************************************************)
(* What an invocation reads before its first transaction.                  *)
(***************************************************************************)
\* create: the version is the present second, later than those before or
\* the same as the last.
Create(f) ==
  /\ f \in Files \ files
  /\ \A g \in files : VersionOf[g] <= VersionOf[f]
  /\ files' = files \cup {f}
  /\ UNCHANGED <<applied, effect, cmd, todo, tx, runs, forced, mixed>>

\* The order in which the command runs them.
Before(command, f, g) ==
  IF command = "up" THEN VersionOf[f] < VersionOf[g] ELSE VersionOf[g] < VersionOf[f]

\* get_pending_migrations, get_applied_migrations, and the first n of them;
\* files of one version come in the order of the directory, which is any.
Listed(command) ==
  IF command = "up" THEN {f \in files : ~Applied(f)} ELSE {f \in files : Applied(f)}

Chosen(command) ==
  {S \in SUBSET Listed(command) :
     \A f \in S, g \in Listed(command) \ S : ~Before(command, g, f)}

Begin(p, command) ==
  /\ cmd[p] = "none" /\ runs < MaxRuns
  /\ \E S \in Chosen(command) : todo' = [todo EXCEPT ![p] = S]
  /\ cmd' = [cmd EXCEPT ![p] = command]
  /\ runs' = runs + 1
  /\ mixed' = (mixed \/ \E q \in Processes : cmd[q] \notin {"none", command})
  /\ UNCHANGED <<files, applied, effect, tx, forced>>

---------------------------------------------------------------------------
(***************************************************************************)
(* apply_migration and rollback_migration: begin, script, row, commit.     *)
(***************************************************************************)
Idle(p) == cmd' = [cmd EXCEPT ![p] = "none"] /\ todo' = [todo EXCEPT ![p] = {}]
NoTx(p) ==
  /\ doing' = [doing EXCEPT ![p] = None]
  /\ row' = [row EXCEPT ![p] = "open"]

IsNext(p, f) ==
  /\ cmd[p] # "none" /\ doing[p] = None
  /\ f \in todo[p] /\ \A g \in todo[p] : ~Before(cmd[p], g, f)

\* Strict scripts of one file wait for each other.
Strict(f) == f \notin Tolerant
Waits(p, f) == Strict(f) /\ \E q \in Processes \ {p} : doing[q] = f

Possible(p, f) ==
  Strict(f) => IF cmd[p] = "up" THEN effect[f] = 0 ELSE effect[f] = 1

Script(p, f) ==
  /\ IsNext(p, f)
  /\ ~Waits(p, f) /\ Possible(p, f)
  /\ doing' = [doing EXCEPT ![p] = f]
  /\ UNCHANGED <<files, applied, effect, cmd, todo, row, runs, forced, mixed>>

\* Another transaction has a row of this version written, and is not over.
RowTaken(p, v) ==
  \E q \in Processes \ {p} : row[q] = "written" /\ Version(q) = v

\* Mutant: a row that is there already is no error.
InsertAnyway(p) ==
  /\ cmd[p] = "up" /\ doing[p] # None /\ row[p] = "open"
  /\ ~RowTaken(p, Version(p))
  /\ row' = [row EXCEPT ![p] = "written"]
  /\ UNCHANGED <<files, applied, effect, cmd, todo, doing, runs, forced, mixed>>

Insert(p) ==
  /\ cmd[p] = "up" /\ doing[p] # None /\ row[p] = "open"
  /\ ~RowTaken(p, Version(p))
  /\ Version(p) \notin applied
  /\ row' = [row EXCEPT ![p] = "written"]
  /\ UNCHANGED <<files, applied, effect, cmd, todo, doing, runs, forced, mixed>>

\* A row another transaction inserts is not seen; one it deletes is waited
\* for.
Delete(p) ==
  /\ cmd[p] = "down" /\ doing[p] # None /\ row[p] = "open"
  /\ Version(p) \in applied => ~RowTaken(p, Version(p))
  /\ row' = [row EXCEPT ![p] = IF Version(p) \in applied THEN "written" ELSE "absent"]
  /\ UNCHANGED <<files, applied, effect, cmd, todo, doing, runs, forced, mixed>>

\* Mutant: the row of a rolled back migration stays.
CommitKeepingRow(p) ==
  /\ row[p] # "open"
  /\ applied' = IF cmd[p] = "up" THEN applied \cup {Version(p)} ELSE applied
  /\ effect' = [effect EXCEPT ![doing[p]] = IF cmd[p] = "up" THEN @ + 1 ELSE @ - 1]
  /\ todo' = [todo EXCEPT ![p] = @ \ {doing[p]}]
  /\ NoTx(p)
  /\ UNCHANGED <<files, cmd, runs, forced, mixed>>

Commit(p) ==
  /\ row[p] # "open"
  /\ applied' = IF row[p] = "absent" THEN applied
                ELSE IF cmd[p] = "up" THEN applied \cup {Version(p)}
                ELSE applied \ {Version(p)}
  /\ effect' = [effect EXCEPT ![doing[p]] = IF cmd[p] = "up" THEN @ + 1 ELSE @ - 1]
  /\ todo' = [todo EXCEPT ![p] = @ \ {doing[p]}]
  /\ NoTx(p)
  /\ UNCHANGED <<files, cmd, runs, forced, mixed>>

\* Mutant: the invocation goes on with the next migration.
FailGoingOn(p) ==
  /\ cmd[p] # "none" /\ todo[p] # {}
  /\ todo' = [todo EXCEPT ![p] = @ \ {f \in @ : \A g \in @ : ~Before(cmd[p], g, f)}]
  /\ NoTx(p)
  /\ UNCHANGED <<files, applied, effect, cmd, runs, forced, mixed>>

\* The script or the row is refused, or the process is killed: the first
\* error ends the invocation, and the open transaction is rolled back.
Fail(p) ==
  /\ cmd[p] # "none" /\ todo[p] # {}
  /\ Idle(p) /\ NoTx(p)
  /\ UNCHANGED <<files, applied, effect, runs, forced, mixed>>

Finish(p) ==
  /\ cmd[p] # "none" /\ todo[p] = {}
  /\ Idle(p)
  /\ UNCHANGED <<files, applied, effect, tx, runs, forced, mixed>>

\* force: a row without its script; one that is there already stays.
ForceVersion(f) ==
  /\ f \in files /\ runs < MaxRuns
  /\ \A q \in Processes : ~(row[q] = "written" /\ Version(q) = VersionOf[f])
  /\ applied' = applied \cup {VersionOf[f]}
  /\ forced' = IF Applied(f) THEN forced ELSE forced \cup {VersionOf[f]}
  /\ runs' = runs + 1
  /\ UNCHANGED <<files, effect, cmd, todo, tx, mixed>>

Next ==
  \/ \E f \in Files : Create(f) \/ ForceVersion(f)
  \/ \E p \in Processes :
       \/ Begin(p, "up") \/ Begin(p, "down")
       \/ \E f \in Files : Script(p, f)
       \/ Insert(p) \/ Delete(p) \/ Commit(p) \/ Fail(p) \/ Finish(p)

Spec == Init /\ [][Next]_vars

---------------------------------------------------------------------------
(***************************************************************************)
(* Properties.                                                             *)
(***************************************************************************)

\* Types of the variables; a process records in a transaction only.
TypeOK ==
  /\ files \subseteq Files
  /\ applied \subseteq {VersionOf[f] : f \in Files}
  /\ effect \in [Files -> Int]
  /\ cmd \in [Processes -> {"none", "up", "down"}]
  /\ todo \in [Processes -> SUBSET files]
  /\ doing \in [Processes -> Files \cup {None}]
  /\ row \in [Processes -> {"open", "written", "absent"}]
  /\ runs \in 0..MaxRuns
  /\ forced \subseteq {VersionOf[f] : f \in Files}
  /\ mixed \in BOOLEAN
  /\ \A p \in Processes :
       /\ doing[p] # None => cmd[p] # "none" /\ doing[p] \in todo[p]
       /\ row[p] # "open" => doing[p] # None

\* No `up' takes effect twice, tolerant scripts and concurrent invocations
\* included: where a file is the only one of its version, the UNIQUE row of
\* apply_migration undoes the second.
Alone(f) == \A g \in files : VersionOf[g] = VersionOf[f] => g = f

NeverTwice ==
  \A f \in files : Alone(f) => effect[f] <= IF Applied(f) THEN 1 ELSE 0

\* Where the scripts of a version are strict, the table tells the truth
\* whatever ran at the same time, failed or was killed: one of them is in the
\* schema if the version is recorded (and not by force), else none.
Present(v) == {f \in files : VersionOf[f] = v /\ effect[f] = 1}

TableTellsTruth ==
  \A v \in {VersionOf[f] : f \in files} \ forced :
    (\A f \in files : VersionOf[f] = v => Strict(f)) =>
      /\ \A f \in files : VersionOf[f] = v => effect[f] \in {0, 1}
      /\ Cardinality(Present(v)) = IF v \in applied THEN 1 ELSE 0

\* Versions are applied without a gap, however many invocations run at the
\* same time and wherever they fail, as long as up and down do not mix.
NoGaps ==
  ~mixed /\ forced = {} =>
    \A f, g \in files : Applied(g) /\ VersionOf[f] < VersionOf[g] => Applied(f)
===========================================================================
