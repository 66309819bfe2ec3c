------------------------- MODULE MigrationsProofs -------------------------
(***************************************************************************)
(* For any number of concurrent invocations and any migration files: the   *)
(* types of Migrations hold, no migration takes effect twice, and versions *)
(* are applied without gaps.                                               *)
(***************************************************************************)
EXTENDS Migrations, FiniteSetTheorems, TLAPS

\* Before any command the variables are typed.
LEMMA InitTypeOK == Init => TypeOK
<1> SUFFICES ASSUME Init PROVE TypeOK
  OBVIOUS
<1>1. runs \in 0..MaxRuns
  BY MigrationsAssumption DEF Init, MigrationsAssumption
<1>2. \A p \in Processes : doing[p] = None /\ row[p] = "open"
  BY DEF Init
<1>3. effect \in [Files -> Int] /\ todo \in [Processes -> SUBSET files]
  BY DEF Init
<1>4. /\ cmd \in [Processes -> {"none", "up", "down"}]
      /\ doing \in [Processes -> Files \cup {None}]
      /\ row \in [Processes -> {"open", "written", "absent"}]
  BY DEF Init
<1> QED
  BY <1>1, <1>2, <1>3, <1>4 DEF Init, TypeOK

\* A step of any invocation, and the files and forced rows, keep the types.
LEMMA NextTypeOK == TypeOK /\ [Next]_vars => TypeOK'
<1> SUFFICES ASSUME TypeOK, [Next]_vars PROVE TypeOK'
  OBVIOUS
<1> USE MigrationsAssumption DEF TypeOK, MigrationsAssumption
<1>1. ASSUME NEW f \in Files, Create(f) PROVE TypeOK'
  BY <1>1 DEF Create, tx
<1>2. ASSUME NEW f \in Files, ForceVersion(f) PROVE TypeOK'
  BY <1>2 DEF ForceVersion, tx
<1>3. ASSUME NEW p \in Processes, NEW c \in {"up", "down"}, Begin(p, c) PROVE TypeOK'
  BY <1>3 DEF Begin, tx, Chosen, Listed
<1>4. ASSUME NEW p \in Processes, NEW f \in Files, Script(p, f) PROVE TypeOK'
  BY <1>4 DEF Script, IsNext
<1>5. ASSUME NEW p \in Processes, Insert(p) \/ Delete(p) PROVE TypeOK'
  BY <1>5 DEF Insert, Delete
<1>6. ASSUME NEW p \in Processes, Commit(p) PROVE TypeOK'
  <2>1. doing[p] \in Files /\ Version(p) \in {VersionOf[f] : f \in Files}
    BY <1>6 DEF Commit, Version
  <2>2. applied' \subseteq {VersionOf[f] : f \in Files}
    BY <1>6, <2>1 DEF Commit
  <2>3. effect' \in [Files -> Int]
    BY <1>6, <2>1 DEF Commit
  <2> QED
    BY <1>6, <2>2, <2>3 DEF Commit, NoTx
<1>7. ASSUME NEW p \in Processes, Fail(p) PROVE TypeOK'
  BY <1>7 DEF Fail, Idle, NoTx
<1>8. ASSUME NEW p \in Processes, Finish(p) PROVE TypeOK'
  BY <1>8 DEF Finish, Idle, tx
<1>9. CASE UNCHANGED vars
  BY <1>9 DEF vars, tx
<1> QED
  BY <1>1, <1>2, <1>3, <1>4, <1>5, <1>6, <1>7, <1>8, <1>9 DEF Next

\* Whatever runs at the same time, the variables keep their types.
THEOREM TypeCorrect == Spec => []TypeOK
<1> QED
  BY InitTypeOK, NextTypeOK, PTL DEF Spec

---------------------------------------------------------------------------
(***************************************************************************)
(* No migration takes effect twice.  The row a transaction has written is  *)
(* its own until the transaction is over, and says what the table said     *)
(* when it was written.                                                    *)
(***************************************************************************)
Written(p) == row[p] = "written"

RowsLocked ==
  /\ \A p \in Processes : row[p] = "absent" => cmd[p] = "down"
  /\ \A p \in Processes : Written(p) => (cmd[p] = "up" <=> Version(p) \notin applied)
  /\ \A p, q \in Processes :
       p # q /\ Written(p) /\ Written(q) => Version(p) # Version(q)

\* A file that does not exist has had no effect.
Untouched == \A f \in Files \ files : effect[f] = 0

Locked == TypeOK /\ RowsLocked /\ Untouched /\ NeverTwice

\* No transaction is open, so nothing is written that others could meet.
LEMMA InitLocked == Init => Locked
<1> SUFFICES ASSUME Init PROVE Locked
  OBVIOUS
<1>1. RowsLocked
  BY DEF Init, RowsLocked, Written
<1>2. Untouched /\ NeverTwice
  BY DEF Init, Untouched, NeverTwice
<1> QED
  BY <1>1, <1>2, InitTypeOK DEF Locked

\* Steps that write no row and commit nothing.
LEMMA QuietLocked ==
  ASSUME Locked, TypeOK', UNCHANGED <<files, applied, effect>>,
         \A p \in Processes :
           row'[p] # "open" =>
             row'[p] = row[p] /\ doing'[p] = doing[p] /\ cmd'[p] = cmd[p]
  PROVE  Locked'
<1>1. \A p \in Processes : Written(p)' => Written(p) /\ Version(p)' = Version(p)
  BY DEF Version, Written
<1>2. RowsLocked'
  BY <1>1 DEF Locked, RowsLocked, Written
<1>3. Untouched' /\ NeverTwice'
  BY DEF Locked, Untouched, NeverTwice, Alone, Applied
<1> QED
  BY <1>2, <1>3 DEF Locked

\* A new file changes neither the table nor an open transaction.
LEMMA CreateLocked ==
  ASSUME Locked, TypeOK', NEW f \in Files, Create(f)
  PROVE  Locked'
<1>1. RowsLocked'
  BY DEF Create, tx, Locked, RowsLocked, Written, Version
<1>2. Untouched'
  BY DEF Create, Locked, Untouched
<1>3. effect[f] = 0
  BY DEF Create, Locked, Untouched
<1>4. NeverTwice'
  BY <1>3 DEF Create, Locked, NeverTwice, Alone, Applied
<1> QED
  BY <1>1, <1>2, <1>4 DEF Locked

\* force waits for the row of a transaction of the same version.
LEMMA ForceLocked ==
  ASSUME Locked, TypeOK', NEW f \in Files, ForceVersion(f)
  PROVE  Locked'
<1>1. \A p \in Processes : Written(p) => Version(p) # VersionOf[f]
  BY DEF ForceVersion, Written
<1>2. RowsLocked'
  BY <1>1 DEF ForceVersion, tx, Locked, RowsLocked, Written, Version
<1>3. Untouched' /\ NeverTwice'
  BY DEF ForceVersion, Locked, TypeOK, Untouched, NeverTwice, Alone, Applied
<1> QED
  BY <1>2, <1>3 DEF Locked

\* A row is written when no other transaction has written it.
LEMMA RecordLocked ==
  ASSUME Locked, TypeOK', NEW p \in Processes, Insert(p) \/ Delete(p)
  PROVE  Locked'
<1>1. /\ UNCHANGED <<files, applied, effect, cmd, doing>>
      /\ \A q \in Processes \ {p} : row'[q] = row[q]
  BY DEF Insert, Delete, Locked, TypeOK
<1>2. \A q \in Processes : Version(q)' = Version(q)
  BY <1>1 DEF Version
<1>3. row'[p] = "absent" => cmd[p] = "down"
  BY DEF Insert, Delete, Locked, TypeOK
<1>4. Written(p)' => /\ cmd[p] = "up" <=> Version(p) \notin applied
                     /\ \A q \in Processes \ {p} : Written(q) => Version(q) # Version(p)
  BY DEF Insert, Delete, RowTaken, Written, Locked, TypeOK
<1>5. RowsLocked'
  BY <1>1, <1>2, <1>3, <1>4 DEF Locked, RowsLocked, Written
<1>6. Untouched' /\ NeverTwice'
  BY <1>1 DEF Locked, Untouched, NeverTwice, Alone, Applied
<1> QED
  BY <1>5, <1>6 DEF Locked

\* The commit of a transaction moves the row and the effect of one file.
LEMMA CommitLocked ==
  ASSUME Locked, TypeOK', NEW p \in Processes, Commit(p)
  PROVE  Locked'
<1> DEFINE f == doing[p]
<1> USE DEF Locked
<1>1. f \in files /\ f \in Files /\ Version(p) = VersionOf[f] /\ cmd[p] \in {"up", "down"}
  BY DEF TypeOK, Commit, Version
<1>2. /\ UNCHANGED <<files, cmd>>
      /\ \A q \in Processes \ {p} : row'[q] = row[q] /\ doing'[q] = doing[q]
      /\ row'[p] = "open"
  BY DEF Commit, NoTx, TypeOK
<1>3. \A v : v # Version(p) => (v \in applied' <=> v \in applied)
  BY DEF Commit
<1>4. RowsLocked'
  <2>1. ASSUME NEW q \in Processes, Written(q)'
        PROVE  /\ q # p /\ Written(q) /\ Version(q)' = Version(q)
               /\ Written(p) => Version(q) # Version(p)
    BY <1>2, <2>1 DEF Written, Version, RowsLocked
  <2>2. ASSUME NEW q \in Processes, Written(q)'
        PROVE  Version(q) \in applied' <=> Version(q) \in applied
    <3>1. CASE Written(p)
      BY <2>1, <2>2, <3>1, <1>3
    <3>2. CASE ~Written(p)
      <4>1. applied' = applied
        BY <3>2 DEF Commit, Written, TypeOK
      <4> QED
        BY <4>1
    <3> QED
      BY <3>1, <3>2
  <2>3. \A q \in Processes : row'[q] = "absent" => cmd'[q] = "down"
    BY <1>2 DEF RowsLocked
  <2>4. \A q \in Processes :
          Written(q)' => (cmd'[q] = "up" <=> Version(q)' \notin applied')
    BY <2>1, <2>2, <1>2 DEF RowsLocked
  <2> QED
    BY <2>1, <2>3, <2>4 DEF RowsLocked
<1>5. Untouched'
  BY <1>1, <1>2 DEF Commit, Untouched, TypeOK
<1>6. ASSUME NEW g \in files, Alone(g)
      PROVE  effect'[g] <= IF Applied(g)' THEN 1 ELSE 0
  <2>1. effect[g] \in Int /\ effect[g] <= IF Applied(g) THEN 1 ELSE 0
    BY <1>6 DEF NeverTwice, TypeOK
  <2>2. CASE g # f
    <3>1. VersionOf[g] # Version(p)
      BY <1>1, <1>6, <2>2 DEF Alone
    <3> QED
      BY <1>1, <1>3, <2>1, <2>2, <3>1 DEF Commit, TypeOK, Applied
  <2>3. CASE g = f /\ cmd[p] = "up"
    <3>1. row[p] # "absent" /\ Version(p) \notin applied
      BY <2>3 DEF RowsLocked, Written, Commit, TypeOK
    <3> QED
      BY <1>1, <2>1, <2>3, <3>1 DEF Commit, TypeOK, Applied
  <2>4. CASE g = f /\ cmd[p] = "down"
    <3>1. effect'[g] = effect[g] - 1
      BY <1>1, <2>4 DEF Commit, TypeOK
    <3> QED
      BY <2>1, <3>1
  <2> QED
    BY <1>1, <2>2, <2>3, <2>4
<1> QED
  BY <1>2, <1>4, <1>5, <1>6 DEF NeverTwice, Alone

\* Every step keeps rows locked and effects single.
LEMMA NextLocked == Locked /\ [Next]_vars => Locked'
<1> SUFFICES ASSUME Locked, [Next]_vars PROVE Locked'
  OBVIOUS
<1>0. TypeOK /\ TypeOK'
  BY NextTypeOK DEF Locked
<1>1. ASSUME NEW f \in Files, Create(f) PROVE Locked'
  BY <1>0, <1>1, CreateLocked
<1>2. ASSUME NEW f \in Files, ForceVersion(f) PROVE Locked'
  BY <1>0, <1>2, ForceLocked
<1>3. ASSUME NEW p \in Processes, NEW c \in {"up", "down"}, Begin(p, c) PROVE Locked'
  <2>1. \A q \in Processes : row[q] # "open" => q # p
    BY <1>0, <1>3 DEF Begin, TypeOK
  <2> QED
    BY <1>0, <1>3, <2>1, QuietLocked DEF Begin, tx, TypeOK
<1>4. ASSUME NEW p \in Processes, NEW f \in Files, Script(p, f) PROVE Locked'
  <2>1. row[p] = "open"
    BY <1>0, <1>4 DEF Script, IsNext, TypeOK
  <2> QED
    BY <1>0, <1>4, <2>1, QuietLocked DEF Script, TypeOK
<1>5. ASSUME NEW p \in Processes, Insert(p) \/ Delete(p) PROVE Locked'
  BY <1>0, <1>5, RecordLocked
<1>6. ASSUME NEW p \in Processes, Commit(p) PROVE Locked'
  BY <1>0, <1>6, CommitLocked
<1>7. ASSUME NEW p \in Processes, Fail(p) PROVE Locked'
  BY <1>0, <1>7, QuietLocked DEF Fail, Idle, NoTx, TypeOK
<1>8. ASSUME NEW p \in Processes, Finish(p) PROVE Locked'
  <2>1. row[p] = "open"
    BY <1>0, <1>8 DEF Finish, TypeOK
  <2> QED
    BY <1>0, <1>8, <2>1, QuietLocked DEF Finish, Idle, tx, TypeOK
<1>9. CASE UNCHANGED vars
  BY <1>0, <1>9, QuietLocked DEF vars, tx
<1> QED
  BY <1>1, <1>2, <1>3, <1>4, <1>5, <1>6, <1>7, <1>8, <1>9 DEF Next

\* Rows stay locked in every reachable state.
LEMMA LockedInvariant == Spec => []Locked
BY InitLocked, NextLocked, PTL DEF Spec

\* However many invocations run at the same time, are refused or are killed,
\* an `up' whose version is its own takes effect once.
THEOREM UpsTakeEffectOnce == Spec => []NeverTwice
<1>1. Locked => NeverTwice
  BY DEF Locked
<1> QED
  BY <1>1, LockedInvariant, PTL

---------------------------------------------------------------------------
(***************************************************************************)
(* No gaps.  Every invocation works in order on a list that was true when  *)
(* it was made; as long as ups and downs do not mix, what others do since  *)
(* then can only do part of its work.                                      *)
(***************************************************************************)
Recorded == applied \subseteq {VersionOf[f] : f \in files}

InOrder ==
  \A p \in Processes : doing[p] # None => \A g \in todo[p] : ~Before(cmd[p], g, doing[p])

Apart == ~mixed => \A p, q \in Processes : ~(cmd[p] = "up" /\ cmd[q] = "down")

Left(p, v) == \E h \in todo[p] : VersionOf[h] = v

UpToDate(p) ==
  /\ \A f \in todo[p], g \in files :
       /\ cmd[p] = "up" /\ VersionOf[g] < VersionOf[f] => Left(p, VersionOf[g]) \/ Applied(g)
       /\ cmd[p] = "down" /\ VersionOf[f] < VersionOf[g] => Left(p, VersionOf[g]) \/ ~Applied(g)
  /\ row[p] = "absent" => Version(p) \notin applied

Unmixed == ~mixed /\ forced = {} => \A p \in Processes : UpToDate(p)

Ordered == Locked /\ Recorded /\ InOrder /\ Apart /\ Unmixed /\ NoGaps

\* Before any command no invocation has a list.
LEMMA InitOrdered == Init => Ordered
<1> SUFFICES ASSUME Init PROVE Ordered
  OBVIOUS
<1>1. Recorded /\ InOrder /\ Apart /\ NoGaps
  BY DEF Init, Recorded, InOrder, Apart, NoGaps
<1>2. Unmixed
  BY DEF Init, Unmixed, UpToDate
<1> QED
  BY <1>1, <1>2, InitLocked DEF Ordered

\* Steps of an invocation that commit nothing and end nothing.
LEMMA ScriptOrdered ==
  ASSUME Ordered, Locked', NEW p \in Processes, NEW f \in Files, Script(p, f)
  PROVE  Ordered'
<1> USE DEF Ordered, Locked, TypeOK
<1>1. /\ UNCHANGED <<files, applied, cmd, todo, row, forced, mixed>>
      /\ \A q \in Processes \ {p} : doing'[q] = doing[q]
      /\ doing'[p] = f /\ row[p] = "open"
  BY DEF Script, IsNext
<1>2. InOrder'
  BY <1>1 DEF Script, IsNext, InOrder, Before
<1>3. \A q \in Processes : UpToDate(q) => UpToDate(q)'
  BY <1>1 DEF UpToDate, Left, Applied, Version
<1>4. Recorded' /\ Apart' /\ NoGaps'
  BY <1>1 DEF Recorded, Apart, NoGaps, Applied
<1> QED
  BY <1>1, <1>2, <1>3, <1>4 DEF Unmixed

\* Writing a row inside the transaction leaves lists and table alone.
LEMMA RecordOrdered ==
  ASSUME Ordered, Locked', NEW p \in Processes, Insert(p) \/ Delete(p)
  PROVE  Ordered'
<1> USE DEF Ordered, Locked, TypeOK
<1>1. /\ UNCHANGED <<files, applied, cmd, todo, doing, forced, mixed>>
      /\ \A q \in Processes \ {p} : row'[q] = row[q]
      /\ row'[p] = "absent" => Version(p) \notin applied
  BY DEF Insert, Delete
<1>2. \A q \in Processes : UpToDate(q) => UpToDate(q)'
  BY <1>1 DEF UpToDate, Left, Applied, Version
<1>3. Recorded' /\ InOrder' /\ Apart' /\ NoGaps'
  BY <1>1 DEF Recorded, InOrder, Before, Apart, NoGaps, Applied
<1> QED
  BY <1>1, <1>2, <1>3 DEF Unmixed

\* An invocation that ends, well or not.
LEMMA EndOrdered ==
  ASSUME Ordered, Locked', NEW p \in Processes, Fail(p) \/ Finish(p)
  PROVE  Ordered'
<1> USE DEF Ordered, Locked, TypeOK
<1>1. /\ UNCHANGED <<files, applied, forced, mixed>>
      /\ \A q \in Processes \ {p} :
           doing'[q] = doing[q] /\ row'[q] = row[q] /\ cmd'[q] = cmd[q] /\ todo'[q] = todo[q]
      /\ cmd'[p] = "none" /\ todo'[p] = {} /\ doing'[p] = None /\ row'[p] = "open"
  BY DEF Fail, Finish, Idle, NoTx, tx
<1>2. \A q \in Processes : UpToDate(q) => UpToDate(q)'
  BY <1>1 DEF UpToDate, Left, Applied, Version
<1>3. Recorded' /\ Apart' /\ NoGaps'
  BY <1>1 DEF Recorded, Apart, NoGaps, Applied
<1>4. InOrder'
  BY <1>1 DEF InOrder, Before
<1> QED
  BY <1>1, <1>2, <1>3, <1>4 DEF Unmixed

\* The list of an invocation that begins is true, and in order.
LEMMA BeginOrdered ==
  ASSUME Ordered, Locked', NEW p \in Processes, NEW c \in {"up", "down"}, Begin(p, c)
  PROVE  Ordered'
<1> USE DEF Ordered, Locked, TypeOK
<1>1. /\ UNCHANGED <<files, applied, doing, row, forced>>
      /\ \A q \in Processes \ {p} : cmd'[q] = cmd[q] /\ todo'[q] = todo[q]
      /\ cmd'[p] = c /\ todo'[p] \in Chosen(c) /\ doing[p] = None /\ row[p] = "open"
  BY DEF Begin, tx
<1>2. UpToDate(p)'
  <2>1. ASSUME NEW f \in todo'[p], NEW g \in files, Before(c, g, f), g \in Listed(c)
        PROVE  g \in todo'[p]
    BY <1>1, <2>1 DEF Chosen
  <2>2. /\ c = "up" => \A g \in files : g \in Listed(c) \/ Applied(g)
        /\ c = "down" => \A g \in files : g \in Listed(c) \/ ~Applied(g)
    BY DEF Listed
  <2> QED
    BY <1>1, <2>1, <2>2 DEF UpToDate, Left, Applied, Before
<1>3. \A q \in Processes \ {p} : UpToDate(q) => UpToDate(q)'
  BY <1>1 DEF UpToDate, Left, Applied, Version
<1>4. InOrder'
  BY <1>1 DEF InOrder, Before
<1>5. ~mixed' => ~mixed /\ \A q \in Processes : cmd[q] \in {"none", c}
  BY DEF Begin
<1>6. Recorded' /\ Apart' /\ NoGaps'
  BY <1>1, <1>5 DEF Recorded, Apart, NoGaps, Applied
<1> QED
  BY <1>1, <1>2, <1>3, <1>4, <1>5, <1>6 DEF Unmixed

\* A new file is the latest; its version may be recorded already.
LEMMA CreateOrdered ==
  ASSUME Ordered, Locked', NEW f \in Files, Create(f)
  PROVE  Ordered'
<1> USE DEF Ordered, Locked, TypeOK
<1>1. /\ UNCHANGED <<applied, cmd, todo, doing, row, forced, mixed>>
      /\ files' = files \cup {f}
      /\ \A g \in files : VersionOf[g] <= VersionOf[f]
  BY DEF Create, tx
<1>2. Applied(f) => \E g \in files : VersionOf[g] = VersionOf[f]
  BY DEF Applied, Recorded
<1>3. VersionOf \in [Files -> Nat]
  BY MigrationsAssumption DEF MigrationsAssumption
<1>4. ASSUME NEW p \in Processes, UpToDate(p) PROVE UpToDate(p)'
  <2>1. ASSUME NEW h \in todo[p]
        PROVE  ~(VersionOf[f] < VersionOf[h])
    BY <1>1, <1>3
  <2>2. ASSUME NEW h \in todo[p], cmd[p] = "down", VersionOf[h] < VersionOf[f], Applied(f)
        PROVE  Left(p, VersionOf[f])
    BY <1>2, <1>4, <2>2 DEF UpToDate, Applied
  <2> QED
    BY <1>1, <1>4, <2>1, <2>2 DEF UpToDate, Left, Applied, Version
<1>5. NoGaps'
  BY <1>1, <1>2, <1>3 DEF NoGaps, Applied
<1>6. Recorded' /\ InOrder' /\ Apart'
  BY <1>1 DEF Recorded, InOrder, Before, Apart
<1> QED
  BY <1>1, <1>4, <1>5, <1>6 DEF Unmixed

\* A forced row is new, or nothing has changed.
LEMMA ForceOrdered ==
  ASSUME Ordered, Locked', NEW f \in Files, ForceVersion(f)
  PROVE  Ordered'
<1> USE DEF Ordered, Locked, TypeOK
<1>1. /\ UNCHANGED <<files, cmd, todo, doing, row, mixed>>
      /\ f \in files /\ applied' = applied \cup {VersionOf[f]}
      /\ forced' = {} => applied' = applied /\ forced = {}
  BY DEF ForceVersion, tx, Applied
<1>2. forced' = {} => \A q \in Processes : UpToDate(q) => UpToDate(q)'
  BY <1>1 DEF UpToDate, Left, Applied, Version
<1>3. NoGaps'
  BY <1>1 DEF NoGaps, Applied
<1>4. Recorded' /\ InOrder' /\ Apart'
  BY <1>1 DEF Recorded, InOrder, Before, Apart
<1> QED
  BY <1>1, <1>2, <1>3, <1>4 DEF Unmixed

\* A transaction that commits takes its file off the list, and the row of
\* its version in or out.
LEMMA CommitOrdered ==
  ASSUME Ordered, Locked', NEW p \in Processes, Commit(p)
  PROVE  Ordered'
<1> DEFINE f == doing[p]
<1> USE DEF Ordered, Locked, TypeOK
<1>1. /\ f \in files /\ f \in Files /\ f \in todo[p] /\ doing[p] # None
      /\ Version(p) = VersionOf[f]
  BY DEF Commit, Version
<1>2. /\ UNCHANGED <<files, cmd, forced, mixed>>
      /\ \A q \in Processes \ {p} :
           doing'[q] = doing[q] /\ row'[q] = row[q] /\ todo'[q] = todo[q]
      /\ todo'[p] = todo[p] \ {f} /\ doing'[p] = None /\ row'[p] = "open"
  BY DEF Commit, NoTx
<1>3. cmd[p] = "up" => applied' = applied \cup {VersionOf[f]}
  BY <1>1 DEF Commit, RowsLocked
<1>4. cmd[p] = "down" => /\ applied' \subseteq applied
                         /\ row[p] = "written" => applied' = applied \ {VersionOf[f]}
                         /\ row[p] = "absent" => applied' = applied
  BY <1>1 DEF Commit
<1>5. cmd[p] \in {"up", "down"} /\ row[p] \in {"written", "absent"}
  BY DEF Commit
<1>6. VersionOf \in [Files -> Nat]
  BY MigrationsAssumption DEF MigrationsAssumption
<1>7. Recorded'
  BY <1>1, <1>2, <1>3, <1>4, <1>5 DEF Recorded
<1>8. InOrder' /\ Apart'
  BY <1>2 DEF InOrder, Before, Apart
<1>9. ASSUME ~mixed, forced = {} PROVE Unmixed' /\ NoGaps'
  <2>1. \A q \in Processes : UpToDate(q) /\ (cmd[q] \in {"none", cmd[p]})
    BY <1>5, <1>9 DEF Unmixed, Apart
  <2>2. cmd[p] = "down" => applied' = applied \ {VersionOf[f]}
    BY <1>1, <1>4, <1>5, <2>1 DEF UpToDate
  <2>3. ASSUME NEW q \in Processes, q # p PROVE UpToDate(q)'
    <3>1. /\ cmd'[q] = cmd[q] /\ todo'[q] = todo[q] /\ row'[q] = row[q]
          /\ files' = files /\ Version(q)' = Version(q)
      BY <1>2, <2>3 DEF Version
    <3>2. \A h \in files : Left(q, VersionOf[h]) => Left(q, VersionOf[h])'
      BY <3>1 DEF Left
    <3>3. /\ cmd[q] = "up" => applied \subseteq applied'
          /\ cmd[q] = "down" => applied' \subseteq applied
      BY <1>3, <1>4, <1>5, <2>1
    <3>4. row[q] = "absent" => cmd[q] = "down"
      BY DEF RowsLocked
    <3>5. row[q] = "absent" => Version(q) \notin applied'
      BY <1>4, <1>5, <2>1, <3>4 DEF UpToDate
    <3> QED
      <4>1. ASSUME NEW g \in todo[q], NEW h \in files,
                   cmd[q] = "up", VersionOf[h] < VersionOf[g]
            PROVE  Left(q, VersionOf[h])' \/ Applied(h)'
        <5>1. Left(q, VersionOf[h]) \/ Applied(h)
          BY <2>1, <4>1 DEF UpToDate
        <5>2. CASE Left(q, VersionOf[h])
          BY <3>2, <5>2
        <5>3. CASE Applied(h)
          BY <3>3, <4>1, <5>3 DEF Applied
        <5> QED
          BY <5>1, <5>2, <5>3
      <4>2. ASSUME NEW g \in todo[q], NEW h \in files,
                   cmd[q] = "down", VersionOf[g] < VersionOf[h]
            PROVE  Left(q, VersionOf[h])' \/ ~Applied(h)'
        <5>1. Left(q, VersionOf[h]) \/ ~Applied(h)
          BY <2>1, <4>2 DEF UpToDate
        <5>2. CASE Left(q, VersionOf[h])
          BY <3>2, <5>2
        <5>3. CASE ~Applied(h)
          BY <3>3, <4>2, <5>3 DEF Applied
        <5> QED
          BY <5>1, <5>2, <5>3
      <4> QED
        BY <3>1, <3>5, <4>1, <4>2 DEF UpToDate
  <2>4. UpToDate(p)'
    <3>1. \A v : Left(p, v) => Left(p, v)' \/ v = VersionOf[f]
      BY <1>2 DEF Left
    <3>2. \A g \in files :
            VersionOf[g] = VersionOf[f] => (Applied(g)' <=> cmd[p] = "up")
      BY <1>3, <1>5, <2>2 DEF Applied
    <3>3. \A g \in files :
            VersionOf[g] # VersionOf[f] => (Applied(g)' <=> Applied(g))
      BY <1>3, <1>5, <2>2 DEF Applied
    <3> QED
      BY <1>2, <2>1, <3>1, <3>2, <3>3 DEF UpToDate
  <2>5. NoGaps'
    <3>1. \A g \in todo[p] : ~Before(cmd[p], g, f)
      BY <1>1 DEF InOrder
    <3>2. ASSUME NEW g \in files, NEW h \in files, Applied(h)', VersionOf[g] < VersionOf[h]
          PROVE  Applied(g)'
      <4>1. CASE cmd[p] = "up"
        <5>1. CASE VersionOf[h] = VersionOf[f]
          <6>1. ~Left(p, VersionOf[g])
            BY <1>6, <3>1, <3>2, <4>1, <5>1 DEF Left, Before
          <6> QED
            BY <1>1, <1>3, <2>1, <3>2, <4>1, <5>1, <6>1 DEF UpToDate, Applied
        <5>2. CASE VersionOf[h] # VersionOf[f]
          BY <1>3, <1>9, <3>2, <4>1, <5>2 DEF NoGaps, Applied
        <5> QED
          BY <5>1, <5>2
      <4>2. CASE cmd[p] = "down"
        <5>1. Applied(h) /\ Applied(g)
          BY <1>4, <1>9, <3>2, <4>2 DEF NoGaps, Applied
        <5>2. VersionOf[g] # VersionOf[f]
          <6>1. SUFFICES ASSUME VersionOf[g] = VersionOf[f] PROVE FALSE
            OBVIOUS
          <6>2. ~Left(p, VersionOf[h])
            BY <1>6, <3>1, <3>2, <4>2, <6>1 DEF Left, Before
          <6> QED
            BY <1>1, <2>1, <3>2, <4>2, <5>1, <6>1, <6>2 DEF UpToDate
        <5> QED
          BY <2>2, <4>2, <5>1, <5>2 DEF Applied
      <4> QED
        BY <1>5, <4>1, <4>2
    <3> QED
      BY <1>2, <3>2 DEF NoGaps
  <2> QED
    BY <1>2, <2>3, <2>4, <2>5 DEF Unmixed
<1>10. mixed \/ forced # {} => Unmixed' /\ NoGaps'
  BY <1>2 DEF Unmixed, NoGaps
<1> QED
  BY <1>7, <1>8, <1>9, <1>10

\* Every step keeps the lists in order and up to date.
LEMMA NextOrdered == Ordered /\ [Next]_vars => Ordered'
<1> SUFFICES ASSUME Ordered, [Next]_vars PROVE Ordered'
  OBVIOUS
<1>0. Locked'
  BY NextLocked DEF Ordered
<1>1. ASSUME NEW f \in Files, Create(f) PROVE Ordered'
  BY <1>0, <1>1, CreateOrdered
<1>2. ASSUME NEW f \in Files, ForceVersion(f) PROVE Ordered'
  BY <1>0, <1>2, ForceOrdered
<1>3. ASSUME NEW p \in Processes, NEW c \in {"up", "down"}, Begin(p, c) PROVE Ordered'
  BY <1>0, <1>3, BeginOrdered
<1>4. ASSUME NEW p \in Processes, NEW f \in Files, Script(p, f) PROVE Ordered'
  BY <1>0, <1>4, ScriptOrdered
<1>5. ASSUME NEW p \in Processes, Insert(p) \/ Delete(p) PROVE Ordered'
  BY <1>0, <1>5, RecordOrdered
<1>6. ASSUME NEW p \in Processes, Commit(p) PROVE Ordered'
  BY <1>0, <1>6, CommitOrdered
<1>7. ASSUME NEW p \in Processes, Fail(p) \/ Finish(p) PROVE Ordered'
  BY <1>0, <1>7, EndOrdered
<1>8. CASE UNCHANGED vars
  <2>1. \A q \in Processes : UpToDate(q) => UpToDate(q)'
    BY <1>8 DEF vars, tx, UpToDate, Left, Applied, Version
  <2>2. Recorded' /\ InOrder' /\ Apart' /\ NoGaps'
    BY <1>8 DEF vars, tx, Ordered, Recorded, InOrder, Before, Apart, NoGaps, Applied
  <2> QED
    BY <1>0, <1>8, <2>1, <2>2 DEF vars, tx, Ordered, Unmixed
<1> QED
  BY <1>1, <1>2, <1>3, <1>4, <1>5, <1>6, <1>7, <1>8 DEF Next

\* Versions are applied without gaps by any number of concurrent ups, or
\* rolled back from the end by any number of concurrent downs, wherever any
\* of them stops.
THEOREM VersionsWithoutGaps == Spec => []NoGaps
<1>1. Ordered => NoGaps
  BY DEF Ordered
<1> QED
  BY <1>1, InitOrdered, NextOrdered, PTL DEF Spec

---------------------------------------------------------------------------
(***************************************************************************)
(* The table tells the truth.  A strict script keeps the others off its    *)
(* file and could not have run in a schema that does not want it; so a row *)
(* it finds, or does not find, is what its version's effect says.          *)
(***************************************************************************)
Plain(v) == v \notin forced /\ \A f \in files : VersionOf[f] = v => Strict(f)

Exclusive ==
  \A p \in Processes : doing[p] # None /\ Strict(doing[p]) =>
    /\ effect[doing[p]] = IF cmd[p] = "up" THEN 0 ELSE 1
    /\ \A q \in Processes \ {p} : doing[q] # doing[p]

StrictOnce == \A f \in files : Strict(f) => effect[f] \in {0, 1}

There(f) == \E g \in files : VersionOf[g] = VersionOf[f] /\ effect[g] = 1

\* What a file's version says in table and schema, and to those who roll it back.
ToldOf(f) ==
  /\ Applied(f) <=> There(f)
  /\ \A g \in files :
       VersionOf[g] = VersionOf[f] /\ effect[f] = 1 /\ effect[g] = 1 => f = g
  /\ \A p \in Processes : doing[p] = f => row[p] # "absent"

Told == \A f \in files : Plain(VersionOf[f]) => ToldOf(f)

Truth == Ordered /\ Exclusive /\ StrictOnce /\ Told

\* At the start there is no file, and no transaction.
LEMMA InitTruth == Init => Truth
<1> SUFFICES ASSUME Init PROVE Truth
  OBVIOUS
<1>1. Exclusive /\ StrictOnce /\ Told
  BY DEF Init, Exclusive, StrictOnce, Told
<1> QED
  BY <1>1, InitOrdered DEF Truth

\* A step that touches neither the schema, the files, the table nor a row, and
\* opens no transaction.
LEMMA QuietTruth ==
  ASSUME Truth, Ordered', UNCHANGED <<files, applied, effect, forced>>,
         \A p \in Processes :
           doing'[p] # None =>
             doing'[p] = doing[p] /\ row'[p] = row[p] /\ cmd'[p] = cmd[p]
  PROVE  Truth'
<1> USE DEF Truth, Ordered, Locked, TypeOK
<1>1. Exclusive'
  BY DEF Exclusive
<1>2. StrictOnce'
  BY DEF StrictOnce
<1>3. \A f \in files : doing' \in [Processes -> Files \cup {None}] /\ f # None
  BY MigrationsAssumption DEF MigrationsAssumption
<1>4. \A f \in files : ToldOf(f) => ToldOf(f)'
  BY <1>3 DEF ToldOf, Applied, There
<1>5. Told'
  BY <1>4 DEF Told, Plain
<1> QED
  BY <1>1, <1>2, <1>5

\* A new file has had no effect, and no row unless there is another of its
\* version.
LEMMA CreateTruth ==
  ASSUME Truth, Ordered', NEW f \in Files, Create(f)
  PROVE  Truth'
<1> USE DEF Truth, Ordered, Locked, TypeOK
<1>1. /\ UNCHANGED <<applied, effect, cmd, doing, row, forced>>
      /\ f \notin files /\ files' = files \cup {f} /\ effect[f] = 0
  BY DEF Create, tx, Untouched
<1>2. Exclusive'
  BY <1>1 DEF Exclusive
<1>3. StrictOnce'
  BY <1>1 DEF StrictOnce
<1>4. \A v : Plain(v)' => Plain(v)
  BY <1>1 DEF Plain
<1>5. ASSUME NEW g \in files, Plain(VersionOf[g])' PROVE ToldOf(g)'
  <2>1. ToldOf(g)
    BY <1>4, <1>5 DEF Told
  <2> QED
    BY <1>1, <2>1 DEF ToldOf, Applied, There
<1>6. ASSUME Plain(VersionOf[f])' PROVE ToldOf(f)'
  <2>1. \A p \in Processes : doing[p] # f
    BY <1>1, MigrationsAssumption DEF MigrationsAssumption
  <2>2. Applied(f)' => There(f)'
    <3>1. SUFFICES ASSUME VersionOf[f] \in applied PROVE There(f)'
      BY <1>1 DEF Applied
    <3>2. PICK g \in files : VersionOf[g] = VersionOf[f]
      BY <3>1 DEF Recorded
    <3>3. There(g)
      BY <1>4, <1>6, <3>1, <3>2 DEF Told, ToldOf, Applied
    <3> QED
      BY <1>1, <3>2, <3>3 DEF There
  <2>3. There(f)' => Applied(f)'
    <3>1. SUFFICES ASSUME NEW g \in files, VersionOf[g] = VersionOf[f], effect[g] = 1
                   PROVE  VersionOf[f] \in applied
      BY <1>1 DEF There, Applied
    <3>2. ToldOf(g)
      BY <1>4, <1>6, <3>1 DEF Told
    <3> QED
      BY <3>1, <3>2 DEF ToldOf, Applied, There
  <2> QED
    BY <1>1, <2>1, <2>2, <2>3 DEF ToldOf
<1> QED
  BY <1>1, <1>2, <1>3, <1>5, <1>6 DEF Told

\* A forced row is one that is there already, or its version is told of no
\* more.
LEMMA ForceTruth ==
  ASSUME Truth, Ordered', NEW f \in Files, ForceVersion(f)
  PROVE  Truth'
<1> USE DEF Truth, Ordered, Locked, TypeOK
<1>1. /\ UNCHANGED <<files, effect, cmd, doing, row>>
      /\ \A v : v \notin forced' => v \notin forced /\ (v \in applied' <=> v \in applied)
  BY DEF ForceVersion, tx, Applied
<1>2. Exclusive'
  BY <1>1 DEF Exclusive
<1>3. StrictOnce'
  BY <1>1 DEF StrictOnce
<1>4. \A v : Plain(v)' => Plain(v) /\ (v \in applied' <=> v \in applied)
  BY <1>1 DEF Plain
<1>5. \A g \in files : Plain(VersionOf[g])' => ToldOf(g)'
  BY <1>1, <1>4 DEF Told, ToldOf, Applied, There
<1> QED
  BY <1>1, <1>2, <1>3, <1>5 DEF Told

\* A strict script begins where no other runs its file, and where its effect is
\* to be had.
LEMMA ScriptTruth ==
  ASSUME Truth, Ordered', NEW p \in Processes, NEW f \in Files, Script(p, f)
  PROVE  Truth'
<1> USE DEF Truth, Ordered, Locked, TypeOK
<1>1. /\ UNCHANGED <<files, applied, effect, cmd, row, forced>>
      /\ \A q \in Processes \ {p} : doing'[q] = doing[q]
      /\ doing'[p] = f /\ row[p] = "open" /\ cmd[p] \in {"up", "down"}
  BY DEF Script, IsNext
<1>2. Strict(f) => /\ effect[f] = IF cmd[p] = "up" THEN 0 ELSE 1
                   /\ \A q \in Processes \ {p} : doing[q] # f
  BY <1>1 DEF Script, Possible, Waits
<1>3. Exclusive'
  BY <1>1, <1>2 DEF Exclusive
<1>4. StrictOnce'
  BY <1>1 DEF StrictOnce
<1>5. \A g \in files : ToldOf(g) => ToldOf(g)'
  BY <1>1 DEF ToldOf, Applied, There
<1> QED
  BY <1>1, <1>3, <1>4, <1>5 DEF Told, Plain

\* Who rolls a strict file back finds its row.
LEMMA RecordTruth ==
  ASSUME Truth, Ordered', NEW p \in Processes, Insert(p) \/ Delete(p)
  PROVE  Truth'
<1> USE DEF Truth, Ordered, Locked, TypeOK
<1>1. /\ UNCHANGED <<files, applied, effect, cmd, doing, forced>>
      /\ \A q \in Processes \ {p} : row'[q] = row[q]
      /\ row'[p] = "absent" => cmd[p] = "down" /\ Version(p) \notin applied
      /\ doing[p] \in files
  BY DEF Insert, Delete
<1>2. Exclusive'
  BY <1>1 DEF Exclusive
<1>3. StrictOnce'
  BY <1>1 DEF StrictOnce
<1>4. ASSUME NEW f \in files, Plain(VersionOf[f]), doing[p] = f
      PROVE  row'[p] # "absent"
  <2>1. SUFFICES ASSUME row'[p] = "absent" PROVE FALSE
    OBVIOUS
  <2>2. cmd[p] = "down" /\ ~Applied(f)
    BY <1>1, <1>4, <2>1 DEF Version, Applied
  <2>3. effect[f] = 1
    BY <1>4, <2>2, MigrationsAssumption DEF Exclusive, Plain, MigrationsAssumption
  <2>4. Applied(f)
    BY <1>4, <2>3 DEF Told, ToldOf, There
  <2> QED
    BY <2>2, <2>4
<1>5. \A f \in files : Plain(VersionOf[f]) => ToldOf(f)'
  BY <1>1, <1>4 DEF Told, ToldOf, Applied, There
<1> QED
  BY <1>1, <1>2, <1>3, <1>5 DEF Told, Plain

\* A commit moves the row and the effect together.
LEMMA CommitTruth ==
  ASSUME Truth, Ordered', NEW p \in Processes, Commit(p)
  PROVE  Truth'
<1> DEFINE f == doing[p]
<1> USE DEF Truth, Ordered, Locked, TypeOK
<1>1. /\ f \in files /\ f \in Files /\ f # None
      /\ Version(p) = VersionOf[f] /\ cmd[p] \in {"up", "down"}
  BY MigrationsAssumption DEF Commit, Version, MigrationsAssumption
<1>2. /\ UNCHANGED <<files, cmd, forced>>
      /\ \A q \in Processes \ {p} : doing'[q] = doing[q] /\ row'[q] = row[q]
      /\ doing'[p] = None /\ row'[p] = "open"
      /\ \A g \in files \ {f} : effect'[g] = effect[g]
      /\ effect'[f] = IF cmd[p] = "up" THEN effect[f] + 1 ELSE effect[f] - 1
  BY <1>1 DEF Commit, NoTx
<1>3. Strict(f) => /\ effect[f] = IF cmd[p] = "up" THEN 0 ELSE 1
                   /\ effect'[f] = IF cmd[p] = "up" THEN 1 ELSE 0
                   /\ \A q \in Processes \ {p} : doing[q] # f
  BY <1>1, <1>2 DEF Exclusive
<1>4. Exclusive'
  <2>1. ASSUME NEW q \in Processes, doing'[q] # None, Strict(doing'[q])
        PROVE  /\ effect'[doing'[q]] = IF cmd'[q] = "up" THEN 0 ELSE 1
               /\ \A r \in Processes \ {q} : doing'[r] # doing'[q]
    <3>1. q # p /\ doing'[q] = doing[q] /\ doing[q] \in files /\ doing[q] # f
      BY <1>2, <1>3, <2>1
    <3> QED
      BY <1>2, <2>1, <3>1 DEF Exclusive
  <2> QED
    BY <2>1 DEF Exclusive, Strict
<1>5. StrictOnce'
  BY <1>2, <1>3 DEF StrictOnce, Strict
<1>6. ASSUME NEW g \in files, Plain(VersionOf[g]), VersionOf[g] # VersionOf[f]
      PROVE  ToldOf(g)'
  <2>1. ToldOf(g)
    BY <1>6 DEF Told
  <2>2. Applied(g)' <=> Applied(g)
    BY <1>1, <1>2, <1>6 DEF Commit, Applied
  <2>3. There(g)' <=> There(g)
    BY <1>2, <1>6 DEF There
  <2>4. \A h \in files :
          VersionOf[h] = VersionOf[g] /\ effect'[g] = 1 /\ effect'[h] = 1 => g = h
    BY <1>2, <1>6, <2>1 DEF ToldOf
  <2>5. \A q \in Processes : doing'[q] = g => row'[q] # "absent"
    BY <1>2, <2>1 DEF ToldOf
  <2> QED
    BY <1>2, <2>1, <2>2, <2>3, <2>4, <2>5 DEF ToldOf
<1>7. ASSUME NEW g \in files, Plain(VersionOf[g]), VersionOf[g] = VersionOf[f]
      PROVE  ToldOf(g)'
  <2>1. ToldOf(g) /\ ToldOf(f) /\ Strict(f)
    BY <1>1, <1>7 DEF Told, Plain
  <2>2. row[p] = "written"
    BY <1>1, <2>1 DEF ToldOf, Commit
  <2>3. \A q \in Processes : doing'[q] = g => row'[q] # "absent"
    BY <1>2, <2>1 DEF ToldOf
  <2>4. CASE cmd[p] = "up"
    <3>1. ~Applied(f) /\ VersionOf[g] \in applied'
      BY <1>1, <1>7, <2>2, <2>4 DEF RowsLocked, Written, Applied, Commit
    <3>2. \A h \in files : VersionOf[h] = VersionOf[f] => effect[h] # 1
      BY <2>1, <3>1 DEF ToldOf, There
    <3>3. \A h \in files : VersionOf[h] = VersionOf[f] => (effect'[h] = 1 <=> h = f)
      BY <1>2, <1>3, <2>1, <2>4, <3>2
    <3> QED
      BY <1>1, <1>2, <1>7, <2>3, <3>1, <3>3 DEF ToldOf, Applied, There
  <2>5. CASE cmd[p] = "down"
    <3>1. VersionOf[g] \notin applied'
      BY <1>1, <1>7, <2>2, <2>5 DEF Commit
    <3>2. \A h \in files : VersionOf[h] = VersionOf[f] => (effect[h] = 1 <=> h = f)
      BY <1>3, <2>1, <2>5 DEF ToldOf
    <3>3. \A h \in files : VersionOf[h] = VersionOf[f] => effect'[h] # 1
      BY <1>2, <1>3, <2>1, <2>5, <3>2
    <3> QED
      BY <1>2, <1>7, <2>3, <3>1, <3>3 DEF ToldOf, Applied, There
  <2> QED
    BY <1>1, <2>4, <2>5
<1> QED
  BY <1>2, <1>4, <1>5, <1>6, <1>7 DEF Told, Plain

\* Every step keeps table and schema in agreement.
LEMMA NextTruth == Truth /\ [Next]_vars => Truth'
<1> SUFFICES ASSUME Truth, [Next]_vars PROVE Truth'
  OBVIOUS
<1>0. Ordered'
  BY NextOrdered DEF Truth
<1>1. ASSUME NEW f \in Files, Create(f) PROVE Truth'
  BY <1>0, <1>1, CreateTruth
<1>2. ASSUME NEW f \in Files, ForceVersion(f) PROVE Truth'
  BY <1>0, <1>2, ForceTruth
<1>3. ASSUME NEW p \in Processes, NEW c \in {"up", "down"}, Begin(p, c) PROVE Truth'
  <2>1. doing[p] = None
    BY <1>3 DEF Begin, Truth, Ordered, Locked, TypeOK
  <2> QED
    BY <1>0, <1>3, <2>1, QuietTruth DEF Begin, tx, Truth, Ordered, Locked, TypeOK
<1>4. ASSUME NEW p \in Processes, NEW f \in Files, Script(p, f) PROVE Truth'
  BY <1>0, <1>4, ScriptTruth
<1>5. ASSUME NEW p \in Processes, Insert(p) \/ Delete(p) PROVE Truth'
  BY <1>0, <1>5, RecordTruth
<1>6. ASSUME NEW p \in Processes, Commit(p) PROVE Truth'
  BY <1>0, <1>6, CommitTruth
<1>7. ASSUME NEW p \in Processes, Fail(p) \/ Finish(p) PROVE Truth'
  <2>1. /\ UNCHANGED <<files, applied, effect, forced>>
        /\ doing'[p] = None
        /\ \A q \in Processes \ {p} :
             doing'[q] = doing[q] /\ row'[q] = row[q] /\ cmd'[q] = cmd[q]
    BY <1>7 DEF Fail, Finish, Idle, NoTx, tx, Truth, Ordered, Locked, TypeOK
  <2> QED
    BY <1>0, <2>1, QuietTruth
<1>8. CASE UNCHANGED vars
  BY <1>0, <1>8, QuietTruth DEF vars, tx
<1> QED
  BY <1>1, <1>2, <1>3, <1>4, <1>5, <1>6, <1>7, <1>8 DEF Next

\* What Told says of a version is what the property counts: the set of its files
\* that are in the schema has one member if the version is recorded, else none.
LEMMA TruthTold == Truth => TableTellsTruth
<1> SUFFICES ASSUME Truth PROVE TableTellsTruth
  OBVIOUS
<1> USE DEF Truth
<1>1. SUFFICES ASSUME NEW v \in {VersionOf[f] : f \in files} \ forced,
                      \A f \in files : VersionOf[f] = v => Strict(f)
               PROVE  /\ \A f \in files : VersionOf[f] = v => effect[f] \in {0, 1}
                      /\ Cardinality(Present(v)) = IF v \in applied THEN 1 ELSE 0
  BY DEF TableTellsTruth
<1>2. \A f \in files : VersionOf[f] = v => effect[f] \in {0, 1} /\ ToldOf(f)
  BY <1>1 DEF StrictOnce, Told, Plain
<1>3. CASE v \in applied
  <2>1. PICK f \in files : VersionOf[f] = v /\ effect[f] = 1
    BY <1>2, <1>3 DEF ToldOf, Applied, There
  <2>2. Present(v) = {f}
    BY <1>2, <2>1 DEF Present, ToldOf
  <2>3. Cardinality({f}) = 1
    BY FS_Singleton
  <2> QED
    BY <1>2, <1>3, <2>2, <2>3
<1>4. CASE v \notin applied
  <2>1. Present(v) = {}
    BY <1>2, <1>4 DEF Present, ToldOf, Applied, There
  <2> QED
    BY <1>2, <1>4, <2>1, FS_EmptySet
<1> QED
  BY <1>3, <1>4

\* Whatever ran at the same time, failed or was killed: a version whose scripts
\* are strict is recorded if and only if one of them is in the schema.
THEOREM TableIsTrue == Spec => []TableTellsTruth
<1> QED
  BY InitTruth, NextTruth, TruthTold, PTL DEF Spec
===========================================================================
