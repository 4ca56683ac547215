------------------------ MODULE RecordsAndPanelsProofs ------------------------
(***************************************************************************)
(* Proofs about the records and the panels.                                *)
(*                                                                         *)
(* Startup: for any number of processes, releases, starts and crashes, a   *)
(* migration is committed once, and nobody is served before all migrations *)
(* of the release are on record.  The advisory lock makes the argument:    *)
(* between its reading of the ledger and its release, only the holder      *)
(* writes the database.                                                    *)
(* Reports: for any number of savers and calls, the report of a day is     *)
(* one, agrees with its scores, and stays once it was parsed.  The         *)
(* argument is about what an open transaction has locked: whoever has      *)
(* inserted is alone and has locked all that is committed, none of it      *)
(* parsed.                                                                 *)
(* Panels: for any number of people, handlers and presses, whoever gains   *)
(* or loses rights meanwhile, a press is answered once, no change is lost, *)
(* and a setting changes only for an administrator.                        *)
(* PanelMemory: for any bounds and any number of people and panels, both   *)
(* maps stay bounded and forget only what is old or crowded out.           *)
(* AuditLog: for any number of writers, any times and any old log, wherever *)
(* a write or a cleanup is cut, a record stays in the file for its week.   *)
(***************************************************************************)
EXTENDS Startup, Reports, AuditLog, Panels, PanelMemory, SequenceTheorems, FiniteSetTheorems, TLAPS

(***************************************************************************)
(* Startup: migrations under the advisory lock                             *)
(***************************************************************************)
Holding == {"schema", "ledger", "adopt", "read", "apply", "record", "unlock"}
Places == Holding \cup {"off", "connect", "lock", "preflight", "running", "exited"}

Process == [pc : Places, attempt : Nat, todo : SUBSET Versions, file : Nat, ok : BOOLEAN,
            parts : SUBSET Parts, cancelled : BOOLEAN, err : Parts \cup {"none"},
            starts : Nat]
Database == [schema : BOOLEAN, ledgerTable : BOOLEAN, ledger : SUBSET Nat,
             alembic : {"none", "empty", "head", "older", "newer"},
             tables : {"none", "whole", "differs"}, ran : [Versions -> Nat]]

StartupTypes == db \in Database /\ lock \in Procs \cup {"free"} /\ proc \in [Procs -> Process]

\* Who holds the lock is at work on the database, and nobody else is.
LockHeld == \A p \in Procs : proc[p].pc \in Holding <=> lock = p

\* What the process x of the release F knows of the ledger: the holder of the lock knows
\* what the ledger lacks, and who is past its migrations lacks nothing.
KnowsLedger(x, F, ledger) ==
  /\ x.pc \in {"apply", "record"} => x.todo = F \ ledger
  /\ x.pc = "record" => x.file \in x.todo
  /\ x.ok => F \subseteq ledger
  /\ x.pc = "preflight" \/ x.parts # {} => x.ok

Knows == \A p \in Procs : KnowsLedger(proc[p], Files[p], db.ledger)

\* A recorded baseline is whole, whoever made it.
Whole == 1 \in db.ledger => db.tables = "whole"

\* The inductive invariant.
StartupInv == StartupTypes /\ LockHeld /\ Knows /\ Whole /\ MigrationsRunOnce

LEMMA VersionsOfFiles == \A p \in Procs : Files[p] \subseteq Versions /\ Files[p] \subseteq Nat
BY StartupAssumption DEF Versions

\* The record of a process that was just started, or is not yet.
LEMMA FreshProcess ==
  ASSUME NEW n \in Nat, NEW pc \in Places
  PROVE  LET new == [Off EXCEPT !.pc = pc, !.starts = n] IN
         new \in Process /\ new.pc = pc /\ ~new.ok /\ new.parts = {}
BY DEF Off, Process

LEMMA StartupInitTypes == StartupInit => StartupInv
<1> SUFFICES ASSUME StartupInit PROVE StartupInv
  OBVIOUS
<1>1. Off \in Process
  BY DEF Off, Process, Places, Holding
<1>2. proc \in [Procs -> Process] /\ \A p \in Procs : proc[p] = Off
  BY <1>1 DEF StartupInit
<1>3. LockHeld
  BY <1>2, StartupAssumption DEF LockHeld, StartupInit, Off, Holding
<1>4. Knows
  BY <1>2 DEF Knows, KnowsLedger, Off
<1>5. db \in Database /\ Whole /\ MigrationsRunOnce
  <2>1. NewDatabase \in Database
    BY DEF NewDatabase, Database
  <2>2. ASSUME db \in Database, db.ledger = {}, \A v \in Versions : db.ran[v] = 0
        PROVE  Whole /\ MigrationsRunOnce
    BY <2>2 DEF Whole, MigrationsRunOnce
  <2>3. CASE db \in {NewDatabase, [NewDatabase EXCEPT !.schema = TRUE]}
    <3>1. db \in Database
      BY <2>1, <2>3, Zenon DEF Database
    <3> QED BY <3>1, <2>2, <2>3 DEF NewDatabase
  <2>4. CASE db = MigratedDatabase
    <3> DEFINE once == [v \in Versions |-> IF v = 1 THEN 1 ELSE 0]
    <3>1. once \in [Versions -> Nat] /\ \A v \in Versions : once[v] = IF v = 1 THEN 1 ELSE 0
      OBVIOUS
    <3>2. db = [NewDatabase EXCEPT !.schema = TRUE, !.ledgerTable = TRUE, !.tables = "whole",
                                   !.ledger = {1}, !.ran = once]
      BY <2>4 DEF MigratedDatabase
    <3> HIDE DEF once
    <3>3. db \in Database
      <4>1. db = [schema |-> TRUE, ledgerTable |-> TRUE, ledger |-> {1}, alembic |-> "none",
                  tables |-> "whole", ran |-> once]
        BY <3>2 DEF NewDatabase
      <4> QED BY <3>1, <4>1 DEF Database
    <3>4. db.ledger = {1} /\ db.tables = "whole" /\ db.ran = once
      BY <2>1, <3>2 DEF Database
    <3> QED BY <3>1, <3>3, <3>4 DEF Whole, MigrationsRunOnce
  <2>5. CASE \E rev \in {"none", "empty", "head", "older", "newer"} :
               \E t \in {"whole", "differs"} : db = PythonDatabase(rev, t)
    <3>1. db \in Database
      BY <2>1, <2>5 DEF Database, PythonDatabase
    <3>2. db.ledger = NewDatabase.ledger /\ db.ran = NewDatabase.ran
      BY <2>1, <2>5 DEF Database, PythonDatabase
    <3> QED BY <3>1, <3>2, <2>2 DEF NewDatabase
  <2> QED BY <2>3, <2>4, <2>5 DEF StartupInit, Databases
<1> QED BY <1>2, <1>3, <1>4, <1>5 DEF StartupInv, StartupTypes, StartupInit

\* A step of one process that leaves the database and the lock alone.
LEMMA ProcessStep ==
  ASSUME StartupInv, NEW p \in Procs, UNCHANGED <<db, lock>>,
         proc' \in [Procs -> Process], \A q \in Procs \ {p} : proc'[q] = proc[q],
         proc'[p].pc \in Holding <=> proc[p].pc \in Holding,
         KnowsLedger(proc'[p], Files[p], db.ledger)
  PROVE  StartupInv'
<1>1. StartupTypes' /\ Whole' /\ MigrationsRunOnce'
  BY DEF StartupInv, StartupTypes, Whole, MigrationsRunOnce
<1>2. LockHeld'
  BY DEF StartupInv, LockHeld
<1>3. Knows'
  BY DEF StartupInv, Knows
<1> QED BY <1>1, <1>2, <1>3 DEF StartupInv

\* The steps before and after the migrations, and the ones that write nothing.
LEMMA ProcessSteps ==
  ASSUME StartupInv, NEW p \in Procs, UNCHANGED <<db, lock>>,
         \/ Start(p) \/ Connect(p) \/ AppliedVersions(p) \/ RunFile(p) \/ Migrated(p)
         \/ StatementFails(p) \/ Preflight(p) \/ Signal(p) \/ Exit(p)
         \/ \E part \in Parts : PartFails(p, part) \/ PartReturns(p, part)
  PROVE  StartupInv'
<1> DEFINE x == proc[p]  y == proc'[p]
<1>1. x \in Process /\ KnowsLedger(x, Files[p], db.ledger) /\ proc \in [Procs -> Process]
  BY DEF StartupInv, StartupTypes, Knows
<1>2. /\ proc' \in [Procs -> Process] /\ \A q \in Procs \ {p} : proc'[q] = proc[q]
      /\ y.pc \in Holding <=> x.pc \in Holding
      /\ KnowsLedger(y, Files[p], db.ledger)
  <2> USE DEF At, Go, Holding, Places
  <2>1. CASE Start(p)
    <3> DEFINE new == [Off EXCEPT !.pc = "connect", !.starts = proc[p].starts + 1]
    <3>1. x.starts + 1 \in Nat
      BY <1>1 DEF Process
    <3>2. new \in Process /\ new.pc = "connect" /\ ~new.ok /\ new.parts = {}
      BY <3>1, FreshProcess
    <3>3. proc' = [proc EXCEPT ![p] = new] /\ x.pc = "off"
      BY <2>1 DEF Start
    <3> HIDE DEF new
    <3> QED BY <1>1, <3>2, <3>3 DEF KnowsLedger
  <2>2. CASE Connect(p)
    BY <1>1, <2>2 DEF Connect, Process, KnowsLedger
  <2>3. CASE AppliedVersions(p)
    BY <1>1, <2>3, VersionsOfFiles DEF AppliedVersions, Process, KnowsLedger
  <2>4. CASE RunFile(p)
    <3>1. PICK v \in x.todo : proc' = [proc EXCEPT ![p].pc = "record", ![p].file = v]
      BY <2>4 DEF RunFile
    <3>2. x.pc = "apply" /\ v \in Nat
      BY <1>1, <2>4, <3>1, VersionsOfFiles DEF RunFile, KnowsLedger
    <3> QED BY <1>1, <3>1, <3>2 DEF Process, KnowsLedger
  <2>5. CASE Migrated(p)
    BY <1>1, <2>5 DEF Migrated, Process, KnowsLedger
  <2>6. CASE StatementFails(p)
    BY <1>1, <2>6 DEF StatementFails, Process, KnowsLedger
  <2>7. CASE Preflight(p)
    BY <1>1, <2>7 DEF Preflight, Process, KnowsLedger
  <2>8. CASE Signal(p)
    BY <1>1, <2>8 DEF Signal, Process, KnowsLedger
  <2>9. CASE Exit(p)
    BY <1>1, <2>9 DEF Exit, Process, KnowsLedger
  <2>10. CASE \E part \in Parts : PartFails(p, part)
    <3>1. PICK part \in Parts : PartFails(p, part)
      BY <2>10
    <3>2. /\ proc' = [proc EXCEPT ![p].parts = @ \ {part}, ![p].cancelled = TRUE,
                                  ![p].err = IF @ = "none" THEN part ELSE @]
          /\ x.pc = "running" /\ part \in x.parts
      BY <3>1 DEF PartFails
    <3>3. (IF x.err = "none" THEN part ELSE x.err) \in Parts \cup {"none"}
      BY <1>1 DEF Process
    <3> QED BY <1>1, <3>2, <3>3 DEF Process, KnowsLedger
  <2>11. CASE \E part \in Parts : PartReturns(p, part)
    BY <1>1, <2>11 DEF PartReturns, Process, KnowsLedger
  <2> QED BY <2>1, <2>2, <2>3, <2>4, <2>5, <2>6, <2>7, <2>8, <2>9, <2>10, <2>11
<1> QED BY <1>2, ProcessStep

\* A step of the holder of the lock, which may add to the ledger and keeps the lock.
LEMMA HolderStep ==
  ASSUME StartupInv, NEW p \in Procs, UNCHANGED lock, proc[p].pc \in Holding,
         proc' \in [Procs -> Process], \A q \in Procs \ {p} : proc'[q] = proc[q],
         proc'[p].pc \in Holding, db' \in Database, db.ledger \subseteq db'.ledger,
         KnowsLedger(proc'[p], Files[p], db'.ledger), Whole', MigrationsRunOnce'
  PROVE  StartupInv'
<1>1. lock = p /\ \A q \in Procs \ {p} : proc[q].pc \notin Holding
  BY DEF StartupInv, LockHeld
<1>2. StartupTypes' /\ LockHeld'
  BY <1>1 DEF StartupInv, StartupTypes, LockHeld
<1>3. ASSUME NEW q \in Procs \ {p} PROVE KnowsLedger(proc'[q], Files[q], db'.ledger)
  <2>1. KnowsLedger(proc[q], Files[q], db.ledger) /\ proc[q].pc \notin {"apply", "record"}
    BY <1>1 DEF StartupInv, Knows, Holding
  <2> QED BY <2>1 DEF KnowsLedger
<1>4. Knows'
  BY <1>3 DEF Knows
<1> QED BY <1>2, <1>4 DEF StartupInv

LEMMA EnsureSteps ==
  ASSUME StartupInv, NEW p \in Procs, EnsureSchema(p) \/ EnsureLedger(p)
  PROVE  StartupInv'
<1> DEFINE x == proc[p]  y == proc'[p]
<1>1. x \in Process /\ KnowsLedger(x, Files[p], db.ledger) /\ proc \in [Procs -> Process]
  BY DEF StartupInv, StartupTypes, Knows
<1>2. /\ x.pc \in {"schema", "ledger"} /\ UNCHANGED lock
      /\ \E pc \in {"ledger", "adopt"} : proc' = [proc EXCEPT ![p].pc = pc]
      /\ db' = [db EXCEPT !.schema = TRUE] \/ db' = [db EXCEPT !.ledgerTable = TRUE]
  BY DEF EnsureSchema, EnsureLedger, At, Go
<1>3. /\ db' \in Database /\ db'.ledger = db.ledger /\ db'.ran = db.ran
      /\ db'.tables = db.tables /\ db'.alembic = db.alembic
  BY <1>2 DEF StartupInv, StartupTypes, Database
<1>4. /\ proc' \in [Procs -> Process] /\ \A q \in Procs \ {p} : proc'[q] = proc[q]
      /\ x.pc \in Holding /\ y.pc \in Holding /\ KnowsLedger(y, Files[p], db.ledger)
  BY <1>1, <1>2 DEF Process, KnowsLedger, Holding, Places
<1>5. Whole' /\ MigrationsRunOnce'
  BY <1>3 DEF StartupInv, Whole, MigrationsRunOnce
<1> QED BY <1>2, <1>3, <1>4, <1>5, HolderStep

\* adoptAlembic records the baseline only where its tables are whole.
LEMMA AdoptStep ==
  ASSUME StartupInv, NEW p \in Procs, AdoptAlembic(p)
  PROVE  StartupInv'
<1> DEFINE x == proc[p]  y == proc'[p]
<1>1. x \in Process /\ KnowsLedger(x, Files[p], db.ledger) /\ proc \in [Procs -> Process]
  BY DEF StartupInv, StartupTypes, Knows
<1>2. /\ x.pc = "adopt" /\ UNCHANGED lock
      /\ \E pc \in {"read", "unlock"} : proc' = [proc EXCEPT ![p].pc = pc]
      /\ \/ db' = db
         \/ /\ db.ledger = {} /\ db.alembic = "head" /\ db.tables = "whole"
            /\ db' = [db EXCEPT !.ledger = {1}]
  BY DEF AdoptAlembic, At, Go
<1>3. db' \in Database /\ db.ledger \subseteq db'.ledger /\ Whole' /\ MigrationsRunOnce'
  <2>1. CASE db' = db
    BY <2>1 DEF StartupInv, StartupTypes, Whole, MigrationsRunOnce
  <2>2. CASE /\ db.ledger = {} /\ db.alembic = "head" /\ db.tables = "whole"
             /\ db' = [db EXCEPT !.ledger = {1}]
    <3>1. /\ db' \in Database /\ db'.ledger = {1} /\ db'.ran = db.ran
          /\ db'.tables = "whole" /\ db'.alembic = "head"
      BY <2>2 DEF StartupInv, StartupTypes, Database
    <3> QED BY <2>2, <3>1 DEF StartupInv, Whole, MigrationsRunOnce
  <2> QED BY <1>2, <2>1, <2>2
<1>4. /\ proc' \in [Procs -> Process] /\ \A q \in Procs \ {p} : proc'[q] = proc[q]
      /\ x.pc \in Holding /\ y.pc \in Holding /\ KnowsLedger(y, Files[p], db'.ledger)
  BY <1>1, <1>2, <1>3 DEF Process, KnowsLedger, Holding, Places
<1> QED BY <1>2, <1>3, <1>4, HolderStep

\* A file is recorded by the holder that found it missing: it had not run before.
LEMMA RecordStep ==
  ASSUME StartupInv, NEW p \in Procs, RecordFile(p)
  PROVE  StartupInv'
<1> DEFINE x == proc[p]  y == proc'[p]  v == proc[p].file
<1>1. x \in Process /\ KnowsLedger(x, Files[p], db.ledger) /\ proc \in [Procs -> Process]
  BY DEF StartupInv, StartupTypes, Knows
<1>2. /\ x.pc = "record" /\ UNCHANGED lock
      /\ proc' = [proc EXCEPT ![p].pc = "apply", ![p].todo = @ \ {v}, ![p].file = 0]
      /\ db' = [db EXCEPT !.ledger = @ \cup {v}, !.ran[v] = @ + 1,
                          !.tables = IF v = 1 THEN "whole" ELSE @]
  BY DEF RecordFile, At
<1>3. v \in Versions /\ v \in Nat /\ v \notin db.ledger /\ x.todo = Files[p] \ db.ledger
  BY <1>1, <1>2, VersionsOfFiles DEF KnowsLedger
<1>4. db.ran[v] = 0
  <2>1. db.ran[v] \in Nat /\ db.ran[v] <= 1 /\ db.ran[v] # 1
    BY <1>3 DEF StartupInv, StartupTypes, Database, MigrationsRunOnce
  <2> QED BY <2>1
<1>5. /\ db' \in Database /\ db'.ledger = db.ledger \cup {v} /\ db'.alembic = db.alembic
      /\ db'.tables = IF v = 1 THEN "whole" ELSE db.tables
      /\ db'.ran = [db.ran EXCEPT ![v] = 1]
  <2> DEFINE once == [db.ran EXCEPT ![v] = @ + 1]
             whole == IF v = 1 THEN "whole" ELSE db.tables
  <2>1. db \in Database
    BY DEF StartupInv, StartupTypes
  <2>2. once = [db.ran EXCEPT ![v] = 1] /\ once \in [Versions -> Nat]
    BY <1>3, <1>4, <2>1 DEF Database
  <2>3. db' = [db EXCEPT !.ledger = db.ledger \cup {v}, !.ran = once, !.tables = whole]
    BY <1>2, <2>1 DEF Database
  <2>4. whole \in {"none", "whole", "differs"}
    BY <2>1 DEF Database
  <2>5. db.ledger \cup {v} \in SUBSET Nat
    BY <1>3, <2>1 DEF Database
  <2> HIDE DEF once, whole
  <2>6. /\ db' \in Database /\ db'.ledger = db.ledger \cup {v} /\ db'.alembic = db.alembic
        /\ db'.tables = whole /\ db'.ran = once
    BY <2>1, <2>2, <2>3, <2>4, <2>5 DEF Database
  <2> QED BY <2>2, <2>6 DEF whole
<1>6. Whole' /\ MigrationsRunOnce'
  <2>1. Whole'
    BY <1>5 DEF StartupInv, Whole
  <2>2. \A u \in Versions : db'.ran[u] = IF u = v THEN 1 ELSE db.ran[u]
    BY <1>5 DEF StartupInv, StartupTypes, Database
  <2> QED BY <1>5, <2>1, <2>2 DEF StartupInv, MigrationsRunOnce
<1>7. /\ proc' \in [Procs -> Process] /\ \A q \in Procs \ {p} : proc'[q] = proc[q]
      /\ x.pc \in Holding /\ y.pc \in Holding /\ KnowsLedger(y, Files[p], db'.ledger)
  BY <1>1, <1>2, <1>3, <1>5 DEF Process, KnowsLedger, Holding, Places
<1> QED BY <1>2, <1>5, <1>6, <1>7, HolderStep

\* The lock changes hands: it is taken while free, and given up or lost by its holder.
LEMMA LockSteps ==
  ASSUME StartupInv, NEW p \in Procs, TakeLock(p) \/ Unlock(p) \/ Die(p)
  PROVE  StartupInv'
<1> DEFINE x == proc[p]  y == proc'[p]
<1>1. x \in Process /\ KnowsLedger(x, Files[p], db.ledger) /\ proc \in [Procs -> Process]
  BY DEF StartupInv, StartupTypes, Knows
<1>2. /\ UNCHANGED db /\ lock' \in Procs \cup {"free"}
      /\ proc' \in [Procs -> Process] /\ \A q \in Procs \ {p} : proc'[q] = proc[q]
      /\ KnowsLedger(y, Files[p], db.ledger)
      /\ y.pc \in Holding <=> lock' = p
      /\ \A q \in Procs \ {p} : lock' = q <=> lock = q
  <2> USE DEF At, Go, Holding, Places
  <2>1. CASE TakeLock(p)
    BY <1>1, <2>1, StartupAssumption DEF TakeLock, Process, KnowsLedger, StartupInv, LockHeld, StartupTypes
  <2>2. CASE Unlock(p)
    BY <1>1, <2>2, StartupAssumption DEF Unlock, Process, KnowsLedger, StartupInv, LockHeld
  <2>3. CASE Die(p)
    <3> DEFINE new == [Off EXCEPT !.starts = proc[p].starts]
    <3>1. new \in Process /\ new.pc = "off" /\ ~new.ok /\ new.parts = {}
      BY <1>1 DEF Off, Process
    <3>2. proc' = [proc EXCEPT ![p] = new] /\ UNCHANGED db
          /\ lock' = IF lock = p THEN "free" ELSE lock
      BY <2>3 DEF Die
    <3> HIDE DEF new
    <3> QED BY <1>1, <3>1, <3>2, StartupAssumption DEF KnowsLedger, StartupInv, StartupTypes
  <2> QED BY <2>1, <2>2, <2>3
<1>3. StartupTypes' /\ Whole' /\ MigrationsRunOnce'
  BY <1>2 DEF StartupInv, StartupTypes, Whole, MigrationsRunOnce
<1>4. LockHeld' /\ Knows'
  BY <1>2 DEF StartupInv, LockHeld, Knows
<1> QED BY <1>3, <1>4 DEF StartupInv

-----------------------------------------------------------------------------
\* The argument above holds in every state (migrate.go:24).
THEOREM StartupInvariant == StartupSpec => []StartupInv
<1>1. StartupInv /\ [StartupNext]_startupVars => StartupInv'
  <2> SUFFICES ASSUME StartupInv, [StartupNext]_startupVars PROVE StartupInv'
    OBVIOUS
  <2>1. CASE UNCHANGED startupVars
    BY <2>1 DEF startupVars, StartupInv, StartupTypes, LockHeld, Knows, Whole, MigrationsRunOnce
  <2>2. ASSUME NEW p \in Procs,
               \/ Start(p) \/ Connect(p) \/ AppliedVersions(p) \/ RunFile(p) \/ Migrated(p)
               \/ StatementFails(p) \/ Preflight(p) \/ Signal(p) \/ Exit(p)
               \/ \E part \in Parts : PartFails(p, part) \/ PartReturns(p, part)
        PROVE  StartupInv'
    <3>1. UNCHANGED <<db, lock>>
      BY <2>2 DEF Start, Connect, AppliedVersions, RunFile, Migrated, StatementFails, Preflight,
                  Signal, Exit, PartFails, PartReturns
    <3> QED BY <2>2, <3>1, ProcessSteps
  <2>3. ASSUME NEW p \in Procs,
               \/ TakeLock(p) \/ Unlock(p) \/ Die(p) \/ EnsureSchema(p) \/ EnsureLedger(p)
               \/ AdoptAlembic(p) \/ RecordFile(p)
        PROVE  StartupInv'
    BY <2>3, LockSteps, EnsureSteps, AdoptStep, RecordStep
  <2> QED BY <2>1, <2>2, <2>3 DEF StartupNext
<1> QED BY <1>1, StartupInitTypes, PTL DEF StartupSpec

\* Each migration is committed once and recorded, and nobody is served on a database that
\* lacks one of its release or whose baseline is not whole.
THEOREM ServedAfterMigrations == StartupSpec => []MigratedOnceBeforeServing
<1>1. StartupInv => MigratedOnceBeforeServing
  <2> SUFFICES ASSUME StartupInv, NEW p \in Procs, proc[p].parts # {}
               PROVE  Files[p] \subseteq db.ledger /\ db.tables = "whole"
    BY DEF StartupInv, MigratedOnceBeforeServing, ServesMigratedOnly
  <2>1. Files[p] \subseteq db.ledger
    BY DEF StartupInv, Knows, KnowsLedger
  <2> QED BY <2>1, StartupAssumption DEF StartupInv, Whole
<1> QED BY <1>1, StartupInvariant, PTL

(***************************************************************************)
(* Reports: the transactions of one day                                    *)
(***************************************************************************)
Status == {"parsed", "failed"}
Row == [id : Nat, status : Status, blank : BOOLEAN]
Save == [pc : {"idle", "lookup", "lock", "insert", "scores", "commit"}, id : Nat,
         status : Status, sees : SUBSET Nat, deletes : SUBSET Nat]

ReportsTypes == run \subseteq Row /\ saver \in [Savers -> Save] /\ saves \in Nat

\* Only what is not parsed is to be deleted.
DeletesFailed ==
  \A s \in Savers : \A r \in run : r.id \in Deleting(s) => r.status = "failed"

\* Who has inserted deletes all that is committed, and nobody else inserts or deletes.
InsertedAlone ==
  \A s \in Savers : Inserted(s) =>
    /\ \A r \in run : r.id \in Deleting(s)
    /\ \A t \in Others(s) : ~Inserted(t) /\ Deleting(t) = {}

\* The inductive invariant.
ReportsInv == ReportsTypes /\ DeletesFailed /\ InsertedAlone /\ ReportWhole

\* A step that only changes one transaction.
LEMMA SaverStep ==
  ASSUME ReportsInv, NEW s \in Savers, NEW x \in Save, UNCHANGED <<run, scores>>,
         saves' \in Nat, saver' = [saver EXCEPT ![s] = x],
         \A r \in run : r.id \in x.deletes => r.status = "failed",
         x.pc \in {"scores", "commit"} =>
           /\ \A r \in run : r.id \in x.deletes
           /\ \A t \in Others(s) : ~Inserted(t) /\ Deleting(t) = {},
         (\E t \in Others(s) : Inserted(t)) => x.deletes = {}
  PROVE  ReportsInv'
<1>1. saver'[s] = x /\ \A t \in Savers \ {s} : saver'[t] = saver[t]
  BY DEF ReportsInv, ReportsTypes
<1>2. ReportsTypes' /\ ReportWhole'
  BY DEF ReportsInv, ReportsTypes, ReportWhole, Parsed
<1>3. DeletesFailed'
  BY <1>1 DEF ReportsInv, DeletesFailed, Deleting
<1>4. InsertedAlone'
  BY <1>1 DEF ReportsInv, InsertedAlone, Inserted, Deleting, Others
<1> QED BY <1>2, <1>3, <1>4 DEF ReportsInv

\* The statements of a transaction, and its rollback.
LEMMA StatementSteps ==
  ASSUME ReportsInv, NEW s \in Savers,
         Begin(s) \/ LookUp(s) \/ LockRow(s) \/ Insert(s) \/ InsertScores(s) \/ Abort(s)
  PROVE  ReportsInv'
<1> DEFINE x == saver'[s]
<1> USE DEF ReportsInv, ReportsTypes
<1>0. saver[s] \in Save /\ NoSave \in Save /\ NoSave.deletes = {} /\ NoSave.pc = "idle"
  BY DEF Save, NoSave, Status
<1>1. CASE Begin(s)
  <2>1. PICK status \in Status :
          saver' = [saver EXCEPT ![s] = [NoSave EXCEPT !.pc = "lookup", !.id = saves + 1, !.status = status]]
    BY <1>1 DEF Begin, Status
  <2>2. x = [NoSave EXCEPT !.pc = "lookup", !.id = saves + 1, !.status = status]
    BY <2>1
  <2>3. x \in Save /\ x.pc = "lookup" /\ x.deletes = {}
    <3>1. x = [pc |-> "lookup", id |-> saves + 1, status |-> status, sees |-> {}, deletes |-> {}]
      BY <2>2 DEF NoSave
    <3> HIDE DEF x
    <3> QED BY <3>1 DEF Save
  <2>4. saver' = [saver EXCEPT ![s] = x] /\ UNCHANGED <<run, scores>> /\ saves' \in Nat
    BY <1>1, <2>1, <2>2 DEF Begin
  <2> HIDE DEF x, ReportsInv, ReportsTypes
  <2> QED BY <2>3, <2>4, SaverStep
<1>2. CASE LookUp(s)
  <2>1. x \in Save /\ x.pc = "lock" /\ x.deletes = Deleting(s) /\ saver' = [saver EXCEPT ![s] = x]
    <3> DEFINE ids == {r.id : r \in run}
    <3>1. ids \in SUBSET Nat
      BY DEF Row
    <3>2. saver' = [saver EXCEPT ![s].pc = "lock", ![s].sees = ids]
      BY <1>2 DEF LookUp
    <3> HIDE DEF ids
    <3> QED BY <1>0, <3>1, <3>2 DEF Save, Deleting
  <2>2. UNCHANGED <<run, scores, saves>>
    BY <1>2 DEF LookUp
  <2> QED BY <2>1, <2>2, SaverStep DEF DeletesFailed, InsertedAlone, Others
<1>3. CASE LockRow(s)
  <2>1. CASE \E r \in Seen(s) : r.status = "parsed"
    BY <1>0, <1>3, <2>1, SaverStep DEF LockRow, Over
  <2>2. CASE ~ \E r \in Seen(s) : r.status = "parsed"
    <3>1. /\ x \in Save /\ x.pc = "insert" /\ x.deletes = {r.id : r \in Seen(s)}
          /\ saver' = [saver EXCEPT ![s] = x] /\ UNCHANGED <<run, scores, saves>>
      BY <1>0, <1>3, <2>2 DEF LockRow, Save, Seen, Row
    <3>2. \A r \in run : r.id \in x.deletes => r.status = "failed"
      BY <2>2, <3>1 DEF Seen, ReportWhole, Parsed, Row, Status
    <3>3. (\E t \in Others(s) : Inserted(t)) => x.deletes = {}
      BY <1>3, <3>1 DEF LockRow, Seen, Deleting, InsertedAlone, Others
    <3> QED BY <3>1, <3>2, <3>3, SaverStep
  <2> QED BY <2>1, <2>2
<1>4. CASE Insert(s)
  <2>1. CASE ~({r.id : r \in run} \subseteq Deleting(s))
    BY <1>0, <1>4, <2>1, SaverStep DEF Insert, Over
  <2>2. CASE {r.id : r \in run} \subseteq Deleting(s)
    <3>1. /\ x \in Save /\ x.pc \in {"scores", "commit"} /\ x.deletes = Deleting(s)
          /\ saver' = [saver EXCEPT ![s] = x] /\ UNCHANGED <<run, scores, saves>>
      BY <1>0, <1>4, <2>2 DEF Insert, Save, Deleting
    <3>2. \A t \in Others(s) : ~Inserted(t) /\ Deleting(t) = {}
      BY <1>4 DEF Insert
    <3> QED BY <2>2, <3>1, <3>2, SaverStep DEF DeletesFailed
  <2> QED BY <2>1, <2>2
<1>5. CASE InsertScores(s)
  <2>1. /\ x \in Save /\ x.pc = "commit" /\ x.deletes = Deleting(s) /\ Inserted(s)
        /\ saver' = [saver EXCEPT ![s] = x] /\ UNCHANGED <<run, scores, saves>>
    BY <1>0, <1>5 DEF InsertScores, Save, Deleting, Inserted
  <2> QED BY <2>1, SaverStep DEF DeletesFailed, InsertedAlone
<1>6. CASE Abort(s)
  BY <1>0, <1>6, SaverStep DEF Abort, Over
<1> QED BY <1>1, <1>2, <1>3, <1>4, <1>5, <1>6

\* A commit leaves one report, the new one, in place of one that was not parsed.
LEMMA CommitStep ==
  ASSUME ReportsInv, NEW s \in Savers, Commit(s)
  PROVE  ReportsInv' /\ (\A r \in run : r.status = "failed") /\ run' # {}
<1> DEFINE new == [id |-> saver[s].id, status |-> saver[s].status, blank |-> FALSE]
<1>1. saver[s] \in Save /\ NoSave \in Save /\ NoSave.deletes = {} /\ NoSave.pc = "idle"
  BY DEF Save, NoSave, Status, ReportsInv, ReportsTypes
<1>2. /\ saver[s].pc = "commit" /\ saver' = [saver EXCEPT ![s] = NoSave] /\ UNCHANGED saves
      /\ run' = {o \in run : o.id \notin saver[s].deletes} \cup {new}
      /\ scores' = {o \in scores : o.run \notin saver[s].deletes}
           \cup (IF saver[s].status = "parsed" THEN {[run |-> saver[s].id, blank |-> FALSE]} ELSE {})
  BY DEF Commit, Over
<1>3. /\ \A r \in run : r.id \in saver[s].deletes
      /\ \A t \in Others(s) : ~Inserted(t) /\ Deleting(t) = {}
  BY <1>2 DEF ReportsInv, InsertedAlone, Inserted, Deleting
<1>4. \A r \in run : r.status = "failed"
  BY <1>3 DEF ReportsInv, DeletesFailed, Deleting
<1>5. run' = {new} /\ new \in Row
  BY <1>1, <1>2, <1>3 DEF Save, Row
<1>6. scores = {}
  BY <1>4 DEF ReportsInv, ReportWhole, Parsed
<1>7. ReportWhole'
  <2> DEFINE parsed == Parsed'
  <2>1. CASE saver[s].status = "parsed"
    <3>1. parsed = {new} /\ scores' = {[run |-> saver[s].id, blank |-> FALSE]}
      BY <1>2, <1>5, <1>6, <2>1 DEF Parsed
    <3>2. {[run |-> r.id, blank |-> r.blank] : r \in parsed} = {[run |-> new.id, blank |-> new.blank]}
      BY <3>1
    <3> QED BY <1>5, <3>1, <3>2 DEF ReportWhole
  <2>2. CASE saver[s].status # "parsed"
    <3>1. parsed = {} /\ scores' = {}
      BY <1>2, <1>5, <1>6, <2>2 DEF Parsed
    <3> QED BY <1>5, <3>1 DEF ReportWhole, Parsed
  <2> QED BY <2>1, <2>2
<1>8. saver'[s] = NoSave /\ \A t \in Savers \ {s} : saver'[t] = saver[t]
  BY <1>2 DEF ReportsInv, ReportsTypes
<1>9. ReportsTypes' /\ DeletesFailed' /\ InsertedAlone'
  BY <1>1, <1>2, <1>3, <1>5, <1>8
     DEF ReportsInv, ReportsTypes, DeletesFailed, InsertedAlone, Deleting, Inserted, Others
<1> QED BY <1>4, <1>5, <1>7, <1>9 DEF ReportsInv

\* The removal of the text blanks the report and its scores together.
LEMMA ScrubStep ==
  ASSUME ReportsInv, Scrub
  PROVE  ReportsInv' /\ \A r \in run : \E q \in run' : q.id = r.id /\ q.status = r.status
<1>1. /\ run' = {[r EXCEPT !.blank = TRUE] : r \in run} /\ UNCHANGED <<saver, saves>>
      /\ scores' = {[run |-> o.run, blank |-> TRUE] : o \in scores}
  BY DEF Scrub
<1>2. \A r \in run : LET q == [r EXCEPT !.blank = TRUE] IN
        q \in Row /\ q.id = r.id /\ q.status = r.status /\ q.blank
  BY DEF ReportsInv, ReportsTypes, Row
<1>3. ReportsTypes'
  BY <1>1, <1>2 DEF ReportsInv, ReportsTypes
<1>4. ASSUME NEW q \in run'
      PROVE  \E r \in run : q = [r EXCEPT !.blank = TRUE] /\ q.id = r.id /\ q.status = r.status
  BY <1>1, <1>2
<1>5. DeletesFailed'
  BY <1>1, <1>4 DEF ReportsInv, DeletesFailed, Deleting
<1>6. InsertedAlone'
  BY <1>1, <1>4 DEF ReportsInv, InsertedAlone, Deleting, Inserted, Others
<1>7. ReportWhole'
  <2>1. CASE \A r \in run : r.status # "parsed"
    <3>1. scores = {} /\ scores' = {} /\ \A q \in run' : q.status # "parsed"
      BY <1>1, <1>4, <2>1 DEF ReportsInv, ReportWhole, Parsed
    <3>2. \A q, r \in run' : q = r
      BY <1>4, Zenon DEF ReportsInv, ReportWhole
    <3>3. Parsed' = {}
      BY <3>1 DEF Parsed
    <3> QED BY <3>1, <3>2, <3>3 DEF ReportWhole
  <2>2. CASE \E r \in run : r.status = "parsed"
    <3>1. PICK r \in run : r.status = "parsed" /\ run = {r}
      BY <2>2 DEF ReportsInv, ReportWhole, Parsed
    <3> DEFINE q == [r EXCEPT !.blank = TRUE]
    <3>2. run' = {q} /\ q.id = r.id /\ q.status = "parsed" /\ q.blank = TRUE
      BY <1>1, <3>1 DEF ReportsInv, ReportsTypes, Row
    <3>3. scores = {[run |-> r.id, blank |-> r.blank]}
      <4>1. Parsed = {r}
        BY <3>1 DEF Parsed
      <4> QED BY <4>1 DEF ReportsInv, ReportWhole
    <3>4. scores' = {[run |-> r.id, blank |-> TRUE]}
      BY <1>1, <3>3
    <3> HIDE DEF q
    <3>5. Parsed' = {q}
      BY <3>2 DEF Parsed
    <3>6. {[run |-> x.id, blank |-> x.blank] : x \in {q}} = {[run |-> r.id, blank |-> TRUE]}
      BY <3>2
    <3>7. \A x, y \in run' : x = y
      BY <3>2
    <3>8. scores' = {[run |-> x.id, blank |-> x.blank] : x \in Parsed'}
      BY <3>4, <3>5, <3>6, Zenon
    <3> QED BY <3>7, <3>8 DEF ReportWhole
  <2> QED BY <2>1, <2>2
<1>8. \A r \in run : \E q \in run' : q.id = r.id /\ q.status = r.status
  BY <1>1, <1>2
<1> QED BY <1>3, <1>5, <1>6, <1>7, <1>8 DEF ReportsInv

-----------------------------------------------------------------------------
\* The record of a day is one report that agrees with its scores, and a parsed one stays
\* (pgreports.go:120).
THEOREM ReportsAlwaysStand == ReportsSpec => []ReportWhole /\ ReportStands
<1>1. ReportsInit => ReportsInv
  BY DEF ReportsInit, ReportsInv, ReportsTypes, DeletesFailed, InsertedAlone, ReportWhole, Parsed, NoSave, Save,
         Status, Inserted
<1>2. ReportsInv /\ [ReportsNext]_reportsVars => ReportsInv' /\ ParsedReportStays
  <2> USE DEF ParsedReportStays
  <2> SUFFICES ASSUME ReportsInv, [ReportsNext]_reportsVars
               PROVE  ReportsInv' /\ ParsedReportStays
    OBVIOUS
  <2>1. ASSUME NEW s \in Savers,
               Begin(s) \/ LookUp(s) \/ LockRow(s) \/ Insert(s) \/ InsertScores(s) \/ Abort(s)
        PROVE  ReportsInv' /\ run' = run
    BY <2>1, StatementSteps DEF Begin, LookUp, LockRow, Insert, InsertScores, Abort
  <2>2. CASE UNCHANGED reportsVars
    BY <2>2 DEF reportsVars, ReportsInv, ReportsTypes, DeletesFailed, InsertedAlone, ReportWhole, Parsed, Inserted,
                Deleting
  <2> QED BY <2>1, <2>2, CommitStep, ScrubStep DEF ReportsNext
<1>3. ReportsInv => ReportWhole
  BY DEF ReportsInv
<1> QED BY <1>1, <1>2, <1>3, PTL DEF ReportsSpec, ReportStands

(***************************************************************************)
(* Panels: a press and the rights of its person                            *)
(***************************************************************************)
Steps == {"idle", "gate", "group", "admin", "act", "reread", "draw", "close", "answer", "done"}
Handler == [pc : Steps, who : People \cup {"none"}, owner : People \cup {"none", "nobody"},
            action : Actions, snap : [on : BOOLEAN, time : Nat, acceptedBy : People \cup {"none"}],
            everAdmin : BOOLEAN, answers : Nat]
Settings == [on : BOOLEAN, time : Nat, acceptedBy : People \cup {"none"}]

Live(x) == x.pc \notin {"idle", "done"}

\* Where a handler stands only after Telegram named its person an administrator.
Checked(x) ==
  \/ x.pc = "act" /\ AdminOnly(x.action)
  \/ x.pc = "group" /\ x.action = "accept"

\* What a handler is when the administrators are those of the set.
Sound(x, set) ==
  /\ x \in Handler
  /\ x.answers = IF x.pc = "done" THEN 1 ELSE 0
  /\ Live(x) /\ x.who \in set => x.everAdmin
  /\ Checked(x) => x.everAdmin

\* The inductive invariant.
PanelsInv ==
  /\ settings \in Settings /\ owed \in [on : BOOLEAN, time : Nat]
  /\ press \in [Handlers -> Handler]
  /\ \A h \in Handlers : Sound(press[h], admins)
  /\ NoLostPress

\* A step of one handler that changes neither the settings nor the rights.
LEMMA HandlerStep ==
  ASSUME PanelsInv, NEW h \in Handlers, NEW x, press' = [press EXCEPT ![h] = x],
         Sound(x, admins), UNCHANGED <<admins, settings, owed>>
  PROVE  PanelsInv'
<1>1. press'[h] = x /\ \A g \in Handlers \ {h} : press'[g] = press[g]
  BY DEF PanelsInv
<1>2. \A g \in Handlers : Sound(press'[g], admins)
  BY <1>1 DEF PanelsInv
<1>3. press' \in [Handlers -> Handler]
  BY DEF PanelsInv, Sound
<1> QED BY <1>2, <1>3 DEF PanelsInv, NoLostPress

\* A handler at work that goes on stays sound, if it was checked where it must be.
LEMMA MovedHandler ==
  ASSUME PanelsInv, NEW h \in Handlers, Live(press[h]), NEW pc \in Steps \ {"done"},
         Checked([press[h] EXCEPT !.pc = pc]) => press[h].everAdmin
  PROVE  Sound([press[h] EXCEPT !.pc = pc], admins)
<1> DEFINE x == press[h]  y == [x EXCEPT !.pc = pc]
<1>1. x \in Handler /\ x.answers = 0 /\ (x.who \in admins => x.everAdmin)
  BY DEF PanelsInv, Sound, Live
<1>2. /\ y \in Handler /\ y.pc = pc /\ y.who = x.who /\ y.answers = 0
      /\ y.everAdmin = x.everAdmin
  BY <1>1 DEF Handler
<1> QED BY <1>1, <1>2 DEF Sound

LEMMA Moved ==
  ASSUME PanelsInv, NEW h \in Handlers, Live(press[h]), NEW pc \in Steps \ {"done"},
         Checked([press[h] EXCEPT !.pc = pc]) => press[h].everAdmin,
         Moves(h, pc), UNCHANGED <<admins, settings, owed>>
  PROVE  PanelsInv'
<1>1. press' = [press EXCEPT ![h] = [press[h] EXCEPT !.pc = pc]]
  BY DEF Moves
<1>2. Sound([press[h] EXCEPT !.pc = pc], admins)
  BY MovedHandler
<1> QED BY <1>1, <1>2, HandlerStep

\* The same for a step that also reads the row.
LEMMA MovedAndRead ==
  ASSUME PanelsInv, NEW h \in Handlers, Live(press[h]), NEW pc \in Steps \ {"done"},
         Checked([press[h] EXCEPT !.pc = pc]) => press[h].everAdmin,
         press' = [press EXCEPT ![h].pc = pc, ![h].snap = settings],
         UNCHANGED <<admins, settings, owed>>
  PROVE  PanelsInv'
<1> DEFINE y == [press[h] EXCEPT !.pc = pc]  z == [y EXCEPT !.snap = settings]
<1>1. press' = [press EXCEPT ![h] = z]
  BY DEF PanelsInv
<1>2. Sound(y, admins)
  BY MovedHandler
<1>3. settings \in [on : BOOLEAN, time : Nat, acceptedBy : People \cup {"none"}]
  BY DEF PanelsInv, Settings
<1> HIDE DEF y
<1>4. /\ z \in Handler /\ z.pc = y.pc /\ z.who = y.who /\ z.answers = y.answers
      /\ z.everAdmin = y.everAdmin /\ z.action = y.action
  BY <1>2, <1>3 DEF Sound, Handler
<1>5. Sound(z, admins)
  BY <1>2, <1>4 DEF Sound, Live, Checked
<1> QED BY <1>1, <1>5, HandlerStep

\* The record of a handler that begins a press.
Begun(x, pc, who, owner, action, b) ==
  [x EXCEPT !.pc = pc, !.who = who, !.owner = owner, !.action = action, !.everAdmin = b]

LEMMA FreshHandler ==
  ASSUME NEW x \in Handler, NEW pc \in Steps, NEW who \in People \cup {"none"},
         NEW owner \in People \cup {"none", "nobody"}, NEW action \in Actions, NEW b \in BOOLEAN,
         NEW y, y = Begun(x, pc, who, owner, action, b)
  PROVE  y \in Handler /\ y.pc = pc /\ y.who = who /\ y.answers = x.answers /\ y.everAdmin = b
<1> DEFINE y1 == [x EXCEPT !.pc = pc]          y2 == [y1 EXCEPT !.who = who]
           y3 == [y2 EXCEPT !.owner = owner]   y4 == [y3 EXCEPT !.action = action]
           y5 == [y4 EXCEPT !.everAdmin = b]
<1>1. y1 \in Handler /\ y1.pc = pc /\ y1.answers = x.answers
  BY DEF Handler
<1> HIDE DEF y1
<1>2. y2 \in Handler /\ y2.pc = pc /\ y2.who = who /\ y2.answers = x.answers
  BY <1>1 DEF Handler
<1> HIDE DEF y2
<1>3. y3 \in Handler /\ y3.pc = pc /\ y3.who = who /\ y3.answers = x.answers
  BY <1>2 DEF Handler
<1> HIDE DEF y3
<1>4. y4 \in Handler /\ y4.pc = pc /\ y4.who = who /\ y4.answers = x.answers
  BY <1>3 DEF Handler
<1> HIDE DEF y4
<1>5. y5 \in Handler /\ y5.pc = pc /\ y5.who = who /\ y5.answers = x.answers /\ y5.everAdmin = b
  BY <1>4 DEF Handler
<1>6. y = y5
  BY DEF Begun, y1, y2, y3, y4
<1> QED BY <1>5, <1>6

LEMMA IdleHandler == Idle \in Handler /\ Idle.pc = "idle" /\ Idle.answers = 0 /\ ~Live(Idle)
BY DEF Idle, Handler, Steps, Actions, GroupActions, Live

\* The end of a press.
LEMMA PressOver ==
  ASSUME PanelsInv, NEW h \in Handlers, Live(press[h]), Answered(h),
         UNCHANGED <<admins, settings, owed>>
  PROVE  PanelsInv'
<1> DEFINE y == [Idle EXCEPT !.pc = "done", !.answers = press[h].answers + 1]
<1>1. press[h].answers = 0
  BY DEF PanelsInv, Sound, Live
<1>2. y = [Idle EXCEPT !.pc = "done", !.answers = 1]
  BY <1>1
<1> DEFINE z == [Idle EXCEPT !.pc = "done"]
<1>3. z \in Handler /\ z.pc = "done"
  BY IdleHandler DEF Handler, Steps
<1> HIDE DEF z
<1>4. [z EXCEPT !.answers = 1] \in Handler /\ [z EXCEPT !.answers = 1].pc = "done"
      /\ [z EXCEPT !.answers = 1].answers = 1
  BY <1>3 DEF Handler
<1>5. y = [z EXCEPT !.answers = 1]
  BY <1>2 DEF z
<1>6. Sound(y, admins)
  BY <1>4, <1>5 DEF Sound, Live, Checked
<1> QED BY <1>6, HandlerStep DEF Answered

\* A new press: its person was an administrator if they are one now.
LEMMA PressStep ==
  ASSUME PanelsInv, NEW h \in Handlers, Press(h)
  PROVE  PanelsInv'
<1>1. PICK who \in People, owner \in People \cup {"nobody"}, action \in Actions :
        press' = [press EXCEPT ![h] = [Idle EXCEPT !.pc = "gate", !.who = who, !.owner = owner,
                                         !.action = action, !.everAdmin = who \in admins]]
  BY DEF Press
<1>2. PICK b \in BOOLEAN : b = (who \in admins)
  <2>1. (who \in admins) \in BOOLEAN
    OBVIOUS
  <2> QED BY <2>1, Zenon
<1> DEFINE y == Begun(Idle, "gate", who, owner, action, b)
<1>3. /\ "gate" \in Steps /\ who \in People \cup {"none"}
      /\ owner \in People \cup {"none", "nobody"}
  BY DEF Steps
<1>4. /\ y \in Handler /\ y.pc = "gate" /\ y.who = who /\ y.answers = Idle.answers
      /\ y.everAdmin = b
  <2> HIDE DEF y
  <2>1. y = Begun(Idle, "gate", who, owner, action, b)
    BY DEF y
  <2> QED BY <1>3, <2>1, FreshHandler, IdleHandler
<1> HIDE DEF y
<1>5. Sound(y, admins)
  BY <1>2, <1>4, IdleHandler DEF Sound, Checked
<1>6. UNCHANGED <<admins, settings, owed>>
  BY DEF Press
<1> QED BY <1>1, <1>2, <1>5, <1>6, HandlerStep DEF Begun, y

\* The calls before the change, and the ones after it.
LEMMA CallSteps ==
  ASSUME PanelsInv, NEW h \in Handlers,
         \/ Gate(h) \/ ReadGroup(h) \/ CheckAdmin(h) \/ ChooseLanguage(h) \/ ActFails(h)
         \/ Reread(h) \/ Draw(h) \/ ClosePanel(h) \/ Respond(h)
  PROVE  PanelsInv'
<1> DEFINE x == press[h]
<1> USE DEF In
<1>1. x \in Handler /\ UNCHANGED <<admins, settings, owed>>
  BY DEF PanelsInv, Gate, ReadGroup, CheckAdmin, ChooseLanguage, ActFails, Reread, Draw, ClosePanel,
         Respond, Kept
<1>2. \A pc \in Steps : LET y == [x EXCEPT !.pc = pc] IN y.pc = pc /\ y.action = x.action
  BY <1>1 DEF Handler
<1>3. CASE Gate(h)
  <2>1. Live(x)
    BY <1>3 DEF Gate, Live
  <2>2. PICK pc \in {"answer", "close", "admin", "act", "group"} :
          /\ Moves(h, pc)
          /\ pc = "act" => x.action = "private"
          /\ pc = "group" => x.action # "accept"
    BY <1>3 DEF Gate
  <2>3. pc \in Steps \ {"done"} /\ ~Checked([x EXCEPT !.pc = pc])
    BY <1>2, <2>2 DEF Checked, AdminOnly, Steps
  <2> QED BY <1>1, <2>1, <2>2, <2>3, Moved
<1>4. CASE ReadGroup(h)
  <2>1. Live(x) /\ (x.action = "accept" => x.everAdmin)
    BY <1>4 DEF ReadGroup, Live, PanelsInv, Sound, Checked
  <2>2. CASE Moves(h, "answer")
    BY <1>1, <1>2, <2>1, <2>2, Moved DEF Checked, Steps
  <2>3. CASE ~Moves(h, "answer")
    <3> DEFINE pc == IF x.action = "accept" THEN "act" ELSE "admin"
    <3>1. press' = [press EXCEPT ![h].pc = pc, ![h].snap = settings]
      BY <1>4, <2>3 DEF ReadGroup
    <3>2. pc \in Steps \ {"done"} /\ (Checked([x EXCEPT !.pc = pc]) => x.everAdmin)
      BY <1>2, <2>1 DEF Checked, Steps
    <3> QED BY <1>1, <2>1, <3>1, <3>2, MovedAndRead
  <2> QED BY <2>2, <2>3
<1>5. CASE CheckAdmin(h)
  <2>1. Live(x) /\ (x.who \in admins => x.everAdmin)
    BY <1>5 DEF CheckAdmin, Live, PanelsInv, Sound
  <2>2. PICK pc \in {"answer", "group", "draw", "act"} :
          Moves(h, pc) /\ (pc # "answer" /\ AdminOnly(x.action) => x.who \in admins)
    BY <1>5 DEF CheckAdmin
  <2>3. pc \in Steps \ {"done"} /\ (Checked([x EXCEPT !.pc = pc]) => x.everAdmin)
    BY <1>2, <2>1, <2>2 DEF Checked, AdminOnly, Steps
  <2> QED BY <1>1, <2>1, <2>2, <2>3, Moved
<1>6. CASE ChooseLanguage(h) \/ ActFails(h) \/ Draw(h)
  <2>1. Live(x) /\ \E pc \in {"draw", "answer"} : Moves(h, pc)
    BY <1>6 DEF ChooseLanguage, ActFails, Draw, Live
  <2>2. \A pc \in {"draw", "answer"} :
          pc \in Steps \ {"done"} /\ ~Checked([x EXCEPT !.pc = pc])
    BY <1>2 DEF Checked, Steps
  <2> QED BY <1>1, <2>1, <2>2, Moved
<1>7. CASE Reread(h)
  <2>1. Live(x) /\ (Moves(h, "answer") \/ press' = [press EXCEPT ![h].pc = "draw", ![h].snap = settings])
    BY <1>7 DEF Reread, Live
  <2>2. \A pc \in {"draw", "answer"} :
          pc \in Steps \ {"done"} /\ ~Checked([x EXCEPT !.pc = pc])
    BY <1>2 DEF Checked, Steps
  <2> QED BY <1>1, <2>1, <2>2, Moved, MovedAndRead
<1>8. CASE ClosePanel(h) \/ Respond(h)
  BY <1>1, <1>8, PressOver DEF ClosePanel, Respond, Live
<1> QED BY <1>3, <1>4, <1>5, <1>6, <1>7, <1>8

\* The changes of the row, each under its lock.
LEMMA ChangeSteps ==
  ASSUME PanelsInv, NEW h \in Handlers, Change(h) \/ AcceptAgreement(h)
  PROVE  PanelsInv' /\ AdminsDecide
<1> DEFINE x == press[h]
<1>1. x \in Handler /\ x.pc = "act" /\ Live(x) /\ x.everAdmin /\ admins' = admins
  BY DEF Change, AcceptAgreement, In, PanelsInv, Sound, Live, Checked, AdminOnly
<1>2. PICK pc \in {"reread", "draw"} : Moves(h, pc)
  BY DEF Change, AcceptAgreement
<1>3. Sound([x EXCEPT !.pc = pc], admins)
  BY <1>1, <1>2, MovedHandler DEF Steps
<1>4. /\ press' \in [Handlers -> Handler] /\ press'[h] = [x EXCEPT !.pc = pc]
      /\ press'[h].pc # "act" /\ \A g \in Handlers : Sound(press'[g], admins')
  BY <1>1, <1>2, <1>3 DEF Moves, PanelsInv, Sound, Handler
<1>5. /\ settings' \in Settings /\ owed' \in [on : BOOLEAN, time : Nat] /\ NoLostPress'
      /\ settings.acceptedBy # "none" => settings'.acceptedBy = settings.acceptedBy
  <2>1. CASE Change(h) /\ x.action = "toggle"
    <3>1. settings' = [settings EXCEPT !.on = ~@] /\ owed' = [owed EXCEPT !.on = ~@]
      BY <2>1 DEF Change
    <3> QED BY <3>1 DEF PanelsInv, Settings, NoLostPress
  <2>2. CASE Change(h) /\ x.action = "later"
    <3>1. /\ settings' = [settings EXCEPT !.time = (@ + 1) % DayMinutes]
          /\ owed' = [owed EXCEPT !.time = (@ + 1) % DayMinutes]
      BY <2>2 DEF Change
    <3>2. \A n \in Nat : (n + 1) % DayMinutes \in Nat
      BY PanelsAssumption
    <3> QED BY <3>1, <3>2 DEF PanelsInv, Settings, NoLostPress
  <2>3. CASE AcceptAgreement(h)
    <3>1. /\ owed' = owed
          /\ settings' = [settings EXCEPT !.acceptedBy = IF @ = "none" THEN x.who ELSE @]
      BY <2>3 DEF AcceptAgreement
    <3> QED BY <1>1, <3>1 DEF PanelsInv, Settings, NoLostPress, Handler
  <2> QED BY <2>1, <2>2, <2>3 DEF Change
<1> QED BY <1>1, <1>4, <1>5 DEF PanelsInv, AdminsDecide

\* Rights change: who becomes an administrator is one for the presses that are handled.
LEMMA RightsStep ==
  ASSUME PanelsInv, Rights
  PROVE  PanelsInv'
<1>1. PICK who \in People :
        /\ admins' = IF who \in admins THEN admins \ {who} ELSE admins \cup {who}
        /\ press' = [h \in Handlers |-> [press[h] EXCEPT
                      !.everAdmin = @ \/ (press[h].who = who /\ who \in admins')]]
  BY DEF Rights
<1>2. ASSUME NEW h \in Handlers
      PROVE  Sound(press'[h], admins')
  <2> DEFINE x == press[h]
             b == x.everAdmin \/ (x.who = who /\ who \in admins')
             y == [x EXCEPT !.everAdmin = b]
  <2>1. Sound(x, admins)
    BY DEF PanelsInv
  <2>2. press'[h] = y
    BY <1>1
  <2>3. b \in BOOLEAN
    OBVIOUS
  <2>4. /\ y \in Handler /\ y.pc = x.pc /\ y.who = x.who /\ y.action = x.action
        /\ y.answers = x.answers /\ y.everAdmin = b
    <3> HIDE DEF b
    <3> QED BY <2>1, <2>3 DEF Sound, Handler
  <2>5. x.everAdmin => b
    OBVIOUS
  <2>6. Live(x) /\ x.who \in admins' => b
    BY <1>1, <2>1 DEF Sound
  <2> QED BY <2>1, <2>2, <2>4, <2>5, <2>6 DEF Sound, Live, Checked
<1>3. press' \in [Handlers -> Handler]
  BY <1>1, <1>2 DEF Sound
<1>4. UNCHANGED <<settings, owed>>
  BY DEF Rights
<1> QED BY <1>2, <1>3, <1>4 DEF PanelsInv, NoLostPress

-----------------------------------------------------------------------------
\* A press is answered once, counts once, and is made by somebody who may, however the
\* handlers overlap (callbacks.go:23, groups.go:134).
THEOREM PressesAlwaysSound == PanelsSpec => PressesAreSound
<1>1. PanelsInit => PanelsInv
  <2> SUFFICES ASSUME PanelsInit PROVE PanelsInv
    OBVIOUS
  <2>1. Sound(Idle, admins)
    BY DEF Sound, Idle, Handler, Steps, Actions, GroupActions, Live, Checked
  <2> QED BY <2>1 DEF PanelsInit, PanelsInv, Sound, Settings, NoLostPress
<1>2. PanelsInv /\ [PanelsNext]_panelsVars => PanelsInv' /\ AdminsDecide
  <2> SUFFICES ASSUME PanelsInv, [PanelsNext]_panelsVars PROVE PanelsInv' /\ AdminsDecide
    OBVIOUS
  <2>1. CASE UNCHANGED panelsVars
    BY <2>1 DEF panelsVars, PanelsInv, NoLostPress, AdminsDecide
  <2>2. ASSUME NEW h \in Handlers, Press(h)
        PROVE  PanelsInv' /\ settings' = settings
    BY <2>2, PressStep DEF Press
  <2>3. ASSUME NEW h \in Handlers,
               \/ Gate(h) \/ ReadGroup(h) \/ CheckAdmin(h) \/ ChooseLanguage(h) \/ ActFails(h)
               \/ Reread(h) \/ Draw(h) \/ ClosePanel(h) \/ Respond(h)
        PROVE  PanelsInv' /\ settings' = settings
    BY <2>3, CallSteps DEF Gate, ReadGroup, CheckAdmin, ChooseLanguage, ActFails, Reread, Draw,
                           ClosePanel, Respond, Kept
  <2>4. CASE Rights
    BY <2>4, RightsStep DEF Rights, AdminsDecide
  <2> QED BY <2>1, <2>2, <2>3, <2>4, ChangeSteps DEF PanelsNext, AdminsDecide
<1>3. PanelsInv => AnsweredOnce /\ NoLostPress
  BY DEF PanelsInv, Sound, AnsweredOnce
<1> QED BY <1>1, <1>2, <1>3, PTL DEF PanelsSpec, PressesAreSound


(***************************************************************************)
(* PanelMemory: the throttle and the registry of open panels               *)
(***************************************************************************)
LEMMA MemoryBounds ==
  /\ ThrottleWindow \in Nat /\ ThrottlePruneAt \in Nat /\ ThrottlePruneAt > 0
  /\ ThrottleStale \in Nat /\ ThrottleWindow <= ThrottleStale
  /\ LongAgo \in Nat /\ LongAgo > ThrottleStale /\ LongAgo > ThrottleWindow
  /\ LongAgo > 0 /\ 0 \in 0..LongAgo /\ LongAgo \in 0..LongAgo
  /\ PanelMax \in Nat /\ PanelMax > 0 /\ PanelTTL \in Nat
  /\ Gone \in Nat /\ Gone = PanelTTL + 1 /\ Gone > 0 /\ 0 \in 0..Gone /\ Gone \in 0..Gone
BY PanelMemoryAssumption DEF LongAgo, Gone

\* The parts of a finite set, and how many elements they have.
LEMMA SmallerSets ==
  ASSUME NEW S, IsFiniteSet(S), NEW T \in SUBSET S, NEW U \in SUBSET T
  PROVE  /\ IsFiniteSet(T) /\ IsFiniteSet(U)
         /\ Cardinality(T) \in Nat /\ Cardinality(U) \in Nat
         /\ Cardinality(U) <= Cardinality(T)
<1>1. IsFiniteSet(T)
  BY FS_Subset
<1>2. IsFiniteSet(U) /\ Cardinality(U) <= Cardinality(T)
  BY <1>1, FS_Subset
<1> QED BY <1>1, <1>2, FS_CardinalityType

\* One element more, or one less.
LEMMA OneMore ==
  ASSUME NEW S, IsFiniteSet(S), NEW x
  PROVE  /\ IsFiniteSet(S \cup {x}) /\ Cardinality(S \cup {x}) \in Nat
         /\ Cardinality(S) \in Nat
         /\ Cardinality(S \cup {x}) <= Cardinality(S) + 1
         /\ x \notin S => Cardinality(S \cup {x}) = Cardinality(S) + 1
<1>1. Cardinality(S) \in Nat /\ IsFiniteSet(S \cup {x})
  BY FS_CardinalityType, FS_AddElement
<1>2. CASE x \in S
  <2>1. S \cup {x} = S
    BY <1>2
  <2> QED BY <1>1, <1>2, <2>1
<1>3. CASE x \notin S
  <2>1. Cardinality(S \cup {x}) = Cardinality(S) + 1
    BY <1>3, FS_AddElement
  <2> QED BY <1>1, <2>1
<1> QED BY <1>2, <1>3

LEMMA OneLess ==
  ASSUME NEW S, IsFiniteSet(S), NEW x
  PROVE  /\ IsFiniteSet(S \ {x}) /\ Cardinality(S \ {x}) \in Nat
         /\ Cardinality(S) <= Cardinality(S \ {x}) + 1
<1>1. Cardinality(S) \in Nat /\ IsFiniteSet(S \ {x}) /\ Cardinality(S \ {x}) \in Nat
  BY FS_CardinalityType, FS_RemoveElement
<1>2. CASE x \in S
  <2>1. Cardinality(S \ {x}) = Cardinality(S) - 1
    BY <1>2, FS_RemoveElement
  <2> QED BY <1>1, <2>1
<1>3. CASE x \notin S
  <2>1. S \ {x} = S
    BY <1>3
  <2> QED BY <1>1, <2>1
<1> QED BY <1>2, <1>3

\* The pairs, other than k, that pressed no longer than a while before k did.
PressedBy(ages, k) == {j \in Pairs \ {k} : ages[j] <= ThrottleStale + ages[k]}

\* The inductive invariant of the throttle: the map holds true ages within its second
\* bound, and it forgot a press of the last moments only when as many pairs as that
\* bound had pressed just before it.
ThrottleInv ==
  /\ DOMAIN seen \subseteq Pairs
  /\ seen = [k \in DOMAIN seen |-> passed[k]]
  /\ passed \in [Pairs -> 0..LongAgo]
  /\ Cardinality(DOMAIN seen) <= 2 * ThrottlePruneAt
  /\ \A k \in Pairs \ DOMAIN seen :
       passed[k] < ThrottleWindow =>
         Cardinality(PressedBy(passed, k)) >= 2 * ThrottlePruneAt

LEMMA PressedByGrows ==
  ASSUME NEW a, NEW b, NEW k \in Pairs,
         \A j \in Pairs : a[j] <= ThrottleStale + a[k] => b[j] <= ThrottleStale + b[k],
         Cardinality(PressedBy(a, k)) >= 2 * ThrottlePruneAt
  PROVE  Cardinality(PressedBy(b, k)) >= 2 * ThrottlePruneAt
<1>1. PressedBy(a, k) \in SUBSET PressedBy(b, k) /\ PressedBy(b, k) \in SUBSET Pairs
  BY DEF PressedBy
<1>2. /\ Cardinality(PressedBy(a, k)) \in Nat /\ Cardinality(PressedBy(b, k)) \in Nat
      /\ Cardinality(PressedBy(a, k)) <= Cardinality(PressedBy(b, k))
  BY <1>1, SmallerSets, PanelMemoryAssumption
<1> QED BY <1>2, MemoryBounds

LEMMA ThrottleTickStep ==
  ASSUME ThrottleInv, ThrottleTick
  PROVE  ThrottleInv'
<1>1. /\ DOMAIN seen' = DOMAIN seen
      /\ \A k \in DOMAIN seen : seen'[k] = Aged(seen[k], LongAgo)
      /\ seen' = [k \in DOMAIN seen |-> Aged(seen[k], LongAgo)]
  BY DEF ThrottleTick
<1>2. \A n \in 0..LongAgo : Aged(n, LongAgo) \in 0..LongAgo
  BY MemoryBounds DEF Aged
<1>3. /\ passed' \in [Pairs -> 0..LongAgo]
      /\ \A k \in Pairs : passed'[k] = Aged(passed[k], LongAgo)
  BY <1>2 DEF ThrottleTick, ThrottleInv
<1>4. seen' = [k \in DOMAIN seen' |-> passed'[k]]
  <2>1. \A k \in DOMAIN seen : seen[k] = passed[k] /\ k \in Pairs
    BY DEF ThrottleInv
  <2>2. \A k \in DOMAIN seen : seen'[k] = passed'[k]
    BY <1>1, <1>3, <2>1
  <2> QED BY <1>1, <2>2
<1>5. ASSUME NEW k \in Pairs, k \notin DOMAIN seen, passed'[k] < ThrottleWindow
      PROVE  Cardinality(PressedBy(passed', k)) >= 2 * ThrottlePruneAt
  <2>1. passed[k] \in 0..LongAgo /\ passed'[k] = Aged(passed[k], LongAgo)
    BY <1>3 DEF ThrottleInv
  <2>2. passed'[k] = passed[k] + 1 /\ passed[k] < ThrottleWindow
    BY <1>5, <2>1, MemoryBounds DEF Aged
  <2>3. \A j \in Pairs : passed[j] \in 0..LongAgo /\ passed'[j] <= passed[j] + 1 /\ passed'[j] \in 0..LongAgo
    BY <1>3, MemoryBounds DEF ThrottleInv, Aged
  <2>4. \A j \in Pairs :
          passed[j] <= ThrottleStale + passed[k] => passed'[j] <= ThrottleStale + passed'[k]
    BY <2>1, <2>2, <2>3, MemoryBounds
  <2>5. Cardinality(PressedBy(passed, k)) >= 2 * ThrottlePruneAt
    BY <1>5, <2>2 DEF ThrottleInv
  <2> QED BY <2>4, <2>5, PressedByGrows
<1>6. \A k \in Pairs \ DOMAIN seen' :
        passed'[k] < ThrottleWindow =>
          Cardinality(PressedBy(passed', k)) >= 2 * ThrottlePruneAt
  BY <1>1, <1>5
<1>7. DOMAIN seen' \subseteq Pairs /\ Cardinality(DOMAIN seen') <= 2 * ThrottlePruneAt
  BY <1>1 DEF ThrottleInv
<1> QED BY <1>3, <1>4, <1>6, <1>7 DEF ThrottleInv, PressedBy
LEMMA HitStep ==
  ASSUME ThrottleInv, NEW k \in Pairs, Hit(k)
  PROVE  ThrottleInv'
<1> DEFINE f == Add(seen, k)
           fresh == {j \in DOMAIN f : f[j] <= ThrottleStale}
<1>1. /\ DOMAIN seen \in SUBSET Pairs
      /\ DOMAIN f = DOMAIN seen \cup {k} /\ DOMAIN f \in SUBSET Pairs
  BY DEF ThrottleInv, Add
<1>2. /\ passed' \in [Pairs -> 0..LongAgo] /\ passed'[k] = 0
      /\ \A j \in Pairs : j # k => passed'[j] = passed[j]
      /\ \A j \in Pairs : passed'[j] <= passed[j]
  BY MemoryBounds DEF Hit, ThrottleInv
<1>3. \A j \in DOMAIN f : f[j] = passed'[j]
  <2>1. \A j \in DOMAIN seen : seen[j] = passed[j]
    BY DEF ThrottleInv
  <2> QED BY <1>1, <1>2, <2>1 DEF Add
<1>4. seen' = Pruned(f)
  BY DEF Hit
<1>5. fresh \in SUBSET DOMAIN f /\ fresh \in SUBSET Pairs
  BY <1>1
<1>6. /\ IsFiniteSet(DOMAIN f) /\ Cardinality(DOMAIN f) \in Nat
      /\ IsFiniteSet(fresh) /\ Cardinality(fresh) \in Nat
      /\ Cardinality(fresh) <= Cardinality(DOMAIN f)
  BY <1>1, <1>5, SmallerSets, PanelMemoryAssumption
\* A key that the press does not touch and that the map had forgotten before.
<1>7. ASSUME NEW j \in Pairs, j \notin DOMAIN f, passed'[j] < ThrottleWindow
      PROVE  Cardinality(PressedBy(passed', j)) >= 2 * ThrottlePruneAt
  <2>1. j \notin DOMAIN seen /\ passed'[j] = passed[j]
    BY <1>1, <1>2, <1>7
  <2>2. Cardinality(PressedBy(passed, j)) >= 2 * ThrottlePruneAt
    BY <1>7, <2>1 DEF ThrottleInv
  <2>3. \A i \in Pairs : passed[i] <= ThrottleStale + passed[j] => passed'[i] <= ThrottleStale + passed'[j]
    BY <1>2, <2>1, MemoryBounds DEF ThrottleInv
  <2> QED BY <2>2, <2>3, PressedByGrows
<1>8. CASE Cardinality(DOMAIN f) <= ThrottlePruneAt
  <2>1. seen' = f
    BY <1>4, <1>6, <1>8, MemoryBounds DEF Pruned
  <2>2. seen' = [j \in DOMAIN seen' |-> passed'[j]]
    BY <1>3, <2>1 DEF Add
  <2>3. Cardinality(DOMAIN seen') <= 2 * ThrottlePruneAt
    BY <1>6, <1>8, <2>1, MemoryBounds
  <2> QED BY <1>1, <1>2, <1>7, <2>1, <2>2, <2>3 DEF ThrottleInv, PressedBy
<1>9. CASE ~(Cardinality(DOMAIN f) <= ThrottlePruneAt) /\ Cardinality(fresh) > 2 * ThrottlePruneAt
  <2>1. seen' = Only(f, {}) /\ DOMAIN seen' = {}
    BY <1>4, <1>9 DEF Pruned, Only
  <2>2. seen' = [j \in DOMAIN seen' |-> passed'[j]]
    BY <2>1 DEF Only
  <2>3. Cardinality(DOMAIN seen') <= 2 * ThrottlePruneAt
    BY <2>1, FS_EmptySet, MemoryBounds
  <2>4. ASSUME NEW j \in Pairs
        PROVE  Cardinality(PressedBy(passed', j)) >= 2 * ThrottlePruneAt
    <3>1. \A i \in fresh : passed'[i] <= ThrottleStale + passed'[j]
      BY <1>2, <1>3, <1>5, MemoryBounds
    <3>2. fresh \ {j} \in SUBSET PressedBy(passed', j) /\ PressedBy(passed', j) \in SUBSET Pairs
      BY <1>5, <3>1 DEF PressedBy
    <3>3. Cardinality(fresh \ {j}) \in Nat /\ Cardinality(fresh) <= Cardinality(fresh \ {j}) + 1
      BY <1>6, OneLess
    <3>4. /\ Cardinality(fresh \ {j}) <= Cardinality(PressedBy(passed', j))
          /\ Cardinality(PressedBy(passed', j)) \in Nat
      BY <3>2, SmallerSets, PanelMemoryAssumption
    <3> QED BY <1>6, <1>9, <3>3, <3>4, MemoryBounds
  <2> QED BY <1>2, <2>1, <2>2, <2>3, <2>4 DEF ThrottleInv, PressedBy
<1>10. CASE ~(Cardinality(DOMAIN f) <= ThrottlePruneAt) /\ ~(Cardinality(fresh) > 2 * ThrottlePruneAt)
  <2>1. seen' = Only(f, fresh) /\ DOMAIN seen' = fresh
    BY <1>4, <1>10 DEF Pruned, Only
  <2>2. seen' = [j \in DOMAIN seen' |-> passed'[j]]
    BY <1>3, <1>5, <2>1 DEF Only
  <2>3. Cardinality(DOMAIN seen') <= 2 * ThrottlePruneAt
    BY <1>6, <1>10, <2>1, MemoryBounds
  <2>4. ASSUME NEW j \in Pairs, j \notin fresh, passed'[j] < ThrottleWindow
        PROVE  j \notin DOMAIN f
    <3>1. passed'[j] <= ThrottleStale
      BY <1>2, <2>4, MemoryBounds
    <3> QED BY <1>3, <2>4, <3>1
  <2> QED BY <1>2, <1>5, <1>7, <2>1, <2>2, <2>3, <2>4 DEF ThrottleInv, PressedBy
<1> QED BY <1>8, <1>9, <1>10

LEMMA ThrottleRests ==
  ASSUME ThrottleInv, UNCHANGED throttleVars
  PROVE  ThrottleInv'
BY DEF ThrottleInv, throttleVars, PressedBy

LEMMA ThrottleStep ==
  ASSUME ThrottleInv, ThrottleNext \/ UNCHANGED throttleVars
  PROVE  ThrottleInv' /\ ThrottleHolds
<1>1. ThrottleInv'
  BY ThrottleTickStep, HitStep, ThrottleRests DEF ThrottleNext
<1>2. ASSUME NEW k \in Pairs, Hit(k), passed[k] < ThrottleWindow
      PROVE  Cardinality({j \in Pairs \ {k} : passed[j] <= ThrottleStale + ThrottleWindow})
               >= 2 * ThrottlePruneAt
  <2> DEFINE late == {j \in Pairs \ {k} : passed[j] <= ThrottleStale + ThrottleWindow}
  <2>1. k \notin DOMAIN seen
    <3>1. \A j \in DOMAIN seen : seen[j] = passed[j]
      BY DEF ThrottleInv
    <3> QED BY <1>2, <3>1 DEF Hit, TooSoon
  <2>2. Cardinality(PressedBy(passed, k)) >= 2 * ThrottlePruneAt
    BY <1>2, <2>1 DEF ThrottleInv
  <2>3. PressedBy(passed, k) \in SUBSET late /\ late \in SUBSET Pairs
    BY <1>2, MemoryBounds DEF PressedBy, ThrottleInv
  <2>4. /\ Cardinality(PressedBy(passed, k)) <= Cardinality(late)
        /\ Cardinality(PressedBy(passed, k)) \in Nat /\ Cardinality(late) \in Nat
    BY <2>3, SmallerSets, PanelMemoryAssumption
  <2> QED BY <2>2, <2>4, MemoryBounds
<1>3. Cardinality(DOMAIN seen') <= 2 * ThrottlePruneAt
  BY <1>1 DEF ThrottleInv
<1> QED BY <1>1, <1>2, <1>3 DEF ThrottleHolds
\* The panels, other than p, that were opened at least as late.
OpenedSince(ages, p) == {q \in PanelIds \ {p} : ages[q] <= ages[p]}

\* The inductive invariant of the registry: true ages within the bound, and an open panel
\* that it forgot before its time was crowded out by as many later ones as it holds.
RegistryInv ==
  /\ DOMAIN registry \subseteq PanelIds
  /\ registry = [p \in DOMAIN registry |-> registered[p]]
  /\ registered \in [PanelIds -> 0..Gone]
  /\ Cardinality(DOMAIN registry) <= PanelMax
  /\ \A p \in PanelIds \ (DOMAIN registry \cup closed) :
       registered[p] < Gone => Cardinality(OpenedSince(registered, p)) >= PanelMax

LEMMA OpenedSinceGrows ==
  ASSUME NEW a, NEW b, NEW p \in PanelIds,
         \A q \in PanelIds : a[q] <= a[p] => b[q] <= b[p],
         Cardinality(OpenedSince(a, p)) >= PanelMax
  PROVE  Cardinality(OpenedSince(b, p)) >= PanelMax
<1>1. OpenedSince(a, p) \in SUBSET OpenedSince(b, p) /\ OpenedSince(b, p) \in SUBSET PanelIds
  BY DEF OpenedSince
<1>2. /\ Cardinality(OpenedSince(a, p)) \in Nat /\ Cardinality(OpenedSince(b, p)) \in Nat
      /\ Cardinality(OpenedSince(a, p)) <= Cardinality(OpenedSince(b, p))
  BY <1>1, SmallerSets, PanelMemoryAssumption
<1> QED BY <1>2, MemoryBounds

LEMMA RegistryTickStep ==
  ASSUME RegistryInv, RegistryTick
  PROVE  RegistryInv'
<1>1. /\ DOMAIN registry' = DOMAIN registry /\ closed' = closed
      /\ registry' = [p \in DOMAIN registry |-> Aged(registry[p], Gone)]
  BY DEF RegistryTick
<1>2. \A n \in 0..Gone : Aged(n, Gone) \in 0..Gone
  BY MemoryBounds DEF Aged
<1>3. /\ registered' \in [PanelIds -> 0..Gone]
      /\ \A p \in PanelIds : registered'[p] = Aged(registered[p], Gone)
  BY <1>2 DEF RegistryTick, RegistryInv
<1>4. registry' = [p \in DOMAIN registry' |-> registered'[p]]
  <2>1. \A p \in DOMAIN registry : registry[p] = registered[p] /\ p \in PanelIds
    BY DEF RegistryInv
  <2> QED BY <1>1, <1>3, <2>1
<1>5. ASSUME NEW p \in PanelIds, p \notin DOMAIN registry \cup closed, registered'[p] < Gone
      PROVE  Cardinality(OpenedSince(registered', p)) >= PanelMax
  <2>1. registered[p] \in 0..Gone /\ registered'[p] = Aged(registered[p], Gone)
    BY <1>3 DEF RegistryInv
  <2>2. registered[p] < Gone /\ registered'[p] = registered[p] + 1
    BY <1>5, <2>1, MemoryBounds DEF Aged
  <2>3. \A q \in PanelIds : registered[q] \in 0..Gone /\ registered'[q] <= registered[q] + 1
    BY <1>3, MemoryBounds DEF RegistryInv, Aged
  <2>4. \A q \in PanelIds : registered[q] <= registered[p] => registered'[q] <= registered'[p]
    BY <1>3, <2>1, <2>2, <2>3, MemoryBounds
  <2>5. Cardinality(OpenedSince(registered, p)) >= PanelMax
    BY <1>5, <2>2 DEF RegistryInv
  <2> QED BY <2>4, <2>5, OpenedSinceGrows
<1> QED BY <1>1, <1>3, <1>4, <1>5 DEF RegistryInv, OpenedSince

LEMMA TakeStep ==
  ASSUME RegistryInv, NEW p \in PanelIds, Take(p)
  PROVE  RegistryInv'
<1>1. /\ p \in DOMAIN registry /\ DOMAIN registry' = DOMAIN registry \ {p}
      /\ registry' = [q \in DOMAIN registry \ {p} |-> registry[q]]
      /\ closed' = closed \cup {p} /\ registered' = registered
  BY DEF Take, Only
<1>2. registry' = [q \in DOMAIN registry' |-> registered'[q]]
  <2>1. \A q \in DOMAIN registry : registry[q] = registered[q]
    BY DEF RegistryInv
  <2> QED BY <1>1, <2>1
<1>3. Cardinality(DOMAIN registry') <= PanelMax
  <2>1. DOMAIN registry \in SUBSET PanelIds /\ DOMAIN registry' \in SUBSET DOMAIN registry
    BY <1>1 DEF RegistryInv
  <2>2. /\ Cardinality(DOMAIN registry') <= Cardinality(DOMAIN registry)
        /\ Cardinality(DOMAIN registry) \in Nat /\ Cardinality(DOMAIN registry') \in Nat
    BY <2>1, SmallerSets, PanelMemoryAssumption
  <2> QED BY <2>2, MemoryBounds DEF RegistryInv
<1>4. \A q : q \notin DOMAIN registry' \cup closed' => q \notin DOMAIN registry \cup closed
  BY <1>1
<1> QED BY <1>1, <1>2, <1>3, <1>4 DEF RegistryInv, OpenedSince

LEMMA RegisterStep ==
  ASSUME RegistryInv, NEW p \in PanelIds, Register(p)
  PROVE  RegistryInv'
<1> DEFINE D == DOMAIN registry
           live == {q \in D : registry[q] <= PanelTTL}
<1>1. /\ p \notin D /\ D \in SUBSET PanelIds /\ live \in SUBSET D
      /\ IsFiniteSet(D) /\ Cardinality(D) \in Nat /\ Cardinality(D) <= PanelMax
      /\ \A q \in D : registry[q] = registered[q]
  <2>1. D \in SUBSET PanelIds
    BY DEF RegistryInv
  <2> QED BY <2>1, SmallerSets, PanelMemoryAssumption DEF RegistryInv, Register
<1>2. PICK f : /\ f \in IF Cardinality(D) >= PanelMax THEN PrunePanels(registry) ELSE {registry}
               /\ registry' = Add(f, p)
  BY DEF Register
<1>3. /\ registered' \in [PanelIds -> 0..Gone] /\ registered'[p] = 0
      /\ \A q \in PanelIds : q # p => registered'[q] = registered[q]
      /\ \A q \in PanelIds : registered'[q] <= registered[q]
      /\ closed' = closed \ {p}
  BY MemoryBounds DEF Register, RegistryInv
\* Whatever is dropped makes the room that p needs, and whatever is dropped before its
\* time is at least as old as the rest.
<1>4. PICK keys \in SUBSET D :
        /\ f = Only(registry, keys)
        /\ Cardinality(keys \cup {p}) <= PanelMax
        /\ \A o \in D \ keys :
             registered[o] < Gone =>
               /\ Cardinality(keys \cup {p}) >= PanelMax
               /\ \A q \in keys : registered[q] <= registered[o]
  <2>1. CASE ~(Cardinality(D) >= PanelMax)
    <3>1. f = Only(registry, D)
      BY <1>2, <2>1 DEF RegistryInv, Only
    <3>2. Cardinality(D \cup {p}) <= Cardinality(D) + 1 /\ Cardinality(D \cup {p}) \in Nat
      BY <1>1, OneMore
    <3>3. Cardinality(D \cup {p}) <= PanelMax
      BY <1>1, <2>1, <3>2, MemoryBounds
    <3> QED BY <3>1, <3>3
  <2>2. CASE Cardinality(D) >= PanelMax
    <3>1. PICK keys \in SUBSET live :
            /\ f = Only(registry, keys)
            /\ Cardinality(keys) = IF Cardinality(live) < PanelMax
                                   THEN Cardinality(live) ELSE PanelMax - 1
            /\ \A a \in keys, q \in live \ keys : registry[a] <= registry[q]
      BY <1>2, <2>2 DEF PrunePanels
    <3>2. /\ IsFiniteSet(live) /\ Cardinality(live) \in Nat
          /\ IsFiniteSet(keys) /\ Cardinality(keys) \in Nat
      BY <1>1, SmallerSets
    <3>3. Cardinality(keys) <= PanelMax - 1
      BY <3>1, <3>2, MemoryBounds
    <3>4. keys \in SUBSET D /\ p \notin keys
      BY <1>1
    <3>5. Cardinality(keys \cup {p}) = Cardinality(keys) + 1
      BY <3>2, <3>4, OneMore
    <3>6. ASSUME NEW o \in D, o \notin keys, registered[o] < Gone
          PROVE  /\ Cardinality(keys \cup {p}) >= PanelMax
                 /\ \A q \in keys : registered[q] <= registered[o]
      <4>1. o \in live
        BY <1>1, <3>6, MemoryBounds DEF RegistryInv
      <4>2. ~(Cardinality(live) < PanelMax)
        <5>1. SUFFICES ASSUME Cardinality(live) < PanelMax PROVE FALSE
          OBVIOUS
        <5>2. Cardinality(keys) = Cardinality(live)
          BY <3>1, <5>1
        <5>3. keys = live
          BY <3>2, <5>2, FS_Subset
        <5> QED BY <3>6, <4>1, <5>3
      <4>3. Cardinality(keys) = PanelMax - 1
        BY <3>1, <4>2
      <4>4. Cardinality(keys \cup {p}) >= PanelMax
        BY <3>5, <4>3, MemoryBounds
      <4>5. \A q \in keys : registered[q] <= registered[o]
        BY <1>1, <3>1, <3>4, <3>6, <4>1
      <4> QED BY <4>4, <4>5
    <3>7. Cardinality(keys \cup {p}) <= PanelMax
      BY <3>2, <3>3, <3>5, MemoryBounds
    <3> QED BY <3>1, <3>4, <3>6, <3>7
  <2> QED BY <2>1, <2>2
<1>5. /\ DOMAIN f = keys /\ DOMAIN registry' = keys \cup {p}
      /\ DOMAIN registry' \in SUBSET PanelIds
      /\ registry' = [q \in keys \cup {p} |-> IF q = p THEN 0 ELSE f[q]]
  BY <1>1, <1>2, <1>4 DEF Add, Only
<1>6. registry' = [q \in DOMAIN registry' |-> registered'[q]]
  <2>1. \A q \in keys : f[q] = registered[q]
    BY <1>1, <1>4 DEF Only
  <2>2. \A q \in keys \cup {p} : (IF q = p THEN 0 ELSE f[q]) = registered'[q]
    BY <1>1, <1>3, <1>5, <2>1
  <2> QED BY <1>5, <2>2
<1>7. ASSUME NEW o \in PanelIds, o \notin DOMAIN registry' \cup closed', registered'[o] < Gone
      PROVE  Cardinality(OpenedSince(registered', o)) >= PanelMax
  <2>1. o # p /\ o \notin closed /\ o \notin keys /\ registered'[o] = registered[o]
    BY <1>3, <1>5, <1>7
  <2>2. CASE o \in D
    <3>1. /\ Cardinality(keys \cup {p}) >= PanelMax
          /\ \A q \in keys : registered[q] <= registered[o]
      BY <1>4, <1>7, <2>1, <2>2
    <3>2. \A q \in keys \cup {p} : registered'[q] <= registered'[o]
      BY <1>1, <1>3, <2>1, <3>1, MemoryBounds DEF RegistryInv
    <3>3. /\ keys \cup {p} \in SUBSET OpenedSince(registered', o)
          /\ OpenedSince(registered', o) \in SUBSET PanelIds
      BY <1>5, <2>1, <3>2 DEF OpenedSince
    <3>4. /\ Cardinality(keys \cup {p}) <= Cardinality(OpenedSince(registered', o))
          /\ Cardinality(keys \cup {p}) \in Nat
          /\ Cardinality(OpenedSince(registered', o)) \in Nat
      BY <3>3, SmallerSets, PanelMemoryAssumption
    <3> QED BY <3>1, <3>4, MemoryBounds
  <2>3. CASE o \notin D
    <3>1. Cardinality(OpenedSince(registered, o)) >= PanelMax
      BY <1>7, <2>1, <2>3 DEF RegistryInv
    <3>2. \A q \in PanelIds : registered[q] <= registered[o] => registered'[q] <= registered'[o]
      BY <1>3, <2>1, MemoryBounds DEF RegistryInv
    <3> QED BY <3>1, <3>2, OpenedSinceGrows
  <2> QED BY <2>2, <2>3
<1> QED BY <1>3, <1>4, <1>5, <1>6, <1>7 DEF RegistryInv, OpenedSince

LEMMA RegistryStep ==
  ASSUME RegistryInv, RegistryNext \/ UNCHANGED registryVars
  PROVE  RegistryInv'
<1>1. CASE UNCHANGED registryVars
  BY <1>1 DEF RegistryInv, registryVars, OpenedSince
<1> QED BY <1>1, RegistryTickStep, TakeStep, RegisterStep DEF RegistryNext

\* Both maps of state.go stay within their bounds, for any bounds and windows of which the
\* stale age is not below the window (60 s and 700 ms in the code).  A second press gets
\* through inside the window only under a flood, and an open panel is forgotten before
\* its time only for at least as many later ones.
THEOREM MemoryAlwaysBounded == MemorySpec => MemoryIsBounded
<1> DEFINE memoryVars == <<throttleVars, registryVars>>
<1>1. MemoryInit => ThrottleInv /\ RegistryInv
  <2> SUFFICES ASSUME MemoryInit PROVE ThrottleInv /\ RegistryInv
    OBVIOUS
  <2>1. /\ DOMAIN seen = {} /\ seen = [k \in DOMAIN seen |-> passed[k]]
        /\ DOMAIN registry = {} /\ registry = [p \in DOMAIN registry |-> registered[p]]
    BY DEF MemoryInit
  <2>2. /\ Cardinality(DOMAIN seen) <= 2 * ThrottlePruneAt
        /\ Cardinality(DOMAIN registry) <= PanelMax
    BY <2>1, FS_EmptySet, MemoryBounds
  <2>3. /\ passed \in [Pairs -> 0..LongAgo] /\ \A k \in Pairs : ~(passed[k] < ThrottleWindow)
        /\ registered \in [PanelIds -> 0..Gone] /\ \A p \in PanelIds : ~(registered[p] < Gone)
    BY MemoryBounds DEF MemoryInit
  <2> QED BY <2>1, <2>2, <2>3 DEF ThrottleInv, RegistryInv
<1>2. ThrottleInv /\ RegistryInv /\ [MemoryNext]_memoryVars =>
        (ThrottleInv /\ RegistryInv)' /\ [ThrottleHolds /\ RegistryKeepsNewest']_memoryVars
  <2> SUFFICES ASSUME ThrottleInv, RegistryInv, [MemoryNext]_memoryVars
               PROVE  (ThrottleInv /\ RegistryInv)' /\ ThrottleHolds /\ RegistryKeepsNewest'
    OBVIOUS
  <2>1. ThrottleNext \/ UNCHANGED throttleVars
    BY DEF MemoryNext
  <2>2. RegistryNext \/ UNCHANGED registryVars
    BY DEF MemoryNext
  <2>3. ThrottleInv' /\ ThrottleHolds
    BY <2>1, ThrottleStep
  <2>4. RegistryInv'
    BY <2>2, RegistryStep
  <2>5. RegistryKeepsNewest'
    BY <2>4 DEF RegistryInv, RegistryKeepsNewest, OpenedSince
  <2> QED BY <2>3, <2>4, <2>5
<1> QED BY <1>1, <1>2, PTL DEF MemorySpec, MemoryIsBounded

(***************************************************************************)
(* AuditLog: what a cleanup keeps and what it drops                        *)
(***************************************************************************)
Job == [by : Writers \cup {"nobody", "start", "crashed"}, pc : {"idle", "prune", "append"},
        now : Nat, i : Nat, opened : BOOLEAN, kept : Seq(Lines)]
Record == [id : Nat, at : Nat]

AuditTypes ==
  /\ log \in Seq(Lines) /\ auditClock \in Nat /\ job \in Job /\ lastPrune \in Nat
  /\ pending \in [Writers -> Nat \cup {NoStamp}]
  /\ records \subseteq Record /\ IsFiniteSet(records)
  /\ uncleaned \in BOOLEAN

\* Who has the mutex, and the times of what waits.
Stamps ==
  /\ job.pc = "idle" <=> job.by \in {"nobody", "crashed"}
  /\ job.pc = "append" => job.by \in Writers
  /\ job.by \in Writers => pending[job.by] = job.now
  /\ \A w \in Writers : pending[w] # NoStamp => pending[w] \in {auditClock, auditClock - 1}
  /\ job.now <= auditClock /\ lastPrune <= auditClock /\ auditClock > 0
  /\ job.pc = "prune" => job.now = lastPrune
  /\ job.pc = "append" => job.now - lastPrune < PruneInterval

\* A cleanup at this time drops the line.
Spent(l, now) == l.blank \/ (l.at # NoDate /\ l.at < now - Retention)

\* The log b has all that the log a has at lines that are not dropped.
Same(l, m) == m.at = l.at /\ m.blank = l.blank /\ l.recs \subseteq m.recs
KeepsTo(a, n, b, now) ==
  \A j \in 1..n : ~Spent(a[j], now) => \E k \in 1..Len(b) : Same(a[j], b[k])

\* What the loop of the cleanup has done up to the line it looks at.
Copied(x, lines) ==
  /\ x.i \in 1..(Len(lines) + 1)
  /\ ~x.opened => \A j \in 1..(x.i - 1) : ~Spent(lines[j], x.now)
  /\ x.opened => /\ \A k \in 1..Len(x.kept) : ~Spent(x.kept[k], x.now)
                 /\ KeepsTo(lines, x.i - 1, x.kept, x.now)

\* The record has a line of its own date.
HeldIn(r, lines) ==
  \E k \in 1..Len(lines) : r.id \in lines[k].recs /\ lines[k].at = r.at /\ ~lines[k].blank

Held == \A r \in records : r.at >= auditClock - Retention => r.id \in glued \/ HeldIn(r, log)

\* No line has been expired since the last cleanup.
NoneExpired(lines, last) == \A k \in 1..Len(lines) : lines[k].at = NoDate \/ lines[k].at >= last - Retention

Clean ==
  ~uncleaned /\ job.pc # "prune" /\ job.by # "crashed" => NoneExpired(log, lastPrune)

\* The inductive invariant.
AuditInv ==
  /\ AuditTypes /\ Stamps
  /\ job.pc = "prune" => Copied(job, log)
  /\ Held /\ Clean

LEMMA AuditStart == AuditInit => AuditInv
<1> SUFFICES ASSUME AuditInit PROVE AuditInv
  OBVIOUS
<1>1. Retention \in Nat /\ Retention > 0
  BY AuditLogAssumption
<1>2. /\ log \in Seq(Lines) /\ auditClock = Retention /\ lastPrune = Retention
      /\ pending = [w \in Writers |-> NoStamp] /\ records = {} /\ uncleaned = FALSE
  BY OldLogsAssumption DEF AuditInit
<1>3. job = [by |-> "start", pc |-> "prune", now |-> Retention, i |-> 1, opened |-> FALSE,
             kept |-> <<>>]
  BY DEF AuditInit, Nobody
<1>4. AuditTypes
  <2>1. IsFiniteSet(records)
    BY <1>2, FS_EmptySet
  <2>2. job \in Job
    BY <1>1, <1>3, EmptySeq DEF Job
  <2> QED BY <1>1, <1>2, <2>1, <2>2 DEF AuditTypes
<1>5. Stamps
  BY <1>1, <1>2, <1>3, AuditLogAssumption DEF Stamps
<1>6. Copied(job, log)
  BY <1>2, <1>3 DEF Copied
<1>7. Held /\ Clean
  BY <1>2, <1>3 DEF Held, Clean
<1> QED BY <1>4, <1>5, <1>6, <1>7 DEF AuditInv

\* What is added to the end of the log leaves every line its date and its records.
LEMMA AddedKeeps ==
  ASSUME log \in Seq(Lines), NEW l \in Lines
  PROVE  /\ Added(l) \in Seq(Lines)
         /\ \A j \in 1..Len(log) : \E k \in 1..Len(Added(l)) : Same(log[j], Added(l)[k])
         /\ \A k \in 1..Len(Added(l)) :
              Added(l)[k].at = l.at \/ \E j \in 1..Len(log) : Added(l)[k].at = log[j].at
         /\ ~Torn => \E k \in 1..Len(Added(l)) : Added(l)[k] = l
<1>1. CASE ~Torn
  <2>1. Added(l) = Append(log, l)
    BY <1>1 DEF Added
  <2>2. /\ Append(log, l) \in Seq(Lines) /\ Len(Append(log, l)) = Len(log) + 1
        /\ \A j \in 1..Len(log) : Append(log, l)[j] = log[j]
        /\ Append(log, l)[Len(log) + 1] = l
    OBVIOUS
  <2>3. Len(log) \in Nat
    OBVIOUS
  <2>4. \A j \in 1..Len(log) : j \in 1..(Len(log) + 1)
    BY <2>3
  <2>5. \A k \in 1..(Len(log) + 1) : k \in 1..Len(log) \/ k = Len(log) + 1
    BY <2>3
  <2>6. Len(log) + 1 \in 1..(Len(log) + 1)
    BY <2>3
  <2>7. PICK a : a = Append(log, l)
    OBVIOUS
  <2> QED BY <1>1, <2>1, <2>2, <2>4, <2>5, <2>6, <2>7 DEF Same
<1>2. CASE Torn
  <2> DEFINE n == Len(log)
             y == [log[n] EXCEPT !.recs = @ \cup l.recs]
             z == [y EXCEPT !.ended = l.ended]
             both == Onto(log[n], l)
  <2>2. n \in Nat /\ n \in 1..n
    BY <1>2 DEF Torn
  <2>3. log[n] \in Lines
    BY <2>2
  <2>0. both = z
    BY <2>3 DEF Onto, Lines
  <2>9. Added(l) = [log EXCEPT ![n] = both]
    BY <1>2 DEF Added
  <2> HIDE DEF both
  <2>1. Added(l) = [log EXCEPT ![n] = z]
    BY <2>0, <2>9, Zenon
  <2>4. y \in Lines /\ y.at = log[n].at /\ y.blank = log[n].blank /\ y.recs = log[n].recs \cup l.recs
    BY <2>3 DEF Lines
  <2> HIDE DEF y
  <2>5. z \in Lines /\ z.at = log[n].at /\ z.blank = log[n].blank /\ z.recs = log[n].recs \cup l.recs
    BY <2>4 DEF Lines
  <2> HIDE DEF z
  <2>6. /\ Added(l) \in Seq(Lines) /\ Len(Added(l)) = n /\ Added(l)[n] = z
        /\ \A j \in 1..n : j # n => Added(l)[j] = log[j]
    BY <2>1, <2>2, <2>5
  <2> HIDE DEF n
  <2>7. \A j \in 1..n : Same(log[j], Added(l)[j])
    BY <2>5, <2>6 DEF Same
  <2>8. \A j \in 1..n : Added(l)[j].at = log[j].at
    BY <2>7 DEF Same
  <2> QED BY <1>2, <2>6, <2>7, <2>8 DEF n
<1> QED BY <1>1, <1>2

LEMMA EncodeStep == ASSUME NEW w \in Writers PROVE AuditInv /\ Encode(w) => AuditInv'
<1> SUFFICES ASSUME AuditInv, Encode(w) PROVE AuditInv'
  OBVIOUS
<1>1. /\ pending' = [pending EXCEPT ![w] = auditClock] /\ pending[w] = NoStamp
      /\ UNCHANGED <<log, auditClock, job, lastPrune, records, glued, uncleaned>>
  BY DEF Encode
<1>2. /\ pending \in [Writers -> Nat \cup {NoStamp}] /\ auditClock \in Nat /\ job.now \in Nat
  BY DEF AuditInv, AuditTypes, Job
<1>3. AuditTypes'
  BY <1>1, <1>2 DEF AuditInv, AuditTypes
<1>4. Stamps'
  BY <1>1, <1>2 DEF AuditInv, Stamps, NoStamp
<1>5. (job.pc = "prune" => Copied(job, log))'
  BY <1>1 DEF AuditInv
<1>6. Held' /\ Clean'
  BY <1>1 DEF AuditInv, Held, Clean
<1> QED BY <1>3, <1>4, <1>5, <1>6 DEF AuditInv

\* Who has the mutex, from the start.
Fresh(x, by, pc, now) ==
  /\ x \in Job /\ x.by = by /\ x.pc = pc /\ x.now = now
  /\ x.i = 1 /\ x.opened = FALSE

LEMMA FreshJob ==
  ASSUME NEW by \in Writers \cup {"nobody", "start", "crashed"}, NEW now \in Nat,
         NEW pc \in {"idle", "prune", "append"}
  PROVE  Fresh([Nobody EXCEPT !.by = by, !.now = now, !.pc = pc], by, pc, now)
<1>1. PICK c : c = Nobody
  OBVIOUS
<1>2. c \in Job /\ c.i = 1 /\ c.opened = FALSE
  BY <1>1, EmptySeq DEF Nobody, Job
<1> DEFINE y == [c EXCEPT !.by = by]
           z == [y EXCEPT !.now = now]
           t == [z EXCEPT !.pc = pc]
<1>3. [c EXCEPT !.by = by, !.now = now, !.pc = pc] = t
  BY <1>2 DEF Job
<1>4. y \in Job /\ y.i = 1 /\ y.opened = FALSE /\ y.by = by
  BY <1>2 DEF Job
<1> HIDE DEF y
<1>5. z \in Job /\ z.i = 1 /\ z.opened = FALSE /\ z.by = by /\ z.now = now
  BY <1>4 DEF Job
<1> HIDE DEF z
<1>6. t \in Job /\ t.i = 1 /\ t.opened = FALSE /\ t.by = by /\ t.now = now /\ t.pc = pc
  BY <1>5 DEF Job
<1> HIDE DEF t
<1>7. Fresh(t, by, pc, now)
  BY <1>6 DEF Fresh
<1> QED BY <1>1, <1>3, <1>7, Zenon

\* A cleanup that has not looked at a line yet.
LEMMA NothingCopied ==
  ASSUME NEW lines \in Seq(Lines), NEW x, x.i = 1, x.opened = FALSE
  PROVE  Copied(x, lines)
<1>1. Len(lines) \in Nat /\ 1 \in 1..(Len(lines) + 1) /\ 1..(1 - 1) = {}
  OBVIOUS
<1> QED BY <1>1 DEF Copied

LEMMA LockStep == ASSUME NEW w \in Writers PROVE AuditInv /\ Lock(w) => AuditInv'
<1> SUFFICES ASSUME AuditInv, Lock(w) PROVE AuditInv'
  OBVIOUS
<1> DEFINE due == lastPrune = Never \/ pending[w] - lastPrune >= PruneInterval
           pc == IF due THEN "prune" ELSE "append"
<1>1. /\ job.by = "nobody" /\ pending[w] # NoStamp
      /\ job' = [Nobody EXCEPT !.by = w, !.now = pending[w], !.pc = pc]
      /\ lastPrune' = IF due THEN pending[w] ELSE lastPrune
      /\ UNCHANGED <<log, auditClock, pending, records, glued, uncleaned>>
  BY DEF Lock
<1>2. /\ pending \in [Writers -> Nat \cup {NoStamp}] /\ auditClock \in Nat
      /\ lastPrune \in Nat /\ job.pc = "idle" /\ pending[w] \in Nat
  BY <1>1 DEF AuditInv, AuditTypes, Stamps
<1>3. /\ job' \in Job /\ job'.by = w /\ job'.pc = pc /\ job'.now = pending[w]
      /\ job'.i = 1 /\ job'.opened = FALSE
  <2>1. w \in Writers \cup {"nobody", "start", "crashed"} /\ pc \in {"idle", "prune", "append"}
    OBVIOUS
  <2> HIDE DEF pc
  <2>2. Fresh(job', w, pc, pending[w])
    BY <1>1, <1>2, <2>1, FreshJob, Zenon
  <2> QED BY <2>2 DEF Fresh
<1>4. AuditTypes'
  BY <1>1, <1>2, <1>3 DEF AuditInv, AuditTypes
<1>5. Stamps'
  <2>1. PruneInterval \in Nat \ {0} /\ w \notin {"nobody", "start", "crashed"}
    BY AuditLogAssumption
  <2>2. pending[w] \in {auditClock, auditClock - 1} /\ lastPrune <= auditClock /\ auditClock > 0
    BY <1>1 DEF AuditInv, Stamps
  <2>3. \A v \in Writers : pending[v] # NoStamp => pending[v] \in {auditClock, auditClock - 1}
    BY DEF AuditInv, Stamps
  <2>4. CASE due
    BY <1>1, <1>2, <1>3, <2>1, <2>2, <2>3, <2>4 DEF Stamps
  <2>5. CASE ~due
    BY <1>1, <1>2, <1>3, <2>1, <2>2, <2>3, <2>5 DEF Stamps
  <2> QED BY <2>4, <2>5
<1>6. (job.pc = "prune" => Copied(job, log))'
  <2>1. job'.i = 1 /\ job'.opened = FALSE /\ log' \in Seq(Lines)
    BY <1>4, <1>3 DEF AuditTypes
  <2> QED BY <2>1, NothingCopied
<1>7. Held'
  BY <1>1 DEF AuditInv, Held
<1>8. Clean'
  <2>1. CASE due
    BY <1>3, <2>1 DEF Clean
  <2>2. CASE ~due
    <3>1. w # "crashed"
      BY AuditLogAssumption
    <3> QED BY <1>1, <1>2, <1>3, <2>2 DEF AuditInv, Clean
  <2> QED BY <2>1, <2>2
<1> QED BY <1>4, <1>5, <1>6, <1>7, <1>8 DEF AuditInv

LEMMA TickAndRestart == AuditInv /\ (AuditTick \/ RestartAudit) => AuditInv'
<1> SUFFICES ASSUME AuditInv, AuditTick \/ RestartAudit PROVE AuditInv'
  OBVIOUS
<1>0. /\ pending \in [Writers -> Nat \cup {NoStamp}] /\ auditClock \in Nat
      /\ lastPrune \in Nat /\ records \subseteq Record /\ job \in Job
      /\ Retention \in Nat /\ PruneInterval \in Nat \ {0}
      /\ Writers \cap {"nobody", "start", "crashed"} = {}
  BY AuditLogAssumption DEF AuditInv, AuditTypes
<1>1. CASE AuditTick
  <2>1. /\ auditClock' = auditClock + 1
        /\ \A w \in Writers : pending[w] \in {NoStamp, auditClock}
        /\ UNCHANGED <<log, job, lastPrune, pending, records, glued, uncleaned>>
    BY <1>1 DEF AuditTick
  <2>2. AuditTypes'
    BY <1>0, <2>1 DEF AuditInv, AuditTypes
  <2>3. Stamps'
    <3>1. job.now \in Nat
      BY <1>0 DEF Job
    <3> QED BY <1>0, <2>1, <3>1 DEF AuditInv, Stamps
  <2>4. (job.pc = "prune" => Copied(job, log))'
    BY <2>1 DEF AuditInv
  <2>5. Held'
    <3>1. \A r \in records : r.at \in Nat
      BY <1>0 DEF Record
    <3>2. \A r \in records : r.at >= auditClock' - Retention => r.at >= auditClock - Retention
      BY <1>0, <2>1, <3>1
    <3> QED BY <2>1, <3>2 DEF AuditInv, Held
  <2>6. Clean'
    BY <2>1 DEF AuditInv, Clean
  <2> QED BY <2>2, <2>3, <2>4, <2>5, <2>6 DEF AuditInv
<1>2. CASE RestartAudit
  <2>1. /\ job' = [Nobody EXCEPT !.by = "start", !.now = auditClock, !.pc = "prune"]
        /\ lastPrune' = auditClock
        /\ UNCHANGED <<log, auditClock, pending, records, glued, uncleaned>>
    BY <1>2 DEF RestartAudit, Nobody
  <2>2. /\ job' \in Job /\ job'.by = "start" /\ job'.pc = "prune" /\ job'.now = auditClock
        /\ job'.i = 1 /\ job'.opened = FALSE
    <3>1. Fresh(job', "start", "prune", auditClock)
      BY <1>0, <2>1, FreshJob
    <3> QED BY <3>1 DEF Fresh
  <2>3. AuditTypes'
    BY <1>0, <2>1, <2>2 DEF AuditInv, AuditTypes
  <2>4. Stamps'
    BY <1>0, <2>1, <2>2 DEF AuditInv, Stamps
  <2>5. (job.pc = "prune" => Copied(job, log))'
    <3>1. job'.i = 1 /\ job'.opened = FALSE /\ log' \in Seq(Lines)
      BY <2>2, <2>3 DEF AuditTypes
    <3> QED BY <3>1, NothingCopied
  <2>6. Held'
    BY <2>1 DEF AuditInv, Held
  <2>7. Clean'
    BY <2>2 DEF Clean
  <2> QED BY <2>3, <2>4, <2>5, <2>6, <2>7 DEF AuditInv
<1> QED BY <1>1, <1>2

\* One line more of the loop.
LEMMA PruneLineStep == AuditInv /\ PruneLine => AuditInv'
<1> SUFFICES ASSUME AuditInv, PruneLine PROVE AuditInv'
  OBVIOUS
<1> DEFINE n == job.i
           l == log[n]
           goes == Spent(l, job.now)
           marked == [l EXCEPT !.ended = TRUE]
           copy == CASE goes /\ ~job.opened -> SubSeq(log, 1, n - 1)
                     [] ~goes /\ job.opened -> Append(job.kept, marked)
                     [] OTHER -> job.kept
           y == [job EXCEPT !.i = n + 1]
           z == [y EXCEPT !.opened = job.opened \/ goes]
           t == [z EXCEPT !.kept = copy]
<1>1. /\ job \in Job /\ log \in Seq(Lines) /\ job.pc = "prune" /\ n <= Len(log)
      /\ Copied(job, log) /\ n \in 1..Len(log) /\ l \in Lines /\ job.kept \in Seq(Lines)
      /\ UNCHANGED <<log, auditClock, lastPrune, pending, records, glued, uncleaned>>
  BY DEF AuditInv, AuditTypes, PruneLine, Pruning, Copied, Job
<1>2. job' = t
  <2>1. Goes(l) <=> goes
    BY DEF Goes, Expired, Spent
  <2>2. job' = [job EXCEPT !.i = n + 1, !.opened = job.opened \/ goes, !.kept = copy]
    BY <2>1 DEF PruneLine
  <2> HIDE DEF n, goes, copy
  <2> QED BY <1>1, <2>2 DEF Job
<1>3. marked \in Lines /\ Same(l, marked) /\ (Spent(marked, job.now) <=> goes)
  BY <1>1 DEF Lines, Same, Spent
<1>4. copy \in Seq(Lines)
  <2>1. SubSeq(log, 1, n - 1) \in Seq(Lines)
    BY <1>1
  <2>2. Append(job.kept, marked) \in Seq(Lines)
    BY <1>1, <1>3
  <2> HIDE DEF goes, marked
  <2> QED BY <1>1, <2>1, <2>2
<1>5. goes \in BOOLEAN /\ job.opened \in BOOLEAN /\ n \in Nat /\ n + 1 \in Nat
  BY <1>1 DEF Job, Lines, Spent
<1>6. /\ y \in Job /\ y.by = job.by /\ y.pc = job.pc /\ y.now = job.now /\ y.i = n + 1
  <2> HIDE DEF n
  <2> QED BY <1>1, <1>5 DEF Job
<1> HIDE DEF y
<1>7. /\ z \in Job /\ z.by = job.by /\ z.pc = job.pc /\ z.now = job.now /\ z.i = n + 1
      /\ z.opened = (job.opened \/ goes)
  <2> HIDE DEF n, goes
  <2> QED BY <1>5, <1>6 DEF Job
<1> HIDE DEF z
<1>8. /\ job' \in Job /\ job'.by = job.by /\ job'.pc = job.pc /\ job'.now = job.now
      /\ job'.i = n + 1 /\ (job'.opened <=> job.opened \/ goes) /\ job'.kept = copy
  <2> HIDE DEF n, goes, copy
  <2> QED BY <1>2, <1>4, <1>7 DEF Job
<1>9. Copied(job', log)
  <2>1. job'.i \in 1..(Len(log) + 1) /\ job'.i - 1 = n /\ n \in 1..n
    BY <1>1, <1>5, <1>8
  <2>2. \A j \in 1..n : j \in 1..(n - 1) \/ j = n
    BY <1>5
  <2>3. ~job.opened => \A j \in 1..(n - 1) : ~Spent(log[j], job.now)
    BY <1>1 DEF Copied
  <2>4. job.opened => /\ \A k \in 1..Len(job.kept) : ~Spent(job.kept[k], job.now)
                      /\ KeepsTo(log, n - 1, job.kept, job.now)
    BY <1>1 DEF Copied
  <2>5. CASE ~job.opened /\ ~goes
    <3>1. \A j \in 1..n : ~Spent(log[j], job.now)
      BY <2>2, <2>3, <2>5
    <3> HIDE DEF n, goes, copy
    <3> QED BY <1>8, <2>1, <2>5, <3>1 DEF Copied
  <2>6. CASE ~job.opened /\ goes
    <3>1. /\ copy = SubSeq(log, 1, n - 1) /\ Len(copy) = n - 1
          /\ \A j \in 1..(n - 1) : copy[j] = log[j]
      <4>1. copy = SubSeq(log, 1, n - 1)
        BY <2>6
      <4> HIDE DEF copy, goes
      <4> QED BY <1>1, <4>1
    <3> HIDE DEF copy
    <3>2. \A k \in 1..Len(copy) : ~Spent(copy[k], job.now)
      BY <2>3, <2>6, <3>1
    <3>3. \A j \in 1..(n - 1) : Same(log[j], copy[j])
      BY <3>1 DEF Same
    <3>4. KeepsTo(log, n, copy, job.now)
      <4> SUFFICES ASSUME NEW j \in 1..n, ~Spent(log[j], job.now)
                   PROVE  \E k \in 1..Len(copy) : Same(log[j], copy[k])
        BY DEF KeepsTo
      <4>1. j \in 1..(n - 1)
        BY <2>2, <2>6
      <4> HIDE DEF n
      <4> QED BY <3>1, <3>3, <4>1
    <3> HIDE DEF n, goes
    <3> QED BY <1>8, <2>1, <2>6, <3>2, <3>4 DEF Copied
  <2>7. CASE job.opened /\ goes
    <3>1. copy = job.kept
      BY <2>7
    <3> HIDE DEF copy
    <3>2. KeepsTo(log, n, copy, job.now)
      <4> SUFFICES ASSUME NEW j \in 1..n, ~Spent(log[j], job.now)
                   PROVE  \E k \in 1..Len(copy) : Same(log[j], copy[k])
        BY DEF KeepsTo
      <4>1. j \in 1..(n - 1)
        BY <2>2, <2>7
      <4> HIDE DEF n
      <4> QED BY <2>4, <2>7, <3>1, <4>1 DEF KeepsTo
    <3> HIDE DEF n, goes
    <3> QED BY <1>8, <2>1, <2>4, <2>7, <3>1, <3>2 DEF Copied
  <2>8. CASE job.opened /\ ~goes
    <3>1. copy = Append(job.kept, marked)
      BY <2>8
    <3> DEFINE m == Len(job.kept)
    <3> HIDE DEF copy
    <3>2. /\ Len(copy) = m + 1 /\ copy[m + 1] = marked
          /\ \A k \in 1..m : copy[k] = job.kept[k]
      <4> HIDE DEF marked
      <4> QED BY <1>1, <1>3, <3>1
    <3>3. /\ \A k \in 1..(m + 1) : k \in 1..m \/ k = m + 1
          /\ m + 1 \in 1..(m + 1) /\ \A k \in 1..m : k \in 1..(m + 1)
      <4>1. m \in Nat
        BY <1>1
      <4> HIDE DEF m
      <4> QED BY <4>1
    <3>4. \A k \in 1..m : ~Spent(job.kept[k], job.now)
      BY <2>4, <2>8
    <3>5. ~Spent(marked, job.now)
      BY <1>3, <2>8
    <3> HIDE DEF m, marked
    <3>6. \A k \in 1..Len(copy) : ~Spent(copy[k], job.now)
      BY <3>2, <3>3, <3>4, <3>5, Zenon
    <3>7. KeepsTo(log, n, copy, job.now)
      <4> SUFFICES ASSUME NEW j \in 1..n, ~Spent(log[j], job.now)
                   PROVE  \E k \in 1..Len(copy) : Same(log[j], copy[k])
        BY DEF KeepsTo
      <4>1. CASE j = n
        BY <1>3, <3>2, <3>3, <4>1
      <4>2. CASE j \in 1..(n - 1)
        <5>1. PICK k \in 1..m : Same(log[j], job.kept[k])
          BY <2>4, <2>8, <4>2 DEF KeepsTo, m
        <5> QED BY <3>2, <3>3, <5>1, Zenon
      <4> QED BY <2>2, <4>1, <4>2
    <3> HIDE DEF n, goes
    <3> QED BY <1>8, <2>1, <2>8, <3>6, <3>7 DEF Copied
  <2> QED BY <2>5, <2>6, <2>7, <2>8, <1>5
<1> HIDE DEF n, goes, copy, t
<1>10. AuditTypes'
  BY <1>1, <1>8 DEF AuditInv, AuditTypes
<1>11. Stamps'
  BY <1>1, <1>8 DEF AuditInv, Stamps
<1>12. Held'
  BY <1>1 DEF AuditInv, Held
<1>13. Clean'
  BY <1>1, <1>8 DEF Clean
<1> QED BY <1>1, <1>9, <1>10, <1>11, <1>12, <1>13 DEF AuditInv

LEMMA NobodyIsJob == Nobody \in Job /\ Nobody.by = "nobody" /\ Nobody.pc = "idle" /\ Nobody.now = 0
BY EmptySeq DEF Nobody, Job

\* What the cleanup leaves behind: nobody has the mutex, or a writer that appends now.
LEMMA AfterPruneStep ==
  ASSUME AuditInv, Pruning, job' = AfterPrune,
         UNCHANGED <<auditClock, lastPrune, pending>>
  PROVE  job' \in Job /\ job'.pc # "prune" /\ Stamps'
<1>1. /\ job \in Job /\ job.pc = "prune" /\ Stamps /\ job.by \notin {"nobody", "crashed"}
  BY DEF AuditInv, AuditTypes, Pruning, Stamps
<1>2. PruneInterval \in Nat \ {0} /\ Writers \cap {"nobody", "start", "crashed"} = {}
  BY AuditLogAssumption
<1>3. CASE job.by = "start"
  <2>1. job' = Nobody
    BY <1>3 DEF AfterPrune
  <2>2. job' \in Job /\ job'.by = "nobody" /\ job'.pc = "idle" /\ job'.now = 0
    BY <2>1, NobodyIsJob
  <2>3. auditClock \in Nat
    BY DEF AuditInv, AuditTypes
  <2> QED BY <1>1, <1>2, <2>2, <2>3 DEF Stamps
<1>4. CASE job.by # "start"
  <2>1. job' = [job EXCEPT !.pc = "append"] /\ job.by \in Writers
    BY <1>1, <1>4 DEF AfterPrune, Job
  <2>2. /\ job' \in Job /\ job'.by = job.by /\ job'.pc = "append" /\ job'.now = job.now
    BY <1>1, <2>1 DEF Job
  <2>3. job.now \in Nat /\ lastPrune \in Nat
    BY <1>1 DEF Job, AuditInv, AuditTypes
  <2> QED BY <1>1, <1>2, <2>1, <2>2, <2>3 DEF Stamps
<1> QED BY <1>3, <1>4

LEMMA PruneFailsStep == AuditInv /\ PruneFails => AuditInv'
<1> SUFFICES ASSUME AuditInv, PruneFails PROVE AuditInv'
  OBVIOUS
<1>1. /\ Pruning /\ job' = AfterPrune /\ uncleaned' = TRUE
      /\ UNCHANGED <<log, auditClock, lastPrune, pending, records, glued>>
  BY DEF PruneFails
<1>2. job' \in Job /\ job'.pc # "prune" /\ Stamps'
  BY <1>1, AfterPruneStep
<1>3. AuditTypes'
  BY <1>1, <1>2 DEF AuditInv, AuditTypes
<1>4. Held' /\ Clean'
  BY <1>1 DEF AuditInv, Held, Clean
<1> QED BY <1>2, <1>3, <1>4 DEF AuditInv

\* The rename drops what the cleanup may drop, and nothing else.
LEMMA RenameStep == AuditInv /\ Rename => AuditInv'
<1> SUFFICES ASSUME AuditInv, Rename PROVE AuditInv'
  OBVIOUS
<1>1. /\ Pruning /\ job' = AfterPrune /\ job.i > Len(log)
      /\ log' = IF job.opened THEN job.kept ELSE log
      /\ UNCHANGED <<auditClock, lastPrune, pending, records, glued>>
  BY DEF Rename
<1>2. job' \in Job /\ job'.pc # "prune" /\ Stamps'
  BY <1>1, AfterPruneStep
<1>3. /\ job \in Job /\ log \in Seq(Lines) /\ job.kept \in Seq(Lines) /\ Copied(job, log)
      /\ job.now = lastPrune /\ job.now <= auditClock
      /\ job.now \in Nat /\ auditClock \in Nat /\ Retention \in Nat
  BY <1>1, AuditLogAssumption DEF AuditInv, AuditTypes, Stamps, Pruning, Job
<1>4. log' \in Seq(Lines)
  BY <1>1, <1>3
<1>5. job.i - 1 = Len(log)
  BY <1>1, <1>3 DEF Copied
<1>6. /\ \A k \in 1..Len(log') : ~Spent(log'[k], job.now)
      /\ KeepsTo(log, Len(log), log', job.now)
  <2>1. CASE job.opened
    BY <1>1, <1>3, <1>5, <2>1 DEF Copied
  <2>2. CASE ~job.opened
    <3>1. \A j \in 1..Len(log) : Same(log[j], log[j])
      BY DEF Same
    <3> QED BY <1>1, <1>3, <1>5, <2>2, <3>1 DEF Copied, KeepsTo
  <2> QED BY <2>1, <2>2
<1>7. AuditTypes'
  <2>1. uncleaned' \in BOOLEAN
    BY DEF Rename
  <2> QED BY <1>1, <1>2, <1>4, <2>1 DEF AuditInv, AuditTypes
<1>8. Clean'
  <2>1. \A k \in 1..Len(log') : log'[k].at = NoDate \/ log'[k].at >= job.now - Retention
    <3> SUFFICES ASSUME NEW k \in 1..Len(log'), log'[k].at # NoDate
                 PROVE  log'[k].at >= job.now - Retention
      OBVIOUS
    <3>1. log'[k] \in Lines
      BY <1>4
    <3>2. log'[k].at \in Int
      BY <3>1 DEF Lines, NoDate
    <3>3. ~(log'[k].at < job.now - Retention)
      BY <1>6 DEF Spent
    <3> QED BY <1>3, <3>2, <3>3
  <2> QED BY <1>1, <1>3, <2>1 DEF Clean, NoneExpired
<1>9. Held'
  <2> SUFFICES ASSUME NEW r \in records, r.at >= auditClock - Retention, r.id \notin glued
               PROVE  HeldIn(r, log')
    BY <1>1 DEF Held
  <2>1. r.at \in Nat
    BY DEF AuditInv, AuditTypes, Record
  <2>2. PICK j \in 1..Len(log) : r.id \in log[j].recs /\ log[j].at = r.at /\ ~log[j].blank
    BY DEF AuditInv, Held, HeldIn
  <2>3. ~Spent(log[j], job.now)
    BY <1>3, <2>1, <2>2 DEF Spent
  <2>4. PICK k \in 1..Len(log') : Same(log[j], log'[k])
    BY <1>6, <2>3 DEF KeepsTo
  <2> QED BY <2>2, <2>4 DEF Same, HeldIn
<1> QED BY <1>2, <1>7, <1>8, <1>9 DEF AuditInv

\* What an append, whole or torn, does to the log: the lines stay, and what is new is of
\* the time of the append, or of none.
LEMMA AddedIsFresh ==
  ASSUME AuditInv, job.pc = "append", NEW l \in Lines, l.at \in {job.now, NoDate},
         log' = Added(l)
  PROVE  /\ log' \in Seq(Lines)
         /\ \A r \in records : HeldIn(r, log) => HeldIn(r, log')
         /\ ~uncleaned => NoneExpired(log', lastPrune)
<1>1. log \in Seq(Lines)
  BY DEF AuditInv, AuditTypes
<1>2. /\ log' \in Seq(Lines)
      /\ \A j \in 1..Len(log) : \E k \in 1..Len(log') : Same(log[j], log'[k])
      /\ \A k \in 1..Len(log') : log'[k].at = l.at \/ \E j \in 1..Len(log) : log'[k].at = log[j].at
  BY <1>1, AddedKeeps
<1>3. ASSUME NEW r \in records, HeldIn(r, log)
      PROVE  HeldIn(r, log')
  <2>1. PICK j \in 1..Len(log) : r.id \in log[j].recs /\ log[j].at = r.at /\ ~log[j].blank
    BY <1>3 DEF HeldIn
  <2>2. PICK k \in 1..Len(log') : Same(log[j], log'[k])
    BY <1>2
  <2> QED BY <2>1, <2>2 DEF HeldIn, Same
<1>4. ASSUME ~uncleaned
      PROVE  NoneExpired(log', lastPrune)
  <2>1. /\ job.by \in Writers /\ job.by # "crashed"
        /\ job.now \in {auditClock, auditClock - 1} /\ lastPrune <= auditClock
    <3>1. job.by \in Writers /\ pending[job.by] = job.now
      BY DEF AuditInv, Stamps
    <3>2. job.now # NoStamp
      BY DEF AuditInv, AuditTypes, Job, NoStamp
    <3> QED BY <3>1, <3>2, AuditLogAssumption DEF AuditInv, Stamps
  <2>2. NoneExpired(log, lastPrune)
    BY <1>4, <2>1 DEF AuditInv, Clean
  <2>3. job.now >= lastPrune - Retention
    BY <2>1, AuditLogAssumption DEF AuditInv, AuditTypes, Job
  <2>4. l.at = NoDate \/ l.at >= lastPrune - Retention
    BY <2>3
  <2> QED BY <1>2, <2>2, <2>4 DEF NoneExpired
<1> QED BY <1>2, <1>3, <1>4

LEMMA TornLine ==
  ASSUME NEW at \in Nat, NEW l \in TornLines(at)
  PROVE  l \in Lines /\ l.at \in {at, NoDate}
<1>1. \A a \in Nat \cup {NoDate} : Line(a, {}, FALSE) \in Lines /\ Line(a, {}, FALSE).at = a
  BY DEF Line, Lines
<1>2. l = Line(at, {}, FALSE) \/ l = Line(NoDate, {}, FALSE)
  BY DEF TornLines
<1> QED BY <1>1, <1>2

\* When the mutex is free again, or the process is gone, the stamps stand.
LEMMA Released ==
  ASSUME AuditInv, NEW x \in {"nobody", "crashed"}, job' = [Nobody EXCEPT !.by = x],
         UNCHANGED <<auditClock, lastPrune>>,
         pending' \in [Writers -> Nat \cup {NoStamp}],
         \A w \in Writers : pending'[w] = NoStamp \/ pending'[w] = pending[w]
  PROVE  job' \in Job /\ job'.pc = "idle" /\ job'.by = x /\ Stamps'
<1>1. job' \in Job /\ job'.pc = "idle" /\ job'.by = x /\ job'.now = 0
  <2>1. PICK c : c = Nobody
    OBVIOUS
  <2>2. c \in Job /\ c.pc = "idle" /\ c.now = 0
    BY <2>1, NobodyIsJob
  <2>3. job' = [c EXCEPT !.by = x]
    BY <2>1
  <2> QED BY <2>2, <2>3 DEF Job
<1>2. /\ Writers \cap {"nobody", "start", "crashed"} = {} /\ auditClock \in Nat
      /\ lastPrune <= auditClock /\ auditClock > 0
      /\ \A w \in Writers : pending[w] # NoStamp => pending[w] \in {auditClock, auditClock - 1}
  BY AuditLogAssumption DEF AuditInv, AuditTypes, Stamps
<1> QED BY <1>1, <1>2 DEF Stamps

LEMMA AppendRecordStep == AuditInv /\ AppendRecord => AuditInv'
<1> SUFFICES ASSUME AuditInv, AppendRecord PROVE AuditInv'
  OBVIOUS
<1> DEFINE l == Line(job.now, {NextId}, TRUE)
           new == [id |-> NextId, at |-> job.now]
<1>1. /\ job.pc = "append" /\ log' = Added(l) /\ records' = records \cup {new}
      /\ glued' = IF Torn THEN glued \cup {NextId} ELSE glued
      /\ job' = Nobody /\ pending' = [pending EXCEPT ![job.by] = NoStamp]
      /\ UNCHANGED <<auditClock, lastPrune, uncleaned>>
  BY DEF AppendRecord
<1>2. /\ job \in Job /\ job.by \in Writers /\ pending \in [Writers -> Nat \cup {NoStamp}]
      /\ records \subseteq Record /\ IsFiniteSet(records) /\ log \in Seq(Lines)
      /\ job.by # "crashed"
  BY <1>1, AuditLogAssumption DEF AuditInv, AuditTypes, Stamps
<1>3. NextId \in Nat
  BY <1>2, FS_CardinalityType DEF NextId
<1>4. job.now \in Nat /\ l \in Lines /\ new \in Record
  BY <1>2, <1>3 DEF Job, Line, Lines, Record
<1>5. l.at = job.now /\ l.recs = {NextId} /\ ~l.blank /\ new.id = NextId /\ new.at = job.now
  BY DEF Line
<1> HIDE DEF l, new
<1>6. /\ log' \in Seq(Lines)
      /\ \A r \in records : HeldIn(r, log) => HeldIn(r, log')
      /\ ~uncleaned => NoneExpired(log', lastPrune)
  BY <1>1, <1>4, <1>5, AddedIsFresh
<1>7. new.id \in glued' \/ HeldIn(new, log')
  <2>1. CASE Torn
    BY <1>1, <1>5, <2>1
  <2>2. CASE ~Torn
    <3>1. PICK k \in 1..Len(log') : log'[k] = l
      BY <1>1, <1>2, <1>4, <2>2, AddedKeeps
    <3> QED BY <1>5, <3>1 DEF HeldIn
  <2> QED BY <2>1, <2>2
<1>8. /\ pending' \in [Writers -> Nat \cup {NoStamp}]
      /\ \A w \in Writers : pending'[w] = NoStamp \/ pending'[w] = pending[w]
  BY <1>1, <1>2
<1>9. job' = [Nobody EXCEPT !.by = "nobody"]
  BY <1>1 DEF Nobody
<1>10. job' \in Job /\ job'.pc = "idle" /\ Stamps'
  BY <1>1, <1>8, <1>9, Released
<1>11. AuditTypes'
  <2>1. IsFiniteSet(records') /\ records' \subseteq Record
    BY <1>1, <1>2, <1>4, FS_AddElement
  <2> QED BY <1>1, <1>6, <1>8, <1>10, <2>1 DEF AuditInv, AuditTypes
<1>12. Held'
  <2> SUFFICES ASSUME NEW r \in records', r.at >= auditClock - Retention
               PROVE  r.id \in glued' \/ HeldIn(r, log')
    BY <1>1 DEF Held
  <2>1. CASE r = new
    BY <1>7, <2>1
  <2>2. CASE r \in records
    <3>1. r.id \in glued \/ HeldIn(r, log)
      BY <2>2 DEF AuditInv, Held
    <3> QED BY <1>1, <1>6, <2>2, <3>1
  <2> QED BY <1>1, <2>1, <2>2
<1>13. Clean'
  BY <1>1, <1>6 DEF Clean
<1> QED BY <1>10, <1>11, <1>12, <1>13 DEF AuditInv

\* An append that fails, or a crash: a part of a line may be in the log.
LEMMA BreakStep == AuditInv /\ (AppendFails \/ CrashAudit) => AuditInv'
<1> SUFFICES ASSUME AuditInv, AppendFails \/ CrashAudit PROVE AuditInv'
  OBVIOUS
<1>1. /\ job \in Job /\ pending \in [Writers -> Nat \cup {NoStamp}] /\ log \in Seq(Lines)
      /\ job.now \in Nat
  BY DEF AuditInv, AuditTypes, Job
<1>2. /\ log' = log \/ (job.pc = "append" /\ \E l \in TornLines(job.now) : log' = Added(l))
      /\ UNCHANGED <<auditClock, lastPrune, records, glued, uncleaned>>
      /\ pending' \in [Writers -> Nat \cup {NoStamp}]
      /\ \A w \in Writers : pending'[w] = NoStamp \/ pending'[w] = pending[w]
  BY <1>1 DEF AppendFails, CrashAudit
<1>3. \E x \in {"nobody", "crashed"} :
         job' = [Nobody EXCEPT !.by = x] /\ (x = "nobody" => job.pc = "append")
  <2>1. [Nobody EXCEPT !.by = "nobody"] = Nobody
    BY DEF Nobody
  <2> QED BY <2>1 DEF AppendFails, CrashAudit
<1>4. PICK x \in {"nobody", "crashed"} :
         job' = [Nobody EXCEPT !.by = x] /\ (x = "nobody" => job.pc = "append")
  BY <1>3
<1>5. job' \in Job /\ job'.pc = "idle" /\ job'.by = x /\ Stamps'
  BY <1>2, <1>4, Released
<1>6. /\ log' \in Seq(Lines)
      /\ \A r \in records : HeldIn(r, log) => HeldIn(r, log')
      /\ job.pc = "append" /\ ~uncleaned => NoneExpired(log', lastPrune)
  <2>1. CASE log' = log
    <3>1. job.pc = "append" => job.pc # "prune" /\ job.by # "crashed"
      BY AuditLogAssumption DEF AuditInv, Stamps
    <3> QED BY <1>1, <2>1, <3>1 DEF AuditInv, Clean
  <2>2. CASE job.pc = "append" /\ \E l \in TornLines(job.now) : log' = Added(l)
    <3>1. PICK l \in TornLines(job.now) : log' = Added(l)
      BY <2>2
    <3>2. l \in Lines /\ l.at \in {job.now, NoDate}
      BY <1>1, TornLine
    <3> QED BY <2>2, <3>1, <3>2, AddedIsFresh
  <2> QED BY <1>2, <2>1, <2>2
<1>7. AuditTypes'
  BY <1>2, <1>5, <1>6 DEF AuditInv, AuditTypes
<1>8. Held'
  BY <1>2, <1>6 DEF AuditInv, Held
<1>9. Clean'
  BY <1>2, <1>4, <1>5, <1>6 DEF Clean
<1> QED BY <1>5, <1>7, <1>8, <1>9 DEF AuditInv

\* The log of the model calls (internal/audit/audit.go): for any writers, times and old
\* logs, wherever a crash or an error cuts a write or a cleanup, a record whose Write
\* succeeded is in the file for the retention time, unless it shares the line of a torn
\* one; and a record is only ever appended to a log whose lines have not been expired for
\* longer than the time between two cleanups, unless the last cleanup failed.
THEOREM LogAlwaysHoldsItsWeek == AuditSpec => LogHoldsItsWeek
<1>1. AuditInit => AuditInv
  BY AuditStart
<1>2. AuditInv /\ [AuditNext]_auditVars => AuditInv'
  <2> SUFFICES ASSUME AuditInv, [AuditNext]_auditVars PROVE AuditInv'
    OBVIOUS
  <2>1. CASE \E w \in Writers : Encode(w) \/ Lock(w)
    BY <2>1, EncodeStep, LockStep
  <2>2. CASE PruneLine \/ Rename \/ PruneFails
    BY <2>2, PruneLineStep, RenameStep, PruneFailsStep
  <2>3. CASE AppendRecord \/ AppendFails \/ CrashAudit
    BY <2>3, AppendRecordStep, BreakStep
  <2>4. CASE RestartAudit \/ AuditTick
    BY <2>4, TickAndRestart
  <2>5. CASE UNCHANGED auditVars
    BY <2>5 DEF auditVars, AuditInv, AuditTypes, Stamps, Held, Clean
  <2> QED BY <2>1, <2>2, <2>3, <2>4, <2>5 DEF AuditNext
<1>3. AuditInv => FreshRecordsKept
  <2> SUFFICES ASSUME AuditInv, NEW r \in records, r.at >= auditClock - Retention
               PROVE  r.id \in glued \cup UNION {log[i].recs : i \in DOMAIN log}
    BY DEF FreshRecordsKept
  <2>1. CASE r.id \in glued
    BY <2>1
  <2>2. CASE HeldIn(r, log)
    <3>1. PICK k \in 1..Len(log) : r.id \in log[k].recs
      BY <2>2 DEF HeldIn
    <3>2. k \in DOMAIN log
      BY DEF AuditInv, AuditTypes
    <3> QED BY <3>1, <3>2
  <2> QED BY <2>1, <2>2 DEF AuditInv, Held
<1>4. AuditInv /\ AuditNext => OldTextGoes
  <2> SUFFICES ASSUME AuditInv, AuditNext, records' # records, ~uncleaned,
                      NEW i \in DOMAIN log, log[i].at # NoDate
               PROVE  log[i].at > job.now - Retention - PruneInterval - 1
    BY DEF OldTextGoes
  <2>1. job.pc = "append"
    BY DEF AuditNext, AppendRecord, Encode, Lock, PruneLine, Rename, PruneFails, AppendFails,
           CrashAudit, RestartAudit, AuditTick
  <2>2. /\ log \in Seq(Lines) /\ job.now \in Nat /\ lastPrune \in Nat
        /\ job.now - lastPrune < PruneInterval /\ job.by # "crashed"
    BY <2>1, AuditLogAssumption DEF AuditInv, AuditTypes, Stamps, Job
  <2>3. i \in 1..Len(log) /\ log[i] \in Lines
    BY <2>2
  <2>4. log[i].at \in Int
    BY <2>3 DEF Lines, NoDate
  <2>5. log[i].at >= lastPrune - Retention
    BY <2>1, <2>2, <2>3 DEF AuditInv, Clean, NoneExpired
  <2> QED BY <2>2, <2>4, <2>5, AuditLogAssumption
<1>5. AuditInv /\ AuditInv' /\ [AuditNext]_auditVars
        => [FreshRecordsKept' /\ OldTextGoes]_auditVars
  <2>1. AuditInv' => FreshRecordsKept'
    BY <1>3, PTL
  <2> QED BY <1>4, <2>1
<1> QED BY <1>1, <1>2, <1>5, PTL DEF AuditSpec, LogHoldsItsWeek
=============================================================================
