------------------------------- MODULE Startup -------------------------------
(***************************************************************************)
(* From the start of a process to its end: cmd/bot/main.go, with the       *)
(* migrations of internal/db/migrate.go.  Two processes, of two releases,  *)
(* may start at once (a rolling restart).  A statement is one step and may *)
(* fail; a process may die at any step, which ends its session and with it *)
(* the advisory lock and an open transaction.                              *)
(***************************************************************************)
EXTENDS Integers, FiniteSets

CONSTANTS
  Procs,            \* processes
  Files,            \* Files[p]: the versions of the migration files in its release
  Parts,            \* the long-running parts of a process
  ConnectAttempts,  \* attempts of connect
  MaxStarts         \* starts of one process (bound)

ASSUME StartupAssumption ==
  /\ ConnectAttempts \in Nat \ {0} /\ "free" \notin Procs
  /\ \A p \in Procs : Files[p] \subseteq Nat \ {0} /\ 1 \in Files[p]

VARIABLES
  db,      \* the database; ran: history, how often the file of a version was committed
  lock,    \* who holds migrateLockKey
  proc     \* the processes

startupVars == <<db, lock, proc>>

Versions == UNION {Files[p] : p \in Procs}
Off == [pc |-> "off", attempt |-> 1, todo |-> {}, file |-> 0, ok |-> FALSE, parts |-> {},
        cancelled |-> FALSE, err |-> "none", starts |-> 0]

(* A new database, with its schema or without, one of the Python version at *)
(* some revision, or without a record of what it is, whose tables may       *)
(* differ from the baseline, or one that this bot has migrated before.      *)
NewDatabase ==
  [schema |-> FALSE, ledgerTable |-> FALSE, ledger |-> {}, alembic |-> "none",
   tables |-> "none", ran |-> [v \in Versions |-> 0]]
PythonDatabase(revision, tables) ==
  [NewDatabase EXCEPT !.schema = TRUE, !.alembic = revision, !.tables = tables]
MigratedDatabase ==
  [NewDatabase EXCEPT !.schema = TRUE, !.ledgerTable = TRUE, !.tables = "whole", !.ledger = {1},
                      !.ran = [v \in Versions |-> IF v = 1 THEN 1 ELSE 0]]

Databases ==
  {NewDatabase, [NewDatabase EXCEPT !.schema = TRUE], MigratedDatabase}
  \cup {PythonDatabase(revision, tables) :
          revision \in {"none", "empty", "head", "older", "newer"}, tables \in {"whole", "differs"}}

StartupInit ==
  /\ db \in Databases
  /\ lock = "free"
  /\ proc = [p \in Procs |-> Off]

-----------------------------------------------------------------------------
At(p, pc) == proc[p].pc = pc
Go(p, pc) == proc' = [proc EXCEPT ![p].pc = pc]

Start(p) ==
  /\ At(p, "off") /\ proc[p].starts < MaxStarts
  /\ proc' = [proc EXCEPT ![p] = [Off EXCEPT !.pc = "connect", !.starts = proc[p].starts + 1]]
  /\ UNCHANGED <<db, lock>>

\* connect: the first connection is tried again, a few times.
Connect(p) ==
  /\ At(p, "connect")
  /\ \/ Go(p, "lock")
     \/ /\ proc[p].attempt < ConnectAttempts
        /\ proc' = [proc EXCEPT ![p].attempt = @ + 1]
     \/ /\ proc[p].attempt = ConnectAttempts
        /\ Go(p, "exited")
  /\ UNCHANGED <<db, lock>>

\* Mutant: the lock is not waited for.
TakeLockAnyway(p) ==
  /\ At(p, "lock")
  /\ lock' = p
  /\ Go(p, "schema")
  /\ UNCHANGED db

TakeLock(p) ==
  /\ At(p, "lock")
  /\ \/ lock = "free" /\ lock' = p /\ Go(p, "schema")
     \/ Go(p, "exited") /\ UNCHANGED lock  \* the wait fails
  /\ UNCHANGED db

EnsureSchema(p) ==
  /\ At(p, "schema")
  /\ db' = [db EXCEPT !.schema = TRUE]
  /\ Go(p, "ledger")
  /\ UNCHANGED lock

EnsureLedger(p) ==
  /\ At(p, "ledger")
  /\ db' = [db EXCEPT !.ledgerTable = TRUE]
  /\ Go(p, "adopt")
  /\ UNCHANGED lock

\* Mutant: a database at the head revision is adopted without a look at its tables.
AdoptUnverified(p) ==
  /\ At(p, "adopt")
  /\ \/ /\ db.ledger # {} \/ (db.alembic \in {"none", "empty"} /\ db.tables = "none")
        /\ Go(p, "read") /\ UNCHANGED db
     \/ /\ db.ledger = {} /\ db.alembic = "head"
        /\ db' = [db EXCEPT !.ledger = {1}]
        /\ Go(p, "read")
     \/ /\ db.ledger = {}
        /\ db.alembic \in {"older", "newer"} \/ (db.alembic # "head" /\ db.tables # "none")
        /\ Go(p, "unlock") /\ UNCHANGED db
  /\ UNCHANGED lock

(* adoptAlembic, only while the ledger is empty: the head revision with all *)
(* of the baseline is recorded, a fresh database goes on, and anything else *)
(* stops the start.                                                         *)
AdoptAlembic(p) ==
  /\ At(p, "adopt")
  /\ \/ /\ db.ledger # {} \/ (db.alembic \in {"none", "empty"} /\ db.tables = "none")
        /\ Go(p, "read") /\ UNCHANGED db
     \/ /\ db.ledger = {} /\ db.alembic = "head" /\ db.tables = "whole"
        /\ db' = [db EXCEPT !.ledger = {1}]
        /\ Go(p, "read")
     \/ /\ db.ledger = {}
        /\ \/ db.alembic \in {"older", "newer"}
           \/ db.alembic = "head" /\ db.tables # "whole"
           \/ db.alembic \in {"none", "empty"} /\ db.tables # "none"
        /\ Go(p, "unlock") /\ UNCHANGED db
  /\ UNCHANGED lock

AppliedVersions(p) ==
  /\ At(p, "read")
  /\ proc' = [proc EXCEPT ![p].pc = "apply", ![p].todo = Files[p] \ db.ledger]
  /\ UNCHANGED <<db, lock>>

\* applyOne, the oldest file that is not recorded: its text runs inside a transaction; the
\* baseline makes its tables, and fails where one of them exists.
RunFile(p) ==
  /\ At(p, "apply")
  /\ \E v \in proc[p].todo :
       /\ \A u \in proc[p].todo : v <= u
       /\ v = 1 => db.tables = "none"
       /\ proc' = [proc EXCEPT ![p].pc = "record", ![p].file = v]
  /\ UNCHANGED <<db, lock>>

\* The row of the ledger, and the commit of both.
RecordFile(p) ==
  /\ At(p, "record")
  /\ LET v == proc[p].file IN
     /\ db' = [db EXCEPT !.ledger = @ \cup {v},
                         !.ran[v] = @ + 1,
                         !.tables = IF v = 1 THEN "whole" ELSE @]
     /\ proc' = [proc EXCEPT ![p].pc = "apply", ![p].todo = @ \ {v}, ![p].file = 0]
  /\ UNCHANGED lock

Migrated(p) ==
  /\ At(p, "apply") /\ proc[p].todo = {}
  /\ proc' = [proc EXCEPT ![p].pc = "unlock", ![p].ok = TRUE]
  /\ UNCHANGED <<db, lock>>

\* A statement fails: its transaction is rolled back and Migrate returns the error.
StatementFails(p) ==
  /\ proc[p].pc \in {"schema", "ledger", "adopt", "read", "apply", "record"}
  /\ proc' = [proc EXCEPT ![p].pc = "unlock", ![p].file = 0]
  /\ UNCHANGED <<db, lock>>

\* The unlock runs whatever happened; a connection that cannot is closed, which frees the
\* lock as well and fails the start.
Unlock(p) ==
  /\ At(p, "unlock")
  /\ lock' = "free"
  /\ \E released \in BOOLEAN : Go(p, IF proc[p].ok /\ released THEN "preflight" ELSE "exited")
  /\ UNCHANGED db

\* Preflight asks Telegram; then every part starts.
Preflight(p) ==
  /\ At(p, "preflight")
  /\ \/ proc' = [proc EXCEPT ![p].pc = "running", ![p].parts = Parts]
     \/ Go(p, "exited")
  /\ UNCHANGED <<db, lock>>

-----------------------------------------------------------------------------
\* A part returns an error; the first one is kept, and the others are cancelled.
PartFails(p, part) ==
  /\ At(p, "running") /\ part \in proc[p].parts
  /\ proc' = [proc EXCEPT ![p].parts = @ \ {part}, ![p].cancelled = TRUE,
                          ![p].err = IF @ = "none" THEN part ELSE @]
  /\ UNCHANGED <<db, lock>>

Signal(p) ==
  /\ At(p, "running") /\ ~proc[p].cancelled
  /\ proc' = [proc EXCEPT ![p].cancelled = TRUE]
  /\ UNCHANGED <<db, lock>>

PartReturns(p, part) ==
  /\ At(p, "running") /\ proc[p].cancelled /\ part \in proc[p].parts
  /\ proc' = [proc EXCEPT ![p].parts = @ \ {part}]
  /\ UNCHANGED <<db, lock>>

\* All parts returned, or the grace period is over.
Exit(p) ==
  /\ At(p, "running") /\ proc[p].cancelled
  /\ Go(p, "exited")
  /\ UNCHANGED <<db, lock>>

\* The process dies, or has exited and is started again.
Die(p) ==
  /\ proc[p].pc # "off"
  /\ proc' = [proc EXCEPT ![p] = [Off EXCEPT !.starts = proc[p].starts]]
  /\ lock' = IF lock = p THEN "free" ELSE lock
  /\ UNCHANGED db

StartupNext ==
  \E p \in Procs :
    \/ Start(p) \/ Connect(p) \/ TakeLock(p)
    \/ EnsureSchema(p) \/ EnsureLedger(p) \/ AdoptAlembic(p) \/ AppliedVersions(p)
    \/ RunFile(p) \/ RecordFile(p) \/ Migrated(p) \/ StatementFails(p) \/ Unlock(p)
    \/ Preflight(p) \/ Signal(p) \/ Exit(p) \/ Die(p)
    \/ \E part \in Parts : PartFails(p, part) \/ PartReturns(p, part)

StartupSpec == StartupInit /\ [][StartupNext]_startupVars

-----------------------------------------------------------------------------
(***************************************************************************)
(* Properties                                                              *)
(***************************************************************************)
\* Every migration runs once in the life of the database (migrate.go:24: "two instances of
\* the bot never migrate at once"), whatever dies between two statements, and the ledger
\* says so: a file ran exactly if its version is recorded, but for an adopted baseline.
MigrationsRunOnce ==
  \A v \in Versions :
    /\ db.ran[v] <= 1
    /\ db.ran[v] = 1 => v \in db.ledger
    /\ v \in db.ledger /\ db.ran[v] = 0 => v = 1 /\ db.alembic = "head"

\* No part of a process runs on a database that lacks a migration of its release, or whose
\* tables are not the ones of the baseline, whichever release migrated it and whatever the
\* Python version left behind (migrate.go:222).
ServesMigratedOnly ==
  \A p \in Procs :
    proc[p].parts # {} => Files[p] \subseteq db.ledger /\ db.tables = "whole"

\* Releases that start together: each migration runs once, before anybody is served.
MigratedOnceBeforeServing == MigrationsRunOnce /\ ServesMigratedOnly
=============================================================================
