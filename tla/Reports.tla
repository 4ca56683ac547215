------------------------------- MODULE Reports -------------------------------
(***************************************************************************)
(* The evaluation report of one group and day in PostgreSQL: the saving    *)
(* transactions of internal/scheduler/pgreports.go, which two runs of the  *)
(* day may execute at once, and the removal of the chat text from old      *)
(* reports.  One statement is one step, at READ COMMITTED.                 *)
(***************************************************************************)
EXTENDS Integers

CONSTANTS
  Savers,   \* SaveEvaluationReport calls that may run at the same time
  MaxSaves  \* calls in all (bound)

VARIABLES
  run,     \* the committed rows of ai_evaluation_runs: of this day, at most one
  scores,  \* the committed rows of message_ai_scores: [run, blank]
  saver,   \* the transactions
  saves    \* calls so far: the id of the next run

reportsVars == <<run, scores, saver, saves>>

NoSave == [pc |-> "idle", id |-> 0, status |-> "failed", sees |-> {}, deletes |-> {}]

ReportsInit ==
  /\ run = {} /\ scores = {}
  /\ saver = [s \in Savers |-> NoSave]
  /\ saves = 0

-----------------------------------------------------------------------------
\* What a transaction has locked or inserted and not committed.
Deleting(s) == saver[s].deletes
Inserted(s) == saver[s].pc \in {"scores", "commit"}
Others(s) == Savers \ {s}

\* Back to idle: a commit, a rollback, or a crash; every lock is free.
Over(s) == saver' = [saver EXCEPT ![s] = NoSave]

Begin(s) ==
  /\ saver[s].pc = "idle" /\ saves < MaxSaves
  /\ \E status \in {"parsed", "failed"} :
       saver' = [saver EXCEPT ![s] = [NoSave EXCEPT !.pc = "lookup", !.id = saves + 1, !.status = status]]
  /\ saves' = saves + 1
  /\ UNCHANGED <<run, scores>>

\* SELECT ... FOR UPDATE finds the row in the snapshot of the statement ...
LookUp(s) ==
  /\ saver[s].pc = "lookup"
  /\ saver' = [saver EXCEPT ![s].pc = "lock", ![s].sees = {r.id : r \in run}]
  /\ UNCHANGED <<run, scores, saves>>

Seen(s) == {r \in run : r.id \in saver[s].sees}

\* ... and waits for whoever has it.  A row that is gone by then is no row, and the one
\* that took its place is not seen.  A parsed report is kept, another one is deleted with
\* its scores.
LockRow(s) ==
  /\ saver[s].pc = "lock"
  /\ \A t \in Others(s) : Deleting(t) \cap saver[s].sees = {}
  /\ IF \E r \in Seen(s) : r.status = "parsed"
     THEN Over(s)
     ELSE saver' = [saver EXCEPT ![s].pc = "insert", ![s].deletes = {r.id : r \in Seen(s)}]
  /\ UNCHANGED <<run, scores, saves>>

\* Mutant: a row that is already there is overwritten.
InsertUpserts(s) ==
  /\ saver[s].pc = "insert"
  /\ \A t \in Others(s) : Deleting(t) = {} /\ ~Inserted(t)
  /\ saver' = [saver EXCEPT ![s].pc = IF saver[s].status = "parsed" THEN "scores" ELSE "commit",
                            ![s].deletes = {r.id : r \in run}]
  /\ UNCHANGED <<run, scores, saves>>

\* The insert waits for a transaction that deletes or inserts the row of the day; a row
\* that is there then ends the save: another worker wrote the report first.
Insert(s) ==
  /\ saver[s].pc = "insert"
  /\ \A t \in Others(s) : Deleting(t) = {} /\ ~Inserted(t)
  /\ IF {r.id : r \in run} \subseteq Deleting(s)
     THEN saver' = [saver EXCEPT ![s].pc = IF saver[s].status = "parsed" THEN "scores" ELSE "commit"]
     ELSE Over(s)
  /\ UNCHANGED <<run, scores, saves>>

\* The batch of score rows.
InsertScores(s) ==
  /\ saver[s].pc = "scores"
  /\ saver' = [saver EXCEPT ![s].pc = "commit"]
  /\ UNCHANGED <<run, scores, saves>>

Commit(s) ==
  /\ saver[s].pc = "commit"
  /\ LET r == saver[s] IN
     /\ run' = {o \in run : o.id \notin r.deletes} \cup {[id |-> r.id, status |-> r.status, blank |-> FALSE]}
     /\ scores' = {o \in scores : o.run \notin r.deletes}
          \cup (IF r.status = "parsed" THEN {[run |-> r.id, blank |-> FALSE]} ELSE {})
  /\ Over(s)
  /\ UNCHANGED saves

\* An error of a statement, of the commit, or the death of the process: a rollback.
Abort(s) ==
  /\ saver[s].pc # "idle"
  /\ Over(s)
  /\ UNCHANGED <<run, scores, saves>>

\* Mutant: the text of the scored messages stays.
ScrubRunOnly ==
  /\ \E r \in run : ~r.blank
  /\ \A s \in Savers : Deleting(s) = {}
  /\ run' = {[r EXCEPT !.blank = TRUE] : r \in run}
  /\ UNCHANGED <<scores, saver, saves>>

\* ScrubSnapshotsOlderThan, once the report is old: both statements wait for a
\* transaction that deletes the rows, and commit together.
Scrub ==
  /\ \E r \in run : ~r.blank
  /\ \A s \in Savers : Deleting(s) = {}
  /\ run' = {[r EXCEPT !.blank = TRUE] : r \in run}
  /\ scores' = {[run |-> o.run, blank |-> TRUE] : o \in scores}
  /\ UNCHANGED <<saver, saves>>

ReportsNext ==
  \/ \E s \in Savers :
       Begin(s) \/ LookUp(s) \/ LockRow(s) \/ Insert(s) \/ InsertScores(s) \/ Commit(s) \/ Abort(s)
  \/ Scrub

ReportsSpec == ReportsInit /\ [][ReportsNext]_reportsVars

-----------------------------------------------------------------------------
(***************************************************************************)
(* Properties                                                              *)
(***************************************************************************)
\* "A day that already has a parsed report keeps it: that report is the day's record"
\* (pgreports.go:120), however the saves of two runs overlap and wherever one of them
\* fails; and a day that has a report never has none again ("a failure halfway leaves
\* the earlier one").
ParsedReportStays ==
  /\ \A r \in run : r.status = "parsed" => \E q \in run' : q.id = r.id /\ q.status = "parsed"
  /\ run # {} => run' # {}

Parsed == {r \in run : r.status = "parsed"}

\* The tables agree at every commit: the day has at most one report, the scores are those
\* of this report, there are some only if it was parsed, and its text is removed from
\* both tables at once.
ReportWhole ==
  /\ \A q, r \in run : q = r
  /\ scores = {[run |-> r.id, blank |-> r.blank] : r \in Parsed}

\* The record of a day is one report that stands.
ReportStands == [][ReportWhole' /\ ParsedReportStays]_reportsVars
=============================================================================
