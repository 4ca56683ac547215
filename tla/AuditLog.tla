------------------------------ MODULE AuditLog ------------------------------
(***************************************************************************)
(* The log of the model calls: internal/audit/audit.go.  Evaluations write *)
(* to it at the same time; a cleanup copies what it keeps to a second file *)
(* and renames it over the log.  The process may crash at any step, and an *)
(* append may stop halfway and leave a torn line.                          *)
(***************************************************************************)
EXTENDS Integers, Sequences, FiniteSets

CONSTANTS
  Writers,        \* evaluations that write a record
  OldLogs,        \* logs of an earlier version: sequences of lines
  Retention,      \* Retention, in ticks
  PruneInterval,  \* PruneInterval, in ticks
  MaxRecords,     \* records that are written (bound)
  MaxAuditFaults, \* crashes and failed appends (bound)
  MaxClock        \* ticks (bound)

ASSUME AuditLogAssumption ==
  /\ Retention \in Nat \ {0} /\ PruneInterval \in Nat \ {0}
  /\ Writers \cap {"nobody", "start", "crashed"} = {}

VARIABLES
  log,        \* the file: lines [at, recs, blank, ended]
  auditClock, \* the clock
  job,        \* who holds the mutex and how far the cleanup is
  lastPrune,  \* Log.lastPrune, Never after a start
  pending,    \* the stamp of the record that waits for the mutex
  records,    \* history: the records whose Write succeeded
  glued,      \* history: records that were appended to a torn line
  uncleaned,  \* history: the last cleanup failed
  auditFaults \* crashes and failed appends so far

auditVars == <<log, auditClock, job, lastPrune, pending, records, glued, uncleaned,
              auditFaults>>

Never == -100          \* the zero time
NoDate == -1       \* created_at cannot be read
Nobody == [by |-> "nobody", pc |-> "idle", now |-> 0, i |-> 1, opened |-> FALSE, kept |-> <<>>]
NoStamp == -1
Line(at, recs, ended) == [at |-> at, recs |-> recs, blank |-> FALSE, ended |-> ended]
Lines == [at : Nat \cup {NoDate}, recs : SUBSET Nat, blank : BOOLEAN, ended : BOOLEAN]

ASSUME OldLogsAssumption == OldLogs \subseteq Seq(Lines)

AuditInit ==
  /\ log \in OldLogs
  /\ auditClock = Retention
  /\ job = [Nobody EXCEPT !.by = "start", !.pc = "prune", !.now = Retention]
  /\ lastPrune = Retention
  /\ pending = [w \in Writers |-> NoStamp]
  /\ records = {} /\ glued = {}
  /\ uncleaned = FALSE /\ auditFaults = 0

-----------------------------------------------------------------------------
\* Write stamps the record before it waits for the mutex.
Encode(w) ==
  /\ job.by # "crashed" /\ pending[w] = NoStamp /\ job.by # w
  /\ Cardinality(records) + Cardinality({v \in Writers : pending[v] # NoStamp}) < MaxRecords
  /\ pending' = [pending EXCEPT ![w] = auditClock]
  /\ UNCHANGED <<log, auditClock, job, lastPrune, records, glued, uncleaned, auditFaults>>

\* Mutant: only the start of the process cleans up.
LockAppends(w) ==
  /\ job.by = "nobody" /\ pending[w] # NoStamp
  /\ job' = [Nobody EXCEPT !.by = w, !.now = pending[w], !.pc = "append"]
  /\ UNCHANGED <<log, auditClock, lastPrune, pending, records, glued, uncleaned, auditFaults>>

\* The mutex is taken; the cleanup is stamped first, so that one that keeps failing
\* does not run on every write.
Lock(w) ==
  /\ job.by = "nobody" /\ pending[w] # NoStamp
  /\ LET due == lastPrune = Never \/ pending[w] - lastPrune >= PruneInterval IN
     /\ job' = [Nobody EXCEPT !.by = w, !.now = pending[w], !.pc = IF due THEN "prune" ELSE "append"]
     /\ lastPrune' = IF due THEN pending[w] ELSE lastPrune
  /\ UNCHANGED <<log, auditClock, pending, records, glued, uncleaned, auditFaults>>

-----------------------------------------------------------------------------
Pruning == job.pc = "prune"
AfterPrune == IF job.by = "start" THEN Nobody ELSE [job EXCEPT !.pc = "append"]

\* A line goes when it is blank or expired; one that cannot be read stays.
Expired(l) == l.at # NoDate /\ l.at < job.now - Retention
Goes(l) == l.blank \/ Expired(l)

\* Mutant: the lines before the first one that goes are not copied.
PruneLineFromHere ==
  /\ Pruning /\ job.i <= Len(log)
  /\ LET l == log[job.i] IN
     job' = [job EXCEPT
       !.i = @ + 1,
       !.opened = @ \/ Goes(l),
       !.kept = IF job.opened /\ ~Goes(l) THEN Append(@, [l EXCEPT !.ended = TRUE]) ELSE @]
  /\ UNCHANGED <<log, auditClock, lastPrune, pending, records, glued, uncleaned, auditFaults>>

\* One line of the loop; the second file is opened at the first line that goes, with
\* all the lines before it.
PruneLine ==
  /\ Pruning /\ job.i <= Len(log)
  /\ LET l == log[job.i] IN
     job' = [job EXCEPT
       !.i = @ + 1,
       !.opened = @ \/ Goes(l),
       !.kept = CASE Goes(l) /\ ~job.opened -> SubSeq(log, 1, job.i - 1)
                  [] ~Goes(l) /\ job.opened -> Append(@, [l EXCEPT !.ended = TRUE])
                  [] OTHER -> @]
  /\ UNCHANGED <<log, auditClock, lastPrune, pending, records, glued, uncleaned, auditFaults>>

\* The end of the loop: nothing to drop leaves the file alone, else the rename.
Rename ==
  /\ Pruning /\ job.i > Len(log)
  /\ log' = IF job.opened THEN job.kept ELSE log
  /\ job' = AfterPrune
  /\ uncleaned' = FALSE
  /\ UNCHANGED <<auditClock, lastPrune, pending, records, glued, auditFaults>>

\* An error on the way: the second file is removed, and the write goes on.
PruneFails ==
  /\ Pruning
  /\ job' = AfterPrune
  /\ uncleaned' = TRUE
  /\ UNCHANGED <<log, auditClock, lastPrune, pending, records, glued, auditFaults>>

-----------------------------------------------------------------------------
Torn == Len(log) > 0 /\ ~log[Len(log)].ended
\* Bytes at the end of the file: part of a line that was torn, or a line of their own.
Onto(torn, l) == [torn EXCEPT !.recs = @ \cup l.recs, !.ended = l.ended]
Added(l) ==
  IF Torn THEN [log EXCEPT ![Len(log)] = Onto(log[Len(log)], l)] ELSE Append(log, l)
\* What stays of a record of which a part was written: its stamp, or not even that.
TornLines(at) == {Line(at, {}, FALSE), Line(NoDate, {}, FALSE)}

NextId == Cardinality(records) + 1

AppendRecord ==
  /\ job.pc = "append"
  /\ log' = Added(Line(job.now, {NextId}, TRUE))
  /\ records' = records \cup {[id |-> NextId, at |-> job.now]}
  /\ glued' = IF Torn THEN glued \cup {NextId} ELSE glued
  /\ job' = Nobody
  /\ pending' = [pending EXCEPT ![job.by] = NoStamp]
  /\ UNCHANGED <<auditClock, lastPrune, uncleaned, auditFaults>>

\* The directory, the file or the disk refuses; Write returns the error.
AppendFails ==
  /\ auditFaults < MaxAuditFaults /\ auditFaults' = auditFaults + 1
  /\ job.pc = "append"
  /\ log' \in {log} \cup {Added(l) : l \in TornLines(job.now)}
  /\ job' = Nobody
  /\ pending' = [pending EXCEPT ![job.by] = NoStamp]
  /\ UNCHANGED <<auditClock, lastPrune, records, glued, uncleaned>>

CrashAudit ==
  /\ auditFaults < MaxAuditFaults /\ auditFaults' = auditFaults + 1
  /\ job.by # "crashed"
  /\ log' \in {log} \cup (IF job.pc = "append" THEN {Added(l) : l \in TornLines(job.now)} ELSE {})
  /\ job' = [Nobody EXCEPT !.by = "crashed"]
  /\ pending' = [w \in Writers |-> NoStamp]
  /\ UNCHANGED <<auditClock, lastPrune, records, glued, uncleaned>>

\* Log.Prune, which the process calls at its start.
RestartAudit ==
  /\ job.by = "crashed"
  /\ job' = [Nobody EXCEPT !.by = "start", !.pc = "prune", !.now = auditClock]
  /\ lastPrune' = auditClock
  /\ UNCHANGED <<log, auditClock, pending, records, glued, uncleaned, auditFaults>>

\* Time; a write that is under way ends within a tick.
AuditTick ==
  /\ auditClock < MaxClock
  /\ \A w \in Writers : pending[w] \in {NoStamp, auditClock}
  /\ auditClock' = auditClock + 1
  /\ UNCHANGED <<log, job, lastPrune, pending, records, glued, uncleaned, auditFaults>>

AuditNext ==
  \/ \E w \in Writers : Encode(w) \/ Lock(w)
  \/ PruneLine \/ Rename \/ PruneFails
  \/ AppendRecord \/ AppendFails
  \/ CrashAudit \/ RestartAudit \/ AuditTick

AuditSpec == AuditInit /\ [][AuditNext]_auditVars

-----------------------------------------------------------------------------
(***************************************************************************)
(* Properties                                                              *)
(***************************************************************************)
\* No record is lost before its time: wherever a cleanup is interrupted, by a crash or
\* an error, a record whose Write succeeded stays in the file for the retention time.
\* The exception is a record that was appended to the torn end of another one, which
\* shares its line and its date (audit.go:101 and 118).
FreshRecordsKept ==
  \A r \in records :
    r.at >= auditClock - Retention =>
      r.id \in glued \cup UNION {log[i].recs : i \in DOMAIN log}

\* "Lines expire after seven days" (audit.go:5): a record is only ever appended to a log
\* without a line that has been expired for longer than the time between two cleanups,
\* unless the last cleanup failed or the date of the line cannot be read.
OldTextGoes ==
  records' # records /\ ~uncleaned =>
    \A i \in DOMAIN log :
      log[i].at = NoDate \/ log[i].at > job.now - Retention - PruneInterval - 1

\* A record is kept for its week, and no longer than a cleanup can see to.
LogHoldsItsWeek == [][FreshRecordsKept' /\ OldTextGoes]_auditVars
=============================================================================
