---------------------------- MODULE DailyQuoteInv ----------------------------
(***************************************************************************)
(* The inductive invariant behind the theorems about DailyQuote.           *)
(*                                                                         *)
(* The row of a day is the claim on its quote.  A run that is about to     *)
(* send holds the id of the row it created; the argument is that this id   *)
(* is still the day's, that no other run holds it, and that whoever is     *)
(* about to delete a row deletes one nobody sends for.                     *)
(***************************************************************************)
EXTENDS DailyQuote

\* An owner that has not delivered the quote.
Unsent == {"copy", "send", "setFailed"}
\* A run at work on the row of a boring day.
Noticing == {"notice", "markNotified", "noticeUnknown", "noticeFailed", "settle"}

\* The statuses a delivered quote may have.
LiveQuote == {"publishing", "published", "publish_unknown"}

Held(t) == row[run[t].day].id = run[t].q.id
KnownId(i) == i \in 1..(nextId - 1)

\* A row has an id that was handed out, and a status.
RowHasId == \A d \in Days :
  \/ row[d] = NoRow
  \/ KnownId(row[d].id) /\ row[d].status \in Statuses

\* The row of an owner, while it exists, is that of a quote that may be out.
OwnerHolds == \A t \in Runs : run[t].pc \in Owning =>
  KnownId(run[t].q.id) /\ (Held(t) => row[run[t].day].status \in LiveQuote)

\* Before the send the row exists and the chat has no quote.
UnsentIsClean == \A t \in Runs : run[t].pc \in Unsent =>
  Held(t) /\ posts[run[t].day] = 0 /\ row[run[t].day].status \in {"publishing", "publish_unknown"}

\* Two owners never hold the same row.
OwnersDiffer == \A t, u \in Runs :
  t # u /\ run[t].pc \in Owning /\ run[u].pc \in Owning /\ run[t].day = run[u].day
    => run[t].q.id # run[u].q.id

\* A row about to be deleted belongs to nobody and nothing was posted for it.
DeletedIsDead == \A t \in Runs : run[t].pc = "delete" =>
  /\ KnownId(run[t].q.id)
  /\ Held(t) => /\ posts[run[t].day] = 0
                /\ row[run[t].day].status \in {"publish_failed", "publish_unknown"}
  /\ \A u \in Runs : run[u].pc \in Owning /\ run[u].day = run[t].day
       => run[u].q.id # run[t].q.id

\* The row of a boring day stays one.
NoticeHolds == \A t \in Runs : run[t].pc \in Noticing =>
  Held(t) /\ row[run[t].day].status \in NoticeStatuses

\* A stale row is written off within its kind.
StaleKind == \A t \in Runs : \A e \in run[t].stale :
  /\ KnownId(e.id)
  /\ row[e.day].id = e.id =>
       (row[e.day].status \in QuoteStatuses <=> e.to = "publish_unknown")

PostInv == QuoteAtMostOnce /\ PostedIsOnRecord

SafeInv ==
  /\ RowHasId /\ OwnerHolds /\ UnsentIsClean /\ OwnersDiffer
  /\ DeletedIsDead /\ NoticeHolds /\ StaleKind /\ PostInv

IInv == TypeOK /\ SafeInv

-----------------------------------------------------------------------------
(***************************************************************************)
(* What the refinement, the notices and the stale rows need beyond it.     *)
(***************************************************************************)
\* A run whose send was confirmed has posted.
ConfirmedIsPosted == \A t \in Runs : run[t].pc = "markPublished" => posts[run[t].day] = 1

\* A notice that was sent keeps its row, and the row stays that of a boring day.
NoticedIsOnRecord == \A d \in Days : notices[d] > 0 => row[d].status \in NoticeStatuses

InProgress == {"publishing", "notifying_boring"}
Unknown == {"publish_unknown", "boring_notice_unknown"}
\* Runs on a context of their own: from the verdict on, or from the retry of a notice.
Committed == Owning \cup Noticing \cup {"create", "skip", "clear"}
\* Runs that have looked at no row yet, or found none.
Early == {"idle", "wait", "load", "start", "remind", "stale", "writeOff", "forDay",
          "readWindow", "ask", "create"}

\* An id is that of one row, of one day.
IdsAreUnique ==
  /\ \A c, d \in Days : row[c].id = row[d].id => c = d \/ row[c].id = 0
  /\ \A t \in Runs :
       /\ run[t].q.id < nextId
       /\ \A d \in Days : row[d].id = run[t].q.id => d = run[t].day \/ run[t].q.id = 0
       /\ \A e \in run[t].stale : \A d \in Days : row[d].id = e.id => d = e.day

\* A deadline is set for the committed part of a run, and not passed.
DeadlinesHold == \A t \in Runs :
  /\ run[t].pc \in Early => run[t].q.id = 0
  /\ run[t].pc \in Owning \cup Noticing \cup {"create"} => run[t].deadline # 0
  /\ run[t].deadline # 0 => /\ run[t].pc \in Committed
                            /\ now <= run[t].deadline
                            /\ run[t].deadline <= now + PublishTimeout

\* A row in progress is not older than the committed run that works on it.
LiveIsFresh == \A t \in Runs :
  run[t].deadline # 0 /\ run[t].q.id # 0 /\ Held(t) /\ row[run[t].day].status \in InProgress
    => run[t].deadline <= row[run[t].day].changed + PublishTimeout

\* Nobody finishes a row that was found stale: it stays in progress until it is
\* written off.
StaleIsDead == \A t \in Runs : \A e \in run[t].stale :
  row[e.day].id = e.id => row[e.day].status \in InProgress \cup Unknown

\* An owner keeps the claim it made until it records the outcome; the only status it
\* may find changed is its own "published", when the answer to it was lost.
OwnersKeepClaim == \A t \in Runs : run[t].pc \in Owning =>
  /\ Held(t)
  /\ \/ row[run[t].day].status = "publishing"
     \/ run[t].pc = "setUnknown" /\ row[run[t].day].status = "published"

\* The row a run is about to delete is still that of a failure.
DeletedIsFailed == \A t \in Runs :
  run[t].pc = "delete" /\ Held(t) => row[run[t].day].status = "publish_failed"

LiveInv ==
  /\ IdsAreUnique /\ DeadlinesHold /\ LiveIsFresh /\ StaleIsDead /\ NoLiveRunWrittenOff

ClaimInv == OwnersKeepClaim /\ DeletedIsFailed

OutcomeInv == IInv /\ ConfirmedIsPosted /\ NoticedIsOnRecord

WholeInv == OutcomeInv /\ LiveInv /\ ClaimInv

-----------------------------------------------------------------------------
(***************************************************************************)
(* What holds in addition when one process runs alone: its lock lets one   *)
(* run at a time work on the group, so a run knows the row of its day.     *)
(***************************************************************************)
OneProcess == \E p \in Procs : Procs = {p}

Busy(t) == run[t].pc \notin {"idle", "wait"}

LockHeld == \A t \in Runs : Busy(t) => lock[Proc(t)] = t

\* The statuses the row of its day may have while a run is at a step.
Expected(label) ==
  CASE label \in {"readWindow", "ask", "create"} -> {"none"}
    [] label = "delete" -> {"publish_failed"}
    [] label \in Owning \ {"setUnknown"} -> {"publishing"}
    [] label = "setUnknown" -> {"publishing", "published"}
    [] label \in {"notice", "markNotified", "noticeFailed"} ->
         {"notifying_boring", "boring_notice_failed"}
    [] label = "noticeUnknown" ->
         {"notifying_boring", "boring_notice_failed", "skipped_boring"}
    [] label = "settle" -> {"boring_notice_failed"}
    [] label = "skip" -> {"none", "skipped_boring"}
    [] label = "clear" -> {"published", "skipped_boring"}
    [] OTHER -> Statuses \cup {"none"}

AsExpected(t) == run[t].pc \notin DaylessLabels =>
  /\ row[run[t].day].status \in Expected(run[t].pc)
  /\ run[t].pc \in Owning => Held(t)
  /\ run[t].pc = "skip" /\ row[run[t].day].status = "none" => win[run[t].day] # "enough"

SerialInv == LockHeld /\ \A t \in Runs : AsExpected(t)

-----------------------------------------------------------------------------
(***************************************************************************)
(* Why the agreement reminder is counted: only the minute tick reminds, its *)
(* days never go back, and each start of the process forgets one reminder.  *)
(***************************************************************************)
CatchUpsAccepted == \A t \in Runs : t[2] # "tick" =>
  /\ run[t].pc \in {"wait", "load"} => group.accepted
  /\ run[t].pc = "start" => run[t].snap.accepted
  /\ run[t].pc # "remind"

DaysInOrder == \A p \in Procs :
  LET t == TickRun(p)  last == mem[p].reminded IN
  /\ Cutoff(last) <= now /\ run[t].pc \notin {"wait", "load"}
  /\ loop[p].pc # "idle" => loop[p].time <= now /\ Cutoff(last) <= loop[p].time
  /\ run[t].pc \in {"start", "remind"} =>
       /\ last <= run[t].day /\ Cutoff(run[t].day) <= now
       /\ loop[p].pc # "idle" => Cutoff(run[t].day) <= loop[p].time

NudgesCounted == "unknown" \in Faults \/ \A p \in Procs, d \in Days :
  nudges[d] + (IF mem[p].reminded < d THEN 1 ELSE 0)
    <= 1 + restarts - (IF phase[p] = "stopping" THEN 1 ELSE 0)

ReminderInv == LockHeld /\ CatchUpsAccepted /\ DaysInOrder /\ NudgesCounted

===============================================================================
