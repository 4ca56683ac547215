----------------------------- MODULE DailyQuote -----------------------------
(***************************************************************************)
(* The daily quote of one group: internal/scheduler/scheduler.go,          *)
(* process.go and publish.go with the tables they read and write.          *)
(*                                                                         *)
(* One group is enough: groups share nothing but the job slots, and a run  *)
(* that waits for one is a run that takes longer.  What interleaves here   *)
(* are the runs of that group: the one the minute tick starts and the      *)
(* catch-ups that presses on "accept" start, in one process or in several  *)
(* (a deploy may overlap two), with crashes, graceful stops, lost database *)
(* answers and Telegram sends whose outcome is not known.  Every call to   *)
(* the database or to Telegram is one step.                                *)
(*                                                                         *)
(* Time is counted in units; only the order of the delays matters.         *)
(***************************************************************************)
EXTENDS Integers, FiniteSets

CONSTANTS
  Procs,          \* bot processes that may run at the same time
  Presses,        \* presses on "accept" whose catch-up may be alive at once
  NoRun,          \* the value of a free group lock
  NDays,          \* quote days that are modelled (bound)
  DayLength,      \* time between two cutoffs
  ToMidnight,     \* time from a cutoff to the end of its calendar day
  CatchUpTime,    \* window.CatchUp: how long after its cutoff a day may start
  RetryAfter,     \* retryAfter
  StaleAfter,     \* staleAfter
  PublishTimeout, \* publishTimeout
  MaxTime,        \* last instant of the model (bound)
  MaxRestarts,    \* crashes and stops, all processes together (bound)
  MaxChanges,     \* presses on "accept" and changes of settings (bound)
  Faults          \* what may go wrong, see FaultKinds

FaultKinds ==
  { "db",       \* a query fails and changes nothing
    "lost",     \* a write is applied but its answer is an error
    "refused",  \* Telegram refuses: certainly not delivered
    "unknown",  \* no usable answer from Telegram: delivered or not
    "gone" }    \* Telegram says the chat does not exist

ASSUME DailyQuoteAssumption ==
  /\ NDays \in Nat \ {0}
  /\ DayLength \in Nat \ {0} /\ ToMidnight \in 1..DayLength
  /\ CatchUpTime \in 1..DayLength
  /\ RetryAfter \in Nat \ {0} /\ StaleAfter \in Nat \ {0}
  /\ PublishTimeout \in Nat \ {0}
  /\ MaxTime \in Nat /\ MaxRestarts \in Nat /\ MaxChanges \in Nat
  /\ Faults \subseteq FaultKinds
  /\ NoRun \notin Procs \X (Presses \cup {"tick"})

\* A committed run is over before its row counts as stale: 3 and 15 minutes.
ASSUME TimeoutAssumption == PublishTimeout <= StaleAfter

Days == 1..NDays
NoDay == 0
Runs == Procs \X (Presses \cup {"tick"})
Proc(t) == t[1]
TickRun(p) == <<p, "tick">>

\* decision_status of a quotes row; "none" stands for no row.
QuoteStatuses == {"publishing", "published", "publish_failed", "publish_unknown"}
NoticeStatuses == {"notifying_boring", "skipped_boring",
                   "boring_notice_failed", "boring_notice_unknown"}
Statuses == QuoteStatuses \cup NoticeStatuses

(* A quotes row as the scheduler uses it.  msg is "a message id is          *)
(* recorded": bot_message_id for a quote, notice_message_id for a notice.   *)
NoRow == [id |-> 0, status |-> "none", changed |-> 0, msg |-> FALSE]
Row == [id : Nat, status : Statuses \cup {"none"}, changed : Nat, msg : BOOLEAN]

(* What a run knows of its group: read by ListActive or Get, never again.   *)
Snapshot == [accepted : BOOLEAN, notice : BOOLEAN]
NoSnapshot == [accepted |-> FALSE, notice |-> FALSE]

(* Before the AI has answered a run obeys the shutdown signal; after it, or *)
(* once a failed notice is retried, it is committed and runs on a context   *)
(* of its own until its deadline.                                           *)
Labels ==
  { "idle", "wait", "load", "start", "remind", "stale", "writeOff", "forDay",
    "delete", "readWindow", "skip", "ask", "create", "copy", "send",
    "markPublished", "setUnknown", "setFailed", "notice", "markNotified",
    "noticeUnknown", "noticeFailed", "settle", "clear" }

Verdicts == {"none", "publish", "boring", "invalid"}

\* A row that recoverStale has read and will write off.
StaleEntry == [day : Days, id : Nat, to : {"publish_unknown", "boring_notice_unknown"}]

IdleRun == [pc |-> "idle", day |-> NoDay, snap |-> NoSnapshot, q |-> NoRow,
            verdict |-> "none", deadline |-> 0, stale |-> {}]

NoMemory == [completed |-> NoDay, reminded |-> NoDay, notBefore |-> 0]
IdleLoop == [pc |-> "idle", snap |-> NoSnapshot, time |-> 0]

VARIABLES
  now,       \* the clock
  \* the database
  row,       \* quotes: the row of each day, or NoRow
  nextId,    \* the id of the next row
  win,       \* messages of each day's window: "empty", "few" or "enough"
  group,     \* group_settings: accepted, active, notice
  \* the chat
  posts,     \* how often the quote of each day was delivered
  notices,   \* how often the boring-day notice was delivered
  nudges,    \* how often the agreement reminder of the day was delivered
  \* the processes
  phase,     \* "down", "up" or "stopping"
  mem,       \* groupState of the group: completed, reminded, notBefore
  lock,      \* the run that holds the group's lock, or NoRun
  loop,      \* the tick loop between ListActive and the lock
  run,       \* the group runs
  \* bounds
  restarts,  \* crashes and stops so far
  changes    \* presses on "accept" and changes of settings so far

env == <<now, changes>>
db == <<row, nextId, win, group>>
chat == <<posts, notices, nudges>>
procs == <<phase, mem, lock, loop, restarts>>
vars == <<env, db, chat, procs, run>>

(***************************************************************************)
(* Calendar: cutoffs are DayLength apart, the first one at time 0.         *)
(***************************************************************************)
Cutoff(d) == (d - 1) * DayLength

\* window.Due: the day whose cutoff passed less than CatchUpTime ago.
DueDays(t) == {d \in Days : Cutoff(d) <= t /\ t < Cutoff(d) + CatchUpTime}

\* window.LastClosed, when the cutoff it finds is today's.
ClosedToday(t) == {d \in Days : Cutoff(d) <= t /\ t < Cutoff(d) + ToMidnight}

(***************************************************************************)
(* A write to the database either succeeds, fails, or succeeds without the *)
(* program hearing of it.                                                  *)
(***************************************************************************)
WriteOutcomes == {"ok"} \cup (Faults \cap {"db", "lost"})
Applied(o) == o # "db"

\* UPDATE quotes SET decision_status, status_changed_at [, message id].
WithStatus(r, status, msg) ==
  [id |-> r.id, status |-> status, changed |-> now, msg |-> r.msg \/ msg]

\* ... WHERE id = q.id: no error when the row is gone.
UpdatedRow(t, status, msg) ==
  IF row[run[t].day].id = run[t].q.id
  THEN [row EXCEPT ![run[t].day] = WithStatus(@, status, msg)]
  ELSE row

\* Steps of a run
At(t, label) == run[t].pc = label
Goto(t, label) == run' = [run EXCEPT ![t].pc = label]

\* The memory of a finished run, and the release of its lock.
Finish(t, done) ==
  /\ run' = [run EXCEPT ![t] = IdleRun]
  /\ lock' = [lock EXCEPT ![Proc(t)] = NoRun]
  /\ mem' = [mem EXCEPT ![Proc(t)] =
               IF done THEN [@ EXCEPT !.completed = run[t].day]
                       ELSE [@ EXCEPT !.notBefore = now + RetryAfter]]
  /\ UNCHANGED <<phase, loop, restarts>>

\* A run that ends without a trace in memory.
Drop(t) ==
  /\ run' = [run EXCEPT ![t] = IdleRun]
  /\ lock' = [lock EXCEPT ![Proc(t)] = IF @ = t THEN NoRun ELSE @]
  /\ UNCHANGED <<phase, mem, loop, restarts>>

(***************************************************************************)
(* The minute tick.                                                        *)
(***************************************************************************)
\* now := s.now() and ListActive: the snapshot the whole tick works with.
TickList(p) ==
  /\ phase[p] = "up" /\ loop[p].pc = "idle"
  /\ group.active
  /\ DueDays(now) # {}
  /\ loop' = [loop EXCEPT ![p] =
       [pc |-> "listed", time |-> now,
        snap |-> [accepted |-> group.accepted, notice |-> group.notice]]]
  /\ UNCHANGED <<env, db, chat, phase, mem, lock, run, restarts>>

\* runnable: the day is not finished and the last failure is old enough.
Runnable(p, d, t) == mem[p].completed # d /\ t >= mem[p].notBefore

TickCheck(p) ==
  /\ loop[p].pc = "listed"
  /\ \E d \in DueDays(loop[p].time) :
       loop' = [loop EXCEPT ![p] = IF Runnable(p, d, @.time)
                                   THEN [@ EXCEPT !.pc = "checked"]
                                   ELSE IdleLoop]
  /\ UNCHANGED <<env, db, chat, phase, mem, lock, run, restarts>>

\* The non-blocking lock, and the goroutine that runs the group.
TickLock(p) ==
  /\ loop[p].pc = "checked"
  /\ loop' = [loop EXCEPT ![p] = IdleLoop]
  /\ IF lock[p] = NoRun
     THEN /\ lock' = [lock EXCEPT ![p] = TickRun(p)]
          /\ \E d \in DueDays(loop[p].time) :
               run' = [run EXCEPT ![TickRun(p)] =
                 [IdleRun EXCEPT !.pc = "start", !.day = d, !.snap = loop[p].snap]]
     ELSE UNCHANGED <<lock, run>>
  /\ UNCHANGED <<env, db, chat, phase, mem, restarts>>

(***************************************************************************)
(* Accepting the agreement and the catch-up it starts.                     *)
(***************************************************************************)
\* Mutant: the catch-up starts without waiting for the lock and the group.
AcceptStartsAtOnce(t) ==
  /\ t[2] # "tick" /\ At(t, "idle")
  /\ phase[Proc(t)] = "up"
  /\ changes < MaxChanges
  /\ changes' = changes + 1
  /\ group' = [group EXCEPT !.accepted = TRUE, !.active = TRUE]
  /\ Goto(t, "start")
  /\ UNCHANGED <<now, row, nextId, win, chat, procs>>

\* agreementCallback, accept: Ensure, AcceptAgreement, then the catch-up.
Accept(t) ==
  /\ t[2] # "tick" /\ At(t, "idle")
  /\ phase[Proc(t)] = "up"
  /\ changes < MaxChanges
  /\ changes' = changes + 1
  /\ group' = [group EXCEPT !.accepted = TRUE, !.active = TRUE]
  /\ Goto(t, "wait")
  /\ UNCHANGED <<now, row, nextId, win, chat, procs>>

CatchUpLock(t) ==
  /\ At(t, "wait") /\ lock[Proc(t)] = NoRun
  /\ lock' = [lock EXCEPT ![Proc(t)] = t]
  /\ Goto(t, "load")
  /\ UNCHANGED <<env, db, chat, phase, mem, loop, restarts>>

\* Groups.Get, LastClosed, and the reset of the group's memory.
CatchUpLoad(t) ==
  /\ At(t, "load")
  /\ UNCHANGED <<env, db, chat>>
  /\ \/ /\ "db" \in Faults \/ ~group.active \/ ClosedToday(now) = {}
        /\ Drop(t)
     \/ /\ group.active
        /\ \E d \in ClosedToday(now) :
             /\ run' = [run EXCEPT ![t] = [IdleRun EXCEPT
                  !.pc = "start", !.day = d,
                  !.snap = [accepted |-> group.accepted, notice |-> group.notice]]]
             /\ mem' = [mem EXCEPT ![Proc(t)].completed = IF @ = d THEN NoDay ELSE @,
                                   ![Proc(t)].notBefore = 0]
        /\ UNCHANGED <<phase, lock, loop, restarts>>

(***************************************************************************)
(* processGroup, before the AI is asked.                                   *)
(***************************************************************************)
Start(t) ==
  /\ At(t, "start")
  /\ Goto(t, IF run[t].snap.accepted THEN "stale" ELSE "remind")
  /\ UNCHANGED <<env, db, chat, procs>>

\* Mutant: that the reminder went out is not remembered.
RemindForgetful(t) ==
  LET d == run[t].day IN
  /\ At(t, "remind")
  /\ nudges' = [nudges EXCEPT ![d] = @ + 1]
  /\ Finish(t, TRUE)
  /\ UNCHANGED <<env, row, nextId, win, group, posts, notices>>

\* remindAgreement: once per day and process.
Remind(t) ==
  LET p == Proc(t)  d == run[t].day IN
  /\ At(t, "remind")
  /\ UNCHANGED <<env, row, nextId, win, posts, notices>>
  /\ \/ /\ mem[p].reminded = d
        /\ Finish(t, TRUE)
        /\ UNCHANGED <<group, nudges>>
     \/ /\ mem[p].reminded # d
        /\ nudges' = [nudges EXCEPT ![d] = @ + 1]
        /\ run' = [run EXCEPT ![t] = IdleRun]
        /\ lock' = [lock EXCEPT ![p] = NoRun]
        /\ mem' = [mem EXCEPT ![p].reminded = d, ![p].completed = d]
        /\ UNCHANGED <<group, phase, loop, restarts>>
     \/ /\ mem[p].reminded # d /\ "gone" \in Faults
        /\ \E o \in WriteOutcomes :
             /\ group' = IF Applied(o) THEN [group EXCEPT !.active = FALSE] ELSE group
             /\ Finish(t, o = "ok")
        /\ UNCHANGED nudges
     \/ /\ mem[p].reminded # d /\ "refused" \in Faults
        /\ Finish(t, FALSE)
        /\ UNCHANGED <<group, nudges>>
     \/ /\ mem[p].reminded # d /\ "unknown" \in Faults
        /\ nudges' \in {nudges, [nudges EXCEPT ![d] = @ + 1]}
        /\ Finish(t, FALSE)
        /\ UNCHANGED group

\* Any query that fails before the run is committed ends the run with an error.
QueryFails(t) ==
  /\ "db" \in Faults
  /\ run[t].pc \in {"stale", "forDay", "readWindow"}
  /\ Finish(t, FALSE)
  /\ UNCHANGED <<env, db, chat>>

\* Mutant: the age of a stale row is not looked at.
StaleRowsAnyAge ==
  {[day |-> d, id |-> row[d].id,
    to |-> IF row[d].status = "publishing" THEN "publish_unknown"
                                           ELSE "boring_notice_unknown"] :
   d \in {x \in Days : row[x].status \in {"publishing", "notifying_boring"}}}

\* Quotes.Stale: rows of any day left in progress for longer than StaleAfter.
StaleRows ==
  {[day |-> d, id |-> row[d].id,
    to |-> IF row[d].status = "publishing" THEN "publish_unknown"
                                           ELSE "boring_notice_unknown"] :
   d \in {x \in Days : /\ row[x].status \in {"publishing", "notifying_boring"}
                       /\ row[x].changed < now - StaleAfter}}

ReadStale(t) ==
  /\ At(t, "stale")
  /\ run' = [run EXCEPT ![t].stale = StaleRows,
                        ![t].pc = IF StaleRows = {} THEN "forDay" ELSE "writeOff"]
  /\ UNCHANGED <<env, db, chat, procs>>

\* SetStatus of one stale row, by id.
WriteOff(t) ==
  /\ At(t, "writeOff")
  /\ \E e \in run[t].stale, o \in WriteOutcomes :
       /\ row' = IF Applied(o) /\ row[e.day].id = e.id
                 THEN [row EXCEPT ![e.day] = WithStatus(@, e.to, FALSE)]
                 ELSE row
       /\ IF o = "ok"
          THEN /\ run' = [run EXCEPT ![t].stale = @ \ {e},
                            ![t].pc = IF run[t].stale = {e} THEN "forDay" ELSE @]
               /\ UNCHANGED procs
          ELSE Finish(t, FALSE)
  /\ UNCHANGED <<env, nextId, win, group, chat>>

\* existingIsTerminal
Terminal(q) ==
  \/ q.status \in {"published", "skipped_boring", "publish_unknown", "boring_notice_unknown"}
  \/ q.status \in {"publish_failed", "boring_notice_failed"} /\ q.msg

\* A failed row with no message behind it that is old enough (retryDue).
RetryDue(q) ==
  /\ q.status \in {"publish_failed", "boring_notice_failed"} /\ ~q.msg
  /\ now - q.changed >= RetryAfter

\* Mutant: an unknown outcome is retried like a failure.
ForDayRetriesUnknown(t) ==
  LET q == row[run[t].day] IN
  /\ At(t, "forDay")
  /\ UNCHANGED <<env, db, chat>>
  /\ \/ /\ q = NoRow
        /\ Goto(t, "readWindow") /\ UNCHANGED procs
     \/ /\ q.status \in {"publish_unknown", "boring_notice_unknown", "publish_failed"}
        /\ run' = [run EXCEPT ![t].pc = "delete", ![t].q = q]
        /\ UNCHANGED procs
     \/ /\ q.status \in {"publishing", "published"} \cup NoticeStatuses
        /\ Finish(t, Terminal(q))

\* ForDay and the branch of retryExisting it leads to.
ForDay(t) ==
  LET q == row[run[t].day] IN
  /\ At(t, "forDay")
  /\ UNCHANGED <<env, db, chat>>
  /\ \/ /\ q = NoRow
        /\ Goto(t, "readWindow") /\ UNCHANGED procs
     \/ /\ q # NoRow /\ ~RetryDue(q)
        /\ Finish(t, Terminal(q))
     \/ /\ RetryDue(q) /\ q.status = "publish_failed"
        /\ run' = [run EXCEPT ![t].pc = "delete", ![t].q = q]
        /\ UNCHANGED procs
     \/ /\ RetryDue(q) /\ q.status = "boring_notice_failed"
        /\ run' = [run EXCEPT ![t].pc = IF run[t].snap.notice THEN "notice" ELSE "settle",
                              ![t].q = q, ![t].deadline = now + PublishTimeout]
        /\ UNCHANGED procs

\* Mutant: the day is computed again although the row could not be deleted.
DeleteFailedIgnoresError(t) ==
  LET d == run[t].day IN
  /\ At(t, "delete")
  /\ \E o \in WriteOutcomes :
       row' = IF Applied(o) /\ row[d].id = run[t].q.id THEN [row EXCEPT ![d] = NoRow] ELSE row
  /\ run' = [run EXCEPT ![t].pc = "readWindow", ![t].q = NoRow]
  /\ UNCHANGED <<env, nextId, win, group, chat, procs>>

\* Mutant: the row is deleted by its day, not by its id.
DeleteFailedByDay(t) ==
  /\ At(t, "delete")
  /\ row' = [row EXCEPT ![run[t].day] = NoRow]
  /\ run' = [run EXCEPT ![t].pc = "readWindow", ![t].q = NoRow]
  /\ UNCHANGED <<env, nextId, win, group, chat, procs>>

\* Quotes.Delete of the failed row: the day is computed again only by the run
\* that really deleted it.
DeleteFailed(t) ==
  LET d == run[t].day
      mine == row[d].id = run[t].q.id IN
  /\ At(t, "delete")
  /\ \E o \in WriteOutcomes :
       /\ row' = IF Applied(o) /\ mine THEN [row EXCEPT ![d] = NoRow] ELSE row
       /\ IF o = "ok" /\ mine
          THEN run' = [run EXCEPT ![t].pc = "readWindow", ![t].q = NoRow] /\ UNCHANGED procs
          ELSE Finish(t, FALSE)
  /\ UNCHANGED <<env, nextId, win, group, chat>>

\* CountWindow, ListWindow, Prepare, DisplayNames.
ReadWindow(t) ==
  LET w == win[run[t].day] IN
  /\ At(t, "readWindow")
  /\ UNCHANGED <<env, db, chat>>
  /\ IF w = "empty"
     THEN Finish(t, TRUE)
     ELSE Goto(t, IF w = "few" THEN "skip" ELSE "ask") /\ UNCHANGED procs

\* DeleteWindow of a day that is skipped or was boring without a notice.
Skip(t) ==
  /\ At(t, "skip")
  /\ \E o \in WriteOutcomes :
       /\ win' = IF Applied(o) THEN [win EXCEPT ![run[t].day] = "empty"] ELSE win
       /\ Finish(t, o = "ok")
  /\ UNCHANGED <<env, row, nextId, group, chat>>

\* Evaluate, and Pick.  A stopping process takes no answer for a verdict.
Ask(t) ==
  /\ At(t, "ask") /\ phase[Proc(t)] = "up"
  /\ UNCHANGED <<env, db, chat>>
  /\ \/ /\ \E v \in Verdicts \ {"none"} :
             run' = [run EXCEPT ![t].pc = "create", ![t].verdict = v,
                                ![t].deadline = now + PublishTimeout]
        /\ UNCHANGED procs
     \/ Finish(t, TRUE)     \* nothing could be picked: closed without a row

(***************************************************************************)
(* The committed part: the row, the send and the record of its outcome.    *)
(***************************************************************************)
\* The status a new row starts with.
FirstStatus(t) ==
  CASE run[t].verdict = "invalid" -> "publish_failed"
    [] run[t].verdict = "publish" -> "publishing"
    [] OTHER -> IF run[t].snap.notice THEN "notifying_boring" ELSE "skipped_boring"

\* What follows it.  A quote of a media message may be copied with a caption.
AfterCreate(t) ==
  CASE run[t].verdict = "publish" -> {"copy", "send"}
    [] run[t].verdict = "boring" -> IF run[t].snap.notice THEN {"notice"} ELSE {"skip"}
    [] OTHER -> {}

\* Mutant: an existing row is overwritten.
CreateOverwrites(t) ==
  LET d == run[t].day
      new == [id |-> nextId, status |-> FirstStatus(t), changed |-> now, msg |-> FALSE]
  IN
  /\ At(t, "create")
  /\ row' = [row EXCEPT ![d] = new]
  /\ nextId' = nextId + 1
  /\ \/ /\ \E l \in AfterCreate(t) :
             run' = [run EXCEPT ![t].pc = l, ![t].q = new]
        /\ UNCHANGED procs
     \/ AfterCreate(t) = {} /\ Finish(t, FALSE)
  /\ UNCHANGED <<env, win, group, chat>>

\* Quotes.Create: INSERT ... ON CONFLICT DO NOTHING, then the row is read back.
Create(t) ==
  LET d == run[t].day
      new == [id |-> nextId, status |-> FirstStatus(t), changed |-> now, msg |-> FALSE]
  IN
  /\ At(t, "create")
  /\ \/ /\ row[d] = NoRow
        /\ row' = [row EXCEPT ![d] = new]
        /\ nextId' = nextId + 1
        /\ \/ /\ \E l \in AfterCreate(t) :
                   run' = [run EXCEPT ![t].pc = l, ![t].q = new]
              /\ UNCHANGED procs
           \/ /\ AfterCreate(t) = {} \/ Faults \cap {"db", "lost"} # {}
              /\ Finish(t, FALSE)
     \/ /\ row[d] # NoRow \/ "db" \in Faults
        /\ Finish(t, FALSE)
        /\ UNCHANGED <<row, nextId>>
  /\ UNCHANGED <<env, win, group, chat>>

\* The sends: delivered, refused, or nobody knows.
PostQuote(t, refused) ==
  LET posted == [posts EXCEPT ![run[t].day] = @ + 1] IN
  \/ posts' = posted /\ Goto(t, "markPublished")
  \/ "unknown" \in Faults /\ posts' \in {posts, posted} /\ Goto(t, "setUnknown")
  \/ "refused" \in Faults /\ posts' = posts /\ Goto(t, refused)

\* CopyWithCaption; a refused copy falls back to text.
Copy(t) ==
  /\ At(t, "copy")
  /\ PostQuote(t, "send")
  /\ UNCHANGED <<env, db, notices, nudges, procs>>

Send(t) ==
  /\ At(t, "send")
  /\ PostQuote(t, "setFailed")
  /\ UNCHANGED <<env, db, notices, nudges, procs>>

SendNotice(t) ==
  LET sent == [notices EXCEPT ![run[t].day] = @ + 1] IN
  /\ At(t, "notice")
  /\ \/ notices' = sent /\ Goto(t, "markNotified")
     \/ "unknown" \in Faults /\ notices' \in {notices, sent} /\ Goto(t, "noticeUnknown")
     \/ "refused" \in Faults /\ notices' = notices /\ Goto(t, "noticeFailed")
  /\ UNCHANGED <<env, db, posts, nudges, procs>>

\* MarkPublished, MarkNotified: the send was confirmed; the outcome is unknown
\* to the next start when this cannot be recorded.
Confirm(t, label, status, otherwise) ==
  /\ At(t, label)
  /\ \E o \in WriteOutcomes :
       /\ row' = IF Applied(o) THEN UpdatedRow(t, status, TRUE) ELSE row
       /\ Goto(t, IF o = "ok" THEN "clear" ELSE otherwise)
  /\ UNCHANGED <<env, nextId, win, group, chat, procs>>

\* Mutant: a quote whose record failed is taken for one that failed.
MarkPublishedOrFailed(t) == Confirm(t, "markPublished", "published", "setFailed")

MarkPublished(t) == Confirm(t, "markPublished", "published", "setUnknown")
MarkNotified(t) == Confirm(t, "markNotified", "skipped_boring", "noticeUnknown")

\* SetStatus after a send that failed or whose outcome is lost.
Record(t, label, status) ==
  /\ At(t, label)
  /\ \E o \in WriteOutcomes :
       row' = IF Applied(o) THEN UpdatedRow(t, status, FALSE) ELSE row
  /\ Finish(t, FALSE)
  /\ UNCHANGED <<env, nextId, win, group, chat>>

\* Mutant: the window is cleared after a failure too.
SetFailedAndClear(t) ==
  /\ At(t, "setFailed")
  /\ row' = UpdatedRow(t, "publish_failed", FALSE)
  /\ Goto(t, "clear")
  /\ UNCHANGED <<env, nextId, win, group, chat, procs>>

SetUnknown(t) == Record(t, "setUnknown", "publish_unknown")
SetFailed(t) == Record(t, "setFailed", "publish_failed")
NoticeUnknown(t) == Record(t, "noticeUnknown", "boring_notice_unknown")
NoticeFailed(t) == Record(t, "noticeFailed", "boring_notice_failed")

\* A failed notice whose group has switched notices off since.
Settle(t) ==
  /\ At(t, "settle")
  /\ \E o \in WriteOutcomes :
       /\ row' = IF Applied(o) THEN UpdatedRow(t, "skipped_boring", FALSE) ELSE row
       /\ IF o = "ok" THEN Goto(t, "clear") /\ UNCHANGED procs ELSE Finish(t, FALSE)
  /\ UNCHANGED <<env, nextId, win, group, chat>>

\* clearWindow (after Pin): its failure is noted and the day is done.
Clear(t) ==
  /\ At(t, "clear")
  /\ \E o \in WriteOutcomes :
       win' = IF Applied(o) THEN [win EXCEPT ![run[t].day] = "empty"] ELSE win
  /\ Finish(t, TRUE)
  /\ UNCHANGED <<env, row, nextId, group, chat>>

(***************************************************************************)
(* Processes, settings and the clock.                                      *)
(***************************************************************************)
\* A process starts with an empty memory and ticks at once.
Boot(p) ==
  /\ phase[p] = "down"
  /\ phase' = [phase EXCEPT ![p] = "up"]
  /\ UNCHANGED <<env, db, chat, mem, lock, loop, restarts, run>>

Forget(p) ==
  /\ phase' = [phase EXCEPT ![p] = "down"]
  /\ mem' = [mem EXCEPT ![p] = NoMemory]
  /\ lock' = [lock EXCEPT ![p] = NoRun]
  /\ loop' = [loop EXCEPT ![p] = IdleLoop]
  /\ run' = [t \in Runs |-> IF Proc(t) = p THEN IdleRun ELSE run[t]]
  /\ UNCHANGED <<env, db, chat>>

\* A kill, a panic, or the end of shutdownGrace.
Crash(p) ==
  /\ phase[p] # "down" /\ restarts < MaxRestarts
  /\ restarts' = restarts + 1
  /\ Forget(p)

\* SIGTERM: the tick loop ends, ctx is done.
Shutdown(p) ==
  /\ phase[p] = "up" /\ restarts < MaxRestarts
  /\ phase' = [phase EXCEPT ![p] = "stopping"]
  /\ loop' = [loop EXCEPT ![p] = IdleLoop]
  /\ restarts' = restarts + 1
  /\ UNCHANGED <<env, db, chat, mem, lock, run>>

\* ctx is done: a run that is not committed returns, nothing is recorded.
Interrupt(t) ==
  /\ phase[Proc(t)] = "stopping" /\ run[t].pc # "idle" /\ run[t].deadline = 0
  /\ Drop(t)
  /\ UNCHANGED <<env, db, chat>>

\* wg.Wait is over.
Exit(p) ==
  /\ phase[p] = "stopping"
  /\ \A t \in Runs : Proc(t) = p => run[t].pc = "idle"
  /\ Forget(p)
  /\ UNCHANGED restarts

\* An admin switches boring-day notices on or off.
ToggleNotice ==
  /\ changes < MaxChanges
  /\ changes' = changes + 1
  /\ group' = [group EXCEPT !.notice = ~@]
  /\ UNCHANGED <<now, row, nextId, win, chat, procs, run>>

\* The bot leaves the chat, or is added again (my_chat_member, Ensure).
SetActive ==
  /\ changes < MaxChanges
  /\ changes' = changes + 1
  /\ group' = [group EXCEPT !.active = ~@]
  /\ UNCHANGED <<now, row, nextId, win, chat, procs, run>>

\* Committed runs end by their deadline: every call on their context fails then.
Clock ==
  /\ now < MaxTime
  /\ \A t \in Runs : run[t].deadline # 0 => now < run[t].deadline
  /\ now' = now + 1
  /\ UNCHANGED <<changes, db, chat, procs, run>>

Init ==
  /\ now = 0
  /\ row = [d \in Days |-> NoRow]
  /\ nextId = 1
  /\ win \in [Days -> {"empty", "few", "enough"}]
  /\ group \in [accepted : BOOLEAN, active : {TRUE}, notice : BOOLEAN]
  /\ posts = [d \in Days |-> 0]
  /\ notices = [d \in Days |-> 0]
  /\ nudges = [d \in Days |-> 0]
  /\ phase = [p \in Procs |-> "down"]
  /\ mem = [p \in Procs |-> NoMemory]
  /\ lock = [p \in Procs |-> NoRun]
  /\ loop = [p \in Procs |-> IdleLoop]
  /\ run = [t \in Runs |-> IdleRun]
  /\ restarts = 0
  /\ changes = 0

\* One step of a run that holds the lock (or waits for it).
RunStep(t) ==
  \/ CatchUpLock(t) \/ CatchUpLoad(t) \/ Start(t) \/ Remind(t) \/ QueryFails(t)
  \/ ReadStale(t) \/ WriteOff(t) \/ ForDay(t) \/ DeleteFailed(t) \/ ReadWindow(t)
  \/ Skip(t) \/ Ask(t) \/ Create(t) \/ Copy(t) \/ Send(t) \/ SendNotice(t)
  \/ MarkPublished(t) \/ MarkNotified(t) \/ SetUnknown(t) \/ SetFailed(t)
  \/ NoticeUnknown(t) \/ NoticeFailed(t) \/ Settle(t) \/ Clear(t) \/ Interrupt(t)

ProcStep(p) ==
  \/ TickList(p) \/ TickCheck(p) \/ TickLock(p)
  \/ Boot(p) \/ Crash(p) \/ Shutdown(p) \/ Exit(p)

Next ==
  \/ \E t \in Runs : RunStep(t) \/ Accept(t)
  \/ \E p \in Procs : ProcStep(p)
  \/ ToggleNotice \/ SetActive \/ Clock

Spec == Init /\ [][Next]_vars

-----------------------------------------------------------------------------
(***************************************************************************)
(* Properties                                                              *)
(***************************************************************************)
Memory == [completed : Days \cup {NoDay}, reminded : Days \cup {NoDay}, notBefore : Nat]
LoopState == [pc : {"idle", "listed", "checked"}, snap : Snapshot, time : Nat]
GroupType == [accepted : BOOLEAN, active : BOOLEAN, notice : BOOLEAN]
\* A run knows its day once it has its lock and its group.
DaylessLabels == {"idle", "wait", "load"}
RunRecord ==
  [pc : Labels, day : Days \cup {NoDay}, snap : Snapshot, q : Row,
   verdict : Verdicts, deadline : Nat, stale : SUBSET StaleEntry]
RunType == {r \in RunRecord : r.pc \in DaylessLabels \/ r.day \in Days}

\* Types of the variables.
TypeOK ==
  /\ now \in Nat
  /\ row \in [Days -> Row] /\ nextId \in Nat \ {0}
  /\ win \in [Days -> {"empty", "few", "enough"}]
  /\ group \in GroupType
  /\ posts \in [Days -> Nat] /\ notices \in [Days -> Nat] /\ nudges \in [Days -> Nat]
  /\ phase \in [Procs -> {"down", "up", "stopping"}]
  /\ mem \in [Procs -> Memory]
  /\ lock \in [Procs -> Runs \cup {NoRun}]
  /\ loop \in [Procs -> LoopState]
  /\ run \in [Runs -> RunType]
  /\ restarts \in Nat /\ changes \in Nat

\* The quote of a day reaches the chat at most once, however many processes,
\* crashes, retries, late answers and lost database writes there are
\* ("a missed quote is better than a duplicate", publish.go).
QuoteAtMostOnce == \A d \in Days : posts[d] <= 1

\* A delivered quote always has its row, and the row never says that it failed:
\* otherwise the retry would delete the row and publish the day again.
PostedIsOnRecord ==
  \A d \in Days : posts[d] > 0 =>
    row[d].status \in {"publishing", "published", "publish_unknown"}

\* A group never gets both a quote and a boring-day notice for one day, although
\* the day can be computed again with another verdict.
QuoteOrNotice == \A d \in Days : posts[d] = 0 \/ notices[d] = 0

\* The AI is asked (and paid) only for a day without a row: the minute tick and
\* the catch-up of one process never both compute a day (F7).
AskedOnlyForOpenDays ==
  \A t \in Runs : run[t].pc \in {"ask", "create"} => row[run[t].day] = NoRow

\* recoverStale never writes off a row whose run is still at work, in this
\* process or in another: a committed run is over before its row is stale.
NoLiveRunWrittenOff ==
  \A t, u \in Runs : \A e \in run[t].stale :
    run[u].deadline # 0 => run[u].q.id # e.id

\* The agreement reminder goes out once per day and process start, unless
\* Telegram loses an answer ("once per quote day", process.go).
NudgedOncePerStart ==
  "unknown" \in Faults \/ \A d \in Days : nudges[d] <= 1 + restarts

\* An unknown outcome is never retried: neither a quote nor a notice is sent for
\* a day whose outcome is unknown, and its row keeps that status.
UnknownIsFinal ==
  [][\A d \in Days :
       row[d].status \in {"publish_unknown", "boring_notice_unknown"} =>
         /\ row'[d].status = row[d].status
         /\ posts'[d] = posts[d] /\ notices'[d] = notices[d]]_vars

\* A published row is never deleted, never failed, never claimed again: only the
\* write that records it may come to be seen as unknown.
PublishedStays ==
  [][\A d \in Days :
       row[d].status = "published" =>
         /\ row'[d].id = row[d].id
         /\ row'[d].status \in {"published", "publish_unknown"}]_vars

\* The messages of a day worth a quote are deleted only after its quote or its
\* notice is on record: a failed day can still be computed again.
WindowKeptUntilSettled ==
  [][\A d \in Days :
       win[d] = "enough" /\ win'[d] = "empty" =>
         row[d].status \in {"published", "skipped_boring"}]_vars

\* The quotes table seen as a ledger (module QuoteLedger).
LedgerEntry(status) ==
  CASE status = "none" -> "open"
    [] status = "publishing" -> "claimed"
    [] status = "published" -> "published"
    [] status = "publish_failed" -> "failed"
    [] status = "publish_unknown" -> "unknown"
    [] OTHER -> "quiet"

\* A run that created a quote row and has not finished with it.
Owning == {"copy", "send", "markPublished", "setUnknown", "setFailed"}

Ledger == INSTANCE QuoteLedger WITH
  ledger <- [d \in Days |-> LedgerEntry(row[d].status)],
  working <- {d \in Days : \E t \in Runs : run[t].pc \in Owning /\ run[t].day = d}

\* Every step of the scheduler is a step of the ledger or leaves it alone: only the
\* run that claimed a day posts for it and records the outcome, a claim is written
\* off only when nobody works on it, an unknown day is never touched again, a
\* published one only by the run that is still recording it, and only a day that
\* failed with nothing posted is computed again (publish.go:18, recoverStale,
\* retryExisting).
KeepsLedger == Ledger!Spec

\* What publish.go says of the notice too ("Statuses follow publishQuote's
\* rule"): it reaches the chat at most once.
NoticeAtMostOnce == \A d \in Days : notices[d] <= 1
=============================================================================
