-------------------------- MODULE DailyQuoteOutcomes --------------------------
(***************************************************************************)
(* What becomes of a day: a group gets a quote or a notice but not both,   *)
(* no run is written off while it is at work, and the quotes table is a    *)
(* ledger in which only the run that claimed a day posts for it and in     *)
(* which an unknown outcome is final.                                      *)
(***************************************************************************)
EXTENDS DailyQuoteProofs

(***************************************************************************)
(* What a step may do to the rows and the posts: nothing, one post, or one *)
(* row inserted, deleted or given a new status.                            *)
(***************************************************************************)
Kept == UNCHANGED <<row, nextId, posts>>

\* A run is at work on the row of the day.
HasHolder(d) == \E t \in Runs :
  run[t].pc \in Owning \cup Noticing /\ run[t].day = d /\ Held(t)

\* A run has found the row of the day stale.
FoundStale(d) == \E t \in Runs : \E e \in run[t].stale : e.day = d /\ e.id = row[d].id

Posted(d) ==
  /\ UNCHANGED <<row, nextId>> /\ row[d].status \in {"publishing", "publish_unknown"}
  /\ posts[d] = 0 /\ posts' = [posts EXCEPT ![d] = 1]
  /\ HasHolder(d)

OthersKept(d) == posts' = posts /\ \A x \in Days \ {d} : row'[x] = row[x]

Inserted(d) ==
  /\ OthersKept(d) /\ row[d] = NoRow
  /\ row'[d].id = nextId /\ row'[d].changed = now /\ nextId' = nextId + 1
  /\ row'[d].status \in {"publishing", "publish_failed", "notifying_boring", "skipped_boring"}

Deleted(d) ==
  /\ OthersKept(d) /\ nextId' = nextId /\ row'[d] = NoRow
  /\ posts[d] = 0 /\ row[d].status \in {"publish_failed", "publish_unknown"}
  /\ \E t \in Runs : run[t].pc = "delete" /\ run[t].day = d

\* The statuses a row may turn to.
MayTurn(d, s) ==
  \/ s = "published" /\ row[d].status \in LiveQuote /\ posts[d] = 1
  \/ s = "publish_unknown" /\ row[d].status \in QuoteStatuses
  \/ s = "publish_failed" /\ row[d].status \in {"publishing", "publish_unknown"} /\ posts[d] = 0
  \/ s \in NoticeStatuses \ {"notifying_boring"} /\ row[d].status \in NoticeStatuses

Turned(d, s) ==
  /\ OthersKept(d) /\ nextId' = nextId
  /\ MayTurn(d, s) /\ row'[d].id = row[d].id /\ row'[d].status = s
  /\ HasHolder(d) \/ (s \in Unknown /\ FoundStale(d))

DayStep(d) == Posted(d) \/ Inserted(d) \/ Deleted(d) \/ \E s \in Statuses : Turned(d, s)

LEMMA DaySend ==
  ASSUME TypeOK, SafeInv, NEW t \in Runs, Copy(t) \/ Send(t)
  PROVE  Kept \/ \E d \in Days : DayStep(d)
<1> DEFINE d == run[t].day
<1>1. /\ UNCHANGED <<row, nextId>> /\ run[t].pc \in Unsent /\ d \in Days
  BY DayOfRun DEF Copy, Send, db, At, DaylessLabels, Unsent
<1>2. posts' = posts \/ posts' = [posts EXCEPT ![d] = @ + 1]
  BY DEF Copy, Send, PostQuote
<1>3. posts[d] = 0 /\ row[d].status \in {"publishing", "publish_unknown"}
  BY <1>1 DEF SafeInv, UnsentIsClean
<1>4. posts' = posts \/ posts' = [posts EXCEPT ![d] = 1]
  BY <1>2, <1>3
<1>5. HasHolder(d)
  BY <1>1 DEF SafeInv, UnsentIsClean, HasHolder, Unsent, Owning
<1> QED BY <1>1, <1>3, <1>4, <1>5 DEF Kept, DayStep, Posted

LEMMA DayWriteOff ==
  ASSUME TypeOK, SafeInv, NEW t \in Runs, WriteOff(t)
  PROVE  Kept \/ \E d \in Days : DayStep(d)
<1>1. PICK e \in run[t].stale :
        \/ row' = row
        \/ row[e.day].id = e.id /\ row' = [row EXCEPT ![e.day] = WithStatus(@, e.to, FALSE)]
  BY DEF WriteOff
<1>2. UNCHANGED <<nextId, posts>>
  BY DEF WriteOff, chat
<1>3. e.day \in Days /\ e.to \in {"publish_unknown", "boring_notice_unknown"}
  BY DEF TypeOK, RunType, RunRecord, StaleEntry
<1>4. CASE row' # row
  <2>1. row[e.day].id = e.id /\ row' = [row EXCEPT ![e.day] = WithStatus(@, e.to, FALSE)]
    BY <1>1, <1>4
  <2>2. /\ KnownId(row[e.day].id)
        /\ row[e.day].status \in QuoteStatuses <=> e.to = "publish_unknown"
    BY <2>1 DEF SafeInv, StaleKind
  <2>3. row[e.day].status \in Statuses
    BY <1>3, <2>2 DEF SafeInv, RowHasId, KnownId, NoRow
  <2>4. MayTurn(e.day, e.to) /\ e.to \in Statuses
    BY <1>3, <2>2, <2>3 DEF MayTurn, Statuses, QuoteStatuses, NoticeStatuses
  <2>5. /\ row'[e.day].id = row[e.day].id /\ row'[e.day].status = e.to
        /\ \A x \in Days \ {e.day} : row'[x] = row[x]
    BY <1>3, <2>1, RowChanges
  <2>6. FoundStale(e.day)
    BY <2>1 DEF FoundStale
  <2> QED BY <1>2, <1>3, <2>4, <2>5, <2>6 DEF DayStep, Turned, OthersKept, Unknown
<1> QED BY <1>2, <1>4 DEF Kept

LEMMA DayQuoteRecord ==
  ASSUME TypeOK, SafeInv, ConfirmedIsPosted, NEW t \in Runs,
         MarkPublished(t) \/ SetUnknown(t) \/ SetFailed(t)
  PROVE  Kept \/ \E d \in Days : DayStep(d)
<1> DEFINE d == run[t].day
<1>1. PICK s \in {"published", "publish_unknown", "publish_failed"} :
        /\ row' = row \/ row' = UpdatedRow(t, s, s = "published")
        /\ s = "publish_failed" => run[t].pc = "setFailed"
        /\ s = "published" => run[t].pc = "markPublished"
  BY DEF MarkPublished, SetUnknown, SetFailed, Confirm, Record, At
<1>2. UNCHANGED <<nextId, posts>> /\ run[t].pc \in Owning
  BY DEF MarkPublished, SetUnknown, SetFailed, Confirm, Record, chat, At, Owning
<1>3. d \in Days
  BY <1>2, DayOfRun DEF Owning, DaylessLabels
<1>4. CASE row' # row
  <2>1. Held(t) /\ row' = [row EXCEPT ![d] = WithStatus(@, s, s = "published")]
    BY <1>1, <1>4 DEF UpdatedRow, Held
  <2>2. row[d].status \in LiveQuote
    BY <1>2, <2>1 DEF SafeInv, OwnerHolds, Held
  <2>3. s = "publish_failed" => posts[d] = 0 /\ row[d].status \in {"publishing", "publish_unknown"}
    BY <1>1 DEF SafeInv, UnsentIsClean, Unsent
  <2>4. s = "published" => posts[d] = 1
    BY <1>1 DEF ConfirmedIsPosted
  <2>5. MayTurn(d, s) /\ s \in Statuses
    BY <2>2, <2>3, <2>4 DEF MayTurn, Statuses, QuoteStatuses, LiveQuote
  <2>6. /\ row'[d].id = row[d].id /\ row'[d].status = s
        /\ \A x \in Days \ {d} : row'[x] = row[x]
    BY <1>3, <2>1, RowChanges
  <2>7. HasHolder(d)
    BY <1>2, <2>1 DEF HasHolder
  <2> QED BY <1>2, <1>3, <2>5, <2>6, <2>7 DEF DayStep, Turned, OthersKept
<1> QED BY <1>2, <1>4 DEF Kept

LEMMA DayNoticeRecord ==
  ASSUME TypeOK, SafeInv, NEW t \in Runs,
         MarkNotified(t) \/ NoticeUnknown(t) \/ NoticeFailed(t) \/ Settle(t)
  PROVE  Kept \/ \E d \in Days : DayStep(d)
<1> DEFINE d == run[t].day
<1>1. row' = row \/ \E s \in NoticeStatuses \ {"notifying_boring"}, m \in BOOLEAN :
        row' = UpdatedRow(t, s, m)
  <2>1. CASE MarkNotified(t)
    BY <2>1 DEF MarkNotified, Confirm, NoticeStatuses
  <2>2. CASE NoticeUnknown(t) \/ NoticeFailed(t)
    BY <2>2 DEF NoticeUnknown, NoticeFailed, Record, NoticeStatuses
  <2>3. CASE Settle(t)
    <3>1. PICK o \in WriteOutcomes :
            row' = IF Applied(o) THEN UpdatedRow(t, "skipped_boring", FALSE) ELSE row
      BY <2>3 DEF Settle
    <3> QED BY <3>1 DEF NoticeStatuses
  <2> QED BY <2>1, <2>2, <2>3
<1>2. UNCHANGED <<nextId, posts>> /\ run[t].pc \in Noticing
  BY DEF MarkNotified, NoticeUnknown, NoticeFailed, Settle, Confirm, Record, chat, At, Noticing
<1>3. d \in Days
  BY <1>2, DayOfRun DEF Noticing, DaylessLabels
<1>4. CASE row' # row
  <2>1. PICK s \in NoticeStatuses \ {"notifying_boring"}, m \in BOOLEAN :
          row' = [row EXCEPT ![d] = WithStatus(@, s, m)]
    BY <1>1, <1>4 DEF UpdatedRow
  <2>2. MayTurn(d, s) /\ s \in Statuses
    BY <1>2 DEF SafeInv, NoticeHolds, MayTurn, Statuses
  <2>3. /\ row'[d].id = row[d].id /\ row'[d].status = s
        /\ \A x \in Days \ {d} : row'[x] = row[x]
    BY <1>3, <2>1, RowChanges
  <2>4. HasHolder(d)
    BY <1>2 DEF SafeInv, NoticeHolds, HasHolder
  <2> QED BY <1>2, <1>3, <2>2, <2>3, <2>4 DEF DayStep, Turned, OthersKept
<1> QED BY <1>2, <1>4 DEF Kept

LEMMA DayDelete ==
  ASSUME TypeOK, SafeInv, NEW t \in Runs, DeleteFailed(t)
  PROVE  Kept \/ \E d \in Days : DayStep(d)
<1> DEFINE d == run[t].day
<1>1. UNCHANGED <<nextId, posts>> /\ run[t].pc = "delete" /\ d \in Days
  BY DayOfRun DEF DeleteFailed, chat, At, DaylessLabels
<1>2. CASE row' # row
  <2>1. Held(t) /\ row' = [row EXCEPT ![d] = NoRow]
    BY <1>2 DEF DeleteFailed, Held
  <2>2. row'[d] = NoRow /\ \A x \in Days \ {d} : row'[x] = row[x]
    BY <1>1, <2>1 DEF TypeOK
  <2>3. posts[d] = 0 /\ row[d].status \in {"publish_failed", "publish_unknown"}
    BY <1>1, <2>1 DEF SafeInv, DeletedIsDead
  <2> QED BY <1>1, <2>2, <2>3 DEF DayStep, Deleted, OthersKept
<1> QED BY <1>1, <1>2 DEF Kept

LEMMA DayCreate ==
  ASSUME TypeOK, NEW t \in Runs, Create(t)
  PROVE  Kept \/ \E d \in Days : DayStep(d)
<1> DEFINE d == run[t].day
           new == [id |-> nextId, status |-> FirstStatus(t), changed |-> now, msg |-> FALSE]
<1>1. posts' = posts /\ d \in Days
  BY DayOfRun DEF Create, chat, At, DaylessLabels
<1>2. CASE ~UNCHANGED <<row, nextId>>
  <2>1. row[d] = NoRow /\ row' = [row EXCEPT ![d] = new] /\ nextId' = nextId + 1
    BY <1>2 DEF Create
  <2>2. /\ new.id = nextId /\ new.changed = now
        /\ new.status \in {"publishing", "publish_failed", "notifying_boring", "skipped_boring"}
    BY DEF FirstStatus
  <2> HIDE DEF new
  <2>3. row'[d] = new /\ \A x \in Days \ {d} : row'[x] = row[x]
    BY <1>1, <2>1 DEF TypeOK
  <2> QED BY <1>1, <2>1, <2>2, <2>3 DEF DayStep, Inserted, OthersKept
<1> QED BY <1>1, <1>2 DEF Kept

\* Every step leaves the rows and the posts alone or is a step of one day.
LEMMA DaySteps ==
  ASSUME TypeOK, SafeInv, ConfirmedIsPosted, [Next]_vars
  PROVE  Kept \/ \E d \in Days : DayStep(d)
<1>1. ASSUME NEW t \in Runs, RunStep(t) \/ Accept(t)
      PROVE  Kept \/ \E d \in Days : DayStep(d)
  <2>1. CASE \/ CatchUpLock(t) \/ CatchUpLoad(t) \/ Start(t) \/ Remind(t) \/ QueryFails(t)
             \/ ReadStale(t) \/ ForDay(t) \/ ReadWindow(t) \/ Skip(t) \/ Ask(t) \/ SendNotice(t)
             \/ Clear(t) \/ Interrupt(t) \/ Accept(t)
    BY <2>1 DEF Kept, CatchUpLock, CatchUpLoad, Start, Remind, QueryFails, ReadStale, ForDay,
                ReadWindow, Skip, Ask, SendNotice, Clear, Interrupt, Accept, db, chat
  <2> QED BY <1>1, <2>1, DaySend, DayWriteOff, DayQuoteRecord, DayNoticeRecord, DayDelete,
             DayCreate DEF RunStep
<1>2. CASE (\E p \in Procs : ProcStep(p)) \/ ToggleNotice \/ SetActive \/ Clock
  BY <1>2 DEF Kept, ProcStep, TickList, TickCheck, TickLock, Boot, Crash, Shutdown, Exit, Forget,
              ToggleNotice, SetActive, Clock, db, chat
<1>3. CASE UNCHANGED vars
  BY <1>3 DEF Kept, vars, db, chat
<1> QED BY <1>1, <1>2, <1>3 DEF Next

(***************************************************************************)
(* What a step may do to the run that takes it.                            *)
(***************************************************************************)
Walks(t) ==
  /\ run'[t].day = run[t].day /\ run'[t].q = run[t].q /\ run'[t].snap = run[t].snap
  /\ run'[t].deadline = run[t].deadline /\ run'[t].stale = run[t].stale

Hop(t, from, to) == run[t].pc \in from /\ run'[t].pc \in to

Walk(t) ==
  \/ Hop(t, {"idle"}, {"wait"}) \/ Hop(t, {"wait"}, {"load"})
  \/ Hop(t, {"start"}, {"stale", "remind"}) \/ Hop(t, {"forDay"}, {"readWindow"})
  \/ Hop(t, {"readWindow"}, {"skip", "ask"})
  \/ Hop(t, {"copy", "send"}, {"markPublished"}) /\ posts' = [posts EXCEPT ![run[t].day] = @ + 1]
  \/ Hop(t, {"copy", "send"}, {"setUnknown", "send", "setFailed"})
  \/ Hop(t, {"markPublished"}, {"clear", "setUnknown"})
  \/ Hop(t, {"notice"}, {"markNotified", "noticeUnknown", "noticeFailed"})
  \/ Hop(t, {"markNotified"}, {"clear", "noticeUnknown"})
  \/ Hop(t, {"settle"}, {"clear"})

Begins(t) ==
  /\ run'[t].pc = "start" /\ run'[t].day \in Days /\ run'[t].q = NoRow
  /\ run'[t].deadline = 0 /\ run'[t].stale = {}

Sifts(t) ==
  /\ Hop(t, {"stale", "writeOff"}, {"forDay", "writeOff"})
  /\ run'[t].day = run[t].day /\ run'[t].q = run[t].q /\ run'[t].deadline = run[t].deadline
  /\ \/ run'[t].stale \subseteq run[t].stale
     \/ run'[t].stale = StaleRows /\ UNCHANGED row

\* A failed row is taken up again.
Retries(t) ==
  /\ run[t].pc = "forDay"
  /\ run'[t].day = run[t].day /\ run'[t].q = row[run[t].day] /\ run'[t].stale = run[t].stale
  /\ \/ /\ run'[t].pc = "delete" /\ row[run[t].day].status = "publish_failed"
        /\ run'[t].deadline = run[t].deadline
     \/ /\ run'[t].pc \in {"notice", "settle"} /\ row[run[t].day].status = "boring_notice_failed"
        /\ run'[t].deadline = now + PublishTimeout

Clears(t) ==
  /\ Hop(t, {"delete"}, {"readWindow"}) /\ run'[t].q = NoRow
  /\ run'[t].day = run[t].day /\ run'[t].deadline = run[t].deadline
  /\ run'[t].stale = run[t].stale

Commits(t) ==
  /\ Hop(t, {"ask"}, {"create"}) /\ run'[t].deadline = now + PublishTimeout
  /\ run'[t].day = run[t].day /\ run'[t].q = run[t].q /\ run'[t].stale = run[t].stale

Claims(t) ==
  /\ Hop(t, {"create"}, {"copy", "send", "notice", "skip"})
  /\ run'[t].q = row'[run[t].day] /\ Inserted(run[t].day)
  /\ run'[t].pc \in Owning => row'[run[t].day].status = "publishing"
  /\ run'[t].day = run[t].day /\ run'[t].deadline = run[t].deadline
  /\ run'[t].stale = run[t].stale

RunMove(t) ==
  \/ run'[t] = IdleRun \/ Sifts(t) \/ Retries(t) \/ Clears(t)
  \/ Commits(t) \/ Claims(t)
  \/ Begins(t) /\ run[t].pc = "load"
  \/ Walks(t) /\ Walk(t)

\* The same, or a run the minute tick begins.
Moves(t) == RunMove(t) \/ Begins(t)

LEMMA GotoWalks ==
  ASSUME TypeOK, NEW t \in Runs, NEW l, Goto(t, l)
  PROVE  Walks(t) /\ run'[t].pc = l /\ \A u \in Runs \ {t} : run'[u] = run[u]
  BY DEF TypeOK, Goto, Walks, RunType, RunRecord

LEMMA EndOfRun ==
  ASSUME TypeOK, NEW t \in Runs, run' = [run EXCEPT ![t] = IdleRun]
  PROVE  run'[t] = IdleRun /\ \A u \in Runs \ {t} : run'[u] = run[u]
  BY DEF TypeOK

\* A step of one run leaves the others alone.
LEMMA RunMoves ==
  ASSUME TypeOK, NEW t \in Runs, RunStep(t) \/ Accept(t)
  PROVE  RunMove(t) /\ \A u \in Runs \ {t} : run'[u] = run[u]
<1> DEFINE Alone == \A u \in Runs \ {t} : run'[u] = run[u]
<1>1. CASE run' = [run EXCEPT ![t] = IdleRun]
  BY <1>1, EndOfRun DEF RunMove
<1>2. ASSUME NEW l, Goto(t, l), Hop(t, {run[t].pc}, {l}) => Walk(t)
      PROVE  RunMove(t) /\ Alone
  BY <1>2, GotoWalks DEF RunMove, Hop
<1>3. CASE Accept(t) \/ CatchUpLock(t) \/ Start(t) \/ ReadWindow(t) \/ Copy(t) \/ Send(t)
           \/ SendNotice(t) \/ MarkPublished(t) \/ MarkNotified(t) \/ Settle(t)
  <2>1. run' = [run EXCEPT ![t] = IdleRun] \/ \E l : Goto(t, l) /\ (Hop(t, {run[t].pc}, {l}) => Walk(t))
    BY <1>3 DEF Accept, CatchUpLock, Start, ReadWindow, Copy, Send, PostQuote, SendNotice,
                MarkPublished, MarkNotified, Confirm, Settle, At, Walk, Hop, Finish
  <2> QED BY <1>1, <1>2, <2>1
<1>4. CASE CatchUpLoad(t)
  <2>1. ASSUME NEW d \in Days, NEW n,
               run' = [run EXCEPT ![t] = [IdleRun EXCEPT !.pc = "start", !.day = d, !.snap = n]]
        PROVE  Begins(t) /\ Alone
    BY <2>1 DEF TypeOK, Begins, IdleRun
  <2> QED BY <1>1, <1>4, <2>1, CalendarType DEF CatchUpLoad, Drop, RunMove, At
<1>5. CASE ReadStale(t)
  <2> DEFINE l == IF StaleRows = {} THEN "forDay" ELSE "writeOff"
  <2>1. /\ run[t].pc = "stale" /\ UNCHANGED row
        /\ run' = [run EXCEPT ![t].stale = StaleRows, ![t].pc = l] /\ l \in {"forDay", "writeOff"}
    BY <1>5 DEF ReadStale, At, db
  <2> HIDE DEF l
  <2>2. Alone /\ Sifts(t)
    BY <2>1 DEF TypeOK, RunType, RunRecord, Sifts, Hop
  <2> QED BY <2>2 DEF RunMove
<1>6. CASE WriteOff(t)
  <2>1. CASE run' # [run EXCEPT ![t] = IdleRun]
    <3>1. PICK e \in run[t].stale, l \in {"forDay", "writeOff"} :
            run' = [run EXCEPT ![t].stale = @ \ {e}, ![t].pc = l]
      BY <1>6, <2>1 DEF WriteOff, Finish, At
    <3>2. /\ run[t].pc = "writeOff" /\ run'[t].pc = l /\ run'[t].stale = run[t].stale \ {e}
          /\ run'[t].day = run[t].day /\ run'[t].q = run[t].q
          /\ run'[t].deadline = run[t].deadline /\ Alone
      BY <1>6, <3>1 DEF WriteOff, At, TypeOK, RunType, RunRecord
    <3>3. Alone /\ Sifts(t)
      BY <3>2 DEF Sifts, Hop
    <3> QED BY <3>3 DEF RunMove
  <2> QED BY <1>1, <2>1
<1>7. CASE ForDay(t)
  <2> DEFINE q == row[run[t].day]
  <2>1. CASE Goto(t, "readWindow")
    BY <1>2, <1>7, <2>1 DEF ForDay, At, Walk, Hop
  <2>2. CASE q.status = "publish_failed" /\ run' = [run EXCEPT ![t].pc = "delete", ![t].q = q]
    <3>1. Alone /\ Retries(t)
      BY <1>7, <2>2 DEF ForDay, At, TypeOK, RunType, RunRecord, Retries
    <3> QED BY <3>1 DEF RunMove
  <2>3. ASSUME q.status = "boring_notice_failed", NEW l \in {"notice", "settle"},
               run' = [run EXCEPT ![t].pc = l, ![t].q = q, ![t].deadline = now + PublishTimeout]
        PROVE  RunMove(t) /\ Alone
    <3>1. Alone /\ Retries(t)
      BY <1>7, <2>3 DEF ForDay, At, TypeOK, RunType, RunRecord, Retries
    <3> QED BY <3>1 DEF RunMove
  <2>4. \/ Goto(t, "readWindow") \/ run' = [run EXCEPT ![t] = IdleRun]
        \/ q.status = "publish_failed" /\ run' = [run EXCEPT ![t].pc = "delete", ![t].q = q]
        \/ /\ q.status = "boring_notice_failed"
           /\ \E l \in {"notice", "settle"} :
                run' = [run EXCEPT ![t].pc = l, ![t].q = q, ![t].deadline = now + PublishTimeout]
    BY <1>7 DEF ForDay, Finish
  <2> QED BY <1>1, <2>1, <2>2, <2>3, <2>4
<1>8. CASE DeleteFailed(t)
  <2>1. CASE run' # [run EXCEPT ![t] = IdleRun]
    <3>1. run' = [run EXCEPT ![t].pc = "readWindow", ![t].q = NoRow] /\ run[t].pc = "delete"
      BY <1>8, <2>1 DEF DeleteFailed, Finish, At
    <3>2. Alone /\ Clears(t)
      BY <3>1 DEF TypeOK, RunType, RunRecord, Clears, Hop
    <3> QED BY <3>2 DEF RunMove
  <2> QED BY <1>1, <2>1
<1>9. CASE Ask(t)
  <2>1. CASE run' # [run EXCEPT ![t] = IdleRun]
    <3>1. PICK v : run' = [run EXCEPT ![t].pc = "create", ![t].verdict = v,
                                      ![t].deadline = now + PublishTimeout]
      BY <1>9, <2>1 DEF Ask, Finish
    <3>2. Alone /\ Commits(t)
      BY <1>9, <3>1 DEF Ask, At, TypeOK, RunType, RunRecord, Commits, Hop
    <3> QED BY <3>2 DEF RunMove
  <2> QED BY <1>1, <2>1
<1>10. CASE Create(t)
  <2>1. CASE run' # [run EXCEPT ![t] = IdleRun]
    <3> DEFINE d == run[t].day
               new == [id |-> nextId, status |-> FirstStatus(t), changed |-> now, msg |-> FALSE]
    <3>1. /\ row[d] = NoRow /\ row' = [row EXCEPT ![d] = new] /\ nextId' = nextId + 1
          /\ \E l \in AfterCreate(t) : run' = [run EXCEPT ![t].pc = l, ![t].q = new]
          /\ posts' = posts /\ run[t].pc = "create"
      BY <1>10, <2>1 DEF Create, Finish, At, chat
    <3>2. PICK l \in {"copy", "send", "notice", "skip"} :
            /\ run' = [run EXCEPT ![t].pc = l, ![t].q = new]
            /\ l \in Owning => new.status = "publishing"
      BY <3>1 DEF AfterCreate, FirstStatus, Owning
    <3>3. /\ new.id = nextId /\ new.changed = now
          /\ new.status \in {"publishing", "publish_failed", "notifying_boring", "skipped_boring"}
      BY DEF FirstStatus
    <3>4. d \in Days
      BY <3>1, DayOfRun DEF DaylessLabels
    <3> HIDE DEF new
    <3>5. row'[d] = new /\ \A x \in Days \ {d} : row'[x] = row[x]
      BY <3>1, <3>4 DEF TypeOK
    <3>6. Inserted(d)
      BY <3>1, <3>3, <3>5 DEF Inserted, OthersKept
    <3>7. /\ Alone /\ run'[t].pc = l /\ run'[t].q = new /\ run'[t].day = d
          /\ run'[t].deadline = run[t].deadline /\ run'[t].stale = run[t].stale
      BY <3>2 DEF TypeOK, RunType, RunRecord
    <3> QED BY <3>1, <3>2, <3>5, <3>6, <3>7 DEF RunMove, Claims, Hop
  <2> QED BY <1>1, <2>1
<1>11. CASE \/ Remind(t) \/ QueryFails(t) \/ Skip(t) \/ SetUnknown(t) \/ SetFailed(t)
            \/ NoticeUnknown(t) \/ NoticeFailed(t) \/ Clear(t) \/ Interrupt(t)
  <2>1. run' = [run EXCEPT ![t] = IdleRun]
    BY <1>11 DEF Remind, QueryFails, Skip, SetUnknown, SetFailed, NoticeUnknown, NoticeFailed,
                 Clear, Interrupt, Record, Finish, Drop
  <2> QED BY <1>1, <2>1
<1> QED BY <1>3, <1>4, <1>5, <1>6, <1>7, <1>8, <1>9, <1>10, <1>11 DEF RunStep

\* Whatever the step, each run stays as it is or moves.
LEMMA AllMove ==
  ASSUME TypeOK, [Next]_vars
  PROVE  \A u \in Runs : run'[u] = run[u] \/ Moves(u)
<1>1. ASSUME NEW t \in Runs, RunStep(t) \/ Accept(t)
      PROVE  \A u \in Runs : run'[u] = run[u] \/ Moves(u)
  BY <1>1, RunMoves DEF Moves
<1>2. ASSUME NEW p \in Procs, TickLock(p), ~UNCHANGED run
      PROVE  \A u \in Runs : run'[u] = run[u] \/ Moves(u)
  <2>1. PICK d \in DueDays(loop[p].time) : run' = [run EXCEPT ![TickRun(p)] =
               [IdleRun EXCEPT !.pc = "start", !.day = d, !.snap = loop[p].snap]]
    BY <1>2 DEF TickLock
  <2>2. TickRun(p) \in Runs
    BY DEF TickRun, Runs
  <2>3. Begins(TickRun(p)) /\ \A u \in Runs \ {TickRun(p)} : run'[u] = run[u]
    BY <2>1, <2>2, CalendarType DEF TypeOK, Begins, IdleRun
  <2> QED BY <2>3 DEF Moves, RunMove
<1>3. ASSUME NEW p \in Procs, Forget(p)
      PROVE  \A u \in Runs : run'[u] = run[u] \/ Moves(u)
  BY <1>3 DEF Forget, Moves, RunMove
<1>4. CASE UNCHANGED run
  BY <1>4
<1> QED BY <1>1, <1>2, <1>3, <1>4 DEF Next, ProcStep, TickList, TickCheck, Boot, Crash, Shutdown,
           Exit, ToggleNotice, SetActive, Clock, vars

(***************************************************************************)
(* Quotes, notices and the ledger.                                         *)
(***************************************************************************)
\* Only the send of a notice adds one.
LEMMA NoticesGrow ==
  ASSUME [Next]_vars, NEW d \in Days, notices'[d] # notices[d]
  PROVE  \E t \in Runs : SendNotice(t)
<1> USE DEF db, chat
<1>1. ASSUME NEW t \in Runs, RunStep(t) \/ Accept(t), ~SendNotice(t) PROVE FALSE
  <2>1. CASE \/ CatchUpLock(t) \/ CatchUpLoad(t) \/ Start(t) \/ Remind(t) \/ QueryFails(t)
             \/ ReadStale(t) \/ ForDay(t) \/ ReadWindow(t) \/ Skip(t) \/ Ask(t) \/ Clear(t)
             \/ Interrupt(t) \/ Accept(t)
    BY <2>1 DEF CatchUpLock, CatchUpLoad, Start, Remind, QueryFails, ReadStale, ForDay,
                ReadWindow, Skip, Ask, Clear, Interrupt, Accept
  <2>2. CASE \/ WriteOff(t) \/ DeleteFailed(t) \/ Create(t) \/ Copy(t) \/ Send(t)
             \/ MarkPublished(t) \/ MarkNotified(t) \/ SetUnknown(t) \/ SetFailed(t)
             \/ NoticeUnknown(t) \/ NoticeFailed(t) \/ Settle(t)
    BY <2>2 DEF WriteOff, DeleteFailed, Create, Copy, Send, MarkPublished, MarkNotified, Confirm,
                SetUnknown, SetFailed, NoticeUnknown, NoticeFailed, Record, Settle
  <2> QED BY <1>1, <2>1, <2>2 DEF RunStep
<1>2. CASE (\E p \in Procs : ProcStep(p)) \/ ToggleNotice \/ SetActive \/ Clock
  BY <1>2 DEF ProcStep, TickList, TickCheck, TickLock, Boot, Crash, Shutdown, Exit, Forget,
              ToggleNotice, SetActive, Clock
<1>3. CASE UNCHANGED vars
  BY <1>3 DEF vars
<1> QED BY <1>1, <1>2, <1>3 DEF Next

\* What a run has posted is there when it confirms it.
LEMMA ConfirmedStep ==
  ASSUME TypeOK, SafeInv, ConfirmedIsPosted, [Next]_vars
  PROVE  ConfirmedIsPosted'
<1>1. \A d \in Days : posts[d] = 1 => posts'[d] = 1
  BY DaySteps DEF TypeOK, Kept, DayStep, Posted, Inserted, Deleted, Turned, OthersKept
<1> SUFFICES ASSUME NEW u \in Runs, run'[u].pc = "markPublished" PROVE posts'[run'[u].day] = 1
  BY DEF ConfirmedIsPosted
<1>2. CASE run'[u] = run[u]
  <2>1. run[u].day \in Days /\ posts[run[u].day] = 1
    BY <1>2, DayOfRun DEF ConfirmedIsPosted, DaylessLabels
  <2> QED BY <1>1, <1>2, <2>1
<1>3. CASE Moves(u)
  <2>1. /\ run[u].pc \in Unsent /\ run'[u].day = run[u].day
        /\ posts' = [posts EXCEPT ![run[u].day] = @ + 1]
    BY <1>3 DEF Moves, RunMove, IdleRun, Begins, Sifts, Retries, Clears, Commits, Claims, Walk, Walks, Hop,
                Unsent
  <2>2. run[u].day \in Days /\ posts[run[u].day] = 0
    BY <2>1, DayOfRun DEF SafeInv, UnsentIsClean, Unsent, DaylessLabels
  <2> QED BY <2>1, <2>2 DEF TypeOK
<1> QED BY <1>2, <1>3, AllMove

\* A notice that was sent keeps its row.
LEMMA NoticedStep ==
  ASSUME TypeOK, SafeInv, ConfirmedIsPosted, NoticedIsOnRecord, [Next]_vars
  PROVE  NoticedIsOnRecord'
<1> SUFFICES ASSUME NEW d \in Days, notices'[d] > 0 PROVE row'[d].status \in NoticeStatuses
  BY DEF NoticedIsOnRecord
<1>1. row[d].status \in NoticeStatuses
  <2>1. CASE notices'[d] = notices[d]
    BY <2>1 DEF NoticedIsOnRecord
  <2>2. CASE notices'[d] # notices[d]
    <3>1. PICK t \in Runs : SendNotice(t)
      BY <2>2, NoticesGrow
    <3>2. run[t].pc = "notice" /\ run[t].day = d
      BY <2>2, <3>1 DEF SendNotice, At, TypeOK
    <3> QED BY <3>2 DEF SafeInv, NoticeHolds, Noticing
  <2> QED BY <2>1, <2>2
<1>2. CASE row'[d] = row[d]
  BY <1>1, <1>2
<1>3. CASE Deleted(d) \/ Inserted(d) \/ Posted(d)
  BY <1>1, <1>3 DEF Deleted, Inserted, Posted, NoRow, NoticeStatuses
<1>4. ASSUME NEW s \in Statuses, Turned(d, s) PROVE s \in NoticeStatuses
  BY <1>1, <1>4 DEF Turned, MayTurn, NoticeStatuses, QuoteStatuses, LiveQuote
<1> QED BY <1>1, <1>2, <1>3, <1>4, DaySteps
        DEF Kept, DayStep, Posted, Inserted, Deleted, Turned, OthersKept

LEMMA OutcomeInit == Init => OutcomeInv
<1>1. Init => ConfirmedIsPosted
  BY DEF Init, ConfirmedIsPosted, IdleRun
<1>2. Init => NoticedIsOnRecord
  BY DEF Init, NoticedIsOnRecord
<1> QED BY <1>1, <1>2, TypeInit, SafeInit DEF OutcomeInv, IInv

LEMMA OutcomesHold == Spec => []OutcomeInv
<1>1. Init => OutcomeInv
  BY OutcomeInit
<1>2. OutcomeInv /\ [Next]_vars => OutcomeInv'
  BY TypeNext, SafeNext, ConfirmedStep, NoticedStep DEF OutcomeInv, IInv
<1> QED BY <1>1, <1>2, PTL DEF Spec

\* A group never gets both a quote and a notice for one day: a posted quote keeps
\* the row of a quote, a sent notice that of a boring day, whatever is retried.
THEOREM NeverBoth == Spec => []QuoteOrNotice
<1>1. OutcomeInv => QuoteOrNotice
  <2> SUFFICES ASSUME OutcomeInv, NEW d \in Days, posts[d] # 0 PROVE notices[d] = 0
    BY DEF QuoteOrNotice
  <2>1. posts[d] > 0 /\ notices[d] \in Nat
    BY DEF OutcomeInv, IInv, TypeOK
  <2>2. row[d].status \notin NoticeStatuses
    BY <2>1 DEF OutcomeInv, IInv, SafeInv, PostInv, PostedIsOnRecord, NoticeStatuses
  <2> QED BY <2>1, <2>2 DEF OutcomeInv, NoticedIsOnRecord
<1> QED BY <1>1, OutcomesHold, PTL

\* A published row is never deleted, failed or claimed again, by any process.
THEOREM PublishedIsFinal == Spec => PublishedStays
<1>1. OutcomeInv /\ [Next]_vars =>
        [\A d \in Days :
           row[d].status = "published" =>
             /\ row'[d].id = row[d].id
             /\ row'[d].status \in {"published", "publish_unknown"}]_vars
  <2> SUFFICES ASSUME OutcomeInv, [Next]_vars, NEW d \in Days, row[d].status = "published"
               PROVE  /\ row'[d].id = row[d].id
                      /\ row'[d].status \in {"published", "publish_unknown"}
    OBVIOUS
  <2>1. CASE row'[d] = row[d]
    BY <2>1
  <2>2. CASE Deleted(d) \/ Inserted(d) \/ Posted(d)
    BY <2>2 DEF Deleted, Inserted, Posted, NoRow
  <2>3. ASSUME NEW s \in Statuses, Turned(d, s)
        PROVE  row'[d].id = row[d].id /\ row'[d].status \in {"published", "publish_unknown"}
    BY <2>3 DEF Turned, MayTurn, NoticeStatuses
  <2> QED BY <2>1, <2>2, <2>3, DaySteps
          DEF OutcomeInv, IInv, Kept, DayStep, Posted, Inserted, Deleted, Turned, OthersKept
<1> QED BY <1>1, OutcomesHold, PTL DEF Spec, PublishedStays

(***************************************************************************)
(* Ids, deadlines and stale rows: no run is written off while it is at     *)
(* work.                                                                   *)
(***************************************************************************)
\* Ids are handed out once, to the row of one day.
LEMMA NewIds ==
  ASSUME TypeOK, SafeInv, ConfirmedIsPosted, [Next]_vars
  PROVE  /\ nextId' \in {nextId, nextId + 1}
         /\ \A x \in Days : \/ row'[x].id = row[x].id
                            \/ row'[x].id = 0
                            \/ row'[x].id = nextId /\ nextId' = nextId + 1 /\ Inserted(x)
         /\ \A x, y \in Days : Inserted(x) /\ Inserted(y) => x = y
         /\ \A x \in Days : row[x].id \in Nat /\ row[x].id < nextId
<1>1. nextId' \in {nextId, nextId + 1}
  BY DaySteps DEF Kept, DayStep, Posted, Inserted, Deleted, Turned, OthersKept
<1>2. ASSUME NEW x \in Days
      PROVE  \/ row'[x].id = row[x].id
             \/ row'[x].id = 0
             \/ row'[x].id = nextId /\ nextId' = nextId + 1 /\ Inserted(x)
  <2>1. CASE row'[x] = row[x]
    BY <2>1
  <2>2. CASE row'[x] # row[x]
    <3>1. Inserted(x) \/ Deleted(x) \/ \E s \in Statuses : Turned(x, s)
      BY <2>2, DaySteps DEF Kept, DayStep, Posted, Inserted, Deleted, Turned, OthersKept
    <3> QED BY <3>1 DEF Inserted, Deleted, Turned, NoRow
  <2> QED BY <2>1, <2>2
<1>3. \A x, y \in Days : Inserted(x) /\ Inserted(y) => x = y
  BY DEF Inserted, OthersKept, NoRow, TypeOK
<1>4. \A x \in Days : row[x].id \in Nat /\ row[x].id < nextId
  BY DEF SafeInv, RowHasId, KnownId, NoRow, TypeOK
<1> QED BY <1>1, <1>2, <1>3, <1>4

\* Where the id and the day of a run come from.
LEMMA MovedRow ==
  ASSUME NEW u \in Runs, run'[u] = run[u] \/ Moves(u)
  PROVE  \/ run'[u].q = run[u].q /\ run'[u].day = run[u].day
         \/ run'[u].q = NoRow
         \/ run'[u].q = row[run[u].day] /\ run'[u].day = run[u].day /\ Retries(u)
         \/ run'[u].q = row'[run[u].day] /\ run'[u].day = run[u].day /\ Claims(u)
  BY DEF Moves, RunMove, IdleRun, Begins, Sifts, Retries, Clears, Commits, Claims, Walks

\* Where its stale rows come from.
LEMMA MovedStale ==
  ASSUME NEW u \in Runs, run'[u] = run[u] \/ Moves(u)
  PROVE  \/ run'[u].stale \subseteq run[u].stale
         \/ run'[u].stale = StaleRows /\ UNCHANGED row /\ Sifts(u)
  BY DEF Moves, RunMove, IdleRun, Begins, Sifts, Retries, Clears, Commits, Claims, Walks

LEMMA StaleRowsAre ==
  ASSUME NEW e \in StaleRows
  PROVE  /\ e.day \in Days /\ row[e.day].id = e.id
         /\ row[e.day].status \in InProgress /\ row[e.day].changed < now - StaleAfter
  BY DEF StaleRows, InProgress

LEMMA IdsStep ==
  ASSUME TypeOK, SafeInv, ConfirmedIsPosted, IdsAreUnique, [Next]_vars
  PROVE  IdsAreUnique'
<1>1. ASSUME NEW c \in Days, NEW d \in Days, row'[c].id = row'[d].id, row'[c].id # 0
      PROVE  c = d
  <2>1. CASE row'[c].id = row[c].id /\ row'[d].id = row[d].id
    BY <1>1, <2>1 DEF IdsAreUnique
  <2>2. CASE ~(row'[c].id = row[c].id /\ row'[d].id = row[d].id)
    <3>1. row'[c].id = nextId
      BY <1>1, <2>2, NewIds
    <3>2. \A x \in Days : row'[x].id = nextId => Inserted(x)
      <4>1. \A x \in Days : row[x].id # nextId /\ nextId # 0
        BY NewIds DEF TypeOK
      <4> QED BY <4>1, NewIds
    <3> QED BY <1>1, <3>1, <3>2, NewIds
  <2> QED BY <2>1, <2>2
<1>2. ASSUME NEW t \in Runs PROVE run'[t].q.id < nextId'
  <2>1. run[t].q.id < nextId /\ nextId > 0
    BY DEF IdsAreUnique, TypeOK
  <2>2. run[t].pc \notin DaylessLabels => run[t].day \in Days
    BY DayOfRun
  <2>3. CASE Retries(t) \/ Claims(t)
    <3>1. run[t].day \in Days
      BY <2>2, <2>3 DEF Retries, Claims, Hop, DaylessLabels
    <3> QED BY <2>1, <2>3, <3>1, NewIds DEF Retries, Claims, TypeOK
  <2> QED BY <2>1, <2>3, AllMove, MovedRow, NewIds DEF NoRow, TypeOK, RunType, RunRecord, Row
<1>3. ASSUME NEW t \in Runs, NEW d \in Days, row'[d].id = run'[t].q.id, run'[t].q.id # 0
      PROVE  d = run'[t].day
  <2>1. CASE run'[t].q = run[t].q /\ run'[t].day = run[t].day
    <3>1. run[t].q.id < nextId
      BY DEF IdsAreUnique
    <3>2. row[d].id = run[t].q.id
      BY <1>3, <2>1, <3>1, NewIds DEF TypeOK
    <3> QED BY <1>3, <2>1, <3>2 DEF IdsAreUnique
  <2>2. CASE run'[t].q = row[run[t].day] /\ run'[t].day = run[t].day /\ Retries(t)
    <3>1. run[t].day \in Days
      BY <2>2, DayOfRun DEF Retries, DaylessLabels
    <3>2. row[d].id = row[run[t].day].id
      BY <1>3, <2>2, <3>1, NewIds DEF TypeOK
    <3> QED BY <1>3, <2>2, <3>1, <3>2 DEF IdsAreUnique
  <2>3. CASE run'[t].q = row'[run[t].day] /\ run'[t].day = run[t].day /\ Claims(t)
    <3>1. run[t].day \in Days
      BY <2>3, DayOfRun DEF Claims, Hop, DaylessLabels
    <3> QED BY <1>1, <1>3, <2>3, <3>1
  <2> QED BY <1>3, <2>1, <2>2, <2>3, AllMove, MovedRow DEF NoRow
<1>4. ASSUME NEW t \in Runs, NEW e \in run'[t].stale, NEW d \in Days, row'[d].id = e.id
      PROVE  d = e.day
  <2>1. CASE e \in run[t].stale
    <3>1. KnownId(e.id)
      BY <2>1 DEF SafeInv, StaleKind
    <3>2. row[d].id = e.id
      BY <1>4, <3>1, NewIds DEF KnownId, TypeOK
    <3> QED BY <2>1, <3>2 DEF IdsAreUnique
  <2>2. CASE e \notin run[t].stale
    <3>1. e \in StaleRows /\ row' = row
      BY <1>4, <2>2, AllMove, MovedStale
    <3>2. /\ e.day \in Days /\ row[e.day].id = e.id /\ row[e.day].status \in InProgress
      BY <3>1, StaleRowsAre
    <3>3. row[e.day].id # 0
      BY <3>2 DEF SafeInv, RowHasId, KnownId, NoRow, InProgress
    <3> QED BY <1>4, <3>1, <3>2, <3>3 DEF IdsAreUnique
  <2> QED BY <2>1, <2>2
<1> QED BY <1>1, <1>2, <1>3, <1>4 DEF IdsAreUnique

\* The clock does not pass the deadline of a run.
LEMMA ClockSteps ==
  ASSUME [Next]_vars
  PROVE  \/ now' = now
         \/ /\ now' = now + 1 /\ UNCHANGED <<row, run>>
            /\ \A t \in Runs : run[t].deadline # 0 => now < run[t].deadline
<1> USE DEF env
<1>1. ASSUME NEW t \in Runs, RunStep(t) \/ Accept(t) PROVE now' = now
  <2>1. CASE \/ CatchUpLock(t) \/ CatchUpLoad(t) \/ Start(t) \/ Remind(t) \/ QueryFails(t)
             \/ ReadStale(t) \/ ForDay(t) \/ ReadWindow(t) \/ Skip(t) \/ Ask(t) \/ Clear(t)
             \/ Interrupt(t) \/ Accept(t)
    BY <2>1 DEF CatchUpLock, CatchUpLoad, Start, Remind, QueryFails, ReadStale, ForDay,
                ReadWindow, Skip, Ask, Clear, Interrupt, Accept
  <2>2. CASE \/ WriteOff(t) \/ DeleteFailed(t) \/ Create(t) \/ Copy(t) \/ Send(t) \/ SendNotice(t)
             \/ MarkPublished(t) \/ MarkNotified(t) \/ SetUnknown(t) \/ SetFailed(t)
             \/ NoticeUnknown(t) \/ NoticeFailed(t) \/ Settle(t)
    BY <2>2 DEF WriteOff, DeleteFailed, Create, Copy, Send, SendNotice, MarkPublished,
                MarkNotified, Confirm, SetUnknown, SetFailed, NoticeUnknown, NoticeFailed,
                Record, Settle
  <2> QED BY <1>1, <2>1, <2>2 DEF RunStep
<1>2. CASE (\E p \in Procs : ProcStep(p)) \/ ToggleNotice \/ SetActive \/ UNCHANGED vars
  BY <1>2 DEF ProcStep, TickList, TickCheck, TickLock, Boot, Crash, Shutdown, Exit, Forget,
              ToggleNotice, SetActive, vars
<1>3. CASE Clock
  BY <1>3 DEF Clock, db
<1> QED BY <1>1, <1>2, <1>3 DEF Next

\* Deadlines are set and kept for the committed part of a run.
LEMMA DeadlinesStep ==
  ASSUME TypeOK, DeadlinesHold, [Next]_vars
  PROVE  DeadlinesHold'
<1> DEFINE Bounds(u) == run'[u].deadline # 0 =>
             now' <= run'[u].deadline /\ run'[u].deadline <= now' + PublishTimeout
           Places(u) ==
             /\ run'[u].pc \in Early => run'[u].q.id = 0
             /\ run'[u].pc \in Owning \cup Noticing \cup {"create"} => run'[u].deadline # 0
             /\ run'[u].deadline # 0 => run'[u].pc \in Committed
<1> SUFFICES ASSUME NEW u \in Runs PROVE Bounds(u) /\ Places(u)
  BY DEF DeadlinesHold
<1>0. now \in Nat /\ PublishTimeout \in Nat \ {0} /\ run[u].deadline \in Nat
  BY DailyQuoteAssumption DEF TypeOK, RunType, RunRecord
<1>1. /\ run[u].pc \in Early => run[u].q.id = 0
      /\ run[u].pc \in Owning \cup Noticing \cup {"create"} => run[u].deadline # 0
      /\ run[u].deadline # 0 => /\ run[u].pc \in Committed /\ now <= run[u].deadline
                                /\ run[u].deadline <= now + PublishTimeout
  BY DEF DeadlinesHold
<1>2. \/ run'[u].deadline \in {0, run[u].deadline}
      \/ run'[u].deadline = now + PublishTimeout /\ run' # run
  <2>1. CASE run'[u] = run[u]
    BY <2>1
  <2>2. CASE run'[u] # run[u]
    BY <2>2, AllMove DEF Moves, RunMove, IdleRun, Begins, Sifts, Retries, Clears, Commits, Claims, Walks
  <2> QED BY <2>1, <2>2
<1>3. Bounds(u)
  BY <1>0, <1>1, <1>2, ClockSteps
<1>4. Places(u)
  <2>1. CASE run'[u] = run[u]
    BY <1>1, <2>1
  <2> USE DEF Early, Owning, Noticing, Committed
  <2>2. CASE run'[u] = IdleRun \/ Begins(u) \/ Clears(u)
    BY <1>1, <2>2 DEF IdleRun, Begins, Clears, Hop, NoRow
  <2>3. CASE Sifts(u) \/ Commits(u) \/ Claims(u)
    BY <1>0, <1>1, <2>3 DEF Sifts, Commits, Claims, Hop
  <2>4. CASE Retries(u)
    BY <1>0, <1>1, <2>4 DEF Retries
  <2>5. CASE Walks(u) /\ Walk(u)
    BY <1>1, <2>5 DEF Walks, Walk, Hop
  <2> QED BY <2>1, <2>2, <2>3, <2>4, <2>5, AllMove DEF Moves, RunMove
<1> QED BY <1>3, <1>4

\* A row in progress is as young as the deadline of the run that works on it.
LEMMA FreshStep ==
  ASSUME TypeOK, SafeInv, ConfirmedIsPosted, IdsAreUnique, DeadlinesHold, LiveIsFresh, [Next]_vars
  PROVE  LiveIsFresh'
<1> SUFFICES ASSUME NEW u \in Runs, run'[u].deadline # 0, run'[u].q.id # 0,
                    row'[run'[u].day].id = run'[u].q.id, row'[run'[u].day].status \in InProgress
             PROVE  run'[u].deadline <= row'[run'[u].day].changed + PublishTimeout
  BY DEF LiveIsFresh, Held
<1> DEFINE d == run'[u].day
<1>1. d \in Days
  <2>1. TypeOK' /\ DeadlinesHold'
    BY TypeNext, DeadlinesStep
  <2>2. run'[u].pc \in Committed
    BY <2>1 DEF DeadlinesHold
  <2> QED BY <2>1, <2>2 DEF TypeOK, RunType, Committed, Owning, Noticing, DaylessLabels
<1>2. row'[d] = row[d] \/ Inserted(d)
  <2>1. ASSUME NEW s \in Statuses, Turned(d, s) PROVE FALSE
    BY <2>1 DEF Turned, MayTurn, InProgress, NoticeStatuses
  <2>2. ~Deleted(d)
    BY DEF Deleted, NoRow, InProgress
  <2> QED BY <1>1, <2>1, <2>2, DaySteps
          DEF Kept, DayStep, Posted, Inserted, Deleted, Turned, OthersKept
<1>3. CASE row'[d] = row[d]
  <2>1. CASE /\ run'[u].q = run[u].q /\ run'[u].day = run[u].day
             /\ run'[u].deadline = run[u].deadline
    BY <1>3, <2>1 DEF LiveIsFresh, Held
  <2>2. ~(run'[u] = IdleRun \/ Begins(u) \/ Clears(u))
    BY DEF IdleRun, Begins, Clears, NoRow
  <2>3. ~Retries(u)
    BY <1>3 DEF Retries, InProgress
  <2>4. ~Commits(u)
    BY DEF Commits, Hop, DeadlinesHold, Early
  <2>5. ~Claims(u)
    BY <1>3 DEF Claims, Inserted, NoRow, TypeOK
  <2> QED BY <2>1, <2>2, <2>3, <2>4, <2>5, AllMove DEF Moves, RunMove, Walks, Sifts
<1>4. CASE Inserted(d)
  <2>1. row'[d].changed = now /\ row'[d] # row[d]
    BY <1>4 DEF Inserted, NoRow, TypeOK
  <2>2. now' = now
    BY <2>1, ClockSteps
  <2> QED BY <2>1, <2>2, DeadlinesStep DEF DeadlinesHold
<1> QED BY <1>2, <1>3, <1>4

\* A stale row is not finished by anybody.
LEMMA StaleStep ==
  ASSUME TypeOK, SafeInv, ConfirmedIsPosted, IdsAreUnique, DeadlinesHold, StaleIsDead,
         NoLiveRunWrittenOff, [Next]_vars
  PROVE  StaleIsDead'
<1> SUFFICES ASSUME NEW t \in Runs, NEW e \in run'[t].stale, row'[e.day].id = e.id
             PROVE  row'[e.day].status \in InProgress \cup Unknown
  BY DEF StaleIsDead
<1>1. CASE e \in run[t].stale
  <2>1. e.day \in Days /\ KnownId(e.id)
    BY <1>1 DEF TypeOK, RunType, RunRecord, StaleEntry, SafeInv, StaleKind
  <2>2. row[e.day].id = e.id
    BY <2>1, NewIds DEF KnownId, TypeOK
  <2>3. row[e.day].status \in InProgress \cup Unknown
    BY <1>1, <2>2 DEF StaleIsDead
  <2>4. ASSUME NEW s \in Statuses, Turned(e.day, s) PROVE s \in Unknown
    <3>1. ASSUME NEW u \in Runs, run[u].pc \in Owning \cup Noticing, run[u].day = e.day, Held(u)
          PROVE  FALSE
      <4>1. run[u].deadline # 0 /\ run[u].q.id = e.id
        BY <2>2, <3>1 DEF DeadlinesHold, Held
      <4> QED BY <1>1, <4>1 DEF NoLiveRunWrittenOff
    <3> QED BY <2>4, <3>1 DEF Turned, HasHolder
  <2>5. ~Deleted(e.day) /\ ~Inserted(e.day)
    BY <2>1, <2>2 DEF Deleted, Inserted, NoRow, KnownId
  <2>6. CASE row'[e.day] = row[e.day]
    BY <2>3, <2>6
  <2> QED BY <2>1, <2>4, <2>5, <2>6, DaySteps
          DEF Kept, DayStep, Posted, Inserted, Deleted, Turned, OthersKept
<1>2. CASE e \notin run[t].stale
  <2>1. e \in StaleRows /\ row' = row
    BY <1>2, AllMove, MovedStale
  <2> QED BY <2>1, StaleRowsAre
<1> QED BY <1>1, <1>2

\* No run becomes the holder of a stale row, and no row of a run at work turns stale.
LEMMA LiveStep ==
  ASSUME TypeOK, SafeInv, ConfirmedIsPosted, LiveInv, [Next]_vars
  PROVE  NoLiveRunWrittenOff'
<1> USE DEF LiveInv
<1> SUFFICES ASSUME NEW t \in Runs, NEW u \in Runs, NEW e \in run'[t].stale,
                    run'[u].deadline # 0, run'[u].q.id = e.id
             PROVE  FALSE
  BY DEF NoLiveRunWrittenOff
<1> DEFINE Same == /\ run'[u].q = run[u].q /\ run'[u].day = run[u].day
                   /\ run'[u].deadline = run[u].deadline
<1>1. CASE e \in run[t].stale
  <2>1. e.day \in Days /\ KnownId(e.id)
    BY <1>1 DEF TypeOK, RunType, RunRecord, StaleEntry, SafeInv, StaleKind
  <2>2. CASE Same
    BY <1>1, <2>2 DEF NoLiveRunWrittenOff
  <2>3. ~(run'[u] = IdleRun \/ Begins(u) \/ Clears(u))
    BY <2>1 DEF IdleRun, Begins, Clears, NoRow, KnownId
  <2>4. ~Retries(u)
    <3>1. SUFFICES ASSUME Retries(u) PROVE FALSE
      OBVIOUS
    <3>2. run[u].day \in Days /\ row[run[u].day].id = e.id
      BY <3>1, DayOfRun DEF Retries, DaylessLabels
    <3>3. run[u].day = e.day
      BY <1>1, <3>2 DEF IdsAreUnique
    <3>4. row[run[u].day].status \in InProgress \cup Unknown
      BY <1>1, <3>2, <3>3 DEF StaleIsDead
    <3> QED BY <3>1, <3>4 DEF Retries, InProgress, Unknown
  <2>5. ~Commits(u)
    BY <2>1 DEF Commits, Hop, DeadlinesHold, Early, KnownId
  <2>6. ~Claims(u)
    BY <2>1 DEF Claims, Inserted, KnownId, TypeOK
  <2> QED BY <2>2, <2>3, <2>4, <2>5, <2>6, AllMove DEF Moves, RunMove, Walks, Sifts
<1>2. CASE e \notin run[t].stale
  <2>1. e \in StaleRows /\ row' = row
    BY <1>2, AllMove, MovedStale
  <2>2. /\ e.day \in Days /\ row[e.day].id = e.id
        /\ row[e.day].status \in InProgress /\ row[e.day].changed < now - StaleAfter
    BY <2>1, StaleRowsAre
  <2>3. e.id # 0
    BY <2>2 DEF SafeInv, RowHasId, KnownId, NoRow, InProgress
  <2>4. CASE Same
    <3>1. run[u].day = e.day
      BY <2>2, <2>3, <2>4 DEF IdsAreUnique
    <3>2. run[u].deadline <= row[e.day].changed + PublishTimeout /\ now <= run[u].deadline
      BY <2>2, <2>3, <2>4, <3>1 DEF LiveIsFresh, Held, DeadlinesHold
    <3>3. /\ now \in Nat /\ run[u].deadline \in Nat /\ row[e.day].changed \in Nat
          /\ PublishTimeout \in Nat /\ StaleAfter \in Nat
      BY <2>2, DailyQuoteAssumption DEF TypeOK, RunType, RunRecord, Row
    <3> QED BY <2>2, <3>2, <3>3, TimeoutAssumption
  <2>5. ~(run'[u] = IdleRun \/ Begins(u) \/ Clears(u))
    BY <2>3 DEF IdleRun, Begins, Clears, NoRow
  <2>6. ~Retries(u)
    <3>1. SUFFICES ASSUME Retries(u) PROVE FALSE
      OBVIOUS
    <3>2. run[u].day \in Days /\ row[run[u].day].id = e.id
      BY <3>1, DayOfRun DEF Retries, DaylessLabels
    <3>3. run[u].day = e.day
      BY <2>2, <2>3, <3>2 DEF IdsAreUnique
    <3> QED BY <2>2, <3>1, <3>3 DEF Retries, InProgress
  <2>7. ~Commits(u)
    BY <2>3 DEF Commits, Hop, DeadlinesHold, Early
  <2>8. ~Claims(u)
    BY <2>1 DEF Claims, Inserted, NoRow, TypeOK
  <2> QED BY <2>4, <2>5, <2>6, <2>7, <2>8, AllMove DEF Moves, RunMove, Walks, Sifts
<1> QED BY <1>1, <1>2

(***************************************************************************)
(* The claim of a run is its own until it records the outcome.             *)
(***************************************************************************)
\* Everything the step lemmas above need.
LEMMA WholeParts ==
  ASSUME WholeInv
  PROVE  /\ TypeOK /\ SafeInv /\ ConfirmedIsPosted /\ IdsAreUnique /\ DeadlinesHold
         /\ StaleIsDead /\ NoLiveRunWrittenOff /\ OwnersKeepClaim /\ DeletedIsFailed
  BY DEF WholeInv, OutcomeInv, IInv, LiveInv, ClaimInv

\* Two runs never own the claim of one day.
LEMMA SoleOwner ==
  ASSUME WholeInv, NEW t \in Runs, NEW u \in Runs, run[t].pc \in Owning, run[u].pc \in Owning,
         run[t].day = run[u].day
  PROVE  t = u
  BY WholeParts DEF OwnersKeepClaim, SafeInv, OwnersDiffer, Held

\* A row with an owner is nobody else's.
LEMMA OwnedIsAlone ==
  ASSUME WholeInv, NEW t \in Runs, run[t].pc \in Owning
  PROVE  /\ run[t].day \in Days /\ row[run[t].day] # NoRow /\ ~FoundStale(run[t].day)
         /\ \A u \in Runs : run[u].pc \in Noticing \cup {"delete"} /\ Held(u)
              => run[u].day # run[t].day
<1>1. /\ run[t].day \in Days /\ Held(t) /\ KnownId(run[t].q.id) /\ run[t].deadline # 0
      /\ row[run[t].day].status \in {"publishing", "published"}
  BY WholeParts, DayOfRun
  DEF OwnersKeepClaim, DeadlinesHold, SafeInv, OwnerHolds, Owning, DaylessLabels
<1>2. row[run[t].day] # NoRow
  BY <1>1 DEF NoRow
<1>3. ~FoundStale(run[t].day)
  BY <1>1, WholeParts DEF FoundStale, NoLiveRunWrittenOff, Held
<1>4. ASSUME NEW u \in Runs, run[u].pc \in Noticing \cup {"delete"}, Held(u),
             run[u].day = run[t].day
      PROVE  FALSE
  BY <1>1, <1>4, WholeParts
  DEF SafeInv, NoticeHolds, NoticeStatuses, DeletedIsFailed
<1> QED BY <1>1, <1>2, <1>3, <1>4

\* The row of an owner changes only when the owner records its outcome.
Outcome(t) == MarkPublished(t) \/ SetUnknown(t) \/ SetFailed(t)

LEMMA RowWriters ==
  ASSUME [Next]_vars, row' # row
  PROVE  \E t \in Runs :
           \/ Outcome(t) \/ WriteOff(t) \/ DeleteFailed(t) \/ Create(t)
           \/ MarkNotified(t) \/ NoticeUnknown(t) \/ NoticeFailed(t) \/ Settle(t)
<1> USE DEF db, Outcome
<1>1. ASSUME NEW t \in Runs,
             \/ CatchUpLock(t) \/ CatchUpLoad(t) \/ Start(t) \/ Remind(t) \/ QueryFails(t)
             \/ ReadStale(t) \/ ForDay(t) \/ ReadWindow(t) \/ Skip(t) \/ Ask(t) \/ Copy(t)
             \/ Send(t) \/ SendNotice(t) \/ Clear(t) \/ Interrupt(t) \/ Accept(t)
      PROVE  FALSE
  BY <1>1 DEF CatchUpLock, CatchUpLoad, Start, Remind, QueryFails, ReadStale, ForDay, ReadWindow,
              Skip, Ask, Copy, Send, SendNotice, Clear, Interrupt, Accept
<1>2. ~((\E p \in Procs : ProcStep(p)) \/ ToggleNotice \/ SetActive \/ Clock \/ UNCHANGED vars)
  BY DEF ProcStep, TickList, TickCheck, TickLock, Boot, Crash, Shutdown, Exit, Forget,
         ToggleNotice, SetActive, Clock, vars
<1> QED BY <1>1, <1>2 DEF Next, RunStep

LEMMA OwnedRow ==
  ASSUME WholeInv, [Next]_vars, NEW t \in Runs, run[t].pc \in Owning,
         row'[run[t].day] # row[run[t].day]
  PROVE  Outcome(t)
<1> DEFINE d == run[t].day
<1>1. d \in Days /\ row[d] # NoRow /\ ~FoundStale(d)
  BY OwnedIsAlone
<1>2. TypeOK
  BY WholeParts
<1>3. PICK u \in Runs :
        \/ Outcome(u) \/ WriteOff(u) \/ DeleteFailed(u) \/ Create(u)
        \/ MarkNotified(u) \/ NoticeUnknown(u) \/ NoticeFailed(u) \/ Settle(u)
  BY RowWriters
<1>4. CASE Outcome(u)
  <2>1. run[u].pc \in Owning /\ \E s, m : row' = UpdatedRow(u, s, m)
    BY <1>4 DEF Outcome, MarkPublished, SetUnknown, SetFailed, Confirm, Record, At, Owning
  <2>2. run[u].day = d
    BY <1>1, <1>2, <2>1 DEF UpdatedRow, TypeOK
  <2> QED BY <1>4, <2>1, <2>2, SoleOwner
<1>5. ~WriteOff(u)
  <2>1. SUFFICES ASSUME WriteOff(u) PROVE FALSE
    OBVIOUS
  <2>2. PICK e \in run[u].stale :
          row[e.day].id = e.id /\ row' = [row EXCEPT ![e.day] = WithStatus(@, e.to, FALSE)]
    BY <2>1 DEF WriteOff
  <2>3. e.day = d
    BY <1>1, <1>2, <2>2 DEF TypeOK
  <2> QED BY <1>1, <2>2, <2>3 DEF FoundStale
<1>6. ~DeleteFailed(u)
  <2>1. SUFFICES ASSUME DeleteFailed(u) PROVE FALSE
    OBVIOUS
  <2>2. run[u].pc = "delete" /\ Held(u) /\ row' = [row EXCEPT ![run[u].day] = NoRow]
    BY <2>1 DEF DeleteFailed, At, Held
  <2>3. run[u].day = d
    BY <1>1, <1>2, <2>2 DEF TypeOK
  <2> QED BY <2>2, <2>3, OwnedIsAlone
<1>7. ~Create(u)
  BY <1>1, <1>2 DEF Create, TypeOK
<1>8. ~(MarkNotified(u) \/ NoticeUnknown(u) \/ NoticeFailed(u) \/ Settle(u))
  <2>1. SUFFICES ASSUME MarkNotified(u) \/ NoticeUnknown(u) \/ NoticeFailed(u) \/ Settle(u)
                 PROVE  FALSE
    OBVIOUS
  <2>2. run[u].pc \in Noticing /\ \E s, m : row' = UpdatedRow(u, s, m)
    BY <2>1 DEF MarkNotified, NoticeUnknown, NoticeFailed, Settle, Confirm, Record, At, Noticing
  <2>3. run[u].day = d /\ Held(u)
    BY <1>1, <1>2, <2>2 DEF UpdatedRow, TypeOK, Held
  <2> QED BY <2>2, <2>3, OwnedIsAlone
<1> QED BY <1>3, <1>4, <1>5, <1>6, <1>7, <1>8

\* An owner keeps its claim.
LEMMA OwnersStep ==
  ASSUME WholeInv, [Next]_vars
  PROVE  OwnersKeepClaim'
<1> SUFFICES ASSUME NEW u \in Runs, run'[u].pc \in Owning
             PROVE  /\ row'[run'[u].day].id = run'[u].q.id
                    /\ \/ row'[run'[u].day].status = "publishing"
                       \/ run'[u].pc = "setUnknown" /\ row'[run'[u].day].status = "published"
  BY DEF OwnersKeepClaim, Held
<1>1. CASE Claims(u)
  BY <1>1 DEF Claims
<1>2. CASE ~Claims(u)
  <2>1. /\ run[u].pc \in Owning /\ run'[u].day = run[u].day /\ run'[u].q = run[u].q
        /\ run'[u].pc = run[u].pc \/ run[u].pc # "setUnknown"
    BY <1>2, AllMove, WholeParts
    DEF Moves, RunMove, IdleRun, Begins, Sifts, Retries, Clears, Commits, Walk, Walks, Hop, Owning
  <2>2. /\ Held(u)
        /\ \/ row[run[u].day].status = "publishing"
           \/ run[u].pc = "setUnknown" /\ row[run[u].day].status = "published"
    BY <2>1, WholeParts DEF OwnersKeepClaim
  <2>3. CASE row'[run[u].day] = row[run[u].day]
    BY <2>1, <2>2, <2>3 DEF Held
  <2>4. CASE row'[run[u].day] # row[run[u].day]
    <3>1. Outcome(u)
      BY <2>1, <2>4, OwnedRow
    <3>2. ~SetUnknown(u) /\ ~SetFailed(u)
      <4>1. SetUnknown(u) \/ SetFailed(u) => run' = [run EXCEPT ![u] = IdleRun]
        BY DEF SetUnknown, SetFailed, Record, Finish
      <4>2. run' # [run EXCEPT ![u] = IdleRun]
        BY EndOfRun, WholeParts DEF IdleRun, Owning
      <4> QED BY <4>1, <4>2
    <3>3. run'[u].pc \in {"clear", "setUnknown"} /\ row' = UpdatedRow(u, "published", TRUE)
      BY <2>4, <3>1, <3>2, WholeParts, GotoArrives DEF Outcome, MarkPublished, Confirm
    <3>4. row'[run[u].day].id = row[run[u].day].id /\ row'[run[u].day].status = "published"
      BY <2>1, <2>2, <3>3, OwnedIsAlone, RowChanges, WholeParts DEF UpdatedRow, Held
    <3> QED BY <2>1, <2>2, <3>3, <3>4 DEF Held, Owning
  <2> QED BY <2>3, <2>4
<1> QED BY <1>1, <1>2

\* The row a run is about to delete stays that of a failure, or is gone.
LEMMA DeletedStep ==
  ASSUME WholeInv, [Next]_vars
  PROVE  DeletedIsFailed'
<1> SUFFICES ASSUME NEW u \in Runs, run'[u].pc = "delete", row'[run'[u].day].id = run'[u].q.id
             PROVE  row'[run'[u].day].status = "publish_failed"
  BY DEF DeletedIsFailed, Held
<1>1. \A x \in Days : Kept \/ row'[x] = row[x] \/ DayStep(x)
  BY DaySteps, WholeParts DEF DayStep, Posted, Inserted, Deleted, Turned, OthersKept
<1>2. CASE run'[u] = run[u]
  <2> DEFINE d == run[u].day
  <2>1. d \in Days /\ KnownId(run[u].q.id)
    BY <1>2, DayOfRun, WholeParts DEF SafeInv, DeletedIsDead, DaylessLabels
  <2>2. CASE row'[d] = row[d]
    BY <1>2, <2>2, WholeParts DEF DeletedIsFailed, Held
  <2>3. ~Inserted(d) /\ ~Deleted(d)
    BY <1>2, <2>1, WholeParts DEF Inserted, Deleted, NoRow, KnownId, TypeOK
  <2>4. ASSUME NEW s \in Statuses, Turned(d, s) PROVE FALSE
    <3>1. Held(u) /\ row[d].status = "publish_failed" /\ row[d].id = run[u].q.id
      BY <1>2, <2>4, WholeParts DEF DeletedIsFailed, Turned, Held
    <3>2. ASSUME NEW t \in Runs, run[t].pc \in Owning \cup Noticing, run[t].day = d, Held(t)
          PROVE  FALSE
      BY <3>1, <3>2, WholeParts DEF OwnersKeepClaim, SafeInv, NoticeHolds, NoticeStatuses
    <3>3. ASSUME NEW t \in Runs, NEW e \in run[t].stale, e.day = d, e.id = row[d].id
          PROVE  FALSE
      BY <3>1, <3>3, WholeParts DEF StaleIsDead, InProgress, Unknown
    <3> QED BY <2>4, <3>2, <3>3 DEF Turned, HasHolder, FoundStale
  <2> QED BY <1>1, <2>1, <2>2, <2>3, <2>4 DEF DayStep, Posted, Kept
<1>3. CASE run'[u] # run[u]
  <2>1. Retries(u) /\ run'[u].day = run[u].day /\ row[run[u].day].status = "publish_failed"
    BY <1>3, AllMove, WholeParts
    DEF Moves, RunMove, IdleRun, Begins, Sifts, Retries, Clears, Commits, Claims, Walk, Walks, Hop
  <2>2. row' = row
    <3>1. SUFFICES ASSUME row' # row PROVE FALSE
      OBVIOUS
    <3>2. PICK t \in Runs :
            \/ Outcome(t) \/ WriteOff(t) \/ DeleteFailed(t) \/ Create(t)
            \/ MarkNotified(t) \/ NoticeUnknown(t) \/ NoticeFailed(t) \/ Settle(t)
      BY <3>1, RowWriters
    <3>3. RunStep(t)
      BY <3>2 DEF Outcome, RunStep
    <3>4. run[t].pc # "forDay"
      BY <3>2 DEF Outcome, MarkPublished, SetUnknown, SetFailed, Confirm, Record, WriteOff,
                  DeleteFailed, Create, MarkNotified, NoticeUnknown, NoticeFailed, Settle, At
    <3>5. t = u
      BY <1>3, <3>3, RunMoves, WholeParts
    <3> QED BY <2>1, <3>4, <3>5 DEF Retries
  <2> QED BY <2>1, <2>2
<1> QED BY <1>2, <1>3

\* The whole invariant of the scheduler is inductive.
THEOREM WholeInvariant == Spec => []WholeInv
<1>1. Init => WholeInv
  <2> SUFFICES ASSUME Init PROVE WholeInv
    OBVIOUS
  <2>1. OutcomeInv
    BY OutcomeInit
  <2>2. \A d \in Days : row[d].id = 0
    BY DEF Init, NoRow
  <2>3. \A t \in Runs : /\ run[t].pc = "idle" /\ run[t].q.id = 0 /\ run[t].deadline = 0
                        /\ run[t].stale = {}
    BY DEF Init, IdleRun, NoRow
  <2>4. IdsAreUnique /\ LiveIsFresh /\ StaleIsDead /\ NoLiveRunWrittenOff
    BY <2>2, <2>3 DEF Init, IdsAreUnique, LiveIsFresh, StaleIsDead, NoLiveRunWrittenOff
  <2>5. DeadlinesHold /\ ClaimInv
    BY <2>3 DEF DeadlinesHold, ClaimInv, OwnersKeepClaim, DeletedIsFailed, Owning, Noticing
  <2> QED BY <2>1, <2>4, <2>5 DEF WholeInv, LiveInv
<1>2. WholeInv /\ [Next]_vars => WholeInv'
  <2> SUFFICES ASSUME WholeInv, [Next]_vars PROVE WholeInv'
    OBVIOUS
  <2>1. /\ TypeOK /\ SafeInv /\ ConfirmedIsPosted /\ NoticedIsOnRecord
        /\ IdsAreUnique /\ DeadlinesHold /\ LiveIsFresh /\ StaleIsDead /\ NoLiveRunWrittenOff
    BY DEF WholeInv, OutcomeInv, IInv, LiveInv
  <2>2. OutcomeInv' /\ LiveInv'
    BY <2>1, TypeNext, SafeNext, ConfirmedStep, NoticedStep, IdsStep, DeadlinesStep,
       FreshStep, StaleStep, LiveStep DEF OutcomeInv, IInv, LiveInv
  <2> QED BY <2>2, OwnersStep, DeletedStep DEF WholeInv, ClaimInv
<1> QED BY <1>1, <1>2, PTL DEF Spec

\* A row is never written off while its run is at work, in this process or in another.
THEOREM NoneWrittenOffAlive == Spec => []NoLiveRunWrittenOff
<1>1. WholeInv => NoLiveRunWrittenOff
  BY DEF WholeInv, LiveInv
<1> QED BY <1>1, WholeInvariant, PTL

(***************************************************************************)
(* The refinement of the ledger.                                           *)
(***************************************************************************)
Entry(d) == LedgerEntry(row[d].status)
Working == {d \in Days : \E t \in Runs : run[t].pc \in Owning /\ run[t].day = d}

\* A step that posts nothing and turns the entry of one day.
LEMMA LedgerTurns ==
  ASSUME NEW d \in Days, OthersKept(d), NEW from, Entry(d) = from, NEW to, Entry(d)' = to
  PROVE  Ledger!Turn(d, from, to) /\ posts' = posts
  BY DEF Entry, OthersKept, Ledger!Turn

\* The days somebody works on, when one run moves.
LEMMA WorkingMoves ==
  ASSUME WholeInv, NEW t \in Runs, RunStep(t) \/ Accept(t)
  PROVE  /\ run[t].pc \notin Owning /\ run'[t].pc \notin Owning => Working' = Working
         /\ run[t].pc \in Owning /\ run'[t].pc \notin Owning =>
              run[t].day \in Working /\ Working' = Working \ {run[t].day}
         /\ run[t].pc \in Owning /\ run'[t].pc \in Owning =>
              run[t].day \in Working /\ Working' = Working
         /\ run[t].pc \notin Owning /\ run'[t].pc \in Owning =>
              Working' = Working \cup {run[t].day}
<1>1. /\ \A u \in Runs \ {t} : run'[u] = run[u]
      /\ run'[t].pc \in Owning => run'[t].day = run[t].day
      /\ run[t].pc \in Owning \/ run'[t].pc \in Owning => run[t].day \in Days
  <2>1. RunMove(t) /\ \A u \in Runs \ {t} : run'[u] = run[u]
    BY RunMoves, WholeParts
  <2>2. run'[t].pc \in Owning => run'[t].day = run[t].day
    BY <2>1
    DEF RunMove, IdleRun, Begins, Sifts, Retries, Clears, Commits, Claims, Walk, Walks, Hop, Owning
  <2>3. run'[t].pc \in Owning => run'[t].day \in Days
    BY TypeNext, WholeParts DEF TypeOK, RunType, Owning, DaylessLabels, Next
  <2>4. run[t].pc \in Owning => run[t].day \in Days
    BY DayOfRun, WholeParts DEF Owning, DaylessLabels
  <2> QED BY <2>1, <2>2, <2>3, <2>4
<1>2. \A u \in Runs : run[t].pc \in Owning /\ run[u].pc \in Owning /\ run[u].day = run[t].day
        => u = t
  BY SoleOwner
<1> QED BY <1>1, <1>2 DEF Working

\* Without a new row nobody starts to work on a day.
LEMMA WorkingShrinks ==
  ASSUME WholeInv, [Next]_vars, row' = row
  PROVE  Working' \subseteq Working
<1> SUFFICES ASSUME NEW u \in Runs, run'[u].pc \in Owning
             PROVE  run[u].pc \in Owning /\ run'[u].day = run[u].day
  BY DEF Working
<1>1. run'[u] = run[u] \/ Moves(u)
  BY AllMove, WholeParts
<1>2. ~Claims(u)
  BY WholeParts DEF Claims, Inserted, NoRow, TypeOK
<1> QED BY <1>1, <1>2
  DEF Moves, RunMove, IdleRun, Begins, Sifts, Retries, Clears, Commits, Walk, Walks, Hop, Owning

\* Only the send of a quote posts one.
LEMMA PostsGrow ==
  ASSUME [Next]_vars, posts' # posts
  PROVE  \E t \in Runs : Copy(t) \/ Send(t)
<1> USE DEF db, chat
<1>1. ASSUME NEW t \in Runs, RunStep(t) \/ Accept(t), ~(Copy(t) \/ Send(t)) PROVE FALSE
  <2>1. CASE \/ CatchUpLock(t) \/ CatchUpLoad(t) \/ Start(t) \/ Remind(t) \/ QueryFails(t)
             \/ ReadStale(t) \/ ForDay(t) \/ ReadWindow(t) \/ Skip(t) \/ Ask(t) \/ Clear(t)
             \/ Interrupt(t) \/ Accept(t)
    BY <2>1 DEF CatchUpLock, CatchUpLoad, Start, Remind, QueryFails, ReadStale, ForDay,
                ReadWindow, Skip, Ask, Clear, Interrupt, Accept
  <2>2. CASE \/ WriteOff(t) \/ DeleteFailed(t) \/ Create(t) \/ SendNotice(t)
             \/ MarkPublished(t) \/ MarkNotified(t) \/ SetUnknown(t) \/ SetFailed(t)
             \/ NoticeUnknown(t) \/ NoticeFailed(t) \/ Settle(t)
    BY <2>2 DEF WriteOff, DeleteFailed, Create, SendNotice, MarkPublished, MarkNotified, Confirm,
                SetUnknown, SetFailed, NoticeUnknown, NoticeFailed, Record, Settle
  <2> QED BY <1>1, <2>1, <2>2 DEF RunStep
<1>2. ~((\E p \in Procs : ProcStep(p)) \/ ToggleNotice \/ SetActive \/ Clock \/ UNCHANGED vars)
  BY DEF ProcStep, TickList, TickCheck, TickLock, Boot, Crash, Shutdown, Exit, Forget,
         ToggleNotice, SetActive, Clock, vars
<1> QED BY <1>1, <1>2 DEF Next

LEMMA LedgerPost ==
  ASSUME WholeInv, NEW t \in Runs, NEW d, d = run[t].day, Copy(t) \/ Send(t), posts' # posts
  PROVE  Ledger!Post(d)
<1>1. /\ run[t].pc \in Unsent \cap Owning /\ RunStep(t) /\ row' = row
  BY DEF Copy, Send, At, Unsent, Owning, RunStep, db
<1>2. run'[t].pc \in Owning /\ posts' = [posts EXCEPT ![d] = @ + 1]
  BY WholeParts, GotoArrives DEF Copy, Send, PostQuote, Owning
<1>3. posts[d] = 0 /\ row[d].status = "publishing" /\ d \in Days
  BY <1>1, WholeParts, OwnedIsAlone DEF SafeInv, UnsentIsClean, OwnersKeepClaim, Unsent
<1>4. d \in Working /\ Working' = Working
  BY <1>1, <1>2, WorkingMoves
<1>5. posts' = [posts EXCEPT ![d] = 1]
  BY <1>2, <1>3
<1> QED BY <1>1, <1>3, <1>4, <1>5 DEF Ledger!Post, Working, LedgerEntry

LEMMA LedgerOutcome ==
  ASSUME WholeInv, NEW t \in Runs, NEW d, d = run[t].day, Outcome(t), row' # row
  PROVE  Ledger!Confirm(d) \/ Ledger!Fail(d) \/ Ledger!Lose(d)
<1>1. PICK s \in {"published", "publish_unknown", "publish_failed"} :
        /\ row' = UpdatedRow(t, s, s = "published")
        /\ run[t].pc = CASE s = "published" -> "markPublished"
                         [] s = "publish_unknown" -> "setUnknown"
                         [] OTHER -> "setFailed"
        /\ IF s = "published" THEN \E l \in {"clear", "setUnknown"} : Goto(t, l)
                              ELSE run' = [run EXCEPT ![t] = IdleRun]
        /\ RunStep(t) /\ posts' = posts
  BY DEF Outcome, MarkPublished, SetUnknown, SetFailed, Confirm, Record, Finish, At, chat, RunStep
<1>2. run[t].pc \in Owning
  BY <1>1 DEF Owning
<1>3. /\ d \in Days /\ Held(t) /\ row[d].status \in {"publishing", "published"}
      /\ row[d].status = "publishing" \/ s = "publish_unknown"
  BY <1>1, <1>2, WholeParts, OwnedIsAlone DEF OwnersKeepClaim
<1>4. OthersKept(d) /\ row'[d].status = s
  BY <1>1, <1>3, RowChanges, WholeParts DEF UpdatedRow, Held, OthersKept
<1>5. /\ s = "published" => posts[d] = 1
      /\ s = "publish_failed" => posts[d] = 0
  BY <1>1, WholeParts DEF ConfirmedIsPosted, SafeInv, UnsentIsClean, Unsent
<1>6. /\ d \in Working /\ Working' \in {Working, Working \ {d}}
      /\ s # "published" => Working' = Working \ {d}
  <2>1. s # "published" => run'[t].pc = "idle"
    BY <1>1, WholeParts DEF TypeOK, IdleRun
  <2> QED BY <1>1, <1>2, <2>1, WorkingMoves DEF Owning
<1>7. CASE s = "published"
  <2>1. Entry(d) = "claimed" /\ Entry(d)' = "published"
    BY <1>3, <1>4, <1>7 DEF Entry, LedgerEntry
  <2> QED BY <1>3, <1>4, <1>5, <1>6, <1>7, <2>1, LedgerTurns
          DEF Ledger!Confirm, Ledger!Leaves, Ledger!Rests, Working
<1>8. CASE s = "publish_failed"
  <2>1. Entry(d) = "claimed" /\ Entry(d)' = "failed"
    BY <1>3, <1>4, <1>8 DEF Entry, LedgerEntry
  <2> QED BY <1>3, <1>4, <1>5, <1>6, <1>8, <2>1, LedgerTurns
          DEF Ledger!Fail, Ledger!Leaves, Working
<1>9. CASE s = "publish_unknown"
  <2>1. Entry(d) \in {"claimed", "published"} /\ Entry(d)' = "unknown"
    BY <1>3, <1>4, <1>9 DEF Entry, LedgerEntry
  <2> QED BY <1>3, <1>4, <1>6, <1>9, <2>1, LedgerTurns
          DEF Ledger!Lose, Ledger!Leaves, Working
<1> QED BY <1>7, <1>8, <1>9

LEMMA LedgerWriteOff ==
  ASSUME WholeInv, NEW t \in Runs, WriteOff(t), row' # row
  PROVE  (\E d \in Days : Ledger!WriteOff(d)) \/ UNCHANGED Ledger!vars
<1>1. PICK e \in run[t].stale :
        row[e.day].id = e.id /\ row' = [row EXCEPT ![e.day] = WithStatus(@, e.to, FALSE)]
  BY DEF WriteOff
<1> DEFINE d == e.day
<1>2. /\ d \in Days /\ KnownId(e.id) /\ e.to \in Unknown
      /\ row[d].status \in QuoteStatuses <=> e.to = "publish_unknown"
      /\ row[d].status \in InProgress \cup Unknown
  BY <1>1, WholeParts
  DEF TypeOK, RunType, RunRecord, StaleEntry, SafeInv, StaleKind, StaleIsDead, Unknown
<1>3. OthersKept(d) /\ row'[d].status = e.to
  BY <1>1, <1>2, RowChanges, WholeParts DEF OthersKept, WriteOff, chat
<1>4. d \notin Working
  <2>1. FoundStale(d)
    BY <1>1 DEF FoundStale
  <2> QED BY <2>1, OwnedIsAlone DEF Working
<1>5. Working' = Working
  <2>1. run[t].pc = "writeOff" /\ RunStep(t)
    BY DEF WriteOff, At, RunStep
  <2>2. run'[t].pc \notin Owning
    BY <2>1, RunMoves, WholeParts
    DEF RunMove, IdleRun, Begins, Sifts, Retries, Clears, Commits, Claims, Walk, Walks, Hop, Owning
  <2> QED BY <2>1, <2>2, WorkingMoves DEF Owning
<1>6. CASE row[d].status = "publishing"
  <2>1. Entry(d) = "claimed" /\ Entry(d)' = "unknown"
    BY <1>2, <1>3, <1>6 DEF Entry, LedgerEntry, QuoteStatuses
  <2> QED BY <1>2, <1>3, <1>4, <1>5, <2>1, LedgerTurns
          DEF Ledger!WriteOff, Ledger!Rests, Working
<1>7. CASE row[d].status # "publishing"
  <2>1. Entry(d)' = Entry(d)
    BY <1>2, <1>3, <1>7 DEF Entry, LedgerEntry, QuoteStatuses, InProgress, Unknown
  <2> QED BY <1>2, <1>3, <1>5, <2>1 DEF Ledger!vars, Working, Entry, OthersKept
<1> QED BY <1>6, <1>7

LEMMA LedgerDelete ==
  ASSUME WholeInv, NEW t \in Runs, NEW d, d = run[t].day, DeleteFailed(t), row' # row
  PROVE  Ledger!Reopen(d)
<1>1. /\ run[t].pc = "delete" /\ Held(t) /\ row' = [row EXCEPT ![d] = NoRow] /\ d \in Days
      /\ RunStep(t) /\ posts' = posts
  BY WholeParts, DayOfRun DEF DeleteFailed, At, Held, chat, RunStep, DaylessLabels
<1>2. OthersKept(d) /\ row'[d].status = "none"
  BY <1>1, WholeParts DEF OthersKept, TypeOK, NoRow
<1>3. posts[d] = 0 /\ row[d].status = "publish_failed"
  BY <1>1, WholeParts DEF SafeInv, DeletedIsDead, DeletedIsFailed
<1>4. Working' = Working
  <2>1. run'[t].pc \notin Owning
    BY <1>1, RunMoves, WholeParts
    DEF RunMove, IdleRun, Begins, Sifts, Retries, Clears, Commits, Claims, Walk, Walks, Hop, Owning
  <2> QED BY <1>1, <2>1, WorkingMoves DEF Owning
<1>5. Entry(d) = "failed" /\ Entry(d)' = "open"
  BY <1>2, <1>3 DEF Entry, LedgerEntry
<1> QED BY <1>1, <1>2, <1>3, <1>4, <1>5, LedgerTurns DEF Ledger!Reopen, Ledger!Rests, Working

LEMMA LedgerCreate ==
  ASSUME WholeInv, NEW t \in Runs, NEW d, d = run[t].day, Create(t), row' # row
  PROVE  Ledger!Claim(d) \/ Ledger!Reject(d) \/ Ledger!Close(d)
<1>1. /\ run[t].pc = "create" /\ row[d] = NoRow /\ d \in Days /\ RunStep(t) /\ posts' = posts
      /\ row' = [row EXCEPT ![d] = [id |-> nextId, status |-> FirstStatus(t),
                                    changed |-> now, msg |-> FALSE]]
  BY WholeParts, DayOfRun DEF Create, At, chat, RunStep, DaylessLabels
<1>2. OthersKept(d) /\ row'[d].status = FirstStatus(t)
  BY <1>1, WholeParts DEF OthersKept, TypeOK
<1>3. posts[d] = 0
  BY <1>1, WholeParts DEF SafeInv, PostInv, PostedIsOnRecord, NoRow, TypeOK
<1>4. /\ Working' \in {Working, Working \cup {d}}
      /\ FirstStatus(t) # "publishing" => Working' = Working
  <2>1. run'[t].pc \in Owning => FirstStatus(t) = "publishing"
    BY <1>1, <1>2, RunMoves, WholeParts
    DEF RunMove, IdleRun, Begins, Sifts, Retries, Clears, Commits, Claims, Walk, Walks, Hop, Owning
  <2> QED BY <1>1, <2>1, WorkingMoves DEF Owning
<1>5. Entry(d) = "open"
  BY <1>1, <1>2 DEF Entry, LedgerEntry, NoRow
<1>6. CASE FirstStatus(t) = "publishing"
  <2>1. Entry(d)' = "claimed"
    BY <1>2, <1>6 DEF Entry, LedgerEntry
  <2> QED BY <1>1, <1>2, <1>3, <1>4, <1>5, <2>1, LedgerTurns
          DEF Ledger!Claim, Ledger!Begins, Ledger!Rests, Working
<1>7. CASE FirstStatus(t) = "publish_failed"
  <2>1. Entry(d)' = "failed"
    BY <1>2, <1>7 DEF Entry, LedgerEntry
  <2> QED BY <1>1, <1>2, <1>3, <1>4, <1>5, <1>7, <2>1, LedgerTurns
          DEF Ledger!Reject, Ledger!Rests, Working
<1>8. CASE FirstStatus(t) \in {"notifying_boring", "skipped_boring"}
  <2>1. Entry(d)' = "quiet"
    BY <1>2, <1>8 DEF Entry, LedgerEntry
  <2> QED BY <1>1, <1>2, <1>3, <1>4, <1>5, <1>8, <2>1, LedgerTurns
          DEF Ledger!Close, Ledger!Rests, Working
<1> QED BY <1>6, <1>7, <1>8 DEF FirstStatus

LEMMA LedgerNotice ==
  ASSUME WholeInv, NEW t \in Runs, NEW d, d = run[t].day,
         MarkNotified(t) \/ NoticeUnknown(t) \/ NoticeFailed(t) \/ Settle(t), row' # row
  PROVE  UNCHANGED Ledger!vars
<1>1. run[t].pc \in Noticing /\ RunStep(t) /\ posts' = posts
  BY DEF MarkNotified, NoticeUnknown, NoticeFailed, Settle, Confirm, Record, At, Noticing, RunStep,
         chat
<1>2. PICK s \in NoticeStatuses, m \in BOOLEAN : row' = UpdatedRow(t, s, m)
  <2>1. CASE MarkNotified(t)
    BY <2>1 DEF MarkNotified, Confirm, NoticeStatuses
  <2>2. CASE NoticeUnknown(t) \/ NoticeFailed(t)
    BY <2>2 DEF NoticeUnknown, NoticeFailed, Record, NoticeStatuses
  <2>3. CASE Settle(t)
    <3>1. PICK o \in WriteOutcomes :
            row' = IF Applied(o) THEN UpdatedRow(t, "skipped_boring", FALSE) ELSE row
      BY <2>3 DEF Settle
    <3> QED BY <3>1 DEF NoticeStatuses
  <2> QED BY <2>1, <2>2, <2>3
<1>3. d \in Days /\ row[d].status \in NoticeStatuses /\ row[d].id = run[t].q.id
  BY <1>1, DayOfRun, WholeParts DEF SafeInv, NoticeHolds, Noticing, DaylessLabels, Held
<1>4. OthersKept(d) /\ row'[d].status = s
  <2>1. row' = [row EXCEPT ![d] = WithStatus(@, s, m)]
    BY <1>2, <1>3 DEF UpdatedRow
  <2> QED BY <1>1, <1>3, <2>1, RowChanges, WholeParts DEF OthersKept
<1>5. Working' = Working
  <2>1. run'[t].pc \notin Owning
    BY <1>1, RunMoves, WholeParts
    DEF RunMove, IdleRun, Begins, Sifts, Retries, Clears, Commits, Claims, Walk, Walks, Hop, Owning,
        Noticing
  <2> QED BY <1>1, <2>1, WorkingMoves DEF Owning, Noticing
<1>6. Entry(d)' = Entry(d)
  BY <1>3, <1>4 DEF Entry, LedgerEntry, NoticeStatuses
<1> QED BY <1>3, <1>4, <1>5, <1>6 DEF Ledger!vars, Working, Entry, OthersKept

\* Every step of the scheduler is a step of the ledger, or leaves it alone.
LEMMA LedgerStep ==
  ASSUME WholeInv, [Next]_vars
  PROVE  [Ledger!Next]_(Ledger!vars)
<1>1. CASE row' = row /\ posts' = posts
  <2>1. Working' \subseteq Working
    BY <1>1, WorkingShrinks
  <2> QED BY <1>1, <2>1 DEF Ledger!Next, Ledger!Release, Ledger!vars, Working
<1>2. CASE row' = row /\ posts' # posts
  <2>1. PICK t \in Runs : Copy(t) \/ Send(t)
    BY <1>2, PostsGrow
  <2> QED BY <1>2, <2>1, LedgerPost, WholeParts, DayOfRun
          DEF Ledger!Next, Copy, Send, At, DaylessLabels
<1>3. CASE row' # row
  <2>1. PICK t \in Runs :
          \/ Outcome(t) \/ WriteOff(t) \/ DeleteFailed(t) \/ Create(t)
          \/ MarkNotified(t) \/ NoticeUnknown(t) \/ NoticeFailed(t) \/ Settle(t)
    BY <1>3, RowWriters
  <2>2. run[t].pc \in Owning \cup {"delete", "create"} => run[t].day \in Days
    BY WholeParts, DayOfRun DEF Owning, DaylessLabels
  <2>3. CASE Outcome(t)
    <3>1. run[t].pc \in Owning
      BY <2>3 DEF Outcome, MarkPublished, SetUnknown, SetFailed, Confirm, Record, At, Owning
    <3> QED BY <1>3, <2>2, <2>3, <3>1, LedgerOutcome DEF Ledger!Next
  <2>4. CASE WriteOff(t)
    BY <1>3, <2>4, LedgerWriteOff DEF Ledger!Next
  <2>5. CASE DeleteFailed(t) \/ Create(t)
    <3>1. run[t].day \in Days
      BY <2>2, <2>5 DEF DeleteFailed, Create, At
    <3> QED BY <1>3, <2>5, <3>1, LedgerDelete, LedgerCreate DEF Ledger!Next
  <2>6. CASE MarkNotified(t) \/ NoticeUnknown(t) \/ NoticeFailed(t) \/ Settle(t)
    BY <1>3, <2>6, LedgerNotice
  <2> QED BY <2>1, <2>3, <2>4, <2>5, <2>6
<1> QED BY <1>1, <1>2, <1>3

\* The scheduler implements the ledger of module QuoteLedger: only the run that
\* claimed a day posts for it, an unknown outcome is final, and only a day that
\* failed with nothing posted is computed again.
THEOREM ImplementsLedger == Spec => KeepsLedger
<1>1. Init => Ledger!Init
  BY DEF Init, Ledger!Init, NoRow, LedgerEntry, IdleRun, Owning
<1>2. WholeInv /\ [Next]_vars => [Ledger!Next]_(Ledger!vars)
  BY LedgerStep
<1> QED BY <1>1, <1>2, WholeInvariant, PTL DEF Spec, KeepsLedger, Ledger!Spec

(***************************************************************************)
(* One process.                                                            *)
(***************************************************************************)
\* What a step of a run does to the lock of its group.
LEMMA RunLocks ==
  ASSUME NEW t \in Runs, RunStep(t) \/ Accept(t)
  PROVE  \/ lock' = lock /\ (Busy(t) \/ Accept(t))
         \/ /\ run' = [run EXCEPT ![t] = IdleRun]
            /\ \/ lock' = [lock EXCEPT ![Proc(t)] = NoRun] /\ Busy(t)
               \/ lock' = [lock EXCEPT ![Proc(t)] = IF @ = t THEN NoRun ELSE @]
         \/ CatchUpLock(t)
<1>1. CASE \/ Start(t) \/ Remind(t) \/ QueryFails(t) \/ ReadStale(t) \/ WriteOff(t) \/ ForDay(t)
           \/ DeleteFailed(t) \/ ReadWindow(t) \/ Skip(t) \/ Ask(t) \/ Clear(t)
  BY <1>1 DEF Start, Remind, QueryFails, ReadStale, WriteOff, ForDay, DeleteFailed, ReadWindow,
              Skip, Ask, Clear, Busy, At, Finish, procs
<1>2. CASE \/ Create(t) \/ Copy(t) \/ Send(t) \/ SendNotice(t) \/ MarkPublished(t)
           \/ MarkNotified(t) \/ SetUnknown(t) \/ SetFailed(t) \/ NoticeUnknown(t)
           \/ NoticeFailed(t) \/ Settle(t)
  BY <1>2 DEF Create, Copy, Send, SendNotice, MarkPublished, MarkNotified, Confirm, SetUnknown,
              SetFailed, NoticeUnknown, NoticeFailed, Record, Settle, Busy, At, Finish, procs
<1>3. CASE CatchUpLoad(t) \/ Interrupt(t) \/ Accept(t)
  BY <1>3 DEF CatchUpLoad, Interrupt, Accept, Drop, Busy, At, procs
<1> QED BY <1>1, <1>2, <1>3 DEF RunStep

LEMMA LockStep ==
  ASSUME TypeOK, LockHeld, [Next]_vars
  PROVE  LockHeld'
<1>1. NoRun \notin Runs /\ \A t \in Runs : Proc(t) \in Procs
  BY ProcOfRun, DailyQuoteAssumption DEF Runs
<1>2. ASSUME NEW t \in Runs, RunStep(t) \/ Accept(t) PROVE LockHeld'
  <2>1. \A u \in Runs \ {t} : run'[u] = run[u]
    BY <1>2, RunMoves
  <2>2. CASE lock' = lock /\ (Busy(t) \/ Accept(t))
    <3>1. Accept(t) => ~Busy(t)'
      BY GotoArrives DEF Accept, Busy
    <3> QED BY <2>1, <2>2, <3>1 DEF LockHeld, Busy
  <2>3. CASE run' = [run EXCEPT ![t] = IdleRun] /\ lock' = [lock EXCEPT ![Proc(t)] = NoRun] /\ Busy(t)
    BY <1>1, <2>1, <2>3, EndOfRun DEF LockHeld, Busy, IdleRun, TypeOK
  <2>4. CASE /\ run' = [run EXCEPT ![t] = IdleRun]
             /\ lock' = [lock EXCEPT ![Proc(t)] = IF @ = t THEN NoRun ELSE @]
    BY <1>1, <2>1, <2>4, EndOfRun DEF LockHeld, Busy, IdleRun, TypeOK
  <2>5. CASE CatchUpLock(t)
    BY <1>1, <2>1, <2>5 DEF CatchUpLock, LockHeld, Busy, TypeOK
  <2> QED BY <1>2, <2>2, <2>3, <2>4, <2>5, RunLocks
<1>3. ASSUME NEW p \in Procs, Forget(p) PROVE LockHeld'
  BY <1>1, <1>3 DEF Forget, LockHeld, Busy, IdleRun, TypeOK
<1>4. ASSUME NEW p \in Procs, TickLock(p) PROVE LockHeld'
  <2>1. CASE UNCHANGED <<lock, run>>
    BY <2>1 DEF LockHeld, Busy
  <2>2. CASE ~UNCHANGED <<lock, run>>
    <3>1. PICK d, n : /\ lock[p] = NoRun /\ lock' = [lock EXCEPT ![p] = TickRun(p)]
                      /\ run' = [run EXCEPT ![TickRun(p)] =
                                   [IdleRun EXCEPT !.pc = "start", !.day = d, !.snap = n]]
      BY <1>4, <2>2 DEF TickLock
    <3>2. TickRun(p) \in Runs /\ Proc(TickRun(p)) = p
      BY DEF TickRun, Runs, Proc
    <3> QED BY <1>1, <3>1, <3>2 DEF LockHeld, Busy, TypeOK
  <2> QED BY <2>1, <2>2
<1>5. CASE UNCHANGED <<lock, run>>
  BY <1>5 DEF LockHeld, Busy
<1> QED BY <1>2, <1>3, <1>4, <1>5 DEF Next, ProcStep, TickList, TickCheck, Boot, Crash, Shutdown,
           Exit, ToggleNotice, SetActive, Clock, vars, procs

\* The steps at which a run expects nothing of its row.
Open == {"idle", "wait", "load", "start", "remind", "stale", "writeOff", "forDay"}

LEMMA OpenStep ==
  ASSUME TypeOK', NEW u \in Runs, run'[u].pc \in Open
  PROVE  AsExpected(u)'
  BY DEF AsExpected, Open, Expected, TypeOK, RunType, Row, DaylessLabels, Owning, Noticing

LEMMA EndIsOpen ==
  ASSUME TypeOK, NEW t \in Runs, run' = [run EXCEPT ![t] = IdleRun]
  PROVE  run'[t].pc \in Open
<1>1. IdleRun.pc \in Open
  BY DEF IdleRun, Open
<1> QED BY <1>1, EndOfRun

\* A run that moves on over rows nobody touches.
LEMMA QuietWalk ==
  ASSUME TypeOK, NEW t \in Runs, NEW l, Goto(t, l), UNCHANGED <<row, win>>,
         run[t].pc \notin DaylessLabels, AsExpected(t), l # "skip",
         Expected(run[t].pc) \subseteq Expected(l),
         l \in Owning => run[t].pc \in Owning
  PROVE  AsExpected(t)'
<1>1. run'[t].pc = l /\ run'[t].day = run[t].day /\ run'[t].q = run[t].q
  BY GotoWalks DEF Walks
<1> QED BY <1>1 DEF AsExpected, Held

LEMMA ExpectedRead ==
  ASSUME TypeOK, SafeInv, TypeOK', NEW t \in Runs, AsExpected(t),
         ForDay(t) \/ DeleteFailed(t) \/ ReadWindow(t) \/ Ask(t)
  PROVE  AsExpected(t)'
<1> DEFINE d == run[t].day
<1>0. CASE run'[t].pc \in Open
  BY <1>0, OpenStep
<1>1. d \in Days /\ (run' = [run EXCEPT ![t] = IdleRun] => run'[t].pc \in Open)
  <2>1. run[t].pc \notin DaylessLabels
    BY DEF ForDay, DeleteFailed, ReadWindow, Ask, At, DaylessLabels
  <2> QED BY <2>1, DayOfRun, EndIsOpen
<1>2. CASE ForDay(t) /\ run'[t].pc \notin Open
  <2>1. UNCHANGED row
    BY <1>2 DEF ForDay, db
  <2>2. CASE Goto(t, "readWindow") /\ row[d] = NoRow
    <3>1. run'[t].pc = "readWindow" /\ run'[t].day = d
      BY <2>2, GotoWalks DEF Walks
    <3> QED BY <2>1, <2>2, <3>1 DEF AsExpected, Expected, NoRow, Owning
  <2>3. CASE row[d].status = "publish_failed" /\ run' = [run EXCEPT ![t].pc = "delete", ![t].q = row[d]]
    <3>1. run'[t].pc = "delete" /\ run'[t].day = d
      BY <2>3 DEF TypeOK, RunType, RunRecord
    <3> QED BY <2>1, <2>3, <3>1 DEF AsExpected, Expected, Owning
  <2>4. ASSUME row[d].status = "boring_notice_failed", NEW l \in {"notice", "settle"}, NEW n,
               run' = [run EXCEPT ![t].pc = l, ![t].q = row[d], ![t].deadline = n]
        PROVE  AsExpected(t)'
    <3>1. run'[t].pc = l /\ run'[t].day = d
      BY <2>4 DEF TypeOK, RunType, RunRecord
    <3> QED BY <2>1, <2>4, <3>1 DEF AsExpected, Expected, Owning
  <2> QED BY <1>1, <1>2, <2>2, <2>3, <2>4 DEF ForDay, Finish
<1>3. CASE DeleteFailed(t) /\ run'[t].pc \notin Open
  <2>1. row' = [row EXCEPT ![d] = NoRow] /\ run' = [run EXCEPT ![t].pc = "readWindow", ![t].q = NoRow]
    BY <1>1, <1>3 DEF DeleteFailed, Finish, Applied
  <2>2. row'[d].status = "none" /\ run'[t].pc = "readWindow" /\ run'[t].day = d
    BY <1>1, <2>1 DEF TypeOK, RunType, RunRecord, NoRow
  <2> QED BY <2>2 DEF AsExpected, Expected, Owning
<1>4. CASE ReadWindow(t) /\ run'[t].pc \notin Open
  <2>1. PICK l \in {"skip", "ask"} : Goto(t, l) /\ (l = "skip" => win[d] = "few")
    BY <1>1, <1>4 DEF ReadWindow, Finish
  <2>2. run'[t].pc = l /\ run'[t].day = d
    BY <2>1, GotoWalks DEF Walks
  <2> QED BY <1>4, <2>1, <2>2 DEF ReadWindow, At, db, AsExpected, Expected, Owning, DaylessLabels
<1>5. CASE Ask(t) /\ run'[t].pc \notin Open
  <2>1. PICK v, n : run' = [run EXCEPT ![t].pc = "create", ![t].verdict = v, ![t].deadline = n]
    BY <1>1, <1>5 DEF Ask, Finish
  <2>2. run'[t].pc = "create" /\ run'[t].day = d
    BY <2>1 DEF TypeOK, RunType, RunRecord
  <2> QED BY <1>5, <2>2 DEF Ask, At, db, AsExpected, Expected, Owning, DaylessLabels
<1> QED BY <1>0, <1>2, <1>3, <1>4, <1>5

LEMMA ExpectedCreate ==
  ASSUME TypeOK, SafeInv, TypeOK', NEW t \in Runs, AsExpected(t), Create(t)
  PROVE  AsExpected(t)'
<1> DEFINE d == run[t].day
           new == [id |-> nextId, status |-> FirstStatus(t), changed |-> now, msg |-> FALSE]
<1>1. CASE run' = [run EXCEPT ![t] = IdleRun]
  BY <1>1, EndIsOpen, OpenStep
<1>2. ASSUME NEW l \in AfterCreate(t), row' = [row EXCEPT ![d] = new],
             run' = [run EXCEPT ![t].pc = l, ![t].q = new]
      PROVE  AsExpected(t)'
  <2>1. d \in Days
    BY DayOfRun DEF Create, At, DaylessLabels
  <2>2. /\ new.id = nextId /\ new.status = FirstStatus(t)
        /\ \/ l = "skip" /\ FirstStatus(t) = "skipped_boring"
           \/ l \in {"copy", "send"} /\ FirstStatus(t) = "publishing"
           \/ l = "notice" /\ FirstStatus(t) = "notifying_boring"
    BY DEF AfterCreate, FirstStatus
  <2> HIDE DEF new
  <2>3. row'[d] = new /\ run'[t].pc = l /\ run'[t].day = d /\ run'[t].q = new
    BY <1>2, <2>1 DEF TypeOK, RunType, RunRecord
  <2>4. FirstStatus(t) \in Expected(l) /\ (l \in Owning => l \in {"copy", "send"})
        /\ (l = "skip" => FirstStatus(t) # "none")
    BY <2>2 DEF Expected, Owning
  <2> QED BY <2>2, <2>3, <2>4 DEF AsExpected, Held
<1> QED BY <1>1, <1>2 DEF Create, Finish

LEMMA ExpectedSend ==
  ASSUME TypeOK, SafeInv, TypeOK', NEW t \in Runs, AsExpected(t),
         Copy(t) \/ Send(t) \/ SendNotice(t)
  PROVE  AsExpected(t)'
<1>1. UNCHANGED <<row, win>> /\ run[t].pc \in {"copy", "send", "notice"}
  BY DEF Copy, Send, SendNotice, At, db
<1>2. CASE Copy(t) \/ Send(t)
  <2>1. PICK l \in {"markPublished", "setUnknown", "send", "setFailed"} : Goto(t, l)
    BY <1>2 DEF Copy, Send, PostQuote
  <2>2. run[t].pc \in {"copy", "send"}
    BY <1>2 DEF Copy, Send, At
  <2>3. Expected(run[t].pc) \subseteq Expected(l) /\ run[t].pc \in Owning /\ l # "skip"
        /\ run[t].pc \notin DaylessLabels
    BY <2>2 DEF Expected, Owning, DaylessLabels
  <2> QED BY <1>1, <2>1, <2>3, QuietWalk
<1>3. CASE SendNotice(t)
  <2>1. PICK l \in {"markNotified", "noticeUnknown", "noticeFailed"} : Goto(t, l)
    BY <1>3 DEF SendNotice
  <2>2. run[t].pc = "notice"
    BY <1>3 DEF SendNotice, At
  <2>3. Expected(run[t].pc) \subseteq Expected(l) /\ l \notin Owning /\ l # "skip"
        /\ run[t].pc \notin DaylessLabels
    BY <2>2 DEF Expected, Owning, DaylessLabels
  <2> QED BY <1>1, <2>1, <2>3, QuietWalk
<1> QED BY <1>2, <1>3

LEMMA ExpectedConfirm ==
  ASSUME TypeOK, SafeInv, TypeOK', NEW t \in Runs, AsExpected(t),
         MarkPublished(t) \/ MarkNotified(t) \/ Settle(t)
  PROVE  AsExpected(t)'
<1> DEFINE d == run[t].day
<1>1. /\ d \in Days /\ UNCHANGED win /\ run[t].pc \in {"markPublished", "markNotified", "settle"}
      /\ Held(t)
  <2>1. run[t].pc \in {"markPublished", "markNotified", "settle"} /\ UNCHANGED win
    BY DEF MarkPublished, MarkNotified, Settle, Confirm, At
  <2> QED BY <2>1, DayOfRun DEF AsExpected, SafeInv, NoticeHolds, Owning, Noticing, DaylessLabels
<1>2. CASE run' = [run EXCEPT ![t] = IdleRun]
  BY <1>2, EndIsOpen, OpenStep
<1>3. ASSUME NEW l, Goto(t, l), UNCHANGED row,
             \/ run[t].pc = "markPublished" /\ l = "setUnknown"
             \/ run[t].pc = "markNotified" /\ l = "noticeUnknown"
      PROVE  AsExpected(t)'
  <2>1. Expected(run[t].pc) \subseteq Expected(l) /\ run[t].pc \notin DaylessLabels /\ l # "skip"
        /\ (l \in Owning => run[t].pc \in Owning)
    BY <1>3 DEF Expected, Owning, DaylessLabels
  <2> QED BY <1>1, <1>3, <2>1, QuietWalk
<1>4. ASSUME NEW l, Goto(t, l), NEW s, NEW m, row' = [row EXCEPT ![d] = WithStatus(@, s, m)],
             \/ s = "published" /\ l \in {"clear", "setUnknown"}
             \/ s = "skipped_boring" /\ l \in {"clear", "noticeUnknown"}
      PROVE  AsExpected(t)'
  <2>1. row'[d].id = row[d].id /\ row'[d].status = s
    BY <1>1, <1>4, RowChanges
  <2>2. run'[t].pc = l /\ run'[t].day = d /\ run'[t].q = run[t].q
    BY <1>4, GotoWalks DEF Walks
  <2>3. s \in Expected(l) /\ l # "skip"
    BY <1>4 DEF Expected, Owning
  <2> QED BY <1>1, <2>1, <2>2, <2>3 DEF AsExpected, Held
<1>5. CASE MarkPublished(t) \/ MarkNotified(t)
  <2>1. PICK o \in WriteOutcomes, s \in {"published", "skipped_boring"},
             l \in {"setUnknown", "noticeUnknown"} :
          /\ row' = IF Applied(o) THEN UpdatedRow(t, s, TRUE) ELSE row
          /\ Goto(t, IF o = "ok" THEN "clear" ELSE l)
          /\ \/ run[t].pc = "markPublished" /\ s = "published" /\ l = "setUnknown"
             \/ run[t].pc = "markNotified" /\ s = "skipped_boring" /\ l = "noticeUnknown"
    BY <1>5 DEF MarkPublished, MarkNotified, Confirm, At
  <2>2. UpdatedRow(t, s, TRUE) = [row EXCEPT ![d] = WithStatus(@, s, TRUE)]
    BY <1>1 DEF UpdatedRow, Held
  <2>3. CASE Applied(o)
    BY <1>4, <2>1, <2>2, <2>3
  <2>4. CASE ~Applied(o)
    BY <1>3, <2>1, <2>4 DEF Applied
  <2> QED BY <2>3, <2>4
<1>6. CASE Settle(t) /\ run' # [run EXCEPT ![t] = IdleRun]
  <2>1. row' = UpdatedRow(t, "skipped_boring", FALSE) /\ Goto(t, "clear")
    BY <1>6 DEF Settle, Finish, Applied
  <2>2. row' = [row EXCEPT ![d] = WithStatus(@, "skipped_boring", FALSE)]
    BY <1>1, <2>1 DEF UpdatedRow, Held
  <2> QED BY <1>4, <2>1, <2>2
<1> QED BY <1>2, <1>5, <1>6

\* What the run that takes a step may expect after it.
LEMMA ExpectedRun ==
  ASSUME TypeOK, SafeInv, TypeOK', NEW t \in Runs, AsExpected(t), RunStep(t) \/ Accept(t)
  PROVE  AsExpected(t)'
<1>1. CASE \/ CatchUpLock(t) \/ CatchUpLoad(t) \/ Start(t) \/ Remind(t) \/ QueryFails(t)
           \/ ReadStale(t) \/ WriteOff(t) \/ Skip(t) \/ SetUnknown(t) \/ SetFailed(t)
           \/ NoticeUnknown(t) \/ NoticeFailed(t) \/ Clear(t) \/ Interrupt(t) \/ Accept(t)
  <2>1. run'[t].pc \in Open
    <3>1. CASE run' = [run EXCEPT ![t] = IdleRun]
      BY <3>1, EndIsOpen
    <3>2. CASE \E l \in {"wait", "load", "stale", "remind"} : Goto(t, l)
      BY <3>2, GotoArrives DEF Open
    <3>3. CASE CatchUpLoad(t) \/ ReadStale(t) \/ WriteOff(t)
      <4>1. RunMove(t)
        BY <3>3, RunMoves DEF RunStep
      <4>2. run[t].pc \in {"load", "stale", "writeOff"}
        BY <3>3 DEF CatchUpLoad, ReadStale, WriteOff, At
      <4> QED BY <4>1, <4>2
              DEF RunMove, Open, IdleRun, Begins, Sifts, Retries, Clears, Commits, Claims, Walk, Hop
    <3> QED BY <1>1, <3>1, <3>2, <3>3
            DEF CatchUpLock, Start, Remind, QueryFails, Skip, SetUnknown, SetFailed, NoticeUnknown,
                NoticeFailed, Clear, Interrupt, Accept, Record, Finish, Drop
  <2> QED BY <2>1, OpenStep
<1> QED BY <1>1, ExpectedRead, ExpectedCreate, ExpectedSend, ExpectedConfirm DEF RunStep

SerialTypeInv == OutcomeInv /\ SerialInv

\* One run of the process works at a time, and nobody else touches its row.
LEMMA SerialStep ==
  ASSUME OneProcess, SerialTypeInv, [Next]_vars
  PROVE  SerialTypeInv'
<1>1. TypeOK /\ SafeInv /\ OutcomeInv /\ LockHeld /\ \A t \in Runs : AsExpected(t)
  BY DEF SerialTypeInv, SerialInv, OutcomeInv, IInv
<1>2. OutcomeInv' /\ TypeOK' /\ LockHeld'
  BY <1>1, TypeNext, SafeNext, ConfirmedStep, NoticedStep, LockStep DEF OutcomeInv, IInv
<1>3. ASSUME NEW t \in Runs, RunStep(t) \/ Accept(t), NEW u \in Runs PROVE AsExpected(u)'
  <2>1. CASE u = t
    BY <1>1, <1>2, <1>3, <2>1, ExpectedRun
  <2>2. CASE u # t /\ run[u].pc \in {"idle", "wait"}
    <3>1. run'[u].pc \in Open
      BY <1>1, <1>3, <2>2, RunMoves DEF Open
    <3> QED BY <1>2, <3>1, OpenStep
  <2>3. CASE u # t /\ run[u].pc \notin {"idle", "wait"}
    <3>1. run'[u] = run[u]
      BY <1>1, <1>3, <2>3, RunMoves
    <3>2. lock[Proc(t)] = u
      BY <1>1, <2>3, ProcOfRun DEF OneProcess, LockHeld, Busy
    <3>3. ~Busy(t)
      BY <1>1, <2>3, <3>2 DEF LockHeld
    <3>4. UNCHANGED <<row, win>>
      <4>1. NoRun \notin Runs
        BY DailyQuoteAssumption DEF Runs
      <4>2. ~CatchUpLock(t)
        BY <3>2, <4>1 DEF CatchUpLock
      <4>3. Accept(t) \/ Interrupt(t)
        BY <1>3, <3>3, <4>2
        DEF RunStep, Busy, At, CatchUpLoad, Start, Remind, QueryFails, ReadStale, WriteOff, ForDay,
            DeleteFailed, ReadWindow, Skip, Ask, Create, Copy, Send, SendNotice, MarkPublished,
            MarkNotified, Confirm, SetUnknown, SetFailed, NoticeUnknown, NoticeFailed, Record,
            Settle, Clear
      <4> QED BY <4>3 DEF Accept, Interrupt, db
    <3> QED BY <1>1, <3>1, <3>4 DEF AsExpected, Held
  <2> QED BY <2>1, <2>2, <2>3
<1>4. ASSUME (\E p \in Procs : ProcStep(p)) \/ ToggleNotice \/ SetActive \/ Clock \/ UNCHANGED vars
      PROVE  \A u \in Runs : AsExpected(u)'
  <2>1. UNCHANGED <<row, win>>
    BY <1>4 DEF ProcStep, TickList, TickCheck, TickLock, Boot, Crash, Shutdown, Exit, Forget,
                ToggleNotice, SetActive, Clock, db, vars
  <2>2. ASSUME NEW u \in Runs PROVE run'[u] = run[u] \/ run'[u].pc \in {"idle", "start"}
    <3>1. ASSUME NEW p \in Procs, TickLock(p), ~UNCHANGED run
          PROVE  run'[u] = run[u] \/ run'[u].pc = "start"
      <4>1. PICK d, n : run' = [run EXCEPT ![TickRun(p)] =
                          [IdleRun EXCEPT !.pc = "start", !.day = d, !.snap = n]]
        BY <3>1 DEF TickLock
      <4> QED BY <1>1, <4>1 DEF TypeOK, IdleRun
    <3>2. ASSUME NEW p \in Procs, Forget(p) PROVE run'[u] = run[u] \/ run'[u].pc = "idle"
      BY <3>2 DEF Forget, IdleRun
    <3> QED BY <1>4, <3>1, <3>2 DEF ProcStep, TickList, TickCheck, Boot, Crash, Shutdown, Exit,
               ToggleNotice, SetActive, Clock, vars
  <2>3. ASSUME NEW u \in Runs PROVE AsExpected(u)'
    <3>1. CASE run'[u] = run[u]
      BY <1>1, <2>1, <3>1 DEF AsExpected, Held
    <3>2. CASE run'[u].pc \in {"idle", "start"}
      BY <1>2, <3>2, OpenStep DEF Open
    <3> QED BY <2>2, <3>1, <3>2
  <2> QED BY <2>3
<1>5. \A u \in Runs : AsExpected(u)'
  BY <1>3, <1>4 DEF Next
<1> QED BY <1>2, <1>5 DEF SerialTypeInv, SerialInv

LEMMA SerialHolds == OneProcess => (Spec => []SerialTypeInv)
<1> SUFFICES ASSUME OneProcess PROVE Spec => []SerialTypeInv
  OBVIOUS
<1>1. Init => SerialTypeInv
  <2>1. Init => SerialInv
    BY DEF Init, SerialInv, LockHeld, Busy, AsExpected, IdleRun, DaylessLabels
  <2> QED BY <2>1, OutcomeInit DEF SerialTypeInv
<1>2. SerialTypeInv /\ [Next]_vars => SerialTypeInv'
  BY SerialStep
<1> QED BY <1>1, <1>2, PTL DEF Spec

\* A run of the only process knows the row of its day, at every step.
THEOREM OneRunAtATime == OneProcess => (Spec => []SerialInv)
<1> SUFFICES ASSUME OneProcess PROVE Spec => []SerialInv
  OBVIOUS
<1>1. SerialTypeInv => SerialInv
  BY DEF SerialTypeInv
<1> QED BY <1>1, SerialHolds, PTL

\* The AI is asked, and its verdict recorded, only for a day without a row.
THEOREM AskedWhenOpen == OneProcess => (Spec => []AskedOnlyForOpenDays)
<1> SUFFICES ASSUME OneProcess PROVE Spec => []AskedOnlyForOpenDays
  OBVIOUS
<1>1. SerialTypeInv => AskedOnlyForOpenDays
  <2> SUFFICES ASSUME SerialTypeInv, NEW t \in Runs, run[t].pc \in {"ask", "create"}
               PROVE  row[run[t].day] = NoRow
    BY DEF AskedOnlyForOpenDays
  <2>1. run[t].day \in Days
    BY DayOfRun DEF SerialTypeInv, OutcomeInv, IInv, DaylessLabels
  <2>2. row[run[t].day].status \in Expected(run[t].pc)
    BY DEF SerialTypeInv, SerialInv, AsExpected, DaylessLabels
  <2>3. \A l \in {"ask", "create"} : Expected(l) = {"none"}
    BY DEF Expected, Owning
  <2>4. row[run[t].day].status = "none"
    BY <2>2, <2>3
  <2> QED BY <2>1, <2>4 DEF SerialTypeInv, OutcomeInv, IInv, SafeInv, RowHasId, Statuses,
                            QuoteStatuses, NoticeStatuses
<1> QED BY <1>1, SerialHolds, PTL

\* A day whose outcome is unknown keeps it, and nothing more is sent for it.
LEMMA UnknownKept ==
  ASSUME SerialTypeInv, [Next]_vars, NEW d \in Days, row[d].status \in Unknown
  PROVE  row'[d].status = row[d].status /\ posts'[d] = posts[d] /\ notices'[d] = notices[d]
<1>1. TypeOK /\ SafeInv /\ ConfirmedIsPosted /\ \A t \in Runs : AsExpected(t)
  BY DEF SerialTypeInv, SerialInv, OutcomeInv, IInv
<1>2. ASSUME NEW t \in Runs, run[t].day = d, run[t].pc \in Owning \cup Noticing \cup {"delete"}
      PROVE  FALSE
  <2>1. row[d].status \in Expected(run[t].pc)
    BY <1>1, <1>2 DEF AsExpected, Owning, Noticing, DaylessLabels
  <2> QED BY <1>2, <2>1 DEF Expected, Owning, Noticing, Unknown
<1>3. notices'[d] = notices[d]
  <2>1. SUFFICES ASSUME notices'[d] # notices[d] PROVE FALSE
    OBVIOUS
  <2>2. PICK t \in Runs : SendNotice(t)
    BY <2>1, NoticesGrow
  <2>3. run[t].pc = "notice" /\ run[t].day = d
    BY <1>1, <2>1, <2>2 DEF SendNotice, At, TypeOK
  <2> QED BY <1>2, <2>3 DEF Noticing
<1>4. ~HasHolder(d) /\ ~Posted(d) /\ ~Deleted(d)
  BY <1>2 DEF HasHolder, Posted, Deleted
<1>5. ~Inserted(d)
  BY DEF Inserted, NoRow, Unknown
<1>6. ASSUME NEW s \in Statuses, Turned(d, s) PROVE row'[d].status = row[d].status
  BY <1>4, <1>6 DEF Turned, MayTurn, Unknown, QuoteStatuses, NoticeStatuses
<1>7. row'[d].status = row[d].status
  BY <1>1, <1>4, <1>5, <1>6, DaySteps
  DEF Kept, DayStep, Posted, Inserted, Deleted, Turned, OthersKept
<1>8. posts'[d] = posts[d]
  BY <1>1, <1>4, DaySteps DEF Kept, DayStep, Posted, Inserted, Deleted, Turned, OthersKept, TypeOK
<1> QED BY <1>3, <1>7, <1>8

\* An unknown outcome is final as long as one process runs.
THEOREM UnknownStays == OneProcess => (Spec => UnknownIsFinal)
<1> SUFFICES ASSUME OneProcess PROVE Spec => UnknownIsFinal
  OBVIOUS
<1>1. SerialTypeInv /\ [Next]_vars =>
        [\A d \in Days :
           row[d].status \in {"publish_unknown", "boring_notice_unknown"} =>
             /\ row'[d].status = row[d].status
             /\ posts'[d] = posts[d] /\ notices'[d] = notices[d]]_vars
  BY UnknownKept DEF Unknown
<1> QED BY <1>1, SerialHolds, PTL DEF Spec, UnknownIsFinal

\* Only the two deletions empty the window of a day.
LEMMA WindowShrinks ==
  ASSUME TypeOK, [Next]_vars, NEW d \in Days, win'[d] # win[d]
  PROVE  \E t \in Runs : run[t].pc \in {"skip", "clear"} /\ run[t].day = d
<1> USE DEF db
<1>1. ASSUME NEW t \in Runs, RunStep(t) \/ Accept(t)
      PROVE  (Skip(t) \/ Clear(t)) /\ run[t].day = d
  <2>1. CASE \/ CatchUpLock(t) \/ CatchUpLoad(t) \/ Start(t) \/ Remind(t) \/ QueryFails(t)
             \/ ReadStale(t) \/ ForDay(t) \/ ReadWindow(t) \/ Ask(t) \/ SendNotice(t)
             \/ Interrupt(t) \/ Accept(t)
    BY <2>1 DEF CatchUpLock, CatchUpLoad, Start, Remind, QueryFails, ReadStale, ForDay,
                ReadWindow, Ask, SendNotice, Interrupt, Accept
  <2>2. CASE \/ WriteOff(t) \/ DeleteFailed(t) \/ Create(t) \/ Copy(t) \/ Send(t)
             \/ MarkPublished(t) \/ MarkNotified(t) \/ SetUnknown(t) \/ SetFailed(t)
             \/ NoticeUnknown(t) \/ NoticeFailed(t) \/ Settle(t)
    BY <2>2 DEF WriteOff, DeleteFailed, Create, Copy, Send, MarkPublished, MarkNotified, Confirm,
                SetUnknown, SetFailed, NoticeUnknown, NoticeFailed, Record, Settle
  <2>3. CASE Skip(t) \/ Clear(t)
    <3>1. win' = win \/ win' = [win EXCEPT ![run[t].day] = "empty"]
      BY <2>3 DEF Skip, Clear
    <3> QED BY <2>3, <3>1 DEF TypeOK
  <2> QED BY <1>1, <2>1, <2>2, <2>3 DEF RunStep
<1>2. ~((\E p \in Procs : ProcStep(p)) \/ ToggleNotice \/ SetActive \/ Clock \/ UNCHANGED vars)
  BY DEF ProcStep, TickList, TickCheck, TickLock, Boot, Crash, Shutdown, Exit, Forget,
         ToggleNotice, SetActive, Clock, vars
<1> QED BY <1>1, <1>2 DEF Next, Skip, Clear, At

\* The messages of a day worth a quote go only after its quote or its notice is on
\* record, as long as one process runs.
THEOREM WindowKept == OneProcess => (Spec => WindowKeptUntilSettled)
<1> SUFFICES ASSUME OneProcess PROVE Spec => WindowKeptUntilSettled
  OBVIOUS
<1>1. SerialTypeInv /\ [Next]_vars =>
        [\A d \in Days :
           win[d] = "enough" /\ win'[d] = "empty" =>
             row[d].status \in {"published", "skipped_boring"}]_vars
  <2> SUFFICES ASSUME SerialTypeInv, [Next]_vars, NEW d \in Days,
                      win[d] = "enough", win'[d] = "empty"
               PROVE  row[d].status \in {"published", "skipped_boring"}
    OBVIOUS
  <2>1. PICK t \in Runs : run[t].pc \in {"skip", "clear"} /\ run[t].day = d
    BY WindowShrinks DEF SerialTypeInv, OutcomeInv, IInv
  <2>2. /\ row[d].status \in Expected(run[t].pc)
        /\ run[t].pc = "skip" /\ row[d].status = "none" => win[d] # "enough"
    BY <2>1 DEF SerialTypeInv, SerialInv, AsExpected, DaylessLabels
  <2> QED BY <2>1, <2>2 DEF Expected, Owning
<1> QED BY <1>1, SerialHolds, PTL DEF Spec, WindowKeptUntilSettled

(***************************************************************************)
(* The agreement reminder.                                                 *)
(***************************************************************************)
\* The day that is due is the last one whose cutoff has passed.
LEMMA DueIsLast ==
  ASSUME NEW t \in Nat, NEW d \in DueDays(t), NEW m \in Days \cup {NoDay}, Cutoff(m) <= t
  PROVE  m <= d
<1>1. /\ d \in Nat /\ m \in Nat /\ DayLength \in Nat /\ CatchUpTime \in Nat
      /\ CatchUpTime <= DayLength /\ t < Cutoff(d) + CatchUpTime
  BY DailyQuoteAssumption DEF DueDays, Days, NoDay
<1>2. SUFFICES ASSUME m >= d + 1 PROVE FALSE
  BY <1>1
<1>3. PICK k \in Nat : m = d + 1 + k
  <2>1. m - d - 1 \in Nat /\ m = d + 1 + (m - d - 1)
    BY <1>1, <1>2
  <2> QED BY <2>1
<1>4. (d + k) * DayLength = (d - 1) * DayLength + DayLength + k * DayLength /\ k * DayLength >= 0
  BY <1>1
<1>5. (d - 1) * DayLength \in Int /\ (d + k) * DayLength \in Int /\ k * DayLength \in Int
  BY <1>1
<1>6. Cutoff(m) = (d + k) * DayLength
  BY <1>1, <1>3 DEF Cutoff
<1>7. Cutoff(d) = (d - 1) * DayLength
  BY DEF Cutoff
<1> QED BY <1>1, <1>4, <1>5, <1>6, <1>7

LEMMA CutoffType == \A d \in Days \cup {NoDay} : Cutoff(d) \in Int
  BY DailyQuoteAssumption DEF Cutoff, Days, NoDay

\* What the steps of a run leave alone unless they remind.
LEMMA RemindersRest ==
  ASSUME TypeOK, NEW t \in Runs, RunStep(t) \/ Accept(t), ~Remind(t)
  PROVE  /\ UNCHANGED <<now, nudges, phase, loop, restarts>>
         /\ \A p \in Procs : mem'[p].reminded = mem[p].reminded
         /\ group.accepted => group'.accepted
<1>1. UNCHANGED <<now, nudges, phase, loop, restarts>>
  <2>1. CASE \/ CatchUpLock(t) \/ CatchUpLoad(t) \/ Start(t) \/ QueryFails(t)
             \/ ReadStale(t) \/ ForDay(t) \/ ReadWindow(t) \/ Skip(t) \/ Ask(t) \/ Clear(t)
             \/ Interrupt(t) \/ Accept(t)
    BY <2>1 DEF CatchUpLock, CatchUpLoad, Start, QueryFails, ReadStale, ForDay,
                ReadWindow, Skip, Ask, Clear, Interrupt, Accept, Finish, Drop, env, chat, procs
  <2>2. CASE \/ WriteOff(t) \/ DeleteFailed(t) \/ Create(t) \/ Copy(t) \/ Send(t) \/ SendNotice(t)
             \/ MarkPublished(t) \/ MarkNotified(t) \/ SetUnknown(t) \/ SetFailed(t)
             \/ NoticeUnknown(t) \/ NoticeFailed(t) \/ Settle(t)
    BY <2>2 DEF WriteOff, DeleteFailed, Create, Copy, Send, SendNotice, MarkPublished,
                MarkNotified, Confirm, SetUnknown, SetFailed, NoticeUnknown, NoticeFailed,
                Record, Settle, Finish, env, chat, procs
  <2> QED BY <2>1, <2>2 DEF RunStep
<1>2. \A p \in Procs : mem'[p].reminded = mem[p].reminded
  <2>1. CASE UNCHANGED mem
    BY <2>1
  <2>2. ASSUME NEW done \in BOOLEAN, Finish(t, done)
        PROVE  \A p \in Procs : mem'[p].reminded = mem[p].reminded
    BY <2>2, ProcOfRun DEF Finish, TypeOK, Memory
  <2>3. CASE CatchUpLoad(t) /\ ~UNCHANGED mem
    <3>1. PICK d : mem' = [mem EXCEPT ![Proc(t)].completed = IF @ = d THEN NoDay ELSE @,
                                      ![Proc(t)].notBefore = 0]
      BY <2>3 DEF CatchUpLoad, Drop
    <3> QED BY <3>1, ProcOfRun DEF TypeOK, Memory
  <2>4. CASE \/ CatchUpLock(t) \/ Start(t) \/ QueryFails(t)
             \/ ReadStale(t) \/ ForDay(t) \/ ReadWindow(t) \/ Skip(t) \/ Ask(t) \/ Clear(t)
             \/ Interrupt(t) \/ Accept(t)
    BY <2>1, <2>2, <2>4 DEF CatchUpLock, Start, QueryFails, ReadStale, ForDay,
                ReadWindow, Skip, Ask, Clear, Interrupt, Accept, Drop, procs, Terminal
  <2>5. CASE \/ WriteOff(t) \/ DeleteFailed(t) \/ Create(t) \/ Copy(t) \/ Send(t) \/ SendNotice(t)
             \/ MarkPublished(t) \/ MarkNotified(t) \/ SetUnknown(t) \/ SetFailed(t)
             \/ NoticeUnknown(t) \/ NoticeFailed(t) \/ Settle(t)
    BY <2>1, <2>2, <2>5 DEF WriteOff, DeleteFailed, Create, Copy, Send, SendNotice, MarkPublished,
                MarkNotified, Confirm, SetUnknown, SetFailed, NoticeUnknown, NoticeFailed,
                Record, Settle, procs
  <2> QED BY <2>1, <2>3, <2>4, <2>5 DEF RunStep
<1>3. group.accepted => group'.accepted
  <2>1. CASE UNCHANGED group
    BY <2>1
  <2>2. CASE Accept(t)
    <3>1. group'.accepted = TRUE
      BY <2>2 DEF Accept, TypeOK, GroupType
    <3> QED BY <3>1
  <2>3. CASE \/ CatchUpLock(t) \/ CatchUpLoad(t) \/ Start(t) \/ QueryFails(t)
             \/ ReadStale(t) \/ ForDay(t) \/ ReadWindow(t) \/ Skip(t) \/ Ask(t) \/ Clear(t)
             \/ Interrupt(t)
    BY <2>1, <2>3 DEF CatchUpLock, CatchUpLoad, Start, QueryFails, ReadStale, ForDay,
                ReadWindow, Skip, Ask, Clear, Interrupt, db
  <2>4. CASE \/ WriteOff(t) \/ DeleteFailed(t) \/ Create(t) \/ Copy(t) \/ Send(t) \/ SendNotice(t)
             \/ MarkPublished(t) \/ MarkNotified(t) \/ SetUnknown(t) \/ SetFailed(t)
             \/ NoticeUnknown(t) \/ NoticeFailed(t) \/ Settle(t)
    BY <2>1, <2>4 DEF WriteOff, DeleteFailed, Create, Copy, Send, SendNotice, MarkPublished,
                MarkNotified, Confirm, SetUnknown, SetFailed, NoticeUnknown, NoticeFailed,
                Record, Settle, db
  <2> QED BY <2>2, <2>3, <2>4 DEF RunStep
<1> QED BY <1>1, <1>2, <1>3

\* A catch-up run never reminds: the press it follows has accepted.
LEMMA AcceptedStep ==
  ASSUME TypeOK, CatchUpsAccepted, [Next]_vars
  PROVE  CatchUpsAccepted'
<1>1. group.accepted => group'.accepted
  <2>1. ASSUME NEW t \in Runs, Remind(t) PROVE group.accepted => group'.accepted
    <3>1. group' = group \/ group' = [group EXCEPT !.active = FALSE]
      BY <2>1 DEF Remind
    <3> QED BY <3>1 DEF TypeOK, GroupType
  <2>2. CASE ToggleNotice \/ SetActive
    BY <2>2 DEF ToggleNotice, SetActive, TypeOK, GroupType
  <2>3. CASE (\E p \in Procs : ProcStep(p)) \/ Clock \/ UNCHANGED vars
    BY <2>3 DEF ProcStep, TickList, TickCheck, TickLock, Boot, Crash, Shutdown, Exit, Forget,
                Clock, vars, db
  <2> QED BY <2>1, <2>2, <2>3, RemindersRest DEF Next
<1> DEFINE Fine(u) ==
      /\ run'[u].pc \in {"wait", "load"} => group'.accepted
      /\ run'[u].pc = "start" => run'[u].snap.accepted
      /\ run'[u].pc # "remind"
<1>2. ASSUME NEW u \in Runs, u[2] # "tick" PROVE Fine(u)
  <2>1. CASE run'[u] = run[u]
    BY <1>1, <1>2, <2>1 DEF CatchUpsAccepted
  <2>2. CASE run'[u] = IdleRun
    BY <2>2 DEF IdleRun
  <2>3. ASSUME NEW p \in Procs, TickLock(p), ~UNCHANGED run PROVE run'[u] = run[u]
    <3>1. u # TickRun(p)
      BY <1>2 DEF TickRun
    <3> QED BY <2>3, <3>1 DEF TickLock, TypeOK
  <2>4. ASSUME NEW p \in Procs, Forget(p) PROVE run'[u] \in {run[u], IdleRun}
    BY <2>4 DEF Forget
  <2>5. ASSUME NEW t \in Runs, RunStep(t) \/ Accept(t) PROVE Fine(u)
    <3>1. CASE u # t
      BY <2>1, <2>5, <3>1, RunMoves
    <3>2. CASE u = t /\ Accept(u)
      <4>1. group'.accepted
        BY <3>2 DEF Accept, TypeOK, GroupType
      <4>2. run'[u].pc = "wait"
        BY <3>2, GotoArrives DEF Accept
      <4> QED BY <4>1, <4>2
    <3>3. CASE u = t /\ CatchUpLock(u)
      <4>1. run'[u].pc = "load" /\ run[u].pc = "wait"
        BY <3>3, GotoArrives DEF CatchUpLock, At
      <4> QED BY <1>1, <1>2, <4>1 DEF CatchUpsAccepted
    <3>4. CASE u = t /\ CatchUpLoad(u) /\ run'[u] # IdleRun
      <4>1. PICK d \in ClosedToday(now) :
              run' = [run EXCEPT ![u] = [IdleRun EXCEPT !.pc = "start", !.day = d,
                        !.snap = [accepted |-> group.accepted, notice |-> group.notice]]]
        BY <3>4 DEF CatchUpLoad, Drop, TypeOK
      <4>2. PICK n : n = [accepted |-> group.accepted, notice |-> group.notice]
        OBVIOUS
      <4>3. run'[u].pc = "start" /\ run'[u].snap = n
        BY <4>1, <4>2 DEF TypeOK, IdleRun
      <4>4. run[u].pc = "load"
        BY <3>4 DEF CatchUpLoad, At
      <4> QED BY <1>2, <4>2, <4>3, <4>4 DEF CatchUpsAccepted
    <3>5. CASE u = t /\ Start(u)
      <4>1. run[u].snap.accepted
        BY <1>2, <3>5 DEF Start, At, CatchUpsAccepted
      <4>2. run'[u].pc = "stale"
        BY <3>5, <4>1, GotoArrives DEF Start
      <4> QED BY <4>2
    <3>6. CASE /\ u = t /\ run'[u] # IdleRun
               /\ ~(Accept(u) \/ CatchUpLock(u) \/ CatchUpLoad(u) \/ Start(u))
      <4>1. ~Remind(u)
        BY <1>2 DEF Remind, At, CatchUpsAccepted
      <4>2. run[u].pc \notin {"idle", "wait", "load", "start"}
        BY <2>5, <3>6, <4>1, EndOfRun
        DEF RunStep, At, QueryFails, ReadStale, WriteOff, ForDay, DeleteFailed, ReadWindow, Skip,
            Ask, Create, Copy, Send, SendNotice, MarkPublished, MarkNotified, Confirm, SetUnknown,
            SetFailed, NoticeUnknown, NoticeFailed, Record, Settle, Clear, Interrupt, Drop
      <4>3. RunMove(u)
        BY <2>5, <3>6, RunMoves
      <4> QED BY <4>2, <4>3, <3>6
              DEF RunMove, Sifts, Retries, Clears, Commits, Claims, Walk, Hop
    <3> QED BY <2>2, <2>5, <3>1, <3>2, <3>3, <3>4, <3>5, <3>6
  <2>6. CASE UNCHANGED run
    BY <2>1, <2>6
  <2> QED BY <2>1, <2>2, <2>3, <2>4, <2>5, <2>6 DEF Next, ProcStep, TickList, TickCheck, Boot,
             Crash, Shutdown, Exit, ToggleNotice, SetActive, Clock, vars
<1> QED BY <1>2 DEF CatchUpsAccepted

\* Only the tick's run of a process reminds, and it does so for the day it has.
LEMMA RemindIs ==
  ASSUME TypeOK, CatchUpsAccepted, NEW t \in Runs, Remind(t)
  PROVE  /\ t = TickRun(Proc(t)) /\ run[t].day \in Days /\ run[t].pc = "remind"
         /\ UNCHANGED <<now, phase, loop, restarts>>
         /\ run'[t].pc = "idle" /\ \A u \in Runs \ {t} : run'[u] = run[u]
         /\ \A q \in Procs \ {Proc(t)} : mem'[q] = mem[q]
         /\ \/ /\ mem[Proc(t)].reminded # run[t].day /\ mem'[Proc(t)].reminded = run[t].day
               /\ nudges' = [nudges EXCEPT ![run[t].day] = @ + 1]
            \/ /\ mem'[Proc(t)].reminded = mem[Proc(t)].reminded
               /\ nudges' = nudges \/ "unknown" \in Faults
<1> DEFINE p == Proc(t)
           d == run[t].day
<1>1. run[t].pc = "remind" /\ UNCHANGED <<now, phase, loop, restarts>> /\ d \in Days
  <2>1. run[t].pc = "remind" /\ UNCHANGED <<now, phase, loop, restarts>>
    BY DEF Remind, At, Finish, env
  <2> QED BY <2>1, DayOfRun DEF DaylessLabels
<1>2. t = TickRun(p)
  BY <1>1 DEF CatchUpsAccepted, Runs, TickRun, Proc
<1>3. run' = [run EXCEPT ![t] = IdleRun] /\ IdleRun.pc = "idle"
  BY DEF Remind, Finish, IdleRun
<1>4. run'[t].pc = "idle" /\ \A u \in Runs \ {t} : run'[u] = run[u]
  BY <1>3, EndOfRun
<1>5. mem \in [Procs -> Memory] /\ p \in Procs
  BY ProcOfRun DEF TypeOK
<1>6. ASSUME NEW done \in BOOLEAN, Finish(t, done)
      PROVE  mem'[p].reminded = mem[p].reminded /\ \A q \in Procs \ {p} : mem'[q] = mem[q]
  BY <1>5, <1>6 DEF Finish, Memory
<1>7. \/ /\ mem[p].reminded # d /\ nudges' = [nudges EXCEPT ![d] = @ + 1]
         /\ mem' = [mem EXCEPT ![p].reminded = d, ![p].completed = d]
      \/ (\E done \in BOOLEAN : Finish(t, done)) /\ (nudges' = nudges \/ "unknown" \in Faults)
  BY DEF Remind
<1>8. CASE /\ mem[p].reminded # d /\ nudges' = [nudges EXCEPT ![d] = @ + 1]
           /\ mem' = [mem EXCEPT ![p].reminded = d, ![p].completed = d]
  <2>1. mem'[p].reminded = d /\ \A q \in Procs \ {p} : mem'[q] = mem[q]
    BY <1>1, <1>5, <1>8 DEF Memory
  <2> QED BY <1>1, <1>2, <1>4, <1>8, <2>1
<1>9. CASE (\E done \in BOOLEAN : Finish(t, done)) /\ (nudges' = nudges \/ "unknown" \in Faults)
  <2>1. mem'[p].reminded = mem[p].reminded /\ \A q \in Procs \ {p} : mem'[q] = mem[q]
    BY <1>6, <1>9
  <2> QED BY <1>1, <1>2, <1>4, <1>9, <2>1
<1> QED BY <1>7, <1>8, <1>9

\* The days a process has reminded of, runs and is about to run never go back.
LEMMA OrderStep ==
  ASSUME TypeOK, LockHeld, CatchUpsAccepted, DaysInOrder, [Next]_vars
  PROVE  DaysInOrder'
<1> DEFINE Orderly(p) ==
      /\ Cutoff(mem'[p].reminded) <= now' /\ run'[TickRun(p)].pc \notin {"wait", "load"}
      /\ loop'[p].pc # "idle" => loop'[p].time <= now' /\ Cutoff(mem'[p].reminded) <= loop'[p].time
      /\ run'[TickRun(p)].pc \in {"start", "remind"} =>
           /\ mem'[p].reminded <= run'[TickRun(p)].day /\ Cutoff(run'[TickRun(p)].day) <= now'
           /\ loop'[p].pc # "idle" => Cutoff(run'[TickRun(p)].day) <= loop'[p].time
<1> SUFFICES ASSUME NEW p \in Procs PROVE Orderly(p)
  BY DEF DaysInOrder, Cutoff
<1> DEFINE t == TickRun(p)
           last == mem[p].reminded
<1>1. /\ t \in Runs /\ Proc(t) = p /\ t[2] = "tick" /\ now \in Nat /\ last \in Days \cup {NoDay}
      /\ loop[p].time \in Nat /\ Cutoff(last) \in Int
      /\ run[t].day \in Days \cup {NoDay} /\ Cutoff(run[t].day) \in Int
  <2>1. /\ t \in Runs /\ Proc(t) = p /\ t[2] = "tick" /\ now \in Nat /\ last \in Days \cup {NoDay}
        /\ loop[p].time \in Nat /\ run[t].day \in Days \cup {NoDay}
    BY DEF TypeOK, TickRun, Runs, Proc, Memory, LoopState, RunType, RunRecord
  <2> QED BY <2>1, CutoffType
<1>2. /\ Cutoff(last) <= now /\ run[t].pc \notin {"wait", "load"}
      /\ loop[p].pc # "idle" => loop[p].time <= now /\ Cutoff(last) <= loop[p].time
      /\ run[t].pc \in {"start", "remind"} =>
           /\ last <= run[t].day /\ Cutoff(run[t].day) <= now
           /\ loop[p].pc # "idle" => Cutoff(run[t].day) <= loop[p].time
  BY DEF DaysInOrder
<1> HIDE DEF last
<1>3. ASSUME mem'[p].reminded = last, loop'[p] = loop[p], now' \in {now, now + 1},
             \/ run'[t] = run[t]
             \/ run'[t].pc \notin {"start", "remind", "wait", "load"}
             \/ run[t].pc = "start" /\ run'[t].pc = "remind" /\ run'[t].day = run[t].day
      PROVE  Orderly(p)
  BY <1>1, <1>2, <1>3
<1>4. ASSUME NEW u \in Runs, RunStep(u) \/ Accept(u) PROVE Orderly(p)
  <2>1. CASE Remind(u) /\ Proc(u) # p
    <3>1. u # t /\ mem'[p] = mem[p]
      BY <1>1, <2>1, RemindIs
    <3> QED BY <1>1, <1>3, <2>1, <3>1, RemindIs DEF last
  <2>2. CASE Remind(u) /\ Proc(u) = p
    <3>1. /\ u = t /\ run[t].pc = "remind" /\ UNCHANGED <<now, loop>> /\ run'[t].pc = "idle"
          /\ mem'[p].reminded \in {last, run[t].day}
      BY <2>2, RemindIs DEF last
    <3> QED BY <1>2, <3>1
  <2>3. CASE ~Remind(u)
    <3>1. mem'[p].reminded = last /\ loop'[p] = loop[p] /\ now' = now
      BY <1>4, <2>3, RemindersRest DEF last
    <3>2. \/ run'[t] = run[t]
          \/ run'[t].pc \notin {"start", "remind", "wait", "load"}
          \/ run[t].pc = "start" /\ run'[t].pc = "remind" /\ run'[t].day = run[t].day
      <4>1. CASE u # t
        BY <1>1, <1>4, <4>1, RunMoves
      <4>2. CASE u = t /\ ~Accept(t)
        <5>1. RunMove(t)
          BY <1>4, <4>2, RunMoves
        <5>2. run[t].pc # "idle"
          BY <1>4, <4>2, EndOfRun
          DEF RunStep, At, CatchUpLock, CatchUpLoad, Start, Remind, QueryFails, ReadStale, WriteOff,
              ForDay, DeleteFailed, ReadWindow, Skip, Ask, Create, Copy, Send, SendNotice,
              MarkPublished, MarkNotified, Confirm, SetUnknown, SetFailed, NoticeUnknown,
              NoticeFailed, Record, Settle, Clear, Interrupt
        <5>3. CASE run'[t] = IdleRun
          BY <5>3 DEF IdleRun
        <5> QED BY <1>2, <5>1, <5>2, <5>3
                DEF RunMove, Begins, Sifts, Retries, Clears, Commits, Claims, Walk, Walks, Hop
      <4>3. ~Accept(t)
        BY <1>1 DEF Accept
      <4> QED BY <4>1, <4>2, <4>3
    <3> QED BY <1>1, <1>3, <3>1, <3>2
  <2> QED BY <2>1, <2>2, <2>3
<1>5. ASSUME NEW q \in Procs, Forget(q), now' = now PROVE Orderly(p)
  <2>1. CASE q = p
    <3>1. run'[t].pc = "idle" /\ loop'[p].pc = "idle" /\ mem'[p].reminded = 0
      BY <1>1, <1>5, <2>1 DEF Forget, IdleRun, IdleLoop, NoMemory, NoDay, TypeOK
    <3>2. Cutoff(0) <= now
      <4>1. Cutoff(0) = -DayLength
        BY DailyQuoteAssumption DEF Cutoff
      <4> QED BY <1>1, <4>1, DailyQuoteAssumption
    <3> QED BY <1>5, <3>1, <3>2
  <2>2. CASE q # p
    <3>1. run'[t] = run[t] /\ loop'[p] = loop[p] /\ mem'[p].reminded = last
      BY <1>1, <1>5, <2>2 DEF Forget, TypeOK, last
    <3> QED BY <1>1, <1>3, <1>5, <3>1
  <2> QED BY <2>1, <2>2
<1>6. ASSUME NEW q \in Procs, TickList(q) \/ TickCheck(q) \/ Shutdown(q) PROVE Orderly(p)
  <2>1. mem' = mem /\ run' = run /\ now' = now
    BY <1>6 DEF TickList, TickCheck, Shutdown, env
  <2>2. CASE loop'[p] = loop[p]
    BY <1>1, <1>3, <2>1, <2>2 DEF last
  <2>3. CASE loop'[p].pc = "idle"
    BY <1>1, <1>2, <2>1, <2>3 DEF last
  <2>4. CASE loop'[p].time = now
    BY <1>1, <1>2, <2>1, <2>4 DEF last
  <2>5. CASE loop[p].pc = "listed" /\ loop'[p].time = loop[p].time
    BY <1>1, <1>2, <2>1, <2>5 DEF last
  <2>6. \/ loop'[p] = loop[p] \/ loop'[p].pc = "idle" \/ loop'[p].time = now
        \/ (loop[p].pc = "listed" /\ loop'[p].time = loop[p].time)
    <3>1. CASE TickList(q)
      BY <3>1 DEF TickList, TypeOK
    <3>2. CASE TickCheck(q)
      BY <3>2 DEF TickCheck, TypeOK, LoopState, IdleLoop
    <3>3. CASE Shutdown(q)
      BY <3>3 DEF Shutdown, TypeOK, IdleLoop
    <3> QED BY <1>6, <3>1, <3>2, <3>3
  <2> QED BY <2>2, <2>3, <2>4, <2>5, <2>6
<1>7. ASSUME NEW q \in Procs, TickLock(q) PROVE Orderly(p)
  <2>1. mem' = mem /\ now' = now
    BY <1>7 DEF TickLock, env
  <2>2. CASE q # p
    <3>1. loop'[p] = loop[p] /\ TickRun(q) # t
      BY <1>7, <2>2 DEF TickLock, TypeOK, TickRun
    <3>2. run'[t] = run[t]
      BY <1>1, <1>7, <3>1 DEF TickLock, TypeOK
    <3> QED BY <1>1, <1>3, <2>1, <3>1, <3>2 DEF last
  <2>3. CASE q = p
    <3>1. loop'[p].pc = "idle" /\ loop[p].pc = "checked"
      BY <1>7, <2>3 DEF TickLock, TypeOK, IdleLoop
    <3>2. CASE run' = run
      BY <1>1, <1>2, <2>1, <3>1, <3>2 DEF last
    <3>3. CASE run' # run
      <4>1. PICK d \in DueDays(loop[p].time) : \E n \in {loop[p].snap} :
              run' = [run EXCEPT ![t] = [IdleRun EXCEPT !.pc = "start", !.day = d, !.snap = n]]
        BY <1>7, <2>3, <3>3 DEF TickLock
      <4>2. run'[t].pc = "start" /\ run'[t].day = d
        BY <1>1, <4>1 DEF TypeOK, IdleRun
      <4>3. last <= d
        BY <1>1, <1>2, <3>1, DueIsLast
      <4>4. d \in Days /\ Cutoff(d) <= loop[p].time
        BY DEF DueDays
      <4>5. Cutoff(d) \in Int
        BY <4>4, CutoffType
      <4> QED BY <1>1, <1>2, <2>1, <3>1, <4>2, <4>3, <4>4, <4>5 DEF last
    <3> QED BY <3>2, <3>3
  <2> QED BY <2>2, <2>3
<1>8. ASSUME UNCHANGED <<mem, loop, run>>, now' \in {now, now + 1} PROVE Orderly(p)
  BY <1>1, <1>3, <1>8 DEF last
<1>9. CASE ToggleNotice \/ SetActive \/ Clock \/ UNCHANGED vars \/ \E q \in Procs : Boot(q)
  BY <1>8, <1>9 DEF ToggleNotice, SetActive, Clock, vars, procs, env, Boot
<1>10. ASSUME NEW q \in Procs, Crash(q) \/ Exit(q) PROVE Orderly(p)
  BY <1>5, <1>10 DEF Crash, Exit, Forget, env
<1> QED BY <1>4, <1>6, <1>7, <1>9, <1>10 DEF Next, ProcStep

\* Within one process start a day is reminded of at most once: the process
\* remembers the last day, and only a stop or a crash makes it forget.
LEMMA CountStep ==
  ASSUME OneProcess, TypeOK, LockHeld, CatchUpsAccepted, DaysInOrder, NudgesCounted, [Next]_vars
  PROVE  NudgesCounted'
<1> DEFINE Seen(p, d) == IF mem[p].reminded < d THEN 1 ELSE 0
           Stopping(p) == IF phase[p] = "stopping" THEN 1 ELSE 0
<1> SUFFICES ASSUME "unknown" \notin Faults, NEW p \in Procs, NEW d \in Days
             PROVE  nudges'[d] + Seen(p, d)' <= 1 + restarts' - Stopping(p)'
  BY DEF NudgesCounted
<1>1. /\ nudges[d] + Seen(p, d) <= 1 + restarts - Stopping(p)
      /\ nudges[d] \in Nat /\ restarts \in Nat /\ d \in Nat \ {0} /\ mem[p].reminded \in Nat
      /\ \A q \in Procs : q = p
  BY DEF NudgesCounted, TypeOK, Memory, Days, NoDay, OneProcess
<1>2. ASSUME nudges'[d] = nudges[d], mem'[p].reminded = mem[p].reminded,
             restarts' = restarts, phase'[p] = phase[p] \/ phase'[p] # "stopping"
      PROVE  nudges'[d] + Seen(p, d)' <= 1 + restarts' - Stopping(p)'
  BY <1>1, <1>2
<1>3. ASSUME NEW t \in Runs, Remind(t)
      PROVE  nudges'[d] + Seen(p, d)' <= 1 + restarts' - Stopping(p)'
  <2>1. /\ Proc(t) = p /\ t = TickRun(p) /\ run[t].pc = "remind" /\ run[t].day \in Days
        /\ restarts' = restarts /\ phase' = phase
    BY <1>1, <1>3, RemindIs, ProcOfRun
  <2>2. CASE nudges' = nudges /\ mem'[p].reminded = mem[p].reminded
    BY <1>2, <2>1, <2>2
  <2>3. CASE /\ mem[p].reminded # run[t].day /\ mem'[p].reminded = run[t].day
             /\ nudges' = [nudges EXCEPT ![run[t].day] = @ + 1]
    <3>1. mem[p].reminded < run[t].day /\ run[t].day \in Nat
      BY <1>1, <2>1, <2>3 DEF DaysInOrder, Days
    <3>2. CASE d = run[t].day
      <4>1. nudges'[d] = nudges[d] + 1 /\ Seen(p, d) = 1 /\ Seen(p, d)' = 0
        BY <1>1, <2>3, <3>1, <3>2 DEF TypeOK
      <4> QED BY <1>1, <2>1, <4>1
    <3>3. CASE d # run[t].day
      <4>1. nudges'[d] = nudges[d]
        BY <2>1, <2>3, <3>3 DEF TypeOK
      <4> QED BY <1>1, <2>1, <2>3, <3>1, <4>1
    <3> QED BY <3>2, <3>3
  <2> QED BY <1>3, <2>1, <2>2, <2>3, RemindIs
<1>4. ASSUME NEW t \in Runs, RunStep(t) \/ Accept(t), ~Remind(t)
      PROVE  nudges'[d] + Seen(p, d)' <= 1 + restarts' - Stopping(p)'
  BY <1>2, <1>4, RemindersRest
<1>5. ASSUME Forget(p), nudges' = nudges, restarts' \in {restarts, restarts + 1},
             restarts' = restarts + 1 \/ phase[p] = "stopping"
      PROVE  nudges'[d] + Seen(p, d)' <= 1 + restarts' - Stopping(p)'
  <2>1. Seen(p, d)' = 1 /\ Stopping(p)' = 0
    BY <1>1, <1>5 DEF Forget, NoMemory, NoDay, TypeOK
  <2> QED BY <1>1, <1>5, <2>1
<1>6. ASSUME NEW q \in Procs, Crash(q) \/ Exit(q)
      PROVE  nudges'[d] + Seen(p, d)' <= 1 + restarts' - Stopping(p)'
  BY <1>1, <1>5, <1>6 DEF Crash, Exit, Forget, chat
<1>7. ASSUME NEW q \in Procs, Shutdown(q)
      PROVE  nudges'[d] + Seen(p, d)' <= 1 + restarts' - Stopping(p)'
  <2>1. /\ phase[p] = "up" /\ restarts' = restarts + 1 /\ nudges' = nudges /\ mem' = mem
        /\ phase'[p] = "stopping"
    BY <1>1, <1>7 DEF Shutdown, chat, TypeOK
  <2>2. Stopping(p) = 0 /\ Stopping(p)' = 1
    BY <2>1
  <2> QED BY <1>1, <2>1, <2>2
<1>8. ASSUME NEW q \in Procs, TickList(q) \/ TickCheck(q) \/ TickLock(q) \/ Boot(q)
      PROVE  nudges'[d] + Seen(p, d)' <= 1 + restarts' - Stopping(p)'
  <2>1. /\ nudges' = nudges /\ mem' = mem /\ restarts' = restarts
        /\ phase'[p] = phase[p] \/ phase'[p] # "stopping"
    BY <1>8 DEF TickList, TickCheck, TickLock, Boot, chat, env, TypeOK
  <2> QED BY <1>2, <2>1
<1>9. CASE ToggleNotice \/ SetActive \/ Clock \/ UNCHANGED vars
  BY <1>2, <1>9 DEF ToggleNotice, SetActive, Clock, vars, procs, chat
<1> QED BY <1>3, <1>4, <1>6, <1>7, <1>8, <1>9 DEF Next, ProcStep

\* One process reminds of a day at most once per start.
THEOREM NudgedOnce == OneProcess => (Spec => []NudgedOncePerStart)
<1> SUFFICES ASSUME OneProcess PROVE Spec => []NudgedOncePerStart
  OBVIOUS
<1> DEFINE Inv == TypeOK /\ ReminderInv
<1>1. Init => Inv
  <2> SUFFICES ASSUME Init PROVE ReminderInv
    BY TypeInit
  <2>1. \A t \in Runs : run[t] = IdleRun
    BY DEF Init
  <2>2. LockHeld /\ CatchUpsAccepted
    BY <2>1 DEF LockHeld, Busy, CatchUpsAccepted, IdleRun
  <2>3. \A p \in Procs : mem[p].reminded = 0 /\ loop[p].pc = "idle" /\ phase[p] = "down"
    BY DEF Init, NoMemory, NoDay, IdleLoop
  <2>4. Cutoff(0) <= now /\ now = 0
    <3>1. Cutoff(0) = -DayLength
      BY DailyQuoteAssumption DEF Cutoff
    <3> QED BY <3>1, DailyQuoteAssumption DEF Init
  <2>5. \A p \in Procs : TickRun(p) \in Runs
    BY DEF TickRun, Runs
  <2>6. DaysInOrder
    BY <2>1, <2>3, <2>4, <2>5 DEF DaysInOrder, IdleRun
  <2>7. NudgesCounted
    BY <2>3 DEF Init, NudgesCounted, Days
  <2> QED BY <2>2, <2>6, <2>7 DEF ReminderInv
<1>2. Inv /\ [Next]_vars => Inv'
  <2> SUFFICES ASSUME Inv, [Next]_vars PROVE Inv'
    OBVIOUS
  <2> QED BY TypeNext, LockStep, AcceptedStep, OrderStep, CountStep DEF ReminderInv
<1>3. Inv => NudgedOncePerStart
  <2> SUFFICES ASSUME Inv, "unknown" \notin Faults, NEW d \in Days
               PROVE  nudges[d] <= 1 + restarts
    BY DEF NudgedOncePerStart
  <2>1. PICK p \in Procs : TRUE
    BY DEF OneProcess
  <2> QED BY <2>1 DEF ReminderInv, NudgesCounted, TypeOK
<1> QED BY <1>1, <1>2, <1>3, PTL DEF Spec

===============================================================================
