--------------------------- MODULE DailyQuoteProofs ---------------------------
(***************************************************************************)
(* What DailyQuote guarantees for any number of processes, presses, days,  *)
(* restarts and every combination of faults.                               *)
(***************************************************************************)
EXTENDS DailyQuoteInv, TLAPS

(***************************************************************************)
(* Type correctness.                                                       *)
(***************************************************************************)

\* A run belongs to a process.
LEMMA ProcOfRun == \A t \in Runs : Proc(t) \in Procs
  BY DEF Runs, Proc

\* The record of a run that does nothing has the type of a run.
LEMMA IdleRunType == IdleRun \in RunType
<1>1. NoRow \in Row /\ NoSnapshot \in Snapshot
  BY DEF NoRow, Row, NoSnapshot, Snapshot
<1>2. IdleRun \in RunRecord
  BY <1>1 DEF IdleRun, RunRecord, Labels, NoDay, Verdicts
<1> QED BY <1>2 DEF IdleRun, RunType, DaylessLabels

\* What the two endings of a run do to the types.
LEMMA FinishType ==
  ASSUME NEW t \in Runs, NEW done \in BOOLEAN, TypeOK, Finish(t, done)
  PROVE  /\ run' \in [Runs -> RunType]
         /\ lock' \in [Procs -> Runs \cup {NoRun}]
         /\ mem' \in [Procs -> Memory]
         /\ phase' = phase /\ loop' = loop /\ restarts' = restarts
<1>1. run' \in [Runs -> RunType]
  BY IdleRunType DEF TypeOK, Finish
<1>2. lock' \in [Procs -> Runs \cup {NoRun}]
  BY ProcOfRun DEF TypeOK, Finish
<1>3. mem' \in [Procs -> Memory]
  <2>1. run[t].day \in Days \cup {NoDay}
    BY DEF TypeOK, RunType, RunRecord
  <2>2. now + RetryAfter \in Nat
    BY DailyQuoteAssumption DEF TypeOK
  <2>3. [mem[Proc(t)] EXCEPT !.completed = run[t].day] \in Memory
    BY <2>1, ProcOfRun DEF TypeOK, Memory
  <2>4. [mem[Proc(t)] EXCEPT !.notBefore = now + RetryAfter] \in Memory
    BY <2>2, ProcOfRun DEF TypeOK, Memory
  <2> QED BY <2>3, <2>4, ProcOfRun DEF TypeOK, Finish
<1> QED BY <1>1, <1>2, <1>3 DEF Finish

LEMMA DropType ==
  ASSUME NEW t \in Runs, TypeOK, Drop(t)
  PROVE  /\ run' \in [Runs -> RunType]
         /\ lock' \in [Procs -> Runs \cup {NoRun}]
  BY IdleRunType, ProcOfRun DEF TypeOK, Drop

\* Moving a run to another step keeps its type.
LEMMA GotoType ==
  ASSUME NEW t \in Runs, NEW l \in Labels, TypeOK, Goto(t, l),
         l \in DaylessLabels \/ run[t].pc \notin DaylessLabels
  PROVE  run' \in [Runs -> RunType]
  BY DEF TypeOK, Goto, RunType, RunRecord

\* A row that is updated stays a row.
LEMMA WithStatusType ==
  ASSUME TypeOK, NEW r \in Row, NEW status \in Statuses, NEW msg \in BOOLEAN
  PROVE  WithStatus(r, status, msg) \in Row
  BY DEF TypeOK, Row, WithStatus

LEMMA UpdatedRowType ==
  ASSUME NEW t \in Runs, NEW status \in Statuses, NEW msg \in BOOLEAN, TypeOK,
         run[t].day \in Days
  PROVE  UpdatedRow(t, status, msg) \in [Days -> Row]
  BY WithStatusType DEF TypeOK, UpdatedRow

\* The days a clock reading selects are days.
LEMMA CalendarType == \A t : DueDays(t) \subseteq Days /\ ClosedToday(t) \subseteq Days
  BY DEF DueDays, ClosedToday

\* A run at its first step has the type of a run.
LEMMA StartedType ==
  ASSUME NEW d \in Days, NEW s \in Snapshot
  PROVE  [IdleRun EXCEPT !.pc = "start", !.day = d, !.snap = s] \in RunType
  BY IdleRunType DEF RunType, RunRecord, Labels, IdleRun

LEMMA TypeInit == Init => TypeOK
<1> SUFFICES ASSUME Init PROVE TypeOK
  OBVIOUS
<1>1. NoRow \in Row /\ NoMemory \in Memory /\ IdleLoop \in LoopState
  BY DEF NoRow, Row, NoMemory, Memory, NoDay, IdleLoop, LoopState, NoSnapshot, Snapshot
<1>2. group \in GroupType
  BY DEF Init, GroupType
<1>3. lock \in [Procs -> Runs \cup {NoRun}] /\ run \in [Runs -> RunType]
  BY IdleRunType DEF Init
<1> QED BY <1>1, <1>2, <1>3 DEF Init, TypeOK

LEMMA TypeProc ==
  ASSUME TypeOK, NEW p \in Procs, ProcStep(p)
  PROVE  TypeOK'
<1>1. CASE TickList(p)
  <2>1. [pc |-> "listed", time |-> now,
         snap |-> [accepted |-> group.accepted, notice |-> group.notice]] \in LoopState
    BY DEF TypeOK, LoopState, Snapshot, GroupType
  <2> QED BY <1>1, <2>1 DEF TickList, TypeOK, db, chat, env
<1>2. CASE TickCheck(p)
  BY <1>2 DEF TickCheck, TypeOK, db, chat, env, LoopState, IdleLoop, NoSnapshot, Snapshot
<1>3. CASE TickLock(p)
  <2>1. TickRun(p) \in Runs
    BY DEF TickRun, Runs
  <2>2. loop' \in [Procs -> LoopState]
    BY <1>3 DEF TickLock, TypeOK, LoopState, IdleLoop, NoSnapshot, Snapshot
  <2>3. lock' \in [Procs -> Runs \cup {NoRun}]
    BY <1>3, <2>1 DEF TickLock, TypeOK
  <2>4. run' \in [Runs -> RunType]
    <3>1. loop[p].snap \in Snapshot
      BY DEF TypeOK, LoopState
    <3>2. \A d \in DueDays(loop[p].time) :
            [IdleRun EXCEPT !.pc = "start", !.day = d, !.snap = loop[p].snap] \in RunType
      BY <3>1, StartedType, CalendarType
    <3>3. CASE lock[p] = NoRun
      <4>1. PICK d \in DueDays(loop[p].time) :
              run' = [run EXCEPT ![TickRun(p)] =
                [IdleRun EXCEPT !.pc = "start", !.day = d, !.snap = loop[p].snap]]
        BY <1>3, <3>3 DEF TickLock
      <4> DEFINE r == [IdleRun EXCEPT !.pc = "start", !.day = d, !.snap = loop[p].snap]
      <4>2. r \in RunType
        BY <3>2
      <4>3. run' = [run EXCEPT ![TickRun(p)] = r]
        BY <4>1
      <4> HIDE DEF r
      <4> QED BY <2>1, <4>2, <4>3 DEF TypeOK
    <3>4. CASE lock[p] # NoRun
      BY <1>3, <3>4 DEF TickLock, TypeOK
    <3> QED BY <3>3, <3>4
  <2> QED BY <1>3, <2>2, <2>3, <2>4 DEF TickLock, TypeOK, db, chat, env
<1>4. CASE Boot(p)
  BY <1>4 DEF Boot, TypeOK, db, chat, env
<1>5. ASSUME Forget(p), restarts' \in Nat PROVE TypeOK'
  <2>1. run' \in [Runs -> RunType]
    BY <1>5, IdleRunType DEF Forget, TypeOK
  <2> QED BY <1>5, <2>1 DEF Forget, TypeOK, db, chat, env, NoMemory, Memory, NoDay, IdleLoop,
             LoopState, NoSnapshot, Snapshot
<1>6. CASE Crash(p)
  BY <1>5, <1>6 DEF Crash, TypeOK
<1>7. CASE Shutdown(p)
  BY <1>7 DEF Shutdown, TypeOK, db, chat, env, IdleLoop, LoopState, NoSnapshot, Snapshot
<1>8. CASE Exit(p)
  BY <1>5, <1>8 DEF Exit, TypeOK
<1> QED BY <1>1, <1>2, <1>3, <1>4, <1>6, <1>7, <1>8 DEF ProcStep

\* A run past its lock works on a day that has a row or NoRow.
LEMMA DayOfRun ==
  ASSUME TypeOK, NEW t \in Runs, run[t].pc \notin DaylessLabels
  PROVE  run[t].day \in Days /\ row[run[t].day] \in Row
  BY DEF TypeOK, RunType

\* The variables a run touches before it asks the AI keep their types.
LEMMA TypeEarly ==
  ASSUME TypeOK, NEW t \in Runs,
         \/ CatchUpLock(t) \/ CatchUpLoad(t) \/ Start(t) \/ QueryFails(t) \/ ReadStale(t)
         \/ ReadWindow(t) \/ Skip(t) \/ Ask(t) \/ Clear(t) \/ Interrupt(t)
  PROVE  TypeOK'
<1> USE DEF At
<1>1. CASE CatchUpLock(t)
  <2>1. run' \in [Runs -> RunType]
    BY <1>1, GotoType DEF CatchUpLock, Labels, DaylessLabels
  <2> QED BY <1>1, <2>1, ProcOfRun DEF CatchUpLock, TypeOK, env, db, chat
<1>2. CASE CatchUpLoad(t)
  <2>1. CASE Drop(t)
    BY <1>2, <2>1, DropType DEF CatchUpLoad, Drop, TypeOK, env, db, chat
  <2>2. CASE ~Drop(t)
    <3>1. PICK d \in ClosedToday(now) :
            /\ run' = [run EXCEPT ![t] = [IdleRun EXCEPT
                 !.pc = "start", !.day = d,
                 !.snap = [accepted |-> group.accepted, notice |-> group.notice]]]
            /\ mem' = [mem EXCEPT ![Proc(t)].completed = IF @ = d THEN NoDay ELSE @,
                                  ![Proc(t)].notBefore = 0]
            /\ UNCHANGED <<phase, lock, loop, restarts>>
      BY <1>2, <2>2 DEF CatchUpLoad
    <3>2. d \in Days
      BY CalendarType
    <3> DEFINE s == [accepted |-> group.accepted, notice |-> group.notice]
               r == [IdleRun EXCEPT !.pc = "start", !.day = d, !.snap = s]
    <3>3. s \in Snapshot
      BY DEF TypeOK, GroupType, Snapshot
    <3> HIDE DEF s
    <3>4. r \in RunType
      BY <3>2, <3>3, StartedType
    <3>5. run' = [run EXCEPT ![t] = r]
      BY <3>1 DEF s
    <3> HIDE DEF r
    <3>6. run' \in [Runs -> RunType]
      BY <3>4, <3>5 DEF TypeOK
    <3>7. mem' \in [Procs -> Memory]
      <4>1. mem \in [Procs -> Memory]
        BY DEF TypeOK
      <4> QED BY <4>1, <3>1, <3>2, ProcOfRun DEF Memory
    <3> QED BY <1>2, <3>1, <3>6, <3>7 DEF CatchUpLoad, TypeOK, env, db, chat
  <2> QED BY <2>1, <2>2
<1>3. CASE Start(t)
  <2>1. run' \in [Runs -> RunType]
    BY <1>3, GotoType DEF Start, Labels, DaylessLabels
  <2> QED BY <1>3, <2>1 DEF Start, TypeOK, env, db, chat, procs
<1>4. CASE QueryFails(t)
  BY <1>4, FinishType DEF QueryFails, TypeOK, env, db, chat
<1>5. CASE ReadStale(t)
  <2>1. StaleRows \in SUBSET StaleEntry
    BY DEF StaleRows, StaleEntry, TypeOK, Row
  <2>2. run' \in [Runs -> RunType]
    <3> DEFINE l == IF StaleRows = {} THEN "forDay" ELSE "writeOff"
    <3>1. run' = [run EXCEPT ![t].stale = StaleRows, ![t].pc = l]
      BY <1>5 DEF ReadStale
    <3>2. l \in Labels /\ run[t].day \in Days
      BY <1>5, DayOfRun DEF ReadStale, Labels, DaylessLabels
    <3>3. run \in [Runs -> RunType]
      BY DEF TypeOK
    <3> HIDE DEF l
    <3> QED BY <2>1, <3>1, <3>2, <3>3 DEF RunType, RunRecord
  <2> QED BY <1>5, <2>2 DEF ReadStale, TypeOK, env, db, chat, procs
<1>6. CASE ReadWindow(t)
  <2>1. CASE Finish(t, TRUE)
    BY <1>6, <2>1, FinishType DEF ReadWindow, TypeOK, env, db, chat
  <2>2. CASE ~Finish(t, TRUE)
    <3>1. run' \in [Runs -> RunType]
      BY <1>6, <2>2, GotoType DEF ReadWindow, Labels, DaylessLabels
    <3> QED BY <1>6, <2>2, <3>1 DEF ReadWindow, TypeOK, env, db, chat, procs
  <2> QED BY <2>1, <2>2
<1>7. CASE Skip(t)
  <2>1. PICK o \in WriteOutcomes :
          /\ win' = IF Applied(o) THEN [win EXCEPT ![run[t].day] = "empty"] ELSE win
          /\ Finish(t, o = "ok")
    BY <1>7 DEF Skip
  <2>2. win' \in [Days -> {"empty", "few", "enough"}]
    BY <2>1 DEF TypeOK
  <2> QED BY <1>7, <2>1, <2>2, FinishType DEF Skip, TypeOK, env, chat
<1>8. CASE Ask(t)
  <2>1. CASE Finish(t, TRUE)
    BY <1>8, <2>1, FinishType DEF Ask, TypeOK, env, db, chat
  <2>2. CASE ~Finish(t, TRUE)
    <3>1. now + PublishTimeout \in Nat
      BY DailyQuoteAssumption DEF TypeOK
    <3>2. run' \in [Runs -> RunType]
      <4>1. PICK v \in Verdicts : run' = [run EXCEPT ![t].pc = "create", ![t].verdict = v,
                                                    ![t].deadline = now + PublishTimeout]
        BY <1>8, <2>2 DEF Ask
      <4>2. "create" \in Labels /\ run[t].day \in Days
        BY <1>8, DayOfRun DEF Ask, Labels, DaylessLabels
      <4>3. run \in [Runs -> RunType]
        BY DEF TypeOK
      <4> QED BY <3>1, <4>1, <4>2, <4>3 DEF RunType, RunRecord
    <3> QED BY <1>8, <2>2, <3>2 DEF Ask, TypeOK, env, db, chat, procs
  <2> QED BY <2>1, <2>2
<1>9. CASE Clear(t)
  <2>1. win' \in [Days -> {"empty", "few", "enough"}]
    BY <1>9 DEF Clear, TypeOK
  <2> QED BY <1>9, <2>1, FinishType DEF Clear, TypeOK, env, chat
<1>10. CASE Interrupt(t)
  BY <1>10, DropType DEF Interrupt, Drop, TypeOK, env, db, chat
<1> QED BY <1>1, <1>2, <1>3, <1>4, <1>5, <1>6, <1>7, <1>8, <1>9, <1>10

\* The same for the steps around the rows.
LEMMA TypeRows ==
  ASSUME TypeOK, NEW t \in Runs,
         WriteOff(t) \/ ForDay(t) \/ DeleteFailed(t) \/ Create(t) \/ Settle(t)
  PROVE  TypeOK'
<1> USE DEF At
<1>0. NoRow \in Row /\ run \in [Runs -> RunType] /\ row \in [Days -> Row]
  BY DEF NoRow, Row, TypeOK
<1>l. {"delete", "notice", "settle", "readWindow"} \subseteq Labels
  BY DEF Labels
<1>1. CASE WriteOff(t)
  <2>1. PICK e \in run[t].stale, o \in WriteOutcomes :
          /\ row' = IF Applied(o) /\ row[e.day].id = e.id
                    THEN [row EXCEPT ![e.day] = WithStatus(@, e.to, FALSE)]
                    ELSE row
          /\ IF o = "ok"
             THEN /\ run' = [run EXCEPT ![t].stale = @ \ {e},
                               ![t].pc = IF run[t].stale = {e} THEN "forDay" ELSE @]
                  /\ UNCHANGED procs
             ELSE Finish(t, FALSE)
    BY <1>1 DEF WriteOff
  <2>2. e.day \in Days /\ e.to \in Statuses
    BY <1>0 DEF RunType, RunRecord, StaleEntry, Statuses, QuoteStatuses, NoticeStatuses
  <2>3. row' \in [Days -> Row]
    BY <1>0, <2>1, <2>2, WithStatusType
  <2>4. CASE o = "ok"
    <3>1. run[t].day \in Days /\ "forDay" \in Labels /\ "writeOff" \in Labels
      BY <1>1, DayOfRun DEF WriteOff, Labels, DaylessLabels
    <3>2. run' \in [Runs -> RunType]
      BY <1>0, <1>1, <2>1, <2>4, <3>1 DEF WriteOff, RunType, RunRecord
    <3> QED BY <1>1, <2>1, <2>3, <2>4, <3>2 DEF WriteOff, TypeOK, env, chat, procs
  <2>5. CASE o # "ok"
    BY <1>1, <2>1, <2>3, <2>5, FinishType DEF WriteOff, TypeOK, env, chat
  <2> QED BY <2>4, <2>5
<1>2. CASE ForDay(t)
  <2>1. run[t].day \in Days /\ row[run[t].day] \in Row
    BY <1>2, DayOfRun DEF ForDay, DaylessLabels
  <2>2. CASE \E done \in BOOLEAN : Finish(t, done)
    BY <1>2, <2>2, FinishType DEF ForDay, TypeOK, env, db, chat
  <2>3. CASE ~\E done \in BOOLEAN : Finish(t, done)
    <3>1. run' \in [Runs -> RunType]
      <4>1. Terminal(row[run[t].day]) \in BOOLEAN
        BY DEF Terminal
      <4>2. CASE Goto(t, "readWindow")
        BY <1>2, <4>2, GotoType DEF ForDay, Labels, DaylessLabels
      <4>3. CASE run' = [run EXCEPT ![t].pc = "delete", ![t].q = row[run[t].day]]
        BY <1>0, <1>l, <2>1, <4>3 DEF RunType, RunRecord
      <4>4. CASE run' = [run EXCEPT ![t].pc = IF run[t].snap.notice THEN "notice" ELSE "settle",
                              ![t].q = row[run[t].day], ![t].deadline = now + PublishTimeout]
        <5>1. now + PublishTimeout \in Nat
          BY DailyQuoteAssumption DEF TypeOK
        <5> DEFINE l == IF run[t].snap.notice THEN "notice" ELSE "settle"
                   q == row[run[t].day]
                   n == now + PublishTimeout
        <5>2. l \in Labels /\ q \in Row /\ n \in Nat /\ run[t].day \in Days
          BY <1>l, <2>1, <5>1
        <5>3. run' = [run EXCEPT ![t].pc = l, ![t].q = q, ![t].deadline = n]
          BY <4>4
        <5>4. run \in [Runs -> RunType]
          BY <1>0
        <5> HIDE DEF l, q, n
        <5> QED BY <5>2, <5>3, <5>4 DEF RunType, RunRecord
      <4> QED BY <1>2, <2>3, <4>1, <4>2, <4>3, <4>4 DEF ForDay
    <3> QED BY <1>2, <2>3, <3>1 DEF ForDay, TypeOK, env, db, chat, procs, Terminal
  <2> QED BY <2>2, <2>3
<1>3. CASE DeleteFailed(t)
  <2>1. run[t].day \in Days
    BY <1>3, DayOfRun DEF DeleteFailed, DaylessLabels
  <2>2. row' \in [Days -> Row]
    BY <1>0, <1>3 DEF DeleteFailed
  <2>3. CASE Finish(t, FALSE)
    BY <1>3, <2>2, <2>3, FinishType DEF DeleteFailed, TypeOK, env, chat
  <2>4. CASE run' = [run EXCEPT ![t].pc = "readWindow", ![t].q = NoRow] /\ UNCHANGED procs
    <3>1. run' \in [Runs -> RunType]
      BY <1>0, <1>l, <2>1, <2>4 DEF RunType, RunRecord
    <3> QED BY <1>3, <2>2, <2>4, <3>1 DEF DeleteFailed, TypeOK, env, chat, procs
  <2> QED BY <1>3, <2>3, <2>4 DEF DeleteFailed
<1>4. CASE Create(t)
  <2> DEFINE new == [id |-> nextId, status |-> FirstStatus(t), changed |-> now, msg |-> FALSE]
  <2>1. run[t].day \in Days
    BY <1>4, DayOfRun DEF Create, DaylessLabels
  <2>2. new \in Row
    BY DEF FirstStatus, Row, Statuses, QuoteStatuses, NoticeStatuses, TypeOK
  <2>3. row' \in [Days -> Row] /\ nextId' \in Nat \ {0}
    <3>1. row' = row \/ row' = [row EXCEPT ![run[t].day] = new]
      BY <1>4 DEF Create
    <3>2. nextId' = nextId \/ nextId' = nextId + 1
      BY <1>4 DEF Create
    <3> HIDE DEF new
    <3> QED BY <1>0, <2>2, <3>1, <3>2 DEF TypeOK
  <2>4. CASE Finish(t, FALSE)
    BY <1>4, <2>3, <2>4, FinishType DEF Create, TypeOK, env, chat
  <2>5. CASE ~Finish(t, FALSE)
    <3>1. PICK l \in AfterCreate(t) :
            run' = [run EXCEPT ![t].pc = l, ![t].q = new] /\ UNCHANGED procs
      BY <1>4, <2>5 DEF Create
    <3>2. l \in Labels
      BY <3>1 DEF AfterCreate, Labels
    <3> HIDE DEF new
    <3>3. run' \in [Runs -> RunType]
      BY <1>0, <2>1, <2>2, <3>1, <3>2 DEF RunType, RunRecord
    <3> QED BY <1>4, <2>3, <3>1, <3>3 DEF Create, TypeOK, env, chat, procs
  <2> QED BY <2>4, <2>5
<1>5. CASE Settle(t)
  <2>1. run[t].day \in Days
    BY <1>5, DayOfRun DEF Settle, DaylessLabels
  <2>2. row' \in [Days -> Row]
    BY <1>0, <1>5, <2>1, UpdatedRowType DEF Settle, Statuses, NoticeStatuses
  <2>3. CASE Finish(t, FALSE)
    BY <1>5, <2>2, <2>3, FinishType DEF Settle, TypeOK, env, chat
  <2>4. CASE ~Finish(t, FALSE)
    <3>1. run' \in [Runs -> RunType]
      BY <1>5, <2>4, GotoType DEF Settle, Labels, DaylessLabels
    <3> QED BY <1>5, <2>2, <2>4, <3>1 DEF Settle, TypeOK, env, chat, procs
  <2> QED BY <2>3, <2>4
<1> QED BY <1>1, <1>2, <1>3, <1>4, <1>5

\* The same for the sends and the record of their outcome.
LEMMA TypeSends ==
  ASSUME TypeOK, NEW t \in Runs, Copy(t) \/ Send(t) \/ SendNotice(t)
  PROVE  TypeOK'
<1>1. run' \in [Runs -> RunType]
  <2>1. \E l \in Labels : Goto(t, l)
    BY DEF Copy, Send, SendNotice, PostQuote, Labels
  <2> QED BY <2>1, GotoType DEF Copy, Send, SendNotice, At, DaylessLabels
<1>2. posts' \in [Days -> Nat] /\ notices' \in [Days -> Nat]
  <2>1. /\ posts' \in {posts, [posts EXCEPT ![run[t].day] = @ + 1]}
        /\ notices' \in {notices, [notices EXCEPT ![run[t].day] = @ + 1]}
    BY DEF Copy, Send, SendNotice, PostQuote
  <2> QED BY <2>1 DEF TypeOK
<1> QED BY <1>1, <1>2 DEF Copy, Send, SendNotice, TypeOK, env, db, procs

LEMMA TypeConfirm ==
  ASSUME TypeOK, NEW t \in Runs, MarkPublished(t) \/ MarkNotified(t)
  PROVE  TypeOK'
<1>1. run[t].day \in Days
  BY DayOfRun DEF MarkPublished, MarkNotified, Confirm, At, DaylessLabels
<1>2. row' \in [Days -> Row]
  <2>1. \E status \in Statuses : row' \in {row, UpdatedRow(t, status, TRUE)}
    BY DEF MarkPublished, MarkNotified, Confirm, Statuses, QuoteStatuses, NoticeStatuses
  <2>2. row \in [Days -> Row]
    BY DEF TypeOK
  <2> QED BY <1>1, <2>1, <2>2, UpdatedRowType
<1>3. run' \in [Runs -> RunType]
  <2>1. \E l \in Labels : Goto(t, l)
    BY DEF MarkPublished, MarkNotified, Confirm, Labels
  <2> QED BY <2>1, GotoType DEF MarkPublished, MarkNotified, Confirm, At, DaylessLabels
<1> QED BY <1>2, <1>3 DEF MarkPublished, MarkNotified, Confirm, TypeOK, env, chat, procs

LEMMA TypeRecord ==
  ASSUME TypeOK, NEW t \in Runs,
         SetUnknown(t) \/ SetFailed(t) \/ NoticeUnknown(t) \/ NoticeFailed(t)
  PROVE  TypeOK'
<1> USE DEF SetUnknown, SetFailed, NoticeUnknown, NoticeFailed, Record
<1>1. run[t].day \in Days
  BY DayOfRun DEF At, DaylessLabels
<1>2. row' \in [Days -> Row]
  <2>1. \E status \in Statuses : row' \in {row, UpdatedRow(t, status, FALSE)}
    BY DEF Statuses, QuoteStatuses, NoticeStatuses
  <2>2. row \in [Days -> Row]
    BY DEF TypeOK
  <2> QED BY <1>1, <2>1, <2>2, UpdatedRowType
<1>3. Finish(t, FALSE)
  OBVIOUS
<1> QED BY <1>2, <1>3, FinishType DEF TypeOK, env, chat

\* The same for the reminder, the agreement, the settings and the clock.
LEMMA TypeRemind ==
  ASSUME TypeOK, NEW t \in Runs, Remind(t)
  PROVE  TypeOK'
<1>1. run[t].day \in Days /\ Proc(t) \in Procs
  BY DayOfRun, ProcOfRun DEF Remind, At, DaylessLabels
<1>2. nudges' \in [Days -> Nat]
  <2>1. nudges' \in {nudges, [nudges EXCEPT ![run[t].day] = @ + 1]}
    BY DEF Remind
  <2> QED BY <2>1 DEF TypeOK
<1>3. group' \in GroupType
  <2>1. group' \in {group, [group EXCEPT !.active = FALSE]}
    BY DEF Remind
  <2> QED BY <2>1 DEF TypeOK, GroupType
<1>4. CASE \E done \in BOOLEAN : Finish(t, done)
  BY <1>2, <1>3, <1>4, FinishType DEF Remind, TypeOK, env
<1>5. CASE ~\E done \in BOOLEAN : Finish(t, done)
  <2>1. /\ run' = [run EXCEPT ![t] = IdleRun]
        /\ lock' = [lock EXCEPT ![Proc(t)] = NoRun]
        /\ mem' = [mem EXCEPT ![Proc(t)].reminded = run[t].day,
                              ![Proc(t)].completed = run[t].day]
        /\ UNCHANGED <<group, phase, loop, restarts>>
    BY <1>5 DEF Remind
  <2>2. run' \in [Runs -> RunType]
    BY <2>1, IdleRunType DEF TypeOK
  <2>3. mem' \in [Procs -> Memory]
    <3>1. mem \in [Procs -> Memory]
      BY DEF TypeOK
    <3> QED BY <1>1, <2>1, <3>1 DEF Memory
  <2> QED BY <1>2, <2>1, <2>2, <2>3 DEF Remind, TypeOK, env
<1> QED BY <1>4, <1>5

LEMMA TypeEnv ==
  ASSUME TypeOK,
         (\E t \in Runs : Accept(t)) \/ ToggleNotice \/ SetActive \/ Clock
  PROVE  TypeOK'
<1>1. ASSUME NEW t \in Runs, Accept(t) PROVE TypeOK'
  <2>1. run' \in [Runs -> RunType]
    BY <1>1, GotoType DEF Accept, Labels, DaylessLabels
  <2>2. group' \in GroupType
    <3>1. group' = [group EXCEPT !.accepted = TRUE, !.active = TRUE]
      BY <1>1 DEF Accept
    <3>2. group \in GroupType
      BY DEF TypeOK
    <3> QED BY <3>1, <3>2 DEF GroupType
  <2>3. changes' \in Nat
    BY <1>1 DEF Accept, TypeOK
  <2> QED BY <1>1, <2>1, <2>2, <2>3 DEF Accept, TypeOK, chat, procs
<1>2. CASE ToggleNotice
  <2>1. group' \in GroupType
    <3>1. group \in GroupType
      BY DEF TypeOK
    <3>2. PICK b \in BOOLEAN : group' = [group EXCEPT !.notice = b]
      <4>1. (~group.notice) \in BOOLEAN
        OBVIOUS
      <4> QED BY <1>2, <4>1 DEF ToggleNotice
    <3> QED BY <3>1, <3>2 DEF GroupType
  <2>2. changes' \in Nat
    BY <1>2 DEF ToggleNotice, TypeOK
  <2> QED BY <1>2, <2>1, <2>2 DEF ToggleNotice, TypeOK, chat, procs
<1>3. CASE SetActive
  <2>1. group' \in GroupType
    <3>1. group \in GroupType
      BY DEF TypeOK
    <3>2. PICK b \in BOOLEAN : group' = [group EXCEPT !.active = b]
      <4>1. (~group.active) \in BOOLEAN
        OBVIOUS
      <4> QED BY <1>3, <4>1 DEF SetActive
    <3> QED BY <3>1, <3>2 DEF GroupType
  <2>2. changes' \in Nat
    BY <1>3 DEF SetActive, TypeOK
  <2> QED BY <1>3, <2>1, <2>2 DEF SetActive, TypeOK, chat, procs
<1>4. CASE Clock
  BY <1>4 DEF Clock, TypeOK, db, chat, procs
<1> QED BY <1>1, <1>2, <1>3, <1>4

\* Every step of the specification keeps the types.
LEMMA TypeNext == TypeOK /\ [Next]_vars => TypeOK'
<1> SUFFICES ASSUME TypeOK, [Next]_vars PROVE TypeOK'
  OBVIOUS
<1>1. ASSUME NEW t \in Runs, RunStep(t) PROVE TypeOK'
  BY <1>1, TypeEarly, TypeRows, TypeSends, TypeConfirm, TypeRecord, TypeRemind DEF RunStep
<1>2. CASE UNCHANGED vars
  BY <1>2 DEF vars, env, db, chat, procs, TypeOK
<1> QED BY <1>1, <1>2, TypeEnv, TypeProc DEF Next

\* The variables have their types in every reachable state: a run always works on
\* a day, with a row, a snapshot and stale rows that exist.
THEOREM TypeCorrect == Spec => []TypeOK
  BY TypeInit, TypeNext, PTL DEF Spec

(***************************************************************************)
(* The quote of a day is posted at most once: the invariant of             *)
(* DailyQuoteInv is inductive.                                             *)
(***************************************************************************)
\* Where a run relies on the row of its day.
Protected == Owning \cup Noticing \cup {"delete"}

(* A run that keeps out of the others' way: it forgets stale rows but reads *)
(* none, and it relies on a row only as before, or as an owner that has     *)
(* sent.                                                                    *)
Calm(u) ==
  /\ run'[u].stale \subseteq run[u].stale
  /\ \/ run'[u].pc \notin Protected
     \/ /\ run'[u].day = run[u].day /\ run'[u].q = run[u].q
        /\ \/ run'[u].pc = run[u].pc
           \/ run[u].pc \in Noticing /\ run'[u].pc \in Noticing
           \/ run[u].pc \in Owning /\ run'[u].pc \in Owning \ Unsent

\* Runs that only read, wait or forget disturb nothing.
LEMMA CalmStep ==
  ASSUME SafeInv, UNCHANGED <<row, nextId, posts>>, \A u \in Runs : Calm(u)
  PROVE  SafeInv'
<1> USE DEF Calm, Protected, Held, KnownId
<1>1. RowHasId' /\ PostInv'
  BY DEF SafeInv, RowHasId, PostInv, QuoteAtMostOnce, PostedIsOnRecord
<1>2. OwnerHolds'
  BY DEF SafeInv, OwnerHolds, Owning, Noticing, Unsent
<1>3. UnsentIsClean'
  BY DEF SafeInv, UnsentIsClean, Owning, Noticing, Unsent
<1>4. OwnersDiffer'
  BY DEF SafeInv, OwnersDiffer, Owning, Noticing, Unsent
<1>5. DeletedIsDead'
  BY DEF SafeInv, DeletedIsDead, Owning, Noticing, Unsent
<1>6. NoticeHolds'
  BY DEF SafeInv, NoticeHolds, Owning, Noticing, Unsent
<1>7. StaleKind'
  BY DEF SafeInv, StaleKind
<1> QED BY <1>1, <1>2, <1>3, <1>4, <1>5, <1>6, <1>7 DEF SafeInv

\* A new status for the row of one day: it stays a quote or stays a notice, it may
\* not deny a quote that was posted, and whoever relies on the row must be content
\* with it.
LEMMA StatusStep ==
  ASSUME TypeOK, SafeInv, UNCHANGED <<nextId, posts>>, \A u \in Runs : Calm(u),
         NEW d \in Days, NEW s \in Statuses,
         row'[d].id = row[d].id, row'[d].status = s,
         \A x \in Days \ {d} : row'[x] = row[x],
         KnownId(row[d].id),
         row[d].status \in QuoteStatuses <=> s \in QuoteStatuses,
         posts[d] > 0 => s \in LiveQuote,
         \A u \in Runs : run'[u].day = d /\ run'[u].q.id = row[d].id =>
           /\ run'[u].pc \in Owning => s \in LiveQuote
           /\ run'[u].pc \in Unsent => s \in {"publishing", "publish_unknown"}
           /\ run'[u].pc = "delete" => s \in {"publish_failed", "publish_unknown"}
           /\ run'[u].pc \in Noticing => s \in NoticeStatuses
  PROVE  SafeInv'
<1>1. /\ row'[d].id = row[d].id /\ row'[d].status = s
      /\ \A x \in Days \ {d} : row'[x] = row[x]
  OBVIOUS
<1>2. \A x \in Days : row'[x].id = row[x].id
  BY <1>1
<1>3. \A u \in Runs : run'[u].pc \in Protected => run'[u].day \in Days
  BY DEF TypeOK, RunType, Calm, Protected, Owning, Noticing, DaylessLabels, Unsent
<1> USE DEF Calm, Protected, Held, KnownId
<1>4. RowHasId' /\ PostInv'
  BY <1>1 DEF SafeInv, RowHasId, PostInv, QuoteAtMostOnce, PostedIsOnRecord, LiveQuote
<1>5. OwnerHolds'
  BY <1>1, <1>2, <1>3 DEF SafeInv, OwnerHolds, Owning, Noticing, Unsent
<1>6. UnsentIsClean'
  BY <1>1, <1>2, <1>3 DEF SafeInv, UnsentIsClean, Owning, Noticing, Unsent
<1>7. OwnersDiffer'
  BY DEF SafeInv, OwnersDiffer, Owning, Noticing, Unsent
<1>8. DeletedIsDead'
  BY <1>1, <1>2, <1>3 DEF SafeInv, DeletedIsDead, Owning, Noticing, Unsent
<1>9. NoticeHolds'
  BY <1>1, <1>2, <1>3 DEF SafeInv, NoticeHolds, Owning, Noticing, Unsent
<1>10. StaleKind'
  <2>1. \A u \in Runs : \A e \in run[u].stale : e.day \in Days
    BY DEF TypeOK, RunType, RunRecord, StaleEntry
  <2> QED BY <1>1, <1>2, <2>1 DEF SafeInv, StaleKind
<1> QED BY <1>4, <1>5, <1>6, <1>7, <1>8, <1>9, <1>10 DEF SafeInv

\* What a new status leaves of the rows.
LEMMA RowChanges ==
  ASSUME TypeOK, NEW d \in Days, NEW s, NEW m, row' = [row EXCEPT ![d] = WithStatus(@, s, m)]
  PROVE  /\ row'[d].id = row[d].id /\ row'[d].status = s
         /\ \A x \in Days \ {d} : row'[x] = row[x]
  BY DEF TypeOK, WithStatus

\* The end of a run disturbs nothing.
LEMMA FinishCalm ==
  ASSUME TypeOK, NEW t \in Runs, run' = [run EXCEPT ![t] = IdleRun]
  PROVE  \A u \in Runs : Calm(u)
  BY DEF TypeOK, Calm, IdleRun, Protected, Owning, Noticing

\* Nor does a move to a step that relies on no row.
LEMMA GotoCalm ==
  ASSUME TypeOK, NEW t \in Runs, NEW l, Goto(t, l),
         \/ l \notin Protected
         \/ run[t].pc \in Noticing /\ l \in Noticing
         \/ run[t].pc \in Owning /\ l \in Owning \ Unsent
  PROVE  \A u \in Runs : Calm(u)
  BY DEF TypeOK, Goto, Calm

LEMMA GotoArrives ==
  ASSUME TypeOK, NEW t \in Runs, NEW l, Goto(t, l)
  PROVE  run'[t].pc = l
  BY DEF TypeOK, Goto, RunType, RunRecord

\* The steps that touch neither rows nor posts.
LEMMA SafeCalm ==
  ASSUME TypeOK, SafeInv, NEW t \in Runs,
         \/ CatchUpLock(t) \/ CatchUpLoad(t) \/ Start(t) \/ Remind(t) \/ QueryFails(t)
         \/ ReadWindow(t) \/ Skip(t) \/ Ask(t) \/ SendNotice(t) \/ Clear(t) \/ Interrupt(t)
         \/ Accept(t)
  PROVE  SafeInv'
<1> USE DEF Protected, Owning, Noticing
<1>1. UNCHANGED <<row, nextId, posts>>
  BY DEF CatchUpLock, CatchUpLoad, Start, Remind, QueryFails, ReadWindow, Skip, Ask,
         SendNotice, Clear, Interrupt, Accept, db, chat
<1>2. CASE run' = [run EXCEPT ![t] = IdleRun]
  BY <1>1, <1>2, FinishCalm, CalmStep
<1>3. CASE \E l \in {"wait", "load", "stale", "remind", "skip", "ask"} : Goto(t, l)
  BY <1>1, <1>3, GotoCalm, CalmStep
<1>4. CASE SendNotice(t)
  BY <1>1, <1>4, GotoCalm, CalmStep DEF SendNotice, At
<1>5. CASE CatchUpLoad(t)
  <2>1. \A u \in Runs : Calm(u)
    <3>1. CASE run' = [run EXCEPT ![t] = IdleRun]
      BY <3>1, FinishCalm
    <3>2. CASE run' # [run EXCEPT ![t] = IdleRun]
      <4>1. PICK d, n : run' = [run EXCEPT ![t] = [IdleRun EXCEPT !.pc = "start", !.day = d,
                                                                  !.snap = n]]
        BY <1>5, <3>2 DEF CatchUpLoad, Drop
      <4>2. run'[t].pc = "start" /\ run'[t].stale = {}
        BY <4>1 DEF TypeOK, IdleRun
      <4>3. \A u \in Runs \ {t} : run'[u] = run[u]
        BY <4>1 DEF TypeOK
      <4> QED BY <4>2, <4>3 DEF Calm
    <3> QED BY <3>1, <3>2
  <2> QED BY <1>1, <2>1, CalmStep
<1>6. CASE Ask(t)
  <2>1. \A u \in Runs : Calm(u)
    <3>1. CASE run' = [run EXCEPT ![t] = IdleRun]
      BY <3>1, FinishCalm
    <3>2. CASE run' # [run EXCEPT ![t] = IdleRun]
      <4>1. PICK v, n : run' = [run EXCEPT ![t].pc = "create", ![t].verdict = v,
                                           ![t].deadline = n]
        BY <1>6, <3>2 DEF Ask, Finish
      <4>2. run'[t].pc = "create" /\ run'[t].stale = run[t].stale
        BY <4>1 DEF TypeOK, RunType, RunRecord
      <4>3. \A u \in Runs \ {t} : run'[u] = run[u]
        BY <4>1 DEF TypeOK
      <4> QED BY <4>2, <4>3 DEF Calm
    <3> QED BY <3>1, <3>2
  <2> QED BY <1>1, <2>1, CalmStep
<1> QED BY <1>2, <1>3, <1>4, <1>5, <1>6 DEF CatchUpLock, Start, Remind, QueryFails,
           ReadWindow, Skip, Clear, Interrupt, Accept, Finish, Drop

\* Starting, stopping and the tick.
LEMMA SafeProc ==
  ASSUME TypeOK, SafeInv,
         (\E p \in Procs : ProcStep(p)) \/ ToggleNotice \/ SetActive \/ Clock
  PROVE  SafeInv'
<1>1. UNCHANGED <<row, nextId, posts>>
  BY DEF ProcStep, TickList, TickCheck, TickLock, Boot, Crash, Shutdown, Exit, Forget,
         ToggleNotice, SetActive, Clock, db, chat
<1>2. CASE UNCHANGED run
  BY <1>1, <1>2, CalmStep DEF Calm
<1>3. ASSUME NEW p \in Procs, Forget(p) PROVE SafeInv'
  <2>1. \A u \in Runs : Calm(u)
    BY <1>3 DEF Forget, Calm, IdleRun, Protected, Owning, Noticing
  <2> QED BY <1>1, <2>1, CalmStep
<1>4. ASSUME NEW p \in Procs, TickLock(p) PROVE SafeInv'
  <2>1. CASE UNCHANGED run
    BY <1>2, <2>1
  <2>2. CASE ~UNCHANGED run
    <3>1. PICK d, n : run' = [run EXCEPT ![TickRun(p)] =
                                [IdleRun EXCEPT !.pc = "start", !.day = d, !.snap = n]]
      BY <1>4, <2>2 DEF TickLock
    <3>2. TickRun(p) \in Runs
      BY DEF TickRun, Runs
    <3>3. run'[TickRun(p)].pc = "start" /\ run'[TickRun(p)].stale = {}
      BY <3>1, <3>2 DEF TypeOK, IdleRun
    <3>4. \A u \in Runs \ {TickRun(p)} : run'[u] = run[u]
      BY <3>1, <3>2 DEF TypeOK
    <3> QED BY <1>1, <3>3, <3>4, CalmStep DEF Calm, Protected, Owning, Noticing
  <2> QED BY <2>1, <2>2
<1> QED BY <1>2, <1>3, <1>4 DEF ProcStep, TickList, TickCheck, Boot, Crash, Shutdown, Exit,
           ToggleNotice, SetActive, Clock, procs

\* Reading the stale rows: what is read is of the kind of its row.
LEMMA SafeReadStale ==
  ASSUME TypeOK, SafeInv, NEW t \in Runs, ReadStale(t)
  PROVE  SafeInv'
<1>1. UNCHANGED <<row, nextId, posts>>
  BY DEF ReadStale, db, chat
<1>2. run'[t].stale = StaleRows /\ run'[t].pc \in {"forDay", "writeOff"}
  BY DEF ReadStale, TypeOK
<1>3. \A u \in Runs \ {t} : run'[u] = run[u]
  BY DEF ReadStale, TypeOK
<1>4. \A e \in StaleRows :
        KnownId(e.id) /\ row[e.day].id = e.id
        /\ (row[e.day].status \in QuoteStatuses <=> e.to = "publish_unknown")
  <2> SUFFICES ASSUME NEW e \in StaleRows
               PROVE  KnownId(e.id) /\ row[e.day].id = e.id
                      /\ (row[e.day].status \in QuoteStatuses <=> e.to = "publish_unknown")
    OBVIOUS
  <2>1. PICK d \in Days :
          /\ row[d].status \in {"publishing", "notifying_boring"}
          /\ e = [day |-> d, id |-> row[d].id,
                  to |-> IF row[d].status = "publishing" THEN "publish_unknown"
                                                         ELSE "boring_notice_unknown"]
    BY DEF StaleRows
  <2>2. row[d] # NoRow
    BY <2>1 DEF NoRow
  <2> QED BY <2>1, <2>2 DEF SafeInv, RowHasId, QuoteStatuses
<1> DEFINE Free(u) == run'[u].pc \notin Protected \/ run'[u] = run[u]
<1>5. \A u \in Runs : Free(u)
  BY <1>2, <1>3 DEF Protected, Owning, Noticing
<1>6. RowHasId' /\ PostInv'
  BY <1>1 DEF SafeInv, RowHasId, PostInv, QuoteAtMostOnce, PostedIsOnRecord, KnownId
<1>7. OwnerHolds' /\ NoticeHolds' /\ UnsentIsClean'
  BY <1>1, <1>5 DEF SafeInv, OwnerHolds, NoticeHolds, UnsentIsClean, Protected, Owning,
                    Unsent, Held, KnownId
<1>8. OwnersDiffer'
  BY <1>5 DEF SafeInv, OwnersDiffer, Protected
<1>9. DeletedIsDead'
  BY <1>1, <1>5 DEF SafeInv, DeletedIsDead, Protected, Held, KnownId
<1>10. StaleKind'
  BY <1>1, <1>2, <1>3, <1>4 DEF SafeInv, StaleKind, KnownId
<1> QED BY <1>6, <1>7, <1>8, <1>9, <1>10 DEF SafeInv

\* Writing a stale row off.
LEMMA SafeWriteOff ==
  ASSUME TypeOK, SafeInv, NEW t \in Runs, WriteOff(t)
  PROVE  SafeInv'
<1>1. PICK e \in run[t].stale, o \in WriteOutcomes :
        /\ row' = IF Applied(o) /\ row[e.day].id = e.id
                  THEN [row EXCEPT ![e.day] = WithStatus(@, e.to, FALSE)]
                  ELSE row
        /\ \/ run' = [run EXCEPT ![t].stale = @ \ {e},
                               ![t].pc = IF run[t].stale = {e} THEN "forDay" ELSE @]
           \/ run' = [run EXCEPT ![t] = IdleRun]
  BY DEF WriteOff, Finish
<1>2. UNCHANGED <<nextId, posts>> /\ run[t].pc = "writeOff"
  BY DEF WriteOff, chat, At
<1>3. \A u \in Runs : Calm(u)
  <2>1. CASE run' = [run EXCEPT ![t] = IdleRun]
    BY <2>1, FinishCalm
  <2>2. CASE run' # [run EXCEPT ![t] = IdleRun]
    <3>1. run'[t].pc \in {"forDay", "writeOff"} /\ run'[t].stale \subseteq run[t].stale
      BY <1>1, <1>2, <2>2 DEF TypeOK, RunType, RunRecord
    <3>2. \A u \in Runs \ {t} : run'[u] = run[u]
      BY <1>1 DEF TypeOK
    <3> QED BY <3>1, <3>2 DEF Calm, Protected, Owning, Noticing
  <2> QED BY <2>1, <2>2
<1>4. CASE row' = row
  BY <1>2, <1>3, <1>4, CalmStep
<1>5. CASE row' # row
  <2>1. row[e.day].id = e.id /\ row' = [row EXCEPT ![e.day] = WithStatus(@, e.to, FALSE)]
    BY <1>1, <1>5
  <2>2. e.day \in Days /\ e.to \in {"publish_unknown", "boring_notice_unknown"}
    BY DEF TypeOK, RunType, RunRecord, StaleEntry
  <2>3. /\ KnownId(row[e.day].id)
        /\ row[e.day].status \in QuoteStatuses <=> e.to = "publish_unknown"
    BY <2>1 DEF SafeInv, StaleKind
  <2>4. e.to \in Statuses /\ (row[e.day].status \in QuoteStatuses <=> e.to \in QuoteStatuses)
    BY <2>2, <2>3 DEF Statuses, QuoteStatuses, NoticeStatuses
  <2>5. posts[e.day] > 0 => e.to \in LiveQuote
    BY <2>2, <2>3 DEF SafeInv, PostInv, PostedIsOnRecord, LiveQuote, QuoteStatuses
  <2>6. ASSUME NEW u \in Runs, run'[u].day = e.day, run'[u].q.id = row[e.day].id
        PROVE  /\ run'[u].pc \in Owning => e.to \in LiveQuote
               /\ run'[u].pc \in Unsent => e.to \in {"publishing", "publish_unknown"}
               /\ run'[u].pc = "delete" => e.to \in {"publish_failed", "publish_unknown"}
               /\ run'[u].pc \in Noticing => e.to \in NoticeStatuses
    <3>1. CASE run'[u].pc \in Protected
      <4>1. run[u].day = e.day /\ run[u].q.id = row[e.day].id
        BY <1>3, <2>6, <3>1 DEF Calm
      <4>2. /\ run'[u].pc \in Owning => run[u].pc \in Owning
            /\ run'[u].pc \in Noticing => run[u].pc \in Noticing
            /\ run'[u].pc = "delete" => run[u].pc = "delete"
        BY <1>3, <3>1 DEF Calm, Protected, Owning, Noticing, Unsent
      <4>3. run'[u].pc \in Owning \/ run'[u].pc = "delete" => e.to = "publish_unknown"
        BY <2>3, <4>1, <4>2 DEF SafeInv, OwnerHolds, DeletedIsDead, Held, LiveQuote, QuoteStatuses
      <4>4. run'[u].pc \in Noticing => e.to = "boring_notice_unknown"
        BY <2>2, <2>3, <4>1, <4>2 DEF SafeInv, NoticeHolds, NoticeStatuses, QuoteStatuses
      <4> QED BY <4>3, <4>4 DEF LiveQuote, NoticeStatuses, Unsent, Owning
    <3>2. CASE run'[u].pc \notin Protected
      BY <3>2 DEF Protected, Owning, Unsent
    <3> QED BY <3>1, <3>2
  <2>8. /\ row'[e.day].id = row[e.day].id /\ row'[e.day].status = e.to
        /\ \A x \in Days \ {e.day} : row'[x] = row[x]
    BY <2>2, <2>1, RowChanges
  <2> HIDE DEF KnownId
  <2> QED BY <1>2, <1>3, <2>2, <2>3, <2>4, <2>5, <2>6, <2>8, StatusStep
<1> QED BY <1>4, <1>5

\* Recording the outcome of a quote: the run is past its send or has not posted.
LEMMA SafeQuoteRecord ==
  ASSUME TypeOK, SafeInv, NEW t \in Runs, MarkPublished(t) \/ SetUnknown(t) \/ SetFailed(t)
  PROVE  SafeInv'
<1> DEFINE d == run[t].day
<1>1. PICK s \in {"published", "publish_unknown", "publish_failed"} :
        /\ row' = row \/ row' = UpdatedRow(t, s, s = "published")
        /\ s = "publish_failed" => run[t].pc = "setFailed"
        /\ \/ Goto(t, "clear")
           \/ Goto(t, "setUnknown") /\ s # "publish_failed"
           \/ run' = [run EXCEPT ![t] = IdleRun]
  BY DEF MarkPublished, SetUnknown, SetFailed, Confirm, Record, Finish, At
<1>2. UNCHANGED <<nextId, posts>> /\ run[t].pc \in Owning
  BY DEF MarkPublished, SetUnknown, SetFailed, Confirm, Record, chat, At, Owning
<1>3. d \in Days
  BY <1>2, DayOfRun DEF Owning, DaylessLabels
<1>4. \A u \in Runs : Calm(u)
  BY <1>1, <1>2, FinishCalm, GotoCalm DEF Owning, Unsent, Protected, Noticing
<1>5. CASE row' = row
  BY <1>2, <1>4, <1>5, CalmStep
<1>6. CASE row' # row
  <2>1. Held(t) /\ row' = [row EXCEPT ![d] = WithStatus(@, s, s = "published")]
    BY <1>1, <1>6 DEF UpdatedRow, Held
  <2>2. row[d].status \in LiveQuote /\ KnownId(row[d].id)
    BY <1>2, <2>1 DEF SafeInv, OwnerHolds, Held
  <2>3. s \in Statuses /\ s \in QuoteStatuses /\ row[d].status \in QuoteStatuses
    BY <2>2 DEF Statuses, QuoteStatuses, LiveQuote
  <2>4. posts[d] > 0 => s \in LiveQuote
    BY <1>1 DEF SafeInv, UnsentIsClean, Unsent, LiveQuote
  <2>5. ASSUME NEW u \in Runs, run'[u].day = d, run'[u].q.id = row[d].id
        PROVE  /\ run'[u].pc \in Owning => s \in LiveQuote
               /\ run'[u].pc \in Unsent => s \in {"publishing", "publish_unknown"}
               /\ run'[u].pc = "delete" => s \in {"publish_failed", "publish_unknown"}
               /\ run'[u].pc \in Noticing => s \in NoticeStatuses
    <3>1. CASE u = t
      <4>1. run'[t].pc \in {"clear", "setUnknown", "idle"}
            /\ (run'[t].pc = "setUnknown" => s # "publish_failed")
        BY <1>1, GotoArrives DEF IdleRun, TypeOK
      <4> QED BY <3>1, <4>1 DEF Owning, Noticing, Unsent, LiveQuote
    <3>2. CASE u # t
      <4>1. run'[u] = run[u]
        BY <1>1, <3>2 DEF Goto, TypeOK
      <4>2. run[u].pc \notin Owning
        BY <1>2, <2>1, <2>5, <3>2, <4>1 DEF SafeInv, OwnersDiffer, Held
      <4>3. run[u].pc # "delete"
        BY <1>2, <2>1, <2>5, <4>1 DEF SafeInv, DeletedIsDead, Held
      <4>4. run[u].pc \notin Noticing
        BY <2>3, <2>5, <4>1 DEF SafeInv, NoticeHolds, NoticeStatuses, QuoteStatuses
      <4> QED BY <4>1, <4>2, <4>3, <4>4 DEF Owning, Unsent
    <3> QED BY <3>1, <3>2
  <2>8. /\ row'[d].id = row[d].id /\ row'[d].status = s
        /\ \A x \in Days \ {d} : row'[x] = row[x]
    BY <1>3, <2>1, RowChanges
  <2> HIDE DEF KnownId, d
  <2> QED BY <1>2, <1>3, <1>4, <2>2, <2>3, <2>4, <2>5, <2>8, StatusStep
<1> QED BY <1>5, <1>6

\* Recording what became of a notice.
LEMMA SafeNoticeRecord ==
  ASSUME TypeOK, SafeInv, NEW t \in Runs,
         MarkNotified(t) \/ NoticeUnknown(t) \/ NoticeFailed(t) \/ Settle(t)
  PROVE  SafeInv'
<1> DEFINE d == run[t].day
<1>1. PICK s \in NoticeStatuses, m \in BOOLEAN :
        /\ row' = row \/ row' = UpdatedRow(t, s, m)
        /\ \/ Goto(t, "clear") \/ Goto(t, "noticeUnknown")
           \/ run' = [run EXCEPT ![t] = IdleRun]
  BY DEF MarkNotified, NoticeUnknown, NoticeFailed, Settle, Confirm, Record, Finish,
         NoticeStatuses
<1>2. UNCHANGED <<nextId, posts>> /\ run[t].pc \in Noticing
  BY DEF MarkNotified, NoticeUnknown, NoticeFailed, Settle, Confirm, Record, chat, At, Noticing
<1>3. d \in Days
  BY <1>2, DayOfRun DEF Noticing, DaylessLabels
<1>4. \A u \in Runs : Calm(u)
  BY <1>1, <1>2, FinishCalm, GotoCalm DEF Owning, Unsent, Protected, Noticing
<1>5. CASE row' = row
  BY <1>2, <1>4, <1>5, CalmStep
<1>6. CASE row' # row
  <2>1. Held(t) /\ row' = [row EXCEPT ![d] = WithStatus(@, s, m)]
    BY <1>1, <1>6 DEF UpdatedRow, Held
  <2>2. row[d].status \in NoticeStatuses
    BY <1>2 DEF SafeInv, NoticeHolds
  <2>3. /\ s \in Statuses /\ s \notin QuoteStatuses /\ row[d].status \notin QuoteStatuses
        /\ row[d] # NoRow
    BY <2>2 DEF Statuses, QuoteStatuses, NoticeStatuses, NoRow
  <2>4. KnownId(row[d].id) /\ ~(posts[d] > 0)
    BY <1>3, <2>2, <2>3
    DEF SafeInv, RowHasId, PostInv, PostedIsOnRecord, NoticeStatuses
  <2>5. ASSUME NEW u \in Runs, run'[u].day = d, run'[u].q.id = row[d].id
        PROVE  run'[u].pc \notin Owning /\ run'[u].pc # "delete"
    <3>1. CASE u = t
      <4>1. run'[t].pc \in {"clear", "noticeUnknown", "idle"}
        BY <1>1, GotoArrives DEF IdleRun, TypeOK
      <4> QED BY <3>1, <4>1 DEF Owning
    <3>2. CASE u # t
      <4>1. run'[u] = run[u]
        BY <1>1, <3>2 DEF Goto, TypeOK
      <4>2. run[u].pc \notin Owning
        BY <2>3, <2>5, <4>1 DEF SafeInv, OwnerHolds, Held, LiveQuote, QuoteStatuses
      <4>3. run[u].pc # "delete"
        BY <2>3, <2>5, <4>1 DEF SafeInv, DeletedIsDead, Held, QuoteStatuses
      <4> QED BY <4>1, <4>2, <4>3
    <3> QED BY <3>1, <3>2
  <2>6. ASSUME NEW u \in Runs, run'[u].day = d, run'[u].q.id = row[d].id
        PROVE  /\ run'[u].pc \in Owning => s \in LiveQuote
               /\ run'[u].pc \in Unsent => s \in {"publishing", "publish_unknown"}
               /\ run'[u].pc = "delete" => s \in {"publish_failed", "publish_unknown"}
               /\ run'[u].pc \in Noticing => s \in NoticeStatuses
    BY <2>5, <2>6 DEF Unsent, Owning
  <2>7. (row[d].status \in QuoteStatuses <=> s \in QuoteStatuses) /\ s \in Statuses
        /\ (posts[d] > 0 => s \in LiveQuote)
    BY <2>3, <2>4
  <2>8. /\ row'[d].id = row[d].id /\ row'[d].status = s
        /\ \A x \in Days \ {d} : row'[x] = row[x]
    BY <1>3, <2>1, RowChanges
  <2> HIDE DEF KnownId, d
  <2> QED BY <1>2, <1>3, <1>4, <2>4, <2>6, <2>7, <2>8, StatusStep
<1> QED BY <1>5, <1>6

\* Looking up the row of the day: what is deleted later belongs to nobody now.
LEMMA SafeForDay ==
  ASSUME TypeOK, SafeInv, NEW t \in Runs, ForDay(t)
  PROVE  SafeInv'
<1> DEFINE d == run[t].day
<1>1. UNCHANGED <<row, nextId, posts>> /\ d \in Days
  BY DayOfRun DEF ForDay, db, chat, At, DaylessLabels
<1>2. CASE \A u \in Runs : Calm(u)
  BY <1>1, <1>2, CalmStep
<1>3. CASE ~\A u \in Runs : Calm(u)
  <2>1. \/ /\ run' = [run EXCEPT ![t].pc = "delete", ![t].q = row[d]]
           /\ row[d].status = "publish_failed"
        \/ /\ \E l \in {"notice", "settle"} : \E n :
                 run' = [run EXCEPT ![t].pc = l, ![t].q = row[d], ![t].deadline = n]
           /\ row[d].status = "boring_notice_failed"
    <3>1. ~Goto(t, "readWindow") /\ run' # [run EXCEPT ![t] = IdleRun]
      BY <1>3, FinishCalm, GotoCalm DEF Protected, Owning, Noticing
    <3> QED BY <3>1 DEF ForDay, Finish
  <2>2. \A u \in Runs \ {t} : run'[u] = run[u]
    BY <2>1 DEF TypeOK
  <2>3. /\ run'[t].day = d /\ run'[t].q = row[d] /\ run'[t].stale = run[t].stale
        /\ \/ run'[t].pc = "delete" /\ row[d].status = "publish_failed"
           \/ run'[t].pc \in {"notice", "settle"} /\ row[d].status = "boring_notice_failed"
    BY <2>1 DEF TypeOK, RunType, RunRecord
  <2>4. row[d] # NoRow /\ KnownId(row[d].id)
    BY <1>1, <2>3 DEF SafeInv, RowHasId, NoRow
  <2>5. posts[d] = 0
    BY <1>1, <2>3 DEF SafeInv, PostInv, PostedIsOnRecord, TypeOK
  <2>6. \A u \in Runs : run[u].pc \in Owning /\ run[u].day = d => run[u].q.id # row[d].id
    BY <2>3 DEF SafeInv, OwnerHolds, Held, LiveQuote
  <2>7. run'[t].pc \notin Owning
    BY <2>3 DEF Owning
  <2> USE DEF Held, KnownId
  <2> HIDE DEF d
  <2>8. RowHasId' /\ PostInv'
    BY <1>1 DEF SafeInv, RowHasId, PostInv, QuoteAtMostOnce, PostedIsOnRecord
  <2>9. OwnerHolds' /\ UnsentIsClean' /\ OwnersDiffer'
    <3>1. Unsent \subseteq Owning
      BY DEF Unsent, Owning
    <3> QED BY <1>1, <2>2, <2>7, <3>1 DEF SafeInv, OwnerHolds, UnsentIsClean, OwnersDiffer
  <2>10. DeletedIsDead'
    <3> SUFFICES ASSUME NEW u \in Runs, run'[u].pc = "delete"
                 PROVE  /\ KnownId(run'[u].q.id)
                        /\ row[run'[u].day].id = run'[u].q.id =>
                             /\ posts[run'[u].day] = 0
                             /\ row[run'[u].day].status \in {"publish_failed", "publish_unknown"}
                        /\ \A v \in Runs : run'[v].pc \in Owning /\ run'[v].day = run'[u].day
                             => run'[v].q.id # run'[u].q.id
      BY <1>1 DEF DeletedIsDead
    <3>1. CASE u = t
      BY <1>1, <2>2, <2>3, <2>4, <2>5, <2>6, <2>7, <3>1
    <3>2. CASE u # t
      BY <1>1, <2>2, <2>7, <3>2 DEF SafeInv, DeletedIsDead
    <3> QED BY <3>1, <3>2
  <2>11. NoticeHolds'
    BY <1>1, <2>2, <2>3 DEF SafeInv, NoticeHolds, Noticing, NoticeStatuses
  <2>12. StaleKind'
    BY <1>1, <2>2, <2>3 DEF SafeInv, StaleKind
  <2> QED BY <2>8, <2>9, <2>10, <2>11, <2>12 DEF SafeInv
<1> QED BY <1>2, <1>3

\* Deleting a failed row: nobody relies on it and nothing was posted for it.
LEMMA SafeDelete ==
  ASSUME TypeOK, SafeInv, NEW t \in Runs, DeleteFailed(t)
  PROVE  SafeInv'
<1> DEFINE d == run[t].day
<1>1. /\ UNCHANGED <<nextId, posts>> /\ run[t].pc = "delete" /\ d \in Days
  BY DayOfRun DEF DeleteFailed, chat, At, DaylessLabels
<1>2. \A u \in Runs : Calm(u)
  <2>1. CASE run' = [run EXCEPT ![t] = IdleRun]
    BY <2>1, FinishCalm
  <2>2. CASE run' # [run EXCEPT ![t] = IdleRun]
    <3>1. run' = [run EXCEPT ![t].pc = "readWindow", ![t].q = NoRow]
      BY <2>2 DEF DeleteFailed, Finish
    <3>2. run'[t].pc = "readWindow" /\ run'[t].stale = run[t].stale
      BY <3>1 DEF TypeOK, RunType, RunRecord
    <3>3. \A u \in Runs \ {t} : run'[u] = run[u]
      BY <3>1 DEF TypeOK
    <3> QED BY <3>2, <3>3 DEF Calm, Protected, Owning, Noticing
  <2> QED BY <2>1, <2>2
<1>3. CASE row' = row
  BY <1>1, <1>2, <1>3, CalmStep
<1>4. CASE row' # row
  <2>1. Held(t) /\ row' = [row EXCEPT ![d] = NoRow]
    BY <1>4 DEF DeleteFailed, Held
  <2>2. row'[d] = NoRow /\ \A x \in Days \ {d} : row'[x] = row[x]
    BY <1>1, <2>1 DEF TypeOK
  <2>3. posts[d] = 0 /\ row[d].status \in {"publish_failed", "publish_unknown"}
    BY <1>1, <2>1 DEF SafeInv, DeletedIsDead
  <2>4. \A i : KnownId(i) => i # NoRow.id
    BY DEF KnownId, NoRow
  <2>5. \A u \in Runs : run'[u].pc \in Protected => run[u].pc \in Protected /\ run[u].day \in Days
                                             /\ run'[u].day = run[u].day /\ run'[u].q = run[u].q
    BY <1>2 DEF Calm, TypeOK, RunType, Protected, Owning, Noticing, DaylessLabels, Unsent
  <2>6. \A u \in Runs : /\ run'[u].pc \in Owning => run[u].pc \in Owning
                        /\ run'[u].pc \in Unsent => run[u].pc \in Unsent
                        /\ run'[u].pc \in Noticing => run[u].pc \in Noticing
                        /\ run'[u].pc = "delete" => run[u].pc = "delete"
    BY <1>2 DEF Calm, Protected, Owning, Noticing, Unsent
  <2>7. Unsent \subseteq Owning /\ Owning \subseteq Protected /\ Noticing \subseteq Protected
    BY DEF Unsent, Owning, Noticing, Protected
  <2>8. \A u \in Runs : run[u].pc \in Owning /\ run[u].day = d => ~Held(u)
    BY <1>1, <2>1 DEF SafeInv, DeletedIsDead, Held
  <2>9. \A u \in Runs : run[u].pc \in Noticing => run[u].day # d
    BY <2>3 DEF SafeInv, NoticeHolds, NoticeStatuses
  <2> HIDE DEF d
  <2>10. RowHasId' /\ PostInv'
    BY <1>1, <2>2, <2>3 DEF SafeInv, RowHasId, PostInv, QuoteAtMostOnce, PostedIsOnRecord, KnownId
  <2>11. OwnerHolds'
    BY <1>1, <2>2, <2>4, <2>5, <2>6, <2>7 DEF SafeInv, OwnerHolds, Held, KnownId
  <2>12. UnsentIsClean'
    BY <1>1, <2>2, <2>5, <2>6, <2>7, <2>8 DEF SafeInv, UnsentIsClean, Held
  <2>13. OwnersDiffer'
    BY <2>5, <2>6, <2>7 DEF SafeInv, OwnersDiffer
  <2>14. DeletedIsDead'
    <3>1. "delete" \in Protected
      BY DEF Protected
    <3> QED BY <1>1, <2>2, <2>4, <2>5, <2>6, <2>7, <3>1 DEF SafeInv, DeletedIsDead, Held, KnownId
  <2>15. NoticeHolds'
    BY <2>2, <2>5, <2>6, <2>7, <2>9 DEF SafeInv, NoticeHolds, Held
  <2>16. StaleKind'
    <3>1. \A u \in Runs : \A e \in run[u].stale : e.day \in Days
      BY DEF TypeOK, RunType, RunRecord, StaleEntry
    <3>2. \A u \in Runs : run'[u].stale \subseteq run[u].stale
      BY <1>2 DEF Calm
    <3> QED BY <1>1, <2>2, <2>4, <3>1, <3>2 DEF SafeInv, StaleKind, KnownId
  <2> QED BY <2>10, <2>11, <2>12, <2>13, <2>14, <2>15, <2>16 DEF SafeInv
<1> QED BY <1>3, <1>4

\* Inserting the row: its id is new, and the day had nothing posted.
LEMMA SafeCreate ==
  ASSUME TypeOK, SafeInv, NEW t \in Runs, Create(t)
  PROVE  SafeInv'
<1> DEFINE d == run[t].day
<1>1. posts' = posts /\ d \in Days
  BY DayOfRun DEF Create, chat, At, DaylessLabels
<1>2. CASE UNCHANGED <<row, nextId>> /\ run' = [run EXCEPT ![t] = IdleRun]
  BY <1>1, <1>2, FinishCalm, CalmStep
<1>3. CASE ~(UNCHANGED <<row, nextId>> /\ run' = [run EXCEPT ![t] = IdleRun])
  <2> DEFINE new == [id |-> nextId, status |-> FirstStatus(t), changed |-> now, msg |-> FALSE]
  <2>1. /\ row[d] = NoRow /\ row' = [row EXCEPT ![d] = new] /\ nextId' = nextId + 1
        /\ \/ \E l \in AfterCreate(t) : run' = [run EXCEPT ![t].pc = l, ![t].q = new]
           \/ run' = [run EXCEPT ![t] = IdleRun]
    BY <1>3 DEF Create, Finish
  <2>2. new.id = nextId /\ new.status = FirstStatus(t) /\ FirstStatus(t) \in Statuses
    BY DEF FirstStatus, Statuses, QuoteStatuses, NoticeStatuses
  <2> HIDE DEF new
  <2>3. row'[d] = new /\ \A x \in Days \ {d} : row'[x] = row[x]
    BY <1>1, <2>1 DEF TypeOK
  <2>4. \A u \in Runs \ {t} : run'[u] = run[u]
    BY <2>1 DEF TypeOK
  <2>5. run'[t].stale \subseteq run[t].stale
    <3>1. CASE run' = [run EXCEPT ![t] = IdleRun]
      BY <3>1 DEF TypeOK, IdleRun
    <3>2. ASSUME NEW l, run' = [run EXCEPT ![t].pc = l, ![t].q = new]
          PROVE  run'[t].stale \subseteq run[t].stale
      BY <3>2 DEF TypeOK, RunType, RunRecord
    <3> QED BY <2>1, <3>1, <3>2
  <2>6. \/ run'[t].pc \notin Protected
        \/ /\ run'[t].day = d /\ run'[t].q = new
           /\ \/ run'[t].pc \in {"copy", "send"} /\ new.status = "publishing"
              \/ run'[t].pc = "notice" /\ new.status = "notifying_boring"
    <3>1. CASE run' = [run EXCEPT ![t] = IdleRun]
      BY <3>1 DEF TypeOK, IdleRun, Protected, Owning, Noticing
    <3>2. ASSUME NEW l \in AfterCreate(t), run' = [run EXCEPT ![t].pc = l, ![t].q = new]
          PROVE  <2>6!1 \/ <2>6!2
      <4>1. run'[t].pc = l /\ run'[t].day = d /\ run'[t].q = new
        BY <3>2 DEF TypeOK, RunType, RunRecord
      <4>2. \/ l = "skip"
            \/ l \in {"copy", "send"} /\ new.status = "publishing"
            \/ l = "notice" /\ new.status = "notifying_boring"
        BY <2>2 DEF AfterCreate, FirstStatus
      <4> QED BY <4>1, <4>2 DEF Protected, Owning, Noticing
    <3> QED BY <2>1, <3>1, <3>2
  <2>7. posts[d] = 0
    BY <1>1, <2>1 DEF SafeInv, PostInv, PostedIsOnRecord, NoRow, TypeOK
  <2>8. /\ \A i : KnownId(i) => i \in 1..(nextId' - 1) /\ i # nextId /\ i # 0
        /\ nextId \in 1..(nextId' - 1)
    BY <2>1 DEF KnownId, TypeOK
  <2>9. \A u \in Runs : run[u].pc \in Protected => run[u].day \in Days
    BY DEF TypeOK, RunType, Protected, Owning, Noticing, DaylessLabels
  <2>10. /\ Unsent \subseteq Owning /\ Owning \subseteq Protected /\ Noticing \subseteq Protected
         /\ "delete" \in Protected /\ {"copy", "send"} \subseteq Unsent
         /\ {"copy", "send"} \cap Noticing = {} /\ "notice" \notin Owning
    BY DEF Unsent, Owning, Noticing, Protected
  <2>11. row[d].id = 0
    BY <2>1 DEF NoRow
  <2> HIDE DEF d
  <2>12. RowHasId' /\ PostInv'
    <3>1. RowHasId'
      BY <2>1, <2>2, <2>3, <2>8 DEF SafeInv, RowHasId, KnownId
    <3>2. PostInv'
      BY <1>1, <2>3, <2>7 DEF SafeInv, PostInv, QuoteAtMostOnce, PostedIsOnRecord
    <3> QED BY <3>1, <3>2
  <2>13. OwnerHolds'
    BY <2>2, <2>3, <2>4, <2>6, <2>8, <2>9, <2>10, <2>11
    DEF SafeInv, OwnerHolds, Held, KnownId, LiveQuote
  <2>14. UnsentIsClean'
    BY <1>1, <2>2, <2>3, <2>4, <2>6, <2>7, <2>8, <2>9, <2>10, <2>11
    DEF SafeInv, UnsentIsClean, OwnerHolds, Held
  <2>15. OwnersDiffer'
    BY <2>2, <2>4, <2>6, <2>8, <2>10 DEF SafeInv, OwnersDiffer, OwnerHolds
  <2>16. DeletedIsDead'
    <3>1. run'[t].pc # "delete"
      BY <2>6, <2>10
    <3> QED BY <1>1, <2>2, <2>3, <2>4, <2>6, <2>8, <2>9, <2>10, <3>1
        DEF SafeInv, DeletedIsDead, Held, KnownId
  <2>17. NoticeHolds'
    <3>1. \A u \in Runs : run[u].pc \in Noticing => run[u].day # d
      BY <2>1 DEF SafeInv, NoticeHolds, NoRow, NoticeStatuses
    <3> QED BY <2>2, <2>3, <2>4, <2>6, <2>9, <2>10, <3>1
        DEF SafeInv, NoticeHolds, Held, NoticeStatuses
  <2>18. StaleKind'
    <3>1. \A u \in Runs : \A e \in run[u].stale : e.day \in Days
      BY DEF TypeOK, RunType, RunRecord, StaleEntry
    <3> QED BY <2>2, <2>3, <2>4, <2>5, <2>8, <3>1 DEF SafeInv, StaleKind, KnownId
  <2> QED BY <2>12, <2>13, <2>14, <2>15, <2>16, <2>17, <2>18 DEF SafeInv
<1> QED BY <1>2, <1>3

\* The send: only one run can be about to send for a day, and it has not sent yet.
LEMMA SafeSend ==
  ASSUME TypeOK, SafeInv, NEW t \in Runs, Copy(t) \/ Send(t)
  PROVE  SafeInv'
<1> DEFINE d == run[t].day
<1>1. /\ UNCHANGED <<row, nextId>> /\ run[t].pc \in {"copy", "send"} /\ d \in Days
  BY DayOfRun DEF Copy, Send, db, At, DaylessLabels
<1>2. PICK l \in {"markPublished", "setUnknown", "send", "setFailed"} :
        /\ Goto(t, l)
        /\ posts' = posts \/ posts' = [posts EXCEPT ![d] = @ + 1]
        /\ l \in Unsent => posts' = posts
  BY DEF Copy, Send, PostQuote, Unsent
<1>3. /\ run'[t].pc = l /\ run'[t].day = d /\ run'[t].q = run[t].q /\ run'[t].stale = run[t].stale
      /\ \A u \in Runs \ {t} : run'[u] = run[u]
  BY <1>2 DEF Goto, TypeOK, RunType, RunRecord
<1>4. /\ {"copy", "send", "setFailed"} = Unsent /\ Unsent \subseteq Owning /\ l \in Owning
      /\ l \notin Noticing /\ l # "delete"
  BY DEF Unsent, Owning, Noticing
<1>5. Held(t) /\ posts[d] = 0 /\ row[d].status \in {"publishing", "publish_unknown"}
  BY <1>1, <1>4 DEF SafeInv, UnsentIsClean
<1>6. posts'[d] \in {0, 1} /\ \A x \in Days \ {d} : posts'[x] = posts[x]
  BY <1>1, <1>2, <1>5 DEF TypeOK
<1>7. \A u \in Runs \ {t} : run[u].pc \in Owning /\ run[u].day = d => ~Held(u)
  BY <1>1, <1>4, <1>5 DEF SafeInv, OwnersDiffer, Held
<1>8. \A u \in Runs : run[u].pc = "delete" /\ run[u].day = d => ~Held(u)
  BY <1>1, <1>4, <1>5 DEF SafeInv, DeletedIsDead, Held
<1>9. \A u \in Runs : run[u].pc \in Owning \cup {"delete"} => run[u].day \in Days
  BY DEF TypeOK, RunType, Owning, DaylessLabels
<1>s. /\ "setFailed" \in Unsent /\ {"markPublished", "setUnknown"} \cap Unsent = {}
  BY DEF Unsent
<1>10. RowHasId' /\ PostInv'
  <2>1. RowHasId'
    BY <1>1 DEF SafeInv, RowHasId, KnownId
  <2>2. PostInv'
    BY <1>1, <1>5, <1>6 DEF SafeInv, PostInv, QuoteAtMostOnce, PostedIsOnRecord
  <2> QED BY <2>1, <2>2
<1>11. OwnerHolds'
  BY <1>1, <1>3, <1>4 DEF SafeInv, OwnerHolds, Held, KnownId
<1>12. UnsentIsClean'
  <2> SUFFICES ASSUME NEW u \in Runs, run'[u].pc \in Unsent
               PROVE  /\ row[run'[u].day].id = run'[u].q.id /\ posts'[run'[u].day] = 0
                      /\ row[run'[u].day].status \in {"publishing", "publish_unknown"}
    BY <1>1 DEF UnsentIsClean, Held
  <2>1. CASE u = t
    BY <1>2, <1>3, <1>5, <2>1 DEF Held
  <2>2. CASE u # t
    BY <1>3, <1>4, <1>6, <1>7, <1>9, <2>2 DEF SafeInv, UnsentIsClean, Held
  <2> QED BY <2>1, <2>2
<1>13. OwnersDiffer'
  BY <1>1, <1>3, <1>4 DEF SafeInv, OwnersDiffer
<1>14. DeletedIsDead'
  <2> SUFFICES ASSUME NEW u \in Runs, run'[u].pc = "delete"
               PROVE  /\ KnownId(run'[u].q.id)
                      /\ row[run'[u].day].id = run'[u].q.id =>
                           /\ posts'[run'[u].day] = 0
                           /\ row[run'[u].day].status \in {"publish_failed", "publish_unknown"}
                      /\ \A v \in Runs : run'[v].pc \in Owning /\ run'[v].day = run'[u].day
                           => run'[v].q.id # run'[u].q.id
    BY <1>1 DEF DeletedIsDead, Held, KnownId
  <2>1. u # t /\ run'[u] = run[u]
    BY <1>3, <1>4
  <2> QED BY <1>1, <1>3, <1>4, <1>6, <1>8, <1>9, <2>1 DEF SafeInv, DeletedIsDead, Held
<1>15. NoticeHolds'
  BY <1>1, <1>3, <1>4 DEF SafeInv, NoticeHolds, Held
<1>16. StaleKind'
  BY <1>1, <1>3 DEF SafeInv, StaleKind, KnownId
<1> QED BY <1>10, <1>11, <1>12, <1>13, <1>14, <1>15, <1>16 DEF SafeInv

\* The invariant holds at first and is kept by every step.
LEMMA SafeInit == Init => SafeInv
<1> SUFFICES ASSUME Init PROVE SafeInv
  OBVIOUS
<1>1. \A t \in Runs : run[t].pc = "idle" /\ run[t].stale = {}
  BY DEF Init, IdleRun
<1>2. "idle" \notin Owning \cup Unsent \cup Noticing \cup {"delete"}
  BY DEF Owning, Unsent, Noticing
<1>3. \A d \in Days : row[d] = NoRow /\ posts[d] = 0
  BY DEF Init
<1>4. PostInv
  BY <1>3 DEF PostInv, QuoteAtMostOnce, PostedIsOnRecord
<1> QED BY <1>1, <1>2, <1>3, <1>4 DEF SafeInv, RowHasId, OwnerHolds, UnsentIsClean,
        OwnersDiffer, DeletedIsDead, NoticeHolds, StaleKind

LEMMA SafeNext == TypeOK /\ SafeInv /\ [Next]_vars => SafeInv'
<1> SUFFICES ASSUME TypeOK, SafeInv, [Next]_vars PROVE SafeInv'
  OBVIOUS
<1>1. ASSUME NEW t \in Runs, RunStep(t) \/ Accept(t) PROVE SafeInv'
  BY <1>1, SafeCalm, SafeReadStale, SafeWriteOff, SafeForDay, SafeDelete, SafeCreate, SafeSend,
     SafeQuoteRecord, SafeNoticeRecord DEF RunStep
<1>2. CASE UNCHANGED vars
  <2>1. UNCHANGED <<row, nextId, posts, run>>
    BY <1>2 DEF vars, db, chat
  <2> QED BY <2>1, CalmStep DEF Calm
<1> QED BY <1>1, <1>2, SafeProc DEF Next

\* The strengthened invariant holds in every reachable state: whoever is about to
\* send holds the row that claims the day, alone, and nothing was posted before.
THEOREM InvariantHolds == Spec => []IInv
<1>1. Init => IInv
  BY TypeInit, SafeInit DEF IInv
<1>2. IInv /\ [Next]_vars => IInv'
  BY TypeNext, SafeNext DEF IInv
<1> QED BY <1>1, <1>2, PTL DEF Spec

\* The quote of a day reaches the chat at most once ("a missed quote is better than
\* a duplicate"), whatever crashes, overlaps, is refused or is lost.
THEOREM AtMostOnce == Spec => []QuoteAtMostOnce
<1>1. IInv => QuoteAtMostOnce
  BY DEF IInv, SafeInv, PostInv
<1> QED BY <1>1, InvariantHolds, PTL

\* A posted quote always has a row that does not say it failed, so that no retry
\* deletes it and computes the day again.
THEOREM PostsAreOnRecord == Spec => []PostedIsOnRecord
<1>1. IInv => PostedIsOnRecord
  BY DEF IInv, SafeInv, PostInv
<1> QED BY <1>1, InvariantHolds, PTL
==============================================================================
