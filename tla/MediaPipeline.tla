--------------------------- MODULE MediaPipeline ---------------------------
(***************************************************************************)
(* The media queue: internal/media/pipeline.go with the queries of         *)
(* pgstore.go, the retry rule of retry.go and the analysis of analyse.go.  *)
(*                                                                         *)
(* A row of message_media is queued when its message is saved (Submit) or  *)
(* found by the recovery pass; the router sorts it into the light or the   *)
(* video queue; a worker waits for a slot, claims the row (a lease in the  *)
(* database), looks the file up in the cache, downloads it, asks a model   *)
(* once per file and stores the outcome.                                   *)
(*                                                                         *)
(* Time is relative: every timer counts down to 0, so that time itself is  *)
(* not bounded.  One unit is the recovery interval of the code, 300 s, or  *)
(* a part of it.  Every call to the database, to Telegram or to the model  *)
(* is one step.  Files stand for what identifies a file in the cache (its  *)
(* unique id, its id, the hash of its content), for one kind and one       *)
(* version of the prompt.                                                  *)
(***************************************************************************)
EXTENDS Integers, FiniteSets, Sequences

CONSTANTS
  Rows,              \* media messages
  Files,             \* files
  FileOf,            \* the file of each row
  Videos,            \* rows that go to the video queue
  Unreadable,        \* rows no model can read
  NoRow,             \* the row of an idle worker
  Procs,             \* bot processes
  Light, Video,      \* the workers of a process, by their queue
  QueueSize,         \* queueSize
  MaxConcurrent,     \* maxConcurrent: slots for running jobs
  ItemTimeout,       \* itemTimeout: of a job, and of its lease
  RecoveryInterval,  \* recoveryInterval
  RecoveryBatch,     \* recoveryBatch
  MaxAttempts,       \* retryMaxAttempts
  BaseDelay,         \* retryBaseDelay
  MaxDelay,          \* retryMaxDelay
  Cooldown,          \* how long a provider may ask to wait
  MaxFaults,         \* database faults, cooldowns and stops (bound)
  MaxChanges         \* openings and closings of the group, deletions (bound)

ASSUME MediaPipelineAssumption ==
  /\ FileOf \in [Rows -> Files] /\ NoRow \notin Rows
  /\ Videos \subseteq Rows /\ Unreadable \subseteq Rows
  /\ Light \cap Video = {}
  /\ IsFiniteSet(Procs \X (Light \cup Video))
  /\ QueueSize \in Nat /\ MaxConcurrent \in Nat \ {0}
  /\ ItemTimeout \in Nat \ {0} /\ RecoveryInterval \in Nat \ {0}
  /\ RecoveryBatch \in Nat \ {0} /\ MaxAttempts \in Nat \ {0}
  /\ BaseDelay \in Nat \ {0} /\ MaxDelay \in Nat \ {0} /\ Cooldown \in Nat
  /\ MaxFaults \in Nat /\ MaxChanges \in Nat

Workers == Procs \X (Light \cup Video)

Final == {"disabled", "unsupported", "cached", "analyzed", "failed"}
\* "none": not saved yet; "gone": deleted with its message.
Statuses == {"none", "pending", "processing", "gone"} \cup Final

(* fresh is the time until a row that was never claimed is old enough for   *)
(* the recovery pass, wait the time until next_retry_at.                    *)
Row == [status : Statuses, count : Nat, wait : Nat, fresh : Nat]

\* What analyse returns; "timeout" is the end of the job's own time.
Results == Final \cup {"retry", "cooldown", "timeout"}

(* The steps of a worker.  Those of InTime run on the context of the job.   *)
InTime == {"gate", "find", "fetch", "findAgain", "gateAgain", "describe",
           "model", "store"}
Owning == {"model", "store"}           \* the model call of a file is in flight
Running == InTime \cup {"claim", "join", "finish"}
Labels == {"idle", "slot"} \cup Running

(* Two moments of a job are remembered, its start and, later, the end of    *)
(* its download.  before: the file was in the cache then.  shut: the group  *)
(* was closed then and has been closed ever since.                          *)
Idle == [pc |-> "idle", r |-> NoRow, count |-> 0, left |-> 0,
         again |-> FALSE, res |-> "retry", before |-> FALSE, shut |-> FALSE]

VARIABLES
  \* the database
  row,       \* message_media
  cached,    \* files with a row in media_cache
  open,      \* the group has media analysis on and has accepted the agreement
  \* a process
  up,        \* is it running
  handed,    \* messages that are saved and not yet submitted
  queued,    \* Pipeline.queued
  inbox, light, video,   \* the three channels
  timer,     \* time to the next recovery pass
  found,     \* what the recovery pass has listed and not queued yet
  worker,    \* the workers
  \* history and bounds
  starts,    \* analyses started for a row, without those a cooldown ended
  faults, changes

db == <<row, cached, open>>
queues == <<inbox, light, video>>
proc == <<up, handed, queued, queues, timer, found>>
vars == <<db, proc, worker, starts, faults, changes>>

NoFault == UNCHANGED faults
Fault == faults < MaxFaults /\ faults' = faults + 1

File(w) == FileOf[worker[w].r]
At(w, label) == worker[w].pc = label /\ (label \in InTime => worker[w].left > 0)
Goto(w, label) == worker' = [worker EXCEPT ![w].pc = label]
Conclude(w, res) == worker' = [worker EXCEPT ![w].pc = "finish", ![w].res = res]
Later(a, b) == IF a < b THEN b ELSE a

(***************************************************************************)
(* The way into the queues.                                                *)
(***************************************************************************)
Reserve(p, r) == queued' = [queued EXCEPT ![p] = @ \cup {r}]
Release(p, r) == queued' = [queued EXCEPT ![p] = @ \ {r}]

\* Messages.Save of a media message: the row is pending and not submitted yet.
Save(p, r) ==
  /\ up[p] /\ row[r].status = "none"
  /\ row' = [row EXCEPT ![r] = [status |-> "pending", count |-> 0, wait |-> 0,
                                fresh |-> RecoveryInterval]]
  /\ handed' = [handed EXCEPT ![p] = @ \cup {r}]
  /\ UNCHANGED <<cached, open, up, queued, queues, timer, found, worker, starts,
                 faults, changes>>

\* Submit: never blocks; a full inbox drops the id.
Submit(p, r) ==
  /\ r \in handed[p]
  /\ handed' = [handed EXCEPT ![p] = @ \ {r}]
  /\ IF r \notin queued[p] /\ Len(inbox[p]) < QueueSize
     THEN Reserve(p, r) /\ inbox' = [inbox EXCEPT ![p] = Append(@, r)]
     ELSE UNCHANGED <<queued, inbox>>
  /\ UNCHANGED <<db, up, light, video, timer, found, worker, starts, faults, changes>>

\* Mutant: a row dropped by a full queue stays reserved.
EnqueueLeaks(p, r, reserved) ==
  LET q == IF r \in Videos THEN video[p] ELSE light[p] IN
  IF Len(q) < QueueSize
  THEN /\ queued' = [queued EXCEPT ![p] = reserved]
       /\ IF r \in Videos
          THEN video' = [video EXCEPT ![p] = Append(@, r)] /\ UNCHANGED light
          ELSE light' = [light EXCEPT ![p] = Append(@, r)] /\ UNCHANGED video
  ELSE queued' = [queued EXCEPT ![p] = reserved] /\ UNCHANGED <<light, video>>

\* enqueue: the reservation is kept in a queue, or given up when it is full.
Enqueue(p, r, reserved) ==
  LET q == IF r \in Videos THEN video[p] ELSE light[p] IN
  IF Len(q) < QueueSize
  THEN /\ queued' = [queued EXCEPT ![p] = reserved]
       /\ IF r \in Videos
          THEN video' = [video EXCEPT ![p] = Append(@, r)] /\ UNCHANGED light
          ELSE light' = [light EXCEPT ![p] = Append(@, r)] /\ UNCHANGED video
  ELSE queued' = [queued EXCEPT ![p] = reserved \ {r}] /\ UNCHANGED <<light, video>>

\* route: the row is read to learn its class.
Route(p) ==
  /\ inbox[p] # <<>>
  /\ inbox' = [inbox EXCEPT ![p] = Tail(@)]
  /\ LET r == Head(inbox[p]) IN
     \/ row[r].status # "gone" /\ Enqueue(p, r, queued[p]) /\ NoFault
     \/ row[r].status = "gone" /\ Release(p, r) /\ UNCHANGED <<light, video>> /\ NoFault
     \/ Fault /\ Release(p, r) /\ UNCHANGED <<light, video>>
  /\ UNCHANGED <<db, up, handed, timer, found, worker, starts, changes>>

\* Mutant: rows whose worker died are not listed.
PendingIgnoresLeases ==
  {r \in Rows : row[r].status = "pending" /\ row[r].wait = 0 /\ row[r].fresh = 0}

\* Store.Pending, before its limit.
Pending ==
  {r \in Rows : /\ row[r].status \in {"pending", "processing"}
                /\ row[r].wait = 0 /\ row[r].fresh = 0}

\* recoverPending: the ticker fires and the rows are listed.  The order of the
\* query is left open: any RecoveryBatch of the rows may come first.
RecoverList(p) ==
  /\ up[p] /\ timer[p] = 0 /\ found[p] = {}
  /\ timer' = [timer EXCEPT ![p] = RecoveryInterval]
  /\ \/ /\ \E S \in SUBSET Pending :
             /\ Cardinality(S) = RecoveryBatch \/ S = Pending
             /\ Cardinality(S) <= RecoveryBatch
             /\ found' = [found EXCEPT ![p] = S]
        /\ NoFault
     \/ Fault /\ UNCHANGED found
  /\ UNCHANGED <<db, up, handed, queued, queues, worker, starts, changes>>

\* Mutant: a row that is queued or running already is queued again.
RecoverOneAgain(p) ==
  /\ \E r \in found[p] :
       /\ found' = [found EXCEPT ![p] = @ \ {r}]
       /\ Enqueue(p, r, queued[p] \cup {r})
  /\ UNCHANGED <<db, up, handed, inbox, timer, worker, starts, faults, changes>>

\* recoverPending: one of the rows it has listed, unless it is queued already.
RecoverOne(p) ==
  /\ \E r \in found[p] :
       /\ found' = [found EXCEPT ![p] = @ \ {r}]
       /\ IF r \in queued[p]
          THEN UNCHANGED <<queued, light, video>>
          ELSE Enqueue(p, r, queued[p] \cup {r})
  /\ UNCHANGED <<db, up, handed, inbox, timer, worker, starts, faults, changes>>

(***************************************************************************)
(* A worker: slot, lease, outcome.                                         *)
(***************************************************************************)
\* work: the next job of the worker's queue.
Take(w) ==
  LET p == w[1] IN
  /\ worker[w].pc = "idle" /\ up[p]
  /\ \/ /\ w[2] \in Light /\ light[p] # <<>>
        /\ worker' = [worker EXCEPT ![w] = [Idle EXCEPT !.pc = "slot", !.r = Head(light[p])]]
        /\ light' = [light EXCEPT ![p] = Tail(@)]
        /\ UNCHANGED video
     \/ /\ w[2] \in Video /\ video[p] # <<>>
        /\ worker' = [worker EXCEPT ![w] = [Idle EXCEPT !.pc = "slot", !.r = Head(video[p])]]
        /\ video' = [video EXCEPT ![p] = Tail(@)]
        /\ UNCHANGED light
  /\ UNCHANGED <<db, up, handed, queued, inbox, timer, found, starts, faults, changes>>

\* handle: a slot, and only then the lease.
Acquire(w) ==
  /\ At(w, "slot")
  /\ Cardinality({v \in Workers : v[1] = w[1] /\ worker[v].pc \in Running}) < MaxConcurrent
  /\ Goto(w, "claim")
  /\ UNCHANGED <<db, proc, starts, faults, changes>>

\* The end of a job: its slot and its reservation are free.
Done(w) ==
  /\ worker' = [worker EXCEPT ![w] = Idle]
  /\ Release(w[1], worker[w].r)
  /\ UNCHANGED <<up, handed, queues, timer, found>>

\* Mutant: a row that has its outcome is claimed again.
ClaimableAnyStatus(r) == row[r].status \notin {"none", "gone"} /\ row[r].wait = 0

Claimable(r) == row[r].status \in {"pending", "processing"} /\ row[r].wait = 0

\* Mutant: an expired lease is claimed for free.
ClaimedForFree(r) ==
  [row EXCEPT ![r] = [status |-> "processing", wait |-> ItemTimeout, fresh |-> 0,
                      count |-> @.count]]

\* Claiming a lease that ran out costs an attempt.
Claimed(r) ==
  [row EXCEPT ![r] = [status |-> "processing", wait |-> ItemTimeout, fresh |-> 0,
                      count |-> @.count + (IF @.status = "processing" THEN 1 ELSE 0)]]

\* process, up to the analysis: a row that has used all its attempts is given up.
Claim(w) ==
  LET r == worker[w].r IN
  /\ At(w, "claim")
  /\ UNCHANGED <<cached, open, changes>>
  /\ \/ /\ Claimable(r)
        /\ row' = Claimed(r)
        /\ NoFault
        /\ IF row'[r].count >= MaxAttempts
           THEN /\ worker' = [worker EXCEPT ![w].pc = "finish", ![w].res = "failed",
                                            ![w].count = row'[r].count]
                /\ UNCHANGED starts
           ELSE /\ worker' = [worker EXCEPT ![w].pc = "gate", ![w].left = ItemTimeout,
                                            ![w].count = row'[r].count,
                                            ![w].before = FileOf[r] \in cached,
                                            ![w].shut = ~open]
                /\ starts' = [starts EXCEPT ![r] = @ + 1]
        /\ UNCHANGED proc
     \/ ~Claimable(r) /\ Done(w) /\ NoFault /\ UNCHANGED <<row, starts>>
     \/ /\ Fault     \* the query fails, or its answer is lost
        /\ row' \in {row, IF Claimable(r) THEN Claimed(r) ELSE row}
        /\ Done(w)
        /\ UNCHANGED starts

(***************************************************************************)
(* analyse                                                                 *)
(***************************************************************************)
\* Mutant: an error of the query leaves the gate open.
GateStaysOpen(w, label, next) ==
  /\ At(w, label)
  /\ \/ open /\ next /\ NoFault
     \/ ~open /\ Conclude(w, "disabled") /\ NoFault
     \/ Fault /\ next
  /\ UNCHANGED <<db, proc, starts, changes>>

\* groupOpen: anything short of a clear yes is a no.
Gate(w, label, next) ==
  /\ At(w, label)
  /\ \/ open /\ next /\ NoFault
     \/ ~open /\ Conclude(w, "disabled") /\ NoFault
     \/ Fault /\ Conclude(w, "disabled")
  /\ UNCHANGED <<db, proc, starts, changes>>

FirstGate(w) ==
  Gate(w, "gate", IF worker[w].r \in Unreadable THEN Conclude(w, "unsupported")
                                                ELSE Goto(w, "find"))

\* Mutant: the group is not looked at again after the download.
LastGateSkipped(w) ==
  At(w, "gateAgain") /\ Goto(w, "describe") /\ UNCHANGED <<db, proc, starts, faults, changes>>

\* The last look before the model.
LastGate(w) == Gate(w, "gateAgain", Goto(w, "describe"))

\* Mutant: what the cache holds is not used.
LookUpMisses(w, label, next) ==
  /\ At(w, label)
  /\ Goto(w, next)
  /\ UNCHANGED <<db, proc, starts, faults, changes>>

\* findByIDs and findByContent: a hit ends the analysis, a failed query too.
LookUp(w, label, next) ==
  /\ At(w, label)
  /\ \/ File(w) \in cached /\ Conclude(w, "cached") /\ NoFault
     \/ File(w) \notin cached /\ Goto(w, next) /\ NoFault
     \/ Fault /\ Conclude(w, "failed")
  /\ UNCHANGED <<db, proc, starts, changes>>

Find(w) == LookUp(w, "find", "fetch")

\* Mutant: the cache is not asked again after the download.
FindAgainSkipped(w) == LookUpMisses(w, "findAgain", "gateAgain")

FindAgain(w) == LookUp(w, "findAgain", "gateAgain")

\* The download is done, and what holds at that moment is remembered.
Fetched(w) ==
  worker' = [worker EXCEPT ![w].pc = "findAgain",
                           ![w].before = File(w) \in cached, ![w].shut = ~open]

\* download and normalize: done, an error that may pass, or a final one.
Fetch(w) ==
  /\ At(w, "fetch")
  /\ \/ Fetched(w)
     \/ \E res \in {"retry", "failed"} : Conclude(w, res)
  /\ UNCHANGED <<db, proc, starts, faults, changes>>

(***************************************************************************)
(* describe: one model call per file and process (singleflight).           *)
(***************************************************************************)
InFlight(w) ==
  \E v \in Workers : v[1] = w[1] /\ worker[v].pc \in Owning /\ File(v) = File(w)

Describe(w) ==
  /\ At(w, "describe")
  /\ Goto(w, IF InFlight(w) THEN "join" ELSE "model")
  /\ UNCHANGED <<db, proc, starts, faults, changes>>

\* A provider cooldown: nothing is sent.
Cool(w) ==
  /\ At(w, "describe") /\ ~InFlight(w)
  /\ Fault
  /\ Conclude(w, "cooldown")
  /\ starts' = [starts EXCEPT ![worker[w].r] = @ - 1]
  /\ UNCHANGED <<db, proc, changes>>

\* Mutant: a job does not go again.
JoinedOnce(v, res) ==
  IF worker[v].left = 0 THEN [worker[v] EXCEPT !.pc = "finish", !.res = "retry"]
  ELSE IF res # "timeout" THEN [worker[v] EXCEPT !.pc = "finish", !.res = res]
  ELSE [worker[v] EXCEPT !.pc = "finish", !.res = "failed"]

(* What a job makes of the result of a call that it has waited for.  A job  *)
(* whose own time is over throws it away; one whose time is not goes again, *)
(* once, when the time of the caller was.                                   *)
Joined(v, res) ==
  IF worker[v].left = 0 THEN [worker[v] EXCEPT !.pc = "finish", !.res = "retry"]
  ELSE IF res # "timeout" THEN [worker[v] EXCEPT !.pc = "finish", !.res = res]
  ELSE IF worker[v].again THEN [worker[v] EXCEPT !.pc = "finish", !.res = "failed"]
  ELSE [worker[v] EXCEPT !.pc = "describe", !.again = TRUE]

\* The call of w is over, for w and for every job that has joined it.
Land(w, res) ==
  worker' = [v \in Workers |->
    IF v = w
    THEN [worker[v] EXCEPT !.pc = "finish",
                           !.res = IF res = "timeout" THEN "retry" ELSE res]
    ELSE IF v[1] = w[1] /\ worker[v].pc = "join" /\ File(v) = File(w)
    THEN Joined(v, res)
    ELSE worker[v]]

\* DescribeMedia: a description, an error that may pass, or a final one.
AskModel(w) ==
  /\ At(w, "model")
  /\ \/ Goto(w, "store")
     \/ \E res \in {"retry", "failed"} : Land(w, res)
  /\ UNCHANGED <<db, proc, starts, faults, changes>>

\* CreateCache: a second row of the same file finds the first one.
StoreCache(w) ==
  /\ At(w, "store")
  /\ \/ cached' = cached \cup {File(w)} /\ Land(w, "analyzed") /\ NoFault
     \/ Fault /\ cached' \in {cached, cached \cup {File(w)}} /\ Land(w, "failed")
  /\ UNCHANGED <<row, open, proc, starts, changes>>

\* The job's time is over: what it was doing is cancelled.
TimeOut(w) ==
  /\ worker[w].pc \in InTime /\ worker[w].left = 0
  /\ IF worker[w].pc \in Owning THEN Land(w, "timeout") ELSE Conclude(w, "retry")
  /\ UNCHANGED <<db, proc, starts, faults, changes>>

(***************************************************************************)
(* The outcome                                                             *)
(***************************************************************************)
\* base * 2^(n-1), at most MaxDelay.
RetryDelay(n) ==
  LET d == BaseDelay * 2 ^ (n - 1) IN IF d < MaxDelay THEN d ELSE MaxDelay

PendingFor(n, delay) == [status |-> "pending", count |-> n, wait |-> delay, fresh |-> 0]

\* failure and retryResult: the next state of the row.  An error may carry the
\* time the other side asks to wait.
Outcomes(w) ==
  LET c == worker[w].count
      old == row[worker[w].r] IN
  CASE worker[w].res = "retry" ->
         IF c + 1 >= MaxAttempts
         THEN {[status |-> "failed", count |-> c + 1, wait |-> 0, fresh |-> 0]}
         ELSE {PendingFor(c + 1, Later(RetryDelay(c + 1), hint)) : hint \in {0, Cooldown}}
    [] worker[w].res = "cooldown" ->
         {PendingFor(c, Later(RetryDelay(Later(1, c)), Cooldown))}
    [] OTHER -> {[status |-> worker[w].res, count |-> old.count, wait |-> 0, fresh |-> 0]}

\* Finish: nothing is written for a message that is gone.
Finish(w) ==
  LET r == worker[w].r IN
  /\ At(w, "finish")
  /\ \E o \in Outcomes(w) :
       LET written == IF row[r].status = "gone" THEN row ELSE [row EXCEPT ![r] = o] IN
       \/ row' = written /\ NoFault
       \/ Fault /\ row' \in {row, written}
  /\ Done(w)
  /\ UNCHANGED <<cached, open, starts, changes>>

(***************************************************************************)
(* Processes, the chat and time.                                           *)
(***************************************************************************)
Start(p) ==
  /\ ~up[p]
  /\ up' = [up EXCEPT ![p] = TRUE]
  /\ timer' = [timer EXCEPT ![p] = RecoveryInterval]
  /\ UNCHANGED <<db, handed, queued, queues, found, worker, starts, faults, changes>>

\* A crash, or a shutdown: a cancelled job stores nothing.
Stop(p) ==
  /\ up[p] /\ Fault
  /\ up' = [up EXCEPT ![p] = FALSE]
  /\ handed' = [handed EXCEPT ![p] = {}]
  /\ queued' = [queued EXCEPT ![p] = {}]
  /\ inbox' = [inbox EXCEPT ![p] = <<>>]
  /\ light' = [light EXCEPT ![p] = <<>>]
  /\ video' = [video EXCEPT ![p] = <<>>]
  /\ found' = [found EXCEPT ![p] = {}]
  /\ worker' = [w \in Workers |-> IF w[1] = p THEN Idle ELSE worker[w]]
  /\ UNCHANGED <<db, timer, starts, changes>>

\* The scheduler clears the window a message is in.
Delete(r) ==
  /\ row[r].status \notin {"none", "gone"}
  /\ changes < MaxChanges
  /\ changes' = changes + 1
  /\ row' = [row EXCEPT ![r] = [status |-> "gone", count |-> 0, wait |-> 0, fresh |-> 0]]
  /\ UNCHANGED <<cached, open, proc, worker, starts, faults>>

\* The group's media switch, or its agreement.
Toggle ==
  /\ changes < MaxChanges
  /\ changes' = changes + 1
  /\ open' = ~open
  /\ worker' = [w \in Workers |-> [worker[w] EXCEPT !.shut = @ /\ open]]
  /\ UNCHANGED <<row, cached, proc, starts, faults>>

Less(n) == IF n = 0 THEN 0 ELSE n - 1

\* A job is cancelled as soon as its time is over, but a job that has joined the
\* call of another one goes on waiting.
Clock ==
  /\ \A w \in Workers : worker[w].pc \in InTime => worker[w].left > 0
  /\ row' = [r \in Rows |-> [row[r] EXCEPT !.wait = Less(@), !.fresh = Less(@)]]
  /\ timer' = [p \in Procs |-> Less(timer[p])]
  /\ worker' = [w \in Workers |-> [worker[w] EXCEPT !.left = Less(@)]]
  /\ UNCHANGED <<cached, open, up, handed, queued, queues, found, starts, faults, changes>>

Init ==
  /\ row = [r \in Rows |-> [status |-> "none", count |-> 0, wait |-> 0, fresh |-> 0]]
  /\ cached = {} /\ open = TRUE
  /\ up = [p \in Procs |-> FALSE]
  /\ handed = [p \in Procs |-> {}] /\ queued = [p \in Procs |-> {}]
  /\ inbox = [p \in Procs |-> <<>>]
  /\ light = [p \in Procs |-> <<>>] /\ video = [p \in Procs |-> <<>>]
  /\ timer = [p \in Procs |-> 0] /\ found = [p \in Procs |-> {}]
  /\ worker = [w \in Workers |-> Idle]
  /\ starts = [r \in Rows |-> 0]
  /\ faults = 0 /\ changes = 0

JobStep(w) ==
  \/ Take(w) \/ Acquire(w) \/ Claim(w) \/ FirstGate(w) \/ Find(w) \/ Fetch(w)
  \/ FindAgain(w) \/ LastGate(w) \/ Describe(w) \/ Cool(w) \/ AskModel(w)
  \/ StoreCache(w) \/ TimeOut(w) \/ Finish(w)

QueueStep(p) == Route(p) \/ RecoverList(p) \/ RecoverOne(p) \/ Start(p)

Next ==
  \/ \E p \in Procs : QueueStep(p) \/ Stop(p) \/ \E r \in Rows : Save(p, r) \/ Submit(p, r)
  \/ \E w \in Workers : JobStep(w)
  \/ (\E r \in Rows : Delete(r)) \/ Toggle \/ Clock

Spec == Init /\ [][Next]_vars

(* The goroutines of a running process are scheduled, time passes, and a     *)
(* process that is down is started again (the container's restart policy).   *)
(* The semaphore of the slots serves its waiters in order, hence SF.         *)
(* Nothing makes a fault, a stop, a change or a deletion happen.             *)
Fairness ==
  /\ \A p \in Procs : /\ WF_vars(Route(p)) /\ WF_vars(RecoverList(p))
                      /\ WF_vars(RecoverOne(p)) /\ WF_vars(Start(p))
                      /\ \A r \in Rows : WF_vars(Submit(p, r))
  /\ \A w \in Workers : WF_vars(JobStep(w)) /\ SF_vars(Acquire(w))
  /\ WF_vars(Clock)

FairSpec == Spec /\ Fairness

-----------------------------------------------------------------------------
(***************************************************************************)
(* Properties                                                              *)
(***************************************************************************)
WorkerRecord ==
  [pc : Labels, r : Rows \cup {NoRow}, count : Nat, left : Nat, again : BOOLEAN,
   res : Results \ {"timeout"}, before : BOOLEAN, shut : BOOLEAN]

\* Types of the variables; only an idle worker has no row, and no job ends with
\* the end of its time as its result.
TypeOK ==
  /\ row \in [Rows -> Row] /\ cached \subseteq Files /\ open \in BOOLEAN
  /\ up \in [Procs -> BOOLEAN]
  /\ handed \in [Procs -> SUBSET Rows] /\ queued \in [Procs -> SUBSET Rows]
  /\ inbox \in [Procs -> Seq(Rows)]
  /\ light \in [Procs -> Seq(Rows)] /\ video \in [Procs -> Seq(Rows)]
  /\ timer \in [Procs -> Nat] /\ found \in [Procs -> SUBSET Rows]
  /\ worker \in [Workers -> {x \in WorkerRecord : x.pc = "idle" <=> x.r = NoRow}]
  /\ starts \in [Rows -> Int]
  /\ faults \in Nat /\ changes \in Nat

\* How often a row is in a channel of a process, or with one of its workers.
Times(q, r) == Cardinality({i \in DOMAIN q : q[i] = r})
Places(p, r) ==
  Times(inbox[p], r) + Times(light[p], r) + Times(video[p], r)
  + Cardinality({w \in Workers : w[1] = p /\ worker[w].r = r})

\* A reserved row is in exactly one place, an unreserved one nowhere: no id is
\* lost (its row could not be queued again) and none is queued twice, whatever
\* queues are full and whichever of Submit and the recovery pass comes first.
ReservedOnce ==
  \A p \in Procs, r \in Rows : Places(p, r) = IF r \in queued[p] THEN 1 ELSE 0

\* "the handler path and the recovery pass cannot analyse one file twice"
\* (store.go): two workers never work on one row at a time, although a job that
\* waits for the model call of another outlives its lease.
OneJobPerRow ==
  \A v, w \in Workers :
    v # w /\ {worker[v].pc, worker[w].pc} \subseteq Running \ {"claim"}
    => worker[v].r # worker[w].r

\* A job that runs owns its row: it is processing and has the count of its claim.
JobOwnsRow ==
  \A w \in Workers : worker[w].pc \in Running \ {"claim"} =>
    LET r == row[worker[w].r] IN
    r.status = "gone" \/ (r.status = "processing" /\ r.count = worker[w].count)

\* The three above together: a row has one job at a time, which owns it.
JobsAreExclusive == TypeOK /\ ReservedOnce /\ OneJobPerRow /\ JobOwnsRow

\* A row is analysed at most MaxAttempts times, cooldowns aside, whatever crashes,
\* lost outcomes and cancelled jobs there are: a file that takes the process down
\* is given up.
AttemptsBounded == \A r \in Rows : starts[r] <= MaxAttempts

\* A file that is in the cache when its job starts is not downloaded ("costs
\* nothing, not even a download"), and one that is there when the download ends,
\* because another message with it was analysed meanwhile, is not sent to a model.
\* One that enters the cache later, between the second look and the call, is sent.
CachedFileIsFree ==
  \A w \in Workers : worker[w].before => worker[w].pc \notin {"fetch"} \cup Owning

\* While a group is closed its files are not let out: it was open at some moment of
\* the job before a download, and again at some moment after it before a model call
\* ("the switch may have been turned off ... while the file was downloading"),
\* whatever errors the queries have.  A group that closes after that last look is
\* not seen, not even by a job that waits for another one's call and goes again.
ClosedGroupIsPrivate ==
  \A w \in Workers : worker[w].shut => worker[w].pc \notin {"fetch", "describe"} \cup Owning

\* What leaves the process was not in the cache, and its group was open, when the job
\* looked: once before the download, and once more after it.
SendsOnlyWhatItMay == CachedFileIsFree /\ ClosedGroupIsPrivate

\* No job ends for good because the time of another job was over.
NoForeignTimeout ==
  [][\A w \in Workers :
       worker[w].pc = "join" /\ worker'[w].pc = "finish" /\ worker'[w].res = "failed"
       => \E v \in Workers : /\ worker[v].pc \in Owning /\ worker[v].left > 0
                             /\ File(v) = File(w)]_vars

\* A final outcome is never replaced: a late result does not put a described file
\* back to pending.
OutcomeStays ==
  [][\A r \in Rows : row[r].status \in Final =>
       row'[r].status \in {row[r].status, "gone"}]_vars

\* A saved media message does not stay pending or processing: full queues, crashes,
\* lost writes and expired leases only delay its outcome.
EveryRowSettles ==
  \A r \in Rows : row[r].status = "pending" ~> row[r].status \in Final \cup {"gone"}
=============================================================================
