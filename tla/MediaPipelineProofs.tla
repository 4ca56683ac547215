------------------------- MODULE MediaPipelineProofs -------------------------
(***************************************************************************)
(* Proofs about the media queue, for any number of rows, files, workers    *)
(* and faults, and any bounds of the queues, the slots and the attempts.   *)
(***************************************************************************)
EXTENDS MediaPipelineInv, FunctionTheorems, FiniteSetTheorems, SequenceTheorems, TLAPS

WorkerType == {x \in WorkerRecord : x.pc = "idle" <=> x.r = NoRow}

LEMMA ProcOfWorker == \A w \in Workers : w[1] \in Procs
  BY DEF Workers

LEMMA IdleType == Idle \in WorkerType /\ Idle.pc = "idle" /\ Idle.r = NoRow
  BY DEF Idle, WorkerType, WorkerRecord, Labels, Results, Final

\* The workers of a busy label stay busy with their row.
LEMMA WalkType ==
  ASSUME NEW x \in WorkerType, x.pc # "idle", NEW l \in Labels \ {"idle"}
  PROVE  [x EXCEPT !.pc = l] \in WorkerType
  BY DEF WorkerType, WorkerRecord

LEMMA EndType ==
  ASSUME NEW x \in WorkerType, x.pc # "idle", NEW l \in Labels \ {"idle"}, NEW o \in Results \ {"timeout"}
  PROVE  [x EXCEPT !.pc = l, !.res = o] \in WorkerType
<1> DEFINE y == [x EXCEPT !.pc = l]
<1>1. y \in WorkerType /\ y.pc # "idle"
  BY WalkType DEF WorkerType, WorkerRecord
<1>2. [x EXCEPT !.pc = l, !.res = o] = [y EXCEPT !.res = o]
  OBVIOUS
<1> HIDE DEF y
<1> QED BY <1>1, <1>2 DEF WorkerType, WorkerRecord

LEMMA GotoType ==
  ASSUME TypeOK, NEW w \in Workers, worker[w].pc # "idle", NEW l \in Labels \ {"idle"}, Goto(w, l)
  PROVE  worker' \in [Workers -> WorkerType]
  BY WalkType DEF TypeOK, Goto, WorkerType

LEMMA ConcludeType ==
  ASSUME TypeOK, NEW w \in Workers, worker[w].pc # "idle", NEW o \in Results \ {"timeout"}, Conclude(w, o)
  PROVE  worker' \in [Workers -> WorkerType]
<1>1. "finish" \in Labels \ {"idle"}
  BY DEF Labels, Running
<1>2. worker' = [worker EXCEPT ![w] = [worker[w] EXCEPT !.pc = "finish", !.res = o]]
  BY DEF Conclude
<1> QED BY <1>1, <1>2, EndType DEF TypeOK, WorkerType

LEMMA DoneType ==
  ASSUME TypeOK, NEW w \in Workers, Done(w)
  PROVE  /\ worker' \in [Workers -> WorkerType] /\ queued' \in [Procs -> SUBSET Rows]
         /\ UNCHANGED <<up, handed, queues, timer, found>>
<1>1. worker' = [worker EXCEPT ![w] = Idle]
  BY DEF Done
<1>2. worker' \in [Workers -> WorkerType]
  BY <1>1, IdleType DEF TypeOK, WorkerType
<1>3. queued' \in [Procs -> SUBSET Rows]
  BY ProcOfWorker DEF Done, Release, TypeOK
<1> QED BY <1>2, <1>3 DEF Done

LEMMA JoinedType ==
  ASSUME TypeOK, NEW v \in Workers, worker[v].pc = "join", NEW o \in Results
  PROVE  Joined(v, o) \in WorkerType
<1> DEFINE x == worker[v]
<1>1. x \in WorkerType /\ x.pc # "idle"
  BY DEF TypeOK, WorkerType
<1>2. {"finish", "describe"} \subseteq Labels \ {"idle"} /\ {"retry", "failed"} \subseteq Results \ {"timeout"}
  BY DEF Labels, Running, InTime, Results, Final
<1>3. \A p \in {"retry", "failed", o} \ {"timeout"} : [x EXCEPT !.pc = "finish", !.res = p] \in WorkerType
  BY <1>1, <1>2, EndType
<1>4. [x EXCEPT !.pc = "describe", !.again = TRUE] \in WorkerType
  <2> DEFINE y == [x EXCEPT !.pc = "describe"]
  <2>1. y \in WorkerType
    BY <1>1, <1>2, WalkType
  <2>2. [x EXCEPT !.pc = "describe", !.again = TRUE] = [y EXCEPT !.again = TRUE]
    OBVIOUS
  <2> HIDE DEF y
  <2> QED BY <2>1, <2>2 DEF WorkerType, WorkerRecord
<1> QED BY <1>3, <1>4 DEF Joined

LEMMA LandType ==
  ASSUME TypeOK, NEW w \in Workers, worker[w].pc # "idle", NEW o \in Results, Land(w, o)
  PROVE  worker' \in [Workers -> WorkerType]
<1> SUFFICES ASSUME NEW v \in Workers PROVE worker'[v] \in WorkerType
  BY DEF Land
<1>1. worker[v] \in WorkerType
  BY DEF TypeOK, WorkerType
<1>2. CASE v = w
  <2>1. "finish" \in Labels \ {"idle"} /\ "retry" \in Results \ {"timeout"}
    BY DEF Labels, Running, Results
  <2> DEFINE p == IF o = "timeout" THEN "retry" ELSE o
  <2>2. worker'[v] = [worker[v] EXCEPT !.pc = "finish", !.res = p] /\ p \in Results \ {"timeout"}
    BY <1>2, <2>1 DEF Land
  <2> HIDE DEF p
  <2>3. \A x \in WorkerType, q \in Results \ {"timeout"} :
           x.pc # "idle" => [x EXCEPT !.pc = "finish", !.res = q] \in WorkerType
    BY <2>1, EndType
  <2> QED BY <1>1, <1>2, <2>2, <2>3
<1>3. CASE v # w /\ worker'[v] = Joined(v, o) /\ worker[v].pc = "join"
  BY <1>3, JoinedType
<1>4. v # w => worker'[v] = worker[v] \/ (worker'[v] = Joined(v, o) /\ worker[v].pc = "join")
  BY DEF Land
<1> QED BY <1>1, <1>2, <1>3, <1>4

LEMMA TypeInit == Init => TypeOK
<1> SUFFICES ASSUME Init PROVE TypeOK
  OBVIOUS
<1>1. row \in [Rows -> Row] /\ cached \subseteq Files /\ open \in BOOLEAN
  BY DEF Init, Row, Statuses
<1>2. worker \in [Workers -> WorkerType]
  BY IdleType DEF Init
<1>3. /\ inbox \in [Procs -> Seq(Rows)] /\ light \in [Procs -> Seq(Rows)]
      /\ video \in [Procs -> Seq(Rows)]
  BY EmptySeq DEF Init
<1> QED BY <1>1, <1>2, <1>3 DEF Init, TypeOK, WorkerType

LEMMA SetAt ==
  ASSUME NEW f \in [Procs -> SUBSET Rows], NEW p \in Procs, NEW S \in SUBSET Rows
  PROVE  [f EXCEPT ![p] = S] \in [Procs -> SUBSET Rows]
  OBVIOUS

LEMMA QueueAt ==
  ASSUME NEW f \in [Procs -> Seq(Rows)], NEW p \in Procs, NEW q \in Seq(Rows)
  PROVE  [f EXCEPT ![p] = q] \in [Procs -> Seq(Rows)]
  OBVIOUS

\* A row that is put into a queue, or dropped.
LEMMA EnqueueType ==
  ASSUME TypeOK, NEW p \in Procs, NEW r \in Rows, NEW S \in SUBSET Rows, Enqueue(p, r, S)
  PROVE  /\ queued' \in [Procs -> SUBSET Rows]
         /\ light' \in [Procs -> Seq(Rows)] /\ video' \in [Procs -> Seq(Rows)]
<1>1. /\ queued \in [Procs -> SUBSET Rows]
      /\ light \in [Procs -> Seq(Rows)] /\ video \in [Procs -> Seq(Rows)]
  BY DEF TypeOK
<1>2. Append(light[p], r) \in Seq(Rows) /\ Append(video[p], r) \in Seq(Rows)
  BY <1>1, AppendProperties
<1>3. queued' \in {[queued EXCEPT ![p] = S], [queued EXCEPT ![p] = S \ {r}]}
  BY DEF Enqueue
<1>4. light' \in {light, [light EXCEPT ![p] = Append(light[p], r)]}
  BY DEF Enqueue
<1>5. video' \in {video, [video EXCEPT ![p] = Append(video[p], r)]}
  BY DEF Enqueue
<1>6. queued' \in [Procs -> SUBSET Rows]
  BY <1>1, <1>3, SetAt
<1>7. light' \in [Procs -> Seq(Rows)]
  BY <1>1, <1>2, <1>4, QueueAt
<1>8. video' \in [Procs -> Seq(Rows)]
  BY <1>1, <1>2, <1>5, QueueAt
<1> QED BY <1>6, <1>7, <1>8

LEMMA TypeQueues ==
  ASSUME TypeOK, NEW p \in Procs, QueueStep(p) \/ Stop(p) \/ \E r \in Rows : Save(p, r) \/ Submit(p, r)
  PROVE  TypeOK'
<1> USE DEF TypeOK, NoFault, Fault
<1>1. ASSUME NEW r \in Rows, Save(p, r) PROVE TypeOK'
  <2>1. row' \in [Rows -> Row]
    BY <1>1, MediaPipelineAssumption DEF Save, Row, Statuses
  <2> QED BY <1>1, <2>1 DEF Save, queues
<1>2. ASSUME NEW r \in Rows, Submit(p, r) PROVE TypeOK'
  <2>1. inbox' \in [Procs -> Seq(Rows)]
    <3>1. Append(inbox[p], r) \in Seq(Rows) /\ inbox \in [Procs -> Seq(Rows)]
      BY AppendProperties
    <3>2. inbox' \in {inbox, [inbox EXCEPT ![p] = Append(inbox[p], r)]}
      BY <1>2 DEF Submit
    <3> HIDE DEF TypeOK
    <3> QED BY <3>1, <3>2, QueueAt
  <2>2. queued' \in [Procs -> SUBSET Rows]
    <3>1. queued[p] \cup {r} \in SUBSET Rows /\ queued \in [Procs -> SUBSET Rows]
      OBVIOUS
    <3>2. queued' \in {queued, [queued EXCEPT ![p] = queued[p] \cup {r}]}
      BY <1>2 DEF Submit, Reserve
    <3> HIDE DEF TypeOK
    <3> QED BY <3>1, <3>2, SetAt
  <2> QED BY <1>2, <2>1, <2>2 DEF Submit, db
<1>3. CASE Route(p)
  <2>1. inbox[p] \in Seq(Rows) /\ inbox[p] # <<>>
    BY <1>3 DEF Route
  <2>2. Head(inbox[p]) \in Rows /\ Tail(inbox[p]) \in Seq(Rows)
    BY <2>1, HeadTailProperties
  <2>3. inbox' \in [Procs -> Seq(Rows)]
    BY <1>3, <2>2 DEF Route
  <2> DEFINE r == Head(inbox[p])
  <2>4. \/ Enqueue(p, r, queued[p])
        \/ Release(p, r) /\ UNCHANGED <<light, video>>
    BY <1>3 DEF Route
  <2>5. /\ queued' \in [Procs -> SUBSET Rows]
        /\ light' \in [Procs -> Seq(Rows)] /\ video' \in [Procs -> Seq(Rows)]
    <3>1. CASE Enqueue(p, r, queued[p])
      <4>1. queued[p] \in SUBSET Rows
        OBVIOUS
      <4> HIDE DEF r, TypeOK
      <4> QED BY <2>2, <3>1, <4>1, EnqueueType DEF r
    <3>2. CASE Release(p, r) /\ UNCHANGED <<light, video>>
      BY <3>2 DEF Release
    <3> QED BY <2>4, <3>1, <3>2
  <2> QED BY <1>3, <2>3, <2>5, MediaPipelineAssumption DEF Route, db
<1>4. CASE RecoverList(p)
  <2>1. found' \in [Procs -> SUBSET Rows]
    <3>1. Pending \in SUBSET Rows
      BY DEF Pending
    <3>2. PICK S \in SUBSET Rows : found' \in {found, [found EXCEPT ![p] = S]}
      BY <1>4, <3>1 DEF RecoverList
    <3>3. found \in [Procs -> SUBSET Rows]
      OBVIOUS
    <3> HIDE DEF TypeOK
    <3> QED BY <3>2, <3>3, SetAt
  <2>2. timer' \in [Procs -> Nat] /\ faults' \in Nat
    BY <1>4, MediaPipelineAssumption DEF RecoverList
  <2> QED BY <1>4, <2>1, <2>2 DEF RecoverList, db, queues
<1>5. CASE RecoverOne(p)
  <2>1. PICK r \in found[p] :
          /\ found' = [found EXCEPT ![p] = @ \ {r}]
          /\ IF r \in queued[p] THEN UNCHANGED <<queued, light, video>>
                                ELSE Enqueue(p, r, queued[p] \cup {r})
    BY <1>5 DEF RecoverOne
  <2>2. /\ queued' \in [Procs -> SUBSET Rows]
        /\ light' \in [Procs -> Seq(Rows)] /\ video' \in [Procs -> Seq(Rows)]
    <3>1. CASE Enqueue(p, r, queued[p] \cup {r})
      <4>1. r \in Rows /\ queued[p] \cup {r} \in SUBSET Rows
        OBVIOUS
      <4> HIDE DEF TypeOK
      <4> QED BY <3>1, <4>1, EnqueueType
    <3>2. CASE UNCHANGED <<queued, light, video>>
      BY <3>2
    <3> QED BY <2>1, <3>1, <3>2
  <2> QED BY <1>5, <2>1, <2>2 DEF RecoverOne, db
<1>6. CASE Start(p)
  BY <1>6, MediaPipelineAssumption DEF Start, db, queues
<1>7. CASE Stop(p)
  <2>1. worker' \in [Workers -> WorkerType]
    BY <1>7, IdleType DEF Stop, WorkerType
  <2> QED BY <1>7, <2>1, EmptySeq, MediaPipelineAssumption DEF Stop, db, WorkerType
<1> HIDE DEF TypeOK, NoFault, Fault
<1> QED BY <1>1, <1>2, <1>3, <1>4, <1>5, <1>6, <1>7 DEF QueueStep

LEMMA LessType == \A n \in Nat : Less(n) \in Nat /\ Less(n) <= n
  BY DEF Less

\* What a claim makes of a row, and what a job makes of it in the end.
LEMMA ClaimedType ==
  ASSUME TypeOK, NEW r \in Rows PROVE Claimed(r) \in [Rows -> Row]
  BY MediaPipelineAssumption DEF TypeOK, Claimed, Row, Statuses

LEMMA OutcomeType ==
  ASSUME TypeOK, NEW w \in Workers, worker[w].pc = "finish", NEW o \in Outcomes(w)
  PROVE  o \in Row
<1> DEFINE c == worker[w].count
<1>1. c \in Nat /\ worker[w].r \in Rows /\ row[worker[w].r] \in Row
  BY DEF TypeOK, WorkerRecord
<1>2. worker[w].res \in Results \ {"timeout"}
  BY DEF TypeOK, WorkerRecord
<1>3. \A n \in Nat \ {0} : RetryDelay(n) \in Int
  BY MediaPipelineAssumption DEF RetryDelay
<1>4. Later(1, c) \in Nat \ {0}
  BY <1>1 DEF Later
<1>5. \A h \in {0, Cooldown} : h \in Nat
  BY MediaPipelineAssumption
<1>6. CASE worker[w].res = "retry"
  <2>1. RetryDelay(c + 1) \in Int
    BY <1>1, <1>3
  <2>2. \A h \in {0, Cooldown} : Later(RetryDelay(c + 1), h) \in Nat
    BY <1>5, <2>1 DEF Later
  <2>3. \A h \in Nat : PendingFor(c + 1, h) \in Row
    BY <1>1 DEF PendingFor, Row, Statuses
  <2>4. [status |-> "failed", count |-> c + 1, wait |-> 0, fresh |-> 0] \in Row
    BY <1>1 DEF Row, Statuses, Final
  <2>5. \/ o = [status |-> "failed", count |-> c + 1, wait |-> 0, fresh |-> 0]
        \/ \E h \in {0, Cooldown} : o = PendingFor(c + 1, Later(RetryDelay(c + 1), h))
    BY <1>6 DEF Outcomes
  <2> QED BY <2>2, <2>3, <2>4, <2>5
<1>7. CASE worker[w].res = "cooldown"
  <2>1. Later(RetryDelay(Later(1, c)), Cooldown) \in Nat
    <3>1. RetryDelay(Later(1, c)) \in Int /\ Cooldown \in Nat
      BY <1>3, <1>4, <1>5
    <3> QED BY <3>1 DEF Later
  <2>2. \A h \in Nat : PendingFor(c, h) \in Row
    BY <1>1 DEF PendingFor, Row, Statuses
  <2> QED BY <1>7, <2>1, <2>2 DEF Outcomes
<1>8. CASE worker[w].res \notin {"retry", "cooldown"}
  <2>1. o = [status |-> worker[w].res, count |-> row[worker[w].r].count, wait |-> 0, fresh |-> 0]
    <3>1. worker[w].res # "retry" /\ worker[w].res # "cooldown"
      BY <1>8
    <3>2. Outcomes(w) = {[status |-> worker[w].res, count |-> row[worker[w].r].count,
                          wait |-> 0, fresh |-> 0]}
      BY <3>1 DEF Outcomes
    <3> QED BY <3>2
  <2> QED BY <1>1, <1>2, <1>8, <2>1 DEF Row, Statuses, Results
<1> QED BY <1>6, <1>7, <1>8

\* The steps of a job that change nothing but the worker, the cache and the starts.
Analysing(w) ==
  \/ FirstGate(w) \/ Find(w) \/ Fetch(w) \/ FindAgain(w) \/ LastGate(w) \/ Describe(w)
  \/ Cool(w) \/ AskModel(w) \/ StoreCache(w) \/ TimeOut(w)

LEMMA BusyType ==
  ASSUME TypeOK, NEW w \in Workers, worker[w].pc # "idle"
  PROVE  worker[w] \in WorkerType /\ worker[w].r \in Rows
  BY DEF TypeOK, WorkerType, WorkerRecord

\* What the end of a download does to the worker.
LEMMA FetchedMoves ==
  ASSUME TypeOK, NEW w \in Workers, Fetched(w)
  PROVE  \E b, s \in BOOLEAN :
           /\ b = (File(w) \in cached) /\ s = ~open
           /\ worker' = [worker EXCEPT ![w] = [@ EXCEPT !.pc = "findAgain", !.before = b, !.shut = s]]
<1>1. PICK b \in BOOLEAN : b = (File(w) \in cached)
  <2>1. CASE File(w) \in cached
    <3>1. TRUE = (File(w) \in cached)
      BY <2>1
    <3> QED BY <3>1
  <2>2. CASE File(w) \notin cached
    <3>1. FALSE = (File(w) \in cached)
      BY <2>2
    <3> QED BY <3>1
  <2> QED BY <2>1, <2>2
<1>2. PICK s \in BOOLEAN : s = ~open
  OBVIOUS
<1>3. worker' = [worker EXCEPT ![w] = [@ EXCEPT !.pc = "findAgain", !.before = b, !.shut = s]]
  BY <1>1, <1>2 DEF Fetched
<1> QED BY <1>1, <1>2, <1>3

LEMMA FetchedAt ==
  ASSUME TypeOK, NEW w \in Workers, Fetched(w), NEW v \in Workers
  PROVE  /\ v # w => worker'[v] = worker[v]
         /\ v = w => /\ worker'[v].pc = "findAgain" /\ worker'[v].r = worker[v].r
                     /\ worker'[v].count = worker[v].count /\ worker'[v].left = worker[v].left
                     /\ worker'[v].again = worker[v].again /\ worker'[v].res = worker[v].res
                     /\ worker'[v].before => File(v) \in cached
                     /\ worker'[v].shut => ~open
<1>1. worker \in [Workers -> WorkerRecord]
  BY DEF TypeOK
<1>2. PICK b, s : /\ b = (File(w) \in cached) /\ s = ~open
                  /\ worker' = [worker EXCEPT ![w] = [@ EXCEPT !.pc = "findAgain", !.before = b, !.shut = s]]
  BY FetchedMoves
<1>3. v # w => worker'[v] = worker[v]
  BY <1>1, <1>2
<1>4. CASE v = w
  <2>1. worker'[w] = [worker[w] EXCEPT !.pc = "findAgain", !.before = b, !.shut = s]
    BY <1>1, <1>2
  <2>2. /\ worker'[w].pc = "findAgain" /\ worker'[w].r = worker[w].r
        /\ worker'[w].count = worker[w].count /\ worker'[w].left = worker[w].left
        /\ worker'[w].again = worker[w].again /\ worker'[w].res = worker[w].res
        /\ worker'[w].before = b /\ worker'[w].shut = s
    BY <1>1, <2>1 DEF WorkerRecord
  <2> QED BY <1>2, <1>4, <2>2
<1> QED BY <1>3, <1>4

LEMMA FetchedType ==
  ASSUME TypeOK, NEW w \in Workers, worker[w].pc # "idle", Fetched(w)
  PROVE  worker' \in [Workers -> WorkerType]
<1>1. PICK b \in BOOLEAN, s \in BOOLEAN :
        worker' = [worker EXCEPT ![w] = [@ EXCEPT !.pc = "findAgain", !.before = b, !.shut = s]]
  BY FetchedMoves
<1> DEFINE y1 == [worker[w] EXCEPT !.pc = "findAgain"]
           y2 == [y1 EXCEPT !.before = b]
           y3 == [y2 EXCEPT !.shut = s]
<1>2. y1 \in WorkerType
  BY BusyType, WalkType DEF Labels, Running, InTime
<1>3. y2 \in WorkerType
  <2> HIDE DEF y1
  <2> QED BY <1>2 DEF WorkerType, WorkerRecord
<1>4. y3 \in WorkerType
  <2> HIDE DEF y2
  <2> QED BY <1>3 DEF WorkerType, WorkerRecord
<1>5. worker' = [worker EXCEPT ![w] = y3]
  BY <1>1
<1> QED
  <2> HIDE DEF y3
  <2> QED BY <1>4, <1>5 DEF TypeOK, WorkerType

LEMMA TypeAnalysing ==
  ASSUME TypeOK, NEW w \in Workers, Analysing(w)
  PROVE  TypeOK'
<1>1. worker[w].pc # "idle"
  BY DEF Analysing, FirstGate, Find, Fetch, FindAgain, LastGate, Describe, Cool, AskModel,
         StoreCache, TimeOut, Gate, LookUp, At, InTime
<1>2. /\ {"find", "fetch", "findAgain", "gateAgain", "describe", "join", "model", "store"}
           \subseteq Labels \ {"idle"}
      /\ {"disabled", "unsupported", "cached", "failed", "retry", "cooldown", "analyzed"}
           \subseteq Results \ {"timeout"}
      /\ Results \ {"timeout"} \subseteq Results /\ "timeout" \in Results
  BY DEF Labels, Running, InTime, Results, Final
<1>3. \/ \E l \in {"find", "fetch", "findAgain", "gateAgain", "describe", "join", "model", "store"} :
           Goto(w, l)
      \/ \E o \in {"disabled", "unsupported", "cached", "failed", "retry", "cooldown", "analyzed"} :
           Conclude(w, o) \/ Land(w, o)
      \/ Land(w, "timeout")
      \/ Fetched(w)
  BY DEF Analysing, FirstGate, Find, Fetch, FindAgain, LastGate, Describe, Cool, AskModel,
         StoreCache, TimeOut, Gate, LookUp
<1>4. worker' \in [Workers -> WorkerType]
  BY <1>1, <1>2, <1>3, GotoType, ConcludeType, LandType, FetchedType
<1>5. /\ UNCHANGED <<row, open, proc, changes>>
      /\ cached' \in {cached, cached \cup {File(w)}}
      /\ faults' \in {faults, faults + 1}
      /\ starts' = starts \/ starts' = [starts EXCEPT ![worker[w].r] = @ - 1]
  BY DEF Analysing, FirstGate, Find, Fetch, FindAgain, LastGate, Describe, Cool, AskModel,
         StoreCache, TimeOut, Gate, LookUp, db, Fault, NoFault
<1>6. cached' \subseteq Files /\ faults' \in Nat /\ starts' \in [Rows -> Int]
  BY <1>1, <1>5, BusyType, MediaPipelineAssumption DEF TypeOK, File
<1> QED BY <1>4, <1>5, <1>6 DEF TypeOK, WorkerType, proc, queues

LEMMA TypeClaim ==
  ASSUME TypeOK, NEW w \in Workers, Claim(w)
  PROVE  TypeOK'
<1> DEFINE r == worker[w].r
           x == worker[w]
<1>1. x.pc = "claim" /\ r \in Rows /\ x \in WorkerType
  BY BusyType DEF Claim, At
<1>2. Claimed(r) \in [Rows -> Row] /\ row \in [Rows -> Row]
  BY <1>1, ClaimedType DEF TypeOK
<1>3. /\ UNCHANGED <<cached, open, changes>> /\ faults' \in {faults, faults + 1}
      /\ starts' \in {starts, [starts EXCEPT ![r] = @ + 1]}
      /\ row' \in {row, Claimed(r)}
  BY DEF Claim, NoFault, Fault
<1>4. row' \in [Rows -> Row] /\ faults' \in Nat /\ starts' \in [Rows -> Int]
  BY <1>1, <1>2, <1>3 DEF TypeOK
<1> DEFINE c == row'[r].count
<1>5. c \in Nat
  BY <1>1, <1>4 DEF Row
<1>6. CASE Done(w)
  BY <1>3, <1>4, <1>6, DoneType DEF TypeOK, WorkerType, queues
<1>7. CASE /\ UNCHANGED proc
           /\ worker' = [worker EXCEPT ![w].pc = "finish", ![w].res = "failed", ![w].count = c]
  <2> HIDE DEF c
  <2> DEFINE y == [x EXCEPT !.pc = "finish", !.res = "failed"]
  <2>1. y \in WorkerType
    BY <1>1, EndType DEF Labels, Running, Results, Final
  <2>2. worker' = [worker EXCEPT ![w] = [y EXCEPT !.count = c]]
    BY <1>7
  <2>3. [y EXCEPT !.count = c] \in WorkerType
    <3> HIDE DEF y
    <3> QED BY <1>5, <2>1 DEF WorkerType, WorkerRecord
  <2>4. worker' \in [Workers -> WorkerType]
    <3> HIDE DEF y
    <3> QED BY <2>2, <2>3 DEF TypeOK, WorkerType
  <2> QED BY <1>3, <1>4, <1>7, <2>4 DEF TypeOK, WorkerType, proc, queues
<1>8. CASE /\ UNCHANGED proc
           /\ worker' = [worker EXCEPT ![w].pc = "gate", ![w].left = ItemTimeout, ![w].count = c,
                                       ![w].before = FileOf[r] \in cached, ![w].shut = ~open]
  <2> HIDE DEF c
  <2> DEFINE y1 == [x EXCEPT !.pc = "gate"]
             y2 == [y1 EXCEPT !.left = ItemTimeout]
             y3 == [y2 EXCEPT !.count = c]
             y4 == [y3 EXCEPT !.before = FileOf[r] \in cached]
             y5 == [y4 EXCEPT !.shut = ~open]
  <2>1. y1 \in WorkerType
    BY <1>1, WalkType DEF Labels, Running, InTime
  <2>2. y2 \in WorkerType
    <3> HIDE DEF y1
    <3> QED BY <2>1, MediaPipelineAssumption DEF WorkerType, WorkerRecord
  <2>3. y3 \in WorkerType
    <3> HIDE DEF y2
    <3> QED BY <1>5, <2>2 DEF WorkerType, WorkerRecord
  <2>4. y4 \in WorkerType
    <3>1. PICK b \in BOOLEAN : b = (FileOf[r] \in cached)
      <4>1. CASE FileOf[r] \in cached
        <5>1. TRUE = (FileOf[r] \in cached)
          BY <4>1
        <5> QED BY <5>1
      <4>2. CASE FileOf[r] \notin cached
        <5>1. FALSE = (FileOf[r] \in cached)
          BY <4>2
        <5> QED BY <5>1
      <4> QED BY <4>1, <4>2
    <3>2. y4 = [y3 EXCEPT !.before = b]
      BY <3>1
    <3> HIDE DEF y3, y4
    <3> QED BY <2>3, <3>2 DEF WorkerType, WorkerRecord
  <2>5. y5 \in WorkerType
    <3>1. PICK b \in BOOLEAN : b = ~open
      OBVIOUS
    <3>2. y5 = [y4 EXCEPT !.shut = b]
      BY <3>1
    <3> HIDE DEF y4, y5
    <3> QED BY <2>4, <3>2 DEF WorkerType, WorkerRecord
  <2>6. worker' = [worker EXCEPT ![w] = y5]
    BY <1>8
  <2>7. worker' \in [Workers -> WorkerType]
    <3> HIDE DEF y5
    <3> QED BY <2>5, <2>6 DEF TypeOK, WorkerType
  <2> QED BY <1>3, <1>4, <1>8, <2>7 DEF TypeOK, WorkerType, proc, queues
<1> QED BY <1>6, <1>7, <1>8 DEF Claim

LEMMA TypeJobs ==
  ASSUME TypeOK, NEW w \in Workers, JobStep(w)
  PROVE  TypeOK'
<1>1. CASE Take(w)
  <2> DEFINE p == w[1]
  <2>1. p \in Procs /\ light \in [Procs -> Seq(Rows)] /\ video \in [Procs -> Seq(Rows)]
    BY ProcOfWorker DEF TypeOK
  <2>2. PICK q \in {light[p], video[p]} :
          /\ q # <<>>
          /\ worker' = [worker EXCEPT ![w] = [Idle EXCEPT !.pc = "slot", !.r = Head(q)]]
    BY <1>1 DEF Take
  <2>3. Head(q) \in Rows
    BY <2>1, <2>2, HeadTailProperties
  <2>4. [Idle EXCEPT !.pc = "slot", !.r = Head(q)] \in WorkerType
    BY <2>3, MediaPipelineAssumption DEF Idle, WorkerType, WorkerRecord, Labels, Results, Final
  <2>5. worker' \in [Workers -> WorkerType]
    BY <2>2, <2>4 DEF TypeOK, WorkerType
  <2>6. light' \in [Procs -> Seq(Rows)]
    <3>1. CASE light' = [light EXCEPT ![p] = Tail(@)] /\ light[p] # <<>>
      BY <2>1, <3>1, HeadTailProperties, QueueAt
    <3>2. CASE light' = light
      BY <2>1, <3>2
    <3> QED BY <1>1, <3>1, <3>2 DEF Take
  <2>7. video' \in [Procs -> Seq(Rows)]
    <3>1. CASE video' = [video EXCEPT ![p] = Tail(@)] /\ video[p] # <<>>
      BY <2>1, <3>1, HeadTailProperties, QueueAt
    <3>2. CASE video' = video
      BY <2>1, <3>2
    <3> QED BY <1>1, <3>1, <3>2 DEF Take
  <2> QED BY <1>1, <2>5, <2>6, <2>7 DEF Take, TypeOK, WorkerType, db
<1>2. CASE Acquire(w)
  <2>1. worker' \in [Workers -> WorkerType]
    BY <1>2, GotoType DEF Acquire, At, Labels, Running
  <2> QED BY <1>2, <2>1 DEF Acquire, TypeOK, WorkerType, db, proc, queues
<1>3. CASE Finish(w)
  <2>1. worker[w].pc = "finish" /\ Done(w)
    BY <1>3 DEF Finish, At
  <2>2. PICK o \in Outcomes(w) : row' \in {row, [row EXCEPT ![worker[w].r] = o]}
    BY <1>3 DEF Finish
  <2>3. row' \in [Rows -> Row]
    BY <2>1, <2>2, OutcomeType, BusyType DEF TypeOK
  <2>4. UNCHANGED <<cached, open, starts, changes>> /\ faults' \in {faults, faults + 1}
    BY <1>3 DEF Finish, Fault, NoFault
  <2> QED BY <2>1, <2>3, <2>4, DoneType DEF TypeOK, WorkerType, queues
<1> QED BY <1>1, <1>2, <1>3, TypeClaim, TypeAnalysing DEF JobStep, Analysing

LEMMA TypeEnv ==
  ASSUME TypeOK, (\E r \in Rows : Delete(r)) \/ Toggle \/ Clock \/ UNCHANGED vars
  PROVE  TypeOK'
<1>1. ASSUME NEW r \in Rows, Delete(r) PROVE TypeOK'
  <2>1. row' \in [Rows -> Row] /\ changes' \in Nat
    BY <1>1 DEF Delete, TypeOK, Row, Statuses
  <2> QED BY <1>1, <2>1 DEF Delete, TypeOK, proc, queues
<1>2. CASE Toggle
  <2>1. ASSUME NEW w \in Workers PROVE worker'[w] \in WorkerType
    <3>1. worker[w] \in WorkerType
      BY DEF TypeOK, WorkerType
    <3>2. PICK b \in BOOLEAN : b = (worker[w].shut /\ open)
      OBVIOUS
    <3>3. worker'[w] = [worker[w] EXCEPT !.shut = b]
      BY <1>2, <3>2 DEF Toggle
    <3> QED BY <3>1, <3>3 DEF WorkerType, WorkerRecord
  <2>2. worker' \in [Workers -> WorkerType]
    BY <1>2, <2>1 DEF Toggle
  <2>3. open' \in BOOLEAN /\ changes' \in Nat
    BY <1>2 DEF Toggle, TypeOK
  <2> QED BY <1>2, <2>2, <2>3 DEF Toggle, TypeOK, WorkerType, proc, queues
<1>3. CASE Clock
  <2>1. ASSUME NEW w \in Workers PROVE worker'[w] \in WorkerType
    <3>1. worker[w] \in WorkerType
      BY DEF TypeOK, WorkerType
    <3>2. Less(worker[w].left) \in Nat
      BY <3>1, LessType DEF WorkerType, WorkerRecord
    <3>3. worker'[w] = [worker[w] EXCEPT !.left = Less(worker[w].left)]
      BY <1>3 DEF Clock
    <3> QED BY <3>1, <3>2, <3>3 DEF WorkerType, WorkerRecord
  <2>2. worker' \in [Workers -> WorkerType]
    BY <1>3, <2>1 DEF Clock
  <2>3. row' \in [Rows -> Row]
    <3> SUFFICES ASSUME NEW r \in Rows PROVE row'[r] \in Row
      BY <1>3 DEF Clock
    <3>1. row[r] \in Row
      BY DEF TypeOK
    <3>2. Less(row[r].wait) \in Nat /\ Less(row[r].fresh) \in Nat
      BY <3>1, LessType DEF Row
    <3>3. row'[r] = [row[r] EXCEPT !.wait = Less(row[r].wait), !.fresh = Less(row[r].fresh)]
      BY <1>3 DEF Clock
    <3> QED BY <3>1, <3>2, <3>3 DEF Row
  <2>4. timer' \in [Procs -> Nat]
    BY <1>3, LessType DEF Clock, TypeOK
  <2> QED BY <1>3, <2>2, <2>3, <2>4 DEF Clock, TypeOK, WorkerType, queues
<1>4. CASE UNCHANGED vars
  BY <1>4 DEF vars, db, proc, queues, TypeOK
<1> QED BY <1>1, <1>2, <1>3, <1>4

LEMMA TypeNext == TypeOK /\ [Next]_vars => TypeOK'
  BY TypeQueues, TypeJobs, TypeEnv DEF Next

(***************************************************************************)
(* A row is in one place of a process                                      *)
(***************************************************************************)
IndexesOf(q, r) == {i \in DOMAIN q : q[i] = r}
HoldersOf(p, r) == {w \in Workers : w[1] = p /\ worker[w].r = r}

LEMMA WorkersAreFinite == IsFiniteSet(Workers)
  BY MediaPipelineAssumption DEF Workers

LEMMA HoldersAreFinite ==
  ASSUME NEW p, NEW r
  PROVE  IsFiniteSet(HoldersOf(p, r)) /\ Cardinality(HoldersOf(p, r)) \in Nat
<1>1. HoldersOf(p, r) \in SUBSET Workers
  BY DEF HoldersOf
<1> QED BY <1>1, WorkersAreFinite, FS_Subset, FS_CardinalityType

LEMMA IndexesAreFinite ==
  ASSUME NEW q \in Seq(Rows), NEW r
  PROVE  IsFiniteSet(IndexesOf(q, r)) /\ Times(q, r) \in Nat /\ Times(q, r) = Cardinality(IndexesOf(q, r))
<1>1. IndexesOf(q, r) \in SUBSET (1..Len(q)) /\ Len(q) \in Nat
  BY LenProperties DEF IndexesOf
<1>2. IsFiniteSet(1..Len(q))
  BY <1>1, FS_Interval
<1> QED BY <1>1, <1>2, FS_Subset, FS_CardinalityType DEF Times, IndexesOf

LEMMA TimesOfAppend ==
  ASSUME NEW q \in Seq(Rows), NEW r \in Rows, NEW x \in Rows
  PROVE  Times(Append(q, x), r) = Times(q, r) + (IF x = r THEN 1 ELSE 0)
<1> DEFINE n == Len(q) + 1
<1>1. /\ Append(q, x) \in Seq(Rows) /\ DOMAIN Append(q, x) = 1..n /\ DOMAIN q = 1..(n - 1) /\ n \in Nat
      /\ \A i \in 1..(n - 1) : Append(q, x)[i] = q[i]
      /\ Append(q, x)[n] = x
  BY AppendProperties, LenProperties
<1>2. n \notin IndexesOf(q, r)
  BY <1>1 DEF IndexesOf
<1>3. /\ IsFiniteSet(IndexesOf(q, r)) /\ Times(q, r) = Cardinality(IndexesOf(q, r))
      /\ Times(Append(q, x), r) = Cardinality(IndexesOf(Append(q, x), r)) /\ Times(q, r) \in Nat
  BY <1>1, IndexesAreFinite
<1>4. CASE x = r
  <2>1. IndexesOf(Append(q, x), r) = IndexesOf(q, r) \cup {n}
    BY <1>1, <1>4 DEF IndexesOf
  <2>2. Cardinality(IndexesOf(q, r) \cup {n}) = Cardinality(IndexesOf(q, r)) + 1
    BY <1>2, <1>3, FS_AddElement
  <2> HIDE DEF n
  <2> QED BY <1>4, <1>3, <2>1, <2>2
<1>5. CASE x # r
  <2>1. IndexesOf(Append(q, x), r) = IndexesOf(q, r)
    BY <1>1, <1>5 DEF IndexesOf
  <2> QED BY <1>5, <1>3, <2>1
<1> QED BY <1>4, <1>5

LEMMA TimesOfTail ==
  ASSUME NEW q \in Seq(Rows), q # <<>>, NEW r \in Rows
  PROVE  /\ Head(q) \in Rows /\ Tail(q) \in Seq(Rows)
         /\ Times(q, r) = Times(Tail(q), r) + (IF Head(q) = r THEN 1 ELSE 0)
<1> DEFINE n == Len(q)
           S == IndexesOf(Tail(q), r)
           T == IndexesOf(q, r) \ {1}
<1>1. /\ Head(q) \in Rows /\ Tail(q) \in Seq(Rows) /\ n \in Nat \ {0}
      /\ DOMAIN q = 1..n /\ DOMAIN Tail(q) = 1..(n - 1) /\ q[1] = Head(q)
      /\ \A i \in 1..(n - 1) : Tail(q)[i] = q[i + 1]
  BY HeadTailProperties, LenProperties, EmptySeq
<1>2. IsFiniteSet(S) /\ IsFiniteSet(T) /\ IsFiniteSet(IndexesOf(q, r))
  BY <1>1, IndexesAreFinite, FS_RemoveElement
<1>3. Cardinality(S) = Cardinality(T)
  <2> DEFINE f == [i \in S |-> i + 1]
  <2>1. f \in [S -> T]
    BY <1>1 DEF IndexesOf
  <2>2. \A i, j \in S : f[i] = f[j] => i = j
    BY <1>1 DEF IndexesOf
  <2>3. \A k \in T : \E i \in S : f[i] = k
    <3> SUFFICES ASSUME NEW k \in T PROVE \E i \in S : f[i] = k
      OBVIOUS
    <3>1. k \in 2..n /\ q[k] = r
      BY <1>1 DEF IndexesOf
    <3>2. k - 1 \in S /\ f[k - 1] = k
      BY <1>1, <3>1 DEF IndexesOf
    <3> QED BY <3>2
  <2> HIDE DEF f, S, T
  <2>4. f \in Bijection(S, T)
    BY <2>1, <2>2, <2>3, Fun_IsBij
  <2> QED BY <1>2, <2>4, FS_Bijection DEF ExistsBijection
<1>4. 1 \in IndexesOf(q, r) <=> Head(q) = r
  BY <1>1 DEF IndexesOf
<1>5. Cardinality(T) = IF Head(q) = r THEN Cardinality(IndexesOf(q, r)) - 1
                                      ELSE Cardinality(IndexesOf(q, r))
  BY <1>2, <1>4, FS_RemoveElement
<1>6. /\ Times(q, r) = Cardinality(IndexesOf(q, r)) /\ Times(Tail(q), r) = Cardinality(S)
      /\ Times(q, r) \in Nat /\ Times(Tail(q), r) \in Nat
  BY <1>1, IndexesAreFinite
<1> HIDE DEF S, T
<1> QED BY <1>1, <1>3, <1>5, <1>6

LEMMA TimesOfEmpty == \A r : Times(<<>>, r) = 0
<1> SUFFICES ASSUME NEW r PROVE Times(<<>>, r) = 0
  OBVIOUS
<1>1. {i \in DOMAIN <<>> : <<>>[i] = r} = {}
  BY EmptySeq
<1> QED BY <1>1, FS_EmptySet DEF Times

\* A row that is put into a queue keeps its reservation, one that is dropped loses it.
LEMMA EnqueuePlaces ==
  ASSUME TypeOK, NEW p \in Procs, NEW x \in Rows, NEW S \in SUBSET Rows, Enqueue(p, x, S),
         NEW q \in Procs, NEW r \in Rows
  PROVE  \/ /\ Times(light'[q], r) + Times(video'[q], r)
                 = Times(light[q], r) + Times(video[q], r) + (IF q = p /\ r = x THEN 1 ELSE 0)
            /\ queued'[q] = IF q = p THEN S ELSE queued[q]
         \/ /\ Times(light'[q], r) = Times(light[q], r) /\ Times(video'[q], r) = Times(video[q], r)
            /\ queued'[q] = IF q = p THEN S \ {x} ELSE queued[q]
<1>1. /\ light \in [Procs -> Seq(Rows)] /\ video \in [Procs -> Seq(Rows)]
      /\ queued \in [Procs -> SUBSET Rows]
  BY DEF TypeOK
<1>2. Times(light[q], r) \in Nat /\ Times(video[q], r) \in Nat
  BY <1>1, IndexesAreFinite
<1>3. /\ Times(Append(light[q], x), r) = Times(light[q], r) + (IF x = r THEN 1 ELSE 0)
      /\ Times(Append(video[q], x), r) = Times(video[q], r) + (IF x = r THEN 1 ELSE 0)
  BY <1>1, TimesOfAppend
<1>4. CASE /\ queued' = [queued EXCEPT ![p] = S]
           /\ light' = [light EXCEPT ![p] = Append(@, x)] /\ UNCHANGED video
  BY <1>1, <1>2, <1>3, <1>4
<1>5. CASE /\ queued' = [queued EXCEPT ![p] = S]
           /\ video' = [video EXCEPT ![p] = Append(@, x)] /\ UNCHANGED light
  <2>1. queued'[q] = (IF q = p THEN S ELSE queued[q]) /\ light'[q] = light[q]
    BY <1>1, <1>5
  <2>2. video'[q] = IF q = p THEN Append(video[q], x) ELSE video[q]
    BY <1>1, <1>5
  <2>3. Times(video'[q], r) = Times(video[q], r) + (IF q = p /\ r = x THEN 1 ELSE 0)
    BY <1>2, <1>3, <2>2
  <2> QED BY <1>2, <2>1, <2>3
<1>6. CASE queued' = [queued EXCEPT ![p] = S \ {x}] /\ UNCHANGED <<light, video>>
  <2>1. queued'[q] = IF q = p THEN S \ {x} ELSE queued[q]
    BY <1>1, <1>6
  <2>2. Times(light'[q], r) = Times(light[q], r) /\ Times(video'[q], r) = Times(video[q], r)
    BY <1>6
  <2> QED BY <2>1, <2>2
<1>7. \/ /\ queued' = [queued EXCEPT ![p] = S]
         /\ light' = [light EXCEPT ![p] = Append(@, x)] /\ UNCHANGED video
      \/ /\ queued' = [queued EXCEPT ![p] = S]
         /\ video' = [video EXCEPT ![p] = Append(@, x)] /\ UNCHANGED light
      \/ queued' = [queued EXCEPT ![p] = S \ {x}] /\ UNCHANGED <<light, video>>
  BY DEF Enqueue
<1> QED BY <1>4, <1>5, <1>6, <1>7

LEMMA HoldersKept ==
  ASSUME NEW p, NEW r, \A v \in Workers : worker'[v].r = worker[v].r
  PROVE  HoldersOf(p, r)' = HoldersOf(p, r)
  BY DEF HoldersOf

LEMMA HoldersOfDone ==
  ASSUME TypeOK, NEW w \in Workers, worker[w].pc # "idle", Done(w), NEW p \in Procs, NEW r \in Rows
  PROVE  Cardinality(HoldersOf(p, r)')
           = Cardinality(HoldersOf(p, r)) - (IF p = w[1] /\ r = worker[w].r THEN 1 ELSE 0)
<1>1. /\ worker'[w].r = NoRow /\ \A v \in Workers \ {w} : worker'[v] = worker[v]
      /\ NoRow \notin Rows
  BY IdleType, MediaPipelineAssumption DEF Done, TypeOK
<1>2. HoldersOf(p, r)' = HoldersOf(p, r) \ {w}
  BY <1>1 DEF HoldersOf
<1>3. w \in HoldersOf(p, r) <=> (p = w[1] /\ r = worker[w].r)
  BY DEF HoldersOf
<1>4. /\ IsFiniteSet(HoldersOf(p, r)) /\ Cardinality(HoldersOf(p, r)) \in Nat
  BY HoldersAreFinite
<1>5. Cardinality(HoldersOf(p, r) \ {w}) =
        Cardinality(HoldersOf(p, r)) - (IF w \in HoldersOf(p, r) THEN 1 ELSE 0)
  <2>1. CASE w \in HoldersOf(p, r)
    BY <1>4, <2>1, FS_RemoveElement
  <2>2. CASE w \notin HoldersOf(p, r)
    <3>1. HoldersOf(p, r) \ {w} = HoldersOf(p, r)
      BY <2>2
    <3> QED BY <1>4, <2>2, <3>1
  <2> QED BY <2>1, <2>2
<1> QED BY <1>2, <1>3, <1>4, <1>5

LEMMA HoldersOfTake ==
  ASSUME TypeOK, NEW w \in Workers, worker[w].pc = "idle", NEW x \in Rows,
         worker' = [worker EXCEPT ![w] = [Idle EXCEPT !.pc = "slot", !.r = x]],
         NEW p \in Procs, NEW r \in Rows
  PROVE  Cardinality(HoldersOf(p, r)') = Cardinality(HoldersOf(p, r)) + (IF p = w[1] /\ r = x THEN 1 ELSE 0)
<1>1. /\ worker'[w].r = x /\ \A v \in Workers \ {w} : worker'[v] = worker[v]
      /\ worker[w].r \notin Rows
  BY MediaPipelineAssumption DEF TypeOK, Idle
<1>2. w \notin HoldersOf(p, r)
  BY <1>1 DEF HoldersOf
<1>3. HoldersOf(p, r)' = IF p = w[1] /\ r = x THEN HoldersOf(p, r) \cup {w} ELSE HoldersOf(p, r)
  BY <1>1, <1>2 DEF HoldersOf
<1>4. /\ IsFiniteSet(HoldersOf(p, r)) /\ Cardinality(HoldersOf(p, r)) \in Nat
  BY HoldersAreFinite
<1>5. Cardinality(HoldersOf(p, r) \cup {w}) = Cardinality(HoldersOf(p, r)) + 1
  BY <1>2, <1>4, FS_AddElement
<1> QED BY <1>2, <1>3, <1>4, <1>5

\* A job that analyses keeps its row, and everything else but its place and result.
LEMMA AnalysingKeeps ==
  ASSUME TypeOK, NEW w \in Workers, Analysing(w), NEW v \in Workers
  PROVE  /\ worker'[v].r = worker[v].r /\ worker'[v].count = worker[v].count
         /\ worker'[v].left = worker[v].left
         /\ \/ worker'[v].before = worker[v].before /\ worker'[v].shut = worker[v].shut
            \/ v = w /\ Fetched(w)
<1>1. worker[v] \in WorkerRecord
  BY DEF TypeOK
<1>2. \/ worker'[v] = worker[v]
      \/ \E l : worker'[v] = [worker[v] EXCEPT !.pc = l]
      \/ \E l, o : worker'[v] = [worker[v] EXCEPT !.pc = l, !.res = o]
      \/ \E l : worker'[v] = [worker[v] EXCEPT !.pc = l, !.again = TRUE]
      \/ Fetched(w)
  <2>1. (\E l : Goto(w, l)) \/ (\E o : Conclude(w, o) \/ Land(w, o)) \/ Fetched(w)
    BY DEF Analysing, FirstGate, Find, Fetch, FindAgain, LastGate, Describe, Cool, AskModel,
           StoreCache, TimeOut, Gate, LookUp
  <2>2. ASSUME NEW l, Goto(w, l) PROVE worker'[v] \in {worker[v], [worker[v] EXCEPT !.pc = l]}
    BY <2>2 DEF Goto, TypeOK
  <2>3. ASSUME NEW o, Conclude(w, o)
        PROVE  worker'[v] \in {worker[v], [worker[v] EXCEPT !.pc = "finish", !.res = o]}
    BY <2>3 DEF Conclude, TypeOK
  <2>4. ASSUME NEW o, Land(w, o)
        PROVE  \/ worker'[v] = worker[v]
               \/ \E m : worker'[v] = [worker[v] EXCEPT !.pc = "finish", !.res = m]
               \/ worker'[v] = [worker[v] EXCEPT !.pc = "describe", !.again = TRUE]
    BY <2>4 DEF Land, Joined
  <2> QED BY <2>1, <2>2, <2>3, <2>4
<1>3. CASE Fetched(w)
  BY <1>3, FetchedAt
<1>4. CASE ~Fetched(w)
  BY <1>1, <1>2, <1>4 DEF WorkerRecord
<1> QED BY <1>3, <1>4

\* What no step of a queue or of a job touches but those of the next lemma.
LEMMA StillReserved ==
  ASSUME TypeOK, ReservedOnce, UNCHANGED <<queued, queues>>,
         \A v \in Workers : worker'[v].r = worker[v].r
  PROVE  ReservedOnce'
<1> SUFFICES ASSUME NEW p \in Procs, NEW r \in Rows
             PROVE  Places(p, r)' = IF r \in queued'[p] THEN 1 ELSE 0
  BY DEF ReservedOnce
<1>1. HoldersOf(p, r)' = HoldersOf(p, r)
  BY HoldersKept
<1>2. Places(p, r) = IF r \in queued[p] THEN 1 ELSE 0
  BY DEF ReservedOnce
<1> QED BY <1>1, <1>2 DEF Places, HoldersOf, queues

LEMMA PlacesAre ==
  ASSUME TypeOK, NEW p \in Procs, NEW r \in Rows
  PROVE  /\ Places(p, r) = Times(inbox[p], r) + Times(light[p], r) + Times(video[p], r)
                           + Cardinality(HoldersOf(p, r))
         /\ Times(inbox[p], r) \in Nat /\ Times(light[p], r) \in Nat /\ Times(video[p], r) \in Nat
         /\ Cardinality(HoldersOf(p, r)) \in Nat
<1>1. /\ inbox[p] \in Seq(Rows) /\ light[p] \in Seq(Rows) /\ video[p] \in Seq(Rows)
  BY DEF TypeOK
<1>2. Places(p, r) = Times(inbox[p], r) + Times(light[p], r) + Times(video[p], r)
                     + Cardinality(HoldersOf(p, r))
  BY DEF Places, HoldersOf
<1> QED BY <1>1, <1>2, IndexesAreFinite, HoldersAreFinite

LEMMA ReservedDone ==
  ASSUME TypeOK, ReservedOnce, NEW w \in Workers, worker[w].pc # "idle", Done(w)
  PROVE  ReservedOnce'
<1> SUFFICES ASSUME NEW p \in Procs, NEW r \in Rows
             PROVE  Places(p, r)' = IF r \in queued'[p] THEN 1 ELSE 0
  BY DEF ReservedOnce
<1>1. /\ Places(p, r)' = Times(inbox'[p], r) + Times(light'[p], r) + Times(video'[p], r)
                         + Cardinality(HoldersOf(p, r)')
      /\ inbox'[p] = inbox[p] /\ light'[p] = light[p] /\ video'[p] = video[p]
  BY DEF Places, HoldersOf, Done, queues
<1>2. Cardinality(HoldersOf(p, r)')
        = Cardinality(HoldersOf(p, r)) - (IF p = w[1] /\ r = worker[w].r THEN 1 ELSE 0)
  BY HoldersOfDone
<1>3. queued'[p] = IF p = w[1] THEN queued[p] \ {worker[w].r} ELSE queued[p]
  BY DEF Done, Release, TypeOK
<1>4. Places(p, r) = IF r \in queued[p] THEN 1 ELSE 0
  BY DEF ReservedOnce
<1>5. CASE p = w[1] /\ r = worker[w].r
  <2>1. Cardinality(HoldersOf(p, r)) >= 1
    <3>1. w \in HoldersOf(p, r)
      BY <1>5 DEF HoldersOf
    <3>2. Cardinality(HoldersOf(p, r)) # 0
      BY <3>1, HoldersAreFinite, FS_EmptySet
    <3> QED BY <3>2, HoldersAreFinite
  <2>2. r \notin queued'[p]
    BY <1>3, <1>5
  <2> QED BY <1>1, <1>2, <1>4, <1>5, <2>1, <2>2, PlacesAre
<1>6. CASE ~(p = w[1] /\ r = worker[w].r)
  <2>1. r \in queued'[p] <=> r \in queued[p]
    BY <1>3, <1>6
  <2> QED BY <1>1, <1>2, <1>4, <1>6, <2>1, PlacesAre
<1> QED BY <1>5, <1>6

LEMMA ReservedTake ==
  ASSUME TypeOK, ReservedOnce, NEW w \in Workers, Take(w)
  PROVE  ReservedOnce'
<1> SUFFICES ASSUME NEW p \in Procs, NEW r \in Rows
             PROVE  Places(p, r)' = IF r \in queued'[p] THEN 1 ELSE 0
  BY DEF ReservedOnce
<1>1. /\ Places(p, r)' = Times(inbox'[p], r) + Times(light'[p], r) + Times(video'[p], r)
                         + Cardinality(HoldersOf(p, r)')
      /\ inbox'[p] = inbox[p] /\ queued'[p] = queued[p] /\ worker[w].pc = "idle"
  BY DEF Places, HoldersOf, Take
<1>2. Places(p, r) = IF r \in queued[p] THEN 1 ELSE 0
  BY DEF ReservedOnce
<1>3. /\ light[p] \in Seq(Rows) /\ video[p] \in Seq(Rows) /\ light \in [Procs -> Seq(Rows)]
      /\ video \in [Procs -> Seq(Rows)] /\ w[1] \in Procs
      /\ light[w[1]] \in Seq(Rows) /\ video[w[1]] \in Seq(Rows)
  BY ProcOfWorker DEF TypeOK
<1>4. CASE /\ light[w[1]] # <<>>
           /\ worker' = [worker EXCEPT ![w] = [Idle EXCEPT !.pc = "slot", !.r = Head(light[w[1]])]]
           /\ light' = [light EXCEPT ![w[1]] = Tail(@)] /\ UNCHANGED video
  <2> DEFINE x == Head(light[w[1]])
  <2>1. x \in Rows
    BY <1>3, <1>4, HeadTailProperties
  <2>2. Cardinality(HoldersOf(p, r)')
          = Cardinality(HoldersOf(p, r)) + (IF p = w[1] /\ r = x THEN 1 ELSE 0)
    BY <1>1, <1>4, <2>1, HoldersOfTake
  <2>3. Times(light[p], r) = Times(light'[p], r) + (IF p = w[1] /\ r = x THEN 1 ELSE 0)
    <3>1. CASE p = w[1]
      <4>1. light'[p] = Tail(light[p]) /\ light[p] # <<>>
        BY <1>3, <1>4, <3>1
      <4>2. Times(light[p], r) = Times(Tail(light[p]), r) + (IF Head(light[p]) = r THEN 1 ELSE 0)
        BY <1>3, <4>1, TimesOfTail
      <4> QED BY <3>1, <4>1, <4>2
    <3>2. CASE p # w[1]
      <4>1. light'[p] = light[p]
        BY <1>3, <1>4, <3>2
      <4> QED BY <3>2, <4>1, PlacesAre
    <3> QED BY <3>1, <3>2
  <2>4. Times(light'[p], r) \in Nat
    <3>1. light'[p] \in Seq(Rows)
      BY <1>3, <1>4, HeadTailProperties
    <3> QED BY <3>1, IndexesAreFinite
  <2> HIDE DEF x
  <2>5. video'[p] = video[p]
    BY <1>4
  <2> QED BY <1>1, <1>2, <2>2, <2>3, <2>4, <2>5, PlacesAre
<1>5. CASE /\ video[w[1]] # <<>>
           /\ worker' = [worker EXCEPT ![w] = [Idle EXCEPT !.pc = "slot", !.r = Head(video[w[1]])]]
           /\ video' = [video EXCEPT ![w[1]] = Tail(@)] /\ UNCHANGED light
  <2> DEFINE x == Head(video[w[1]])
  <2>1. x \in Rows
    BY <1>3, <1>5, HeadTailProperties
  <2>2. Cardinality(HoldersOf(p, r)')
          = Cardinality(HoldersOf(p, r)) + (IF p = w[1] /\ r = x THEN 1 ELSE 0)
    BY <1>1, <1>5, <2>1, HoldersOfTake
  <2>3. Times(video[p], r) = Times(video'[p], r) + (IF p = w[1] /\ r = x THEN 1 ELSE 0)
    <3>1. CASE p = w[1]
      <4>1. video'[p] = Tail(video[p]) /\ video[p] # <<>>
        BY <1>3, <1>5, <3>1
      <4>2. Times(video[p], r) = Times(Tail(video[p]), r) + (IF Head(video[p]) = r THEN 1 ELSE 0)
        BY <1>3, <4>1, TimesOfTail
      <4> QED BY <3>1, <4>1, <4>2
    <3>2. CASE p # w[1]
      <4>1. video'[p] = video[p]
        BY <1>3, <1>5, <3>2
      <4> QED BY <3>2, <4>1, PlacesAre
    <3> QED BY <3>1, <3>2
  <2>4. Times(video'[p], r) \in Nat
    <3>1. video'[p] \in Seq(Rows)
      BY <1>3, <1>5, HeadTailProperties
    <3> QED BY <3>1, IndexesAreFinite
  <2> HIDE DEF x
  <2>5. light'[p] = light[p]
    BY <1>5
  <2> QED BY <1>1, <1>2, <2>2, <2>3, <2>4, <2>5, PlacesAre
<1> QED BY <1>4, <1>5 DEF Take

LEMMA ReservedQueues ==
  ASSUME TypeOK, ReservedOnce, NEW q \in Procs,
         Route(q) \/ RecoverOne(q) \/ Stop(q) \/ \E r \in Rows : Submit(q, r)
  PROVE  ReservedOnce'
<1> SUFFICES ASSUME NEW p \in Procs, NEW r \in Rows
             PROVE  Places(p, r)' = IF r \in queued'[p] THEN 1 ELSE 0
  BY DEF ReservedOnce
<1>1. Places(p, r)' = Times(inbox'[p], r) + Times(light'[p], r) + Times(video'[p], r)
                      + Cardinality(HoldersOf(p, r)')
  BY DEF Places, HoldersOf
<1>2. /\ Times(inbox[p], r) + Times(light[p], r) + Times(video[p], r) + Cardinality(HoldersOf(p, r))
           = IF r \in queued[p] THEN 1 ELSE 0
      /\ Times(inbox[p], r) \in Nat /\ Times(light[p], r) \in Nat /\ Times(video[p], r) \in Nat
      /\ Cardinality(HoldersOf(p, r)) \in Nat
  BY PlacesAre DEF ReservedOnce
<1>3. /\ inbox[p] \in Seq(Rows) /\ inbox \in [Procs -> Seq(Rows)] /\ queued \in [Procs -> SUBSET Rows]
      /\ inbox[q] \in Seq(Rows)
  BY DEF TypeOK
<1>4. worker' = worker => HoldersOf(p, r)' = HoldersOf(p, r)
  BY DEF HoldersOf
<1>5. ASSUME NEW x \in Rows, Submit(q, x)
      PROVE  Places(p, r)' = IF r \in queued'[p] THEN 1 ELSE 0
  <2>1. UNCHANGED <<light, video, worker>>
    BY <1>5 DEF Submit
  <2>2. CASE UNCHANGED <<queued, inbox>>
    BY <1>1, <1>2, <1>4, <2>1, <2>2
  <2>3. CASE /\ x \notin queued[q] /\ inbox' = [inbox EXCEPT ![q] = Append(@, x)]
             /\ queued' = [queued EXCEPT ![q] = @ \cup {x}]
    <3>1. CASE p = q
      <4>1. inbox'[p] = Append(inbox[p], x) /\ queued'[p] = queued[p] \cup {x}
        BY <1>3, <2>3, <3>1
      <4>2. Times(inbox'[p], r) = Times(inbox[p], r) + (IF x = r THEN 1 ELSE 0)
        BY <1>3, <4>1, TimesOfAppend
      <4>3. (IF r \in queued'[p] THEN 1 ELSE 0)
              = (IF r \in queued[p] THEN 1 ELSE 0) + (IF x = r THEN 1 ELSE 0)
        BY <2>3, <3>1, <4>1
      <4> QED BY <1>1, <1>2, <1>4, <2>1, <4>2, <4>3
    <3>2. CASE p # q
      <4>1. inbox'[p] = inbox[p] /\ queued'[p] = queued[p]
        BY <1>3, <2>3, <3>2
      <4> QED BY <1>1, <1>2, <1>4, <2>1, <4>1
    <3> QED BY <3>1, <3>2
  <2> QED BY <1>5, <2>2, <2>3 DEF Submit, Reserve
<1>6. ASSUME Stop(q) PROVE Places(p, r)' = IF r \in queued'[p] THEN 1 ELSE 0
  <2>1. CASE p = q
    <3>1. /\ inbox'[p] = <<>> /\ light'[p] = <<>> /\ video'[p] = <<>> /\ queued'[p] = {}
      BY <1>6, <2>1 DEF Stop, TypeOK
    <3>2. HoldersOf(p, r)' = {}
      <4>1. \A w \in Workers : w[1] = p => worker'[w].r # r
        BY <1>6, <2>1, IdleType, MediaPipelineAssumption DEF Stop
      <4> QED BY <4>1 DEF HoldersOf
    <3>3. Cardinality(HoldersOf(p, r)') = 0
      BY <3>2, FS_EmptySet
    <3> QED BY <1>1, <3>1, <3>3, TimesOfEmpty
  <2>2. CASE p # q
    <3>1. /\ inbox'[p] = inbox[p] /\ light'[p] = light[p] /\ video'[p] = video[p]
          /\ queued'[p] = queued[p]
      BY <1>6, <2>2 DEF Stop, TypeOK
    <3>2. HoldersOf(p, r)' = HoldersOf(p, r)
      <4>1. \A w \in Workers : w[1] = p => worker'[w] = worker[w]
        BY <1>6, <2>2 DEF Stop
      <4> QED BY <4>1 DEF HoldersOf
    <3> QED BY <1>1, <1>2, <3>1, <3>2
  <2> QED BY <2>1, <2>2
<1>7. ASSUME RecoverOne(q) PROVE Places(p, r)' = IF r \in queued'[p] THEN 1 ELSE 0
  <2>1. UNCHANGED <<inbox, worker>>
    BY <1>7 DEF RecoverOne
  <2>2. PICK x \in Rows : \/ UNCHANGED <<queued, light, video>>
                          \/ x \notin queued[q] /\ Enqueue(q, x, queued[q] \cup {x})
    BY <1>7 DEF RecoverOne, TypeOK
  <2>3. CASE UNCHANGED <<queued, light, video>>
    BY <1>1, <1>2, <1>4, <2>1, <2>3
  <2>4. CASE x \notin queued[q] /\ Enqueue(q, x, queued[q] \cup {x})
    <3> DEFINE S == queued[q] \cup {x}
    <3>1. S \in SUBSET Rows
      BY <1>3
    <3>2. \/ /\ Times(light'[p], r) + Times(video'[p], r)
                  = Times(light[p], r) + Times(video[p], r) + (IF p = q /\ r = x THEN 1 ELSE 0)
             /\ queued'[p] = IF p = q THEN S ELSE queued[p]
          \/ /\ Times(light'[p], r) = Times(light[p], r) /\ Times(video'[p], r) = Times(video[p], r)
             /\ queued'[p] = IF p = q THEN S \ {x} ELSE queued[p]
      <4>1. Enqueue(q, x, S)
        BY <2>4
      <4> HIDE DEF S
      <4> QED BY <3>1, <4>1, EnqueuePlaces
    <3>3. Times(light'[p], r) \in Nat /\ Times(video'[p], r) \in Nat
      <4>1. light' \in [Procs -> Seq(Rows)] /\ video' \in [Procs -> Seq(Rows)]
        BY <2>4, <3>1, EnqueueType
      <4> QED BY <4>1, IndexesAreFinite
    <3>4. CASE /\ Times(light'[p], r) + Times(video'[p], r)
                    = Times(light[p], r) + Times(video[p], r) + (IF p = q /\ r = x THEN 1 ELSE 0)
               /\ queued'[p] = IF p = q THEN S ELSE queued[p]
      <4>1. (IF r \in queued'[p] THEN 1 ELSE 0)
              = (IF r \in queued[p] THEN 1 ELSE 0) + (IF p = q /\ r = x THEN 1 ELSE 0)
        BY <2>4, <3>4
      <4>2. Places(p, r)' = Times(inbox[p], r) + Times(light'[p], r) + Times(video'[p], r)
                            + Cardinality(HoldersOf(p, r))
        BY <1>1, <1>4, <2>1
      <4> HIDE DEF S
      <4> QED BY <1>2, <3>3, <3>4, <4>1, <4>2
    <3>5. CASE /\ Times(light'[p], r) = Times(light[p], r) /\ Times(video'[p], r) = Times(video[p], r)
               /\ queued'[p] = IF p = q THEN S \ {x} ELSE queued[p]
      <4>1. r \in queued'[p] <=> r \in queued[p]
        BY <2>4, <3>5
      <4> QED BY <1>1, <1>2, <1>4, <2>1, <3>5, <4>1
    <3> QED BY <3>2, <3>4, <3>5
  <2> QED BY <2>2, <2>3, <2>4
<1>8. ASSUME Route(q) PROVE Places(p, r)' = IF r \in queued'[p] THEN 1 ELSE 0
  <2> DEFINE x == Head(inbox[q])
  <2>1. /\ inbox[q] # <<>> /\ inbox' = [inbox EXCEPT ![q] = Tail(@)] /\ UNCHANGED worker
        /\ Enqueue(q, x, queued[q]) \/ (Release(q, x) /\ UNCHANGED <<light, video>>)
    BY <1>8 DEF Route
  <2>2. x \in Rows
    BY <1>3, <2>1, TimesOfTail
  <2>3. Times(inbox[p], r) = Times(inbox'[p], r) + (IF p = q /\ r = x THEN 1 ELSE 0)
    <3>1. CASE p = q
      <4>1. inbox'[p] = Tail(inbox[p])
        BY <1>3, <2>1, <3>1
      <4> QED BY <1>3, <2>1, <3>1, <4>1, TimesOfTail
    <3>2. CASE p # q
      <4>1. inbox'[p] = inbox[p]
        BY <1>3, <2>1, <3>2
      <4> QED BY <1>2, <3>2, <4>1
    <3> QED BY <3>1, <3>2
  <2>4. Times(inbox'[p], r) \in Nat
    <3>1. inbox'[p] \in Seq(Rows)
      BY <1>3, <2>1, TimesOfTail
    <3> QED BY <3>1, IndexesAreFinite
  <2>5. p = q /\ r = x => r \in queued[p]
    BY <1>2, <2>3, <2>4
  <2> HIDE DEF x
  <2>6. CASE /\ Times(light'[p], r) = Times(light[p], r) /\ Times(video'[p], r) = Times(video[p], r)
             /\ queued'[p] = IF p = q THEN queued[p] \ {x} ELSE queued[p]
    <3>1. (IF r \in queued[p] THEN 1 ELSE 0)
            = (IF r \in queued'[p] THEN 1 ELSE 0) + (IF p = q /\ r = x THEN 1 ELSE 0)
      BY <2>5, <2>6
    <3>2. Places(p, r)' = Times(inbox'[p], r) + Times(light[p], r) + Times(video[p], r)
                          + Cardinality(HoldersOf(p, r))
      BY <1>1, <1>4, <2>1, <2>6
    <3> QED BY <1>2, <2>3, <2>4, <3>1, <3>2
  <2>7. CASE Release(q, x) /\ UNCHANGED <<light, video>>
    <3>1. queued'[p] = IF p = q THEN queued[p] \ {x} ELSE queued[p]
      BY <1>3, <2>7 DEF Release
    <3> QED BY <2>6, <2>7, <3>1
  <2>8. CASE Enqueue(q, x, queued[q])
    <3>1. queued[q] \in SUBSET Rows
      BY <1>3
    <3>2. \/ /\ Times(light'[p], r) + Times(video'[p], r)
                  = Times(light[p], r) + Times(video[p], r) + (IF p = q /\ r = x THEN 1 ELSE 0)
             /\ queued'[p] = IF p = q THEN queued[q] ELSE queued[p]
          \/ /\ Times(light'[p], r) = Times(light[p], r) /\ Times(video'[p], r) = Times(video[p], r)
             /\ queued'[p] = IF p = q THEN queued[q] \ {x} ELSE queued[p]
      BY <2>2, <2>8, <3>1, EnqueuePlaces
    <3>3. Times(light'[p], r) \in Nat /\ Times(video'[p], r) \in Nat
      <4>1. light' \in [Procs -> Seq(Rows)] /\ video' \in [Procs -> Seq(Rows)]
        BY <2>2, <2>8, <3>1, EnqueueType
      <4> QED BY <4>1, IndexesAreFinite
    <3>4. CASE /\ Times(light'[p], r) + Times(video'[p], r)
                    = Times(light[p], r) + Times(video[p], r) + (IF p = q /\ r = x THEN 1 ELSE 0)
               /\ queued'[p] = queued[p]
      <4>1. Places(p, r)' = Times(inbox'[p], r) + Times(light'[p], r) + Times(video'[p], r)
                            + Cardinality(HoldersOf(p, r))
        BY <1>1, <1>4, <2>1
      <4> QED BY <1>2, <2>3, <2>4, <3>3, <3>4, <4>1
    <3> QED BY <2>6, <3>2, <3>4
  <2> QED BY <2>1, <2>7, <2>8
<1> QED BY <1>5, <1>6, <1>7, <1>8

LEMMA ReservedStep ==
  ASSUME TypeOK, ReservedOnce, [Next]_vars
  PROVE  ReservedOnce'
<1>1. ASSUME NEW p \in Procs, Route(p) \/ RecoverOne(p) \/ Stop(p) \/ \E r \in Rows : Submit(p, r)
      PROVE  ReservedOnce'
  BY <1>1, ReservedQueues
<1>2. ASSUME NEW p \in Procs, RecoverList(p) \/ Start(p) \/ \E r \in Rows : Save(p, r)
      PROVE  ReservedOnce'
  BY <1>2, StillReserved DEF RecoverList, Start, Save
<1>3. ASSUME NEW w \in Workers, JobStep(w) PROVE ReservedOnce'
  <2>1. CASE Analysing(w)
    <3>1. UNCHANGED <<queued, queues>>
      BY <2>1 DEF Analysing, FirstGate, Find, Fetch, FindAgain, LastGate, Describe, Cool, AskModel,
             StoreCache, TimeOut, Gate, LookUp, proc
    <3> QED BY <2>1, <3>1, AnalysingKeeps, StillReserved
  <2>2. CASE Take(w)
    BY <2>2, ReservedTake
  <2>3. CASE Acquire(w)
    <3>1. worker' = [worker EXCEPT ![w].pc = "claim"] /\ UNCHANGED proc
      BY <2>3 DEF Acquire, Goto
    <3>2. \A v \in Workers : worker'[v].r = worker[v].r
      BY <3>1 DEF TypeOK, WorkerRecord
    <3> QED BY <3>1, <3>2, StillReserved DEF proc
  <2>4. CASE Claim(w) /\ ~Done(w)
    <3>1. UNCHANGED proc
      BY <2>4 DEF Claim
    <3>2. \A v \in Workers : worker'[v].r = worker[v].r
      <4> SUFFICES ASSUME NEW v \in Workers PROVE worker'[v].r = worker[v].r
        OBVIOUS
      <4>1. worker \in [Workers -> WorkerRecord]
        BY DEF TypeOK
      <4>2. v # w => worker'[v] = worker[v]
        BY <2>4, <4>1 DEF Claim
      <4>3. ASSUME v = w PROVE worker'[v].r = worker[v].r
        BY <2>4, <4>1, <4>3 DEF Claim, WorkerRecord
      <4> QED BY <4>2, <4>3
    <3> QED BY <3>1, <3>2, StillReserved DEF proc
  <2>5. CASE Done(w) /\ (Claim(w) \/ Finish(w))
    BY <2>5, ReservedDone DEF Claim, Finish, At
  <2>6. Finish(w) => Done(w)
    BY DEF Finish
  <2> QED BY <1>3, <2>1, <2>2, <2>3, <2>4, <2>5, <2>6 DEF JobStep, Analysing
<1>4. CASE (\E r \in Rows : Delete(r)) \/ UNCHANGED vars
  BY <1>4, StillReserved DEF Delete, proc, vars
<1>5. CASE Toggle \/ Clock
  <2>1. UNCHANGED <<queued, queues>>
    BY <1>5 DEF Toggle, Clock, proc
  <2>2. ASSUME NEW v \in Workers PROVE worker'[v].r = worker[v].r
    <3>1. worker[v] \in WorkerRecord
      BY DEF TypeOK
    <3>2. \/ worker'[v] = [worker[v] EXCEPT !.shut = @ /\ open]
          \/ worker'[v] = [worker[v] EXCEPT !.left = Less(@)]
      BY <1>5 DEF Toggle, Clock
    <3> QED BY <3>1, <3>2 DEF WorkerRecord
  <2> QED BY <2>1, <2>2, StillReserved
<1> QED BY <1>1, <1>2, <1>3, <1>4, <1>5 DEF Next, QueueStep

(***************************************************************************)
(* The job of a row, in one process: it alone writes the row               *)
(***************************************************************************)
\* No two workers of a process have the same row.
LEMMA OneHolder ==
  ASSUME TypeOK, ReservedOnce, NEW v \in Workers, NEW w \in Workers, v # w, v[1] = w[1],
         worker[v].pc # "idle"
  PROVE  worker[v].r # worker[w].r
<1> SUFFICES ASSUME worker[v].r = worker[w].r PROVE FALSE
  OBVIOUS
<1> DEFINE p == v[1]
           r == worker[v].r
<1>1. p \in Procs /\ r \in Rows
  BY ProcOfWorker, BusyType
<1>2. {v, w} \in SUBSET HoldersOf(p, r)
  BY DEF HoldersOf
<1>3. IsFiniteSet({v, w}) /\ Cardinality({v, w}) = 2
  <2>1. IsFiniteSet({v}) /\ Cardinality({v}) = 1 /\ {v, w} = {v} \cup {w} /\ w \notin {v}
    BY FS_Singleton
  <2>2. Cardinality({v} \cup {w}) = Cardinality({v}) + 1 /\ IsFiniteSet({v} \cup {w})
    BY <2>1, FS_AddElement
  <2> QED BY <2>1, <2>2
<1>4. Cardinality({v, w}) <= Cardinality(HoldersOf(p, r))
  BY <1>2, HoldersAreFinite, FS_Subset
<1>5. Places(p, r) <= 1
  BY <1>1 DEF ReservedOnce
<1> QED BY <1>1, <1>3, <1>4, <1>5, PlacesAre

LEMMA OtherRow ==
  ASSUME OneProcess, TypeOK, ReservedOnce, NEW v \in Workers, NEW w \in Workers, v # w,
         worker[v].pc # "idle"
  PROVE  worker[v].r # worker[w].r
<1>1. v[1] = w[1]
  BY ProcOfWorker DEF OneProcess
<1> QED BY <1>1, OneHolder

Claims(v) == worker'[v].pc \in Claiming
FinalStays == \A r \in Rows : row[r].status \in Final => row'[r].status \in {row[r].status, "gone"}
Owned == JobOwnsRow /\ AttemptsInv

\* What a job at work becomes by the analysis of its process.
LEMMA AnalysingMoves ==
  ASSUME TypeOK, NEW w \in Workers, Analysing(w), NEW v \in Workers
  PROVE  \/ worker'[v] = worker[v]
         \/ /\ worker[v].pc \in InTime \cup {"join"}
            /\ worker'[v].pc \in InTime \cup {"join", "finish"}
            /\ worker'[v].res = "cooldown" /\ worker'[v].pc = "finish" => v = w /\ Cool(w)
<1> DEFINE Moved == /\ worker[v].pc \in InTime \cup {"join"}
                    /\ worker'[v].pc \in InTime \cup {"join", "finish"}
                    /\ worker'[v].res = "cooldown" /\ worker'[v].pc = "finish" => v = w /\ Cool(w)
<1>1. worker \in [Workers -> WorkerRecord] /\ worker[w].pc \in InTime
  BY DEF TypeOK, Analysing, FirstGate, Find, Fetch, FindAgain, LastGate, Describe, Cool, AskModel,
         StoreCache, TimeOut, Gate, LookUp, At, InTime
<1>2. \/ \E l \in InTime \cup {"join"} : Goto(w, l)
      \/ \E o \in Results \ {"cooldown"} : Conclude(w, o) \/ Land(w, o)
      \/ Conclude(w, "cooldown") /\ Cool(w)
      \/ Fetched(w)
  BY DEF Analysing, FirstGate, Find, Fetch, FindAgain, LastGate, Describe, Cool, AskModel,
         StoreCache, TimeOut, Gate, LookUp, InTime, Results, Final
<1>3. ASSUME NEW l \in InTime \cup {"join"}, Goto(w, l) PROVE worker'[v] = worker[v] \/ Moved
  <2>1. CASE v = w
    <3>1. worker'[v] = [worker[v] EXCEPT !.pc = l]
      BY <1>1, <1>3, <2>1 DEF Goto
    <3>2. worker'[v].pc = l /\ l # "finish"
      BY <1>1, <3>1 DEF WorkerRecord, InTime
    <3> QED BY <1>1, <2>1, <3>2
  <2>2. CASE v # w
    BY <1>1, <1>3, <2>2 DEF Goto
  <2> QED BY <2>1, <2>2
<1>4. ASSUME NEW o \in Results, o = "cooldown" => Cool(w), Conclude(w, o)
      PROVE  worker'[v] = worker[v] \/ Moved
  <2>1. CASE v = w
    <3>1. worker'[v] = [worker[v] EXCEPT !.pc = "finish", !.res = o]
      BY <1>1, <1>4, <2>1 DEF Conclude
    <3>2. worker'[v].pc = "finish" /\ worker'[v].res = o
      BY <1>1, <3>1 DEF WorkerRecord
    <3> QED BY <1>1, <1>4, <2>1, <3>2
  <2>2. CASE v # w
    BY <1>1, <1>4, <2>2 DEF Conclude
  <2> QED BY <2>1, <2>2
<1>5. ASSUME NEW o \in Results \ {"cooldown"}, Land(w, o) PROVE worker'[v] = worker[v] \/ Moved
  <2> DEFINE x == worker[v]
  <2>1. ASSUME NEW m \in Results \ {"cooldown"}, x.pc \in InTime \cup {"join"},
               worker'[v] = [x EXCEPT !.pc = "finish", !.res = m]
        PROVE  Moved
    <3>1. worker'[v].pc = "finish" /\ worker'[v].res = m
      BY <1>1, <2>1 DEF WorkerRecord
    <3> QED BY <2>1, <3>1
  <2>2. ASSUME x.pc = "join", worker'[v] = [x EXCEPT !.pc = "describe", !.again = TRUE]
        PROVE  Moved
    <3>1. worker'[v].pc = "describe"
      BY <1>1, <2>2 DEF WorkerRecord
    <3> QED BY <2>2, <3>1 DEF InTime
  <2>3. "retry" \in Results \ {"cooldown"} /\ "failed" \in Results \ {"cooldown"}
    BY DEF Results, Final
  <2>4. CASE v = w
    <3>1. \E m \in {"retry", o} : worker'[v] = [x EXCEPT !.pc = "finish", !.res = m]
      BY <1>5, <2>4 DEF Land
    <3> QED BY <1>1, <2>1, <2>3, <2>4, <3>1
  <2>5. CASE v # w /\ x.pc = "join" /\ worker'[v] = Joined(v, o)
    <3>1. \/ \E m \in {"retry", "failed", o} : worker'[v] = [x EXCEPT !.pc = "finish", !.res = m]
          \/ worker'[v] = [x EXCEPT !.pc = "describe", !.again = TRUE]
      BY <2>5 DEF Joined
    <3> QED BY <2>1, <2>2, <2>3, <2>5, <3>1
  <2>6. v # w => worker'[v] = worker[v] \/ (x.pc = "join" /\ worker'[v] = Joined(v, o))
    BY <1>5 DEF Land
  <2> QED BY <2>4, <2>5, <2>6
<1>6. Results \ {"cooldown"} \subseteq Results /\ "cooldown" \in Results
  BY DEF Results
<1>7. CASE Fetched(w)
  BY <1>1, <1>7, FetchedAt DEF InTime
<1> QED BY <1>2, <1>3, <1>4, <1>5, <1>6, <1>7

\* A step that starts and ends no analysis.
RowKept(r) ==
  \/ row'[r].status = row[r].status /\ row'[r].count = row[r].count
  \/ row'[r].status = "gone"
  \/ row[r].status = "none" /\ row'[r].status = "pending" /\ row'[r].count = 0
JobKept(v) == Claims(v) =>
  /\ worker[v].pc \in Claiming /\ worker'[v].r = worker[v].r /\ worker'[v].count = worker[v].count
  /\ worker'[v].pc \in InTime \cup {"join"} => worker[v].pc \in InTime \cup {"join"}
  /\ worker'[v].pc = "finish" /\ worker'[v].res = "cooldown" =>
       worker[v].pc = "finish" /\ worker[v].res = "cooldown"

LEMMA ClaimingAre == Claiming = InTime \cup {"join", "finish"} /\ "idle" \notin Claiming
  BY DEF Claiming, Running, InTime

LEMMA OwnedKept ==
  ASSUME TypeOK, TypeOK', Owned, starts' = starts,
         \A r \in Rows : RowKept(r), \A v \in Workers : JobKept(v)
  PROVE  Owned' /\ FinalStays
<1>1. \A v \in Workers : worker[v].pc \in Claiming => worker[v].r \in Rows
  BY ClaimingAre, BusyType
<1>2. JobOwnsRow'
  <2> SUFFICES ASSUME NEW v \in Workers, worker'[v].pc \in Claiming
               PROVE  LET r == row'[worker'[v].r] IN
                      r.status = "gone" \/ (r.status = "processing" /\ r.count = worker'[v].count)
    BY DEF JobOwnsRow, Claiming
  <2>1. /\ worker[v].pc \in Claiming /\ worker'[v].r = worker[v].r
        /\ worker'[v].count = worker[v].count
    BY DEF JobKept, Claims
  <2>2. \/ row[worker[v].r].status = "gone"
        \/ row[worker[v].r].status = "processing" /\ row[worker[v].r].count = worker[v].count
    BY <2>1 DEF Owned, JobOwnsRow, Claiming
  <2>3. RowKept(worker[v].r)
    BY <1>1, <2>1
  <2> QED BY <2>1, <2>2, <2>3 DEF RowKept
<1>3. RowAttempts'
  <2> SUFFICES ASSUME NEW r \in Rows
               PROVE  /\ row'[r].status = "none" => starts'[r] = 0
                      /\ row'[r].status = "pending" =>
                           starts'[r] <= row'[r].count /\ row'[r].count < MaxAttempts
                      /\ row'[r].status = "processing" => starts'[r] <= row'[r].count + 1
    BY DEF RowAttempts
  <2>1. RowKept(r)
    OBVIOUS
  <2>2. /\ row[r].status = "none" => starts[r] = 0
        /\ row[r].status = "pending" => starts[r] <= row[r].count /\ row[r].count < MaxAttempts
        /\ row[r].status = "processing" => starts[r] <= row[r].count + 1
    BY DEF Owned, AttemptsInv, RowAttempts
  <2> QED BY <2>1, <2>2, MediaPipelineAssumption DEF RowKept
<1>4. JobAttempts'
  <2> SUFFICES ASSUME NEW v \in Workers, worker'[v].pc \in Claiming
               PROVE  /\ worker'[v].pc \in InTime \cup {"join"} => worker'[v].count < MaxAttempts
                      /\ worker'[v].pc = "finish" /\ worker'[v].res = "cooldown" =>
                           /\ worker'[v].count < MaxAttempts
                           /\ \/ row'[worker'[v].r].status = "gone"
                              \/ starts'[worker'[v].r] <= worker'[v].count
    BY ClaimingAre DEF JobAttempts
  <2>1. JobKept(v) /\ Claims(v)
    BY DEF Claims
  <2>2. /\ worker[v].pc \in InTime \cup {"join"} => worker[v].count < MaxAttempts
        /\ worker[v].pc = "finish" /\ worker[v].res = "cooldown" =>
             /\ worker[v].count < MaxAttempts
             /\ row[worker[v].r].status = "gone" \/ starts[worker[v].r] <= worker[v].count
    BY DEF Owned, AttemptsInv, JobAttempts
  <2>3. RowKept(worker[v].r)
    BY <1>1, <2>1 DEF JobKept
  <2> QED BY <2>1, <2>2, <2>3 DEF JobKept, RowKept
<1>5. AttemptsBounded'
  BY DEF Owned, AttemptsInv, AttemptsBounded
<1>6. FinalStays
  <2> SUFFICES ASSUME NEW r \in Rows, row[r].status \in Final
               PROVE  row'[r].status \in {row[r].status, "gone"}
    BY DEF FinalStays
  <2> QED BY DEF RowKept, Final
<1> QED BY <1>2, <1>3, <1>4, <1>5, <1>6 DEF Owned, AttemptsInv

LEMMA OwnedCool ==
  ASSUME TypeOK, TypeOK', Owned, NEW w \in Workers, Cool(w)
  PROVE  Owned' /\ FinalStays
<1> DEFINE x == worker[w]
<1>1. /\ x.pc = "describe" /\ row' = row /\ starts' = [starts EXCEPT ![x.r] = @ - 1]
      /\ worker' = [worker EXCEPT ![w] = [x EXCEPT !.pc = "finish", !.res = "cooldown"]]
  BY DEF Cool, Conclude, At, db
<1>2. x \in WorkerRecord /\ x.r \in Rows /\ x.pc \in Claiming /\ x.pc \in InTime
  BY <1>1, BusyType, ClaimingAre DEF WorkerType, InTime
<1>3. /\ worker'[w].pc = "finish" /\ worker'[w].r = x.r /\ worker'[w].count = x.count
      /\ \A v \in Workers : v # w => worker'[v] = worker[v]
  BY <1>1, <1>2 DEF TypeOK, WorkerRecord
<1>4. row[x.r].status = "gone" \/ (row[x.r].status = "processing" /\ row[x.r].count = x.count)
  BY <1>2 DEF Owned, JobOwnsRow, Claiming
<1>5. \A r \in Rows : starts[r] \in Int /\ row[r].count \in Nat /\ starts'[r] = (IF r = x.r THEN starts[r] - 1 ELSE starts[r])
  BY <1>1 DEF TypeOK, Row
<1>6. JobOwnsRow'
  BY <1>1, <1>2, <1>3, <1>4 DEF Owned, JobOwnsRow, Claiming
<1>7. RowAttempts'
  BY <1>1, <1>2, <1>4, <1>5 DEF Owned, AttemptsInv, RowAttempts
<1>8. JobAttempts'
  <2> SUFFICES ASSUME NEW v \in Workers
               PROVE  /\ worker'[v].pc \in InTime \cup {"join"} => worker'[v].count < MaxAttempts
                      /\ worker'[v].pc = "finish" /\ worker'[v].res = "cooldown" =>
                           /\ worker'[v].count < MaxAttempts
                           /\ \/ row'[worker'[v].r].status = "gone"
                              \/ starts'[worker'[v].r] <= worker'[v].count
    BY DEF JobAttempts
  <2>1. CASE v = w
    <3>1. x.count < MaxAttempts /\ x.count \in Nat
      BY <1>2 DEF Owned, AttemptsInv, JobAttempts, WorkerRecord
    <3>2. row[x.r].status = "processing" => starts[x.r] <= row[x.r].count + 1
      BY <1>2 DEF Owned, AttemptsInv, RowAttempts
    <3>3. row[x.r].status = "gone" \/ starts'[x.r] <= x.count
      BY <1>2, <1>4, <1>5, <3>1, <3>2
    <3> QED BY <1>1, <1>3, <2>1, <3>1, <3>3
  <2>2. CASE v # w
    <3>1. worker'[v] = worker[v]
      BY <1>3, <2>2
    <3>2. worker[v].pc = "finish" => worker[v].r \in Rows /\ worker[v].count \in Nat
      BY BusyType DEF WorkerType, WorkerRecord
    <3>3. /\ worker[v].pc \in InTime \cup {"join"} => worker[v].count < MaxAttempts
          /\ worker[v].pc = "finish" /\ worker[v].res = "cooldown" =>
               /\ worker[v].count < MaxAttempts
               /\ row[worker[v].r].status = "gone" \/ starts[worker[v].r] <= worker[v].count
      BY DEF Owned, AttemptsInv, JobAttempts
    <3>4. worker[v].pc = "finish" => starts'[worker[v].r] <= starts[worker[v].r]
      BY <1>5, <3>2
    <3>5. worker[v].pc = "finish" => starts[worker[v].r] \in Int /\ starts'[worker[v].r] \in Int
      BY <1>5, <3>2
    <3>6. worker[v].pc = "finish" /\ starts[worker[v].r] <= worker[v].count
             => starts'[worker[v].r] <= worker[v].count
      BY <3>2, <3>4, <3>5
    <3>7. row' = row
      BY <1>1
    <3> QED BY <3>1, <3>3, <3>6, <3>7
  <2> QED BY <2>1, <2>2
<1>9. AttemptsBounded'
  <2> SUFFICES ASSUME NEW r \in Rows PROVE starts'[r] <= MaxAttempts
    BY DEF AttemptsBounded
  <2> QED BY <1>5, MediaPipelineAssumption DEF Owned, AttemptsInv, AttemptsBounded
<1>10. FinalStays
  BY <1>1 DEF FinalStays
<1> QED BY <1>6, <1>7, <1>8, <1>9, <1>10 DEF Owned, AttemptsInv

\* What a claim makes of its row and of its job.
LEMMA ClaimMakes ==
  ASSUME TypeOK, NEW w \in Workers, Claim(w)
  PROVE  LET r == worker[w].r IN
         /\ \A v \in Workers : v # w => worker'[v] = worker[v]
         /\ \/ row' = row /\ starts' = starts /\ worker'[w].pc = "idle"
            \/ /\ row[r].status \in {"pending", "processing"}
               /\ row'[r].status = "processing"
               /\ row'[r].count = row[r].count + (IF row[r].status = "processing" THEN 1 ELSE 0)
               /\ \A q \in Rows : q # r => row'[q] = row[q]
               /\ \/ starts' = starts /\ worker'[w].pc = "idle"
                  \/ /\ starts' = starts /\ worker'[w].pc = "finish" /\ worker'[w].res = "failed"
                     /\ worker'[w].r = r /\ worker'[w].count = row'[r].count
                  \/ /\ starts' = [starts EXCEPT ![r] = @ + 1] /\ worker'[w].pc = "gate"
                     /\ worker'[w].r = r /\ worker'[w].count = row'[r].count
                     /\ row'[r].count < MaxAttempts
<1> DEFINE r == worker[w].r
           x == worker[w]
           c == row'[r].count
           Cost == IF row[r].status = "processing" THEN 1 ELSE 0
<1>1. x \in WorkerRecord /\ r \in Rows
  BY BusyType DEF Claim, At, WorkerType
<1>2. worker \in [Workers -> WorkerRecord] /\ row \in [Rows -> Row]
  BY DEF TypeOK
<1>3. Done(w) => worker'[w].pc = "idle" /\ \A v \in Workers : v # w => worker'[v] = worker[v]
  BY <1>2, IdleType DEF Done
<1>4. ASSUME Claimable(r), row' = Claimed(r)
      PROVE  /\ row[r].status \in {"pending", "processing"} /\ row'[r].status = "processing"
             /\ c = row[r].count + Cost /\ c \in Nat
             /\ \A q \in Rows : q # r => row'[q] = row[q]
  <2>1. row' = [row EXCEPT ![r] = [status |-> "processing", wait |-> ItemTimeout, fresh |-> 0,
                                   count |-> row[r].count + Cost]]
    BY <1>4 DEF Claimed
  <2>2. row'[r].status = "processing" /\ c = row[r].count + Cost
    BY <1>1, <1>2, <2>1
  <2>3. row[r].count \in Nat
    BY <1>1, <1>2 DEF Row
  <2> QED BY <1>1, <1>2, <1>4, <2>1, <2>2, <2>3 DEF Claimable
<1>5. CASE /\ Claimable(r) /\ row' = Claimed(r) /\ c >= MaxAttempts /\ UNCHANGED starts
           /\ worker' = [worker EXCEPT ![w].pc = "finish", ![w].res = "failed", ![w].count = c]
  <2> HIDE DEF c
  <2>1. worker' = [worker EXCEPT ![w] = [x EXCEPT !.pc = "finish", !.res = "failed", !.count = c]]
    BY <1>5
  <2>2. /\ worker'[w].pc = "finish" /\ worker'[w].res = "failed"
        /\ worker'[w].r = r /\ worker'[w].count = c
    BY <1>1, <1>2, <2>1 DEF WorkerRecord
  <2>3. \A v \in Workers : v # w => worker'[v] = worker[v]
    BY <1>2, <2>1
  <2> QED BY <1>4, <1>5, <2>2, <2>3 DEF c
<1>6. CASE /\ Claimable(r) /\ row' = Claimed(r) /\ ~(c >= MaxAttempts)
           /\ starts' = [starts EXCEPT ![r] = @ + 1]
           /\ worker' = [worker EXCEPT ![w].pc = "gate", ![w].left = ItemTimeout, ![w].count = c,
                                       ![w].before = FileOf[r] \in cached, ![w].shut = ~open]
  <2>1. PICK b, s : b = (FileOf[r] \in cached) /\ s = ~open
    OBVIOUS
  <2>2. c < MaxAttempts
    BY <1>4, <1>6, MediaPipelineAssumption
  <2> HIDE DEF c
  <2>3. worker' = [worker EXCEPT ![w] = [x EXCEPT !.pc = "gate", !.left = ItemTimeout, !.count = c,
                                                  !.before = b, !.shut = s]]
    BY <1>6, <2>1
  <2>4. worker'[w].pc = "gate" /\ worker'[w].r = r /\ worker'[w].count = c
    BY <1>1, <1>2, <2>3 DEF WorkerRecord
  <2>5. \A v \in Workers : v # w => worker'[v] = worker[v]
    BY <1>2, <2>3
  <2> QED BY <1>4, <1>6, <2>2, <2>4, <2>5 DEF c
<1>7. CASE Done(w) /\ row' = row /\ starts' = starts
  BY <1>3, <1>7
<1>8. CASE Done(w) /\ Claimable(r) /\ row' = Claimed(r) /\ starts' = starts
  BY <1>3, <1>4, <1>8
<1> QED BY <1>5, <1>6, <1>7, <1>8 DEF Claim

LEMMA OwnedClaim ==
  ASSUME OneProcess, TypeOK, TypeOK', ReservedOnce, Owned, NEW w \in Workers, Claim(w)
  PROVE  Owned' /\ FinalStays
<1> DEFINE r == worker[w].r
<1>1. worker[w].pc = "claim" /\ r \in Rows
  BY BusyType DEF Claim, At
<1>2. \A v \in Workers : v # w => worker'[v] = worker[v]
  BY ClaimMakes
<1>3. CASE row' = row /\ starts' = starts /\ worker'[w].pc = "idle"
  <2>1. \A v \in Workers : JobKept(v)
    BY <1>2, <1>3, ClaimingAre DEF JobKept, Claims
  <2> QED BY <1>3, <2>1, OwnedKept DEF RowKept
<1>4. CASE /\ row[r].status \in {"pending", "processing"}
           /\ row'[r].status = "processing"
           /\ row'[r].count = row[r].count + (IF row[r].status = "processing" THEN 1 ELSE 0)
           /\ \A q \in Rows : q # r => row'[q] = row[q]
           /\ \/ starts' = starts /\ worker'[w].pc = "idle"
              \/ /\ starts' = starts /\ worker'[w].pc = "finish" /\ worker'[w].res = "failed"
                 /\ worker'[w].r = r /\ worker'[w].count = row'[r].count
              \/ /\ starts' = [starts EXCEPT ![r] = @ + 1] /\ worker'[w].pc = "gate"
                 /\ worker'[w].r = r /\ worker'[w].count = row'[r].count
                 /\ row'[r].count < MaxAttempts
  <2>1. /\ \A q \in Rows : starts[q] \in Int /\ row[q].count \in Nat /\ row'[q].count \in Nat
        /\ \A q \in Rows : starts'[q] \in Int /\ (q # r => starts'[q] = starts[q])
        /\ starts'[r] = starts[r] \/ (starts'[r] = starts[r] + 1 /\ row'[r].count < MaxAttempts)
    BY <1>1, <1>4 DEF TypeOK, Row
  <2>2. /\ row[r].status = "pending" => starts[r] <= row[r].count /\ row[r].count < MaxAttempts
        /\ row[r].status = "processing" => starts[r] <= row[r].count + 1
    BY <1>1 DEF Owned, AttemptsInv, RowAttempts
  <2>3. starts[r] <= row'[r].count
    BY <1>1, <1>4, <2>1, <2>2
  <2>4. \A v \in Workers : v # w /\ worker[v].pc \in Claiming => worker[v].r \in Rows /\ worker[v].r # r
    BY OtherRow, ClaimingAre, BusyType
  <2>5. JobOwnsRow'
    <3> SUFFICES ASSUME NEW v \in Workers, worker'[v].pc \in Claiming
                 PROVE  \/ row'[worker'[v].r].status = "gone"
                        \/ /\ row'[worker'[v].r].status = "processing"
                           /\ row'[worker'[v].r].count = worker'[v].count
      BY DEF JobOwnsRow, Claiming
    <3>1. CASE v = w
      BY <1>4, <3>1, ClaimingAre
    <3>2. CASE v # w
      BY <1>2, <1>4, <2>4, <3>2 DEF Owned, JobOwnsRow, Claiming
    <3> QED BY <3>1, <3>2
  <2>6. RowAttempts'
    <3> SUFFICES ASSUME NEW q \in Rows
                 PROVE  /\ row'[q].status = "none" => starts'[q] = 0
                        /\ row'[q].status = "pending" =>
                             starts'[q] <= row'[q].count /\ row'[q].count < MaxAttempts
                        /\ row'[q].status = "processing" => starts'[q] <= row'[q].count + 1
      BY DEF RowAttempts
    <3>1. CASE q = r
      BY <1>1, <1>4, <2>1, <2>3, <3>1
    <3>2. CASE q # r
      <4>1. row'[q] = row[q] /\ starts'[q] = starts[q]
        BY <1>4, <2>1, <3>2
      <4> QED BY <4>1 DEF Owned, AttemptsInv, RowAttempts
    <3> QED BY <3>1, <3>2
  <2>7. JobAttempts'
    <3> SUFFICES ASSUME NEW v \in Workers
                 PROVE  /\ worker'[v].pc \in InTime \cup {"join"} => worker'[v].count < MaxAttempts
                        /\ worker'[v].pc = "finish" /\ worker'[v].res = "cooldown" =>
                             /\ worker'[v].count < MaxAttempts
                             /\ \/ row'[worker'[v].r].status = "gone"
                                \/ starts'[worker'[v].r] <= worker'[v].count
      BY DEF JobAttempts
    <3>1. CASE v = w
      BY <1>4, <3>1 DEF InTime
    <3>2. CASE v # w
      <4>1. worker'[v] = worker[v]
        BY <1>2, <3>2
      <4>2. worker[v].pc = "finish" => worker[v].r \in Rows /\ worker[v].r # r
        BY <2>4, <3>2, ClaimingAre
      <4>3. worker[v].pc = "finish" => row'[worker[v].r] = row[worker[v].r] /\ starts'[worker[v].r] = starts[worker[v].r]
        BY <1>4, <2>1, <4>2
      <4> QED BY <4>1, <4>3 DEF Owned, AttemptsInv, JobAttempts
    <3> QED BY <3>1, <3>2
  <2>8. AttemptsBounded'
    <3> SUFFICES ASSUME NEW q \in Rows PROVE starts'[q] <= MaxAttempts
      BY DEF AttemptsBounded
    <3>1. starts[q] <= MaxAttempts
      BY DEF Owned, AttemptsInv, AttemptsBounded
    <3>2. CASE q = r
      BY <1>1, <2>1, <2>3, <3>1, <3>2, MediaPipelineAssumption
    <3> QED BY <2>1, <3>1, <3>2
  <2>9. FinalStays
    BY <1>4 DEF FinalStays, Final
  <2> QED BY <2>5, <2>6, <2>7, <2>8, <2>9 DEF Owned, AttemptsInv
<1> QED BY <1>3, <1>4, ClaimMakes

LEMMA OwnedFinish ==
  ASSUME OneProcess, TypeOK, TypeOK', ReservedOnce, Owned, NEW w \in Workers, Finish(w)
  PROVE  Owned' /\ FinalStays
<1> DEFINE x == worker[w]
           r == worker[w].r
           c == worker[w].count
<1>1. x.pc = "finish" /\ r \in Rows /\ x \in WorkerRecord /\ c \in Nat
  BY BusyType DEF Finish, At, WorkerType, WorkerRecord
<1>2. /\ starts' = starts /\ worker'[w].pc = "idle"
      /\ \A v \in Workers : v # w => worker'[v] = worker[v]
  BY IdleType DEF Finish, Done, TypeOK
<1>3. PICK o \in Outcomes(w) :
        row' = row \/ (row[r].status # "gone" /\ row' = [row EXCEPT ![r] = o])
  BY DEF Finish
<1>4. CASE row' = row
  <2>1. \A v \in Workers : JobKept(v)
    BY <1>2, ClaimingAre DEF JobKept, Claims
  <2> QED BY <1>2, <1>4, <2>1, OwnedKept DEF RowKept
<1>5. CASE row[r].status # "gone" /\ row' = [row EXCEPT ![r] = o]
  <2>1. row[r].status = "processing" /\ row[r].count = c
    BY <1>1, <1>5, ClaimingAre DEF Owned, JobOwnsRow, Claiming
  <2>2. row'[r] = o /\ \A q \in Rows : q # r => row'[q] = row[q]
    BY <1>1, <1>5 DEF TypeOK
  <2>3. starts[r] <= c + 1 /\ starts[r] \in Int
    BY <1>1, <2>1 DEF Owned, AttemptsInv, RowAttempts, TypeOK
  <2>4. x.res = "cooldown" => starts[r] <= c /\ c < MaxAttempts
    BY <1>1, <1>5 DEF Owned, AttemptsInv, JobAttempts
  <2>5. \/ o.status = "failed"
        \/ o.status = "pending" /\ starts[r] <= o.count /\ o.count < MaxAttempts
        \/ o.status \in Final
    <3>1. CASE x.res = "retry"
      <4>1. \/ c + 1 >= MaxAttempts /\ o.status = "failed"
            \/ ~(c + 1 >= MaxAttempts) /\ \E d : o = PendingFor(c + 1, d)
        BY <3>1 DEF Outcomes
      <4>2. \A d : PendingFor(c + 1, d).status = "pending" /\ PendingFor(c + 1, d).count = c + 1
        BY DEF PendingFor
      <4>3. ~(c + 1 >= MaxAttempts) => c + 1 < MaxAttempts
        BY <1>1, MediaPipelineAssumption
      <4> QED BY <2>3, <4>1, <4>2, <4>3
    <3>2. CASE x.res = "cooldown"
      <4>1. \E d : o = PendingFor(c, d)
        BY <3>2 DEF Outcomes
      <4>2. \A d : PendingFor(c, d).status = "pending" /\ PendingFor(c, d).count = c
        BY DEF PendingFor
      <4> QED BY <2>4, <3>2, <4>1, <4>2
    <3>3. CASE x.res \notin {"retry", "cooldown"}
      <4>1. o.status = x.res
        BY <3>3 DEF Outcomes
      <4>2. x.res \in Final
        BY <1>1, <3>3 DEF WorkerRecord, Results
      <4> QED BY <4>1, <4>2
    <3> QED BY <3>1, <3>2, <3>3
  <2>6. \A v \in Workers : v # w /\ worker[v].pc \in Claiming => worker[v].r \in Rows /\ worker[v].r # r
    BY OtherRow, ClaimingAre, BusyType
  <2>7. JobOwnsRow'
    <3> SUFFICES ASSUME NEW v \in Workers, worker'[v].pc \in Claiming
                 PROVE  \/ row'[worker'[v].r].status = "gone"
                        \/ /\ row'[worker'[v].r].status = "processing"
                           /\ row'[worker'[v].r].count = worker'[v].count
      BY DEF JobOwnsRow, Claiming
    <3> QED BY <1>2, <2>2, <2>6, ClaimingAre DEF Owned, JobOwnsRow, Claiming
  <2>8. RowAttempts'
    <3> SUFFICES ASSUME NEW q \in Rows
                 PROVE  /\ row'[q].status = "none" => starts'[q] = 0
                        /\ row'[q].status = "pending" =>
                             starts'[q] <= row'[q].count /\ row'[q].count < MaxAttempts
                        /\ row'[q].status = "processing" => starts'[q] <= row'[q].count + 1
      BY DEF RowAttempts
    <3>1. CASE q = r
      BY <1>2, <2>2, <2>5, <3>1 DEF Final
    <3>2. CASE q # r
      BY <1>2, <2>2, <3>2 DEF Owned, AttemptsInv, RowAttempts
    <3> QED BY <3>1, <3>2
  <2>9. JobAttempts'
    <3> SUFFICES ASSUME NEW v \in Workers
                 PROVE  /\ worker'[v].pc \in InTime \cup {"join"} => worker'[v].count < MaxAttempts
                        /\ worker'[v].pc = "finish" /\ worker'[v].res = "cooldown" =>
                             /\ worker'[v].count < MaxAttempts
                             /\ \/ row'[worker'[v].r].status = "gone"
                                \/ starts'[worker'[v].r] <= worker'[v].count
      BY DEF JobAttempts
    <3>1. CASE v = w
      BY <1>2, <3>1 DEF InTime
    <3>2. CASE v # w
      <4>1. worker'[v] = worker[v]
        BY <1>2, <3>2
      <4>2. worker[v].pc = "finish" => row'[worker[v].r] = row[worker[v].r]
        BY <2>2, <2>6, <3>2, ClaimingAre
      <4> QED BY <1>2, <4>1, <4>2 DEF Owned, AttemptsInv, JobAttempts
    <3> QED BY <3>1, <3>2
  <2>10. AttemptsBounded'
    BY <1>2 DEF Owned, AttemptsInv, AttemptsBounded
  <2>11. FinalStays
    BY <2>1, <2>2 DEF FinalStays, Final
  <2> QED BY <2>7, <2>8, <2>9, <2>10, <2>11 DEF Owned, AttemptsInv
<1> QED BY <1>3, <1>4, <1>5

LEMMA OwnedAnalysing ==
  ASSUME TypeOK, TypeOK', Owned, NEW w \in Workers, Analysing(w)
  PROVE  Owned' /\ FinalStays
<1>1. CASE Cool(w)
  BY <1>1, OwnedCool
<1>2. CASE ~Cool(w)
  <2>1. UNCHANGED <<row, starts>>
    BY <1>2 DEF Analysing, FirstGate, Find, Fetch, FindAgain, LastGate, Describe, AskModel,
         StoreCache, TimeOut, Gate, LookUp, db
  <2>2. ASSUME NEW v \in Workers PROVE JobKept(v)
    BY <1>2, AnalysingKeeps, AnalysingMoves, ClaimingAre DEF JobKept, Claims
  <2> QED BY <2>1, <2>2, OwnedKept DEF RowKept
<1> QED BY <1>1, <1>2

LEMMA OwnedStep ==
  ASSUME OneProcess, TypeOK, TypeOK', ReservedOnce, Owned, [Next]_vars
  PROVE  Owned' /\ FinalStays
<1>1. worker \in [Workers -> WorkerRecord] /\ row \in [Rows -> Row]
  BY DEF TypeOK
<1>2. ASSUME NEW p \in Procs, QueueStep(p) \/ \E r \in Rows : Submit(p, r)
      PROVE  Owned' /\ FinalStays
  <2>1. UNCHANGED <<row, starts, worker>>
    BY <1>2 DEF QueueStep, Route, RecoverList, RecoverOne, Start, Submit, db
  <2> QED BY <2>1, OwnedKept DEF RowKept, JobKept, Claims
<1>3. ASSUME NEW p \in Procs, Stop(p) PROVE Owned' /\ FinalStays
  <2>1. UNCHANGED <<row, starts>> /\ \A v \in Workers : worker'[v] \in {worker[v], Idle}
    BY <1>3 DEF Stop, db
  <2> QED BY <2>1, OwnedKept, IdleType, ClaimingAre DEF RowKept, JobKept, Claims
<1>4. ASSUME NEW p \in Procs, NEW q \in Rows, Save(p, q) PROVE Owned' /\ FinalStays
  <2>1. ASSUME NEW r \in Rows PROVE RowKept(r)
    BY <1>1, <1>4 DEF Save, RowKept
  <2> QED BY <1>4, <2>1, OwnedKept DEF Save, JobKept, Claims
<1>5. ASSUME NEW w \in Workers, JobStep(w) PROVE Owned' /\ FinalStays
  <2>1. CASE Take(w) \/ Acquire(w)
    <3>1. /\ UNCHANGED <<row, starts>>
          /\ \A v \in Workers : worker'[v] = worker[v] \/ worker'[v].pc \in {"slot", "claim"}
      <4>1. CASE Take(w)
        <5>1. UNCHANGED <<row, starts>>
          BY <4>1 DEF Take, db
        <5>2. \E q : worker' = [worker EXCEPT ![w] = [Idle EXCEPT !.pc = "slot", !.r = q]]
          BY <4>1 DEF Take
        <5>3. \A q : [Idle EXCEPT !.pc = "slot", !.r = q].pc = "slot"
          BY DEF Idle
        <5> QED BY <1>1, <5>1, <5>2, <5>3
      <4>2. CASE Acquire(w)
        BY <1>1, <4>2 DEF Acquire, Goto, db, WorkerRecord
      <4> QED BY <2>1, <4>1, <4>2
    <3> QED BY <3>1, OwnedKept, ClaimingAre DEF RowKept, JobKept, Claims, InTime
  <2>2. CASE Claim(w)
    BY <2>2, OwnedClaim
  <2>3. CASE Finish(w)
    BY <2>3, OwnedFinish
  <2>4. CASE Analysing(w)
    BY <2>4, OwnedAnalysing
  <2> QED BY <1>5, <2>1, <2>2, <2>3, <2>4 DEF JobStep, Analysing
<1>6. ASSUME NEW q \in Rows, Delete(q) PROVE Owned' /\ FinalStays
  <2>1. ASSUME NEW r \in Rows PROVE RowKept(r)
    BY <1>1, <1>6 DEF Delete, RowKept
  <2> QED BY <1>6, <2>1, OwnedKept DEF Delete, JobKept, Claims
<1>7. CASE Toggle
  <2>1. UNCHANGED <<row, starts>>
    BY <1>7 DEF Toggle
  <2>2. ASSUME NEW v \in Workers PROVE JobKept(v)
    <3>1. worker'[v] = [worker[v] EXCEPT !.shut = @ /\ open]
      BY <1>7 DEF Toggle
    <3>2. /\ worker'[v].pc = worker[v].pc /\ worker'[v].r = worker[v].r
          /\ worker'[v].count = worker[v].count /\ worker'[v].res = worker[v].res
      BY <1>1, <3>1 DEF WorkerRecord
    <3> QED BY <3>2 DEF JobKept, Claims
  <2> QED BY <2>1, <2>2, OwnedKept DEF RowKept
<1>8. CASE Clock
  <2>1. starts' = starts
    BY <1>8 DEF Clock
  <2>2. ASSUME NEW v \in Workers PROVE JobKept(v)
    <3>1. worker'[v] = [worker[v] EXCEPT !.left = Less(@)]
      BY <1>8 DEF Clock
    <3>2. /\ worker'[v].pc = worker[v].pc /\ worker'[v].r = worker[v].r
          /\ worker'[v].count = worker[v].count /\ worker'[v].res = worker[v].res
      BY <1>1, <3>1 DEF WorkerRecord
    <3> QED BY <3>2 DEF JobKept, Claims
  <2>3. ASSUME NEW r \in Rows PROVE RowKept(r)
    <3>1. row'[r] = [row[r] EXCEPT !.wait = Less(@), !.fresh = Less(@)]
      BY <1>8 DEF Clock
    <3>2. row'[r].status = row[r].status /\ row'[r].count = row[r].count
      BY <1>1, <3>1 DEF Row
    <3> QED BY <3>2 DEF RowKept
  <2> QED BY <2>1, <2>2, <2>3, OwnedKept
<1>9. CASE UNCHANGED vars
  BY <1>9, OwnedKept DEF vars, db, RowKept, JobKept, Claims
<1> QED BY <1>2, <1>3, <1>4, <1>5, <1>6, <1>7, <1>8, <1>9 DEF Next

(***************************************************************************)
(* What leaves the process, and whose time is over: for any processes      *)
(***************************************************************************)
LEMMA IdleJob == ~Idle.before /\ ~Idle.shut /\ ~Idle.again /\ Idle.left = 0
  BY DEF Idle

\* The steps of the analysis, by the place they come from.
LEMMA AnalysingSends ==
  ASSUME TypeOK, NEW w \in Workers, Analysing(w), NEW v \in Workers
  PROVE  /\ worker'[v].pc \in Uncached =>
              \/ worker[v].pc \in Uncached
              \/ worker[v].pc \in {"find", "findAgain"} /\ File(v) \notin cached
         /\ worker'[v].pc \in LetOut => worker[v].pc \in LetOut \/ open
<1> DEFINE x == worker[v]
<1>1. worker \in [Workers -> WorkerRecord] /\ x \in WorkerRecord
  BY DEF TypeOK
<1>2. \/ open /\ Goto(w, "find")
      \/ File(w) \notin cached /\ worker[w].pc = "find" /\ Goto(w, "fetch")
      \/ File(w) \notin cached /\ worker[w].pc = "findAgain" /\ Goto(w, "gateAgain")
      \/ Fetched(w)
      \/ open /\ worker[w].pc = "gateAgain" /\ Goto(w, "describe")
      \/ worker[w].pc \in {"describe", "model"} /\ \E l \in {"join"} \cup Owning : Goto(w, l)
      \/ \E o : Conclude(w, o) \/ Land(w, o)
  BY DEF Analysing, FirstGate, Find, Fetch, FindAgain, LastGate, Describe, Cool, AskModel,
         StoreCache, TimeOut, Gate, LookUp, At, Owning
<1>3. /\ "find" \notin Uncached /\ "find" \in LetOut /\ "fetch" \in Uncached \cap LetOut
      /\ "gateAgain" \in Uncached \ LetOut /\ "findAgain" \notin Uncached \cup LetOut
      /\ "finish" \notin Uncached \cup LetOut
      /\ {"join", "describe", "model"} \cup Owning \subseteq Uncached \cap LetOut
  BY DEF Uncached, LetOut, Owning
<1>4. \A l : worker'[v] = [x EXCEPT !.pc = l] => worker'[v].pc = l
  BY <1>1 DEF WorkerRecord
<1>5. \A l, o : worker'[v] = [x EXCEPT !.pc = l, !.res = o] => worker'[v].pc = l
  BY <1>1 DEF WorkerRecord
<1>6. worker'[v] = [x EXCEPT !.pc = "describe", !.again = TRUE] => worker'[v].pc = "describe"
  BY <1>1 DEF WorkerRecord
<1>7. \A l : Goto(w, l) => worker'[v] = (IF v = w THEN [x EXCEPT !.pc = l] ELSE x)
  BY <1>1 DEF Goto
<1>8. \A o : Conclude(w, o) => worker'[v] = IF v = w THEN [x EXCEPT !.pc = "finish", !.res = o] ELSE x
  BY <1>1 DEF Conclude
<1>9. \A o : Land(w, o) =>
         \/ worker'[v] = x
         \/ \E m : worker'[v] = [x EXCEPT !.pc = "finish", !.res = m]
         \/ x.pc = "join" /\ worker'[v] = [x EXCEPT !.pc = "describe", !.again = TRUE]
  BY DEF Land, Joined
<1>10. CASE \E o : Conclude(w, o) \/ Land(w, o)
  BY <1>3, <1>5, <1>6, <1>8, <1>9, <1>10
<1>11. CASE worker[w].pc \in {"describe", "model"} /\ \E l \in {"join"} \cup Owning : Goto(w, l)
  BY <1>3, <1>4, <1>7, <1>11
<1>12. CASE File(w) \notin cached /\ worker[w].pc = "find" /\ Goto(w, "fetch")
  <2>1. worker'[v].pc = (IF v = w THEN "fetch" ELSE x.pc)
    BY <1>4, <1>7, <1>12
  <2>2. worker[w].pc \in LetOut
    BY <1>3, <1>12
  <2> QED BY <1>12, <2>1, <2>2
<1>13. CASE File(w) \notin cached /\ worker[w].pc = "findAgain" /\ Goto(w, "gateAgain")
  BY <1>3, <1>4, <1>7, <1>13
<1>14. CASE open /\ (Goto(w, "find") \/ (worker[w].pc = "gateAgain" /\ Goto(w, "describe")))
  BY <1>3, <1>4, <1>7, <1>14
<1>15. CASE Fetched(w)
  BY <1>3, <1>15, FetchedAt
<1> QED BY <1>2, <1>10, <1>11, <1>12, <1>13, <1>14, <1>15

\* What a worker becomes in a step.
LEMMA WorkerMoves ==
  ASSUME TypeOK, [Next]_vars, NEW v \in Workers
  PROVE  \/ worker'[v] = worker[v]
         \/ worker'[v] = Idle
         \/ worker[v].pc = "idle" /\ \E r : worker'[v] = [Idle EXCEPT !.pc = "slot", !.r = r]
         \/ Acquire(v) /\ worker[v].pc = "slot" /\ worker'[v] = [worker[v] EXCEPT !.pc = "claim"]
         \/ /\ worker[v].pc = "claim"
            /\ \E c : worker'[v] = [worker[v] EXCEPT !.pc = "finish", !.res = "failed", !.count = c]
         \/ /\ worker[v].pc = "claim" /\ UNCHANGED <<cached, open>>
            /\ \E c, b, s : /\ worker'[v] = [worker[v] EXCEPT !.pc = "gate", !.left = ItemTimeout,
                                                              !.count = c, !.before = b, !.shut = s]
                            /\ b = (FileOf[worker[v].r] \in cached) /\ s = ~open
         \/ \E w \in Workers : Analysing(w)
         \/ Toggle /\ worker'[v] = [worker[v] EXCEPT !.shut = @ /\ open]
         \/ Clock /\ worker'[v] = [worker[v] EXCEPT !.left = Less(@)]
<1>1. worker \in [Workers -> WorkerRecord]
  BY DEF TypeOK
<1>2. ASSUME NEW p \in Procs, QueueStep(p) \/ Stop(p) \/ \E r \in Rows : Save(p, r) \/ Submit(p, r)
      PROVE  worker'[v] \in {worker[v], Idle}
  BY <1>2 DEF QueueStep, Route, RecoverList, RecoverOne, Start, Stop, Save, Submit
<1>3. ASSUME NEW w \in Workers, Take(w)
      PROVE  \/ worker'[v] = worker[v]
             \/ worker[v].pc = "idle" /\ \E r : worker'[v] = [Idle EXCEPT !.pc = "slot", !.r = r]
  BY <1>1, <1>3 DEF Take
<1>4. ASSUME NEW w \in Workers, Acquire(w)
      PROVE  \/ worker'[v] = worker[v]
             \/ /\ Acquire(v) /\ worker[v].pc = "slot"
                /\ worker'[v] = [worker[v] EXCEPT !.pc = "claim"]
  BY <1>1, <1>4 DEF Acquire, Goto, At
<1>5. ASSUME NEW w \in Workers, Finish(w) PROVE worker'[v] \in {worker[v], Idle}
  BY <1>1, <1>5 DEF Finish, Done
<1>6. ASSUME NEW w \in Workers, Claim(w)
      PROVE  \/ worker'[v] \in {worker[v], Idle}
             \/ /\ worker[v].pc = "claim"
                /\ \E c : worker'[v] = [worker[v] EXCEPT !.pc = "finish", !.res = "failed", !.count = c]
             \/ /\ worker[v].pc = "claim" /\ UNCHANGED <<cached, open>>
                /\ \E c, b, s : /\ worker'[v] = [worker[v] EXCEPT !.pc = "gate", !.left = ItemTimeout,
                                                                  !.count = c, !.before = b, !.shut = s]
                                /\ b = (FileOf[worker[v].r] \in cached) /\ s = ~open
  <2>1. Done(w) => worker'[v] \in {worker[v], Idle}
    BY <1>1 DEF Done
  <2>2. worker[w].pc = "claim" /\ UNCHANGED <<cached, open>>
    BY <1>6 DEF Claim, At
  <2>3. \/ Done(w)
        \/ worker' = [worker EXCEPT ![w].pc = "finish", ![w].res = "failed",
                                    ![w].count = row'[worker[w].r].count]
        \/ worker' = [worker EXCEPT ![w].pc = "gate", ![w].left = ItemTimeout,
                                    ![w].count = row'[worker[w].r].count,
                                    ![w].before = FileOf[worker[w].r] \in cached, ![w].shut = ~open]
    BY <1>6 DEF Claim
  <2>4. PICK b, s : b = (FileOf[worker[w].r] \in cached) /\ s = ~open
    OBVIOUS
  <2>5. PICK c : c = row'[worker[w].r].count
    OBVIOUS
  <2>6. CASE worker' = [worker EXCEPT ![w].pc = "finish", ![w].res = "failed", ![w].count = c]
    BY <1>1, <2>2, <2>6
  <2>7. CASE worker' = [worker EXCEPT ![w].pc = "gate", ![w].left = ItemTimeout, ![w].count = c,
                                      ![w].before = b, ![w].shut = s]
    BY <1>1, <2>2, <2>4, <2>7
  <2> QED BY <2>1, <2>3, <2>4, <2>5, <2>6, <2>7
<1>7. (\E r \in Rows : Delete(r)) \/ UNCHANGED vars => worker'[v] = worker[v]
  BY DEF Delete, vars
<1>8. /\ Toggle => worker'[v] = [worker[v] EXCEPT !.shut = @ /\ open]
      /\ Clock => worker'[v] = [worker[v] EXCEPT !.left = Less(@)]
  BY DEF Toggle, Clock
<1> QED BY <1>2, <1>3, <1>4, <1>5, <1>6, <1>7, <1>8 DEF Next, JobStep, Analysing

\* A cached file stays in the cache, and only Toggle opens or closes the group.
LEMMA CacheGrows ==
  ASSUME [Next]_vars
  PROVE  cached \subseteq cached' /\ (open' = open \/ Toggle)
<1>1. ASSUME NEW w \in Workers, JobStep(w) PROVE cached \subseteq cached' /\ open' = open
  BY <1>1 DEF JobStep, Take, Acquire, Claim, FirstGate, Find, Fetch, FindAgain, LastGate, Describe,
              Cool, AskModel, StoreCache, TimeOut, Finish, Gate, LookUp, db
<1>2. ASSUME NEW p \in Procs, QueueStep(p) \/ Stop(p) \/ \E r \in Rows : Save(p, r) \/ Submit(p, r)
      PROVE  UNCHANGED <<cached, open>>
  BY <1>2 DEF QueueStep, Route, RecoverList, RecoverOne, Start, Stop, Save, Submit, db
<1>3. /\ (\E r \in Rows : Delete(r)) \/ Clock \/ UNCHANGED vars => UNCHANGED <<cached, open>>
      /\ Toggle => UNCHANGED cached
  BY DEF Delete, Clock, Toggle, vars, db
<1> QED BY <1>1, <1>2, <1>3 DEF Next

JobPrivacy(v) ==
  /\ worker[v].before => File(v) \in cached
  /\ worker[v].shut => ~open
  /\ worker[v].pc \in Uncached => ~worker[v].before
  /\ worker[v].pc \in LetOut => ~worker[v].shut

LEMMA PrivacyStep ==
  ASSUME TypeOK, PrivacyInv, [Next]_vars PROVE PrivacyInv'
<1> SUFFICES ASSUME NEW v \in Workers
             PROVE  /\ worker'[v].before => FileOf[worker'[v].r] \in cached'
                    /\ worker'[v].shut => ~open'
                    /\ worker'[v].pc \in Uncached => ~worker'[v].before
                    /\ worker'[v].pc \in LetOut => ~worker'[v].shut
  BY DEF PrivacyInv, File
<1> DEFINE x == worker[v]
           Goal == /\ worker'[v].before => FileOf[worker'[v].r] \in cached'
                   /\ worker'[v].shut => ~open'
                   /\ worker'[v].pc \in Uncached => ~worker'[v].before
                   /\ worker'[v].pc \in LetOut => ~worker'[v].shut
<1>1. x \in WorkerRecord /\ open \in BOOLEAN
  BY DEF TypeOK
<1>2. /\ x.before => FileOf[x.r] \in cached
      /\ x.shut => ~open
      /\ x.pc \in Uncached => ~x.before
      /\ x.pc \in LetOut => ~x.shut
  BY DEF PrivacyInv, File
<1>3. cached \subseteq cached' /\ (open' = open \/ Toggle)
  BY CacheGrows
<1>4. {"idle", "slot", "claim", "finish", "gate"} \cap (Uncached \cup LetOut) = {}
  BY DEF Uncached, LetOut, Owning
<1>5. CASE Toggle /\ worker'[v] = [x EXCEPT !.shut = @ /\ open]
  <2>1. PICK s : s = (x.shut /\ open)
    OBVIOUS
  <2>2. worker'[v] = [x EXCEPT !.shut = s] /\ ~s
    BY <1>2, <1>5, <2>1
  <2>3. /\ worker'[v].pc = x.pc /\ worker'[v].r = x.r /\ worker'[v].shut = s
        /\ worker'[v].before = x.before
    BY <1>1, <2>2 DEF WorkerRecord
  <2> QED BY <1>2, <1>3, <2>2, <2>3
<1>6. CASE open' = open /\ worker'[v] = x
  BY <1>2, <1>3, <1>6
<1>7. CASE worker'[v] = Idle
  <2>1. Idle.pc \notin Uncached \cup LetOut
    BY <1>4, IdleType
  <2> QED BY <1>7, <2>1, IdleJob
<1>8. ASSUME NEW r, worker'[v] = [Idle EXCEPT !.pc = "slot", !.r = r] PROVE Goal
  <2>1. worker'[v].pc = "slot" /\ ~worker'[v].before /\ ~worker'[v].shut
    BY <1>8 DEF Idle
  <2> QED BY <1>4, <2>1
<1>9. CASE open' = open /\ worker'[v] = [x EXCEPT !.pc = "claim"]
  <2>1. /\ worker'[v].pc = "claim" /\ worker'[v].r = x.r /\ worker'[v].shut = x.shut
        /\ worker'[v].before = x.before
    BY <1>1, <1>9 DEF WorkerRecord
  <2> QED BY <1>2, <1>3, <1>4, <1>9, <2>1
<1>10. ASSUME NEW c, open' = open,
              worker'[v] = [x EXCEPT !.pc = "finish", !.res = "failed", !.count = c]
       PROVE  Goal
  <2>1. /\ worker'[v].pc = "finish" /\ worker'[v].r = x.r /\ worker'[v].shut = x.shut
        /\ worker'[v].before = x.before
    BY <1>1, <1>10 DEF WorkerRecord
  <2> QED BY <1>2, <1>3, <1>4, <1>10, <2>1
<1>11. ASSUME NEW c, NEW b, NEW s, UNCHANGED <<cached, open>>,
              b = (FileOf[x.r] \in cached), s = ~open,
              worker'[v] = [x EXCEPT !.pc = "gate", !.left = ItemTimeout, !.count = c,
                                     !.before = b, !.shut = s]
       PROVE  Goal
  <2>1. /\ worker'[v].pc = "gate" /\ worker'[v].r = x.r /\ worker'[v].shut = s
        /\ worker'[v].before = b
    BY <1>1, <1>11 DEF WorkerRecord
  <2> QED BY <1>4, <1>11, <2>1
<1>12. ASSUME NEW w \in Workers, Analysing(w) PROVE Goal
  <2>1. open' = open
    BY <1>12 DEF Analysing, FirstGate, Find, Fetch, FindAgain, LastGate, Describe, Cool, AskModel,
                 StoreCache, TimeOut, Gate, LookUp, db
  <2>2. CASE v = w /\ Fetched(w)
    <3>1. /\ worker'[v].pc = "findAgain" /\ worker'[v].r = x.r
          /\ worker'[v].before => FileOf[x.r] \in cached
          /\ worker'[v].shut => ~open
      BY <2>2, FetchedAt DEF File
    <3>2. "findAgain" \notin Uncached \cup LetOut
      BY DEF Uncached, LetOut, Owning
    <3> QED BY <1>3, <2>1, <3>1, <3>2
  <2>3. CASE ~(v = w /\ Fetched(w))
    <3>1. /\ worker'[v].r = x.r /\ worker'[v].before = x.before /\ worker'[v].shut = x.shut
      BY <1>12, <2>3, AnalysingKeeps
    <3>2. /\ worker'[v].pc \in Uncached =>
                \/ x.pc \in Uncached
                \/ x.pc \in {"find", "findAgain"} /\ FileOf[x.r] \notin cached
          /\ worker'[v].pc \in LetOut => x.pc \in LetOut \/ open
      BY <1>12, AnalysingSends DEF File
    <3> QED BY <1>2, <1>3, <2>1, <3>1, <3>2
  <2> QED BY <2>2, <2>3
<1>13. CASE open' = open /\ worker'[v] = [x EXCEPT !.left = Less(@)]
  <2>1. /\ worker'[v].pc = x.pc /\ worker'[v].r = x.r /\ worker'[v].shut = x.shut
        /\ worker'[v].before = x.before
    BY <1>1, <1>13 DEF WorkerRecord
  <2> QED BY <1>2, <1>3, <1>13, <2>1
<1>14. CASE Toggle
  <2>1. worker'[v] = [x EXCEPT !.shut = @ /\ open]
    BY <1>14 DEF Toggle
  <2> QED BY <1>5, <1>14, <2>1
<1>15. CASE open' = open
  <2> HIDE DEF Goal
  <2>1. (\E r : worker'[v] = [Idle EXCEPT !.pc = "slot", !.r = r]) => Goal
    BY <1>8
  <2>2. (\E c : worker'[v] = [x EXCEPT !.pc = "finish", !.res = "failed", !.count = c]) => Goal
    BY <1>10, <1>15
  <2>3. UNCHANGED <<cached, open>> /\
        (\E c, b, s : /\ worker'[v] = [x EXCEPT !.pc = "gate", !.left = ItemTimeout,
                                                !.count = c, !.before = b, !.shut = s]
                      /\ b = (FileOf[x.r] \in cached) /\ s = ~open) => Goal
    BY <1>11, Zenon
  <2>4. worker'[v] \in {x, Idle, [x EXCEPT !.pc = "claim"], [x EXCEPT !.left = Less(@)]} => Goal
    BY <1>6, <1>7, <1>9, <1>13, <1>15 DEF Goal
  <2>5. (\E w \in Workers : Analysing(w)) => Goal
    BY <1>12
  <2>6. Toggle => Goal
    BY <1>14 DEF Goal
  <2>7. Goal
    BY <2>1, <2>2, <2>3, <2>4, <2>5, <2>6, WorkerMoves, Zenon
  <2> QED BY <2>7 DEF Goal
<1> QED BY <1>3, <1>14, <1>15

LEMMA PrivacyInit == Init => PrivacyInv
<1> SUFFICES ASSUME Init, NEW v \in Workers PROVE JobPrivacy(v)
  BY DEF PrivacyInv, JobPrivacy
<1>1. worker[v] = Idle
  BY DEF Init
<1>2. "idle" \notin Uncached \cup LetOut
  BY DEF Uncached, LetOut, Owning
<1> QED BY <1>1, <1>2, IdleJob, IdleType DEF JobPrivacy

\* What the analysis of a process makes of the place of a job: only a call whose
\* time is over sends a job that has joined it again.
LEMMA AnalysingGoesAgain ==
  ASSUME TypeOK, NEW w \in Workers, Analysing(w), NEW v \in Workers
  PROVE  /\ worker'[v].pc \in Running => worker[v].pc \in Running
         /\ worker'[v].pc \in InTime \cup {"join"} => worker[v].pc \in InTime \cup {"join"}
         /\ worker'[v].again => worker'[v].pc \in Claiming \/ worker'[v] = worker[v]
         /\ \/ worker'[v].again = worker[v].again
            \/ /\ v # w /\ v[1] = w[1] /\ worker[v].pc = "join"
               /\ worker[w].pc \in InTime /\ worker'[w].pc = "finish"
<1> DEFINE x == worker[v]
<1>1. worker \in [Workers -> WorkerRecord] /\ x \in WorkerRecord /\ worker[w] \in WorkerRecord
  BY DEF TypeOK
<1>2. worker[w].pc \in InTime
  BY DEF Analysing, FirstGate, Find, Fetch, FindAgain, LastGate, Describe, Cool, AskModel,
         StoreCache, TimeOut, Gate, LookUp, At, InTime
<1>3. \/ \E l \in InTime \cup {"join"} : Goto(w, l)
      \/ \E o : Conclude(w, o) \/ Land(w, o)
      \/ Fetched(w)
  BY DEF Analysing, FirstGate, Find, Fetch, FindAgain, LastGate, Describe, Cool, AskModel,
         StoreCache, TimeOut, Gate, LookUp, InTime
<1>4. /\ Running = InTime \cup {"join", "finish", "claim"} /\ "finish" \notin InTime
      /\ "join" \notin InTime /\ Claiming = InTime \cup {"join", "finish"} /\ "describe" \in InTime
  BY ClaimingAre DEF Running, InTime
<1>5. ASSUME NEW l \in InTime \cup {"join"}, worker'[v] = [x EXCEPT !.pc = l]
      PROVE  worker'[v].pc = l /\ worker'[v].again = x.again
  BY <1>1, <1>5 DEF WorkerRecord
<1>6. ASSUME NEW o, worker'[v] = [x EXCEPT !.pc = "finish", !.res = o]
      PROVE  worker'[v].pc = "finish" /\ worker'[v].again = x.again
  BY <1>1, <1>6 DEF WorkerRecord
<1>7. CASE \E l \in InTime \cup {"join"} : Goto(w, l)
  <2>1. PICK l \in InTime \cup {"join"} : Goto(w, l)
    BY <1>7
  <2>2. CASE v = w
    <3>1. worker'[v] = [x EXCEPT !.pc = l]
      BY <1>1, <2>1, <2>2 DEF Goto
    <3>2. worker'[v].pc = l /\ worker'[v].again = x.again
      BY <1>5, <3>1
    <3> QED BY <1>2, <1>4, <2>2, <3>2
  <2>3. CASE v # w
    BY <1>1, <1>4, <2>1, <2>3 DEF Goto
  <2> QED BY <2>2, <2>3
<1>8. ASSUME NEW o, Conclude(w, o)
      PROVE  worker'[v] = x \/ (v = w /\ worker'[v] = [x EXCEPT !.pc = "finish", !.res = o])
  BY <1>1, <1>8 DEF Conclude
<1>9. CASE \E o : Conclude(w, o)
  <2>1. worker'[v] = x \/ (v = w /\ worker'[v].pc = "finish" /\ worker'[v].again = x.again)
    BY <1>6, <1>8, <1>9
  <2> QED BY <1>2, <1>4, <2>1
<1>10. CASE \E o : Land(w, o)
  <2>1. PICK o : Land(w, o)
    BY <1>10
  <2>2. CASE v = w
    <3>1. \E m : worker'[v] = [x EXCEPT !.pc = "finish", !.res = m]
      BY <2>1, <2>2 DEF Land
    <3>2. worker'[v].pc = "finish" /\ worker'[v].again = x.again
      BY <1>6, <3>1
    <3> QED BY <1>2, <1>4, <2>2, <3>2
  <2>3. CASE v # w /\ ~(v[1] = w[1] /\ worker[v].pc = "join" /\ File(v) = File(w))
    <3>1. worker'[v] = x
      BY <2>1, <2>3 DEF Land
    <3> QED BY <1>4, <3>1
  <2>4. CASE v # w /\ v[1] = w[1] /\ worker[v].pc = "join" /\ File(v) = File(w)
    <3>1. \/ \E m : worker'[v] = [x EXCEPT !.pc = "finish", !.res = m]
          \/ worker'[v] = [x EXCEPT !.pc = "describe", !.again = TRUE]
      BY <2>1, <2>4 DEF Land, Joined
    <3>2. worker'[v] = [x EXCEPT !.pc = "describe", !.again = TRUE] => worker'[v].pc = "describe"
      BY <1>1 DEF WorkerRecord
    <3>3. \E m : worker'[w] = [worker[w] EXCEPT !.pc = "finish", !.res = m]
      BY <2>1 DEF Land
    <3>4. worker'[w].pc = "finish"
      BY <1>1, <3>3 DEF WorkerRecord
    <3> QED BY <1>2, <1>4, <1>6, <2>4, <3>1, <3>2, <3>4
  <2> QED BY <2>2, <2>3, <2>4
<1>11. CASE Fetched(w)
  <2>1. "findAgain" \in InTime
    BY DEF InTime
  <2> QED BY <1>2, <1>4, <1>11, <2>1, FetchedAt
<1> QED BY <1>3, <1>7, <1>9, <1>10, <1>11

\* A running job has run before, but for the one that has got a slot.
LEMMA RunningMoves ==
  ASSUME TypeOK, [Next]_vars, NEW v \in Workers, worker'[v].pc \in Running
  PROVE  worker[v].pc \in Running \/ (Acquire(v) /\ worker[v].pc = "slot")
<1> DEFINE x == worker[v]
<1>1. x \in WorkerRecord /\ Idle.pc = "idle"
  BY IdleType DEF TypeOK
<1>2. "idle" \notin Running /\ "slot" \notin Running /\ "claim" \in Running
  BY DEF Running, InTime
<1>3. \A r : [Idle EXCEPT !.pc = "slot", !.r = r].pc = "slot"
  BY DEF Idle
<1>4. [x EXCEPT !.shut = @ /\ open].pc = x.pc /\ [x EXCEPT !.left = Less(@)].pc = x.pc
  BY <1>1 DEF WorkerRecord
<1>5. (\E w \in Workers : Analysing(w)) => x.pc \in Running
  BY AnalysingGoesAgain
<1>6. \/ worker'[v] = x
      \/ worker'[v] = Idle
      \/ \E r : worker'[v] = [Idle EXCEPT !.pc = "slot", !.r = r]
      \/ Acquire(v) /\ x.pc = "slot"
      \/ x.pc = "claim"
      \/ \E w \in Workers : Analysing(w)
      \/ worker'[v] = [x EXCEPT !.shut = @ /\ open]
      \/ worker'[v] = [x EXCEPT !.left = Less(@)]
  BY WorkerMoves, Zenon
<1>7. worker'[v].pc \notin {"idle", "slot"}
  BY <1>2
<1>8. x.pc = "claim" => x.pc \in Running
  BY <1>2
<1> QED BY <1>1, <1>3, <1>4, <1>5, <1>6, <1>7, <1>8

LEMMA SlotsStep ==
  ASSUME TypeOK, SlotsHold, [Next]_vars PROVE SlotsHold'
<1> SUFFICES ASSUME NEW p \in Procs PROVE Cardinality(RunningOf(p)') <= MaxConcurrent
  BY DEF SlotsHold
<1>1. IsFiniteSet(RunningOf(p)) /\ IsFiniteSet(RunningOf(p)')
  BY WorkersAreFinite, FS_Subset DEF RunningOf
<1>2. Cardinality(RunningOf(p)) \in Nat /\ Cardinality(RunningOf(p)') \in Nat
  BY <1>1, FS_CardinalityType
<1>3. Cardinality(RunningOf(p)) <= MaxConcurrent
  BY DEF SlotsHold
<1>4. CASE \E w \in Workers : Acquire(w) /\ w[1] = p
  <2>1. PICK w \in Workers : Acquire(w) /\ w[1] = p
    BY <1>4
  <2>2. Cardinality(RunningOf(p)) < MaxConcurrent
    BY <2>1 DEF Acquire, RunningOf
  <2>3. RunningOf(p)' \subseteq RunningOf(p) \cup {w}
    <3>1. \A v \in Workers : v # w => worker'[v] = worker[v]
      BY <2>1 DEF Acquire, Goto, TypeOK
    <3> QED BY <3>1 DEF RunningOf
  <2>4. IsFiniteSet({w}) /\ Cardinality({w}) = 1
    BY FS_Singleton
  <2>5. /\ IsFiniteSet(RunningOf(p) \cup {w})
        /\ Cardinality(RunningOf(p) \cup {w}) \in {Cardinality(RunningOf(p)), Cardinality(RunningOf(p)) + 1}
    BY <1>1, FS_AddElement
  <2>6. Cardinality(RunningOf(p)') <= Cardinality(RunningOf(p) \cup {w})
    BY <2>3, <2>5, FS_Subset
  <2> QED BY <1>2, <2>2, <2>5, <2>6, MediaPipelineAssumption
<1>5. CASE ~\E w \in Workers : Acquire(w) /\ w[1] = p
  <2>1. RunningOf(p)' \subseteq RunningOf(p)
    BY <1>5, RunningMoves DEF RunningOf
  <2>2. Cardinality(RunningOf(p)') <= Cardinality(RunningOf(p))
    BY <1>1, <2>1, FS_Subset
  <2> QED BY <1>2, <1>3, <2>2, MediaPipelineAssumption
<1> QED BY <1>4, <1>5

\* What a step makes of the time of a job, and of its second go.
LEMMA TimesMove ==
  ASSUME TypeOK, TimesInv, [Next]_vars, NEW v \in Workers
  PROVE  /\ worker'[v].left <= ItemTimeout
         /\ worker'[v].again => worker'[v].pc \in Claiming
         /\ worker'[v].pc \in InTime \cup {"join"} =>
              \/ worker[v].pc \in InTime \cup {"join"} /\ (worker'[v].left = worker[v].left \/ Clock)
              \/ worker'[v].left = ItemTimeout /\ ~worker'[v].again
         /\ worker'[v].again =>
              \/ worker[v].again
              \/ \E w \in Workers : /\ Analysing(w) /\ w # v /\ w[1] = v[1] /\ worker[v].pc = "join"
                                    /\ worker[w].pc \in InTime /\ worker'[w].pc = "finish"
<1> DEFINE x == worker[v]
           Goal ==
             /\ worker'[v].left <= ItemTimeout
             /\ worker'[v].again => worker'[v].pc \in Claiming
             /\ worker'[v].pc \in InTime \cup {"join"} =>
                  \/ x.pc \in InTime \cup {"join"} /\ (worker'[v].left = x.left \/ Clock)
                  \/ worker'[v].left = ItemTimeout /\ ~worker'[v].again
             /\ worker'[v].again =>
                  \/ x.again
                  \/ \E w \in Workers : /\ Analysing(w) /\ w # v /\ w[1] = v[1] /\ x.pc = "join"
                                        /\ worker[w].pc \in InTime /\ worker'[w].pc = "finish"
<1>1. /\ x \in WorkerRecord /\ x.left \in Nat /\ x.left <= ItemTimeout
      /\ x.again => x.pc \in Claiming
  BY DEF TypeOK, WorkerRecord, TimesInv
<1>2. /\ {"idle", "slot", "claim"} \cap Claiming = {} /\ Claiming = InTime \cup {"join", "finish"}
      /\ {"idle", "slot", "claim", "finish"} \cap (InTime \cup {"join"}) = {}
  BY ClaimingAre DEF InTime
<1>3. ItemTimeout \in Nat
  BY MediaPipelineAssumption
<1>4. CASE worker'[v] = x
  BY <1>1, <1>4
<1>5. CASE worker'[v] = Idle
  BY <1>2, <1>3, <1>5, IdleType, IdleJob
<1>6. ASSUME NEW r, worker'[v] = [Idle EXCEPT !.pc = "slot", !.r = r] PROVE Goal
  <2>1. worker'[v].pc = "slot" /\ worker'[v].left = 0 /\ ~worker'[v].again
    BY <1>6 DEF Idle
  <2> QED BY <1>2, <1>3, <2>1
<1>7. CASE x.pc = "slot" /\ worker'[v] = [x EXCEPT !.pc = "claim"]
  <2>1. worker'[v].pc = "claim" /\ worker'[v].left = x.left /\ worker'[v].again = x.again
    BY <1>1, <1>7 DEF WorkerRecord
  <2> QED BY <1>1, <1>2, <1>7, <2>1
<1>8. ASSUME NEW c, x.pc = "claim",
             worker'[v] = [x EXCEPT !.pc = "finish", !.res = "failed", !.count = c]
      PROVE  Goal
  <2>1. worker'[v].pc = "finish" /\ worker'[v].left = x.left /\ worker'[v].again = x.again
    BY <1>1, <1>8 DEF WorkerRecord
  <2> QED BY <1>1, <1>2, <1>8, <2>1
<1>9. ASSUME NEW c, NEW b, NEW s, x.pc = "claim",
             worker'[v] = [x EXCEPT !.pc = "gate", !.left = ItemTimeout, !.count = c,
                                    !.before = b, !.shut = s]
      PROVE  Goal
  <2>1. worker'[v].pc = "gate" /\ worker'[v].left = ItemTimeout /\ worker'[v].again = x.again
    BY <1>1, <1>9 DEF WorkerRecord
  <2> QED BY <1>1, <1>2, <1>3, <1>9, <2>1
<1>10. ASSUME NEW w \in Workers, Analysing(w) PROVE Goal
  <2>1. worker'[v].left = x.left
    BY <1>10, AnalysingKeeps
  <2>2. /\ worker'[v].pc \in InTime \cup {"join"} => x.pc \in InTime \cup {"join"}
        /\ worker'[v].again => worker'[v].pc \in Claiming \/ worker'[v] = x
        /\ \/ worker'[v].again = x.again
           \/ /\ v # w /\ v[1] = w[1] /\ x.pc = "join"
              /\ worker[w].pc \in InTime /\ worker'[w].pc = "finish"
    BY <1>10, AnalysingGoesAgain
  <2> QED BY <1>1, <1>10, <2>1, <2>2
<1>11. CASE worker'[v] = [x EXCEPT !.shut = @ /\ open]
  <2>1. worker'[v].pc = x.pc /\ worker'[v].left = x.left /\ worker'[v].again = x.again
    BY <1>1, <1>11 DEF WorkerRecord
  <2> QED BY <1>1, <2>1
<1>12. CASE Clock /\ worker'[v] = [x EXCEPT !.left = Less(@)]
  <2>1. worker'[v].pc = x.pc /\ worker'[v].left = Less(x.left) /\ worker'[v].again = x.again
    BY <1>1, <1>12 DEF WorkerRecord
  <2>2. Less(x.left) \in Nat /\ Less(x.left) <= x.left
    BY <1>1, LessType
  <2> QED BY <1>1, <1>3, <1>12, <2>1, <2>2
<1> HIDE DEF Goal
<1>13. (\E r : worker'[v] = [Idle EXCEPT !.pc = "slot", !.r = r]) => Goal
  BY <1>6
<1>14. x.pc = "claim" /\ (\E c : worker'[v] = [x EXCEPT !.pc = "finish", !.res = "failed", !.count = c])
         => Goal
  BY <1>8
<1>15. x.pc = "claim" /\ UNCHANGED <<cached, open>> /\
         (\E c, b, s : /\ worker'[v] = [x EXCEPT !.pc = "gate", !.left = ItemTimeout,
                                                 !.count = c, !.before = b, !.shut = s]
                       /\ b = (FileOf[x.r] \in cached) /\ s = ~open) => Goal
  BY <1>9, Zenon
<1>16. (\E w \in Workers : Analysing(w)) => Goal
  BY <1>10
<1>17. \/ worker'[v] = x
       \/ worker'[v] = Idle
       \/ worker'[v] = [x EXCEPT !.shut = @ /\ open]
       \/ x.pc = "slot" /\ worker'[v] = [x EXCEPT !.pc = "claim"]
       \/ Clock /\ worker'[v] = [x EXCEPT !.left = Less(@)]
       => Goal
  BY <1>4, <1>5, <1>7, <1>11, <1>12 DEF Goal
<1>18. Goal
  BY <1>13, <1>14, <1>15, <1>16, <1>17, WorkerMoves, Zenon
<1> QED BY <1>18 DEF Goal

\* Two jobs at work are all that run, so that nobody is behind the one that goes
\* again but the one that it has waited for.
LEMMA ThirdJob ==
  ASSUME TypeOK, SlotsHold, MaxConcurrent <= 2, NEW u \in Workers, NEW v \in Workers, NEW w \in Workers,
         {worker[u].pc, worker[v].pc, worker[w].pc} \subseteq Running, u[1] = w[1], v[1] = w[1]
  PROVE  u = v \/ u = w \/ v = w
<1> SUFFICES ASSUME u # v, u # w, v # w PROVE FALSE
  OBVIOUS
<1>1. {u, v, w} \subseteq RunningOf(w[1])
  BY DEF RunningOf
<1>2. IsFiniteSet(RunningOf(w[1]))
  BY WorkersAreFinite, FS_Subset DEF RunningOf
<1>3. IsFiniteSet({u}) /\ Cardinality({u}) = 1
  BY FS_Singleton
<1>4. IsFiniteSet({u} \cup {v}) /\ Cardinality({u} \cup {v}) = 2
  <2>1. v \notin {u}
    OBVIOUS
  <2>2. Cardinality({u} \cup {v}) = Cardinality({u}) + 1 /\ IsFiniteSet({u} \cup {v})
    BY <1>3, <2>1, FS_AddElement
  <2> QED BY <1>3, <2>2
<1>5. Cardinality(({u} \cup {v}) \cup {w}) = Cardinality({u} \cup {v}) + 1
  BY <1>4, FS_AddElement
<1>6. ({u} \cup {v}) \cup {w} = {u, v, w}
  OBVIOUS
<1>7. Cardinality({u, v, w}) = 3
  BY <1>4, <1>5, <1>6
<1>8. Cardinality({u, v, w}) <= Cardinality(RunningOf(w[1])) /\ Cardinality(RunningOf(w[1])) \in Nat
  BY <1>1, <1>2, FS_Subset, FS_CardinalityType
<1>9. Cardinality(RunningOf(w[1])) <= MaxConcurrent
  BY ProcOfWorker DEF SlotsHold
<1> QED BY <1>7, <1>8, <1>9, MediaPipelineAssumption

LEMMA TimesStep ==
  ASSUME MaxConcurrent <= 2, TypeOK, TypeOK', TimesInv, [Next]_vars PROVE TimesInv'
<1>1. SlotsHold'
  BY SlotsStep DEF TimesInv
<1>2. \A w \in Workers : worker'[w].left <= ItemTimeout /\ (worker'[w].again => worker'[w].pc \in Claiming)
  BY TimesMove
<1>3. AgainIsFirst'
  <2> SUFFICES ASSUME NEW v \in Workers, NEW w \in Workers, v # w, v[1] = w[1], worker'[w].again,
                      {worker'[v].pc, worker'[w].pc} \subseteq InTime \cup {"join"}
               PROVE  worker'[w].left <= worker'[v].left
    BY DEF AgainIsFirst
  <2>1. /\ worker[v].left \in Nat /\ worker[w].left \in Nat
        /\ worker'[v].left \in Nat /\ worker'[w].left \in Nat
    BY DEF TypeOK, WorkerRecord
  <2>2. worker[w].pc \in InTime \cup {"join"} /\ (worker'[w].left = worker[w].left \/ Clock)
    BY TimesMove
  <2>3. \/ worker[v].pc \in InTime \cup {"join"} /\ (worker'[v].left = worker[v].left \/ Clock)
        \/ worker'[v].left = ItemTimeout
    BY TimesMove
  <2>4. CASE worker'[v].left = ItemTimeout
    BY <1>2, <2>4
  <2>5. CASE worker[w].again /\ worker[v].pc \in InTime \cup {"join"}
             /\ (worker'[v].left = worker[v].left \/ Clock)
    <3>1. worker[w].left <= worker[v].left
      BY <2>2, <2>5 DEF TimesInv, AgainIsFirst
    <3>2. CASE Clock
      <4>1. worker'[v] = [worker[v] EXCEPT !.left = Less(@)] /\ worker'[w] = [worker[w] EXCEPT !.left = Less(@)]
        BY <3>2 DEF Clock
      <4>2. worker'[v].left = Less(worker[v].left) /\ worker'[w].left = Less(worker[w].left)
        BY <4>1 DEF TypeOK, WorkerRecord
      <4> QED BY <2>1, <3>1, <4>2 DEF Less
    <3> QED BY <2>2, <2>5, <3>1, <3>2
  <2>6. CASE ~worker[w].again
    <3>1. PICK u \in Workers : /\ Analysing(u) /\ u # w /\ u[1] = w[1]
                               /\ worker[u].pc \in InTime /\ worker'[u].pc = "finish"
      BY <2>6, TimesMove
    <3>2. v # u /\ (InTime \cup {"join"}) \subseteq Running
      BY <3>1 DEF InTime, Running
    <3>3. CASE worker[v].pc \in InTime \cup {"join"}
      BY <2>2, <3>1, <3>2, <3>3, ThirdJob DEF TimesInv
    <3> QED BY <2>3, <2>4, <3>3
  <2> QED BY <2>3, <2>4, <2>5, <2>6
<1> QED BY <1>1, <1>2, <1>3 DEF TimesInv, Claiming

\* A job that has waited ends as failed only by an answer, or a failed write, of the
\* call that it has waited for.
NoForeignStep ==
  \A w \in Workers :
    worker[w].pc = "join" /\ worker'[w].pc = "finish" /\ worker'[w].res = "failed"
    => \E v \in Workers : /\ worker[v].pc \in Owning /\ worker[v].left > 0
                          /\ File(v) = File(w)

LEMMA ForeignTimes ==
  ASSUME TypeOK, TimesInv, [Next]_vars PROVE NoForeignStep
<1> SUFFICES ASSUME NEW w \in Workers, worker[w].pc = "join",
                    worker'[w].pc = "finish", worker'[w].res = "failed"
             PROVE  \E v \in Workers : /\ worker[v].pc \in Owning /\ worker[v].left > 0
                                       /\ File(v) = File(w)
  BY DEF NoForeignStep
<1> DEFINE x == worker[w]
<1>1. x \in WorkerRecord /\ worker \in [Workers -> WorkerRecord]
  BY DEF TypeOK
<1>2. PICK u \in Workers : Analysing(u)
  <2>1. \/ worker'[w] = x
        \/ worker'[w] = Idle
        \/ \E u \in Workers : Analysing(u)
        \/ worker'[w] = [x EXCEPT !.shut = @ /\ open]
        \/ worker'[w] = [x EXCEPT !.left = Less(@)]
    BY WorkerMoves
  <2>2. [x EXCEPT !.shut = @ /\ open].pc = x.pc /\ [x EXCEPT !.left = Less(@)].pc = x.pc
    BY <1>1 DEF WorkerRecord
  <2> QED BY <2>1, <2>2, IdleType
<1>3. worker[u].pc \in InTime /\ u # w
  BY <1>2 DEF Analysing, FirstGate, Find, Fetch, FindAgain, LastGate, Describe, Cool, AskModel,
         StoreCache, TimeOut, Gate, LookUp, At, InTime
<1>4. PICK o : /\ Land(u, o)
               /\ worker[u].pc \in Owning /\ (worker[u].left > 0 \/ (o = "timeout" /\ worker[u].left = 0))
  <2>1. (\E l : Goto(u, l)) \/ (\E o : Conclude(u, o)) => worker'[w] = x
    BY <1>1, <1>3 DEF Goto, Conclude
  <2>2. \/ \E l : Goto(u, l)
        \/ \E o : Conclude(u, o)
        \/ Fetched(u)
        \/ \E o : /\ Land(u, o)
                  /\ worker[u].pc \in Owning
                  /\ worker[u].left > 0 \/ (o = "timeout" /\ worker[u].left = 0)
    BY <1>2 DEF Analysing, FirstGate, Find, Fetch, FindAgain, LastGate, Describe, Cool, AskModel,
         StoreCache, TimeOut, Gate, LookUp, At, InTime, Owning
  <2>3. Fetched(u) => worker'[w] = x
    BY <1>3, FetchedAt
  <2>4. worker'[w] # x
    BY <1>1 DEF InTime
  <2> QED BY <2>1, <2>2, <2>3, <2>4
<1>5. u[1] = w[1] /\ File(w) = File(u) /\ worker'[w] = Joined(w, o)
  <2>1. worker'[w] = IF w[1] = u[1] /\ File(w) = File(u) THEN Joined(w, o) ELSE x
    BY <1>3, <1>4 DEF Land
  <2> QED BY <2>1
<1>6. CASE worker[u].left > 0
  BY <1>4, <1>5, <1>6
<1>7. CASE o = "timeout" /\ worker[u].left = 0
  <2>1. x.left # 0
    <3>1. x.left = 0 => worker'[w] = [x EXCEPT !.pc = "finish", !.res = "retry"]
      BY <1>5 DEF Joined
    <3>2. [x EXCEPT !.pc = "finish", !.res = "retry"].res = "retry"
      BY <1>1 DEF WorkerRecord
    <3> QED BY <3>1, <3>2
  <2>2. x.again
    <3>1. ~x.again => worker'[w] = [x EXCEPT !.pc = "describe", !.again = TRUE]
      BY <1>5, <1>7, <2>1 DEF Joined
    <3>2. [x EXCEPT !.pc = "describe", !.again = TRUE].pc = "describe"
      BY <1>1 DEF WorkerRecord
    <3> QED BY <3>1, <3>2
  <2>3. x.left <= worker[u].left
    BY <1>3, <1>5, <2>2 DEF TimesInv, AgainIsFirst
  <2>4. x.left \in Nat
    BY <1>1 DEF WorkerRecord
  <2> QED BY <1>7, <2>1, <2>3, <2>4
<1> QED BY <1>4, <1>6, <1>7

LEMMA TimesInit == Init => TimesInv
<1> SUFFICES ASSUME Init PROVE TimesInv
  OBVIOUS
<1>1. \A w \in Workers : worker[w] = Idle
  BY DEF Init
<1>2. \A p \in Procs : RunningOf(p) = {}
  BY <1>1, IdleType DEF RunningOf, Running, InTime
<1>3. SlotsHold
  BY <1>2, FS_EmptySet, MediaPipelineAssumption DEF SlotsHold
<1> QED BY <1>1, <1>3, IdleJob, MediaPipelineAssumption DEF TimesInv, AgainIsFirst

LEMMA ReservedInit == Init => ReservedOnce
<1> SUFFICES ASSUME Init, NEW p \in Procs, NEW r \in Rows
             PROVE  Places(p, r) = IF r \in queued[p] THEN 1 ELSE 0
  BY DEF ReservedOnce
<1>1. inbox[p] = <<>> /\ light[p] = <<>> /\ video[p] = <<>> /\ queued[p] = {}
  BY DEF Init
<1>2. HoldersOf(p, r) = {}
  BY IdleType, MediaPipelineAssumption DEF Init, HoldersOf
<1>3. Cardinality(HoldersOf(p, r)) = 0
  BY <1>2, FS_EmptySet
<1>4. Places(p, r) = Times(inbox[p], r) + Times(light[p], r) + Times(video[p], r)
                     + Cardinality(HoldersOf(p, r))
  BY DEF Places, HoldersOf
<1> QED BY <1>1, <1>3, <1>4, TimesOfEmpty

LEMMA OwnedInit == Init => Owned
<1> SUFFICES ASSUME Init PROVE Owned
  OBVIOUS
<1>1. \A w \in Workers : worker[w].pc = "idle"
  BY IdleType DEF Init
<1>2. \A r \in Rows : row[r].status = "none" /\ starts[r] = 0
  BY DEF Init
<1>3. JobOwnsRow
  BY <1>1, ClaimingAre DEF JobOwnsRow, Claiming
<1>4. JobAttempts
  BY <1>1 DEF JobAttempts, InTime
<1>5. RowAttempts /\ AttemptsBounded
  BY <1>2, MediaPipelineAssumption DEF RowAttempts, AttemptsBounded
<1> QED BY <1>3, <1>4, <1>5 DEF Owned, AttemptsInv

\* Two workers of one process never have one row.
LEMMA OneJob ==
  ASSUME OneProcess, TypeOK, ReservedOnce PROVE OneJobPerRow
<1> SUFFICES ASSUME NEW v \in Workers, NEW w \in Workers, v # w, worker[v].pc \in Running
             PROVE  worker[v].r # worker[w].r
  BY DEF OneJobPerRow
<1>1. worker[v].pc # "idle"
  BY DEF Running, InTime
<1> QED BY <1>1, OtherRow

(***************************************************************************)
(* The theorems                                                            *)
(***************************************************************************)
\* The variables have their types, whatever steps the system takes.
THEOREM TypeCorrect == Spec => []TypeOK
<1>1. Init => TypeOK
  BY TypeInit
<1>2. TypeOK /\ [Next]_vars => TypeOK'
  BY TypeNext
<1> QED BY <1>1, <1>2, PTL DEF Spec

\* No id is lost and none is queued twice, in any number of processes, whatever
\* queues are full and whatever stops.
THEOREM QueuedOnce == Spec => []ReservedOnce
<1>1. Init => ReservedOnce
  BY ReservedInit
<1>2. TypeOK /\ ReservedOnce /\ [Next]_vars => ReservedOnce'
  BY ReservedStep
<1> QED BY <1>1, <1>2, TypeCorrect, PTL DEF Spec

\* What one process keeps of its jobs and their rows, and what no step does.
THEOREM OwnedInvariant ==
  OneProcess => (Spec => []Owned /\ [][FinalStays]_vars)
<1> SUFFICES ASSUME OneProcess PROVE Spec => []Owned /\ [][FinalStays]_vars
  OBVIOUS
<1>1. Init => Owned
  BY OwnedInit
<1>2. TypeOK /\ TypeOK' /\ ReservedOnce /\ Owned /\ [Next]_vars => Owned' /\ [FinalStays]_vars
  BY OwnedStep
<1> QED BY <1>1, <1>2, TypeCorrect, QueuedOnce, PTL DEF Spec

\* In one process two workers never work on one row, and the job of a row owns it.
THEOREM JobsExclusive == OneProcess => (Spec => []JobsAreExclusive)
<1> SUFFICES ASSUME OneProcess PROVE Spec => []JobsAreExclusive
  OBVIOUS
<1>1. Owned => JobOwnsRow
  BY DEF Owned
<1>2. TypeOK /\ ReservedOnce => OneJobPerRow
  BY OneJob
<1>3. TypeOK /\ ReservedOnce /\ OneJobPerRow /\ JobOwnsRow => JobsAreExclusive
  BY DEF JobsAreExclusive
<1> QED BY <1>1, <1>2, <1>3, TypeCorrect, QueuedOnce, OwnedInvariant, PTL

\* In one process a row is analysed at most MaxAttempts times, whatever crashes.
THEOREM AttemptsEnd == OneProcess => (Spec => []AttemptsBounded)
<1> SUFFICES ASSUME OneProcess PROVE Spec => []AttemptsBounded
  OBVIOUS
<1>1. Owned => AttemptsBounded
  BY DEF Owned, AttemptsInv
<1> QED BY <1>1, OwnedInvariant, PTL

\* In one process a late result does not put a described file back to pending.
THEOREM OutcomesStay == OneProcess => (Spec => OutcomeStays)
<1> SUFFICES ASSUME OneProcess PROVE Spec => OutcomeStays
  OBVIOUS
<1>1. [FinalStays]_vars => [\A r \in Rows : row[r].status \in Final =>
                              row'[r].status \in {row[r].status, "gone"}]_vars
  BY DEF FinalStays
<1> QED BY <1>1, OwnedInvariant, PTL DEF OutcomeStays

\* A cached file, and a file of a group that has stayed closed, are not sent to a
\* model, in any number of processes.
THEOREM SendsOnlyItsOwn == Spec => []SendsOnlyWhatItMay
<1>1. Init => PrivacyInv
  BY PrivacyInit
<1>2. TypeOK /\ PrivacyInv /\ [Next]_vars => PrivacyInv'
  BY PrivacyStep
<1>3. PrivacyInv => SendsOnlyWhatItMay
  BY DEF PrivacyInv, SendsOnlyWhatItMay, CachedFileIsFree, ClosedGroupIsPrivate, Uncached, LetOut
<1> QED BY <1>1, <1>2, <1>3, TypeCorrect, PTL DEF Spec

\* With the two slots of the code, no job ends for good because the time of another
\* one was over, in any number of processes.
THEOREM TimesAreOwn == MaxConcurrent <= 2 => (Spec => NoForeignTimeout)
<1> SUFFICES ASSUME MaxConcurrent <= 2 PROVE Spec => NoForeignTimeout
  OBVIOUS
<1>1. Init => TimesInv
  BY TimesInit
<1>2. TypeOK /\ TypeOK' /\ TimesInv /\ [Next]_vars => TimesInv'
  BY TimesStep
<1>3. TypeOK /\ TimesInv /\ [Next]_vars
      => [\A w \in Workers :
            worker[w].pc = "join" /\ worker'[w].pc = "finish" /\ worker'[w].res = "failed"
            => \E v \in Workers : /\ worker[v].pc \in Owning /\ worker[v].left > 0
                                  /\ File(v) = File(w)]_vars
  BY ForeignTimes DEF NoForeignStep
<1> QED BY <1>1, <1>2, <1>3, TypeCorrect, PTL DEF Spec, NoForeignTimeout

\* With the process and the slots of the code, the whole invariant of the queue.
THEOREM PipelineInvariant ==
  OneProcess /\ MaxConcurrent <= 2 => (Spec => []PipelineInv)
<1> SUFFICES ASSUME OneProcess, MaxConcurrent <= 2 PROVE Spec => []PipelineInv
  OBVIOUS
<1>1. Init => PrivacyInv /\ TimesInv
  BY PrivacyInit, TimesInit
<1>2. TypeOK /\ TypeOK' /\ PrivacyInv /\ TimesInv /\ [Next]_vars => PrivacyInv' /\ TimesInv'
  BY PrivacyStep, TimesStep
<1>3. JobsAreExclusive /\ Owned /\ PrivacyInv /\ TimesInv => PipelineInv
  BY DEF PipelineInv, Owned
<1> QED BY <1>1, <1>2, <1>3, TypeCorrect, JobsExclusive, OwnedInvariant, PTL DEF Spec

===============================================================================
