--------------------------- MODULE ServiceCallsProofs ---------------------------
(***************************************************************************)
(* Proofs about the machines behind the calls to other services, for any   *)
(* number of calls, models and keys and any budgets.                       *)
(*                                                                         *)
(* Outbox: wherever a deadline falls, a post is made once at most and its  *)
(* error tells whether it may have been made.                              *)
(* Evaluation: the circuit breaker opens only when as many evaluations as  *)
(* its threshold failed in a row, and never for a stop.                    *)
(* An evaluation sends no more requests than its candidates may.           *)
(* MediaDescribe: a result tells what was sent and what failed, and the    *)
(* pause of OpenRouter is its own last word.                               *)
(* ClaudeStream: a message that is returned is whole.                      *)
(* Outbox again: the map of the alerts and what it may forget.             *)
(***************************************************************************)
EXTENDS Evaluation, MediaDescribe, ClaudeStream, Outbox, SequenceTheorems, FiniteSetTheorems, TLAPS

(***************************************************************************)
(* Outbox: the attempts of one post                                        *)
(***************************************************************************)
Post == [pc : {"idle", "sending", "waiting", "done"}, attempt : Nat, alive : BOOLEAN,
         delivered : Nat, open : BOOLEAN, error : Answers]

\* A post that goes on has certainly not been made: what it waits for is the end of a
\* flood.  A post that is done had one attempt that could have made it, the last.
Pending(p) ==
  p.pc # "done" => /\ p.delivered = 0 /\ ~p.open
                   /\ p.pc = "waiting" => p.error = "flood"
Settled(p) ==
  p.pc = "done" /\ p.error # "none" =>
    /\ OutcomeUnknown(p.error) <=> p.open
    /\ p.delivered > 0 => OutcomeUnknown(p.error)

\* The inductive invariant.
PostInv ==
  /\ post \in [Sends -> Post]
  /\ \A s \in Sends : Pending(post[s]) /\ Settled(post[s]) /\ post[s].delivered <= 1

\* An attempt whose answer is not a flood ends the post, whichever answer it is.
LEMMA AttemptSettles ==
  ASSUME PostInv, NEW s \in Sends, Attempt(s)
  PROVE  PostInv'
<1> USE DEF PostInv, Pending, Settled, OutcomeUnknown
<1>1. PICK o \in Answers : \E n \in Deliveries(o) :
        post' = [post EXCEPT ![s] = After(post[s], o, n)]
  BY DEF Attempt
<1>2. PICK n \in Deliveries(o) : post' = [post EXCEPT ![s] = After(post[s], o, n)]
  BY <1>1
<1> DEFINE p == post[s]  q == post'[s]
<1>3. /\ p \in Post /\ p.pc = "sending" /\ p.delivered = 0 /\ ~p.open
      /\ n \in {0, 1} /\ q = After(p, o, n)
  BY <1>2 DEF Attempt, Deliveries
<1>4. /\ q.pc \in {"waiting", "done"}
      /\ q.pc = "waiting" => o = "flood"
      /\ q.delivered = n /\ q.error = o
      /\ q.attempt = p.attempt /\ q.alive = p.alive
  BY <1>3 DEF Post, After, Flood
<1>5. q.open = (p.open \/ Deliveries(o) = {0, 1})
  BY <1>3, Zenon DEF Post, After
<1>6. /\ (Deliveries(o) = {0, 1}) = (o \in {"server", "lost"})
      /\ o \notin {"none", "server", "lost"} => n = 0
  BY DEF Deliveries, Answers
<1>7. q \in Post
  <2>1. /\ q.pc \in {"waiting", "done"} /\ q.delivered \in Nat
        /\ q.error \in Answers /\ q.attempt \in Nat
    <3>1. p.attempt \in Nat
      BY <1>3 DEF Post
    <3>2. n \in Nat
      BY <1>3
    <3> QED BY <1>4, <3>1, <3>2, Zenon
  <2>3. q.open \in BOOLEAN /\ p.alive \in BOOLEAN
    BY <1>3, <1>5, Zenon DEF Post
  <2>2. q = [pc |-> q.pc, attempt |-> q.attempt, alive |-> q.alive,
             delivered |-> q.delivered, open |-> q.open, error |-> q.error]
    BY <1>2, <1>3, Zenon DEF Post, After
  <2> QED BY <1>4, <2>1, <2>2, <2>3, Zenon DEF Post
<1>8. Pending(q) /\ Settled(q) /\ q.delivered <= 1
  <2>1. q.open <=> o \in {"server", "lost"}
    BY <1>3, <1>5, <1>6, Zenon
  <2>2. Pending(q)
    <3>1. q.pc = "waiting" => o \notin {"none", "server", "lost"}
      BY <1>4
    <3> QED BY <1>4, <1>6, <2>1, <3>1, Zenon
  <2>3. OutcomeUnknown(q.error) <=> q.open
    BY <1>4, <2>1, Zenon
  <2>4. q.delivered > 0 => q.error \in {"none", "server", "lost"}
    BY <1>3, <1>4, <1>6
  <2>5. q.delivered <= 1
    BY <1>3, <1>4
  <2> QED BY <2>2, <2>3, <2>4, <2>5, Zenon
<1>9. post' \in [Sends -> Post] /\ \A r \in Sends \ {s} : post'[r] = post[r]
  BY <1>2, <1>7
<1> QED BY <1>8, <1>9

\* The start of a post, the end of a wait and a deadline make nothing.
LEMMA OtherSteps ==
  ASSUME PostInv, NEW s \in Sends,
         Send(s) \/ WaitOver(s) \/ WaitCut(s) \/ Deadline(s)
  PROVE  PostInv'
<1> USE DEF PostInv, Pending, Settled, OutcomeUnknown, Post, Answers
<1>1. CASE Send(s)      BY <1>1 DEF Send
<1>2. CASE WaitOver(s)  BY <1>2 DEF WaitOver
<1>3. CASE WaitCut(s)   BY <1>3 DEF WaitCut
<1>4. CASE Deadline(s)  BY <1>4 DEF Deadline
<1> QED BY <1>1, <1>2, <1>3, <1>4

\* What the scheduler relies on holds of every post (client.go:315).
THEOREM PostsAlwaysHonest == OutboxSpec => []PostsAreHonest
<1>1. OutboxInit => PostInv
  BY DEF OutboxInit, PostInv, Pending, Settled, Post, Answers
<1>2. PostInv /\ [OutboxNext]_outboxVars => PostInv'
  <2> SUFFICES ASSUME PostInv, [OutboxNext]_outboxVars PROVE PostInv'
    OBVIOUS
  <2>1. CASE \E s \in Sends : Send(s) \/ Attempt(s) \/ WaitOver(s) \/ WaitCut(s) \/ Deadline(s)
    BY <2>1, AttemptSettles, OtherSteps
  <2>2. CASE UNCHANGED post
    BY <2>2 DEF PostInv, Pending, Settled
  <2>3. UNCHANGED post \/ \E s \in Sends :
          Send(s) \/ Attempt(s) \/ WaitOver(s) \/ WaitCut(s) \/ Deadline(s)
    BY DEF OutboxNext, Alert, OutboxTick, outboxVars
  <2> QED BY <2>1, <2>2, <2>3
<1>3. PostInv => PostsAreHonest
  BY DEF PostInv, Settled, PostsAreHonest, RefusedMeansNotPosted, PostedAtMostOnce
<1> QED BY <1>1, <1>2, <1>3, PTL DEF OutboxSpec

(***************************************************************************)
(* Evaluation: the circuit breaker                                         *)
(***************************************************************************)
Record == [pc : {"idle", "ask", "parsed", "failed"}, cand : 1..Len(Chain),
           attempt : Nat, try : 0..MaxRetries, sent : Nat]
Outcomes == {"parsed", "failed"}

\* The count of the breaker is backed by the history: it ends in that many failures.
CountIsTrue ==
  /\ recent \in Seq(Outcomes) /\ Len(recent) <= Threshold
  /\ failures <= Len(recent)
  /\ \A i \in 1..Len(recent) : i > Len(recent) - failures => recent[i] = "failed"

\* The inductive invariant.
BreakerInv == EvalTypeOK /\ CountIsTrue

LEMMA Constants ==
  /\ Threshold \in Nat /\ Threshold >= 1 /\ BreakerCooldown \in Nat /\ MaxRetries \in Nat
  /\ Len(Chain) \in Nat /\ Len(Chain) >= 1
BY EvaluationAssumption

\* The history grows at its end and loses at most its first entry.
LEMMA Remembered ==
  ASSUME CountIsTrue, NEW how \in Outcomes, Remember(how)
  PROVE  LET n == Len(recent') IN
         /\ recent' \in Seq(Outcomes) /\ n \in 1..Threshold
         /\ recent'[n] = how
         /\ n = (IF Len(recent) = Threshold THEN Threshold ELSE Len(recent) + 1)
         /\ \A i \in 1..(n - 1) : recent'[i] = recent[i + Len(recent) + 1 - n]
<1> DEFINE all == Append(recent, how)
           first == IF Len(all) > Threshold THEN 2 ELSE 1
<1>1. /\ all \in Seq(Outcomes) /\ Len(all) = Len(recent) + 1 /\ Len(recent) \in Nat
      /\ all[Len(all)] = how /\ \A i \in 1..Len(recent) : all[i] = recent[i]
  BY DEF CountIsTrue
<1>2. recent' = SubSeq(all, first, Len(all))
  BY DEF Remember
<1>3. first \in 1..Len(all) /\ Len(all) \in 1..(Threshold + 1)
  BY <1>1, Constants DEF CountIsTrue
<1> HIDE DEF all
<1>4. /\ recent' \in Seq(Outcomes) /\ Len(recent') = Len(all) - first + 1
      /\ \A i \in 1..(Len(all) - first + 1) : recent'[i] = all[first + i - 1]
  <2> HIDE DEF first
  <2>1. first \in 1..(Len(all) + 1) /\ Len(all) \in (first - 1)..Len(all)
    BY <1>3
  <2> QED BY <1>1, <1>2, <2>1, SubSeqProperties
<1>5. Len(recent) \in Nat /\ Len(recent) <= Threshold /\ Threshold \in Nat /\ Threshold >= 1
  BY <1>1, Constants DEF CountIsTrue
<1>6. CASE Len(recent) < Threshold
  <2>1. first = 1 /\ Len(recent') = Len(recent) + 1
    BY <1>1, <1>4, <1>5, <1>6
  <2>2. \A i \in 1..(Len(recent) + 1) : recent'[i] = all[i]
    BY <1>1, <1>4, <1>5, <2>1
  <2>3. recent'[Len(recent) + 1] = how
    BY <1>1, <1>5, <2>2
  <2>4. \A i \in 1..Len(recent) : recent'[i] = recent[i]
    BY <1>1, <1>5, <2>2
  <2>5. ASSUME NEW i \in 1..(Len(recent') - 1)
        PROVE  recent'[i] = recent[i + Len(recent) + 1 - Len(recent')]
    <3>1. i + Len(recent) + 1 - Len(recent') = i /\ i \in 1..Len(recent)
      BY <1>5, <2>1
    <3> QED BY <2>4, <3>1
  <2>6. /\ Len(recent') \in 1..Threshold /\ recent'[Len(recent')] = how
        /\ Len(recent') = (IF Len(recent) = Threshold THEN Threshold ELSE Len(recent) + 1)
    BY <1>5, <1>6, <2>1, <2>3
  <2> QED BY <1>4, <2>5, <2>6
<1>7. CASE Len(recent) = Threshold
  <2>1. first = 2 /\ Len(recent') = Threshold
    BY <1>1, <1>4, <1>5, <1>7
  <2>2. \A i \in 1..Threshold : recent'[i] = all[i + 1]
    BY <1>1, <1>4, <1>5, <1>7, <2>1
  <2>3. recent'[Threshold] = how
    BY <1>1, <1>5, <1>7, <2>2
  <2>4. \A i \in 1..(Threshold - 1) : recent'[i] = recent[i + 1]
    BY <1>1, <1>5, <1>7, <2>2
  <2> QED BY <1>4, <1>5, <1>7, <2>1, <2>3, <2>4
<1> QED BY <1>5, <1>6, <1>7

\* The end of an evaluation that counts.
LEMMA CountedStep ==
  ASSUME BreakerInv, BreakerSuccess \/ BreakerFailure
  PROVE  /\ CountIsTrue'
         /\ failures' \in 0..(Threshold - 1) /\ breakerLeft' \in 0..BreakerCooldown
         /\ OpensOnRowOfFailures
<1>1. /\ failures \in 0..(Threshold - 1) /\ breakerLeft \in 0..BreakerCooldown /\ CountIsTrue
  BY DEF BreakerInv, EvalTypeOK
<1>2. CASE BreakerSuccess
  <2>1. failures' = 0 /\ breakerLeft' = 0 /\ Remember("parsed")
    BY <1>2 DEF BreakerSuccess
  <2>2. recent' \in Seq(Outcomes) /\ Len(recent') \in 1..Threshold
    BY <1>1, <2>1, Remembered DEF Outcomes
  <2> QED BY <1>1, <2>1, <2>2, Constants DEF CountIsTrue, OpensOnRowOfFailures
<1>3. CASE BreakerFailure
  <2> DEFINE n == Len(recent')
  <2>1. Remember("failed")
    BY <1>3 DEF BreakerFailure
  <2>2. /\ recent' \in Seq(Outcomes) /\ n \in 1..Threshold /\ recent'[n] = "failed"
        /\ n = (IF Len(recent) = Threshold THEN Threshold ELSE Len(recent) + 1)
        /\ \A i \in 1..(n - 1) : recent'[i] = recent[i + Len(recent) + 1 - n]
    BY <1>1, <2>1, Remembered DEF Outcomes
  <2> HIDE DEF n
  <2>3. \A i \in 1..n : i > n - (failures + 1) => recent'[i] = "failed"
    <3> SUFFICES ASSUME NEW i \in 1..(n - 1), i > n - (failures + 1)
                 PROVE  recent'[i] = "failed"
      BY <2>2
    <3>1. i + Len(recent) + 1 - n \in 1..Len(recent)
      BY <1>1, <2>2 DEF CountIsTrue
    <3>2. i + Len(recent) + 1 - n > Len(recent) - failures
      <4>1. failures \in Nat /\ Len(recent) \in Nat /\ n \in Nat /\ i \in Int
        BY <1>1, <2>2, Constants DEF CountIsTrue
      <4> QED BY <4>1
    <3> QED BY <1>1, <2>2, <3>1, <3>2 DEF CountIsTrue
  <2>4. failures + 1 <= n
    BY <1>1, <2>2, Constants DEF CountIsTrue
  <2>5. CASE failures + 1 >= Threshold
    <3>1. failures' = 0 /\ breakerLeft' = BreakerCooldown
      BY <1>3, <2>5 DEF BreakerFailure
    <3>2. n = Threshold /\ \A i \in 1..Threshold : recent'[i] = "failed"
      BY <1>1, <2>2, <2>3, <2>4, <2>5, Constants
    <3>3. recent' = [i \in 1..Threshold |-> "failed"]
      BY <2>2, <3>2 DEF n
    <3> QED BY <2>2, <3>1, <3>3, Constants DEF CountIsTrue, OpensOnRowOfFailures, n
  <2>6. CASE failures + 1 < Threshold
    <3>1. failures' = failures + 1 /\ breakerLeft' = breakerLeft
      BY <1>1, <1>3, <2>6, Constants DEF BreakerFailure
    <3> QED BY <1>1, <2>2, <2>3, <2>4, <2>6, <3>1, Constants
            DEF CountIsTrue, OpensOnRowOfFailures, n
  <2> QED BY <1>1, <2>5, <2>6, Constants
<1> QED BY <1>2, <1>3

\* What a failed request leads to is a record.
LEMMA NextRecord ==
  ASSUME EvalTypeOK, NEW e \in Evals, NEW retryable
  PROVE  /\ \A how \in Outcomes : Ends(e, how) \in Record
         /\ eval[e].try < MaxRetries => TryAgain(e) \in Record
         /\ RetryOrFail(e, retryable) \in Record
<1> DEFINE x == eval[e]  s == Sent(e)
<1>1. x \in Record
  BY DEF EvalTypeOK, Record
<1>2. s \in Record /\ s.try = x.try
  BY <1>1 DEF Sent, Record
<1> HIDE DEF s
<1>3. \A how \in Outcomes : [s EXCEPT !.pc = how] \in Record
  BY <1>2 DEF Record, Outcomes
<1>4. x.try < MaxRetries => [s EXCEPT !.try = @ + 1] \in Record
  <2>1. s.try \in 0..MaxRetries
    BY <1>2 DEF Record
  <2>2. x.try < MaxRetries => s.try + 1 \in 0..MaxRetries
    BY <1>2, <2>1, Constants
  <2> QED BY <1>2, <2>2 DEF Record
<1>5. [s EXCEPT !.attempt = @ + 1, !.try = 0] \in Record
  <2> DEFINE y == [s EXCEPT !.attempt = @ + 1]
  <2>1. y \in Record
    BY <1>2 DEF Record
  <2> HIDE DEF y
  <2>2. [y EXCEPT !.try = 0] \in Record
    BY <2>1, Constants DEF Record
  <2> QED BY <2>2 DEF y
<1> QED BY <1>3, <1>4, <1>5 DEF Ends, TryAgain, NextAttempt, RetryOrFail, s, Outcomes

\* A step of one evaluation, whatever the breaker does.
LEMMA RecordStep ==
  ASSUME EvalTypeOK, NEW e \in Evals, NEW x \in Record, eval' = [eval EXCEPT ![e] = x],
         failures' \in 0..(Threshold - 1), breakerLeft' \in 0..BreakerCooldown, evalStop' = evalStop
  PROVE  EvalTypeOK'
BY DEF EvalTypeOK, Record

LEMMA NoEvalRecord ==
  NoEval \in Record /\ \A x \in Record : x.cand < Len(Chain) =>
    [NoEval EXCEPT !.pc = "ask", !.cand = x.cand + 1, !.sent = x.sent] \in Record
<1>1. NoEval \in Record
  BY Constants DEF NoEval, Record
<1>2. ASSUME NEW x \in Record, x.cand < Len(Chain)
      PROVE  [NoEval EXCEPT !.pc = "ask", !.cand = x.cand + 1, !.sent = x.sent] \in Record
  <2> DEFINE y1 == [NoEval EXCEPT !.pc = "ask"]  y2 == [y1 EXCEPT !.cand = x.cand + 1]
  <2>1. y1 \in Record
    BY <1>1 DEF Record
  <2> HIDE DEF y1
  <2>2. y2 \in Record
    <3>1. x.cand \in 1..Len(Chain)
      BY <1>2 DEF Record
    <3>2. x.cand + 1 \in 1..Len(Chain)
      BY <1>2, <3>1, Constants
    <3> QED BY <2>1, <3>2 DEF Record
  <2> HIDE DEF y2
  <2>3. [y2 EXCEPT !.sent = x.sent] \in Record
    BY <2>2 DEF Record
  <2> QED BY <2>3 DEF y1, y2
<1> QED BY <1>1, <1>2

\* A request changes only its evaluation.
LEMMA RequestStep ==
  ASSUME BreakerInv, NEW e \in Evals, AskClaude(e) \/ AskRouter(e)
  PROVE  BreakerInv' /\ UNCHANGED <<failures, breakerLeft, recent>>
<1>1. UNCHANGED <<failures, breakerLeft, evalStop, recent>> /\ EvalTypeOK
  BY DEF AskClaude, AskRouter, BreakerInv
<1>2. PICK x \in Record : eval' = [eval EXCEPT ![e] = x]
  BY <1>1, NextRecord DEF AskClaude, AskRouter, Outcomes
<1>3. EvalTypeOK'
  BY <1>1, <1>2, RecordStep DEF EvalTypeOK
<1> QED BY <1>1, <1>3 DEF BreakerInv, CountIsTrue

\* What an evaluation came to: the breaker hears of an answer and of a failure that ends
\* the chain, and of nothing else.
LEMMA JudgeStep ==
  ASSUME BreakerInv, NEW e \in Evals, Judge(e)
  PROVE  BreakerInv' /\ OpensOnRowOfFailures /\ StopIsNoFailure
<1>1. EvalTypeOK /\ CountIsTrue /\ evalStop' = evalStop /\ eval[e] \in Record
      /\ failures \in 0..(Threshold - 1) /\ breakerLeft \in 0..BreakerCooldown
  BY DEF Judge, BreakerInv, EvalTypeOK, Record
<1>2. PICK x \in Record : eval' = [eval EXCEPT ![e] = x]
  BY <1>1, NoEvalRecord DEF Judge
<1>3. CASE UNCHANGED <<failures, breakerLeft, recent>>
  <2>1. EvalTypeOK' /\ CountIsTrue'
    BY <1>1, <1>2, <1>3, RecordStep DEF CountIsTrue
  <2> QED BY <1>1, <1>3, <2>1 DEF BreakerInv, OpensOnRowOfFailures, StopIsNoFailure
<1>4. CASE BreakerSuccess \/ (BreakerFailure /\ ~evalStop)
  <2>1. /\ CountIsTrue' /\ OpensOnRowOfFailures
        /\ failures' \in 0..(Threshold - 1) /\ breakerLeft' \in 0..BreakerCooldown
    BY <1>4, CountedStep
  <2>2. EvalTypeOK'
    BY <1>1, <1>2, <2>1, RecordStep
  <2>3. StopIsNoFailure
    BY <1>1, <1>4 DEF StopIsNoFailure, BreakerSuccess
  <2> QED BY <2>1, <2>2, <2>3 DEF BreakerInv
<1> QED BY <1>3, <1>4 DEF Judge

LEMMA BreakerStart == EvalInit => BreakerInv
<1> SUFFICES ASSUME EvalInit PROVE BreakerInv
  OBVIOUS
<1>1. EvalTypeOK
  <2>1. eval \in [Evals -> Record]
    BY NoEvalRecord DEF EvalInit
  <2>2. failures \in 0..(Threshold - 1) /\ breakerLeft \in 0..BreakerCooldown /\ evalStop = FALSE
    BY Constants DEF EvalInit
  <2> QED BY <2>1, <2>2 DEF EvalTypeOK, Record
<1>2. recent = <<>> /\ failures = 0
  BY DEF EvalInit
<1>3. CountIsTrue
  BY <1>2, Constants DEF CountIsTrue
<1> QED BY <1>1, <1>3 DEF BreakerInv

LEMMA BreakerNext ==
  BreakerInv /\ [EvalNext]_evalVars => BreakerInv' /\ OpensOnRowOfFailures /\ StopIsNoFailure
<1> SUFFICES ASSUME BreakerInv, [EvalNext]_evalVars
             PROVE  BreakerInv' /\ OpensOnRowOfFailures /\ StopIsNoFailure
  OBVIOUS
<1> USE DEF OpensOnRowOfFailures, StopIsNoFailure
<1>1. failures \in Nat /\ breakerLeft \in 0..BreakerCooldown /\ BreakerCooldown \in Nat
  BY Constants DEF BreakerInv, EvalTypeOK
<1>2. CASE UNCHANGED evalVars
  BY <1>1, <1>2 DEF evalVars, BreakerInv, EvalTypeOK, CountIsTrue
<1>3. ASSUME NEW e \in Evals, Evaluate(e)
      PROVE  BreakerInv' /\ UNCHANGED <<failures, breakerLeft>>
  <2>1. [eval[e] EXCEPT !.pc = "ask"] \in Record
    BY DEF BreakerInv, EvalTypeOK, Record
  <2>2. eval' = [eval EXCEPT ![e] = [eval[e] EXCEPT !.pc = "ask"]]
    BY <1>3 DEF Evaluate
  <2>3. EvalTypeOK'
    BY <1>3, <2>1, <2>2, RecordStep DEF Evaluate, BreakerInv, EvalTypeOK
  <2> QED BY <1>3, <2>3 DEF Evaluate, BreakerInv, CountIsTrue
<1>4. ASSUME NEW e \in Evals, EvalStep(e)
      PROVE  BreakerInv' /\ OpensOnRowOfFailures /\ StopIsNoFailure
  BY <1>1, <1>4, RequestStep, JudgeStep DEF EvalStep
<1>5. CASE BreakerTick
  <2>1. breakerLeft' = breakerLeft - 1 /\ breakerLeft' \in 0..BreakerCooldown
    BY <1>1, <1>5 DEF BreakerTick
  <2> QED BY <1>1, <1>5, <2>1 DEF BreakerTick, BreakerInv, EvalTypeOK, CountIsTrue
<1>6. CASE EvalStop
  BY <1>1, <1>6 DEF EvalStop, BreakerInv, EvalTypeOK, CountIsTrue
<1> QED BY <1>1, <1>2, <1>3, <1>4, <1>5, <1>6 DEF EvalNext

-----------------------------------------------------------------------------
\* The circuit of all groups opens only on a row of failures, and a stop is nobody's fault,
\* however the evaluations overlap (service.go:238, eval.go:118).
THEOREM BreakerAlwaysFair == EvalSpec => BreakerIsFair
<1>1. EvalInit => BreakerInv
  BY BreakerStart
<1>2. BreakerInv /\ [EvalNext]_evalVars => BreakerInv' /\ OpensOnRowOfFailures /\ StopIsNoFailure
  BY BreakerNext
<1>3. BreakerInv => EvalTypeOK
  BY DEF BreakerInv
<1> QED BY <1>1, <1>2, <1>3, PTL DEF EvalSpec, BreakerIsFair

(***************************************************************************)
(* Evaluation: the budget of requests                                      *)
(***************************************************************************)
\* Induction, for the set S of the numbers that have a property.  (The least number
\* outside S would make n - 1 an injection of a finite set into less than itself.)
LEMMA Induction ==
  ASSUME NEW S, 0 \in S, \A n \in Nat : n \in S => n + 1 \in S
  PROVE  Nat \subseteq S
<1> SUFFICES ASSUME NEW m \in Nat, m \notin S PROVE FALSE
  OBVIOUS
<1> DEFINE T == {n \in 0..m : n \notin S}
           f == [n \in T |-> n - 1]
<1>1. m \in T /\ T \in SUBSET (0..m)
  OBVIOUS
<1>2. IsFiniteSet(T) /\ Cardinality(T) \in Nat
  <2> HIDE DEF T
  <2>1. IsFiniteSet(0..m)
    BY FS_Interval
  <2> QED BY <1>1, <2>1, FS_Subset, FS_CardinalityType
<1>3. IsFiniteSet(T \ {m}) /\ Cardinality(T \ {m}) = Cardinality(T) - 1
  BY <1>1, <1>2, FS_RemoveElement
<1>4. \A n \in T : n - 1 \in T \ {m}
  <2> SUFFICES ASSUME NEW n \in T PROVE n - 1 \in T \ {m}
    OBVIOUS
  <2>1. n \in 0..m /\ n \notin S /\ n # 0
    OBVIOUS
  <2>2. n - 1 \in Nat /\ n - 1 < m /\ (n - 1) + 1 = n
    BY <2>1
  <2> QED BY <2>1, <2>2
<1>5. f \in [T -> T \ {m}]
  BY <1>4
<1>6. \A a, b \in T : f[a] = f[b] => a = b
  OBVIOUS
<1> HIDE DEF T, f
<1>7. \E a, b \in T : a # b /\ f[a] = f[b]
  <2>1. Cardinality(T \ {m}) < Cardinality(T)
    BY <1>2, <1>3
  <2> QED BY <1>2, <1>3, <1>5, <2>1, FS_PigeonHole
<1> QED BY <1>6, <1>7

\* g adds up the costs of the first m candidates.
Costs(g, m) == g = [n \in 0..m |-> IF n = 0 THEN 0 ELSE g[n - 1] + Cost(Chain[n])]

LEMMA CostsExist == \A m \in Nat : \E g : Costs(g, m)
<1> DEFINE S == {m \in Nat : \E g : Costs(g, m)}
<1>1. 0 \in S
  <2> DEFINE g == [n \in 0..0 |-> 0]
  <2>1. Costs(g, 0)
    BY DEF Costs
  <2> QED BY <2>1
<1>2. ASSUME NEW m \in Nat, m \in S
      PROVE  m + 1 \in S
  <2>1. PICK g : Costs(g, m)
    BY <1>2
  <2> DEFINE h == [n \in 0..(m + 1) |-> IF n = 0 THEN 0 ELSE g[n - 1] + Cost(Chain[n])]
  <2>2. \A n \in 0..m : h[n] = g[n]
    BY <2>1 DEF Costs
  <2> HIDE DEF h
  <2>3. \A n \in 0..(m + 1) : n # 0 => h[n - 1] = g[n - 1]
    <3>1. \A n \in 0..(m + 1) : n # 0 => n - 1 \in 0..m
      OBVIOUS
    <3> QED BY <2>2, <3>1
  <2>4. Costs(h, m + 1)
    <3>1. h = [n \in 0..(m + 1) |-> IF n = 0 THEN 0 ELSE h[n - 1] + Cost(Chain[n])]
      BY <2>3 DEF h
    <3> QED BY <3>1 DEF Costs
  <2> QED BY <2>4
<1> HIDE DEF S
<1>3. Nat \subseteq S
  BY <1>1, <1>2, Induction
<1> QED BY <1>3 DEF S

\* CostTo is what its definition says: the costs of the candidates, added up.
LEMMA CostToAdds ==
  /\ CostTo[0] = 0
  /\ \A n \in 1..Len(Chain) :
       /\ CostTo[n] = CostTo[n - 1] + Cost(Chain[n])
       /\ Chain[n] \in {"claude", "router"} /\ Cost(Chain[n]) \in Nat
  /\ \A n \in 0..Len(Chain) : CostTo[n] \in Nat
<1>1. Len(Chain) \in Nat
  BY EvaluationAssumption
<1>2. PICK g : Costs(g, Len(Chain))
  BY <1>1, CostsExist
<1>3. Costs(CostTo, Len(Chain))
  BY <1>2, Zenon DEF CostTo, Costs
<1>4. /\ CostTo[0] = 0
      /\ \A n \in 1..Len(Chain) : CostTo[n] = CostTo[n - 1] + Cost(Chain[n])
  BY <1>1, <1>3 DEF Costs
<1>5. \A n \in 1..Len(Chain) : Chain[n] \in {"claude", "router"}
  BY EvaluationAssumption
<1>6. \A n \in 1..Len(Chain) : Cost(Chain[n]) \in Nat
  BY <1>5, EvaluationAssumption DEF Cost
<1> DEFINE S == {n \in Nat : n <= Len(Chain) => CostTo[n] \in Nat}
<1>7. 0 \in S
  BY <1>4
<1>8. ASSUME NEW n \in Nat, n \in S
      PROVE  n + 1 \in S
  <2> SUFFICES ASSUME n + 1 <= Len(Chain) PROVE CostTo[n + 1] \in Nat
    OBVIOUS
  <2>1. n + 1 \in 1..Len(Chain) /\ (n + 1) - 1 = n /\ n <= Len(Chain)
    BY <1>1
  <2>2. CostTo[n] \in Nat
    BY <1>8, <2>1
  <2>3. CostTo[n + 1] = CostTo[n] + Cost(Chain[n + 1]) /\ Cost(Chain[n + 1]) \in Nat
    BY <1>4, <1>6, <2>1
  <2> QED BY <2>2, <2>3
<1> HIDE DEF S
<1>9. Nat \subseteq S
  BY <1>7, <1>8, Induction
<1>10. \A n \in 0..Len(Chain) : CostTo[n] \in Nat
  BY <1>1, <1>9 DEF S
<1> QED BY <1>4, <1>5, <1>6, <1>10

\* What the present candidate has cost so far: all tries of the attempts before this
\* one and the tries of this one.
Used(x) ==
  IF Chain[x.cand] = "claude" THEN (x.attempt - 1) * (MaxRetries + 1) + x.try
                              ELSE x.attempt - 1

\* The inductive invariant: the candidates before the present one cost no more than
\* their budgets, and the present one what its attempts and tries count.
WithinBudget(x) ==
  /\ x.pc = "idle" => x = NoEval
  /\ x.pc = "ask" => /\ x.attempt \in 1..Attempts(Chain[x.cand])
                     /\ x.sent <= CostTo[x.cand - 1] + Used(x)
  /\ x.pc \in {"parsed", "failed"} => x.sent <= CostTo[x.cand]
BudgetInv == eval \in [Evals -> Record] /\ \A e \in Evals : WithinBudget(eval[e])

\* The tries are nested in the attempts.
LEMMA NestedTries ==
  ASSUME NEW r \in Nat, NEW a \in Nat, NEW b \in Nat, 1 <= a, a <= b, NEW t \in 0..r
  PROVE  /\ (a - 1) * (r + 1) \in Nat /\ a * (r + 1) \in Nat /\ b * (r + 1) \in Nat
         /\ (a - 1) * (r + 1) + t + 1 <= a * (r + 1)
         /\ a * (r + 1) <= b * (r + 1)
<1>1. a * (r + 1) = (a - 1) * (r + 1) + (r + 1)
  OBVIOUS
<1>2. (a - 1) * (r + 1) \in Nat /\ a * (r + 1) \in Nat /\ b * (r + 1) \in Nat
  OBVIOUS
<1>3. (b - a) * (r + 1) \in Nat /\ b * (r + 1) = a * (r + 1) + (b - a) * (r + 1)
  OBVIOUS
<1> QED BY <1>1, <1>2, <1>3

\* What any request of an evaluation leads to keeps it within its budget.
LEMMA RequestKeepsBudget ==
  ASSUME eval \in [Evals -> Record], NEW e \in Evals, WithinBudget(eval[e]), eval[e].pc = "ask",
         NEW retryable
  PROVE  /\ \A how \in Outcomes : WithinBudget(Ends(e, how))
         /\ Chain[eval[e].cand] = "claude" /\ eval[e].try < MaxRetries => WithinBudget(TryAgain(e))
         /\ WithinBudget(RetryOrFail(e, retryable))
<1> DEFINE x == eval[e]  c == x.cand  before == CostTo[c - 1]  a == x.attempt
           all == Attempts(Chain[c])
<1>1. /\ x \in Record /\ c \in 1..Len(Chain) /\ x.sent \in Nat /\ x.try \in 0..MaxRetries
      /\ a \in 1..all /\ x.sent <= before + Used(x)
  BY DEF WithinBudget, Record
<1>2. /\ before \in Nat /\ CostTo[c] = before + Cost(Chain[c])
      /\ Chain[c] \in {"claude", "router"} /\ all \in Nat /\ MaxRetries \in Nat
  <2>1. Len(Chain) \in Nat /\ c - 1 \in 0..Len(Chain)
    BY <1>1, Constants
  <2> QED BY <1>1, <2>1, CostToAdds, EvaluationAssumption DEF Attempts
\* The request that was just sent fits into the present attempt, and that one into all.
<1>nested. /\ (a - 1) * (MaxRetries + 1) \in Nat /\ a * (MaxRetries + 1) \in Nat
           /\ all * (MaxRetries + 1) \in Nat
           /\ (a - 1) * (MaxRetries + 1) + x.try + 1 <= a * (MaxRetries + 1)
           /\ a * (MaxRetries + 1) <= all * (MaxRetries + 1)
  <2>1. /\ MaxRetries \in Nat /\ a \in Nat /\ all \in Nat /\ 1 <= a /\ a <= all
        /\ x.try \in 0..MaxRetries
    BY <1>1, <1>2
  <2> HIDE DEF a, all, x
  <2> QED BY <2>1, NestedTries, Zenon
<1>3. /\ Used(x) \in Nat
      /\ Used(x) + 1 <= Cost(Chain[c]) /\ Cost(Chain[c]) \in Nat
  <2>1. CASE Chain[c] = "claude"
    <3>1. /\ Used(x) = (a - 1) * (MaxRetries + 1) + x.try
          /\ Cost(Chain[c]) = all * (MaxRetries + 1)
      BY <2>1 DEF Used, Cost, Attempts
    <3> DEFINE w == (a - 1) * (MaxRetries + 1)  y == a * (MaxRetries + 1)
               z == all * (MaxRetries + 1)  t == x.try
    <3>2. /\ w \in Nat /\ y \in Nat /\ z \in Nat /\ t \in Nat
          /\ w + t + 1 <= y /\ y <= z
      BY <1>1, <1>2, <1>nested
    <3>3. Used(x) = w + t /\ Cost(Chain[c]) = z
      BY <3>1
    <3> HIDE DEF w, y, z, t
    <3>4. w + t \in Nat /\ (w + t) + 1 <= z
      BY <3>2
    <3> QED BY <3>2, <3>3, <3>4
  <2>2. CASE Chain[c] = "router"
    <3>1. Used(x) = a - 1 /\ Cost(Chain[c]) = all
      BY <2>2 DEF Used, Cost, Attempts
    <3> QED BY <1>1, <1>2, <3>1
  <2> QED BY <1>2, <2>1, <2>2
<1>4. ASSUME NEW how \in Outcomes
      PROVE  WithinBudget(Ends(e, how))
  <2> DEFINE y == Ends(e, how)
  <2>1. y.pc = how /\ y.sent = x.sent + 1 /\ y.cand = c
    BY <1>1 DEF Ends, Sent, Record
  <2>2. x.sent + 1 <= CostTo[c]
    BY <1>1, <1>2, <1>3
  <2> QED BY <2>1, <2>2 DEF WithinBudget, Outcomes
<1>5. ASSUME Chain[c] = "claude", x.try < MaxRetries
      PROVE  WithinBudget(TryAgain(e))
  <2> DEFINE y == TryAgain(e)
  <2>1. /\ y.pc = "ask" /\ y.sent = x.sent + 1 /\ y.cand = c /\ y.attempt = a
        /\ y.try = x.try + 1
    BY <1>1 DEF TryAgain, Sent, Record
  <2>2. Used(y) = Used(x) + 1
    <3>1. (a - 1) * (MaxRetries + 1) \in Nat
      BY <1>nested
    <3>2. Used(y) = (a - 1) * (MaxRetries + 1) + (x.try + 1)
      BY <1>5, <2>1 DEF Used
    <3>3. Used(x) = (a - 1) * (MaxRetries + 1) + x.try
      BY <1>5 DEF Used
    <3> QED BY <1>1, <3>1, <3>2, <3>3
  <2> HIDE DEF y
  <2>3. x.sent + 1 <= before + Used(y)
    BY <1>1, <1>2, <1>3, <2>2
  <2> QED BY <1>1, <2>1, <2>3 DEF WithinBudget, y
<1>6. ASSUME a < all
      PROVE  WithinBudget(NextAttempt(e))
  <2> DEFINE y == NextAttempt(e)
  <2>1. /\ y.pc = "ask" /\ y.sent = x.sent + 1 /\ y.cand = c /\ y.attempt = a + 1
        /\ y.try = 0
    BY <1>1 DEF NextAttempt, Sent, Record
  <2>2. Used(x) + 1 <= Used(y) /\ Used(y) \in Nat
    <3>1. CASE Chain[c] = "claude"
      <4>1. /\ (a - 1) * (MaxRetries + 1) \in Nat /\ a * (MaxRetries + 1) \in Nat
            /\ (a - 1) * (MaxRetries + 1) + x.try + 1 <= a * (MaxRetries + 1)
        BY <1>nested
      <4>2. Used(y) = ((a + 1) - 1) * (MaxRetries + 1) + 0
        BY <2>1, <3>1 DEF Used
      <4>3. (a + 1) - 1 = a
        BY <1>1
      <4>4. Used(x) = (a - 1) * (MaxRetries + 1) + x.try
        BY <3>1 DEF Used
      <4> QED BY <1>1, <4>1, <4>2, <4>3, <4>4
    <3>2. CASE Chain[c] = "router"
      BY <1>1, <2>1, <3>2 DEF Used
    <3> QED BY <1>2, <3>1, <3>2
  <2>3. a + 1 \in 1..all
    BY <1>1, <1>2, <1>6
  <2> HIDE DEF y
  <2>4. x.sent + 1 <= before + Used(y)
    BY <1>1, <1>2, <1>3, <2>2
  <2> QED BY <2>1, <2>3, <2>4 DEF WithinBudget, y
<1>7. WithinBudget(RetryOrFail(e, retryable))
  BY <1>4, <1>6 DEF RetryOrFail, Outcomes
<1> QED BY <1>4, <1>5, <1>7

LEMMA BudgetStep ==
  ASSUME BreakerInv, BudgetInv, [EvalNext]_evalVars
  PROVE  BudgetInv'
<1>1. EvalTypeOK
  BY DEF BreakerInv
\* One evaluation goes on as x.
<1>2. ASSUME NEW e \in Evals, NEW x \in Record, WithinBudget(x), eval' = [eval EXCEPT ![e] = x]
      PROVE  BudgetInv'
  <2>1. eval' \in [Evals -> Record] /\ \A d \in Evals : WithinBudget(eval'[d])
    BY <1>2 DEF BudgetInv
  <2>2. (\A d \in Evals : WithinBudget(eval[d]))'
    BY <2>1 DEF WithinBudget, Used
  <2> QED BY <2>1, <2>2 DEF BudgetInv, Record
<1>3. ASSUME NEW e \in Evals, AskClaude(e) \/ AskRouter(e)
      PROVE  BudgetInv'
  <2>1. PICK x \in Record : WithinBudget(x) /\ eval' = [eval EXCEPT ![e] = x]
    <3>1. /\ eval \in [Evals -> Record] /\ WithinBudget(eval[e]) /\ eval[e].pc = "ask"
      BY <1>3 DEF BudgetInv, AskClaude, AskRouter, Asks
    <3>2. CASE AskClaude(e)
      <4>1. Chain[eval[e].cand] = "claude"
        BY <3>2 DEF AskClaude, Asks
      <4>2. CASE \E how \in {"parsed", "failed"} : eval' = [eval EXCEPT ![e] = Ends(e, how)]
        BY <1>1, <3>1, <4>2, NextRecord, RequestKeepsBudget DEF Outcomes
      <4>3. CASE \E o \in ClaudeErrors : \E retry \in ShouldRetry(o) :
                   eval' = [eval EXCEPT ![e] =
                              IF retry /\ ~evalStop /\ eval[e].try < MaxRetries
                              THEN TryAgain(e)
                              ELSE RetryOrFail(e, ClaudeRetryable(o))]
        <5>1. PICK o, again :
                eval' = [eval EXCEPT ![e] = IF again /\ eval[e].try < MaxRetries
                                            THEN TryAgain(e)
                                            ELSE RetryOrFail(e, ClaudeRetryable(o))]
          <6>1. PICK o \in ClaudeErrors : \E retry \in ShouldRetry(o) :
                   eval' = [eval EXCEPT ![e] =
                              IF retry /\ ~evalStop /\ eval[e].try < MaxRetries
                              THEN TryAgain(e)
                              ELSE RetryOrFail(e, ClaudeRetryable(o))]
            BY <4>3
          <6> QED BY <6>1, Zenon
        <5>2. CASE again /\ eval[e].try < MaxRetries
          BY <1>1, <3>1, <4>1, <5>1, <5>2, NextRecord, RequestKeepsBudget
        <5>3. CASE ~(again /\ eval[e].try < MaxRetries)
          BY <1>1, <3>1, <5>1, <5>3, NextRecord, RequestKeepsBudget
        <5> QED BY <5>2, <5>3
      <4> QED BY <3>2, <4>2, <4>3 DEF AskClaude
    <3>3. CASE AskRouter(e)
      <4>1. CASE \E how \in {"parsed", "failed"} : eval' = [eval EXCEPT ![e] = Ends(e, how)]
        BY <1>1, <3>1, <4>1, NextRecord, RequestKeepsBudget DEF Outcomes
      <4>2. CASE \E retryable : eval' = [eval EXCEPT ![e] = RetryOrFail(e, retryable)]
        BY <1>1, <3>1, <4>2, NextRecord, RequestKeepsBudget
      <4> QED BY <3>3, <4>1, <4>2 DEF AskRouter
    <3> QED BY <1>3, <3>2, <3>3
  <2> QED BY <1>2, <2>1
<1>4. WithinBudget(NoEval)
  BY DEF WithinBudget, NoEval
<1>5. ASSUME NEW e \in Evals, Judge(e)
      PROVE  BudgetInv'
  <2> DEFINE r == eval[e]
             next == [NoEval EXCEPT !.pc = "ask", !.cand = r.cand + 1, !.sent = r.sent]
  <2>1. r \in Record /\ WithinBudget(r) /\ r.pc \in {"parsed", "failed"}
    BY <1>5 DEF BudgetInv, Judge
  <2>2. CASE eval' = [eval EXCEPT ![e] = NoEval]
    BY <1>2, <1>4, <2>2, NoEvalRecord
  <2>3. CASE r.cand < Len(Chain) /\ eval' = [eval EXCEPT ![e] = next]
    <3>1. /\ r.cand \in 1..Len(Chain) /\ r.sent \in Nat /\ Len(Chain) \in Nat
          /\ r.sent <= CostTo[r.cand]
      BY <2>1, Constants DEF Record, WithinBudget
    <3>2. /\ r.cand \in 0..Len(Chain) /\ r.cand + 1 \in 1..Len(Chain)
          /\ (r.cand + 1) - 1 = r.cand
      BY <2>3, <3>1
    <3>3. /\ next.pc = "ask" /\ next.cand = r.cand + 1 /\ next.sent = r.sent
          /\ next.attempt = 1 /\ next.try = 0
      BY DEF NoEval
    <3> HIDE DEF next
    <3>4. Used(next) = 0
      BY <3>3, Constants DEF Used
    <3>5. next.attempt \in 1..Attempts(Chain[next.cand])
      BY <3>3, EvaluationAssumption DEF Attempts
    <3>6. next.sent <= CostTo[next.cand - 1] + Used(next)
      BY <3>1, <3>2, <3>3, <3>4, CostToAdds
    <3>7. WithinBudget(next)
      BY <3>3, <3>5, <3>6 DEF WithinBudget
    <3>8. next \in Record
      BY <2>1, <2>3, NoEvalRecord DEF next
    <3> QED BY <1>2, <2>3, <3>7, <3>8
  <2> QED BY <1>5, <2>2, <2>3 DEF Judge
<1>6. ASSUME NEW e \in Evals, Evaluate(e)
      PROVE  BudgetInv'
  <2> DEFINE x == [eval[e] EXCEPT !.pc = "ask"]
  <2>1. eval[e] \in Record /\ eval[e].pc = "idle"
    BY <1>6 DEF BudgetInv, Evaluate
  <2>2. eval' = [eval EXCEPT ![e] = x]
    BY <1>6 DEF Evaluate
  <2>3. x \in Record
    BY <2>1 DEF Record
  <2>4. eval[e] = NoEval
    BY <2>1 DEF BudgetInv, WithinBudget
  <2>5. /\ x.pc = "ask" /\ x.cand = 1 /\ x.attempt = 1 /\ x.try = 0 /\ x.sent = 0
    BY <2>4 DEF NoEval
  <2> HIDE DEF x
  <2>6. Used(x) = 0
    BY <2>5, Constants DEF Used
  <2>7. 1 \in 1..Attempts(Chain[1])
    BY EvaluationAssumption DEF Attempts
  <2>8. WithinBudget(x)
    BY <2>5, <2>6, <2>7, CostToAdds DEF WithinBudget
  <2> QED BY <1>2, <2>2, <2>3, <2>8 DEF x
<1>7. CASE UNCHANGED eval
  BY <1>7 DEF BudgetInv, WithinBudget, Used, Record
<1> QED BY <1>3, <1>5, <1>6, <1>7 DEF EvalNext, EvalStep, BreakerTick, EvalStop, evalVars

\* One evaluation pays for a bounded number of requests, for any chain of models and any
\* numbers of attempts and retries: the budgets of the candidates it came to, added up
\* (client.go:101, eval.go:199 and 314).
THEOREM RequestsAlwaysBounded == EvalSpec => []RequestsBounded
<1>1. EvalInit => BreakerInv
  BY BreakerStart
<1>2. BreakerInv /\ [EvalNext]_evalVars => BreakerInv'
  BY BreakerNext
<1>3. EvalInit => BudgetInv
  <2> SUFFICES ASSUME EvalInit PROVE BudgetInv
    OBVIOUS
  <2>1. eval \in [Evals -> Record] /\ \A e \in Evals : eval[e] = NoEval
    BY NoEvalRecord DEF EvalInit
  <2>2. WithinBudget(NoEval)
    BY DEF WithinBudget, NoEval
  <2> QED BY <2>1, <2>2 DEF BudgetInv
<1>4. BreakerInv /\ BudgetInv /\ [EvalNext]_evalVars => BudgetInv'
  BY BudgetStep
<1>5. ASSUME BudgetInv
      PROVE  RequestsBounded
  <2> SUFFICES ASSUME NEW e \in Evals PROVE eval[e].sent <= CostTo[eval[e].cand]
    BY DEF RequestsBounded
  <2> DEFINE x == eval[e]  c == x.cand
  <2>1. x \in Record /\ WithinBudget(x)
    BY <1>5 DEF BudgetInv
  <2>2. /\ c \in 1..Len(Chain) /\ x.sent \in Nat /\ Len(Chain) \in Nat
        /\ x.pc \in {"idle", "ask", "parsed", "failed"}
    BY <2>1, Constants DEF Record
  <2>3. CostTo[c] \in Nat
    BY <2>2, CostToAdds
  <2>4. CASE x.pc = "idle"
    <3>1. x.sent = 0
      BY <2>1, <2>4 DEF WithinBudget, NoEval
    <3> QED BY <2>3, <3>1
  <2>5. CASE x.pc = "ask"
    <3>1. [x EXCEPT !.pc = "ask"] = x /\ Sent(e).sent = x.sent + 1
      BY <2>1, <2>5 DEF Record, Sent
    <3>2. WithinBudget(Ends(e, "failed"))
      BY <1>5, <2>1, <2>5, RequestKeepsBudget DEF BudgetInv, Outcomes
    <3>3. Ends(e, "failed").sent = x.sent + 1 /\ Ends(e, "failed").cand = c /\ Ends(e, "failed").pc = "failed"
      BY <2>1 DEF Ends, Sent, Record
    <3>4. x.sent + 1 <= CostTo[c]
      BY <3>2, <3>3 DEF WithinBudget
    <3> QED BY <2>2, <2>3, <3>4
  <2>6. CASE x.pc \in {"parsed", "failed"}
    BY <2>1, <2>6 DEF WithinBudget
  <2> QED BY <2>2, <2>4, <2>5, <2>6
<1> QED BY <1>1, <1>2, <1>3, <1>4, <1>5, PTL DEF EvalSpec

(***************************************************************************)
(* MediaDescribe: what the media queue is told, and the pause of OpenRouter *)
(***************************************************************************)
Causes == [provider : {"claude", "router"}, model : 1..MediaModels,
           why : {"broke", "passes", "stays"}]
Description ==
  [pc : {"idle", "claude", "checkPause", "router", "done"}, model : 1..MediaModels,
   attempt : 1..MediaAttempts, try : 0..MediaRetries, alive : BOOLEAN,
   fails : SUBSET Causes, sent : BOOLEAN, result : Results, wait : 0..MediaCooldown]

\* A description that is not over has told nothing yet, and one that reaches the pause
\* without a failure has sent nothing: only an attempt of Claude comes before it.
Truthful(r) ==
  /\ r.pc # "done" => r.result = "none"
  /\ r.pc = "checkPause" /\ r.fails = {} => ~r.sent
  /\ r.result = "uncounted" => ~r.sent
  /\ r.result = "hopeless" => \A f \in r.fails : f.why = "stays"

\* The inductive invariant.
DescInv ==
  /\ desc \in [Describes -> Description]
  /\ \A d \in Describes : Truthful(desc[d])
  /\ pauseLeft \in 0..MediaCooldown /\ routerKey \in BOOLEAN
  /\ PauseIsLastWord

LEMMA MediaBounds ==
  /\ MediaModels \in Nat /\ 1 \in 1..MediaModels
  /\ MediaAttempts \in Nat /\ 1 \in 1..MediaAttempts
  /\ MediaRetries \in Nat /\ 0 \in 0..MediaRetries
  /\ MediaCooldown \in Nat /\ MediaCooldown > 0
  /\ 0 \in 0..MediaCooldown /\ MediaCooldown \in 0..MediaCooldown
BY MediaDescribeAssumption

\* One description becomes r, and the pause stays as it is.
LEMMA BecomesStep ==
  ASSUME DescInv, NEW d \in Describes, NEW r \in Description, Truthful(r), Becomes(d, r), Quiet
  PROVE  DescInv' /\ PauseNeedsEmptyBalance
<1>1. /\ desc' \in [Describes -> Description]
      /\ \A e \in Describes : desc'[e] = IF e = d THEN r ELSE desc[e]
  BY DEF DescInv, Becomes
<1>2. \A e \in Describes : Truthful(desc'[e])
  BY <1>1 DEF DescInv
<1>3. pauseLeft' = pauseLeft /\ routerKey' = routerKey /\ lastWord' = lastWord
  BY DEF Quiet
<1>4. DescInv'
  <2>1. (\A e \in Describes : Truthful(desc[e]))'
    BY <1>2 DEF Truthful
  <2> QED BY <1>1, <1>3, <2>1 DEF DescInv, PauseIsLastWord
<1>5. PauseNeedsEmptyBalance
  BY <1>3 DEF DescInv, PauseNeedsEmptyBalance
<1> QED BY <1>4, <1>5

\* The end of a description, unless it claims more than its state shows.
LEMMA ResultFits ==
  ASSUME DescInv, NEW d \in Describes, NEW how \in Results, NEW wait \in 0..MediaCooldown,
         how # "hopeless", how = "uncounted" => ~desc[d].sent
  PROVE  Result(d, how, wait) \in Description /\ Truthful(Result(d, how, wait))
<1> DEFINE r == Result(d, how, wait)
<1>1. desc[d] \in Description
  BY DEF DescInv
<1>2. r \in Description
  BY <1>1 DEF Result, Description
<1>3. r.pc = "done" /\ r.result = how /\ r.sent = desc[d].sent
  BY <1>1 DEF Result, Description
<1> QED BY <1>2, <1>3 DEF Truthful

LEMMA SentFits ==
  ASSUME NEW r \in Description, Truthful(r), r.pc = "done", r.result # "uncounted"
  PROVE  [r EXCEPT !.sent = TRUE] \in Description /\ Truthful([r EXCEPT !.sent = TRUE])
BY DEF Description, Truthful

\* What a provider says means one of three things.
LEMMA MeansOneOf ==
  ASSUME NEW provider, NEW o
  PROVE  Means(provider, o) \in {"broke", "passes", "stays"}
BY DEF Means
\* A failure joins the list; the rest of the description begins anew.
LEMMA FailureFits ==
  ASSUME DescInv, NEW d \in Describes, desc[d].pc \in {"claude", "router"},
         NEW provider \in {"claude", "router"}, NEW o
  PROVE  LET f == Failure(d, provider, o)
             c == [provider |-> provider, model |-> desc[d].model, why |-> Means(provider, o)]
         IN /\ f \in Description
            /\ c \in Causes /\ c \in f.fails
            /\ f.sent = TRUE /\ f.pc = desc[d].pc
            /\ f.model = desc[d].model /\ f.result = "none"
<1> DEFINE c == [provider |-> provider, model |-> desc[d].model, why |-> Means(provider, o)]
           f == Failure(d, provider, o)
           fails == desc[d].fails \cup {c}
<1>1. desc[d] \in Description /\ desc[d].result = "none"
  BY DEF DescInv, Truthful
<1>2. c \in Causes
  BY <1>1, MeansOneOf DEF Causes, Description
<1>3. fails \in SUBSET Causes /\ c \in fails
  BY <1>1, <1>2 DEF Description
<1>4. f = [desc[d] EXCEPT !.fails = fails, !.attempt = 1, !.try = 0, !.sent = TRUE]
  BY <1>1 DEF Failure, Description
<1> HIDE DEF fails, c, f
<1>5. f \in Description /\ f.fails = fails
  BY <1>1, <1>3, <1>4, MediaBounds DEF Description
<1>6. f.sent = TRUE /\ f.pc = desc[d].pc /\ f.model = desc[d].model /\ f.result = "none"
  BY <1>1, <1>4 DEF Description
<1> QED BY <1>2, <1>3, <1>5, <1>6 DEF c, f

\* The end of a chain that sent something gives a file up only for good.
LEMMA ExhaustedFits ==
  ASSUME NEW r \in Description, NEW wait \in 0..MediaCooldown
  PROVE  LET e == Exhausted(r, wait)
         IN /\ e \in Description /\ Truthful(e) /\ e.fails = r.fails /\ e.wait = wait
            /\ (\E f \in r.fails : f.why # "stays") => e.result = "retry"
<1> DEFINE e == Exhausted(r, wait)
           how == IF \E f \in r.fails : f.why # "stays" THEN "retry" ELSE "hopeless"
<1>1. e = [r EXCEPT !.pc = "done", !.wait = wait, !.result = how]
  BY DEF Exhausted
<1>2. /\ how \in {"retry", "hopeless"}
      /\ how = "hopeless" => \A f \in r.fails : f.why = "stays"
      /\ (\E f \in r.fails : f.why # "stays") => how = "retry"
  OBVIOUS
<1> HIDE DEF how, e
<1>3. e \in Description
  BY <1>1, <1>2 DEF Description, Results
<1>4. e.pc = "done" /\ e.result = how /\ e.fails = r.fails /\ e.wait = wait
  BY <1>1 DEF Description
<1>5. Truthful(e)
  BY <1>2, <1>4 DEF Truthful
<1> QED BY <1>2, <1>3, <1>4, <1>5 DEF e

\* Steps that change no more than one description and leave the pause alone.
LEMMA DescribeSteps ==
  ASSUME DescInv, NEW d \in Describes, Describe(d) \/ CheckPause(d) \/ DescCancel(d)
  PROVE  DescInv' /\ PauseNeedsEmptyBalance
<1>1. desc[d] \in Description /\ Truthful(desc[d]) /\ pauseLeft \in 0..MediaCooldown
  BY DEF DescInv
<1>2. CASE Describe(d)
  <2>1. PICK first \in {"claude", "checkPause"} : Becomes(d, [NoDesc EXCEPT !.pc = first])
    BY <1>2 DEF Describe
  <2> DEFINE r == [NoDesc EXCEPT !.pc = first]
  <2>2. r \in Description /\ Truthful(r)
    BY MediaBounds DEF NoDesc, Description, Truthful, Results
  <2>3. Quiet
    BY <1>2 DEF Describe
  <2> QED BY <2>1, <2>2, <2>3, BecomesStep
<1>3. CASE CheckPause(d)
  <2>1. desc[d].pc = "checkPause" /\ Quiet
    BY <1>3 DEF CheckPause, InDesc
  <2>2. CASE pauseLeft = 0
    <3> DEFINE r == [desc[d] EXCEPT !.pc = "router"]
    <3>1. Becomes(d, r)
      BY <1>3, <2>2 DEF CheckPause
    <3>2. r \in Description /\ Truthful(r)
      BY <1>1, <2>1 DEF Description, Truthful
    <3> QED BY <2>1, <3>1, <3>2, BecomesStep
  <2>3. CASE pauseLeft > 0 /\ desc[d].fails = {}
    <3>1. Becomes(d, Result(d, "uncounted", pauseLeft))
      BY <1>3, <2>3 DEF CheckPause
    <3>2. ~desc[d].sent
      BY <1>1, <2>1, <2>3 DEF Truthful
    <3> QED BY <1>1, <2>1, <3>1, <3>2, ResultFits, BecomesStep DEF Results
  <2>4. CASE pauseLeft > 0 /\ desc[d].fails # {}
    <3>1. Becomes(d, Result(d, "retry", pauseLeft))
      BY <1>3, <2>4 DEF CheckPause
    <3> QED BY <1>1, <2>1, <3>1, ResultFits, BecomesStep DEF Results
  <2> QED BY <1>1, <2>2, <2>3, <2>4, MediaBounds
<1>4. CASE DescCancel(d)
  <2> DEFINE r == [desc[d] EXCEPT !.alive = FALSE]
  <2>1. Becomes(d, r) /\ Quiet
    BY <1>4 DEF DescCancel
  <2>2. r \in Description /\ Truthful(r)
    BY <1>1 DEF Description, Truthful
  <2> QED BY <2>1, <2>2, BecomesStep
<1> QED BY <1>2, <1>3, <1>4
LEMMA ClaudeStep ==
  ASSUME DescInv, NEW d \in Describes, AskClaudeMedia(d)
  PROVE  DescInv' /\ PauseNeedsEmptyBalance
<1>1. /\ desc[d] \in Description /\ Truthful(desc[d])
      /\ desc[d].pc = "claude" /\ desc[d].result = "none" /\ Quiet
  BY DEF DescInv, Truthful, AskClaudeMedia, InDesc
<1>2. CASE Becomes(d, [Result(d, "described", 0) EXCEPT !.sent = TRUE])
  <2> DEFINE r == Result(d, "described", 0)
  <2>1. r \in Description /\ Truthful(r)
    BY MediaBounds, ResultFits DEF Results
  <2>2. r.pc = "done" /\ r.result # "uncounted"
    BY <1>1 DEF Result, Description
  <2> HIDE DEF r
  <2>3. [r EXCEPT !.sent = TRUE] \in Description /\ Truthful([r EXCEPT !.sent = TRUE])
    BY <2>1, <2>2, SentFits
  <2> QED BY <1>1, <1>2, <2>3, BecomesStep DEF r
<1>3. CASE \E how \in {"unreadable", "cancelled"} : Becomes(d, Result(d, how, 0))
  <2>1. PICK how \in {"unreadable", "cancelled"} : Becomes(d, Result(d, how, 0))
    BY <1>3
  <2> QED BY <1>1, <2>1, MediaBounds, ResultFits, BecomesStep DEF Results
<1>4. CASE desc[d].try < MediaRetries /\ Becomes(d, [desc[d] EXCEPT !.try = @ + 1, !.sent = TRUE])
  <2> DEFINE t == [desc[d] EXCEPT !.try = @ + 1]
             r == [t EXCEPT !.sent = TRUE]
  <2>1. desc[d].try + 1 \in 0..MediaRetries
    BY <1>1, <1>4, MediaBounds DEF Description
  <2>2. t \in Description /\ t.pc = "claude" /\ t.result = "none"
    BY <1>1, <2>1 DEF Description
  <2>3. r = [desc[d] EXCEPT !.try = @ + 1, !.sent = TRUE]
    BY <1>1 DEF Description
  <2> HIDE DEF t
  <2>4. r \in Description /\ Truthful(r)
    BY <2>2 DEF Description, Truthful
  <2> QED BY <1>1, <1>4, <2>3, <2>4, BecomesStep
<1>5. CASE \E o : LET failed == Failure(d, "claude", o) IN
             Becomes(d, IF routerKey THEN [failed EXCEPT !.pc = "checkPause"]
                        ELSE Exhausted(failed, 0))
  <2>1. PICK o : LET failed == Failure(d, "claude", o) IN
             Becomes(d, IF routerKey THEN [failed EXCEPT !.pc = "checkPause"]
                        ELSE Exhausted(failed, 0))
    BY <1>5
  <2> DEFINE f == Failure(d, "claude", o)
             g == [f EXCEPT !.pc = "checkPause"]
  <2>2. f \in Description /\ f.fails # {} /\ f.result = "none"
    BY <1>1, FailureFits
  <2> HIDE DEF f
  <2>3. g \in Description /\ Truthful(g)
    BY <2>2 DEF Description, Truthful
  <2>4. Exhausted(f, 0) \in Description /\ Truthful(Exhausted(f, 0))
    BY <2>2, MediaBounds, ExhaustedFits
  <2>5. CASE routerKey
    <3>1. Becomes(d, g)
      BY <2>1, <2>5 DEF f
    <3> QED BY <1>1, <2>3, <3>1, BecomesStep
  <2>6. CASE ~routerKey
    <3>1. Becomes(d, Exhausted(f, 0))
      BY <2>1, <2>6 DEF f
    <3> QED BY <1>1, <2>4, <3>1, BecomesStep
  <2> QED BY <2>5, <2>6
<1> QED BY <1>2, <1>3, <1>4, <1>5 DEF AskClaudeMedia

\* OpenRouter: the only step that starts or ends the pause.  It starts with a failure of
\* the last model when every model of the file wants payment.
LEMMA NextModelStep ==
  ASSUME DescInv, NEW d \in Describes, desc[d].pc = "router", NEW o,
         NextModel(d, Failure(d, "router", o))
  PROVE  DescInv' /\ PauseNeedsEmptyBalance
<1> DEFINE f == Failure(d, "router", o)
           c == [provider |-> "router", model |-> desc[d].model, why |-> Means("router", o)]
           broke == AllPayment(f)
           wait == IF broke THEN MediaCooldown ELSE 0
           e == Exhausted(f, wait)
<1>1. /\ desc[d] \in Description
      /\ f \in Description /\ f.result = "none" /\ f.pc = "router" /\ f.sent = TRUE
      /\ f.model = desc[d].model /\ c \in f.fails
  BY FailureFits DEF DescInv
<1>2. desc[d].model \in 1..MediaModels
  BY <1>1 DEF Description
<1>3. CASE desc[d].model < MediaModels
  <2> DEFINE r == [f EXCEPT !.model = @ + 1]
  <2>1. Becomes(d, r) /\ Quiet
    BY <1>3 DEF NextModel
  <2>2. f.model + 1 \in 1..MediaModels
    BY <1>1, <1>2, <1>3, MediaBounds
  <2> HIDE DEF f
  <2>3. r \in Description /\ Truthful(r)
    BY <1>1, <2>2 DEF Description, Truthful
  <2> QED BY <2>1, <2>3, BecomesStep
<1>4. CASE ~(desc[d].model < MediaModels)
  <2>1. /\ Becomes(d, e)
        /\ pauseLeft' = IF broke THEN MediaCooldown ELSE pauseLeft
        /\ lastWord' = IF broke THEN "broke" ELSE lastWord
        /\ routerKey' = routerKey
    BY <1>4 DEF NextModel
  <2>2. broke => c.why = "broke"
    BY <1>1 DEF AllPayment, RouterFails
  <2> HIDE DEF f, broke
  <2>3. wait \in 0..MediaCooldown /\ (broke => wait = MediaCooldown)
    BY MediaBounds
  <2> HIDE DEF wait
  <2>4. /\ e \in Description /\ Truthful(e) /\ e.fails = f.fails /\ e.wait = wait
        /\ (\E g \in f.fails : g.why # "stays") => e.result = "retry"
    BY <1>1, <2>3, ExhaustedFits
  <2> HIDE DEF e
  <2>5. /\ desc' \in [Describes -> Description]
        /\ \A x \in Describes : desc'[x] = IF x = d THEN e ELSE desc[x]
    BY <2>1, <2>4 DEF DescInv, Becomes
  <2>6. \A x \in Describes : Truthful(desc'[x])
    BY <2>4, <2>5 DEF DescInv
  <2>7. (\A x \in Describes : Truthful(desc[x]))'
    BY <2>6 DEF Truthful
  <2>8. /\ pauseLeft' \in 0..MediaCooldown /\ routerKey' \in BOOLEAN
        /\ pauseLeft' > 0 => lastWord' = "broke"
    BY <2>1, MediaBounds DEF DescInv, PauseIsLastWord
  <2>9. DescInv'
    BY <2>5, <2>7, <2>8 DEF DescInv, PauseIsLastWord
  <2>10. ASSUME NEW x \in Describes, pauseLeft' > pauseLeft, desc'[x] # desc[x]
         PROVE  /\ desc'[x].result = "retry" /\ desc'[x].wait = MediaCooldown
                /\ \A g \in RouterFails(desc'[x]) : g.why = "broke"
    <3>1. broke /\ x = d /\ desc'[x] = e
      BY <2>1, <2>5, <2>10 DEF DescInv
    <3>2. e.result = "retry" /\ e.wait = MediaCooldown
      BY <1>1, <2>2, <2>3, <2>4, <3>1
    <3>3. \A g \in RouterFails(e) : g.why = "broke"
      BY <2>4, <3>1 DEF broke, AllPayment, RouterFails
    <3> QED BY <3>1, <3>2, <3>3
  <2> QED BY <2>9, <2>10 DEF PauseNeedsEmptyBalance
<1> QED BY <1>3, <1>4
LEMMA RouterStep ==
  ASSUME DescInv, NEW d \in Describes, AskRouterMedia(d)
  PROVE  DescInv' /\ PauseNeedsEmptyBalance
<1>1. /\ desc[d] \in Description /\ Truthful(desc[d])
      /\ desc[d].pc = "router" /\ desc[d].result = "none"
  BY DEF DescInv, Truthful, AskRouterMedia, InDesc
<1>2. CASE Answered(d)
  <2> DEFINE r == Result(d, "described", 0)
             q == [r EXCEPT !.sent = TRUE]
  <2>1. r \in Description /\ Truthful(r)
    BY MediaBounds, ResultFits DEF Results
  <2>2. r.pc = "done" /\ r.result # "uncounted"
    BY <1>1 DEF Result, Description
  <2>3. Becomes(d, q) /\ pauseLeft' = 0 /\ routerKey' = routerKey
    BY <1>2 DEF Answered
  <2> HIDE DEF r
  <2>4. q \in Description /\ Truthful(q)
    BY <2>1, <2>2, SentFits
  <2> HIDE DEF q
  <2>5. /\ desc' \in [Describes -> Description]
        /\ \A x \in Describes : desc'[x] = IF x = d THEN q ELSE desc[x]
    BY <2>3, <2>4 DEF DescInv, Becomes
  <2>6. \A x \in Describes : Truthful(desc'[x])
    BY <2>4, <2>5 DEF DescInv
  <2>7. (\A x \in Describes : Truthful(desc[x]))'
    BY <2>6 DEF Truthful
  <2>8. DescInv'
    BY <2>3, <2>5, <2>7, MediaBounds DEF DescInv, PauseIsLastWord
  <2>9. PauseNeedsEmptyBalance
    BY <2>3, MediaBounds DEF DescInv, PauseNeedsEmptyBalance
  <2> QED BY <2>8, <2>9
<1>3. CASE Quiet /\ \E how \in {"unreadable", "cancelled"} : Becomes(d, Result(d, how, 0))
  <2>1. PICK how \in {"unreadable", "cancelled"} : Becomes(d, Result(d, how, 0))
    BY <1>3
  <2> QED BY <1>1, <1>3, <2>1, MediaBounds, ResultFits, BecomesStep DEF Results
<1>4. CASE /\ desc[d].attempt < MediaAttempts /\ Quiet
           /\ Becomes(d, [desc[d] EXCEPT !.attempt = @ + 1, !.sent = TRUE])
  <2> DEFINE t == [desc[d] EXCEPT !.attempt = @ + 1]
             r == [t EXCEPT !.sent = TRUE]
  <2>1. desc[d].attempt + 1 \in 1..MediaAttempts
    BY <1>1, <1>4, MediaBounds DEF Description
  <2>2. t \in Description /\ t.pc = "router" /\ t.result = "none"
    BY <1>1, <2>1 DEF Description
  <2>3. r = [desc[d] EXCEPT !.attempt = @ + 1, !.sent = TRUE]
    BY <1>1 DEF Description
  <2> HIDE DEF t
  <2>4. r \in Description /\ Truthful(r)
    BY <2>2 DEF Description, Truthful
  <2> QED BY <1>4, <2>3, <2>4, BecomesStep
<1>5. CASE \E o : NextModel(d, Failure(d, "router", o))
  BY <1>1, <1>5, NextModelStep
<1> QED BY <1>2, <1>3, <1>4, <1>5 DEF AskRouterMedia

LEMMA PauseTickStep ==
  ASSUME DescInv, PauseTick
  PROVE  DescInv' /\ PauseNeedsEmptyBalance
<1>1. /\ desc' = desc /\ routerKey' = routerKey /\ lastWord' = lastWord
      /\ pauseLeft > 0 /\ pauseLeft' = pauseLeft - 1
  BY DEF PauseTick
<1>2. (\A d \in Describes : Truthful(desc[d]))'
  BY <1>1 DEF DescInv, Truthful
<1>3. pauseLeft' \in 0..MediaCooldown /\ PauseIsLastWord'
  BY <1>1, MediaBounds DEF DescInv, PauseIsLastWord
<1> QED BY <1>1, <1>2, <1>3 DEF DescInv, PauseNeedsEmptyBalance

LEMMA DescStep ==
  ASSUME DescInv, [DescNext]_descVars
  PROVE  DescInv' /\ [PauseIsLastWord' /\ PauseNeedsEmptyBalance]_descVars
<1>1. CASE UNCHANGED descVars
  BY <1>1 DEF descVars, DescInv, PauseIsLastWord, Truthful
<1>2. CASE DescNext
  <2>1. DescInv' /\ PauseNeedsEmptyBalance
    BY <1>2, DescribeSteps, ClaudeStep, RouterStep, PauseTickStep DEF DescNext
  <2> QED BY <2>1 DEF DescInv
<1> QED BY <1>1, <1>2

LEMMA DescStart ==
  ASSUME DescInit
  PROVE  DescInv
<1>1. NoDesc \in Description /\ Truthful(NoDesc)
  BY MediaBounds DEF NoDesc, Description, Truthful, Results
<1> QED BY <1>1, MediaBounds DEF DescInit, DescInv, PauseIsLastWord

\* What the media queue is told of a file is true (media.go:89 and exhausted), for any
\* number of descriptions at once, of models, attempts and retries: a result that costs
\* no attempt means that nothing was sent, and a file is given up only when no failure
\* of its chain may pass.
THEOREM DescribedHonestly == DescSpec => []ResultsAreHonest
<1>1. DescInit => DescInv
  BY DescStart
<1>2. DescInv /\ [DescNext]_descVars => DescInv'
  BY DescStep
<1>3. ASSUME DescInv
      PROVE  ResultsAreHonest
  <2>1. \A d \in Describes : desc[d] \in Description /\ Truthful(desc[d])
    BY <1>3 DEF DescInv
  <2>2. DescTypeOK
    BY <1>3, <2>1 DEF DescInv, DescTypeOK, Description
  <2>3. FreeMeansNothingSent /\ GivenUpOnlyIfHopeless
    BY <2>1 DEF FreeMeansNothingSent, GivenUpOnlyIfHopeless, Truthful
  <2> QED BY <2>2, <2>3 DEF ResultsAreHonest
<1> QED BY <1>1, <1>2, <1>3, PTL DEF DescSpec

\* The pause of OpenRouter begins only with a file all of whose models want payment,
\* and it is on only as long as that is the last OpenRouter said (media.go:379, 388).
THEOREM PauseAlwaysEarned == DescSpec => PauseIsEarned
<1>1. DescInit => DescInv
  BY DescStart
<1>2. DescInv /\ [DescNext]_descVars =>
        DescInv' /\ [PauseIsLastWord' /\ PauseNeedsEmptyBalance]_descVars
  BY DescStep
<1> QED BY <1>1, <1>2, PTL DEF DescSpec, PauseIsEarned

(***************************************************************************)
(* Outbox: the alerts                                                      *)
(***************************************************************************)
\* The keys, other than k, that were alerted at least as late as k.
NotBefore(q, k) == {j \in AlertKeys \ {k} : q[j] <= q[k]}

\* The inductive invariant: the map holds true ages, within its bound, and a key that it
\* forgot inside its cooldown was crowded out by as many later ones as it holds.
Remembers ==
  /\ DOMAIN alerted \subseteq AlertKeys
  /\ alerted \in [DOMAIN alerted -> 0..AlertCooldown]
  /\ \A k \in DOMAIN alerted : alerted[k] = quiet[k]
CrowdedOut ==
  \A k \in AlertKeys \ DOMAIN alerted :
    quiet[k] < AlertCooldown => Cardinality(NotBefore(quiet, k)) >= MaxAlertKeys
AlertInv ==
  /\ quiet \in [AlertKeys -> 0..AlertCooldown]
  /\ Remembers /\ CrowdedOut
  /\ Cardinality(DOMAIN alerted) <= MaxAlertKeys

LEMMA AlertBounds ==
  /\ MaxAlertKeys \in Nat /\ MaxAlertKeys > 0
  /\ AlertCooldown \in Nat /\ AlertCooldown > 0
  /\ 0 \in 0..AlertCooldown /\ AlertCooldown \in 0..AlertCooldown
BY OutboxAssumption

LEMMA FiniteKeys ==
  ASSUME NEW S \in SUBSET AlertKeys
  PROVE  IsFiniteSet(S) /\ Cardinality(S) \in Nat
BY OutboxAssumption, FS_Subset, FS_CardinalityType

\* As long as no key falls behind k, k has as many later keys as before.
LEMMA NotBeforeGrows ==
  ASSUME NEW p, NEW q, NEW k \in AlertKeys,
         \A j \in AlertKeys : p[j] <= p[k] => q[j] <= q[k]
  PROVE  /\ Cardinality(NotBefore(p, k)) \in Nat /\ Cardinality(NotBefore(q, k)) \in Nat
         /\ Cardinality(NotBefore(p, k)) <= Cardinality(NotBefore(q, k))
<1>1. NotBefore(p, k) \in SUBSET NotBefore(q, k) /\ NotBefore(q, k) \in SUBSET AlertKeys
  BY DEF NotBefore
<1>2. NotBefore(p, k) \in SUBSET AlertKeys
  BY DEF NotBefore
<1>3. IsFiniteSet(NotBefore(q, k))
  BY <1>1, FiniteKeys
<1> QED BY <1>1, <1>2, <1>3, FiniteKeys, FS_Subset

\* The keys that stay when there must be room: all that are still held back, or all of
\* them but one of the oldest.
LEMMA PruneLeavesRoom ==
  ASSUME AlertInv, NEW k \in AlertKeys, ~Held(k), NEW keys,
         keys \in IF Cardinality(DOMAIN alerted) >= MaxAlertKeys
                  THEN PruneAlerts ELSE {DOMAIN alerted}
  PROVE  /\ keys \subseteq DOMAIN alerted
         /\ Cardinality(keys \cup {k}) <= MaxAlertKeys
         /\ \A o \in DOMAIN alerted \ (keys \cup {k}) :
              quiet[o] < AlertCooldown =>
                /\ Cardinality((Hot \ {o}) \cup {k}) >= MaxAlertKeys
                /\ \A j \in Hot : quiet[j] <= quiet[o]
<1> DEFINE D == DOMAIN alerted
<1>1. /\ D \in SUBSET AlertKeys /\ Hot \in SUBSET D /\ Hot \in SUBSET AlertKeys
      /\ k \notin Hot
      /\ \A j \in Hot : alerted[j] = quiet[j]
      /\ \A j \in D : quiet[j] < AlertCooldown => j \in Hot
  BY DEF AlertInv, Remembers, Hot, Held
<1>2. /\ IsFiniteSet(D) /\ Cardinality(D) \in Nat /\ Cardinality(D) <= MaxAlertKeys
      /\ IsFiniteSet(Hot) /\ Cardinality(Hot) \in Nat /\ Cardinality(Hot) <= Cardinality(D)
  BY <1>1, FiniteKeys, FS_Subset DEF AlertInv
<1>3. CASE ~(Cardinality(D) >= MaxAlertKeys)
  <2>1. keys = D
    BY <1>3
  <2>2. Cardinality(D \cup {k}) <= Cardinality(D) + 1
    <3>1. CASE k \in D
      <4>1. D \cup {k} = D
        BY <3>1
      <4> QED BY <1>2, <4>1
    <3>2. CASE k \notin D
      <4>1. Cardinality(D \cup {k}) = Cardinality(D) + 1
        BY <1>2, <3>2, FS_AddElement
      <4> QED BY <1>2, <4>1
    <3> QED BY <3>1, <3>2
  <2>3. Cardinality(D \cup {k}) \in Nat
    BY <1>2, FS_AddElement, FS_CardinalityType
  <2> QED BY <1>2, <1>3, <2>1, <2>2, <2>3, AlertBounds
<1>4. CASE Cardinality(D) >= MaxAlertKeys /\ Cardinality(Hot) < MaxAlertKeys
  <2>1. keys = Hot
    BY <1>4 DEF PruneAlerts
  <2>2. Cardinality(Hot \cup {k}) = Cardinality(Hot) + 1
    BY <1>1, <1>2, FS_AddElement
  <2>3. Cardinality(keys \cup {k}) <= MaxAlertKeys
    BY <1>2, <1>4, <2>1, <2>2, AlertBounds
  <2>4. \A o \in D \ (keys \cup {k}) : ~(quiet[o] < AlertCooldown)
    BY <1>1, <2>1
  <2> QED BY <1>1, <2>1, <2>3, <2>4
<1>5. CASE Cardinality(Hot) >= MaxAlertKeys
  <2>1. Hot = D /\ Cardinality(Hot) = MaxAlertKeys
    <3>1. Cardinality(D) = Cardinality(Hot) /\ Cardinality(Hot) = MaxAlertKeys
      BY <1>2, <1>5, AlertBounds
    <3> QED BY <1>1, <1>2, <3>1, FS_Subset
  <2>2. PICK o \in Oldest : keys = Hot \ {o}
    BY <1>2, <1>5, <2>1, AlertBounds DEF PruneAlerts
  <2>3. o \in Hot /\ \A j \in Hot : quiet[j] <= quiet[o]
    BY <1>1, <2>2 DEF Oldest
  <2>4. IsFiniteSet(Hot \ {o}) /\ Cardinality(Hot \ {o}) = MaxAlertKeys - 1
    BY <1>2, <2>1, <2>3, FS_RemoveElement
  <2>5. k \notin Hot \ {o}
    BY <1>1
  <2>6. Cardinality((Hot \ {o}) \cup {k}) = MaxAlertKeys - 1 + 1
    BY <2>4, <2>5, FS_AddElement
  <2>7. Cardinality((Hot \ {o}) \cup {k}) = MaxAlertKeys
    BY <2>6, AlertBounds
  <2>8. D \ (keys \cup {k}) \subseteq {o}
    BY <2>1, <2>2
  <2> QED BY <2>1, <2>2, <2>3, <2>7, <2>8, AlertBounds
<1> QED BY <1>2, <1>3, <1>4, <1>5, AlertBounds
\* What the step of an alert promises of the map and of the cooldown.
Quieted ==
  /\ Cardinality(DOMAIN alerted') <= MaxAlertKeys
  /\ \A k \in AlertKeys :
       quiet'[k] = 0 /\ quiet[k] # 0 /\ quiet[k] < AlertCooldown =>
         Cardinality(NotBefore(quiet, k)) >= MaxAlertKeys

LEMMA AlertStep ==
  ASSUME AlertInv, NEW k \in AlertKeys, Alert(k)
  PROVE  AlertInv' /\ Quieted
<1>1. ~Held(k)
  BY DEF Alert
<1>2. PICK keys :
        /\ keys \in IF Cardinality(DOMAIN alerted) >= MaxAlertKeys
                    THEN PruneAlerts ELSE {DOMAIN alerted}
        /\ alerted' = [j \in keys \cup {k} |-> IF j = k THEN 0 ELSE alerted[j]]
  BY DEF Alert
<1>3. quiet' = [quiet EXCEPT ![k] = 0]
  BY DEF Alert
<1>4. /\ keys \subseteq DOMAIN alerted
      /\ Cardinality(keys \cup {k}) <= MaxAlertKeys
      /\ \A o \in DOMAIN alerted \ (keys \cup {k}) :
           quiet[o] < AlertCooldown =>
             /\ Cardinality((Hot \ {o}) \cup {k}) >= MaxAlertKeys
             /\ \A j \in Hot : quiet[j] <= quiet[o]
  BY <1>1, <1>2, PruneLeavesRoom
<1>5. /\ quiet' \in [AlertKeys -> 0..AlertCooldown]
      /\ quiet'[k] = 0
      /\ \A j \in AlertKeys : j # k => quiet'[j] = quiet[j]
      /\ \A j \in AlertKeys : quiet'[j] <= quiet[j]
  BY <1>3, AlertBounds DEF AlertInv
<1>6. DOMAIN alerted' = keys \cup {k} /\ DOMAIN alerted' \subseteq AlertKeys
  BY <1>2, <1>4 DEF AlertInv, Remembers
<1>7. Remembers'
  <2>1. \A j \in keys \cup {k} : alerted'[j] = quiet'[j] /\ alerted'[j] \in 0..AlertCooldown
    BY <1>2, <1>4, <1>5, <1>6, AlertBounds DEF AlertInv, Remembers
  <2>2. alerted' \in [DOMAIN alerted' -> 0..AlertCooldown]
    BY <1>2, <1>6, <2>1
  <2> QED BY <1>6, <2>1, <2>2 DEF Remembers
<1>8. ASSUME NEW o \in AlertKeys, o \notin DOMAIN alerted', quiet'[o] < AlertCooldown
      PROVE  Cardinality(NotBefore(quiet', o)) >= MaxAlertKeys
  <2>1. o # k /\ quiet'[o] = quiet[o]
    BY <1>5, <1>6, <1>8
  <2>2. CASE o \in DOMAIN alerted
    <3>1. /\ Cardinality((Hot \ {o}) \cup {k}) >= MaxAlertKeys
          /\ \A j \in Hot : quiet[j] <= quiet[o]
      BY <1>4, <1>6, <1>8, <2>1, <2>2
    <3>2. Hot \subseteq AlertKeys
      BY DEF Hot, AlertInv, Remembers
    <3>3. quiet[o] \in 0..AlertCooldown
      BY DEF AlertInv
    <3>4. \A j \in Hot : quiet'[j] <= quiet'[o]
      BY <1>5, <2>1, <3>1, <3>2, <3>3, AlertBounds DEF AlertInv
    <3>5. (Hot \ {o}) \cup {k} \in SUBSET NotBefore(quiet', o)
      BY <1>5, <2>1, <3>2, <3>3, <3>4 DEF NotBefore
    <3>6. NotBefore(quiet', o) \in SUBSET AlertKeys
      BY DEF NotBefore
    <3>7. /\ Cardinality((Hot \ {o}) \cup {k}) <= Cardinality(NotBefore(quiet', o))
          /\ Cardinality((Hot \ {o}) \cup {k}) \in Nat
          /\ Cardinality(NotBefore(quiet', o)) \in Nat
      BY <3>2, <3>5, <3>6, FiniteKeys, FS_Subset
    <3> QED BY <3>1, <3>7, AlertBounds
  <2>3. CASE o \notin DOMAIN alerted
    <3>1. Cardinality(NotBefore(quiet, o)) >= MaxAlertKeys
      BY <1>8, <2>1, <2>3 DEF AlertInv, CrowdedOut
    <3>2. \A j \in AlertKeys : quiet[j] <= quiet[o] => quiet'[j] <= quiet'[o]
      BY <1>5, <2>1 DEF AlertInv
    <3>3. /\ Cardinality(NotBefore(quiet, o)) <= Cardinality(NotBefore(quiet', o))
          /\ Cardinality(NotBefore(quiet, o)) \in Nat
          /\ Cardinality(NotBefore(quiet', o)) \in Nat
      BY <3>2, NotBeforeGrows
    <3> QED BY <3>1, <3>3, AlertBounds
  <2> QED BY <2>2, <2>3
<1>9. AlertInv'
  <2>1. CrowdedOut'
    BY <1>8 DEF CrowdedOut, NotBefore
  <2> QED BY <1>4, <1>5, <1>6, <1>7, <2>1 DEF AlertInv
<1>10. Quieted
  <2>1. Cardinality(DOMAIN alerted') <= MaxAlertKeys
    BY <1>4, <1>6
  <2>2. ASSUME NEW j \in AlertKeys, quiet'[j] = 0, quiet[j] # 0, quiet[j] < AlertCooldown
        PROVE  Cardinality(NotBefore(quiet, j)) >= MaxAlertKeys
    <3>1. j = k
      BY <1>5, <2>2
    <3>2. k \notin DOMAIN alerted
      BY <1>1, <2>2, <3>1 DEF Held, AlertInv, Remembers
    <3> QED BY <2>2, <3>1, <3>2 DEF AlertInv, CrowdedOut
  <2> QED BY <2>1, <2>2 DEF Quieted
<1> QED BY <1>9, <1>10

\* Time passes for all keys alike.
LEMMA AgesGrow ==
  ASSUME AlertInv, OutboxTick
  PROVE  AlertInv' /\ Quieted
<1>1. /\ DOMAIN alerted' = DOMAIN alerted /\ DOMAIN alerted \subseteq AlertKeys
      /\ \A k \in DOMAIN alerted : alerted'[k] = Older(alerted[k])
      /\ alerted' = [k \in DOMAIN alerted |-> Older(alerted[k])]
  BY DEF OutboxTick, AlertInv, Remembers
<1>2. \A n \in 0..AlertCooldown : Older(n) \in 0..AlertCooldown /\ Older(n) > 0
  BY AlertBounds DEF Older
<1>3. /\ quiet' \in [AlertKeys -> 0..AlertCooldown]
      /\ \A k \in AlertKeys : quiet'[k] = Older(quiet[k]) /\ quiet'[k] > 0
  BY <1>2 DEF OutboxTick, AlertInv
<1>4. Remembers'
  <2>1. \A k \in DOMAIN alerted : alerted'[k] = quiet'[k] /\ alerted'[k] \in 0..AlertCooldown
    BY <1>1, <1>3 DEF AlertInv, Remembers
  <2>2. alerted' \in [DOMAIN alerted' -> 0..AlertCooldown]
    BY <1>1, <2>1
  <2> QED BY <1>1, <2>1, <2>2 DEF Remembers
<1>5. ASSUME NEW o \in AlertKeys, o \notin DOMAIN alerted, quiet'[o] < AlertCooldown
      PROVE  Cardinality(NotBefore(quiet', o)) >= MaxAlertKeys
  <2>1. quiet[o] < AlertCooldown
    BY <1>3, <1>5, AlertBounds DEF Older, AlertInv
  <2>2. \A j \in AlertKeys : quiet[j] <= quiet[o] => quiet'[j] <= quiet'[o]
    BY <1>3, <2>1, AlertBounds DEF Older, AlertInv
  <2>3. Cardinality(NotBefore(quiet, o)) >= MaxAlertKeys
    BY <1>5, <2>1 DEF AlertInv, CrowdedOut
  <2>4. /\ Cardinality(NotBefore(quiet, o)) <= Cardinality(NotBefore(quiet', o))
        /\ Cardinality(NotBefore(quiet, o)) \in Nat
        /\ Cardinality(NotBefore(quiet', o)) \in Nat
    BY <2>2, NotBeforeGrows
  <2> QED BY <2>3, <2>4, AlertBounds
<1>6. CrowdedOut'
  BY <1>1, <1>5 DEF CrowdedOut, NotBefore
<1>7. Cardinality(DOMAIN alerted') <= MaxAlertKeys
  BY <1>1 DEF AlertInv
<1>8. Quieted
  BY <1>3, <1>7 DEF Quieted
<1> QED BY <1>3, <1>4, <1>6, <1>7, <1>8 DEF AlertInv

LEMMA AlertsRest ==
  ASSUME AlertInv, alerted' = alerted, quiet' = quiet
  PROVE  AlertInv' /\ Quieted
BY DEF AlertInv, Remembers, CrowdedOut, NotBefore, Quieted

LEMMA OutboxStep ==
  ASSUME AlertInv, [OutboxNext]_outboxVars
  PROVE  AlertInv' /\ [Quieted]_outboxVars
<1>1. CASE UNCHANGED outboxVars
  BY <1>1, AlertsRest DEF outboxVars
<1>2. CASE \E k \in AlertKeys : Alert(k)
  BY <1>2, AlertStep
<1>3. CASE OutboxTick
  BY <1>3, AgesGrow
<1>4. CASE \E s \in Sends : Send(s) \/ Attempt(s) \/ WaitOver(s) \/ WaitCut(s) \/ Deadline(s)
  <2>1. alerted' = alerted /\ quiet' = quiet
    BY <1>4 DEF Send, Attempt, WaitOver, WaitCut, Deadline
  <2> QED BY <2>1, AlertsRest
<1> QED BY <1>1, <1>2, <1>3, <1>4 DEF OutboxNext

\* The map of the alerts never outgrows its bound, for any bound, cooldown and set of
\* keys, and an alert is repeated inside its cooldown only when at least as many other
\* keys as the map holds were alerted since (allowAlert and pruneAlerts).
THEOREM AlertsStayQuiet == OutboxSpec => QuietUnlessCrowded
<1>1. OutboxInit => AlertInv
  <2> SUFFICES ASSUME OutboxInit PROVE AlertInv
    OBVIOUS
  <2>1. DOMAIN alerted = {} /\ alerted \in [DOMAIN alerted -> 0..AlertCooldown]
    BY DEF OutboxInit
  <2>2. /\ quiet \in [AlertKeys -> 0..AlertCooldown]
        /\ \A k \in AlertKeys : quiet[k] = AlertCooldown
    BY AlertBounds DEF OutboxInit
  <2>3. Cardinality(DOMAIN alerted) <= MaxAlertKeys
    BY <2>1, AlertBounds, FS_EmptySet
  <2>4. Remembers
    BY <2>1 DEF Remembers
  <2>5. CrowdedOut
    BY <2>2, AlertBounds DEF CrowdedOut
  <2> QED BY <2>2, <2>3, <2>4, <2>5 DEF AlertInv
<1>2. AlertInv /\ [OutboxNext]_outboxVars => AlertInv' /\ [Quieted]_outboxVars
  BY OutboxStep
<1>3. [Quieted]_outboxVars =>
        [/\ Cardinality(DOMAIN alerted') <= MaxAlertKeys
         /\ \A k \in AlertKeys :
              quiet'[k] = 0 /\ quiet[k] # 0 /\ quiet[k] < AlertCooldown =>
                Cardinality({j \in AlertKeys \ {k} : quiet[j] <= quiet[k]}) >= MaxAlertKeys
        ]_outboxVars
  BY DEF Quieted, NotBefore
<1> QED BY <1>1, <1>2, <1>3, PTL DEF OutboxSpec, QuietUnlessCrowded

(***************************************************************************)
(* ClaudeStream: the text of a message                                     *)
(***************************************************************************)
\* What one block adds to the text.
PartOf(b) == IF b.type = "text" THEN b.text ELSE <<>>

\* g is the text of the first blocks, for each number of them up to m.
Texts(g, blocks, m) ==
  g = [i \in 0..m |-> IF i = 0 THEN <<>> ELSE g[i - 1] \o PartOf(blocks[i])]

LEMMA TextsExist ==
  ASSUME NEW blocks
  PROVE  \A m \in Nat : \E g : Texts(g, blocks, m)
<1> DEFINE S == {m \in Nat : \E g : Texts(g, blocks, m)}
<1>1. 0 \in S
  <2> DEFINE g == [i \in 0..0 |-> <<>>]
  <2>1. Texts(g, blocks, 0)
    BY DEF Texts
  <2> QED BY <2>1
<1>2. ASSUME NEW m \in Nat, m \in S
      PROVE  m + 1 \in S
  <2>1. PICK g : Texts(g, blocks, m)
    BY <1>2
  <2> DEFINE h == [i \in 0..(m + 1) |-> IF i = 0 THEN <<>> ELSE g[i - 1] \o PartOf(blocks[i])]
  <2>2. \A i \in 0..m : h[i] = g[i]
    BY <2>1 DEF Texts
  <2> HIDE DEF h
  <2>3. \A i \in 0..(m + 1) : i # 0 => h[i - 1] = g[i - 1]
    <3>1. \A i \in 0..(m + 1) : i # 0 => i - 1 \in 0..m
      OBVIOUS
    <3> QED BY <2>2, <3>1
  <2>4. Texts(h, blocks, m + 1)
    <3>1. h = [i \in 0..(m + 1) |-> IF i = 0 THEN <<>> ELSE h[i - 1] \o PartOf(blocks[i])]
      BY <2>3 DEF h
    <3> QED BY <3>1 DEF Texts
  <2> QED BY <2>4
<1> HIDE DEF S
<1>3. Nat \subseteq S
  BY <1>1, <1>2, Induction
<1> QED BY <1>3 DEF S

LEMMA TextOfIs ==
  ASSUME NEW a, Len(a.blocks) \in Nat
  PROVE  \E g : Texts(g, a.blocks, Len(a.blocks)) /\ TextOf(a) = g[Len(a.blocks)]
<1>1. PICK g : Texts(g, a.blocks, Len(a.blocks))
  BY TextsExist
<1> QED BY <1>1, Zenon DEF TextOf, Texts, PartOf

\* The first k blocks of both add the same text.
Agree(b, c, k) == \A i \in 1..k : PartOf(b[i]) = PartOf(c[i])

\* The texts of the first blocks depend on these blocks alone.
LEMMA TextsAgree ==
  ASSUME NEW b, NEW c, NEW m \in Nat, NEW n \in Nat, NEW k \in 0..m, k <= n,
         Agree(b, c, k),
         NEW g, Texts(g, b, m), NEW h, Texts(h, c, n)
  PROVE  g[k] = h[k]
<1> DEFINE S == {i \in Nat : i <= k => g[i] = h[i]}
<1>1. 0 \in S
  BY DEF Texts
<1>2. ASSUME NEW i \in Nat, i \in S
      PROVE  i + 1 \in S
  <2> SUFFICES ASSUME i + 1 <= k PROVE g[i + 1] = h[i + 1]
    OBVIOUS
  <2>1. /\ i + 1 \in 1..k /\ i + 1 \in 0..m /\ i + 1 \in 0..n /\ i + 1 # 0
        /\ (i + 1) - 1 = i /\ i <= k
    OBVIOUS
  <2>2. g[i] = h[i]
    BY <1>2, <2>1
  <2>3. g[i + 1] = g[(i + 1) - 1] \o PartOf(b[i + 1])
    BY <2>1 DEF Texts
  <2>4. h[i + 1] = h[(i + 1) - 1] \o PartOf(c[i + 1])
    BY <2>1 DEF Texts
  <2>5. PartOf(b[i + 1]) = PartOf(c[i + 1])
    BY <2>1 DEF Agree
  <2> QED BY <2>1, <2>2, <2>3, <2>4, <2>5
<1> HIDE DEF S
<1>3. Nat \subseteq S
  BY <1>1, <1>2, Induction
<1>4. k \in S
  BY <1>3
<1> QED BY <1>4 DEF S

\* The texts of blocks are sequences of pieces.
LEMMA TextsAreSeqs ==
  ASSUME NEW P, NEW b, NEW m \in Nat, \A i \in 1..m : PartOf(b[i]) \in Seq(P),
         NEW g, Texts(g, b, m)
  PROVE  \A i \in 0..m : g[i] \in Seq(P)
<1> DEFINE S == {i \in Nat : i <= m => g[i] \in Seq(P)}
<1>1. 0 \in S
  BY EmptySeq DEF Texts
<1>2. ASSUME NEW i \in Nat, i \in S
      PROVE  i + 1 \in S
  <2> SUFFICES ASSUME i + 1 <= m PROVE g[i + 1] \in Seq(P)
    OBVIOUS
  <2>1. i + 1 \in 1..m /\ i + 1 \in 0..m /\ i + 1 # 0 /\ (i + 1) - 1 = i /\ i <= m
    OBVIOUS
  <2>2. g[i] \in Seq(P)
    BY <1>2, <2>1
  <2>3. g[i + 1] = g[i] \o PartOf(b[i + 1])
    BY <2>1 DEF Texts
  <2>4. PartOf(b[i + 1]) \in Seq(P)
    BY <2>1
  <2>5. g[i] \o PartOf(b[i + 1]) \in Seq(P)
    BY <2>2, <2>4, ConcatProperties, Zenon
  <2> QED BY <2>3, <2>5
<1> HIDE DEF S
<1>3. Nat \subseteq S
  BY <1>1, <1>2, Induction
<1> QED BY <1>3 DEF S
\* A block that is empty at the end changes no text.
LEMMA EmptyBlockAdds ==
  ASSUME NEW P, NEW a, NEW c, Len(a.blocks) \in Nat, TextOf(a) \in Seq(P),
         Len(c.blocks) = Len(a.blocks) + 1,
         \A i \in 1..Len(a.blocks) : c.blocks[i] = a.blocks[i],
         PartOf(c.blocks[Len(c.blocks)]) = <<>>
  PROVE  TextOf(c) = TextOf(a)
<1> DEFINE n == Len(a.blocks)
           m == Len(c.blocks)
           b == a.blocks
           d == c.blocks
<1>1. PICK g : Texts(g, b, n) /\ TextOf(a) = g[n]
  BY TextOfIs
<1>2. PICK h : Texts(h, d, m) /\ TextOf(c) = h[m]
  BY TextOfIs
<1>3. Agree(b, d, n)
  BY DEF PartOf, Agree
<1>4. /\ n \in Nat /\ m \in Nat /\ n \in 0..n /\ n <= m
      /\ m \in 0..m /\ m # 0 /\ m - 1 = n /\ PartOf(d[m]) = <<>>
  OBVIOUS
<1> HIDE DEF n, m, b, d
<1>5. g[n] = h[n]
  BY <1>1, <1>2, <1>3, <1>4, TextsAgree
<1>6. h[m] = h[n] \o <<>>
  BY <1>2, <1>4 DEF Texts
<1> QED BY <1>1, <1>2, <1>5, <1>6, ConcatEmptySeq

Regroups(s, t, u) == (s \o t) \o u = s \o (t \o u)

LEMMA Regroup ==
  ASSUME NEW P, NEW s \in Seq(P), NEW t \in Seq(P), NEW u \in Seq(P)
  PROVE  Regroups(s, t, u)
BY ConcatAssociative DEF Regroups

\* What the last block gains, the text gains.
LEMMA LastBlockGrows ==
  ASSUME NEW P, NEW a, NEW c, Len(a.blocks) \in Nat, Len(a.blocks) > 0,
         Len(c.blocks) = Len(a.blocks),
         \A i \in 1..(Len(a.blocks) - 1) : c.blocks[i] = a.blocks[i],
         \A i \in 1..Len(a.blocks) : PartOf(a.blocks[i]) \in Seq(P),
         NEW more \in Seq(P),
         PartOf(c.blocks[Len(c.blocks)]) = PartOf(a.blocks[Len(a.blocks)]) \o more
  PROVE  TextOf(c) = TextOf(a) \o more
<1> DEFINE n == Len(a.blocks)
<1>1. PICK g : Texts(g, a.blocks, n) /\ TextOf(a) = g[n]
  BY TextOfIs
<1>2. PICK h : Texts(h, c.blocks, n) /\ TextOf(c) = h[n]
  BY TextOfIs
<1>3. Agree(a.blocks, c.blocks, n - 1)
  BY DEF PartOf, Agree
<1>4. /\ n \in Nat /\ n - 1 \in 0..n /\ n - 1 <= n /\ n \in 0..n /\ n \in 1..n /\ n # 0
  OBVIOUS
<1>5. g[n - 1] = h[n - 1]
  <2> HIDE DEF n
  <2> QED BY <1>1, <1>2, <1>3, <1>4, TextsAgree
<1>6. g[n - 1] \in Seq(P) /\ PartOf(a.blocks[n]) \in Seq(P)
  <2>1. \A i \in 1..n : PartOf(a.blocks[i]) \in Seq(P)
    OBVIOUS
  <2> HIDE DEF n
  <2> QED BY <1>1, <1>4, <2>1, TextsAreSeqs
<1>7. /\ g[n] = g[n - 1] \o PartOf(a.blocks[n])
      /\ h[n] = h[n - 1] \o PartOf(c.blocks[n])
  <2> HIDE DEF n
  <2> QED BY <1>1, <1>2, <1>4 DEF Texts
<1>8. Regroups(g[n - 1], PartOf(a.blocks[n]), more)
  <2> HIDE DEF n
  <2> QED BY <1>6, Regroup
<1>9. PartOf(c.blocks[n]) = PartOf(a.blocks[n]) \o more
  OBVIOUS
<1> HIDE DEF n
<1> QED BY <1>1, <1>2, <1>5, <1>7, <1>8, <1>9 DEF Regroups

Piece == Nat \X Nat
Block == [type : {"text", "thinking"}, text : Seq(Piece)]
Accumulator == [started : BOOLEAN, stopped : BOOLEAN, stop : {"none", "end"},
                blocks : Seq(Block), input : Nat, output : Nat]
Server == [message : Nat, pieces : Nat, phase : {"before", "blocks", "stopping", "done"}]

\* The accumulator holds the present message of the server and nothing of an earlier one.
Follows ==
  /\ acc.started <=> server.phase # "before"
  /\ acc.stop = "end" <=> server.phase \in {"stopping", "done"}
  /\ acc.stopped => server.phase = "done"
  /\ acc.input = server.message
  /\ acc.stop = "end" => acc.output = server.message
  /\ TextOf(acc) = WholeText

\* The inductive invariant; a message is returned only when its stop reason has come.
StreamInv ==
  /\ acc \in Accumulator /\ server \in Server
  /\ Follows
  /\ outcome = "message" => acc.stop = "end"

\* The text of nothing.
LEMMA NoText ==
  ASSUME NEW a, a.blocks = <<>>
  PROVE  TextOf(a) = <<>>
<1>1. Len(a.blocks) = 0 /\ Len(a.blocks) \in Nat
  OBVIOUS
<1>2. PICK g : Texts(g, a.blocks, Len(a.blocks)) /\ TextOf(a) = g[Len(a.blocks)]
  BY <1>1, TextOfIs
<1> QED BY <1>1, <1>2 DEF Texts

LEMMA StreamStart == StreamInit => StreamInv
<1> SUFFICES ASSUME StreamInit PROVE StreamInv
  OBVIOUS
<1>1. /\ server = [message |-> 0, pieces |-> 0, phase |-> "before"]
      /\ acc = NoAcc /\ outcome = "none"
  BY DEF StreamInit
<1>2. acc \in Accumulator /\ server \in Server
  BY <1>1, EmptySeq DEF Accumulator, Server, NoAcc
<1>3. TextOf(acc) = <<>>
  BY <1>1, NoText DEF NoAcc
<1>4. WholeText = <<>>
  BY <1>1 DEF WholeText
<1> QED BY <1>1, <1>2, <1>3, <1>4 DEF StreamInv, Follows, NoAcc

LEMMA MessageStartStep == StreamInv /\ MessageStart => StreamInv'
<1> SUFFICES ASSUME StreamInv, MessageStart PROVE StreamInv'
  OBVIOUS
<1> DEFINE m == server.message + 1
           a1 == [acc EXCEPT !.started = TRUE]  a2 == [a1 EXCEPT !.stop = "none"]
           a3 == [a2 EXCEPT !.blocks = <<>>]    a4 == [a3 EXCEPT !.input = m]
           a5 == [a4 EXCEPT !.output = 0]
<1>1. /\ acc \in Accumulator /\ server \in Server /\ m \in Nat /\ <<>> \in Seq(Block)
      /\ server.phase # "done" /\ ~acc.stopped /\ outcome = "none"
  BY EmptySeq DEF StreamInv, Follows, MessageStart, Reading, Server, Accumulator
<1>2. acc' = a5
  BY <1>1 DEF MessageStart, OnMessageStart, Accumulator
<1>3. /\ server' = [message |-> m, pieces |-> 0, phase |-> "blocks"] /\ outcome' = outcome
  BY DEF MessageStart
<1> HIDE DEF m
<1>4. a1 \in Accumulator /\ a1.stopped = acc.stopped
  BY <1>1 DEF Accumulator
<1> HIDE DEF a1
<1>5. a2 \in Accumulator /\ a2.stopped = acc.stopped
  BY <1>4 DEF Accumulator
<1> HIDE DEF a2
<1>6. a3 \in Accumulator /\ a3.stopped = acc.stopped
  BY <1>1, <1>5 DEF Accumulator
<1> HIDE DEF a3
<1>7. a4 \in Accumulator /\ a4.stopped = acc.stopped
  BY <1>1, <1>6 DEF Accumulator
<1> HIDE DEF a4
<1>8. a5 \in Accumulator /\ a5.stopped = acc.stopped
  BY <1>7 DEF Accumulator
<1>9. /\ acc'.started = TRUE /\ acc'.stop = "none" /\ acc'.blocks = <<>> /\ acc'.input = m
  BY <1>1 DEF MessageStart, OnMessageStart, Accumulator, m
<1>10. TextOf(acc') = <<>>
  BY <1>9, NoText
<1>11. WholeText' = <<>>
  BY <1>3 DEF WholeText
<1>12. Follows'
  BY <1>1, <1>2, <1>3, <1>8, <1>9, <1>10, <1>11 DEF Follows
<1>13. server' \in Server
  BY <1>1, <1>3 DEF Server
<1> QED BY <1>1, <1>2, <1>3, <1>8, <1>12, <1>13 DEF StreamInv

\* A block is a piece of text or none, and so is what it adds.
LEMMA PartsOfBlocks ==
  ASSUME NEW a \in Accumulator
  PROVE  /\ Len(a.blocks) \in Nat
         /\ \A i \in 1..Len(a.blocks) : PartOf(a.blocks[i]) \in Seq(Piece)
<1>1. a.blocks \in Seq(Block)
  BY DEF Accumulator
<1>2. \A i \in 1..Len(a.blocks) : a.blocks[i] \in Block
  BY <1>1
<1>3. \A b \in Block : PartOf(b) \in Seq(Piece)
  BY EmptySeq DEF PartOf, Block
<1> QED BY <1>1, <1>2, <1>3

LEMMA BlockStartStep == StreamInv /\ BlockStart => StreamInv'
<1> SUFFICES ASSUME StreamInv, BlockStart PROVE StreamInv'
  OBVIOUS
<1>1. PICK type \in {"text", "thinking"} : acc' = OnBlockStart(type)
  BY DEF BlockStart
<1> DEFINE block == [type |-> type, text |-> <<>>]
           longer == Append(acc.blocks, block)
<1>2. acc \in Accumulator /\ server \in Server /\ UNCHANGED <<server, outcome>>
  BY DEF StreamInv, BlockStart
<1>3. acc.blocks \in Seq(Block) /\ block \in Block
  BY <1>2, EmptySeq DEF Accumulator, Block
<1>4. PartOf(block) = <<>>
  BY DEF PartOf
<1>5. acc' = [acc EXCEPT !.blocks = longer]
  BY <1>1 DEF OnBlockStart
<1> HIDE DEF block
<1>6. /\ longer \in Seq(Block) /\ Len(longer) = Len(acc.blocks) + 1
      /\ \A i \in 1..Len(acc.blocks) : longer[i] = acc.blocks[i]
      /\ longer[Len(longer)] = block
  BY <1>3, AppendProperties
<1> HIDE DEF longer
<1>7. /\ acc' \in Accumulator /\ acc'.blocks = longer
      /\ acc'.started = acc.started /\ acc'.stopped = acc.stopped /\ acc'.stop = acc.stop
      /\ acc'.input = acc.input /\ acc'.output = acc.output
  BY <1>2, <1>5, <1>6 DEF Accumulator
<1>8. TextOf(acc') = TextOf(acc)
  <2>1. PICK a, c : a = acc /\ c = acc'
    OBVIOUS
  <2>2. /\ Len(a.blocks) \in Nat
        /\ Len(c.blocks) = Len(a.blocks) + 1
        /\ \A i \in 1..Len(a.blocks) : c.blocks[i] = a.blocks[i]
        /\ PartOf(c.blocks[Len(c.blocks)]) = <<>>
    BY <1>2, <1>4, <1>6, <1>7, <2>1, PartsOfBlocks
  <2>3. TextOf(a) \in Seq(Piece)
    <3>1. PICK g : Texts(g, a.blocks, Len(a.blocks)) /\ TextOf(a) = g[Len(a.blocks)]
      BY <2>2, TextOfIs
    <3>2. \A i \in 1..Len(a.blocks) : PartOf(a.blocks[i]) \in Seq(Piece)
      BY <1>2, <2>1, PartsOfBlocks
    <3>3. \A i \in 0..Len(a.blocks) : g[i] \in Seq(Piece)
      BY <2>2, <3>1, <3>2, TextsAreSeqs
    <3> QED BY <2>2, <3>1, <3>3
  <2>4. TextOf(c) = TextOf(a)
    BY <2>2, <2>3, EmptyBlockAdds
  <2> QED BY <2>1, <2>4
<1>9. WholeText' = WholeText
  BY <1>2 DEF WholeText
<1>10. Follows'
  BY <1>2, <1>7, <1>8, <1>9 DEF StreamInv, Follows
<1> QED BY <1>2, <1>7, <1>10 DEF StreamInv

\* One piece more, and what the server meant to say ends with it.
LEMMA OnePieceMore ==
  ASSUME NEW m \in Nat, NEW k \in Nat
  PROVE  [n \in 1..(k + 1) |-> <<m, n>>] = [n \in 1..k |-> <<m, n>>] \o <<<<m, k + 1>>>>
<1> DEFINE s == [n \in 1..k |-> <<m, n>>]
           piece == <<m, k + 1>>
           t == [n \in 1..(k + 1) |-> <<m, n>>]
           u == s \o <<piece>>
<1>1. s \in Seq(Piece) /\ Len(s) = k
  <2>1. \A n \in 1..k : <<m, n>> \in Piece
    BY DEF Piece
  <2> QED BY <2>1, IsASeq
<1>2. t \in Seq(Piece) /\ Len(t) = k + 1
  <2>1. \A n \in 1..(k + 1) : <<m, n>> \in Piece
    BY DEF Piece
  <2> QED BY <2>1, IsASeq
<1>3. piece \in Piece
  BY DEF Piece
<1>4. \A n \in 1..k : s[n] = <<m, n>>
  OBVIOUS
<1>5. \A n \in 1..(k + 1) : t[n] = <<m, n>>
  OBVIOUS
<1>6. piece = <<m, k + 1>>
  OBVIOUS
<1> HIDE DEF s, t, piece
<1>7. <<piece>> \in Seq(Piece) /\ Len(<<piece>>) = 1 /\ <<piece>>[1] = piece
  BY <1>3
<1>8. /\ u \in Seq(Piece) /\ Len(u) = k + 1
      /\ \A n \in 1..k : u[n] = s[n]
      /\ u[k + 1] = piece
  BY <1>1, <1>7, ConcatProperties
<1> HIDE DEF u
<1>9. \A n \in 1..(k + 1) : u[n] = t[n]
  <2> TAKE n \in 1..(k + 1)
  <2>1. CASE n = k + 1
    BY <2>1, <1>5, <1>6, <1>8
  <2>2. CASE n \in 1..k
    BY <2>2, <1>4, <1>5, <1>8
  <2> QED BY <2>1, <2>2
<1>10. u = t
  BY <1>2, <1>8, <1>9, SeqEqual
<1> QED BY <1>10, Zenon DEF u, t, s, piece

LEMMA DeltaStep == StreamInv /\ Delta => StreamInv'
<1> SUFFICES ASSUME StreamInv, Delta PROVE StreamInv'
  OBVIOUS
<1> DEFINE i == Len(acc.blocks)
           piece == <<server.message, server.pieces + 1>>
           old == acc.blocks[i]
<1>1. /\ acc \in Accumulator /\ server \in Server /\ outcome' = outcome
      /\ server.phase = "blocks" /\ acc.blocks # <<>>
      /\ acc' = OnDelta(i, piece)
      /\ server' = [server EXCEPT !.pieces = IF old.type = "text" THEN @ + 1 ELSE @]
  BY DEF StreamInv, Delta
<1>2. acc.blocks \in Seq(Block) /\ piece \in Piece
  BY <1>1 DEF Accumulator, Server, Piece
<1>3. i \in Nat /\ i > 0 /\ i \in 1..i /\ old \in Block
  BY <1>1, <1>2
<1> HIDE DEF piece
<1> DEFINE text == IF old.type = "text" THEN Append(old.text, piece) ELSE old.text
           new == [old EXCEPT !.text = text]
           changed == [acc.blocks EXCEPT ![i] = new]
<1>4. acc' = [acc EXCEPT !.blocks = changed]
  BY <1>1 DEF OnDelta
<1>5. text \in Seq(Piece)
  BY <1>2, <1>3 DEF Block
<1>6. /\ new \in Block /\ new.type = old.type /\ new.text = text
  <2> HIDE DEF text, old
  <2> QED BY <1>3, <1>5 DEF Block
<1>7. /\ changed \in Seq(Block) /\ Len(changed) = i /\ changed[i] = new
      /\ \A j \in 1..(i - 1) : changed[j] = acc.blocks[j]
  <2> HIDE DEF new
  <2> QED BY <1>2, <1>3, <1>6
<1> HIDE DEF changed
<1>8. /\ acc' \in Accumulator /\ acc'.blocks = changed
      /\ acc'.started = acc.started /\ acc'.stopped = acc.stopped /\ acc'.stop = acc.stop
      /\ acc'.input = acc.input /\ acc'.output = acc.output
  BY <1>1, <1>4, <1>7 DEF Accumulator
<1>9. /\ server' \in Server /\ server'.message = server.message /\ server'.phase = server.phase
      /\ server'.pieces = IF old.type = "text" THEN server.pieces + 1 ELSE server.pieces
  BY <1>1 DEF Server
<1>10. TextOf(acc') = WholeText'
  <2> DEFINE more == IF old.type = "text" THEN <<piece>> ELSE <<>>
  <2>1. more \in Seq(Piece)
    BY <1>2
  <2>2. PartOf(new) = PartOf(old) \o more
    <3>1. CASE old.type = "text"
      <4>1. PartOf(new) = Append(old.text, piece) /\ PartOf(old) = old.text /\ more = <<piece>>
        BY <3>1, <1>6 DEF PartOf
      <4>2. old.text \in Seq(Piece)
        BY <1>3 DEF Block
      <4> HIDE DEF new, old, more
      <4>3. Append(old.text, piece) = old.text \o <<piece>>
        BY <1>2, <4>2, AppendIsConcat
      <4> QED BY <4>1, <4>3, Zenon
    <3>2. CASE old.type # "text"
      <4>1. PartOf(new) = <<>> /\ PartOf(old) = <<>> /\ more = <<>>
        BY <3>2, <1>6 DEF PartOf
      <4>2. <<>> \o <<>> = <<>>
        OBVIOUS
      <4> HIDE DEF new, old, more
      <4> QED BY <4>1, <4>2
    <3> QED BY <3>1, <3>2
  <2>3. TextOf(acc') = TextOf(acc) \o more
    <3> HIDE DEF more, new, old
    <3>1. PICK a, c, b : a = acc /\ c = acc' /\ b = old
      OBVIOUS
    <3>2. /\ Len(a.blocks) \in Nat /\ Len(a.blocks) > 0
          /\ Len(c.blocks) = Len(a.blocks)
          /\ \A j \in 1..(Len(a.blocks) - 1) : c.blocks[j] = a.blocks[j]
      BY <1>3, <1>7, <1>8, <3>1
    <3>3. \A j \in 1..Len(a.blocks) : PartOf(a.blocks[j]) \in Seq(Piece)
      BY <1>1, <3>1, PartsOfBlocks
    <3>4. PartOf(c.blocks[Len(c.blocks)]) = PartOf(a.blocks[Len(a.blocks)]) \o more
      BY <1>7, <1>8, <2>2, <3>1, Zenon DEF old
    <3>5. TextOf(c) = TextOf(a) \o more
      BY <2>1, <3>2, <3>3, <3>4, LastBlockGrows
    <3> QED BY <3>1, <3>5, Zenon
  <2>4. WholeText' = WholeText \o more
    <3>1. CASE old.type = "text"
      <4>1. more = <<piece>> /\ server'.pieces = server.pieces + 1
        BY <3>1, <1>9
      <4>2. WholeText' = [n \in 1..(server.pieces + 1) |-> <<server.message, n>>]
        BY <4>1, <1>9 DEF WholeText
      <4>3. server.message \in Nat /\ server.pieces \in Nat
        BY <1>1 DEF Server
      <4>4. [n \in 1..(server.pieces + 1) |-> <<server.message, n>>]
              = [n \in 1..server.pieces |-> <<server.message, n>>]
                  \o <<<<server.message, server.pieces + 1>>>>
        BY <4>3, OnePieceMore
      <4> HIDE DEF more
      <4> QED BY <4>1, <4>2, <4>4, Zenon DEF WholeText, piece
    <3>2. CASE old.type # "text"
      <4>1. more = <<>> /\ server'.pieces = server.pieces
        BY <3>2, <1>9
      <4>2. WholeText' = WholeText
        BY <4>1, <1>9 DEF WholeText
      <4>3. WholeText \in Seq(Piece)
        <5>1. server.message \in Nat /\ server.pieces \in Nat
          BY <1>1 DEF Server
        <5>2. \A n \in 1..server.pieces : <<server.message, n>> \in Piece
          BY <5>1 DEF Piece
        <5> QED BY <5>1, <5>2, IsASeq DEF WholeText
      <4>4. WholeText \o <<>> = WholeText
        BY <4>3, ConcatEmptySeq
      <4> HIDE DEF more
      <4> QED BY <4>1, <4>2, <4>4, Zenon
    <3> QED BY <3>1, <3>2
  <2>5. TextOf(acc) = WholeText
    BY DEF StreamInv, Follows
  <2> HIDE DEF more
  <2> QED BY <2>3, <2>4, <2>5, Zenon
<1> HIDE DEF old
<1>11. Follows'
  BY <1>1, <1>8, <1>9, <1>10 DEF StreamInv, Follows
<1> QED BY <1>1, <1>8, <1>9, <1>11 DEF StreamInv

LEMMA MessageDeltaStep == StreamInv /\ MessageDelta => StreamInv'
<1> SUFFICES ASSUME StreamInv, MessageDelta PROVE StreamInv'
  OBVIOUS
<1> DEFINE a1 == [acc EXCEPT !.stop = "end"]
           a2 == [a1 EXCEPT !.output = server.message]
<1>1. /\ acc \in Accumulator /\ server \in Server /\ outcome' = outcome /\ outcome = "none"
      /\ server.phase = "blocks" /\ server' = [server EXCEPT !.phase = "stopping"]
  BY DEF StreamInv, MessageDelta, Reading
<1>2. acc' = a2
  BY <1>1 DEF MessageDelta, OnMessageDelta, Accumulator
<1>3. a1 \in Accumulator
  BY <1>1 DEF Accumulator
<1>4. a2 \in Accumulator
  <2> HIDE DEF a1
  <2> QED BY <1>1, <1>3 DEF Accumulator, Server
<1>5. /\ acc'.started = acc.started /\ acc'.stopped = acc.stopped /\ acc'.stop = "end"
      /\ acc'.blocks = acc.blocks /\ acc'.input = acc.input /\ acc'.output = server.message
  BY <1>1, <1>2 DEF Accumulator
<1>6. /\ server' \in Server /\ server'.message = server.message
      /\ server'.pieces = server.pieces /\ server'.phase = "stopping"
  BY <1>1 DEF Server
<1>7. TextOf(acc') = TextOf(acc)
  BY <1>5 DEF TextOf
<1>8. WholeText' = WholeText
  BY <1>6 DEF WholeText
<1>9. Follows'
  BY <1>1, <1>5, <1>6, <1>7, <1>8 DEF StreamInv, Follows
<1> HIDE DEF a2
<1> QED BY <1>1, <1>2, <1>4, <1>6, <1>9 DEF StreamInv

LEMMA MessageStopStep == StreamInv /\ MessageStop => StreamInv'
<1> SUFFICES ASSUME StreamInv, MessageStop PROVE StreamInv'
  OBVIOUS
<1>1. /\ acc \in Accumulator /\ server \in Server /\ outcome' = outcome /\ outcome = "none"
      /\ server.phase = "stopping" /\ server' = [server EXCEPT !.phase = "done"]
      /\ acc' = [acc EXCEPT !.stopped = TRUE]
  BY DEF StreamInv, MessageStop, Reading
<1>2. acc' \in Accumulator
  BY <1>1 DEF Accumulator
<1>3. /\ acc'.started = acc.started /\ acc'.stop = acc.stop /\ acc'.blocks = acc.blocks
      /\ acc'.input = acc.input /\ acc'.output = acc.output
  BY <1>1 DEF Accumulator
<1>4. /\ server' \in Server /\ server'.message = server.message
      /\ server'.pieces = server.pieces /\ server'.phase = "done"
  BY <1>1 DEF Server
<1>5. TextOf(acc') = TextOf(acc)
  BY <1>3 DEF TextOf
<1>6. WholeText' = WholeText
  BY <1>4 DEF WholeText
<1>7. Follows'
  BY <1>1, <1>3, <1>4, <1>5, <1>6 DEF StreamInv, Follows
<1> QED BY <1>1, <1>2, <1>4, <1>7 DEF StreamInv

LEMMA ReadingEnds == StreamInv /\ (ErrorEvent \/ EndOfStream \/ UNCHANGED streamVars) => StreamInv'
<1> SUFFICES ASSUME StreamInv, ErrorEvent \/ EndOfStream \/ UNCHANGED streamVars
             PROVE  StreamInv'
  OBVIOUS
<1>1. server' = server /\ acc' = acc
  BY DEF ErrorEvent, EndOfStream, streamVars
<1>2. /\ acc' \in Accumulator /\ server' \in Server
  BY <1>1 DEF StreamInv
<1>3. Follows'
  <2>1. TextOf(acc') = TextOf(acc) /\ WholeText' = WholeText
    BY <1>1 DEF WholeText
  <2> QED BY <1>1, <2>1 DEF StreamInv, Follows
<1>4. outcome' = "message" => acc.stop = "end"
  <2>1. CASE ErrorEvent
    BY <2>1 DEF ErrorEvent
  <2>2. CASE EndOfStream
    <3>1. acc.stopped => acc.stop = "end"
      BY DEF StreamInv, Follows
    <3>2. acc.stop \in {"none", "end"}
      BY DEF StreamInv, Accumulator
    <3> QED BY <2>2, <3>1, <3>2 DEF EndOfStream, FinishOf
  <2>3. CASE UNCHANGED streamVars
    BY <2>3 DEF streamVars, StreamInv
  <2> QED BY <2>1, <2>2, <2>3
<1> QED BY <1>1, <1>2, <1>3, <1>4 DEF StreamInv

\* A message that ClaudeStream's parseStream returns (internal/claude/stream.go) is whole:
\* its text is every piece of text the server sent of its last message, in order, and
\* nothing of a message it took back; its usage is that message's own.  For streams of
\* any length, cut anywhere.
THEOREM MessageAlwaysWhole == StreamSpec => []WholeMessage
<1>1. StreamInit => StreamInv
  BY StreamStart
<1>2. StreamInv /\ [StreamNext]_streamVars => StreamInv'
  BY MessageStartStep, BlockStartStep, DeltaStep, MessageDeltaStep, MessageStopStep,
     ReadingEnds DEF StreamNext
<1>3. StreamInv => WholeMessage
  BY DEF StreamInv, Follows, WholeMessage, Accumulator
<1> QED BY <1>1, <1>2, <1>3, PTL DEF StreamSpec
=============================================================================
