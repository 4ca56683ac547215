----------------------------- MODULE Evaluation -----------------------------
(***************************************************************************)
(* The daily evaluations of several groups: internal/ai/eval.go with the   *)
(* circuit breaker of service.go, which all of them share, and the retries *)
(* of claude/client.go.  One HTTP request is one step; a pause before the  *)
(* next one ends with it.  The breaker is a timer that counts down.        *)
(***************************************************************************)
EXTENDS Integers, Sequences, Providers

CONSTANTS
  Evals,           \* evaluations that may run at the same time
  Chain,           \* evalCandidates: the providers in order
  ClaudeAttempts,  \* claudeAttempts
  RouterAttempts,  \* orEvalAttempts
  MaxRetries,      \* claude.MaxRetries, of one Message
  Threshold,       \* breakerThreshold
  BreakerCooldown  \* breakerCooldown

ASSUME EvaluationAssumption ==
  /\ Chain \in Seq({"claude", "router"}) /\ Len(Chain) > 0
  /\ ClaudeAttempts \in Nat \ {0} /\ RouterAttempts \in Nat \ {0}
  /\ MaxRetries \in Nat
  /\ Threshold \in Nat \ {0} /\ BreakerCooldown \in Nat \ {0}

VARIABLES
  eval,         \* the evaluations
  failures,     \* Service.failures
  breakerLeft,  \* time left until breakerUntil, 0 when the circuit is closed
  evalStop,     \* the process is stopping: the context of every evaluation
  recent        \* history: how the last Threshold evaluations that count ended

evalVars == <<eval, failures, breakerLeft, evalStop, recent>>

Attempts(provider) ==
  IF provider = "claude" THEN ClaudeAttempts ELSE RouterAttempts

NoEval == [pc |-> "idle", cand |-> 1, attempt |-> 1, try |-> 0, sent |-> 0]

EvalInit ==
  /\ eval = [e \in Evals |-> NoEval]
  /\ failures = 0 /\ breakerLeft = 0
  /\ evalStop = FALSE
  /\ recent = <<>>

-----------------------------------------------------------------------------
\* Mutant: an evaluation that the open circuit skips counts as failed.
EvaluateCountsSkip(e) ==
  /\ eval[e].pc = "idle" /\ ~evalStop
  /\ IF breakerLeft = 0
     THEN /\ eval' = [eval EXCEPT ![e].pc = "ask"]
          /\ UNCHANGED <<failures, breakerLeft>>
     ELSE /\ failures' = (failures + 1) % Threshold
          /\ breakerLeft' = IF failures + 1 = Threshold THEN BreakerCooldown ELSE breakerLeft
          /\ UNCHANGED eval
  /\ UNCHANGED <<evalStop, recent>>

\* Evaluate.  With the circuit open it fails at once and changes nothing.
Evaluate(e) ==
  /\ eval[e].pc = "idle" /\ ~evalStop
  /\ breakerLeft = 0
  /\ eval' = [eval EXCEPT ![e].pc = "ask"]
  /\ UNCHANGED <<failures, breakerLeft, evalStop, recent>>

Asks(e, provider) == eval[e].pc = "ask" /\ Chain[eval[e].cand] = provider

\* The next request of the same candidate, or what its last one leads to.
Sent(e) == [eval[e] EXCEPT !.sent = @ + 1]
TryAgain(e) == [Sent(e) EXCEPT !.try = @ + 1]
NextAttempt(e) == [Sent(e) EXCEPT !.attempt = @ + 1, !.try = 0]
Ends(e, how) == [Sent(e) EXCEPT !.pc = how]

\* Mutant: a candidate always has one more attempt.
RetryForever(e, retryable) ==
  IF retryable /\ ~evalStop THEN NextAttempt(e) ELSE Ends(e, "failed")

\* The loop over the attempts of one candidate, after a failed one.
RetryOrFail(e, retryable) ==
  IF retryable /\ ~evalStop /\ eval[e].attempt < Attempts(Chain[eval[e].cand])
  THEN NextAttempt(e)
  ELSE Ends(e, "failed")

(* claude: an answer is final, whatever it is worth.  The client repeats a  *)
(* request that failed before its stream began; evalRun.claude repeats the  *)
(* call, with the client's tries anew.                                      *)
AskClaude(e) ==
  /\ Asks(e, "claude")
  /\ \/ \E how \in {"parsed", "failed"} : eval' = [eval EXCEPT ![e] = Ends(e, how)]
     \/ \E o \in ClaudeErrors : \E retry \in ShouldRetry(o) :
          eval' = [eval EXCEPT ![e] =
                     IF retry /\ ~evalStop /\ eval[e].try < MaxRetries
                     THEN TryAgain(e)
                     ELSE RetryOrFail(e, ClaudeRetryable(o))]
  /\ UNCHANGED <<failures, breakerLeft, evalStop, recent>>

(* openRouter: an answer without content is asked for again, one that is no *)
(* completion or does not parse is final.                                   *)
AskRouter(e) ==
  /\ Asks(e, "router")
  /\ \/ \E how \in {"parsed", "failed"} : eval' = [eval EXCEPT ![e] = Ends(e, how)]
     \/ \E o \in RouterErrors \cup {"empty"} :
          eval' = [eval EXCEPT ![e] = RetryOrFail(e, o = "empty" \/ RouterRetryable(o))]
  /\ UNCHANGED <<failures, breakerLeft, evalStop, recent>>

-----------------------------------------------------------------------------
\* History: the last Threshold ends that count.
Remember(how) ==
  recent' = LET all == Append(recent, how) IN
            SubSeq(all, IF Len(all) > Threshold THEN 2 ELSE 1, Len(all))

\* Mutant: a success closes the circuit and leaves the count.
BreakerSuccessKeepsCount ==
  /\ breakerLeft' = 0
  /\ Remember("parsed")
  /\ UNCHANGED failures

BreakerSuccess ==
  /\ failures' = 0
  /\ breakerLeft' = 0
  /\ Remember("parsed")

BreakerFailure ==
  /\ IF failures + 1 >= Threshold
     THEN /\ breakerLeft' = BreakerCooldown
          /\ failures' = 0
     ELSE /\ failures' = failures + 1
          /\ UNCHANGED breakerLeft
  /\ Remember("failed")

\* Mutant: an evaluation that was interrupted counts as well.
JudgeBlamesStop(e) ==
  LET r == eval[e] IN
  /\ r.pc \in {"parsed", "failed"}
  /\ \/ /\ r.pc = "parsed"
        /\ BreakerSuccess
        /\ eval' = [eval EXCEPT ![e] = NoEval]
     \/ /\ r.pc = "failed" /\ ~evalStop /\ r.cand < Len(Chain)
        /\ eval' = [eval EXCEPT ![e] =
             [NoEval EXCEPT !.pc = "ask", !.cand = r.cand + 1, !.sent = r.sent]]
        /\ UNCHANGED <<failures, breakerLeft, recent>>
     \/ /\ r.pc = "failed" /\ (evalStop \/ r.cand = Len(Chain))
        /\ BreakerFailure
        /\ eval' = [eval EXCEPT ![e] = NoEval]
  /\ UNCHANGED evalStop

\* Mutant: an evaluation that was interrupted starts over.
JudgeStartsOver(e) ==
  LET r == eval[e] IN
  /\ r.pc \in {"parsed", "failed"}
  /\ \/ /\ r.pc = "parsed"
        /\ BreakerSuccess
        /\ eval' = [eval EXCEPT ![e] = NoEval]
     \/ /\ r.pc = "failed" /\ evalStop
        /\ eval' = [eval EXCEPT ![e] = [NoEval EXCEPT !.pc = "ask"]]
        /\ UNCHANGED <<failures, breakerLeft, recent>>
     \/ /\ r.pc = "failed" /\ ~evalStop /\ r.cand < Len(Chain)
        /\ eval' = [eval EXCEPT ![e] =
             [NoEval EXCEPT !.pc = "ask", !.cand = r.cand + 1, !.sent = r.sent]]
        /\ UNCHANGED <<failures, breakerLeft, recent>>
     \/ /\ r.pc = "failed" /\ ~evalStop /\ r.cand = Len(Chain)
        /\ BreakerFailure
        /\ eval' = [eval EXCEPT ![e] = NoEval]
  /\ UNCHANGED evalStop

(* Evaluate, after a candidate: an answer ends the chain, a stop ends it    *)
(* without blame, and a failure moves on or counts.                         *)
Judge(e) ==
  LET r == eval[e] IN
  /\ r.pc \in {"parsed", "failed"}
  /\ \/ /\ r.pc = "parsed"
        /\ BreakerSuccess
        /\ eval' = [eval EXCEPT ![e] = NoEval]
     \/ /\ r.pc = "failed" /\ evalStop
        /\ eval' = [eval EXCEPT ![e] = NoEval]
        /\ UNCHANGED <<failures, breakerLeft, recent>>
     \/ /\ r.pc = "failed" /\ ~evalStop /\ r.cand < Len(Chain)
        /\ eval' = [eval EXCEPT ![e] =
             [NoEval EXCEPT !.pc = "ask", !.cand = r.cand + 1, !.sent = r.sent]]
        /\ UNCHANGED <<failures, breakerLeft, recent>>
     \/ /\ r.pc = "failed" /\ ~evalStop /\ r.cand = Len(Chain)
        /\ BreakerFailure
        /\ eval' = [eval EXCEPT ![e] = NoEval]
  /\ UNCHANGED evalStop

\* breakerOpen compares breakerUntil with the clock.
BreakerTick ==
  /\ breakerLeft > 0
  /\ breakerLeft' = breakerLeft - 1
  /\ UNCHANGED <<eval, failures, evalStop, recent>>

EvalStop ==
  /\ ~evalStop
  /\ evalStop' = TRUE
  /\ UNCHANGED <<eval, failures, breakerLeft, recent>>

EvalStep(e) == AskClaude(e) \/ AskRouter(e) \/ Judge(e)

EvalNext ==
  \/ \E e \in Evals : Evaluate(e) \/ EvalStep(e)
  \/ BreakerTick
  \/ EvalStop

EvalSpec == EvalInit /\ [][EvalNext]_evalVars

(* Every request ends by its own timeout (60 s, or the idle timeout of the  *)
(* stream), every pause by its timer, and time goes on.                     *)
EvalFairness ==
  /\ \A e \in Evals : WF_evalVars(EvalStep(e))
  /\ WF_evalVars(BreakerTick)

-----------------------------------------------------------------------------
(***************************************************************************)
(* Properties                                                              *)
(***************************************************************************)
\* Types of the variables; a candidate is never asked past the end of the chain.
EvalTypeOK ==
  /\ eval \in [Evals -> [pc : {"idle", "ask", "parsed", "failed"}, cand : 1..Len(Chain),
                         attempt : Nat, try : 0..MaxRetries, sent : Nat]]
  /\ failures \in 0..(Threshold - 1)
  /\ breakerLeft \in 0..BreakerCooldown
  /\ evalStop \in BOOLEAN

\* Requests that one candidate may cost.
Cost(provider) ==
  IF provider = "claude" THEN ClaudeAttempts * (MaxRetries + 1) ELSE RouterAttempts

CostTo[n \in 0..Len(Chain)] == IF n = 0 THEN 0 ELSE CostTo[n - 1] + Cost(Chain[n])

\* One evaluation pays for a bounded number of requests: the client's retries are
\* nested in the attempts and both start anew with every candidate (client.go:101,
\* eval.go:199 and 314).
RequestsBounded == \A e \in Evals : eval[e].sent <= CostTo[eval[e].cand]

\* "The fifth in a row opens the circuit" (service.go:238): however the evaluations
\* of several groups overlap, the circuit opens only when the last Threshold ones to
\* end all failed, and an answer in between starts the count again.
OpensOnRowOfFailures ==
  breakerLeft' > breakerLeft => recent' = [i \in 1..Threshold |-> "failed"]

\* A stop is nobody's fault (eval.go:118): once the process is stopping the circuit
\* neither counts nor opens, whatever the interrupted evaluations came to.
StopIsNoFailure == evalStop => failures' <= failures /\ breakerLeft' <= breakerLeft

\* The circuit of all groups: no step opens it but on a row of failures, and a stop never.
BreakerIsFair == [][EvalTypeOK' /\ OpensOnRowOfFailures /\ StopIsNoFailure]_evalVars

\* The circuit closes again (liveness): the evaluations that were in flight when it
\* opened may open it once more, but the ones it skips do not, so it is not held open.
CircuitCloses == (breakerLeft > 0) ~> (breakerLeft = 0)

\* Every evaluation ends (liveness): no answer keeps the chain of models going.
EvaluationsEnd == \A e \in Evals : (eval[e].pc # "idle") ~> (eval[e].pc = "idle")

\* What must happen: no evaluation and no open circuit lasts for ever.
EvaluationsSettle == EvaluationsEnd /\ CircuitCloses
=============================================================================
