---------------------------- MODULE MediaDescribe ----------------------------
(***************************************************************************)
(* The descriptions of media files: internal/ai/media.go with the cooldown *)
(* of OpenRouter that all files share.  MediaPipeline takes the outcome of *)
(* a description as given; this module is what stands behind it.  One HTTP *)
(* request is one step.  The cooldown is a timer that counts down.         *)
(***************************************************************************)
EXTENDS Integers, Providers

CONSTANTS
  Describes,       \* descriptions that may run at the same time
  MediaModels,     \* OpenRouter's models for media, in order: 1..MediaModels
  MediaAttempts,   \* orMediaAttempts
  MediaRetries,    \* claude.MaxRetries
  MediaCooldown    \* mediaCooldown

ASSUME MediaDescribeAssumption ==
  /\ MediaModels \in Nat \ {0} /\ MediaAttempts \in Nat \ {0}
  /\ MediaRetries \in Nat /\ MediaCooldown \in Nat \ {0}

VARIABLES
  routerKey,  \* is OpenRouter configured?
  desc,       \* the descriptions
  pauseLeft,  \* time left until mediaPausedUntil, 0 when there is no pause
  lastWord    \* history: what OpenRouter last said to a file as a whole

descVars == <<routerKey, desc, pauseLeft, lastWord>>

(* fails holds the failures of the models: what each means for the file.    *)
(* sent says that a request left the process.  result is what the caller    *)
(* got: final errors are "unreadable" (the file) and "hopeless" (the chain).*)
Results == {"none", "described", "unreadable", "hopeless", "retry", "uncounted", "cancelled"}
Means(provider, o) ==
  IF o = "broke" THEN "broke" ELSE IF MediaRetryable(provider, o) THEN "passes" ELSE "stays"
NoDesc == [pc |-> "idle", model |-> 1, attempt |-> 1, try |-> 0, alive |-> TRUE,
           fails |-> {}, sent |-> FALSE, result |-> "none", wait |-> 0]

DescInit ==
  /\ routerKey \in BOOLEAN
  /\ desc = [d \in Describes |-> NoDesc]
  /\ pauseLeft = 0
  /\ lastWord = "none"

-----------------------------------------------------------------------------
InDesc(d, pc) == desc[d].pc = pc
Becomes(d, r) == desc' = [desc EXCEPT ![d] = r]
Result(d, how, wait) == [desc[d] EXCEPT !.pc = "done", !.result = how, !.wait = wait]
Quiet == UNCHANGED <<routerKey, pauseLeft, lastWord>>

(* A file whose kind, format and size Claude takes goes there first, when   *)
(* Claude is configured; otherwise straight to OpenRouter.  (Without either *)
(* it is refused at once.)                                                  *)
Describe(d) ==
  /\ desc[d].pc \in {"idle", "done"}
  /\ \E first \in {"claude"} \cup (IF routerKey THEN {"checkPause"} ELSE {}) : Becomes(d, [NoDesc EXCEPT !.pc = first])
  /\ Quiet

\* What the last model to fail failed with joins the list.
Failure(d, provider, o) ==
  [desc[d] EXCEPT !.fails = @ \cup {[provider |-> provider, model |-> desc[d].model,
                                    why |-> Means(provider, o)]},
                  !.attempt = 1, !.try = 0, !.sent = TRUE]

\* Mutant: the last failure alone decides.
ExhaustedByLast(r, wait) ==
  LET last == CHOOSE f \in r.fails : \A g \in r.fails : g.provider = "claude" \/ g.model <= f.model
  IN [r EXCEPT !.pc = "done", !.wait = wait,
        !.result = IF last.why # "stays" THEN "retry" ELSE "hopeless"]

\* exhausted: the chain failed as a whole; it may pass if any failure may.
Exhausted(r, wait) ==
  [r EXCEPT !.pc = "done", !.wait = wait,
     !.result = IF \E f \in r.fails : f.why # "stays" THEN "retry" ELSE "hopeless"]

(* describeWithClaude: the client's retries are all a description gets.     *)
(* A file that cannot be read is final; so is everything without OpenRouter.*)
AskClaudeMedia(d) ==
  /\ InDesc(d, "claude")
  /\ \/ Becomes(d, [Result(d, "described", 0) EXCEPT !.sent = TRUE])
     \/ Becomes(d, Result(d, IF desc[d].alive THEN "unreadable" ELSE "cancelled", 0))
     \/ \E p \in (ClaudeErrors \cup {"refusal", "empty"}) \X BOOLEAN :
          /\ p[2] \in ShouldRetry(p[1])
          /\ LET failed == Failure(d, "claude", p[1]) IN
             \/ /\ ~desc[d].alive
                /\ Becomes(d, Result(d, "cancelled", 0))
             \/ /\ desc[d].alive /\ p[2] /\ desc[d].try < MediaRetries
                /\ Becomes(d, [desc[d] EXCEPT !.try = @ + 1, !.sent = TRUE])
             \/ /\ desc[d].alive /\ ~(p[2] /\ desc[d].try < MediaRetries)
                /\ Becomes(d, IF routerKey THEN [failed EXCEPT !.pc = "checkPause"]
                              ELSE Exhausted(failed, 0))
  /\ Quiet

\* Mutant: a pause makes every description free.
CheckPauseForgets(d) ==
  /\ InDesc(d, "checkPause")
  /\ Becomes(d, IF pauseLeft = 0 THEN [desc[d] EXCEPT !.pc = "router"]
                ELSE Result(d, "uncounted", pauseLeft))
  /\ Quiet

(* The cooldown stops what has not been sent yet; a description that Claude *)
(* has already failed counts as an attempt.                                 *)
CheckPause(d) ==
  /\ InDesc(d, "checkPause")
  /\ Becomes(d, CASE pauseLeft = 0 -> [desc[d] EXCEPT !.pc = "router"]
                  [] pauseLeft > 0 /\ desc[d].fails = {} -> Result(d, "uncounted", pauseLeft)
                  [] OTHER -> Result(d, "retry", pauseLeft))
  /\ Quiet

\* The failures of OpenRouter's models.
RouterFails(r) == {f \in r.fails : f.provider = "router"}

\* Mutant: one empty balance is enough.
SomePayment(r) == \E f \in RouterFails(r) : f.why = "broke"

AllPayment(r) == \A f \in RouterFails(r) : f.why = "broke"

\* The next model, or the end of the chain.
NextModel(d, failed) ==
  IF desc[d].model < MediaModels
  THEN /\ Becomes(d, [failed EXCEPT !.model = @ + 1])
       /\ Quiet
  ELSE /\ Becomes(d, Exhausted(failed, IF AllPayment(failed) THEN MediaCooldown ELSE 0))
       /\ pauseLeft' = IF AllPayment(failed) THEN MediaCooldown ELSE pauseLeft
       /\ lastWord' = IF AllPayment(failed) THEN "broke" ELSE lastWord
       /\ UNCHANGED routerKey

\* Mutant: the answer does not end the pause.
AnsweredOnly(d) ==
  /\ Becomes(d, [Result(d, "described", 0) EXCEPT !.sent = TRUE])
  /\ lastWord' = "answered"
  /\ UNCHANGED <<routerKey, pauseLeft>>

\* mediaPauseReset: OpenRouter just answered.
Answered(d) ==
  /\ Becomes(d, [Result(d, "described", 0) EXCEPT !.sent = TRUE])
  /\ lastWord' = "answered"
  /\ pauseLeft' = 0
  /\ UNCHANGED routerKey

(* describeWithOpenRouter, one request.  A file that changed or is gone is  *)
(* final, and so is everything once the context is over.                    *)
AskRouterMedia(d) ==
  /\ InDesc(d, "router")
  /\ \/ Answered(d)
     \/ /\ Becomes(d, Result(d, IF desc[d].alive THEN "unreadable" ELSE "cancelled", 0))
        /\ Quiet
     \/ /\ desc[d].alive
        /\ \E o \in RouterErrors : RouterRetryable(o)
        /\ desc[d].attempt < MediaAttempts
        /\ Becomes(d, [desc[d] EXCEPT !.attempt = @ + 1, !.sent = TRUE])
        /\ Quiet
     \/ /\ desc[d].alive
        /\ \E o \in RouterErrors \cup {"empty", "undecodable"} :
             /\ RouterRetryable(o) => desc[d].attempt = MediaAttempts
             /\ NextModel(d, Failure(d, "router", o))

\* The deadline of the job, or the stop of the process.
DescCancel(d) ==
  /\ desc[d].pc \in {"claude", "checkPause", "router"} /\ desc[d].alive
  /\ Becomes(d, [desc[d] EXCEPT !.alive = FALSE])
  /\ Quiet

PauseTick ==
  /\ pauseLeft > 0
  /\ pauseLeft' = pauseLeft - 1
  /\ UNCHANGED <<routerKey, desc, lastWord>>

DescNext ==
  \/ \E d \in Describes :
       Describe(d) \/ AskClaudeMedia(d) \/ CheckPause(d) \/ AskRouterMedia(d) \/ DescCancel(d)
  \/ PauseTick

DescSpec == DescInit /\ [][DescNext]_descVars

-----------------------------------------------------------------------------
(***************************************************************************)
(* Properties                                                              *)
(***************************************************************************)
\* Types of the variables.
DescTypeOK ==
  /\ \A d \in Describes :
       /\ desc[d].pc \in {"idle", "claude", "checkPause", "router", "done"}
       /\ desc[d].model \in 1..MediaModels /\ desc[d].attempt \in 1..MediaAttempts
       /\ desc[d].try \in 0..MediaRetries
       /\ desc[d].result \in Results /\ desc[d].wait \in 0..MediaCooldown
       /\ desc[d].alive \in BOOLEAN /\ desc[d].sent \in BOOLEAN
  /\ pauseLeft \in 0..MediaCooldown /\ routerKey \in BOOLEAN

\* "Nothing was sent, so the attempt budget stays whole" (media.go:89): a result that
\* costs the file no attempt, whichever model came first, means that no request left.
FreeMeansNothingSent == \A d \in Describes : desc[d].result = "uncounted" => ~desc[d].sent

\* A file is given up for good only when no failure of its chain may pass: one model
\* that was busy, or an empty balance, keeps it pending whatever the others said.
GivenUpOnlyIfHopeless ==
  \A d \in Describes :
    desc[d].result = "hopeless" => \A f \in desc[d].fails : f.why = "stays"

\* What the media queue is told of a file is true: it counts an attempt, gives the file
\* up or waits on what the models really said.
ResultsAreHonest == DescTypeOK /\ FreeMeansNothingSent /\ GivenUpOnlyIfHopeless

\* The pause is the last word (media.go:379 and 388): it is on only as long as the last
\* thing OpenRouter said to a file as a whole was "payment required"; an answer, also to
\* a request older than the pause, ends it.
PauseIsLastWord == pauseLeft > 0 => lastWord = "broke"

\* The pause begins only when every OpenRouter model of one file wants payment, and
\* then this file waits for the end of it: it is neither lost nor tried before.
PauseNeedsEmptyBalance ==
  \A d \in Describes :
    pauseLeft' > pauseLeft /\ desc'[d] # desc[d] =>
      /\ desc'[d].result = "retry" /\ desc'[d].wait = MediaCooldown
      /\ \A f \in RouterFails(desc'[d]) : f.why = "broke"

\* The pause of OpenRouter begins and lasts only for an empty balance.
PauseIsEarned == [][PauseIsLastWord' /\ PauseNeedsEmptyBalance]_descVars
=============================================================================
