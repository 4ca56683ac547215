------------------------------ MODULE Providers ------------------------------
(***************************************************************************)
(* What one HTTP request to a model provider can come back with, and what  *)
(* the clients make of it: internal/claude and internal/openrouter.        *)
(***************************************************************************)

(* Claude.  A stream that has started ends as an answer, a refusal, an      *)
(* answer without text, a broken connection ("cut"), an error event of a    *)
(* transient or of another type, or events nobody can read ("garbled").     *)
StreamErrors == {"cut", "overloaded", "errorEvent", "garbled"}
\* No connection; 429 or 5xx; 408 or 409; 402; any other status.
StatusErrors == {"busy", "conflict", "broke", "bad"}
ClaudeErrors == StreamErrors \cup StatusErrors \cup {"conn"}

\* shouldRetry: x-should-retry decides when it is sent, the status otherwise.
ShouldRetry(o) ==
  CASE o = "conn" -> {TRUE}
    [] o \in StatusErrors -> BOOLEAN
    [] OTHER -> {FALSE}

\* claude.IsRetryable: may another call succeed?
ClaudeRetryable(o) == o \in {"conn", "cut", "busy", "overloaded"}

(* OpenRouter: a completion, one without content, a body that is none, no   *)
(* answer in time, a status, or a media file that cannot be read.           *)
RouterErrors == StatusErrors \cup {"timeout"}

\* RetryableStatus, and a RequestError.
RouterRetryable(o) == o \in {"busy", "timeout"}

(* mediaRetryable: may a description fail now and succeed later?  Answers   *)
(* that cannot be used count as passing, and so does an empty balance.      *)
MediaRetryable(provider, o) ==
  \/ o \in {"refusal", "empty", "undecodable", "garbled", "broke"}
  \/ IF provider = "claude" THEN ClaudeRetryable(o)
                            ELSE RouterRetryable(o) \/ o = "conflict"
=============================================================================
