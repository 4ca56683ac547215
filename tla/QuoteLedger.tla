----------------------------- MODULE QuoteLedger -----------------------------
(***************************************************************************)
(* What the scheduler promises about the quote of a day, seen from the     *)
(* chat and from the quotes table: a day is posted at most once, by a run  *)
(* that works on the claim it made; an unknown outcome is final, and a     *)
(* published one too once the run that records it is done; only a day that *)
(* certainly was not posted is computed again.  DailyQuote implements it.  *)
(***************************************************************************)
EXTENDS Naturals

CONSTANT Days

VARIABLES
  posts,   \* how often the quote of each day is in the chat
  ledger,  \* what the table says of the day
  working  \* the days a run has claimed and still works on

vars == <<posts, ledger, working>>

Entries == {"open",       \* no row: the day may be computed
            "claimed",    \* a quote is being published
            "published",
            "failed",     \* certainly not posted
            "unknown",    \* perhaps posted: never touched again
            "quiet"}      \* a boring day

Turn(d, from, to) == ledger[d] = from /\ ledger' = [ledger EXCEPT ![d] = to]
Begins(d) == working' = working \cup {d}
Leaves(d) == d \in working /\ working' = working \ {d}
Rests == UNCHANGED working

\* A day gets its entry while nothing is posted.  A claim whose answer is lost is
\* one that nobody works on.
Claim(d) == Turn(d, "open", "claimed") /\ posts[d] = 0 /\ (Begins(d) \/ Rests) /\ UNCHANGED posts
Close(d) == Turn(d, "open", "quiet") /\ posts[d] = 0 /\ Rests /\ UNCHANGED posts
Reject(d) == Turn(d, "open", "failed") /\ posts[d] = 0 /\ Rests /\ UNCHANGED posts

Post(d) ==
  /\ d \in working /\ ledger[d] = "claimed" /\ posts[d] = 0
  /\ posts' = [posts EXCEPT ![d] = 1]
  /\ UNCHANGED <<ledger, working>>

\* The outcome is recorded by the run that made the claim.  When the answer to
\* Confirm is lost it goes on to Lose.
Confirm(d) ==
  /\ d \in working /\ Turn(d, "claimed", "published") /\ posts[d] = 1
  /\ Leaves(d) \/ Rests
  /\ UNCHANGED posts
Fail(d) == Turn(d, "claimed", "failed") /\ posts[d] = 0 /\ Leaves(d) /\ UNCHANGED posts
Lose(d) ==
  /\ Turn(d, "claimed", "unknown") \/ Turn(d, "published", "unknown")
  /\ Leaves(d) /\ UNCHANGED posts

\* A run that works on a day is gone, or could not record the outcome.
Release ==
  /\ working' \in SUBSET working /\ working' # working
  /\ UNCHANGED <<posts, ledger>>

\* A claim nobody works on any more: perhaps it was posted.
WriteOff(d) == d \notin working /\ Turn(d, "claimed", "unknown") /\ Rests /\ UNCHANGED posts

Reopen(d) == Turn(d, "failed", "open") /\ posts[d] = 0 /\ Rests /\ UNCHANGED posts

Init ==
  /\ posts = [d \in Days |-> 0]
  /\ ledger = [d \in Days |-> "open"]
  /\ working = {}

Next ==
  \/ \E d \in Days :
       \/ Claim(d) \/ Close(d) \/ Reject(d) \/ Post(d) \/ Confirm(d) \/ Fail(d)
       \/ Lose(d) \/ WriteOff(d) \/ Reopen(d)
  \/ Release

Spec == Init /\ [][Next]_vars

=============================================================================
