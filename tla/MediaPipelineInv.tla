-------------------------- MODULE MediaPipelineInv --------------------------
(***************************************************************************)
(* The inductive invariants behind the theorems about MediaPipeline.       *)
(*                                                                         *)
(* A row is in one place of a process at a time, so the job that runs for  *)
(* it is the only one that writes its state and its count of attempts.     *)
(***************************************************************************)
EXTENDS MediaPipeline

\* One process: leases keep two processes apart only while a job is in time.
OneProcess == \E p \in Procs : Procs = {p}

\* The jobs that hold a lease.
Claiming == Running \ {"claim"}

\* What a row was analysed for is in its count, but for the analysis it is at.
RowAttempts == \A r \in Rows :
  /\ row[r].status = "none" => starts[r] = 0
  /\ row[r].status = "pending" => starts[r] <= row[r].count /\ row[r].count < MaxAttempts
  /\ row[r].status = "processing" => starts[r] <= row[r].count + 1

\* A job that analyses has attempts left, and one that cooled down gave its back.
JobAttempts == \A w \in Workers :
  /\ worker[w].pc \in InTime \cup {"join"} => worker[w].count < MaxAttempts
  /\ worker[w].pc = "finish" /\ worker[w].res = "cooldown" =>
       /\ worker[w].count < MaxAttempts
       /\ row[worker[w].r].status = "gone" \/ starts[worker[w].r] <= worker[w].count

AttemptsInv == RowAttempts /\ JobAttempts /\ AttemptsBounded

\* Past a look into the cache a job knows its file was not there, and past a look at
\* its group that it was open, until the download ends and the next look is due.
Uncached == {"fetch", "gateAgain", "describe", "join"} \cup Owning
LetOut == {"find", "fetch", "describe", "join"} \cup Owning
PrivacyInv == \A w \in Workers :
  /\ worker[w].before => File(w) \in cached
  /\ worker[w].shut => ~open
  /\ worker[w].pc \in Uncached => ~worker[w].before
  /\ worker[w].pc \in LetOut => ~worker[w].shut

\* No more jobs run than there are slots.
RunningOf(p) == {v \in Workers : v[1] = p /\ worker[v].pc \in Running}
SlotsHold == \A p \in Procs : Cardinality(RunningOf(p)) <= MaxConcurrent

\* A job that goes again is the one whose time is over first.
AgainIsFirst == \A v, w \in Workers :
  v # w /\ v[1] = w[1] /\ worker[w].again /\ {worker[v].pc, worker[w].pc} \subseteq InTime \cup {"join"}
    => worker[w].left <= worker[v].left

\* The time of a job is that of its lease, and it goes again only after its claim.
TimesInv ==
  /\ SlotsHold /\ AgainIsFirst
  /\ \A w \in Workers : /\ worker[w].left <= ItemTimeout
                        /\ worker[w].again => worker[w].pc \in Claiming

\* Everything that holds of one process.
PipelineInv == JobsAreExclusive /\ AttemptsInv /\ PrivacyInv /\ TimesInv

=============================================================================
