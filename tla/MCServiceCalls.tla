---------------------------- MODULE MCServiceCalls ----------------------------
(***************************************************************************)
(* The machines behind the calls to other services, side by side: one      *)
(* behaviour runs one of them, chosen in its first state.                  *)
(***************************************************************************)
EXTENDS Evaluation, MediaDescribe, ClaudeStream, Outbox

VARIABLE machine

ClaudeThenRouter == <<"claude", "router">>

CallsInit ==
  /\ machine \in {"evaluation", "description", "stream", "outbox"}
  /\ IF machine = "description" THEN TRUE ELSE routerKey = TRUE
  /\ EvalInit /\ DescInit /\ StreamInit /\ OutboxInit

CallsNext ==
  /\ \/ machine = "evaluation"  /\ EvalNext   /\ UNCHANGED <<descVars, streamVars, outboxVars>>
     \/ machine = "description" /\ DescNext   /\ UNCHANGED <<evalVars, streamVars, outboxVars>>
     \/ machine = "stream"      /\ StreamNext /\ UNCHANGED <<evalVars, descVars, outboxVars>>
     \/ machine = "outbox"      /\ OutboxNext /\ UNCHANGED <<evalVars, descVars, streamVars>>
  /\ UNCHANGED machine

CallsSpec ==
  /\ CallsInit
  /\ [][CallsNext]_<<machine, evalVars, descVars, streamVars, outboxVars>>
  /\ EvalFairness
=============================================================================
