---------------------------- MODULE MCDailyQuote ----------------------------
(* Instances of DailyQuote for TLC.                                         *)
EXTENDS DailyQuoteInv, TLC

\* The processes are alike.
ProcSymmetry == Permutations(Procs)

(* Starting from an accepted agreement and a day worth asking the AI about  *)
(* leaves the budget of the run to sends, records and restarts.             *)
BusyInit == Init /\ group.accepted /\ group.notice /\ \A d \in Days : win[d] = "enough"
BusySpec == BusyInit /\ [][Next]_vars

=============================================================================
