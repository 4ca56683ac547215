---------------------------- MODULE MCUpdateFeed ----------------------------
(* Instances of UpdateFeed for TLC.                                         *)
EXTENDS UpdateFeed, TLC

\* The slots are alike.
SlotSymmetry == Permutations(Slots)
============================================================================
