---------------------------- MODULE MCRiskEngine ----------------------------
(***************************************************************************)
(* Two accounts with two locks each and a log that compacts after four     *)
(* entries, so that behaviours of six transactions compact repeatedly and  *)
(* checkpoints get compacted again.                                        *)
(***************************************************************************)
EXTENDS RiskEngine

Interchangeable == Permutations(Accounts) \cup Permutations(LockKeys)
=============================================================================
