---------------------------- MODULE MCFinanceOutbox ----------------------------
(***************************************************************************)
(* FinanceOutbox on small instances.  Dispatchers play the same part in    *)
(* every action: their permutations are symmetries of the safety runs.     *)
(***************************************************************************)
EXTENDS FinanceOutbox, TLC

DispatcherSymmetry == Permutations(Dispatchers)
================================================================================
