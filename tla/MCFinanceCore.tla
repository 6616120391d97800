----------------------------- MODULE MCFinanceCore -----------------------------
(***************************************************************************)
(* FinanceCore on small instances.  Requests and settlement keys play the  *)
(* same part in every action, so their permutations are symmetries.        *)
(***************************************************************************)
EXTENDS FinanceCore, TLC

RequestSymmetry == Permutations(Procs)
KeySymmetry == Permutations(Procs) \cup Permutations(StlKeys)

\* Amounts in units of the smallest payment: a debt of 2 can be paid in two halves.
MCAmounts == {1, 2}
================================================================================
