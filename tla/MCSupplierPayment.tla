---------------------------- MODULE MCSupplierPayment ----------------------------
(***************************************************************************)
(* SupplierPayment on small instances: one invoice, whose settlements have *)
(* the amounts paid as keys, and other keys for what is done elsewhere.    *)
(***************************************************************************)
EXTENDS SupplierPayment, TLC

CONSTANTS k1, k2  \* keys of settlements and reversals made elsewhere

MCAmounts == 1 .. 3
MCTotals == {0, 2, 3}
MCStlKeys == (1 .. 3) \cup {k1, k2}
PaymentSymmetry == Permutations(Procs) \cup Permutations({k1, k2})
================================================================================
