--------------------------- MODULE MCReconciliation ---------------------------
(***************************************************************************)
(* Reconciliation on small instances: obligations of one or two units, a   *)
(* transaction that pays one of them or both, and payments made elsewhere  *)
(* on the larger one.  Once a reversal has written from an outdated copy,  *)
(* states with another reversal under way are not explored.                *)
(***************************************************************************)
EXTENDS Reconciliation, TLC

CONSTANTS o1, o2, t1, s1

OneAndTwo == o1 :> 1 @@ o2 :> 2

OneOnTheLarger == o1 :> 0 @@ o2 :> 1

JustTwo == t1 :> 2

OneStatement == s1 :> {t1}

OneOutdatedReversal == stale # {} => \A k \in Callers : pc[k] # "reverse"
================================================================================
