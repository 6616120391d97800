----------------------------- MODULE MCOfflineQueue -----------------------------
(***************************************************************************)
(* OfflineQueue on small instances.  No property but OneRowUnlessCrossed   *)
(* speaks of an incident once it is exposed, and an exposed incident stays *)
(* so: where all of them are, exploration stops.  The cut hides no         *)
(* counterexample of the others, of liveness neither: a behaviour that     *)
(* goes beyond it satisfies EventuallySettled.                             *)
(***************************************************************************)
EXTENDS OfflineQueue, TLC

SomethingToCheck == exposed # Ids

\* What the properties of the run tell apart: of an exposed incident, only that it was entered;
\* of what was recorded under its author's name, nothing.
PhoneView ==
  <<device, storage, server, spent, crossed, exposed,
    [i \in Ids |-> IF i \in exposed /\ author[i] # Nobody THEN i ELSE author[i]],
    SelectSeq(order, LAMBDA i : i \notin exposed), refused \ exposed, dropped \ exposed,
    {p \in sentBy : p[1] \notin exposed /\ p[2] # author[p[1]]}>>

PhoneSymmetry == Permutations(Users) \cup Permutations(Ids)
================================================================================
