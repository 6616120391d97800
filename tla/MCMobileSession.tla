---------------------------- MODULE MCMobileSession ----------------------------
(***************************************************************************)
(* MobileSession on small instances.  Renewals play the same part in every *)
(* action, and so do sessions: their permutations are symmetries.          *)
(***************************************************************************)
EXTENDS MobileSession, TLC

MobileSymmetry == Permutations(Renewals) \cup Permutations(Sessions)
================================================================================
