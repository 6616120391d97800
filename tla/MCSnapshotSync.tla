----------------------------- MODULE MCSnapshotSync -----------------------------
(***************************************************************************)
(* SnapshotSync on small instances.  The calls that load play the same     *)
(* part, and so do the entries.                                            *)
(***************************************************************************)
EXTENDS SnapshotSync, TLC

SyncSymmetry == Permutations(Callers) \cup Permutations(Entries)

\* States that differ only in what is never read again are one: the snapshot of a load that
\* was applied, the payload of a save that was, what is still known of exposed entries, and
\* the copy of another station that has nothing left to add.
LiveSave ==
  IF save.pc = "applied" THEN [NoSave EXCEPT !.pc = "applied", !.signed = save.signed] ELSE save
LivePull ==
  [k \in Callers |-> IF pull[k].pc = "accounts" THEN [NoPull EXCEPT !.pc = "accounts"] ELSE pull[k]]
LiveOthers == IF Entries \subseteq used THEN {} ELSE others
StationView ==
  <<server, cache, LiveOthers, copy, LiveSave, again, LivePull, flight, events, used, touched,
    blank, exposed, mine \ exposed, acked \ exposed>>
================================================================================
