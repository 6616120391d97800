---------------------------- MODULE SettlementLedger ----------------------------
(***************************************************************************)
(* What Finance Core promises about the settlements it records, whatever   *)
(* the interleaving of the requests that write them:                       *)
(*                                                                         *)
(*   - an idempotency key is decided once: the settlement recorded under   *)
(*     it is never replaced, amended or deleted, so a retry finds it;      *)
(*   - a settlement is undone only by a mirror entry of the same amount on *)
(*     the same obligation, and at most once.                              *)
(*                                                                         *)
(* The promise is written in app/modules/finance_core/models.py (the       *)
(* docstrings of the module and of Settlement); FinanceCore implements it. *)
(***************************************************************************)
EXTENDS Integers

CONSTANTS OblKeys, StlKeys, IntentKeys, Amounts, None

VARIABLE entry  \* entry[k]: the settlement decided under idempotency key k

Absent == [kind |-> "absent"]

Normal ==
  [kind : {"normal"}, obl : OblKeys, amt : Amounts, intent : IntentKeys \cup {None}]

Reversal == [kind : {"reversal"}, obl : OblKeys, amt : Amounts, reverses : StlKeys]

Entry == {Absent} \cup Normal \cup Reversal

Init == entry = [k \in StlKeys |-> Absent]

\* A payment is recorded under a fresh key.
Post(k, e) ==
  /\ entry[k] = Absent
  /\ entry' = [entry EXCEPT ![k] = e]

IsReversed(orig) ==
  \E k \in StlKeys : entry[k].kind = "reversal" /\ entry[k].reverses = orig

\* A payment that still stands is undone by its mirror, under a fresh key.
Undo(k, orig) ==
  /\ entry[k] = Absent
  /\ entry[orig].kind = "normal"
  /\ ~ IsReversed(orig)
  /\ entry' = [entry EXCEPT ![k] = [kind |-> "reversal", obl |-> entry[orig].obl,
                                    amt |-> entry[orig].amt, reverses |-> orig]]

Next ==
  \E k \in StlKeys :
    \/ \E e \in Normal : Post(k, e)
    \/ \E orig \in StlKeys : Undo(k, orig)

Spec == Init /\ [][Next]_entry

=================================================================================
