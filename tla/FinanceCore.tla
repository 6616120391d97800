------------------------------ MODULE FinanceCore ------------------------------
(***************************************************************************)
(* Finance Core: obligations (what is due), payment intents, settlements   *)
(* and the financial event written with each of them.                      *)
(* Source: app/modules/finance_core/service.py, routes.py.                 *)
(*                                                                         *)
(* A request is one SQL transaction under READ COMMITTED with a session    *)
(* that loads a row once and keeps that copy (SQLAlchemy identity map,     *)
(* autoflush off).  settle, reverse and cancel load rows, decide, and only *)
(* then write: each is a Read action, which keeps what was loaded in       *)
(* req[p], and a Commit action.  The first write of settle, reverse and    *)
(* cancel takes the row lock of the obligation, held until the commit, so  *)
(* everything from that write to the commit is one action.  Creations only *)
(* look their key up and insert under a UNIQUE key: one action.            *)
(*                                                                         *)
(* Rows are named by their idempotency keys.  Keys of obligations and of   *)
(* settlements are strings chosen by callers: the two sets may meet.       *)
(***************************************************************************)
EXTENDS Integers

CONSTANTS
  OblKeys,     \* idempotency keys of obligations
  StlKeys,     \* idempotency keys of settlements, normal and reversal alike
  IntentKeys,  \* idempotency keys of payment intents
  Procs,       \* requests served at the same time
  Amounts,     \* amounts a request may carry, in cents
  None

ASSUME AmountsAssumption == Amounts \subseteq Nat \ {0}
ASSUME NoneAssumption == None \notin OblKeys \cup StlKeys \cup IntentKeys

VARIABLES
  obl,          \* table financial_obligations
  intent,       \* table payment_intents
  stl,          \* table settlements
  event,        \* table financial_events, the keys "evt:<key>:created"
  cancelEvent,  \* the same table, the keys "evt:obligation:<id>:cancelled"
  preempted,    \* events whose accounting event is written in advance as "skipped"
  req,          \* what each request has loaded
  net,          \* history: payments minus reversals recorded on each obligation
  stale         \* history: obligations a reversal wrote from an outdated copy

vars == <<obl, intent, stl, event, cancelEvent, preempted, req, net, stale>>

EvtKeys == OblKeys \cup StlKeys
Statuses == {"absent", "open", "partially_settled", "settled", "cancelled"}
EventTypes == {"none", "obligation.created", "settlement.created", "settlement.reversed"}

Absent == [kind |-> "absent"]

Normal ==
  [kind : {"normal"}, obl : OblKeys, amt : Amounts, intent : IntentKeys \cup {None}]

Reversal == [kind : {"reversal"}, obl : OblKeys, amt : Amounts, reverses : StlKeys]

Idle == [op |-> "idle"]

SettleRequest ==
  [op : {"settle"}, key : StlKeys, obl : OblKeys, amt : Amounts,
   intent : IntentKeys \cup {None}, skip : BOOLEAN]

\* `status` and `settled` are the copy of the obligation the request loaded.
ReverseRequest ==
  [op : {"reverse"}, key : StlKeys, orig : StlKeys, status : Statuses, settled : Nat]

CancelRequest == [op : {"cancel"}, obl : OblKeys, status : Statuses]

TypeOK ==
  /\ obl \in [OblKeys -> [status : Statuses, total : Nat, settled : Nat]]
  /\ intent \in [IntentKeys -> [status : {"absent", "pending", "settled"},
                                obl : OblKeys \cup {None}]]
  /\ stl \in [StlKeys -> {Absent} \cup Normal \cup Reversal]
  /\ event \in [EvtKeys -> EventTypes]
  /\ cancelEvent \subseteq OblKeys
  /\ preempted \subseteq EvtKeys
  /\ req \in [Procs -> {Idle} \cup SettleRequest \cup ReverseRequest \cup CancelRequest]
  /\ net \in [OblKeys -> Int]
  /\ stale \subseteq OblKeys

Exists(o) == obl[o].status # "absent"

\* The UNIQUE key on settlements, looked up first and enforced by the database last.
KeyReusedMutant(k) == TRUE
KeyFree(k) == stl[k] = Absent

\* The UNIQUE key on reversed_settlement_id.
IsReversed(orig) ==
  \E k \in StlKeys : stl[k].kind = "reversal" /\ stl[k].reverses = orig

\* emit_event: the first writer of a key wins, a later one gets the event it finds.
Emitted(k, type) == [event EXCEPT ![k] = IF @ = "none" THEN type ELSE @]

\* A payment intent may be named only for the obligation it was created for.
IntentMatches(i, o) == i # None => intent[i].status # "absent" /\ intent[i].obl = o

\* The WHERE clause of the settling UPDATE, evaluated on the committed row.
UnboundedMutant(o, amt) == obl[o].status # "cancelled"
CasHolds(o, amt) ==
  obl[o].status # "cancelled" /\ obl[o].settled + amt <= obl[o].total

\* amount_settled after a reversal, computed from the loaded amount.
UnflooredMutant(loaded, amt) == loaded - amt
NotRestoredMutant(loaded, amt) == loaded
Restored(loaded, amt) == IF loaded < amt THEN 0 ELSE loaded - amt

StatusFor(settled, total) ==
  IF settled >= total THEN "settled"
  ELSE IF settled > 0 THEN "partially_settled" ELSE "open"

Init ==
  /\ obl = [o \in OblKeys |-> [status |-> "absent", total |-> 0, settled |-> 0]]
  /\ intent = [i \in IntentKeys |-> [status |-> "absent", obl |-> None]]
  /\ stl = [k \in StlKeys |-> Absent]
  /\ event = [k \in EvtKeys |-> "none"]
  /\ cancelEvent = {}
  /\ preempted = {}
  /\ req = [p \in Procs |-> Idle]
  /\ net = [o \in OblKeys |-> 0]
  /\ stale = {}

-------------------------------------------------------------------------------
\* create_obligation: a known key returns the row already there.
CreateObligation(o, amt) ==
  /\ ~ Exists(o)
  /\ obl' = [obl EXCEPT ![o] = [status |-> "open", total |-> amt, settled |-> 0]]
  /\ event' = Emitted(o, "obligation.created")
  /\ UNCHANGED <<intent, stl, cancelEvent, preempted, req, net, stale>>

\* create_payment_intent: the obligation is optional, but never dangling.
CreateIntent(i, o) ==
  /\ intent[i].status = "absent"
  /\ o # None => Exists(o)
  /\ intent' = [intent EXCEPT ![i] = [status |-> "pending", obl |-> o]]
  /\ UNCHANGED <<obl, stl, event, cancelEvent, preempted, req, net, stale>>

-------------------------------------------------------------------------------
\* settle_obligation up to the UPDATE: every check made on loaded rows.
SettleRead(p, k, o, amt, i, skip) ==
  /\ req[p] = Idle
  /\ KeyFree(k)
  /\ Exists(o) /\ obl[o].status # "cancelled"
  /\ IntentMatches(i, o)
  /\ req' = [req EXCEPT ![p] = [op |-> "settle", key |-> k, obl |-> o, amt |-> amt,
                                intent |-> i, skip |-> skip]]
  /\ UNCHANGED <<obl, intent, stl, event, cancelEvent, preempted, net, stale>>

\* The obligation once the compare-and-swap has added amt.
SettledRow(row, amt) ==
  [status |-> StatusFor(row.settled + amt, row.total), total |-> row.total,
   settled |-> row.settled + amt]

\* The compare-and-swap succeeds and the settlement's key is still free.
SettleCommit(p) ==
  LET r == req[p] IN
  /\ r.op = "settle"
  /\ CasHolds(r.obl, r.amt)
  /\ KeyFree(r.key)
  /\ obl' = [obl EXCEPT ![r.obl] = SettledRow(@, r.amt)]
  /\ stl' = [stl EXCEPT ![r.key] = [kind |-> "normal", obl |-> r.obl, amt |-> r.amt,
                                    intent |-> r.intent]]
  /\ intent' = IF r.intent = None THEN intent
               ELSE [intent EXCEPT ![r.intent].status = "settled"]
  /\ event' = Emitted(r.key, "settlement.created")
  /\ preempted' = IF r.skip THEN preempted \cup {r.key} ELSE preempted
  /\ req' = [req EXCEPT ![p] = Idle]
  /\ net' = [net EXCEPT ![r.obl] = @ + r.amt]
  /\ UNCHANGED <<cancelEvent, stale>>

-------------------------------------------------------------------------------
\* reverse_settlement up to the flush: the obligation is loaded without a lock.
ReverseRead(p, k, orig) ==
  /\ req[p] = Idle
  /\ KeyFree(k)
  /\ stl[orig].kind = "normal"
  /\ ~ IsReversed(orig)
  /\ req' = [req EXCEPT ![p] =
               [op |-> "reverse", key |-> k, orig |-> orig,
                status |-> obl[stl[orig].obl].status,
                settled |-> obl[stl[orig].obl].settled]]
  /\ UNCHANGED <<obl, intent, stl, event, cancelEvent, preempted, net, stale>>

\* The new columns are computed from the loaded copy; a column is part of the
\* UPDATE only when it differs from that copy.
ReversedRow(row, loaded, amt) ==
  LET settled == Restored(loaded.settled, amt)
      status == StatusFor(settled, row.total)
  IN [status |-> IF status # loaded.status THEN status ELSE row.status,
      total |-> row.total,
      settled |-> IF settled # loaded.settled THEN settled ELSE row.settled]

\* The flush and the commit; the two UNIQUE keys are the last guard.
ReverseCommit(p) ==
  LET r == req[p]
      o == stl[r.orig].obl
      amt == stl[r.orig].amt
  IN
  /\ r.op = "reverse"
  /\ KeyFree(r.key)
  /\ ~ IsReversed(r.orig)
  /\ obl' = [obl EXCEPT ![o] = ReversedRow(@, r, amt)]
  /\ stl' = [stl EXCEPT ![r.key] = [kind |-> "reversal", obl |-> o, amt |-> amt,
                                    reverses |-> r.orig]]
  /\ event' = Emitted(r.key, "settlement.reversed")
  /\ req' = [req EXCEPT ![p] = Idle]
  /\ net' = [net EXCEPT ![o] = @ - amt]
  /\ stale' = IF r.settled # obl[o].settled THEN stale \cup {o} ELSE stale
  /\ UNCHANGED <<intent, cancelEvent, preempted>>

-------------------------------------------------------------------------------
\* cancel_obligation up to the flush.
CancelRead(p, o) ==
  /\ req[p] = Idle
  /\ Exists(o) /\ obl[o].status # "settled"
  /\ req' = [req EXCEPT ![p] = [op |-> "cancel", obl |-> o, status |-> obl[o].status]]
  /\ UNCHANGED <<obl, intent, stl, event, cancelEvent, preempted, net, stale>>

CancelCommit(p) ==
  LET r == req[p] IN
  /\ r.op = "cancel"
  /\ obl' = [obl EXCEPT ![r.obl].status = IF r.status # "cancelled" THEN "cancelled" ELSE @]
  /\ cancelEvent' = cancelEvent \cup {r.obl}
  /\ req' = [req EXCEPT ![p] = Idle]
  /\ UNCHANGED <<intent, stl, event, preempted, net, stale>>

\* A lost compare-and-swap, a UNIQUE violation, a crash or a lost connection:
\* the transaction is rolled back and the tables are as if it had not run.
Rollback(p) ==
  /\ req[p] # Idle
  /\ req' = [req EXCEPT ![p] = Idle]
  /\ UNCHANGED <<obl, intent, stl, event, cancelEvent, preempted, net, stale>>

Next ==
  \/ \E o \in OblKeys, amt \in Amounts : CreateObligation(o, amt)
  \/ \E i \in IntentKeys, o \in OblKeys \cup {None} : CreateIntent(i, o)
  \/ \E p \in Procs :
       \/ \E k \in StlKeys, o \in OblKeys, amt \in Amounts,
             i \in IntentKeys \cup {None}, skip \in BOOLEAN :
               SettleRead(p, k, o, amt, i, skip)
       \/ SettleCommit(p)
       \/ \E k, orig \in StlKeys : ReverseRead(p, k, orig)
       \/ ReverseCommit(p)
       \/ \E o \in OblKeys : CancelRead(p, o)
       \/ CancelCommit(p)
       \/ Rollback(p)

Spec == Init /\ [][Next]_vars

-------------------------------------------------------------------------------
(* Properties *)

\* No interleaving of settlements, reversals and cancellations takes the amount
\* settled of an obligation outside 0 .. amount_total: the column that
\* settle_obligation guards with its WHERE clause and reverse_settlement overwrites.
SettledWithinTotal ==
  \A o \in OblKeys : 0 <= obl[o].settled /\ obl[o].settled <= obl[o].total

\* As long as no reversal has written an obligation from an outdated copy, the
\* payments that stand on it never exceed what was due.
NoOverpaymentUnlessStale ==
  \A o \in OblKeys : o \notin stale => net[o] <= obl[o].total

\* Under the same condition amount_settled is exactly the payments that stand, and
\* the status of an obligation that is not cancelled tells that balance.
BalanceIsExactUnlessStale ==
  \A o \in OblKeys : o \notin stale =>
    /\ obl[o].settled = net[o]
    /\ obl[o].status = "open" => net[o] = 0
    /\ obl[o].status = "partially_settled" => 0 < net[o] /\ net[o] < obl[o].total
    /\ obl[o].status = "settled" => net[o] = obl[o].total

\* What the docstring of settle_obligation states without condition.
NoOverpayment == \A o \in OblKeys : net[o] <= obl[o].total

\* Two concurrent reversals never both undo the same settlement.
ReversedAtMostOnce ==
  \A k1, k2 \in StlKeys :
    /\ stl[k1].kind = "reversal" /\ stl[k2].kind = "reversal"
    /\ stl[k1].reverses = stl[k2].reverses
    => k1 = k2

\* An intent is settled only by a recorded payment of its own obligation
\* (the cross-company corruption of settle_obligation's payment_intent_id check).
IntentSettledByItsObligation ==
  \A i \in IntentKeys : intent[i].status = "settled" =>
    \E k \in StlKeys : /\ stl[k].kind = "normal"
                       /\ stl[k].intent = i
                       /\ stl[k].obl = intent[i].obl

\* The settlements implement the ledger: one decision per key, at most one mirror.
Ledger == INSTANCE SettlementLedger WITH entry <- stl

LedgerSpec == Ledger!Spec

================================================================================
