----------------------------- MODULE SupplierPayment -----------------------------
(***************************************************************************)
(* A supplier invoice (modules/achats): its own amount paid and status,    *)
(* and the obligation, the settlements and the journal entries that a      *)
(* payment writes beside them.  The obligation is the one of FinanceCore:  *)
(* every step here leaves its tables alone or takes one of its actions,    *)
(* and other modules (reconciliation, the finance screens) take them too.  *)
(*                                                                         *)
(* A payment is one session: the invoice is loaded, changed in memory, and *)
(* written at the first flush.  A settlement refused by the database rolls *)
(* that session back, the invoice with it, and the payment goes on.        *)
(* Amounts are in cents: the rounding of floats is left out.               *)
(***************************************************************************)
EXTENDS FinanceCore, FiniteSetsExt

CONSTANTS
  Invoice,   \* the invoice, and the key of its obligation
  Totals,    \* amounts an invoice may be entered or corrected to
  MaxPosted  \* bound: no payment starts once that much is posted

ASSUME InvoiceAssumption == Invoice \in OblKeys
ASSUME TotalsAssumption ==
  \A t \in Totals : t \in Nat /\ 1 .. t \subseteq Amounts \cap StlKeys
ASSUME MaxPostedAssumption == MaxPosted \in Nat

VARIABLES
  facture,     \* the row of factures_fournisseur
  posted,      \* sum of the entries 401/512 drafted by payer_facture
  pay,         \* what each payment has loaded, and where it is
  overwritten  \* history: a payment has written over an amount it had not read

invoiceVars == <<vars, facture, posted, pay, overwritten>>

InvoiceStatuses == {"absent", "en_attente", "partiellement_payee", "payee"}
NoPayment == [pc |-> "idle"]
Payment == [pc : {"loaded", "settling", "kept", "lost"},
            amt : Amounts, paid : Nat, status : InvoiceStatuses, full : BOOLEAN]

InvoiceTypeOK ==
  /\ TypeOK
  /\ facture \in [status : InvoiceStatuses, total : Nat, paid : Nat]
  /\ posted \in Nat /\ overwritten \in BOOLEAN
  /\ pay \in [Procs -> {NoPayment} \cup Payment]
  /\ \A p \in Procs : pay[p] # NoPayment =>
       /\ pay[p].paid + pay[p].amt \in StlKeys
       /\ pay[p].pc = "settling" <=> req[p] # Idle

InvoiceInit ==
  /\ Init
  /\ facture = [status |-> "absent", total |-> 0, paid |-> 0]
  /\ posted = 0 /\ overwritten = FALSE
  /\ pay = [p \in Procs |-> NoPayment]
--------------------------------------------------------------------------------
(* The invoice.                                                            *)

\* create_facture: a debt is opened unless there is nothing to pay.
CreateFacture(t) ==
  /\ facture.status = "absent"
  /\ facture' = [status |-> "en_attente", total |-> t, paid |-> 0]
  /\ IF t > 0 THEN CreateObligation(Invoice, t) ELSE UNCHANGED vars
  /\ UNCHANGED <<posted, pay, overwritten>>

\* update_facture: neither the status nor the obligation follows a new total.
UpdateFacture(t) ==
  /\ facture.status # "absent"
  /\ facture' = [facture EXCEPT !.total = t]
  /\ UNCHANGED <<vars, posted, pay, overwritten>>
--------------------------------------------------------------------------------
(* A payment.                                                              *)

\* payer_facture: refused once paid, and beyond what is left of the loaded total
Payable(amt) == facture.status # "payee" /\ amt <= facture.total - facture.paid

PayRead(p, amt) ==
  /\ pay[p] = NoPayment /\ req[p] = Idle
  /\ facture.status # "absent" /\ posted < MaxPosted
  /\ Payable(amt)
  /\ pay' = [pay EXCEPT ![p] =
       [pc |-> "loaded", amt |-> amt, paid |-> facture.paid, status |-> facture.status,
        full |-> facture.paid + amt >= facture.total]]
  /\ UNCHANGED <<vars, facture, posted, overwritten>>

\* The key of its settlement holds the amount the invoice comes to.
PerAmountMutant(r) == r.amt
KeyOf(r) == r.paid + r.amt

\* find_obligation_by_source, and settle_obligation up to its UPDATE
PayLocks(p) ==
  /\ pay[p].pc = "loaded"
  /\ SettleRead(p, KeyOf(pay[p]), Invoice, pay[p].amt, None, TRUE)
  /\ pay' = [pay EXCEPT ![p].pc = "settling"]
  /\ UNCHANGED <<facture, posted, overwritten>>

\* No debt, a settlement already recorded under that key, or a cancelled debt, whose
\* refusal is swallowed: the payment goes on without settling.
NothingToSettle(r) ==
  ~Exists(Invoice) \/ ~KeyFree(KeyOf(r)) \/ obl[Invoice].status = "cancelled"

PayAlone(p) ==
  /\ pay[p].pc = "loaded"
  /\ NothingToSettle(pay[p])
  /\ pay' = [pay EXCEPT ![p].pc = "kept"]
  /\ UNCHANGED <<vars, facture, posted, overwritten>>

\* The columns written: the amount as computed, the status if it differs from the loaded one.
Written(r) ==
  LET new == IF r.full THEN "payee" ELSE "partiellement_payee"
  IN [facture EXCEPT !.paid = r.paid + r.amt, !.status = IF new # r.status THEN new ELSE @]

UnpostedMutant(p) == posted' = posted
\* ecriture_paiement_fournisseur, then the end of the request
Post(p) == posted' = posted + pay[p].amt

Done(p) == pay' = [pay EXCEPT ![p] = NoPayment]

Write(p) ==
  /\ facture' = Written(pay[p])
  /\ overwritten' = (overwritten \/ facture.paid # pay[p].paid)

\* The UPDATE goes through: settlement, invoice and entry in one transaction.
PaySettles(p) ==
  /\ pay[p].pc = "settling"
  /\ SettleCommit(p)
  /\ Write(p) /\ Post(p) /\ Done(p)

KeptAfterRollbackMutant(p) == "kept"
\* rollback() expires the invoice: what the payment had changed is gone.
AfterRollback(p) == "lost"

\* The UPDATE or the insertion is refused: settle_obligation rolls back the session.
PayRefused(p) ==
  LET r == req[p] IN
  /\ pay[p].pc = "settling"
  /\ ~(CasHolds(r.obl, r.amt) /\ KeyFree(r.key))
  /\ Rollback(p)
  /\ pay' = [pay EXCEPT ![p].pc = AfterRollback(p)]
  /\ UNCHANGED <<facture, posted, overwritten>>

\* The entry is drafted and the request answered 200, with the invoice or without.
PayPosts(p) ==
  /\ pay[p].pc \in {"kept", "lost"}
  /\ IF pay[p].pc = "kept" THEN Write(p) ELSE UNCHANGED <<facture, overwritten>>
  /\ Post(p) /\ Done(p)
  /\ UNCHANGED vars

\* A number taken by another entry makes the commit fail; or the process dies.
PayFails(p) ==
  /\ pay[p] # NoPayment
  /\ Done(p)
  /\ IF req[p] # Idle THEN Rollback(p) ELSE UNCHANGED vars
  /\ UNCHANGED <<facture, posted, overwritten>>
--------------------------------------------------------------------------------
(* The same debt, seen from elsewhere.                                     *)

PaymentKeys == UNION {1 .. t : t \in Totals}
OtherKeys == StlKeys \ PaymentKeys

Elsewhere(p) ==
  /\ pay[p] = NoPayment
  /\ \/ \E k \in OtherKeys, amt \in Amounts : SettleRead(p, k, Invoice, amt, None, FALSE)
     \/ \E k \in OtherKeys, orig \in StlKeys : ReverseRead(p, k, orig)
     \/ CancelRead(p, Invoice)
     \/ SettleCommit(p) \/ ReverseCommit(p) \/ CancelCommit(p)
     \/ Rollback(p)
  /\ UNCHANGED <<facture, posted, pay, overwritten>>

InvoiceNext ==
  \/ \E t \in Totals : CreateFacture(t) \/ UpdateFacture(t)
  \/ \E p \in Procs :
       \/ \E amt \in Amounts : PayRead(p, amt)
       \/ PayLocks(p) \/ PayAlone(p) \/ PaySettles(p) \/ PayRefused(p)
       \/ PayPosts(p) \/ PayFails(p) \/ Elsewhere(p)

InvoiceSpec == InvoiceInit /\ [][InvoiceNext]_invoiceVars
--------------------------------------------------------------------------------
(* Properties.                                                             *)

\* No debt of the invoice was cancelled, and no settlement of it undone.
Standing ==
  /\ Exists(Invoice) /\ Invoice \notin cancelEvent
  /\ \A k \in StlKeys : stl[k].kind # "reversal"

\* The invoice never shows more paid than its debt has settled, whatever the payments
\* lose to each other, to settlements made elsewhere and to a corrected total: the
\* mirror of achats/service.py:445-450.
PaidIsBacked == Standing => facture.paid <= obl[Invoice].settled

\* When nobody else touches the debt and no payment wrote over another, both agree to
\* the cent: failures, retries and refused payments leave no gap.
OnlyPayments == \A k \in OtherKeys : stl[k] = Absent
MirrorsUnlessOverwritten ==
  Standing /\ OnlyPayments /\ ~overwritten => facture.paid = obl[Invoice].settled

\* What the invoice shows and what the bridge skips was posted by payer_facture: the
\* books never miss a payment.
AccountedFor ==
  /\ facture.paid <= posted
  /\ MapThenSumSet(LAMBDA k : stl[k].amt, preempted) <= posted
================================================================================
