-------------------------- MODULE SupplierPaymentProofs --------------------------
(***************************************************************************)
(* What SupplierPayment guarantees for every set of keys, amounts, totals  *)
(* and payments at the same time.  Its steps are steps of FinanceCore, so  *)
(* what FinanceCoreProofs establishes holds of its tables.                 *)
(***************************************************************************)
EXTENDS SupplierPayment, FinanceCoreProofs, FiniteSetTheorems, WellFoundedInduction

USE AmountsAssumption, InvoiceAssumption, TotalsAssumption, MaxPostedAssumption

S == obl[Invoice].settled

(***************************************************************************)
(* The inductive invariant.  A key of a payment is an amount the invoice   *)
(* came to: as long as nothing is undone, the debt has settled at least    *)
(* the largest of them, and at least what any payment has loaded.          *)
(***************************************************************************)
Types ==
  /\ facture \in [status : InvoiceStatuses, total : Nat, paid : Nat]
  /\ posted \in Nat /\ overwritten \in BOOLEAN
  /\ pay \in [Procs -> {NoPayment} \cup Payment]

Locked(p) ==
  /\ req[p].op = "settle" /\ req[p].key = KeyOf(pay[p])
  /\ req[p].obl = Invoice /\ req[p].amt = pay[p].amt

Loaded ==
  \A p \in Procs : pay[p] # NoPayment =>
    /\ KeyOf(pay[p]) \in PaymentKeys
    /\ pay[p].pc = "settling" => Locked(p)
    /\ pay[p].pc # "settling" => req[p] = Idle

Strangers ==
  \A p \in Procs : pay[p] = NoPayment /\ req[p].op \in {"settle", "reverse"} =>
    req[p].key \in OtherKeys

Unborn ==
  facture.status = "absent" =>
    /\ ~Exists(Invoice) /\ facture.paid = 0
    /\ \A p \in Procs : pay[p] = NoPayment

KeysOfPayments ==
  \A k \in PaymentKeys : stl[k].kind # "absent" =>
    stl[k].kind = "normal" /\ stl[k].obl = Invoice /\ (Standing => k <= S)

Backed ==
  Standing =>
    /\ facture.paid <= S
    /\ \A p \in Procs : pay[p] # NoPayment =>
         pay[p].paid <= S /\ (pay[p].pc = "kept" => KeyOf(pay[p]) <= S)

CancelledLogged == obl[Invoice].status = "cancelled" => Invoice \in cancelEvent
TotalEntered == facture.status # "absent" => facture.total \in Totals

Shape == Types /\ Loaded /\ Strangers /\ Unborn /\ TotalEntered
InvoiceInv == IInv /\ Shape /\ CancelledLogged /\ KeysOfPayments /\ Backed

LEMMA PaymentKeysFacts == PaymentKeys \subseteq StlKeys /\ PaymentKeys \subseteq Nat
BY DEF PaymentKeys

LEMMA PaymentFacts ==
  ASSUME Types, NEW p \in Procs, pay[p] # NoPayment
  PROVE  /\ pay[p] \in Payment /\ pay[p].paid \in Nat /\ pay[p].amt \in Nat
         /\ pay[p].amt \in Amounts /\ KeyOf(pay[p]) = pay[p].paid + pay[p].amt
         /\ KeyOf(pay[p]) \in Nat
<1>1. pay[p] \in Payment
  BY DEF Types
<1>2. pay[p].paid \in Nat /\ pay[p].amt \in Nat /\ pay[p].amt \in Amounts
  BY <1>1 DEF Payment
<1> QED BY <1>1, <1>2 DEF KeyOf

LEMMA InitInvoiceInv == InvoiceInit => InvoiceInv
<1> SUFFICES ASSUME InvoiceInit PROVE InvoiceInv
  OBVIOUS
<1>1. IInv
  BY InitIInv DEF InvoiceInit
<1>2. Types
  BY DEF InvoiceInit, Types, InvoiceStatuses
<1>3. Loaded /\ Strangers /\ Unborn /\ TotalEntered
  BY DEF InvoiceInit, Init, Loaded, Strangers, Unborn, TotalEntered, Idle, Exists
<1>4. CancelledLogged /\ ~Standing
  BY DEF InvoiceInit, Init, CancelledLogged, Standing, Exists
<1>5. KeysOfPayments
  BY PaymentKeysFacts DEF InvoiceInit, Init, KeysOfPayments, Absent
<1> QED BY <1>1, <1>2, <1>3, <1>4, <1>5 DEF InvoiceInv, Shape, Backed
--------------------------------------------------------------------------------
(* Every step is one of FinanceCore, or leaves its tables alone.           *)

LEMMA ElsewhereIsCore ==
  ASSUME NEW p \in Procs, Elsewhere(p) PROVE Next
<1>1. CASE \E k \in OtherKeys, amt \in Amounts : SettleRead(p, k, Invoice, amt, None, FALSE)
  BY <1>1 DEF Next, OtherKeys
<1>2. CASE \E k \in OtherKeys, orig \in StlKeys : ReverseRead(p, k, orig)
  BY <1>2 DEF Next, OtherKeys
<1>3. CASE CancelRead(p, Invoice)
  BY <1>3 DEF Next
<1>4. CASE SettleCommit(p) \/ ReverseCommit(p) \/ CancelCommit(p) \/ Rollback(p)
  BY <1>4 DEF Next
<1> QED BY <1>1, <1>2, <1>3, <1>4 DEF Elsewhere

LEMMA StepIsCore == ASSUME InvoiceInv, InvoiceNext PROVE Next \/ UNCHANGED vars
<1>1. ASSUME NEW t \in Totals, CreateFacture(t)
      PROVE  Next \/ UNCHANGED vars
  <2>1. t > 0 => t \in Amounts
    BY DEF CreateFacture
  <2> QED BY <1>1, <2>1 DEF CreateFacture, Next
<1>2. ASSUME NEW t \in Totals, UpdateFacture(t)
      PROVE  Next \/ UNCHANGED vars
  BY <1>2 DEF UpdateFacture
<1>3. ASSUME NEW p \in Procs, NEW amt \in Amounts, PayRead(p, amt)
      PROVE  Next \/ UNCHANGED vars
  BY <1>3 DEF PayRead
<1>4. ASSUME NEW p \in Procs, PayLocks(p)
      PROVE  Next \/ UNCHANGED vars
  <2>1. pay[p] # NoPayment
    BY <1>4 DEF PayLocks, NoPayment
  <2>2. KeyOf(pay[p]) \in StlKeys /\ pay[p].amt \in Amounts
    BY <2>1, PaymentFacts, PaymentKeysFacts DEF InvoiceInv, Shape, Loaded
  <2> QED BY <1>4, <2>2 DEF PayLocks, Next
<1>5. ASSUME NEW p \in Procs, PayAlone(p) \/ PayPosts(p)
      PROVE  Next \/ UNCHANGED vars
  BY <1>5 DEF PayAlone, PayPosts
<1>6. ASSUME NEW p \in Procs, PaySettles(p) \/ PayRefused(p) \/ PayFails(p)
      PROVE  Next \/ UNCHANGED vars
  BY <1>6 DEF PaySettles, PayRefused, PayFails, Next
<1>7. ASSUME NEW p \in Procs, Elsewhere(p)
      PROVE  Next \/ UNCHANGED vars
  BY <1>7, ElsewhereIsCore
<1> QED BY <1>1, <1>2, <1>3, <1>4, <1>5, <1>6, <1>7 DEF InvoiceNext

LEMMA CoreKept == ASSUME InvoiceInv, InvoiceNext PROVE IInv'
BY StepIsCore, IInvInductive DEF InvoiceInv
--------------------------------------------------------------------------------
(* While nothing is undone, what the debt has settled only grows.          *)

LEMMA SettledGrows ==
  ASSUME IInv, Next \/ UNCHANGED vars, Standing', Exists(Invoice)
  PROVE  Standing /\ S <= S'
<1> S \in Nat
  BY DEF IInv, TypeOK, S
<1>1. CASE UNCHANGED vars
  BY <1>1 DEF vars, Standing, Exists, S
<1>2. CASE Next
  <2>1. RowsKept
    BY <1>2, RowsAreKept
  <2>2. \A k \in StlKeys : stl[k].kind # "reversal"
    BY <2>1 DEF RowsKept, Standing, Absent
  <2>3. ASSUME NEW o \in OblKeys, NEW amt \in Amounts, CreateObligation(o, amt)
        PROVE  cancelEvent \subseteq cancelEvent' /\ S <= S'
    BY <2>3 DEF CreateObligation, S, IInv, TypeOK
  <2>4. ASSUME NEW i \in IntentKeys, NEW o \in OblKeys \cup {None}, CreateIntent(i, o)
        PROVE  cancelEvent \subseteq cancelEvent' /\ S <= S'
    BY <2>4 DEF CreateIntent, S
  <2>5. ASSUME NEW p \in Procs, NEW k \in StlKeys, NEW o \in OblKeys, NEW amt \in Amounts,
               NEW i \in IntentKeys \cup {None}, NEW skip \in BOOLEAN,
               SettleRead(p, k, o, amt, i, skip)
        PROVE  cancelEvent \subseteq cancelEvent' /\ S <= S'
    BY <2>5 DEF SettleRead, S
  <2>6. ASSUME NEW p \in Procs, SettleCommit(p)
        PROVE  cancelEvent \subseteq cancelEvent' /\ S <= S'
    <3>1. req[p] \in SettleRequest
      BY <2>6, SettleFacts
    <3>2. req[p].obl \in OblKeys /\ req[p].amt \in Nat
      BY <3>1 DEF SettleRequest
    <3>3. SettledRow(obl[req[p].obl], req[p].amt).settled = obl[req[p].obl].settled + req[p].amt
      BY DEF SettledRow
    <3>4. obl' = [obl EXCEPT ![req[p].obl] = SettledRow(obl[req[p].obl], req[p].amt)]
          /\ cancelEvent' = cancelEvent
      BY <2>6 DEF SettleCommit
    <3>5. obl \in [OblKeys -> [status : Statuses, total : Nat, settled : Nat]]
      BY DEF IInv, TypeOK
    <3> QED BY <3>2, <3>3, <3>4, <3>5 DEF S
  <2>7. ASSUME NEW p \in Procs, NEW k \in StlKeys, NEW orig \in StlKeys,
               ReverseRead(p, k, orig)
        PROVE  cancelEvent \subseteq cancelEvent' /\ S <= S'
    BY <2>7 DEF ReverseRead, S
  <2>8. ASSUME NEW p \in Procs, ReverseCommit(p)
        PROVE  FALSE
    <3>1. req[p].key \in StlKeys
      BY <2>8, ReverseFacts DEF ReverseRequest
    <3>2. stl'[req[p].key].kind = "reversal"
      BY <2>8, <3>1 DEF ReverseCommit, IInv, TypeOK
    <3> QED BY <3>1, <3>2 DEF Standing
  <2>9. ASSUME NEW p \in Procs, NEW o \in OblKeys, CancelRead(p, o)
        PROVE  cancelEvent \subseteq cancelEvent' /\ S <= S'
    BY <2>9 DEF CancelRead, S
  <2>10. ASSUME NEW p \in Procs, CancelCommit(p)
         PROVE  cancelEvent \subseteq cancelEvent' /\ S <= S'
    BY <2>10 DEF CancelCommit, S, IInv, TypeOK
  <2>11. ASSUME NEW p \in Procs, Rollback(p)
         PROVE  cancelEvent \subseteq cancelEvent' /\ S <= S'
    BY <2>11 DEF Rollback, S
  <2>12. cancelEvent \subseteq cancelEvent' /\ S <= S'
    BY <1>2, <2>3, <2>4, <2>5, <2>6, <2>7, <2>8, <2>9, <2>10, <2>11 DEF Next
  <2> QED BY <2>2, <2>12 DEF Standing
<1> QED BY <1>1, <1>2

\* A cancelled debt has its event: no settlement or reversal makes a debt cancelled.
LEMMA CancelledLoggedKept ==
  ASSUME IInv, CancelledLogged, Next \/ UNCHANGED vars
  PROVE  CancelledLogged'
<1>1. CASE UNCHANGED vars
  BY <1>1 DEF vars, CancelledLogged
<1>2. ASSUME NEW o \in OblKeys, NEW amt \in Amounts, CreateObligation(o, amt)
      PROVE  CancelledLogged'
  BY <1>2 DEF CreateObligation, CancelledLogged, IInv, TypeOK
<1>3. ASSUME NEW i \in IntentKeys, NEW o \in OblKeys \cup {None}, CreateIntent(i, o)
      PROVE  CancelledLogged'
  BY <1>3 DEF CreateIntent, CancelledLogged
<1>4. ASSUME NEW p \in Procs, NEW k \in StlKeys, NEW o \in OblKeys, NEW amt \in Amounts,
             NEW i \in IntentKeys \cup {None}, NEW skip \in BOOLEAN,
             SettleRead(p, k, o, amt, i, skip)
      PROVE  CancelledLogged'
  BY <1>4 DEF SettleRead, CancelledLogged
<1>5. ASSUME NEW p \in Procs, SettleCommit(p)
      PROVE  CancelledLogged'
  <2>1. req[p] \in SettleRequest
    BY <1>5, SettleFacts
  <2>2. SettledRow(obl[req[p].obl], req[p].amt).status # "cancelled"
    BY StatusForType DEF SettledRow
  <2> QED BY <1>5, <2>1, <2>2 DEF SettleCommit, CancelledLogged, IInv, TypeOK, SettleRequest
<1>6. ASSUME NEW p \in Procs, NEW k \in StlKeys, NEW orig \in StlKeys, ReverseRead(p, k, orig)
      PROVE  CancelledLogged'
  BY <1>6 DEF ReverseRead, CancelledLogged
<1>7. ASSUME NEW p \in Procs, ReverseCommit(p)
      PROVE  CancelledLogged'
  <2> DEFINE o == stl[req[p].orig].obl
             amt == stl[req[p].orig].amt
             row == ReversedRow(obl[o], req[p], amt)
  <2>1. row.status = "cancelled" => obl[o].status = "cancelled"
    BY StatusForType DEF ReversedRow
  <2>2. o \in OblKeys
    BY <1>7, ReverseFacts DEF Normal
  <2>3. obl' = [obl EXCEPT ![o] = row] /\ cancelEvent' = cancelEvent
    BY <1>7 DEF ReverseCommit
  <2> QED BY <2>1, <2>2, <2>3 DEF CancelledLogged, IInv, TypeOK
<1>8. ASSUME NEW p \in Procs, NEW o \in OblKeys, CancelRead(p, o)
      PROVE  CancelledLogged'
  BY <1>8 DEF CancelRead, CancelledLogged
<1>9. ASSUME NEW p \in Procs, CancelCommit(p)
      PROVE  CancelledLogged'
  BY <1>9 DEF CancelCommit, CancelledLogged, IInv, TypeOK
<1>10. ASSUME NEW p \in Procs, Rollback(p)
       PROVE  CancelledLogged'
  BY <1>10 DEF Rollback, CancelledLogged
<1> QED BY <1>1, <1>2, <1>3, <1>4, <1>5, <1>6, <1>7, <1>8, <1>9, <1>10 DEF Next
--------------------------------------------------------------------------------
(* What each payment holds, and who holds a key of a payment.              *)

LEMMA WrittenFacts ==
  ASSUME Types, NEW p \in Procs, pay[p] # NoPayment
  PROVE  /\ Written(pay[p]) \in [status : InvoiceStatuses, total : Nat, paid : Nat]
         /\ Written(pay[p]).paid = KeyOf(pay[p]) /\ Written(pay[p]).total = facture.total
         /\ facture.status # "absent" => Written(pay[p]).status # "absent"
<1>1. pay[p].paid + pay[p].amt \in Nat /\ pay[p].status \in InvoiceStatuses
  BY PaymentFacts DEF Payment
<1> QED BY <1>1 DEF Written, KeyOf, Types, InvoiceStatuses

LEMMA TypesKept == ASSUME InvoiceInv, InvoiceNext PROVE Types'
<1> Types
  BY DEF InvoiceInv, Shape
<1>1. ASSUME NEW t \in Totals, CreateFacture(t) \/ UpdateFacture(t)
      PROVE  Types'
  BY <1>1 DEF CreateFacture, UpdateFacture, Types, InvoiceStatuses
<1>2. ASSUME NEW p \in Procs, NEW amt \in Amounts, PayRead(p, amt)
      PROVE  Types'
  <2>1. pay'[p] \in Payment
    BY <1>2 DEF PayRead, Types, Payment
  <2> QED BY <1>2, <2>1 DEF PayRead, Types
<1>3. ASSUME NEW p \in Procs, PayLocks(p) \/ PayAlone(p) \/ PayRefused(p)
      PROVE  Types'
  <2>1. pay[p] # NoPayment
    <3>1. pay[p].pc \in {"loaded", "settling"}
      BY <1>3 DEF PayLocks, PayAlone, PayRefused
    <3> QED BY <3>1 DEF NoPayment
  <2>2. pay[p] \in Payment
    BY <2>1, PaymentFacts
  <2>3. \E pc \in {"settling", "kept", "lost"} : pay' = [pay EXCEPT ![p].pc = pc]
    BY <1>3 DEF PayLocks, PayAlone, PayRefused, AfterRollback
  <2>4. \A pc \in {"settling", "kept", "lost"} : [pay[p] EXCEPT !.pc = pc] \in Payment
    BY <2>2 DEF Payment
  <2>5. pay' \in [Procs -> {NoPayment} \cup Payment]
    BY <2>3, <2>4 DEF Types
  <2> QED BY <1>3, <2>5 DEF PayLocks, PayAlone, PayRefused, Types
<1>4. ASSUME NEW p \in Procs, PaySettles(p) \/ PayPosts(p) \/ PayFails(p)
      PROVE  Types'
  <2>1. pay[p] # NoPayment
    BY <1>4 DEF PaySettles, PayPosts, PayFails, NoPayment
  <2>2. Written(pay[p]) \in [status : InvoiceStatuses, total : Nat, paid : Nat]
        /\ pay[p].amt \in Nat
    BY <2>1, WrittenFacts, PaymentFacts
  <2>3. pay' \in [Procs -> {NoPayment} \cup Payment]
    BY <1>4 DEF PaySettles, PayPosts, PayFails, Done, Types
  <2>4. CASE PaySettles(p)
    BY <2>2, <2>3, <2>4 DEF PaySettles, Write, Post, Types
  <2>5. CASE PayPosts(p)
    <3>1. posted' \in Nat
      BY <2>2, <2>5 DEF PayPosts, Post, Types
    <3>2. /\ facture' \in [status : InvoiceStatuses, total : Nat, paid : Nat]
          /\ overwritten' \in BOOLEAN
      <4>1. CASE pay[p].pc = "kept"
        BY <2>2, <2>5, <4>1 DEF PayPosts, Write, Types
      <4>2. CASE pay[p].pc # "kept"
        BY <2>5, <4>2 DEF PayPosts, Types
      <4> QED BY <4>1, <4>2
    <3> QED BY <2>3, <3>1, <3>2 DEF Types
  <2>6. CASE PayFails(p)
    BY <2>3, <2>6 DEF PayFails, Types
  <2> QED BY <1>4, <2>4, <2>5, <2>6
<1>5. ASSUME NEW p \in Procs, Elsewhere(p)
      PROVE  Types'
  BY <1>5 DEF Elsewhere, Types
<1> QED BY <1>1, <1>2, <1>3, <1>4, <1>5 DEF InvoiceNext

\* A request in FinanceCore changes only in the steps of the process that made it.
OnlyReq(p) == \A q \in Procs \ {p} : req'[q] = req[q] /\ pay'[q] = pay[q]

Holding == Loaded /\ Strangers

LEMMA HoldingKept == ASSUME InvoiceInv, InvoiceNext PROVE Holding'
<1> Types /\ Holding /\ TypeOK /\ Types'
  BY TypesKept DEF InvoiceInv, Shape, Holding, IInv
<1>0. ASSUME NEW p \in Procs, OnlyReq(p),
             pay'[p] # NoPayment => KeyOf(pay'[p]) \in PaymentKeys,
             pay'[p] # NoPayment /\ pay'[p].pc = "settling" => Locked(p)',
             pay'[p] # NoPayment /\ pay'[p].pc # "settling" => req'[p] = Idle,
             pay'[p] = NoPayment /\ req'[p].op \in {"settle", "reverse"}
               => req'[p].key \in OtherKeys
      PROVE  Holding'
  <2>1. Loaded'
    BY <1>0 DEF OnlyReq, Loaded, Holding, Locked, KeyOf
  <2>2. Strangers'
    BY <1>0 DEF OnlyReq, Strangers, Holding
  <2> QED BY <2>1, <2>2 DEF Holding
<1>1. ASSUME NEW t \in Totals, CreateFacture(t) \/ UpdateFacture(t)
      PROVE  Holding'
  <2>1. pay' = pay /\ req' = req
    BY <1>1 DEF CreateFacture, UpdateFacture, CreateObligation, vars
  <2> QED BY <2>1 DEF Holding, Loaded, Strangers, Locked, KeyOf
<1>2. ASSUME NEW p \in Procs, NEW amt \in Amounts, PayRead(p, amt)
      PROVE  Holding'
  <2>1. OnlyReq(p) /\ req'[p] = Idle
    BY <1>2 DEF PayRead, OnlyReq, vars, Types
  <2>2. pay'[p].paid = facture.paid /\ pay'[p].amt = amt /\ pay'[p].pc = "loaded"
        /\ pay'[p] # NoPayment
    BY <1>2 DEF PayRead, Types, NoPayment
  <2>3. facture.total \in Totals /\ facture.paid \in Nat /\ amt \in Nat /\ amt > 0
        /\ facture.total \in Nat /\ facture.paid + amt <= facture.total
    BY <1>2 DEF PayRead, Payable, InvoiceInv, Shape, TotalEntered, Types
  <2>4. KeyOf(pay'[p]) \in PaymentKeys
    BY <2>2, <2>3 DEF KeyOf, PaymentKeys
  <2> QED BY <1>0, <2>1, <2>2, <2>4 DEF Idle
<1>3. ASSUME NEW p \in Procs, PayLocks(p)
      PROVE  Holding'
  <2>1. pay[p] # NoPayment
    BY <1>3 DEF PayLocks, NoPayment
  <2>2. OnlyReq(p)
    BY <1>3 DEF PayLocks, SettleRead, OnlyReq, Types, TypeOK
  <2>3. KeyOf(pay'[p]) = KeyOf(pay[p]) /\ pay'[p].pc = "settling" /\ pay'[p].amt = pay[p].amt
        /\ pay'[p] # NoPayment
    <3>1. pay'[p] = [pay[p] EXCEPT !.pc = "settling"]
      BY <1>3 DEF PayLocks, Types
    <3> QED BY <2>1, <3>1, PaymentFacts DEF KeyOf, Payment, NoPayment
  <2>4. req'[p].op = "settle" /\ req'[p].key = KeyOf(pay[p]) /\ req'[p].obl = Invoice
        /\ req'[p].amt = pay[p].amt
    BY <1>3 DEF PayLocks, SettleRead, TypeOK
  <2>5. KeyOf(pay[p]) \in PaymentKeys
    BY <2>1 DEF Holding, Loaded
  <2>6. Locked(p)'
    BY <2>3, <2>4 DEF Locked
  <2> QED BY <1>0, <2>2, <2>3, <2>5, <2>6
<1>4. ASSUME NEW p \in Procs, PayAlone(p) \/ PayRefused(p)
      PROVE  Holding'
  <2>1. pay[p] # NoPayment
    BY <1>4 DEF PayAlone, PayRefused, NoPayment
  <2>2. OnlyReq(p)
    BY <1>4 DEF PayAlone, PayRefused, Rollback, OnlyReq, vars, Types, TypeOK
  <2>3. req'[p] = Idle
    <3>1. CASE PayAlone(p)
      BY <2>1, <3>1 DEF PayAlone, vars, Holding, Loaded
    <3>2. CASE PayRefused(p)
      BY <3>2 DEF PayRefused, Rollback, TypeOK
    <3> QED BY <1>4, <3>1, <3>2
  <2>4. KeyOf(pay'[p]) = KeyOf(pay[p]) /\ pay'[p].pc # "settling" /\ pay'[p] # NoPayment
    <3>1. pay'[p] = [pay[p] EXCEPT !.pc = "kept"] \/ pay'[p] = [pay[p] EXCEPT !.pc = "lost"]
      BY <1>4 DEF PayAlone, PayRefused, AfterRollback, Types
    <3> QED BY <2>1, <3>1, PaymentFacts DEF KeyOf, Payment, NoPayment
  <2>5. KeyOf(pay[p]) \in PaymentKeys
    BY <2>1 DEF Holding, Loaded
  <2> QED BY <1>0, <2>2, <2>3, <2>4, <2>5
<1>5. ASSUME NEW p \in Procs, PaySettles(p) \/ PayPosts(p) \/ PayFails(p)
      PROVE  Holding'
  <2>1. pay[p] # NoPayment
    BY <1>5 DEF PaySettles, PayPosts, PayFails, NoPayment
  <2>2. pay'[p] = NoPayment
    BY <1>5 DEF PaySettles, PayPosts, PayFails, Done, Types
  <2>3. OnlyReq(p)
    BY <1>5 DEF PaySettles, SettleCommit, PayPosts, PayFails, Rollback, Done, OnlyReq, vars, Types, TypeOK
  <2>4. req'[p] = Idle
    <3>1. CASE PaySettles(p)
      BY <3>1 DEF PaySettles, SettleCommit, TypeOK
    <3>2. CASE PayPosts(p)
      BY <2>1, <3>2 DEF PayPosts, vars, Holding, Loaded
    <3>3. CASE PayFails(p)
      BY <3>3 DEF PayFails, Rollback, vars, TypeOK
    <3> QED BY <1>5, <3>1, <3>2, <3>3
  <2> QED BY <1>0, <2>2, <2>3, <2>4 DEF Idle
<1>6. ASSUME NEW p \in Procs, Elsewhere(p)
      PROVE  Holding'
  <2>1. pay[p] = NoPayment /\ pay' = pay
    BY <1>6 DEF Elsewhere
  <2>2. CASE \E k \in OtherKeys, amt \in Amounts : SettleRead(p, k, Invoice, amt, None, FALSE)
    <3>1. OnlyReq(p) /\ req'[p].key \in OtherKeys
      BY <2>1, <2>2 DEF SettleRead, OnlyReq, TypeOK
    <3> QED BY <1>0, <2>1, <3>1
  <2>3. CASE \E k \in OtherKeys, orig \in StlKeys : ReverseRead(p, k, orig)
    <3>1. OnlyReq(p) /\ req'[p].key \in OtherKeys
      BY <2>1, <2>3 DEF ReverseRead, OnlyReq, TypeOK
    <3> QED BY <1>0, <2>1, <3>1
  <2>4. CASE CancelRead(p, Invoice)
    <3>1. OnlyReq(p) /\ req'[p].op = "cancel"
      BY <2>1, <2>4 DEF CancelRead, OnlyReq, TypeOK
    <3> QED BY <1>0, <2>1, <3>1
  <2>5. CASE SettleCommit(p) \/ ReverseCommit(p) \/ CancelCommit(p) \/ Rollback(p)
    <3>1. OnlyReq(p) /\ req'[p] = Idle
      BY <2>1, <2>5 DEF SettleCommit, ReverseCommit, CancelCommit, Rollback, OnlyReq, TypeOK
    <3> QED BY <1>0, <2>1, <3>1 DEF Idle
  <2> QED BY <1>6, <2>2, <2>3, <2>4, <2>5 DEF Elsewhere
<1> QED BY <1>1, <1>2, <1>3, <1>4, <1>5, <1>6 DEF InvoiceNext
--------------------------------------------------------------------------------
(* The invoice and its debt.                                               *)

LEMMA BirthKept == ASSUME InvoiceInv, InvoiceNext PROVE Unborn' /\ TotalEntered'
<1> Types /\ Unborn /\ TotalEntered /\ IInv
  BY DEF InvoiceInv, Shape
<1>1. ASSUME NEW t \in Totals, CreateFacture(t) \/ UpdateFacture(t)
      PROVE  Unborn' /\ TotalEntered'
  <2>1. facture'.status # "absent" /\ facture'.total = t
    BY <1>1 DEF CreateFacture, UpdateFacture, Types
  <2> QED BY <2>1 DEF Unborn, TotalEntered
<1>2. ASSUME NEW p \in Procs, NEW amt \in Amounts, PayRead(p, amt)
      PROVE  Unborn' /\ TotalEntered'
  BY <1>2 DEF PayRead, Unborn, TotalEntered
<1>3. ASSUME NEW p \in Procs, pay[p] # NoPayment,
             facture' = facture \/ facture' = Written(pay[p])
      PROVE  Unborn' /\ TotalEntered'
  <2>1. facture.status # "absent"
    BY <1>3 DEF Unborn
  <2>2. facture'.status # "absent" /\ facture'.total = facture.total
    BY <1>3, <2>1, WrittenFacts
  <2> QED BY <2>1, <2>2 DEF Unborn, TotalEntered
<1>4. ASSUME NEW p \in Procs, PayLocks(p) \/ PayAlone(p) \/ PayRefused(p)
      PROVE  Unborn' /\ TotalEntered'
  <2>1. pay[p].pc \in {"loaded", "settling"}
    BY <1>4 DEF PayLocks, PayAlone, PayRefused
  <2>2. facture' = facture
    BY <1>4 DEF PayLocks, PayAlone, PayRefused
  <2> QED BY <1>3, <2>1, <2>2 DEF NoPayment
<1>5. ASSUME NEW p \in Procs, PaySettles(p) \/ PayPosts(p) \/ PayFails(p)
      PROVE  Unborn' /\ TotalEntered'
  <2>1. pay[p] # NoPayment
    BY <1>5 DEF PaySettles, PayPosts, PayFails, NoPayment
  <2>2. facture' = facture \/ facture' = Written(pay[p])
    BY <1>5 DEF PaySettles, PayPosts, PayFails, Write
  <2> QED BY <1>3, <2>1, <2>2
<1>6. ASSUME NEW p \in Procs, Elsewhere(p)
      PROVE  Unborn' /\ TotalEntered'
  <2>1. facture' = facture /\ pay' = pay
    BY <1>6 DEF Elsewhere
  <2>2. Exists(Invoice)' => Exists(Invoice)
    <3>1. CASE obl' = obl
      BY <3>1 DEF Exists
    <3>2. CASE SettleCommit(p)
      <4>1. req[p] \in SettleRequest /\ Exists(req[p].obl)
        BY <3>2, SettleFacts DEF SettleCommit, IInv, LoadedRows, LoadedOK
      <4> QED BY <3>2, <4>1 DEF SettleCommit, Exists, IInv, TypeOK
    <3>3. CASE ReverseCommit(p)
      <4>1. Exists(stl[req[p].orig].obl)
        BY <3>3, ReverseFacts
      <4> QED BY <3>3, <4>1 DEF ReverseCommit, Exists, IInv, TypeOK
    <3>4. CASE CancelCommit(p)
      <4>1. Exists(req[p].obl)
        BY <3>4 DEF CancelCommit, IInv, LoadedRows, LoadedOK
      <4> QED BY <3>4, <4>1 DEF CancelCommit, Exists, IInv, TypeOK
    <3>5. CASE ~(SettleCommit(p) \/ ReverseCommit(p) \/ CancelCommit(p))
      BY <1>6, <3>1, <3>5 DEF Elsewhere, SettleRead, ReverseRead, CancelRead, Rollback
    <3> QED BY <3>2, <3>3, <3>4, <3>5
  <2> QED BY <2>1, <2>2 DEF Unborn, TotalEntered
<1> QED BY <1>1, <1>2, <1>4, <1>5, <1>6 DEF InvoiceNext

\* Only the creation of the invoice opens its debt.
LEMMA BornTogether ==
  ASSUME InvoiceInv, InvoiceNext, Exists(Invoice)', ~Exists(Invoice)
  PROVE  \E t \in Totals : CreateFacture(t) /\ CreateObligation(Invoice, t)
<1> IInv /\ Types /\ Loaded
  BY DEF InvoiceInv, Shape
<1>1. ASSUME obl' = obl PROVE FALSE
  BY <1>1 DEF Exists
<1>2. ASSUME NEW p \in Procs, SettleCommit(p) PROVE FALSE
  <2>1. Exists(req[p].obl)
    BY <1>2 DEF SettleCommit, IInv, LoadedRows, LoadedOK
  <2> QED BY <1>2, <2>1 DEF SettleCommit, Exists, IInv, TypeOK
<1>3. ASSUME NEW p \in Procs, ReverseCommit(p) PROVE FALSE
  <2>1. Exists(stl[req[p].orig].obl)
    BY <1>3, ReverseFacts
  <2> QED BY <1>3, <2>1 DEF ReverseCommit, Exists, IInv, TypeOK
<1>4. ASSUME NEW p \in Procs, CancelCommit(p) PROVE FALSE
  <2>1. Exists(req[p].obl)
    BY <1>4 DEF CancelCommit, IInv, LoadedRows, LoadedOK
  <2> QED BY <1>4, <2>1 DEF CancelCommit, Exists, IInv, TypeOK
<1>5. ASSUME NEW p \in Procs, NEW amt \in Amounts, PayRead(p, amt) PROVE FALSE
  BY <1>1, <1>5 DEF PayRead, vars
<1>6. ASSUME NEW p \in Procs,
             PayLocks(p) \/ PayAlone(p) \/ PayRefused(p) \/ PayPosts(p) \/ PayFails(p)
      PROVE  FALSE
  BY <1>1, <1>6 DEF PayLocks, SettleRead, PayAlone, PayRefused, PayPosts, PayFails, Rollback, vars
<1>7. ASSUME NEW p \in Procs, PaySettles(p) PROVE FALSE
  BY <1>2, <1>7 DEF PaySettles
<1>8. ASSUME NEW p \in Procs, Elsewhere(p) PROVE FALSE
  BY <1>1, <1>2, <1>3, <1>4, <1>8 DEF Elsewhere, SettleRead, ReverseRead, CancelRead, Rollback
<1>9. ASSUME NEW t \in Totals, UpdateFacture(t) PROVE FALSE
  BY <1>1, <1>9 DEF UpdateFacture, vars
<1>10. ASSUME NEW t \in Totals, CreateFacture(t) PROVE CreateObligation(Invoice, t)
  BY <1>1, <1>10 DEF CreateFacture, vars
<1> QED BY <1>5, <1>6, <1>7, <1>8, <1>9, <1>10 DEF InvoiceNext
--------------------------------------------------------------------------------
(* The keys of payments and what the debt has settled.                     *)

\* A key of a payment is taken by the payment that came to that amount.
LEMMA KeysTaken ==
  ASSUME InvoiceInv, InvoiceNext, NEW k \in PaymentKeys, stl'[k] # stl[k]
  PROVE  \E p \in Procs : PaySettles(p) /\ k = KeyOf(pay[p])
<1> Types /\ Holding /\ TypeOK /\ k \in StlKeys
  BY PaymentKeysFacts DEF InvoiceInv, Shape, Holding, IInv
<1>1. ASSUME NEW t \in Totals, CreateFacture(t) \/ UpdateFacture(t) PROVE FALSE
  BY <1>1 DEF CreateFacture, UpdateFacture, CreateObligation, vars
<1>2. ASSUME NEW p \in Procs, NEW amt \in Amounts, PayRead(p, amt) PROVE FALSE
  BY <1>2 DEF PayRead, vars
<1>3. ASSUME NEW p \in Procs,
             PayLocks(p) \/ PayAlone(p) \/ PayRefused(p) \/ PayPosts(p) \/ PayFails(p)
      PROVE  FALSE
  BY <1>3 DEF PayLocks, SettleRead, PayAlone, PayRefused, PayPosts, PayFails, Rollback, vars
<1>4. ASSUME NEW p \in Procs, PaySettles(p) PROVE k = KeyOf(pay[p])
  <2>1. pay[p] # NoPayment /\ pay[p].pc = "settling"
    BY <1>4 DEF PaySettles, NoPayment
  <2>2. req[p].key = KeyOf(pay[p])
    BY <2>1 DEF Holding, Loaded, Locked
  <2> QED BY <1>4, <2>2 DEF PaySettles, SettleCommit, TypeOK
<1>5. ASSUME NEW p \in Procs, Elsewhere(p) PROVE FALSE
  <2>1. pay[p] = NoPayment
    BY <1>5 DEF Elsewhere
  <2>2. SettleCommit(p) \/ ReverseCommit(p)
    BY <1>5 DEF Elsewhere, SettleRead, ReverseRead, CancelRead, CancelCommit, Rollback
  <2>3. req[p].key \in OtherKeys
    BY <2>1, <2>2 DEF Holding, Strangers, SettleCommit, ReverseCommit
  <2>4. k # req[p].key
    BY <2>3 DEF OtherKeys
  <2> QED BY <2>2, <2>4 DEF SettleCommit, ReverseCommit, TypeOK
<1> QED BY <1>1, <1>2, <1>3, <1>4, <1>5 DEF InvoiceNext

\* What a payment that settles adds.
LEMMA SettlesFacts ==
  ASSUME InvoiceInv, NEW p \in Procs, PaySettles(p)
  PROVE  /\ pay[p] # NoPayment
         /\ S \in Nat /\ S' = S + pay[p].amt
         /\ stl'[KeyOf(pay[p])].kind = "normal" /\ stl'[KeyOf(pay[p])].obl = Invoice
         /\ facture'.paid = KeyOf(pay[p])
<1> IInv /\ Types /\ TypeOK /\ Loaded
  BY DEF InvoiceInv, Shape, IInv
<1>1. pay[p] # NoPayment /\ pay[p].pc = "settling"
  BY DEF PaySettles, NoPayment
<1>2. Locked(p) /\ KeyOf(pay[p]) \in StlKeys
  BY <1>1, PaymentKeysFacts DEF Loaded
<1>3. S \in Nat
  BY DEF S, TypeOK
<1>4. S' = S + pay[p].amt
  BY <1>2 DEF Locked, PaySettles, SettleCommit, SettledRow, S, TypeOK
<1>5. stl'[KeyOf(pay[p])].kind = "normal" /\ stl'[KeyOf(pay[p])].obl = Invoice
  BY <1>2 DEF Locked, PaySettles, SettleCommit, TypeOK
<1>6. facture'.paid = KeyOf(pay[p])
  BY <1>1, WrittenFacts DEF PaySettles, Write
<1> QED BY <1>1, <1>3, <1>4, <1>5, <1>6

LEMMA KeysOfPaymentsKept == ASSUME InvoiceInv, InvoiceNext PROVE KeysOfPayments'
<1> SUFFICES ASSUME NEW k \in PaymentKeys, stl'[k].kind # "absent"
             PROVE  /\ stl'[k].kind = "normal" /\ stl'[k].obl = Invoice
                    /\ Standing' => k <= S'
  BY DEF KeysOfPayments
<1> k \in Nat /\ k \in StlKeys
  BY PaymentKeysFacts
<1> S \in Nat /\ S' \in Nat
  BY CoreKept DEF InvoiceInv, IInv, TypeOK, S
<1>1. CASE stl'[k] = stl[k]
  <2>1. stl[k].kind = "normal" /\ stl[k].obl = Invoice /\ (Standing => k <= S)
    BY <1>1 DEF InvoiceInv, KeysOfPayments
  <2>2. Exists(Invoice)
    BY <2>1 DEF InvoiceInv, IInv, LoadedRows
  <2>3. Standing' => Standing /\ S <= S'
    BY <2>2, StepIsCore, SettledGrows DEF InvoiceInv
  <2> QED BY <1>1, <2>1, <2>3
<1>2. CASE stl'[k] # stl[k]
  <2>1. PICK p \in Procs : PaySettles(p) /\ k = KeyOf(pay[p])
    BY <1>2, KeysTaken
  <2>2. /\ pay[p] # NoPayment /\ S' = S + pay[p].amt
        /\ stl'[k].kind = "normal" /\ stl'[k].obl = Invoice
    BY <2>1, SettlesFacts
  <2>3. k = pay[p].paid + pay[p].amt /\ pay[p].paid \in Nat /\ pay[p].amt \in Nat
    BY <2>1, <2>2, PaymentFacts DEF InvoiceInv, Shape
  <2>4. Exists(Invoice)
    <3>1. Locked(p)
      BY <2>1, <2>2 DEF PaySettles, InvoiceInv, Shape, Loaded
    <3> QED BY <3>1 DEF Locked, InvoiceInv, IInv, LoadedRows, LoadedOK
  <2>5. Standing' => Standing
    BY <2>4, StepIsCore, SettledGrows DEF InvoiceInv
  <2>6. Standing => pay[p].paid <= S
    BY <2>2 DEF InvoiceInv, Backed
  <2> QED BY <2>2, <2>3, <2>5, <2>6
<1> QED BY <1>1, <1>2

\* A payment that finds nothing to settle while the debt stands comes to an amount
\* already settled.
LEMMA AloneIsBacked ==
  ASSUME InvoiceInv, Standing, NEW p \in Procs, PayAlone(p)
  PROVE  KeyOf(pay[p]) <= S
<1>1. pay[p] # NoPayment
  BY DEF PayAlone, NoPayment
<1>2. KeyOf(pay[p]) \in PaymentKeys
  BY <1>1 DEF InvoiceInv, Shape, Loaded
<1>3. ~KeyFree(KeyOf(pay[p]))
  BY DEF PayAlone, NothingToSettle, Standing, InvoiceInv, CancelledLogged
<1>4. KeyOf(pay[p]) \in StlKeys /\ KeyOf(pay[p]) \in Nat
  BY <1>2, PaymentKeysFacts
<1>5. stl[KeyOf(pay[p])].kind # "absent"
  BY <1>3, <1>4 DEF KeyFree, InvoiceInv, IInv, TypeOK, Normal, Reversal
<1> QED BY <1>2, <1>5 DEF InvoiceInv, KeysOfPayments

LEMMA BackedKept == ASSUME InvoiceInv, InvoiceNext PROVE Backed'
<1> SUFFICES ASSUME Standing' PROVE Backed'
  BY DEF Backed
<1> Types /\ Types' /\ Loaded /\ Unborn /\ IInv /\ IInv'
  BY TypesKept, CoreKept DEF InvoiceInv, Shape
<1> S \in Nat /\ S' \in Nat
  BY DEF IInv, TypeOK, S
<1>1. CASE ~Exists(Invoice)
  <2>1. PICK t \in Totals : CreateFacture(t) /\ CreateObligation(Invoice, t)
    BY <1>1, BornTogether DEF Standing
  <2>2. facture'.paid = 0 /\ pay' = pay /\ facture.status = "absent"
    BY <2>1 DEF CreateFacture
  <2>3. \A p \in Procs : pay'[p] = NoPayment
    BY <2>2 DEF Unborn
  <2> QED BY <2>2, <2>3 DEF Backed
<1>2. CASE Exists(Invoice)
  <2>1. Standing /\ S <= S'
    BY <1>2, StepIsCore, SettledGrows DEF InvoiceInv
  <2>2. facture.paid \in Nat /\ facture.paid <= S
        /\ \A p \in Procs : pay[p] # NoPayment =>
             pay[p].paid <= S /\ (pay[p].pc = "kept" => KeyOf(pay[p]) <= S)
    BY <2>1 DEF InvoiceInv, Backed, Types
  <2>0. ASSUME NEW p \in Procs, \A q \in Procs \ {p} : pay'[q] = pay[q],
               facture'.paid <= S',
               pay'[p] # NoPayment =>
                 pay'[p].paid <= S' /\ (pay'[p].pc = "kept" => KeyOf(pay'[p]) <= S')
        PROVE  Backed'
    <3>1. ASSUME NEW q \in Procs, q # p, pay'[q] # NoPayment
          PROVE  pay'[q].paid <= S' /\ (pay'[q].pc = "kept" => KeyOf(pay'[q]) <= S')
      <4>1. pay'[q] = pay[q] /\ pay[q] # NoPayment
        BY <2>0, <3>1
      <4>2. pay[q].paid \in Nat /\ KeyOf(pay[q]) \in Nat
        BY <4>1, PaymentFacts
      <4>3. KeyOf(pay'[q]) = KeyOf(pay[q])
        BY <4>1 DEF KeyOf
      <4> QED BY <2>1, <2>2, <4>1, <4>2, <4>3
    <3>2. \A q \in Procs : pay'[q] # NoPayment =>
            pay'[q].paid <= S' /\ (pay'[q].pc = "kept" => KeyOf(pay'[q]) <= S')
      BY <2>0, <3>1
    <3> QED BY <2>0, <3>2 DEF Backed, KeyOf
  <2>3. ASSUME NEW t \in Totals, CreateFacture(t) PROVE Backed'
    BY <1>2, <2>3 DEF CreateFacture, Unborn
  <2>4. ASSUME NEW t \in Totals, UpdateFacture(t) PROVE Backed'
    <3>1. facture'.paid = facture.paid /\ pay' = pay /\ S' = S
      BY <2>4 DEF UpdateFacture, Types, vars, S
    <3> QED BY <2>2, <3>1 DEF Backed, KeyOf
  <2>5. ASSUME NEW p \in Procs, NEW amt \in Amounts, PayRead(p, amt) PROVE Backed'
    <3>1. facture' = facture /\ pay'[p].paid = facture.paid /\ pay'[p].pc = "loaded"
          /\ \A q \in Procs \ {p} : pay'[q] = pay[q]
      BY <2>5 DEF PayRead, Types
    <3> QED BY <2>0, <2>1, <2>2, <3>1
  <2>6. ASSUME NEW p \in Procs, PayLocks(p) \/ PayAlone(p) \/ PayRefused(p) PROVE Backed'
    <3>1. pay[p] # NoPayment
      <4>1. pay[p].pc \in {"loaded", "settling"}
        BY <2>6 DEF PayLocks, PayAlone, PayRefused
      <4> QED BY <4>1 DEF NoPayment
    <3>2. pay[p] \in Payment /\ pay[p].paid \in Nat /\ KeyOf(pay[p]) \in Nat
      BY <3>1, PaymentFacts
    <3>3. facture' = facture /\ \A q \in Procs \ {p} : pay'[q] = pay[q]
      BY <2>6 DEF PayLocks, PayAlone, PayRefused, Types
    <3>4. /\ pay'[p].paid = pay[p].paid /\ pay'[p].amt = pay[p].amt
          /\ pay'[p].pc = "kept" => PayAlone(p)
      <4>1. CASE PayLocks(p)
        BY <3>2, <4>1 DEF PayLocks, Types, Payment
      <4>2. CASE PayAlone(p)
        BY <3>2, <4>2 DEF PayAlone, Types, Payment
      <4>3. CASE PayRefused(p)
        BY <3>2, <4>3 DEF PayRefused, AfterRollback, Types, Payment
      <4> QED BY <2>6, <4>1, <4>2, <4>3
    <3>5. KeyOf(pay'[p]) = KeyOf(pay[p])
      BY <3>4 DEF KeyOf
    <3>6. pay'[p].pc = "kept" => KeyOf(pay[p]) <= S
      BY <2>1, <3>4, AloneIsBacked
    <3> QED BY <2>0, <2>1, <2>2, <3>1, <3>2, <3>3, <3>4, <3>5, <3>6
  <2>7. ASSUME NEW p \in Procs, pay[p] # NoPayment, Done(p), facture'.paid <= S'
        PROVE  Backed'
    <3>1. pay'[p] = NoPayment /\ \A q \in Procs \ {p} : pay'[q] = pay[q]
      BY <2>7 DEF Done, Types
    <3> QED BY <2>0, <2>7, <3>1
  <2>8. ASSUME NEW p \in Procs, PaySettles(p) PROVE Backed'
    <3>1. pay[p] # NoPayment /\ S' = S + pay[p].amt /\ facture'.paid = KeyOf(pay[p])
      BY <2>8, SettlesFacts
    <3>2. KeyOf(pay[p]) = pay[p].paid + pay[p].amt /\ pay[p].paid \in Nat /\ pay[p].amt \in Nat
      BY <3>1, PaymentFacts
    <3>3. facture'.paid <= S'
      BY <2>2, <3>1, <3>2
    <3> QED BY <2>7, <2>8, <3>1, <3>3 DEF PaySettles
  <2>9. ASSUME NEW p \in Procs, PayPosts(p) PROVE Backed'
    <3>1. pay[p] # NoPayment /\ Done(p) /\ S' = S
      BY <2>9 DEF PayPosts, NoPayment, vars, S
    <3>2. facture'.paid <= S'
      <4>1. CASE pay[p].pc = "kept"
        BY <2>2, <2>9, <3>1, <4>1, WrittenFacts DEF PayPosts, Write
      <4>2. CASE pay[p].pc # "kept"
        BY <2>2, <2>9, <3>1, <4>2 DEF PayPosts
      <4> QED BY <4>1, <4>2
    <3> QED BY <2>7, <3>1, <3>2
  <2>10. ASSUME NEW p \in Procs, PayFails(p) PROVE Backed'
    <3>1. pay[p] # NoPayment /\ Done(p) /\ facture' = facture
      BY <2>10 DEF PayFails
    <3>2. facture'.paid <= S'
      BY <2>1, <2>2, <3>1
    <3> QED BY <2>7, <3>1, <3>2
  <2>11. ASSUME NEW p \in Procs, Elsewhere(p) PROVE Backed'
    <3>1. facture' = facture /\ pay' = pay
      BY <2>11 DEF Elsewhere
    <3> QED BY <2>0, <2>1, <2>2, <2>11, <3>1, PaymentFacts
  <2> QED BY <2>3, <2>4, <2>5, <2>6, <2>8, <2>9, <2>10, <2>11 DEF InvoiceNext
<1> QED BY <1>1, <1>2
--------------------------------------------------------------------------------
(* The invoice and its debt to the cent.                                   *)

\* What a step of the rest of the application may do to the debt while it stands and
\* only payments settle it.
LEMMA ElsewhereLeavesDebt ==
  ASSUME InvoiceInv, NEW p \in Procs, Elsewhere(p), Standing', OnlyPayments'
  PROVE  S' = S /\ facture' = facture /\ overwritten' = overwritten
<1> IInv /\ Types /\ TypeOK /\ Strangers
  BY DEF InvoiceInv, Shape, IInv
<1>1. facture' = facture /\ overwritten' = overwritten /\ pay[p] = NoPayment
  BY DEF Elsewhere
<1>2. CASE SettleCommit(p)
  <2>1. req[p].key \in OtherKeys /\ req[p].key \in StlKeys
    BY <1>1, <1>2, SettleFacts DEF Strangers, SettleCommit, SettleRequest
  <2>2. stl'[req[p].key].kind = "normal"
    BY <1>2, <2>1 DEF SettleCommit, TypeOK
  <2> QED BY <2>1, <2>2 DEF OnlyPayments, Absent
<1>3. CASE ReverseCommit(p)
  <2>1. req[p].key \in StlKeys
    BY <1>3, ReverseFacts DEF ReverseRequest
  <2>2. stl'[req[p].key].kind = "reversal"
    BY <1>3, <2>1 DEF ReverseCommit, TypeOK
  <2> QED BY <2>1, <2>2 DEF Standing
<1>4. CASE CancelCommit(p)
  BY <1>1, <1>4 DEF CancelCommit, S, TypeOK
<1>5. ASSUME obl' = obl PROVE S' = S
  BY <1>5 DEF S
<1>6. CASE \E k \in OtherKeys, amt \in Amounts : SettleRead(p, k, Invoice, amt, None, FALSE)
  BY <1>1, <1>5, <1>6 DEF SettleRead
<1>7. CASE \E k \in OtherKeys, orig \in StlKeys : ReverseRead(p, k, orig)
  BY <1>1, <1>5, <1>7 DEF ReverseRead
<1>8. CASE CancelRead(p, Invoice) \/ Rollback(p)
  BY <1>1, <1>5, <1>8 DEF CancelRead, Rollback
<1> QED BY <1>2, <1>3, <1>4, <1>6, <1>7, <1>8 DEF Elsewhere

LEMMA MirrorsKept ==
  ASSUME InvoiceInv, MirrorsUnlessOverwritten, InvoiceNext
  PROVE  MirrorsUnlessOverwritten'
<1> SUFFICES ASSUME Standing', OnlyPayments', ~overwritten' PROVE facture'.paid = S'
  BY DEF MirrorsUnlessOverwritten, S
<1> IInv /\ IInv' /\ Types /\ Loaded /\ Unborn
  BY CoreKept DEF InvoiceInv, Shape
<1> S \in Nat /\ S' \in Nat
  BY DEF IInv, TypeOK, S
<1>1. CASE ~Exists(Invoice)
  <2>1. PICK t \in Totals : CreateFacture(t) /\ CreateObligation(Invoice, t)
    BY <1>1, BornTogether DEF Standing
  <2>2. facture'.paid = 0
    BY <2>1 DEF CreateFacture
  <2>3. S' = 0
    BY <2>1 DEF CreateObligation, S, IInv, TypeOK
  <2> QED BY <2>2, <2>3
<1>2. CASE Exists(Invoice)
  <2>1. Standing
    BY <1>2, StepIsCore, SettledGrows DEF InvoiceInv
  <2>2. OnlyPayments
    <3>1. \A k \in StlKeys : stl[k] # Absent => stl'[k] = stl[k]
      <4>1. CASE UNCHANGED vars
        BY <4>1 DEF vars
      <4>2. CASE Next
        BY <4>2, RowsAreKept DEF RowsKept
      <4> QED BY <4>1, <4>2, StepIsCore
    <3> QED BY <3>1 DEF OnlyPayments, OtherKeys
  <2>3. ~overwritten => facture.paid = S
    BY <2>1, <2>2 DEF MirrorsUnlessOverwritten, S
  <2>4. ASSUME overwritten' = overwritten, facture'.paid = facture.paid, S' = S
        PROVE  facture'.paid = S'
    BY <2>3, <2>4
  <2>5. ASSUME NEW t \in Totals, CreateFacture(t) PROVE FALSE
    BY <1>2, <2>5 DEF CreateFacture, Unborn
  <2>6. ASSUME NEW t \in Totals, UpdateFacture(t) PROVE facture'.paid = S'
    <3>1. facture'.paid = facture.paid /\ overwritten' = overwritten /\ S' = S
      BY <2>6 DEF UpdateFacture, Types, vars, S
    <3> QED BY <2>4, <3>1
  <2>7. ASSUME NEW p \in Procs, NEW amt \in Amounts, PayRead(p, amt) PROVE facture'.paid = S'
    BY <2>4, <2>7 DEF PayRead, vars, S
  <2>8. ASSUME NEW p \in Procs, PayLocks(p) \/ PayAlone(p) \/ PayRefused(p) \/ PayFails(p)
        PROVE  facture'.paid = S'
    <3>1. obl' = obl
      BY <2>8 DEF PayLocks, SettleRead, PayAlone, PayRefused, PayFails, Rollback, vars
    <3>2. facture' = facture /\ overwritten' = overwritten
      BY <2>8 DEF PayLocks, PayAlone, PayRefused, PayFails
    <3> QED BY <2>4, <3>1, <3>2 DEF S
  <2>9. ASSUME NEW p \in Procs, PaySettles(p) PROVE facture'.paid = S'
    <3>1. pay[p] # NoPayment /\ S' = S + pay[p].amt /\ facture'.paid = KeyOf(pay[p])
      BY <2>9, SettlesFacts
    <3>2. KeyOf(pay[p]) = pay[p].paid + pay[p].amt
      BY <3>1, PaymentFacts
    <3>3. facture.paid = pay[p].paid /\ ~overwritten
      BY <2>9 DEF PaySettles, Write
    <3> QED BY <2>3, <3>1, <3>2, <3>3
  \* A payment that wrote without settling came to an amount the debt had settled: it was
  \* computed from an older invoice.
  <2>10. ASSUME NEW p \in Procs, PayPosts(p) PROVE facture'.paid = S'
    <3>1. pay[p] # NoPayment /\ S' = S
      BY <2>10 DEF PayPosts, NoPayment, vars, S
    <3>2. CASE pay[p].pc = "kept"
      <4>1. KeyOf(pay[p]) <= S
        BY <2>1, <3>1, <3>2 DEF InvoiceInv, Backed
      <4>2. facture.paid = pay[p].paid /\ ~overwritten
        BY <2>10, <3>2 DEF PayPosts, Write
      <4>3. KeyOf(pay[p]) = pay[p].paid + pay[p].amt /\ pay[p].paid \in Nat /\ pay[p].amt \in Amounts
        BY <3>1, PaymentFacts
      <4>4. pay[p].amt \in Nat /\ pay[p].amt # 0
        BY <4>3
      <4>5. S = pay[p].paid
        BY <2>3, <4>2
      <4>6. pay[p].paid + pay[p].amt <= pay[p].paid
        BY <4>1, <4>3, <4>5
      <4> QED BY <4>3, <4>4, <4>6
    <3>3. CASE pay[p].pc # "kept"
      BY <2>4, <2>10, <3>1, <3>3 DEF PayPosts
    <3> QED BY <3>2, <3>3
  <2>11. ASSUME NEW p \in Procs, Elsewhere(p) PROVE facture'.paid = S'
    BY <2>4, <2>11, ElsewhereLeavesDebt
  <2> QED BY <2>5, <2>6, <2>7, <2>8, <2>9, <2>10, <2>11 DEF InvoiceNext
<1> QED BY <1>1, <1>2
--------------------------------------------------------------------------------
(* The theorems.                                                           *)

LEMMA InvoiceInvKept == InvoiceInv /\ [InvoiceNext]_invoiceVars => InvoiceInv'
<1> SUFFICES ASSUME InvoiceInv, [InvoiceNext]_invoiceVars PROVE InvoiceInv'
  OBVIOUS
<1>1. CASE InvoiceNext
  <2>1. Types' /\ Holding' /\ Unborn' /\ TotalEntered'
    BY <1>1, TypesKept, HoldingKept, BirthKept
  <2>2. CancelledLogged'
    BY <1>1, StepIsCore, CancelledLoggedKept DEF InvoiceInv
  <2>3. Shape'
    BY <2>1 DEF Shape, Holding
  <2> QED BY <1>1, <2>2, <2>3, CoreKept, KeysOfPaymentsKept, BackedKept DEF InvoiceInv
<1>2. CASE UNCHANGED invoiceVars
  <2>1. UNCHANGED vars /\ facture' = facture /\ posted' = posted /\ pay' = pay
        /\ overwritten' = overwritten
    BY <1>2 DEF invoiceVars
  <2>2. IInv'
    BY <2>1, IInvInductive DEF InvoiceInv
  <2>3. Shape'
    BY <2>1 DEF vars, InvoiceInv, Shape, Types, Loaded, Locked, Strangers, Unborn, TotalEntered,
                Exists, KeyOf
  <2>4. CancelledLogged' /\ KeysOfPayments' /\ Backed'
    BY <2>1 DEF vars, InvoiceInv, CancelledLogged, KeysOfPayments, Backed, Standing, Exists, S, KeyOf
  <2> QED BY <2>2, <2>3, <2>4 DEF InvoiceInv
<1> QED BY <1>1, <1>2

LEMMA InvoiceInvariance == InvoiceSpec => []InvoiceInv
BY InitInvoiceInv, InvoiceInvKept, PTL DEF InvoiceSpec

\* The tables, the invoice and what each payment has loaded keep their shape, and the
\* key of every payment is one a settlement may have.
THEOREM InvoiceTypeCorrect == InvoiceSpec => []InvoiceTypeOK
<1>1. InvoiceInv => InvoiceTypeOK
  <2> SUFFICES ASSUME InvoiceInv PROVE InvoiceTypeOK
    OBVIOUS
  <2>1. ASSUME NEW p \in Procs, pay[p] # NoPayment
        PROVE  /\ pay[p].paid + pay[p].amt \in StlKeys
               /\ pay[p].pc = "settling" <=> req[p] # Idle
    <3>1. KeyOf(pay[p]) \in StlKeys
      BY <2>1, PaymentKeysFacts DEF InvoiceInv, Shape, Loaded
    <3>2. pay[p].pc = "settling" <=> req[p] # Idle
      BY <2>1 DEF InvoiceInv, Shape, Loaded, Locked, Idle
    <3> QED BY <3>1, <3>2 DEF KeyOf
  <2> QED BY <2>1 DEF InvoiceTypeOK, InvoiceInv, IInv, Shape, Types
<1> QED BY <1>1, InvoiceInvariance, PTL

\* Concurrent payments, refused settlements, corrected totals and failures never leave
\* an invoice that shows more paid than its debt has settled.
THEOREM PaidIsBackedHolds == InvoiceSpec => []PaidIsBacked
<1>1. InvoiceInv => PaidIsBacked
  BY DEF InvoiceInv, Backed, PaidIsBacked, S
<1> QED BY <1>1, InvoiceInvariance, PTL

\* While nobody else settles, reverses or cancels the debt, and until a payment writes over
\* an amount it had not read, the invoice and its debt agree to the cent: refused payments,
\* failures and retries leave no gap.
THEOREM MirrorsHolds == InvoiceSpec => []MirrorsUnlessOverwritten
<1>1. InvoiceInit => MirrorsUnlessOverwritten
  BY DEF InvoiceInit, Init, MirrorsUnlessOverwritten, Standing, Exists
<1>2. InvoiceInv /\ MirrorsUnlessOverwritten /\ [InvoiceNext]_invoiceVars
        => MirrorsUnlessOverwritten'
  <2>1. ASSUME MirrorsUnlessOverwritten, UNCHANGED invoiceVars PROVE MirrorsUnlessOverwritten'
    BY <2>1 DEF MirrorsUnlessOverwritten, Standing, OnlyPayments, Exists, invoiceVars, vars
  <2> QED BY <2>1, MirrorsKept
<1> QED BY <1>1, <1>2, InvoiceInvariance, PTL DEF InvoiceSpec

\* payer_facture uses Finance Core as its own requests do: whatever a payment does to
\* the tables of FinanceCore, a behaviour of FinanceCore does.
THEOREM ImplementsFinanceCore == InvoiceSpec => Spec
<1>1. InvoiceInit => Init
  BY DEF InvoiceInit
<1>2. InvoiceInv /\ [InvoiceNext]_invoiceVars => [Next]_vars
  BY StepIsCore DEF invoiceVars
<1> QED BY <1>1, <1>2, InvoiceInvariance, PTL DEF InvoiceSpec, Spec

\* A payment made twice, or beside a settlement made elsewhere, never takes what the
\* debt of an invoice has settled beyond its total.
THEOREM InvoiceSettledWithinTotal == InvoiceSpec => []SettledWithinTotal
BY ImplementsFinanceCore, SettledWithinTotalHolds, PTL
--------------------------------------------------------------------------------
(* The books.  What an invoice shows and what the bridge skips are sums of payments, *)
(* and each of them was posted by the payment that adds it.                          *)

\* What the bridge skips of each settlement
Skipped == [k \in StlKeys |-> IF k \in preempted THEN stl[k].amt ELSE 0]

Posted ==
  /\ facture.paid <= posted
  /\ \A p \in Procs :
       /\ pay[p] # NoPayment => pay[p].paid <= posted
       /\ pay[p] = NoPayment /\ req[p].op = "settle" => req[p].skip = FALSE

Booked ==
  /\ Posted
  /\ IsFiniteSet(preempted)
  /\ \A k \in preempted : k \in StlKeys /\ stl[k] # Absent
  /\ \E g : IsSum(g, Skipped, StlKeys) /\ g[preempted] <= posted

LEMMA InitBooked == InvoiceInit => Booked
<1> SUFFICES ASSUME InvoiceInit PROVE Booked
  OBVIOUS
<1> DEFINE g == [T \in SUBSET StlKeys |-> 0]
<1>1. preempted = {} /\ \A k \in StlKeys : Skipped[k] = 0
  BY DEF InvoiceInit, Init, Skipped
<1>2. g \in [SUBSET StlKeys -> Nat] /\ g[{}] = 0
  OBVIOUS
<1>3. ASSUME NEW T \in SUBSET StlKeys, NEW k \in T PROVE g[T] = g[T \ {k}] + Skipped[k]
  <2>1. g[T] = 0 /\ g[T \ {k}] = 0 /\ Skipped[k] = 0
    BY <1>1
  <2> HIDE DEF g
  <2> QED BY <2>1
<1> HIDE DEF g
<1>4. IsSum(g, Skipped, StlKeys)
  BY <1>2, <1>3 DEF IsSum
<1>5. posted = 0 /\ facture.paid = 0 /\ \A p \in Procs : pay[p] = NoPayment /\ req[p].op # "settle"
  BY DEF InvoiceInit, Init, Idle
<1>6. Posted
  BY <1>5 DEF Posted
<1>7. g[preempted] <= posted
  BY <1>1, <1>2, <1>5
<1>8. IsFiniteSet(preempted)
  BY <1>1, FS_EmptySet
<1> QED BY <1>1, <1>4, <1>6, <1>7, <1>8 DEF Booked

LEMMA SkippedFacts ==
  ASSUME InvoiceInv, Booked
  PROVE  Skipped \in [StlKeys -> Nat] /\ preempted \in SUBSET StlKeys
<1>1. ASSUME NEW k \in preempted PROVE stl[k].amt \in Nat
  <2>1. k \in StlKeys /\ stl[k] # Absent
    BY DEF Booked
  <2>2. stl[k] \in Normal \cup Reversal
    BY <2>1 DEF InvoiceInv, IInv, TypeOK
  <2> QED BY <2>2 DEF Normal, Reversal
<1> QED BY <1>1 DEF Skipped, Booked

\* The settlements already skipped do not change.
LEMMA SkippedKept ==
  ASSUME InvoiceInv, Booked, InvoiceNext, preempted' = preempted
  PROVE  Skipped' = Skipped /\ \A k \in preempted : stl'[k] # Absent
<1>1. \A k \in StlKeys : stl[k] # Absent => stl'[k] = stl[k]
  <2>1. CASE UNCHANGED vars
    BY <2>1 DEF vars
  <2>2. CASE Next
    BY <2>2, RowsAreKept DEF RowsKept, InvoiceInv
  <2> QED BY <2>1, <2>2, StepIsCore
<1>2. \A k \in preempted : k \in StlKeys /\ stl[k] # Absent /\ stl'[k] = stl[k]
  BY <1>1 DEF Booked
<1>3. \A k \in StlKeys : Skipped'[k] = Skipped[k]
  BY <1>2 DEF Skipped
<1> QED BY <1>2, <1>3 DEF Skipped

\* A step that skips nothing more
LEMMA BookedStays ==
  ASSUME InvoiceInv, Booked, InvoiceNext, preempted' = preempted,
         posted' \in Nat, posted <= posted', Posted'
  PROVE  Booked'
<1>1. PICK g : IsSum(g, Skipped, StlKeys) /\ g[preempted] <= posted
  BY DEF Booked
<1>2. g[preempted] \in Nat /\ posted \in Nat
  BY <1>1, SkippedFacts DEF IsSum, InvoiceInv, Shape, Types
<1>3. g[preempted] <= posted'
  BY <1>1, <1>2
<1>4. Skipped' = Skipped /\ \A k \in preempted : k \in StlKeys /\ stl'[k] # Absent
  BY SkippedKept DEF Booked
<1>5. IsFiniteSet(preempted)
  BY DEF Booked
<1> QED BY <1>1, <1>3, <1>4, <1>5 DEF Booked

LEMMA SettlingBooks ==
  ASSUME InvoiceInv, Booked, NEW p \in Procs, PaySettles(p)
  PROVE  Booked'
<1> DEFINE r == pay[p]
           k == KeyOf(r)
<1>1. InvoiceNext
  BY DEF InvoiceNext
<1>2. r # NoPayment /\ r.pc = "settling" /\ Locked(p)
  <2>1. r # NoPayment /\ r.pc = "settling"
    BY DEF PaySettles, NoPayment
  <2> QED BY <2>1 DEF InvoiceInv, Shape, Loaded
<1>3. /\ r.paid \in Nat /\ r.amt \in Nat /\ k = r.paid + r.amt
      /\ k \in StlKeys /\ posted \in Nat /\ r.paid <= posted
  <2>1. k \in StlKeys
    BY <1>2, PaymentKeysFacts DEF InvoiceInv, Shape, Loaded
  <2> QED BY <1>2, <2>1, PaymentFacts DEF InvoiceInv, Shape, Types, Booked, Posted
<1>4. /\ facture'.paid = r.paid + r.amt /\ posted' = posted + r.amt
      /\ pay' = [pay EXCEPT ![p] = NoPayment] /\ req' = [req EXCEPT ![p] = Idle]
  <2>1. facture'.paid = k
    BY SettlesFacts
  <2> QED BY <1>3, <2>1 DEF PaySettles, Post, Done, SettleCommit
<1>5. /\ stl[k] = Absent /\ stl'[k].amt = r.amt /\ stl'[k] # Absent
      /\ \A j \in StlKeys \ {k} : stl'[j] = stl[j]
      /\ preempted' \in {preempted, preempted \cup {k}}
  <2>1. /\ KeyFree(k)
        /\ stl' = [stl EXCEPT ![k] = [kind |-> "normal", obl |-> req[p].obl, amt |-> r.amt,
                                      intent |-> req[p].intent]]
        /\ preempted' = IF req[p].skip THEN preempted \cup {k} ELSE preempted
    BY <1>2 DEF PaySettles, SettleCommit, Locked
  <2>2. DOMAIN stl = StlKeys
    BY DEF InvoiceInv, IInv, TypeOK
  <2> QED BY <1>3, <2>1, <2>2 DEF KeyFree, Absent
<1> HIDE DEF k
<1>6. posted' \in Nat /\ posted <= posted' /\ facture'.paid <= posted'
  BY <1>3, <1>4
<1>7. Posted'
  <2>1. ASSUME NEW q \in Procs, pay'[q] # NoPayment PROVE pay'[q].paid <= posted'
    <3>1. q # p /\ pay'[q] = pay[q] /\ pay[q] # NoPayment
      BY <1>4, <2>1 DEF InvoiceInv, Shape, Types
    <3>2. pay[q].paid <= posted /\ pay[q].paid \in Nat
      BY <3>1, PaymentFacts DEF Booked, Posted, InvoiceInv, Shape
    <3> QED BY <1>3, <1>4, <3>1, <3>2
  <2>2. ASSUME NEW q \in Procs, pay'[q] = NoPayment, req'[q].op = "settle"
        PROVE  req'[q].skip = FALSE
    <3>1. q # p
      BY <1>4, <2>2 DEF InvoiceInv, IInv, TypeOK, Idle
    <3>2. req'[q] = req[q] /\ pay'[q] = pay[q]
      BY <1>4, <3>1
    <3> QED BY <2>2, <3>2 DEF Booked, Posted
  <2> QED BY <1>6, <2>1, <2>2 DEF Posted
<1>8. CASE preempted' = preempted
  BY <1>1, <1>6, <1>7, <1>8, BookedStays
<1>9. CASE preempted' = preempted \cup {k}
  <2> DEFINE N == preempted \cup {k}
  <2>1. k \notin preempted /\ N \ {k} = preempted /\ N \in SUBSET StlKeys /\ preempted \in SUBSET StlKeys
    BY <1>3, <1>5, SkippedFacts DEF Booked
  <2>2. PICK g : IsSum(g, Skipped, StlKeys) /\ g[preempted] <= posted
    BY DEF Booked
  <2>3. Skipped' = With(Skipped, k, r.amt)
    <3>1. Skipped'[k] = r.amt
      BY <1>3, <1>5, <1>9 DEF Skipped
    <3>2. \A j \in StlKeys \ {k} : Skipped'[j] = Skipped[j]
      BY <1>5, <1>9 DEF Skipped
    <3>3. DOMAIN Skipped = StlKeys /\ Skipped = [j \in StlKeys |-> Skipped[j]]
          /\ Skipped' = [j \in StlKeys |-> Skipped'[j]]
      BY DEF Skipped
    <3> HIDE DEF k
    <3> QED BY <1>3, <3>1, <3>2, <3>3 DEF With
  <2>4. PICK h : IsSum(h, Skipped', StlKeys) /\ h[preempted] = g[preempted]
    <3>1. \E h : /\ IsSum(h, With(Skipped, k, r.amt), StlKeys)
                 /\ \A T \in SUBSET StlKeys : k \notin T => h[T] = g[T]
      BY <1>3, <2>2, SkippedFacts, SumFollows
    <3> QED BY <2>1, <2>3, <3>1
  <2>5. h[N] = h[preempted] + r.amt
    <3>1. Skipped'[k] = r.amt
      BY <1>3, <1>5, <1>9 DEF Skipped
    <3>2. h[N] = h[N \ {k}] + Skipped'[k]
      BY <2>1, <2>4 DEF IsSum
    <3> QED BY <2>1, <3>1, <3>2
  <2>6. g[preempted] \in Nat
    BY <2>1, <2>2 DEF IsSum
  <2> HIDE DEF N
  <2>7. h[N] <= posted'
    BY <1>3, <1>4, <2>2, <2>4, <2>5, <2>6
  <2>8. preempted' = N /\ IsFiniteSet(N) /\ \A j \in N : j \in StlKeys /\ stl'[j] # Absent
    BY <1>3, <1>5, <1>9, FS_AddElement DEF Booked, N
  <2> QED BY <1>7, <2>4, <2>7, <2>8 DEF Booked
<1> QED BY <1>5, <1>8, <1>9

LEMMA BookedKept == ASSUME InvoiceInv, Booked, InvoiceNext PROVE Booked'
<1>a. /\ posted \in Nat /\ facture.paid <= posted
      /\ pay \in [Procs -> {NoPayment} \cup Payment] /\ DOMAIN req = Procs
      /\ \A q \in Procs : pay[q] # NoPayment => pay[q].paid <= posted
      /\ \A q \in Procs : pay[q] = NoPayment /\ req[q].op = "settle" => req[q].skip = FALSE
  BY DEF InvoiceInv, Shape, Types, IInv, TypeOK, Booked, Posted
<1>1. ASSUME preempted' = preempted, posted' = posted, facture'.paid <= posted,
             NEW p \in Procs, \A q \in Procs \ {p} : pay'[q] = pay[q] /\ req'[q] = req[q],
             pay'[p] # NoPayment => pay'[p].paid <= posted,
             pay'[p] = NoPayment /\ req'[p].op = "settle" => req'[p].skip = FALSE
      PROVE  Booked'
  <2>1. Posted'
    BY <1>a, <1>1 DEF Posted
  <2>2. posted' \in Nat /\ posted <= posted'
    BY <1>a, <1>1
  <2> QED BY <1>1, <2>1, <2>2, BookedStays
<1>2. ASSUME NEW t \in Totals, CreateFacture(t) \/ UpdateFacture(t) PROVE Booked'
  <2>1. facture'.paid <= posted /\ posted' = posted /\ pay' = pay
    BY <1>a, <1>2 DEF CreateFacture, UpdateFacture, InvoiceInv, Shape, Types
  <2>2. preempted' = preempted /\ req' = req
    BY <1>2 DEF CreateFacture, UpdateFacture, CreateObligation, vars
  <2>3. Posted'
    BY <1>a, <2>1, <2>2 DEF Posted
  <2>4. posted' \in Nat /\ posted <= posted'
    BY <1>a, <2>1
  <2> QED BY <2>2, <2>3, <2>4, BookedStays
<1>3. ASSUME NEW p \in Procs, NEW amt \in Amounts, PayRead(p, amt) PROVE Booked'
  <2>1. /\ preempted' = preempted /\ req' = req /\ posted' = posted /\ facture' = facture
        /\ pay'[p].paid = facture.paid /\ pay'[p] # NoPayment
        /\ \A q \in Procs \ {p} : pay'[q] = pay[q]
    BY <1>a, <1>3 DEF PayRead, vars, NoPayment
  <2> QED BY <1>1, <1>a, <2>1
<1>4. ASSUME NEW p \in Procs, PayLocks(p) \/ PayAlone(p) \/ PayRefused(p) PROVE Booked'
  <2>1. pay[p] # NoPayment /\ pay[p] \in Payment
    <3>1. pay[p].pc \in {"loaded", "settling"}
      BY <1>4 DEF PayLocks, PayAlone, PayRefused
    <3> QED BY <1>a, <3>1 DEF NoPayment
  <2>2. /\ preempted' = preempted /\ posted' = posted /\ facture' = facture
        /\ \A q \in Procs \ {p} : req'[q] = req[q]
    BY <1>a, <1>4 DEF PayLocks, SettleRead, PayAlone, PayRefused, Rollback, vars
  <2>3. \E step \in {"settling", "kept", "lost"} : pay' = [pay EXCEPT ![p].pc = step]
    BY <1>4 DEF PayLocks, PayAlone, PayRefused, AfterRollback
  <2>4. /\ pay'[p].paid = pay[p].paid /\ pay'[p] # NoPayment
        /\ \A q \in Procs \ {p} : pay'[q] = pay[q]
    BY <1>a, <2>1, <2>3 DEF Payment, NoPayment
  <2> QED BY <1>1, <1>a, <2>1, <2>2, <2>4
<1>5. ASSUME NEW p \in Procs, PaySettles(p) PROVE Booked'
  BY <1>5, SettlingBooks
<1>6. ASSUME NEW p \in Procs, PayPosts(p) PROVE Booked'
  <2>1. pay[p] # NoPayment /\ pay[p].pc # "settling"
    BY <1>6 DEF PayPosts, NoPayment
  <2>2. /\ pay[p].paid \in Nat /\ pay[p].amt \in Nat /\ KeyOf(pay[p]) = pay[p].paid + pay[p].amt
        /\ req[p] = Idle /\ pay[p].paid <= posted
    BY <1>a, <2>1, PaymentFacts DEF InvoiceInv, Shape, Loaded
  <2>3. /\ posted' = posted + pay[p].amt /\ pay' = [pay EXCEPT ![p] = NoPayment]
        /\ preempted' = preempted /\ req' = req
    BY <1>6 DEF PayPosts, Post, Done, vars
  <2>4. facture'.paid = KeyOf(pay[p]) \/ facture' = facture
    BY <1>6, <2>1, WrittenFacts DEF PayPosts, Write, InvoiceInv, Shape
  <2>5. posted' \in Nat /\ posted <= posted' /\ facture'.paid <= posted'
    <3>1. facture.paid \in Nat
      BY DEF InvoiceInv, Shape, Types
    <3> QED BY <1>a, <2>2, <2>3, <2>4, <3>1
  <2>6. ASSUME NEW q \in Procs, pay'[q] # NoPayment PROVE pay'[q].paid <= posted'
    <3>1. pay'[q] = pay[q] /\ pay[q] # NoPayment
      BY <1>a, <2>3, <2>6
    <3>2. pay[q].paid <= posted /\ pay[q].paid \in Nat
      BY <1>a, <3>1, PaymentFacts DEF InvoiceInv, Shape
    <3> QED BY <1>a, <2>5, <3>1, <3>2
  <2>7. ASSUME NEW q \in Procs, pay'[q] = NoPayment, req'[q].op = "settle"
        PROVE  req'[q].skip = FALSE
    <3>1. q # p
      BY <2>2, <2>3, <2>7 DEF Idle
    <3> QED BY <1>a, <2>3, <2>7, <3>1
  <2>8. Posted'
    BY <2>5, <2>6, <2>7 DEF Posted
  <2> QED BY <2>3, <2>5, <2>8, BookedStays
<1>7. ASSUME NEW p \in Procs, PayFails(p) PROVE Booked'
  <2>1. /\ posted' = posted /\ facture' = facture /\ pay' = [pay EXCEPT ![p] = NoPayment]
        /\ preempted' = preempted /\ pay[p] # NoPayment
    BY <1>7 DEF PayFails, Done, Rollback, vars
  <2>2. req'[p] = Idle /\ \A q \in Procs \ {p} : req'[q] = req[q]
    BY <1>a, <1>7 DEF PayFails, Rollback, vars
  <2>3. pay'[p] = NoPayment /\ \A q \in Procs \ {p} : pay'[q] = pay[q]
    BY <1>a, <2>1
  <2>4. facture'.paid <= posted /\ req'[p].op # "settle"
    BY <1>a, <2>1, <2>2 DEF Idle
  <2> QED BY <1>1, <2>1, <2>2, <2>3, <2>4
<1>8. ASSUME NEW p \in Procs, Elsewhere(p) PROVE Booked'
  <2>1. posted' = posted /\ facture' = facture /\ pay' = pay /\ pay[p] = NoPayment
    BY <1>8 DEF Elsewhere
  <2>2. /\ \A q \in Procs \ {p} : req'[q] = req[q]
        /\ req'[p].op = "settle" => req'[p].skip = FALSE
    <3>1. ASSUME NEW k, NEW amt, SettleRead(p, k, Invoice, amt, None, FALSE)
          PROVE  <2>2!:
      <4>1. req' = [req EXCEPT ![p] = [op |-> "settle", key |-> k, obl |-> Invoice, amt |-> amt,
                                       intent |-> None, skip |-> FALSE]]
        BY <3>1 DEF SettleRead
      <4>2. req'[p].skip = FALSE /\ \A q \in Procs \ {p} : req'[q] = req[q]
        BY <1>a, <4>1
      <4> QED BY <4>2
    <3>a. ASSUME NEW r, r.op # "settle", req' = [req EXCEPT ![p] = r] PROVE <2>2!:
      BY <1>a, <3>a
    <3>2. ASSUME NEW k, NEW orig, ReverseRead(p, k, orig) PROVE <2>2!:
      <4> DEFINE r == [op |-> "reverse", key |-> k, orig |-> orig,
                       status |-> obl[stl[orig].obl].status,
                       settled |-> obl[stl[orig].obl].settled]
      <4>1. r.op # "settle" /\ req' = [req EXCEPT ![p] = r]
        BY <3>2 DEF ReverseRead
      <4> HIDE DEF r
      <4> QED BY <3>a, <4>1
    <3>3. CASE CancelRead(p, Invoice)
      BY <1>a, <3>3 DEF CancelRead
    <3>4. CASE SettleCommit(p) \/ ReverseCommit(p) \/ CancelCommit(p) \/ Rollback(p)
      <4>1. req' = [req EXCEPT ![p] = Idle]
        BY <3>4 DEF SettleCommit, ReverseCommit, CancelCommit, Rollback
      <4> QED BY <3>a, <4>1 DEF Idle
    <3> QED BY <1>8, <3>1, <3>2, <3>3, <3>4 DEF Elsewhere
  <2>3. preempted' = preempted
    <3>1. CASE SettleCommit(p)
      <4>1. req[p].skip = FALSE
        BY <1>a, <2>1, <3>1 DEF SettleCommit
      <4> QED BY <3>1, <4>1 DEF SettleCommit
    <3>2. CASE \E k \in OtherKeys, amt \in Amounts : SettleRead(p, k, Invoice, amt, None, FALSE)
      BY <3>2 DEF SettleRead
    <3>3. CASE \E k \in OtherKeys, orig \in StlKeys : ReverseRead(p, k, orig)
      BY <3>3 DEF ReverseRead
    <3>4. CASE CancelRead(p, Invoice) \/ ReverseCommit(p) \/ CancelCommit(p) \/ Rollback(p)
      BY <3>4 DEF CancelRead, ReverseCommit, CancelCommit, Rollback
    <3> QED BY <1>8, <3>1, <3>2, <3>3, <3>4 DEF Elsewhere
  <2> QED BY <1>1, <1>a, <2>1, <2>2, <2>3
<1> QED BY <1>2, <1>3, <1>4, <1>5, <1>6, <1>7, <1>8 DEF InvoiceNext

\* h adds up the subsets of T, one element after another.
AddsUp(h, a, T) ==
  h[{}] = 0 /\ \A s \in SUBSET T : s # {} => \E x \in s : h[s] = a[x] + h[s \ {x}]

\* Any way of adding up a finite set, one element after another, gives this sum.
LEMMA SumsAgree ==
  ASSUME NEW K, NEW a \in [K -> Nat], NEW g, IsSum(g, a, K),
         NEW T \in SUBSET K, IsFiniteSet(T), NEW h, AddsUp(h, a, T)
  PROVE  h[T] = g[T]
<1> DEFINE W == {s \in SUBSET T : h[s] # g[s]}
<1>1. SUFFICES ASSUME W # {} PROVE FALSE
  <2>1. T \in SUBSET T
    OBVIOUS
  <2> QED BY <2>1
<1>2. IsWellFoundedOn(StrictSubsetOrdering(T), SUBSET T)
  <2>1. FiniteSubsetsOf(T) = SUBSET T
    BY FS_FiniteSubsetsOfFinite
  <2>2. IsWellFoundedOn(StrictSubsetOrdering(T), FiniteSubsetsOf(T))
    BY FS_StrictSubsetOrderingWellFounded
  <2> QED BY <2>1, <2>2
<1>3. W \subseteq SUBSET T
  OBVIOUS
<1>4. PICK m \in W : \A y \in W : <<y, m>> \notin StrictSubsetOrdering(T)
  <2> HIDE DEF W
  <2> QED BY <1>1, <1>2, <1>3, WFMin
<1>5. m \in SUBSET T /\ h[m] # g[m]
  BY <1>4
<1>6. m # {}
  BY <1>5 DEF IsSum, AddsUp
<1>7. PICK x \in m : h[m] = a[x] + h[m \ {x}]
  BY <1>5, <1>6 DEF AddsUp
<1> DEFINE r == m \ {x}
<1>8. r \in SUBSET T /\ r \subseteq m /\ r # m
  BY <1>5, <1>7
<1>9. <<r, m>> \in StrictSubsetOrdering(T)
  <2> HIDE DEF r
  <2> QED BY <1>5, <1>8 DEF StrictSubsetOrdering
<1>10. h[r] = g[r]
  BY <1>4, <1>8, <1>9
<1>11. g[m] = g[r] + a[x] /\ g[r] \in Nat /\ a[x] \in Nat
  BY <1>5, <1>7, <1>8 DEF IsSum
<1>12. h[m] = a[x] + g[r]
  BY <1>7, <1>10
<1> HIDE DEF r
<1> QED BY <1>5, <1>11, <1>12

\* What some settlements have paid
AllSettled(T) == MapThenSumSet(LAMBDA k : stl[k].amt, T)

LEMMA SumOfSettled ==
  ASSUME NEW K, NEW a \in [K -> Nat], NEW g, IsSum(g, a, K),
         NEW T \in SUBSET K, IsFiniteSet(T),
         \A k \in T : a[k] = stl[k].amt
  PROVE  AllSettled(T) = g[T]
<1> DEFINE Sums(h) ==
             h = [s \in SUBSET T |-> IF s = {} THEN 0
                  ELSE stl[CHOOSE x \in s : TRUE].amt + h[s \ {CHOOSE x \in s : TRUE}]]
           h == CHOOSE h : Sums(h)
<1>1. \E j : Sums(j)
  <2> DEFINE j == [s \in SUBSET T |-> g[s]]
  <2>1. ASSUME NEW s \in SUBSET T, s # {}
        PROVE  g[s] = stl[CHOOSE x \in s : TRUE].amt + j[s \ {CHOOSE x \in s : TRUE}]
    <3> DEFINE x == CHOOSE x \in s : TRUE
    <3>1. x \in s
      BY <2>1
    <3>2. s \ {x} \in SUBSET T /\ s \in SUBSET K /\ s \ {x} \in SUBSET K /\ x \in K
      BY <3>1
    <3>3. j[s \ {x}] = g[s \ {x}]
      BY <3>2
    <3> HIDE DEF x, j
    <3>4. g[s] = g[s \ {x}] + a[x]
      BY <3>1, <3>2 DEF IsSum
    <3>5. g[s \ {x}] \in Nat /\ a[x] \in Nat
      BY <3>2 DEF IsSum
    <3>6. g[s] = a[x] + g[s \ {x}] /\ a[x] = stl[x].amt
      BY <3>1, <3>2, <3>4, <3>5
    <3>7. g[s] = stl[x].amt + j[s \ {x}]
      BY <3>3, <3>6
    <3> QED BY <3>7 DEF x
  <2>2. g[{}] = 0
    BY DEF IsSum
  <2>3. Sums(j)
    BY <2>1, <2>2
  <2> QED BY <2>3
<1>2. Sums(h)
  BY <1>1
<1>3. AllSettled(T) = h[T]
  BY DEF AllSettled, MapThenSumSet, MapThenFoldSet
<1>4. h[{}] = 0
  BY <1>2
<1>5. ASSUME NEW s \in SUBSET T, s # {}
      PROVE  \E x \in s : h[s] = a[x] + h[s \ {x}]
  <2> DEFINE x == CHOOSE x \in s : TRUE
  <2>1. x \in s
    BY <1>5
  <2>2. h[s] = stl[x].amt + h[s \ {x}]
    BY <1>2, <1>5
  <2> HIDE DEF h, x
  <2>3. a[x] = stl[x].amt
    BY <2>1
  <2> QED BY <2>1, <2>2, <2>3
<1> HIDE DEF h
<1>6. AddsUp(h, a, T)
  BY <1>4, <1>5 DEF AddsUp
<1>7. h[T] = g[T]
  BY <1>6, SumsAgree
<1> QED BY <1>3, <1>7

LEMMA BookedInvariance == InvoiceSpec => [](InvoiceInv /\ Booked)
<1>1. InvoiceInv /\ Booked /\ [InvoiceNext]_invoiceVars => Booked'
  <2>1. ASSUME Booked, UNCHANGED invoiceVars PROVE Booked'
    BY <2>1 DEF Booked, Posted, Skipped, invoiceVars, vars
  <2> QED BY <2>1, BookedKept
<1> QED BY <1>1, InitBooked, InvoiceInvariance, PTL DEF InvoiceSpec

\* The books never miss a payment: what the invoice shows, and what the bridge will not
\* post because the payment did, was all posted by payer_facture.
THEOREM AccountedForHolds == InvoiceSpec => []AccountedFor
<1>1. ASSUME InvoiceInv, Booked PROVE AccountedFor
  <2>1. PICK g : IsSum(g, Skipped, StlKeys) /\ g[preempted] <= posted
    BY <1>1 DEF Booked
  <2>2. /\ Skipped \in [StlKeys -> Nat] /\ preempted \in SUBSET StlKeys
        /\ IsFiniteSet(preempted) /\ \A k \in preempted : Skipped[k] = stl[k].amt
    BY <1>1, SkippedFacts DEF Booked, Skipped
  <2>3. AllSettled(preempted) = g[preempted]
    BY <2>1, <2>2, SumOfSettled
  <2>4. facture.paid <= posted
    BY <1>1 DEF Booked, Posted
  <2>5. AllSettled(preempted) <= posted
    BY <2>1, <2>3
  <2> QED BY <2>4, <2>5 DEF AccountedFor, AllSettled
<1> QED BY <1>1, BookedInvariance, PTL
================================================================================
