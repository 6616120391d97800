--------------------------- MODULE FinanceCoreProofs ---------------------------
(***************************************************************************)
(* What FinanceCore guarantees for every set of keys, requests and amounts.*)
(***************************************************************************)
EXTENDS FinanceCore, TLAPS

USE AmountsAssumption, NoneAssumption

Requests == {Idle} \cup SettleRequest \cup ReverseRequest \cup CancelRequest

Row == [status : Statuses, total : Nat, settled : Nat]

LEMMA StatusForType ==
  ASSUME NEW settled, NEW total
  PROVE  StatusFor(settled, total) \in {"open", "partially_settled", "settled"}
BY DEF StatusFor

\* A settling UPDATE keeps the row well formed and adds exactly its amount.
LEMMA SettledRowFacts ==
  ASSUME NEW row \in Row, NEW amt \in Nat
  PROVE  /\ SettledRow(row, amt) \in Row
         /\ SettledRow(row, amt).status # "absent"
         /\ SettledRow(row, amt).total = row.total
         /\ SettledRow(row, amt).settled = row.settled + amt
BY StatusForType DEF SettledRow, Row, Statuses

\* A reversal keeps the row well formed, whatever copy it was computed from, and
\* never raises the amount settled above both the copy and the row.
LEMMA ReversedRowFacts ==
  ASSUME NEW row \in Row, NEW loaded, loaded.settled \in Nat, NEW amt \in Nat
  PROVE  /\ ReversedRow(row, loaded, amt) \in Row
         /\ row.status # "absent" => ReversedRow(row, loaded, amt).status # "absent"
         /\ ReversedRow(row, loaded, amt).total = row.total
         /\ ReversedRow(row, loaded, amt).settled <= loaded.settled
              \/ ReversedRow(row, loaded, amt).settled = row.settled
         /\ loaded.settled = row.settled =>
              ReversedRow(row, loaded, amt).settled >= row.settled - amt
<1>1. Restored(loaded.settled, amt) \in Nat
  BY DEF Restored
<1>2. Restored(loaded.settled, amt) <= loaded.settled
  BY DEF Restored
<1>3. Restored(loaded.settled, amt) >= loaded.settled - amt
  BY DEF Restored
<1> QED BY <1>1, <1>2, <1>3, StatusForType DEF ReversedRow, Row, Statuses

LEMMA EmittedType ==
  ASSUME TypeOK, NEW k \in EvtKeys, NEW type \in EventTypes
  PROVE  Emitted(k, type) \in [EvtKeys -> EventTypes]
BY DEF Emitted, TypeOK

\* The operation of a request tells which record it is.
LEMMA RequestKinds ==
  ASSUME NEW r \in Requests
  PROVE  /\ r.op = "settle" => r \in SettleRequest
         /\ r.op = "reverse" => r \in ReverseRequest
         /\ r.op = "cancel" => r \in CancelRequest
BY DEF Requests, Idle, SettleRequest, ReverseRequest, CancelRequest

LEMMA EntryKinds ==
  ASSUME NEW e \in {Absent} \cup Normal \cup Reversal
  PROVE  /\ e.kind = "normal" => e \in Normal
         /\ e.kind = "reversal" => e \in Reversal
BY DEF Absent, Normal, Reversal

-------------------------------------------------------------------------------
(* The inductive invariant.  What a request loaded stays meaningful until it   *)
(* writes: rows are never deleted, a settlement never changes, a total never   *)
(* changes, and an amount settled never exceeds the total.                     *)

LoadedOK(r) ==
  /\ r.op = "settle" => Exists(r.obl) /\ IntentMatches(r.intent, r.obl)
  /\ r.op = "cancel" => Exists(r.obl)
  /\ r.op = "reverse" => /\ stl[r.orig].kind = "normal"
                         /\ r.settled <= obl[stl[r.orig].obl].total

LoadedRows ==
  /\ \A k \in StlKeys : stl[k].kind # "absent" => Exists(stl[k].obl)
  /\ \A p \in Procs : LoadedOK(req[p])

IInv == TypeOK /\ LoadedRows /\ SettledWithinTotal

LEMMA InitIInv == Init => IInv
BY DEF Init, IInv, TypeOK, LoadedRows, LoadedOK, SettledWithinTotal, Idle, Absent, Statuses, EventTypes

\* What a committing settlement or reversal works on.
LEMMA SettleFacts ==
  ASSUME IInv, NEW p \in Procs, SettleCommit(p)
  PROVE  /\ req[p] \in SettleRequest
         /\ obl[req[p].obl].settled + req[p].amt <= obl[req[p].obl].total
BY RequestKinds DEF SettleCommit, CasHolds, IInv, TypeOK, Requests, SettleRequest

LEMMA ReverseFacts ==
  ASSUME IInv, NEW p \in Procs, ReverseCommit(p)
  PROVE  /\ req[p] \in ReverseRequest
         /\ stl[req[p].orig] \in Normal
         /\ Exists(stl[req[p].orig].obl)
         /\ req[p].settled <= obl[stl[req[p].orig].obl].total
<1>1. req[p] \in ReverseRequest
  BY RequestKinds DEF ReverseCommit, IInv, TypeOK, Requests
<1>2. stl[req[p].orig].kind = "normal" /\ req[p].settled <= obl[stl[req[p].orig].obl].total
  BY DEF ReverseCommit, IInv, LoadedRows, LoadedOK
<1>3. stl[req[p].orig] \in Normal
  BY <1>1, <1>2, EntryKinds DEF IInv, TypeOK, ReverseRequest
<1>4. Exists(stl[req[p].orig].obl)
  BY <1>1, <1>2 DEF IInv, LoadedRows, ReverseRequest
<1> QED BY <1>1, <1>2, <1>3, <1>4

LEMMA NextTypeOK == ASSUME IInv, Next PROVE TypeOK'
<1> TypeOK BY DEF IInv
<1>1. ASSUME NEW o \in OblKeys, NEW amt \in Amounts, CreateObligation(o, amt)
      PROVE  TypeOK'
  <2>1. event' \in [EvtKeys -> EventTypes]
    BY <1>1, EmittedType DEF CreateObligation, EvtKeys, EventTypes
  <2>2. obl' \in [OblKeys -> [status : Statuses, total : Nat, settled : Nat]]
    BY <1>1 DEF CreateObligation, TypeOK, Statuses
  <2> QED BY <1>1, <2>1, <2>2 DEF CreateObligation, TypeOK
<1>2. ASSUME NEW i \in IntentKeys, NEW o \in OblKeys \cup {None}, CreateIntent(i, o)
      PROVE  TypeOK'
  BY <1>2 DEF CreateIntent, TypeOK
<1>3. ASSUME NEW p \in Procs, NEW k \in StlKeys, NEW o \in OblKeys, NEW amt \in Amounts,
             NEW i \in IntentKeys \cup {None}, NEW skip \in BOOLEAN,
             SettleRead(p, k, o, amt, i, skip)
      PROVE  TypeOK'
  BY <1>3 DEF SettleRead, TypeOK, SettleRequest
<1>4. ASSUME NEW p \in Procs, SettleCommit(p)
      PROVE  TypeOK'
  <2>1. req[p] \in SettleRequest
    BY <1>4, SettleFacts
  <2>2. obl' \in [OblKeys -> [status : Statuses, total : Nat, settled : Nat]]
    BY <1>4, <2>1, SettledRowFacts DEF SettleCommit, TypeOK, Row, SettleRequest
  <2>3. stl' \in [StlKeys -> {Absent} \cup Normal \cup Reversal]
    BY <1>4, <2>1 DEF SettleCommit, TypeOK, SettleRequest, Normal
  <2>4. event' \in [EvtKeys -> EventTypes]
    BY <1>4, <2>1, EmittedType DEF SettleCommit, EvtKeys, EventTypes, SettleRequest
  <2>5. intent' \in [IntentKeys -> [status : {"absent", "pending", "settled"},
                                    obl : OblKeys \cup {None}]]
    BY <1>4, <2>1 DEF SettleCommit, TypeOK, SettleRequest
  <2>6. /\ preempted' \subseteq EvtKeys
        /\ req' \in [Procs -> Requests]
        /\ net' \in [OblKeys -> Int]
    BY <1>4, <2>1 DEF SettleCommit, TypeOK, SettleRequest, EvtKeys, Requests
  <2> QED BY <1>4, <2>2, <2>3, <2>4, <2>5, <2>6 DEF SettleCommit, TypeOK, Requests
<1>5. ASSUME NEW p \in Procs, NEW k \in StlKeys, NEW orig \in StlKeys,
             ReverseRead(p, k, orig)
      PROVE  TypeOK'
  <2>1. stl[orig].obl \in OblKeys
    BY <1>5, EntryKinds DEF ReverseRead, TypeOK, Normal
  <2> QED BY <1>5, <2>1 DEF ReverseRead, TypeOK, ReverseRequest
<1>6. ASSUME NEW p \in Procs, ReverseCommit(p)
      PROVE  TypeOK'
  <2> DEFINE r == req[p]
             o == stl[r.orig].obl
             amt == stl[r.orig].amt
  <2>1. /\ r \in ReverseRequest
        /\ stl[r.orig] \in Normal
    BY <1>6, ReverseFacts
  <2>2. /\ o \in OblKeys /\ amt \in Nat /\ amt \in Amounts
        /\ r.key \in StlKeys /\ r.orig \in StlKeys /\ r.settled \in Nat
    BY <2>1 DEF ReverseRequest, Normal
  <2>3. obl[o] \in Row
    BY <2>2 DEF TypeOK, Row
  <2>4. ReversedRow(obl[o], r, amt) \in Row
    BY <2>2, <2>3, ReversedRowFacts
  <2> HIDE DEF r, o, amt
  <2>5. obl' \in [OblKeys -> Row]
    BY <1>6, <2>2, <2>4 DEF ReverseCommit, TypeOK, Row, r, o, amt
  <2>6. stl' \in [StlKeys -> {Absent} \cup Normal \cup Reversal]
    <3>1. [kind |-> "reversal", obl |-> o, amt |-> amt, reverses |-> r.orig] \in Reversal
      BY <2>2 DEF Reversal
    <3> QED BY <1>6, <2>2, <3>1 DEF ReverseCommit, TypeOK, r, o, amt
  <2>7. event' \in [EvtKeys -> EventTypes]
    BY <1>6, <2>2, EmittedType DEF ReverseCommit, EvtKeys, EventTypes, r
  <2>8. req' \in [Procs -> Requests]
    BY <1>6 DEF ReverseCommit, TypeOK, Requests
  <2>9. net' \in [OblKeys -> Int]
    <3>1. net' = [net EXCEPT ![o] = @ - amt]
      BY <1>6 DEF ReverseCommit, o, amt, r
    <3> QED BY <2>2, <3>1 DEF TypeOK
  <2>10. stale' \subseteq OblKeys
    <3>1. stale' = stale \/ stale' = stale \cup {o}
      BY <1>6 DEF ReverseCommit, o, r
    <3> QED BY <2>2, <3>1 DEF TypeOK
  <2> QED BY <1>6, <2>5, <2>6, <2>7, <2>8, <2>9, <2>10 DEF ReverseCommit, TypeOK, Requests, Row
<1>7. ASSUME NEW p \in Procs, NEW o \in OblKeys, CancelRead(p, o)
      PROVE  TypeOK'
  BY <1>7 DEF CancelRead, TypeOK, CancelRequest
<1>8. ASSUME NEW p \in Procs, CancelCommit(p)
      PROVE  TypeOK'
  <2>1. req[p] \in CancelRequest
    BY <1>8, RequestKinds DEF CancelCommit, TypeOK, Requests
  <2>2. req[p].obl \in OblKeys
    BY <2>1 DEF CancelRequest
  <2>3. \/ obl' = [obl EXCEPT ![req[p].obl].status = "cancelled"]
        \/ obl' = [obl EXCEPT ![req[p].obl].status = @]
    BY <1>8 DEF CancelCommit
  <2>4. obl' \in [OblKeys -> [status : Statuses, total : Nat, settled : Nat]]
    BY <2>2, <2>3 DEF TypeOK, Statuses
  <2>5. cancelEvent' \subseteq OblKeys /\ req' = [req EXCEPT ![p] = Idle]
        /\ UNCHANGED <<intent, stl, event, preempted, net, stale>>
    BY <1>8, <2>2 DEF CancelCommit, TypeOK
  <2> QED BY <2>4, <2>5 DEF TypeOK
<1>9. ASSUME NEW p \in Procs, Rollback(p)
      PROVE  TypeOK'
  BY <1>9 DEF Rollback, TypeOK
<1> QED BY <1>1, <1>2, <1>3, <1>4, <1>5, <1>6, <1>7, <1>8, <1>9 DEF Next

-------------------------------------------------------------------------------
\* Rows only appear: an obligation keeps its total, a settlement is final, and an
\* intent keeps its obligation.
RowsKept ==
  /\ \A o \in OblKeys : Exists(o) => Exists(o)' /\ obl'[o].total = obl[o].total
  /\ \A k \in StlKeys : stl[k] # Absent => stl'[k] = stl[k]
  /\ \A i \in IntentKeys : intent[i].status # "absent" =>
       intent'[i].status # "absent" /\ intent'[i].obl = intent[i].obl

LEMMA RowsAreKept == ASSUME IInv, Next PROVE RowsKept
<1> USE DEF RowsKept, Exists
<1> TypeOK BY DEF IInv
<1>1. ASSUME NEW o \in OblKeys, NEW amt \in Amounts, CreateObligation(o, amt)
      PROVE  RowsKept
  BY <1>1 DEF CreateObligation, TypeOK
<1>2. ASSUME NEW i \in IntentKeys, NEW o \in OblKeys \cup {None}, CreateIntent(i, o)
      PROVE  RowsKept
  BY <1>2 DEF CreateIntent, TypeOK
<1>3. ASSUME NEW p \in Procs, SettleCommit(p)
      PROVE  RowsKept
  <2>1. req[p] \in SettleRequest
    BY <1>3, SettleFacts
  <2>3. \A o \in OblKeys : Exists(o) => Exists(o)' /\ obl'[o].total = obl[o].total
    BY <1>3, <2>1, SettledRowFacts DEF SettleCommit, TypeOK, Row, SettleRequest
  <2>4. \A k \in StlKeys : stl[k] # Absent => stl'[k] = stl[k]
    BY <1>3, <2>1 DEF SettleCommit, TypeOK, SettleRequest, KeyFree
  <2>5. \A i \in IntentKeys : intent[i].status # "absent" =>
          intent'[i].status # "absent" /\ intent'[i].obl = intent[i].obl
    BY <1>3, <2>1 DEF SettleCommit, TypeOK, SettleRequest
  <2> QED BY <2>3, <2>4, <2>5
<1>4. ASSUME NEW p \in Procs, ReverseCommit(p)
      PROVE  RowsKept
  <2> DEFINE r == req[p]
  <2>1. /\ r \in ReverseRequest /\ r.settled \in Nat
        /\ stl[r.orig].obl \in OblKeys /\ stl[r.orig].amt \in Nat
    BY <1>4, ReverseFacts DEF Normal, ReverseRequest
  <2>3. \A o \in OblKeys : Exists(o) => Exists(o)' /\ obl'[o].total = obl[o].total
    <3> DEFINE x == stl[r.orig].obl
               amt == stl[r.orig].amt
    <3>1. obl \in [OblKeys -> Row] /\ x \in OblKeys /\ amt \in Nat
      BY <2>1 DEF TypeOK, Row
    <3>2. obl' = [obl EXCEPT ![x] = ReversedRow(obl[x], r, amt)]
      BY <1>4 DEF ReverseCommit
    <3>3. obl[x] \in Row /\ r.settled \in Nat
      BY <2>1, <3>1
    <3> HIDE DEF x, amt, r
    <3>4. /\ obl[x].status # "absent" => ReversedRow(obl[x], r, amt).status # "absent"
          /\ ReversedRow(obl[x], r, amt).total = obl[x].total
      BY <3>1, <3>3, ReversedRowFacts
    <3> QED BY <3>1, <3>2, <3>4
  <2>4. \A k \in StlKeys : stl[k] # Absent => stl'[k] = stl[k]
    BY <1>4, <2>1 DEF ReverseCommit, TypeOK, ReverseRequest, KeyFree
  <2> QED BY <1>4, <2>3, <2>4 DEF ReverseCommit
<1>5. ASSUME NEW p \in Procs, CancelCommit(p)
      PROVE  RowsKept
  <2>1. req[p] \in CancelRequest
    BY <1>5, RequestKinds DEF CancelCommit, TypeOK, Requests
  <2> QED BY <1>5, <2>1 DEF CancelCommit, TypeOK, CancelRequest
<1>6. ASSUME UNCHANGED <<obl, stl, intent>> PROVE RowsKept
  BY <1>6
<1> QED BY <1>1, <1>2, <1>3, <1>4, <1>5, <1>6 DEF Next, SettleRead, ReverseRead, CancelRead, Rollback

LEMMA NextSettledWithinTotal == ASSUME IInv, Next PROVE SettledWithinTotal'
<1>a. TypeOK BY DEF IInv
<1>b. SettledWithinTotal BY DEF IInv
<1> USE <1>a, <1>b
<1>1. ASSUME NEW o \in OblKeys, NEW amt \in Amounts, CreateObligation(o, amt)
      PROVE  SettledWithinTotal'
  <2>1. \A q \in OblKeys : obl'[q] = obl[q] \/ (obl'[q].settled = 0 /\ obl'[q].total = amt)
    BY <1>1 DEF CreateObligation, TypeOK
  <2>2. amt \in Nat /\ 0 <= amt
    OBVIOUS
  <2> QED BY ONLY <2>1, <2>2, <1>b DEF SettledWithinTotal
<1>2. ASSUME NEW p \in Procs, SettleCommit(p)
      PROVE  SettledWithinTotal'
  <2> DEFINE r == req[p]
  <2>1. r \in SettleRequest /\ obl[r.obl].settled + r.amt <= obl[r.obl].total
    BY <1>2, SettleFacts
  <2>2. \A q \in OblKeys : obl'[q] = obl[q] \/ (q = r.obl /\ obl'[q] = SettledRow(obl[q], r.amt))
    BY <1>2 DEF SettleCommit, TypeOK
  <2>3. /\ obl[r.obl] \in Row /\ r.obl \in OblKeys /\ r.amt \in Nat
        /\ 0 <= obl[r.obl].settled
    BY <2>1 DEF TypeOK, Row, SettleRequest, SettledWithinTotal
  <2> HIDE DEF r
  <2>4. /\ SettledRow(obl[r.obl], r.amt).settled = obl[r.obl].settled + r.amt
        /\ SettledRow(obl[r.obl], r.amt).total = obl[r.obl].total
    BY <2>3, SettledRowFacts
  <2>5. /\ 0 <= SettledRow(obl[r.obl], r.amt).settled
        /\ SettledRow(obl[r.obl], r.amt).settled <= SettledRow(obl[r.obl], r.amt).total
    BY <2>1, <2>3, <2>4 DEF Row
  <2> QED BY <2>2, <2>5 DEF SettledWithinTotal
<1>3. ASSUME NEW p \in Procs, ReverseCommit(p)
      PROVE  SettledWithinTotal'
  <2> DEFINE r == req[p]
             o == stl[r.orig].obl
             amt == stl[r.orig].amt
  <2>1. /\ o \in OblKeys /\ r.settled \in Nat /\ amt \in Nat
        /\ r.settled <= obl[o].total
    BY <1>3, ReverseFacts DEF Normal, ReverseRequest
  <2>2. \A q \in OblKeys : obl'[q] = obl[q] \/ (q = o /\ obl'[q] = ReversedRow(obl[q], r, amt))
    BY <1>3, <2>1 DEF ReverseCommit, TypeOK
  <2>3. \A q \in OblKeys : obl[q] \in Row
    BY DEF TypeOK, Row
  <2>4. /\ ReversedRow(obl[o], r, amt) \in Row
        /\ ReversedRow(obl[o], r, amt).total = obl[o].total
        /\ ReversedRow(obl[o], r, amt).settled <= r.settled
             \/ ReversedRow(obl[o], r, amt).settled = obl[o].settled
    <3>1. obl[o] \in Row BY <2>1, <2>3
    <3> HIDE DEF r, o, amt
    <3> QED BY <2>1, <3>1, ReversedRowFacts
  <2> HIDE DEF r, o, amt
  <2>5. /\ ReversedRow(obl[o], r, amt).settled \in Nat
        /\ obl[o].settled <= obl[o].total /\ obl[o].total \in Nat
    BY <2>1, <2>3, <2>4 DEF Row, SettledWithinTotal
  <2>6. /\ 0 <= ReversedRow(obl[o], r, amt).settled
        /\ ReversedRow(obl[o], r, amt).settled <= ReversedRow(obl[o], r, amt).total
    BY <2>1, <2>4, <2>5
  <2> QED BY <2>2, <2>6 DEF SettledWithinTotal
<1>4. ASSUME NEW p \in Procs, CancelCommit(p)
      PROVE  SettledWithinTotal'
  <2>1. req[p] \in CancelRequest
    BY <1>4, RequestKinds DEF CancelCommit, TypeOK, Requests
  <2> QED BY <1>4, <2>1 DEF CancelCommit, TypeOK, SettledWithinTotal, CancelRequest
<1>5. ASSUME UNCHANGED obl PROVE SettledWithinTotal'
  BY <1>5 DEF SettledWithinTotal
<1> QED BY <1>1, <1>2, <1>3, <1>4, <1>5
        DEF Next, CreateIntent, SettleRead, ReverseRead, CancelRead, Rollback

\* A request keeps what it was promised, because rows are kept.
LEMMA LoadedOKKept ==
  ASSUME IInv, RowsKept
  PROVE  \A r \in Requests : LoadedOK(r) => LoadedOK(r)'
<1> SUFFICES ASSUME NEW r \in Requests, LoadedOK(r) PROVE LoadedOK(r)'
  OBVIOUS
<1> TypeOK BY DEF IInv
<1>1. CASE r.op = "settle"
  <2>1. r \in SettleRequest BY <1>1, RequestKinds
  <2> QED BY <1>1, <2>1 DEF LoadedOK, RowsKept, IntentMatches, SettleRequest
<1>2. CASE r.op = "cancel"
  <2>1. r \in CancelRequest BY <1>2, RequestKinds
  <2> QED BY <1>2, <2>1 DEF LoadedOK, RowsKept, CancelRequest
<1>3. CASE r.op = "reverse"
  <2>1. r \in ReverseRequest BY <1>3, RequestKinds
  <2>2. r.orig \in StlKeys /\ stl[r.orig] \in Normal
    BY <1>3, <2>1, EntryKinds DEF LoadedOK, ReverseRequest, TypeOK
  <2>3. stl[r.orig] # Absent /\ Exists(stl[r.orig].obl) /\ stl[r.orig].obl \in OblKeys
    BY <2>2 DEF IInv, LoadedRows, Normal, Absent
  <2>4. stl'[r.orig] = stl[r.orig]
    BY <2>2, <2>3 DEF RowsKept
  <2>5. obl'[stl[r.orig].obl].total = obl[stl[r.orig].obl].total
    BY <2>3 DEF RowsKept
  <2> QED BY <1>3, <2>4, <2>5 DEF LoadedOK
<1> QED BY <1>1, <1>2, <1>3 DEF LoadedOK

LEMMA NextLoadedRows == ASSUME IInv, Next PROVE LoadedRows'
<1>a. TypeOK BY DEF IInv
<1>b. LoadedRows BY DEF IInv
<1>c. RowsKept BY RowsAreKept
<1>d. TypeOK' BY NextTypeOK
<1> USE <1>a
\* What each process holds after the step is justified by the rows before it.
<1>1. \A p \in Procs : LoadedOK(req'[p])
  <2>0. LoadedOK(Idle)
    BY DEF LoadedOK, Idle
  <2>1. ASSUME NEW p \in Procs, NEW r, req' = [req EXCEPT ![p] = r], LoadedOK(r)
        PROVE  \A q \in Procs : LoadedOK(req'[q])
    <3>1. \A q \in Procs : req'[q] = req[q] \/ req'[q] = r
      BY <2>1 DEF TypeOK
    <3>2. \A q \in Procs : LoadedOK(req[q])
      BY <1>b DEF LoadedRows
    <3> QED BY <2>1, <3>1, <3>2
  <2>2. ASSUME UNCHANGED req PROVE \A q \in Procs : LoadedOK(req'[q])
    BY <1>b, <2>2 DEF LoadedRows
  <2>3. ASSUME NEW p \in Procs, NEW k \in StlKeys, NEW o \in OblKeys, NEW amt \in Amounts,
               NEW i \in IntentKeys \cup {None}, NEW skip \in BOOLEAN,
               SettleRead(p, k, o, amt, i, skip)
        PROVE  \A q \in Procs : LoadedOK(req'[q])
    <3> DEFINE r == [op |-> "settle", key |-> k, obl |-> o, amt |-> amt,
                     intent |-> i, skip |-> skip]
    <3>1. LoadedOK(r) BY <2>3 DEF SettleRead, LoadedOK
    <3>2. req' = [req EXCEPT ![p] = r] BY <2>3 DEF SettleRead
    <3> HIDE DEF r
    <3> QED BY <2>1, <3>1, <3>2
  <2>4. ASSUME NEW p \in Procs, NEW k \in StlKeys, NEW orig \in StlKeys, ReverseRead(p, k, orig)
        PROVE  \A q \in Procs : LoadedOK(req'[q])
    <3> DEFINE r == [op |-> "reverse", key |-> k, orig |-> orig,
                     status |-> obl[stl[orig].obl].status,
                     settled |-> obl[stl[orig].obl].settled]
    <3>0. stl[orig] \in Normal
      BY <2>4, EntryKinds DEF ReverseRead, TypeOK
    <3>1. LoadedOK(r)
      BY <2>4, <3>0 DEF ReverseRead, LoadedOK, IInv, SettledWithinTotal, Normal
    <3>2. req' = [req EXCEPT ![p] = r] BY <2>4 DEF ReverseRead
    <3> HIDE DEF r
    <3> QED BY <2>1, <3>1, <3>2
  <2>5. ASSUME NEW p \in Procs, NEW o \in OblKeys, CancelRead(p, o)
        PROVE  \A q \in Procs : LoadedOK(req'[q])
    <3> DEFINE r == [op |-> "cancel", obl |-> o, status |-> obl[o].status]
    <3>1. LoadedOK(r) BY <2>5 DEF CancelRead, LoadedOK
    <3>2. req' = [req EXCEPT ![p] = r] BY <2>5 DEF CancelRead
    <3> HIDE DEF r
    <3> QED BY <2>1, <3>1, <3>2
  <2>6. ASSUME NEW p \in Procs, req' = [req EXCEPT ![p] = Idle]
        PROVE  \A q \in Procs : LoadedOK(req'[q])
    BY <2>0, <2>1, <2>6
  <2>7. ASSUME NEW p \in Procs,
               SettleCommit(p) \/ ReverseCommit(p) \/ CancelCommit(p) \/ Rollback(p)
        PROVE  \A q \in Procs : LoadedOK(req'[q])
    <3>1. req' = [req EXCEPT ![p] = Idle]
      BY <2>7 DEF SettleCommit, ReverseCommit, CancelCommit, Rollback
    <3> QED BY <2>6, <3>1
  <2>8. ASSUME NEW o, NEW x,
               CreateObligation(o, x) \/ CreateIntent(x, o)
        PROVE  UNCHANGED req
    BY <2>8 DEF CreateObligation, CreateIntent
  <2> QED BY <2>2, <2>3, <2>4, <2>5, <2>7, <2>8 DEF Next
<1>2. \A p \in Procs : LoadedOK(req[p])'
  <2>1. \A p \in Procs : req'[p] \in Requests
    BY <1>d DEF TypeOK, Requests
  <2> QED BY <1>1, <1>c, <2>1, LoadedOKKept DEF LoadedOK
\* A settlement is recorded only on an obligation that exists.
<1>3. \A k \in StlKeys : stl'[k].kind # "absent" => Exists(stl'[k].obl)
  <2>1. ASSUME NEW p \in Procs, SettleCommit(p), NEW k \in StlKeys, stl'[k].kind # "absent"
        PROVE  Exists(stl'[k].obl)
    <3>1. req[p] \in SettleRequest /\ Exists(req[p].obl)
      BY <2>1, <1>b, SettleFacts DEF LoadedRows, LoadedOK, SettleRequest
    <3>2. stl'[k] = stl[k] \/ stl'[k].obl = req[p].obl
      BY <2>1 DEF SettleCommit, TypeOK
    <3> QED BY <1>b, <2>1, <3>1, <3>2 DEF LoadedRows
  <2>2. ASSUME NEW p \in Procs, ReverseCommit(p), NEW k \in StlKeys, stl'[k].kind # "absent"
        PROVE  Exists(stl'[k].obl)
    <3>1. Exists(stl[req[p].orig].obl)
      BY <2>2, ReverseFacts
    <3>2. stl'[k] = stl[k] \/ stl'[k].obl = stl[req[p].orig].obl
      BY <2>2 DEF ReverseCommit, TypeOK
    <3> QED BY <1>b, <2>2, <3>1, <3>2 DEF LoadedRows
  <2>3. ASSUME UNCHANGED stl PROVE \A k \in StlKeys : stl'[k].kind # "absent" => Exists(stl'[k].obl)
    BY <1>b, <2>3 DEF LoadedRows
  <2> QED BY <2>1, <2>2, <2>3 DEF Next, CreateObligation, CreateIntent, SettleRead,
          ReverseRead, CancelRead, CancelCommit, Rollback
<1>4. \A k \in StlKeys : stl'[k].kind # "absent" => obl'[stl'[k].obl].status # "absent"
  <2>1. \A k \in StlKeys : stl'[k].kind # "absent" => stl'[k].obl \in OblKeys
    BY <1>d DEF TypeOK, Absent, Normal, Reversal
  <2>2. \A o \in OblKeys : Exists(o) => obl'[o].status # "absent"
    BY <1>c DEF RowsKept, Exists
  <2> QED BY <1>3, <2>1, <2>2
<1> QED BY <1>2, <1>4 DEF LoadedRows, Exists

LEMMA IInvInductive == IInv /\ [Next]_vars => IInv'
<1>1. ASSUME IInv, Next PROVE IInv'
  BY <1>1, NextTypeOK, NextLoadedRows, NextSettledWithinTotal DEF IInv
<1>2. ASSUME IInv, UNCHANGED vars PROVE IInv'
  BY <1>2 DEF IInv, vars, TypeOK, LoadedRows, LoadedOK, SettledWithinTotal, Exists, IntentMatches
<1> QED BY <1>1, <1>2

LEMMA Invariance == Spec => []IInv
BY InitIInv, IInvInductive, PTL DEF Spec

\* Every reachable state is well typed; in particular amount_settled never becomes
\* negative, although reverse_settlement computes it from a copy that may be outdated.
THEOREM TypeCorrect == Spec => []TypeOK
<1>1. IInv => TypeOK BY DEF IInv
<1> QED BY <1>1, Invariance, PTL

\* Whatever the interleaving of settlements, reversals and cancellations, amount_settled
\* stays between 0 and amount_total (service.py, the UPDATE of settle_obligation).
THEOREM SettledWithinTotalHolds == Spec => []SettledWithinTotal
<1>1. IInv => SettledWithinTotal BY DEF IInv
<1> QED BY <1>1, Invariance, PTL

-------------------------------------------------------------------------------
\* The payments that stand never exceed amount_settled, until a reversal has used an
\* outdated copy; an obligation that does not exist carries no payment.
NetInv ==
  /\ \A o \in OblKeys : o \notin stale => net[o] <= obl[o].settled
  /\ \A o \in OblKeys : ~ Exists(o) => net[o] = 0

LEMMA NextNetInv == ASSUME IInv, NetInv, Next PROVE NetInv'
<1>a. TypeOK BY DEF IInv
<1>b. RowsKept BY RowsAreKept
<1>c. \A o \in OblKeys : obl[o] \in Row
  BY <1>a DEF TypeOK, Row
<1> USE <1>a
<1>1. ASSUME NEW x \in OblKeys, NEW amt \in Amounts, CreateObligation(x, amt)
      PROVE  NetInv'
  <2>1. UNCHANGED <<net, stale>> /\ net[x] = 0
    BY <1>1 DEF CreateObligation, NetInv
  <2>2. \A o \in OblKeys : obl'[o] = obl[o] \/ (o = x /\ obl'[o].settled = 0)
    BY <1>1 DEF CreateObligation, TypeOK
  <2>3. \A o \in OblKeys : ~ Exists(o)' => ~ Exists(o)
    BY <1>b DEF RowsKept
  <2> QED BY <2>1, <2>2, <2>3 DEF NetInv
<1>2. ASSUME NEW p \in Procs, SettleCommit(p)
      PROVE  NetInv'
  <2> DEFINE r == req[p]
  <2>1. /\ r.obl \in OblKeys /\ r.amt \in Nat /\ Exists(r.obl)
    BY <1>2, SettleFacts DEF SettleRequest, SettleCommit, IInv, LoadedRows, LoadedOK
  <2>2. SettledRow(obl[r.obl], r.amt).settled = obl[r.obl].settled + r.amt
    <3> HIDE DEF r
    <3> QED BY <1>c, <2>1, SettledRowFacts
  <2>3. /\ \A o \in OblKeys \ {r.obl} : obl'[o] = obl[o] /\ net'[o] = net[o]
        /\ obl'[r.obl].settled = obl[r.obl].settled + r.amt
        /\ net'[r.obl] = net[r.obl] + r.amt
        /\ stale' = stale
    BY <1>2, <2>1, <2>2 DEF SettleCommit, TypeOK
  <2>4. \A o \in OblKeys : ~ Exists(o)' => ~ Exists(o)
    BY <1>b DEF RowsKept
  <2>5. obl[r.obl].settled \in Int /\ net[r.obl] \in Int
    BY <1>c, <2>1 DEF Row, TypeOK
  <2> HIDE DEF r
  <2>6. ASSUME NEW o \in OblKeys, o \notin stale' PROVE net'[o] <= obl'[o].settled
    BY <2>1, <2>3, <2>5, <2>6 DEF NetInv
  <2>7. ASSUME NEW o \in OblKeys, ~ Exists(o)' PROVE net'[o] = 0
    BY <2>1, <2>3, <2>4, <2>7 DEF NetInv
  <2> QED BY <2>6, <2>7 DEF NetInv
<1>3. ASSUME NEW p \in Procs, ReverseCommit(p)
      PROVE  NetInv'
  <2> DEFINE r == req[p]
             x == stl[r.orig].obl
             amt == stl[r.orig].amt
  <2>1. /\ x \in OblKeys /\ amt \in Nat /\ Exists(x) /\ r.settled \in Nat
    BY <1>3, ReverseFacts DEF Normal, ReverseRequest
  <2>2. r.settled = obl[x].settled =>
          ReversedRow(obl[x], r, amt).settled >= obl[x].settled - amt
    <3>1. obl[x] \in Row BY <1>c, <2>1
    <3> HIDE DEF r, x, amt
    <3> QED BY <2>1, <3>1, ReversedRowFacts
  <2>3. /\ \A o \in OblKeys \ {x} : obl'[o] = obl[o] /\ net'[o] = net[o]
        /\ obl'[x] = ReversedRow(obl[x], r, amt)
        /\ net'[x] = net[x] - amt
        /\ stale' = IF r.settled # obl[x].settled THEN stale \cup {x} ELSE stale
    <3> HIDE DEF r, x, amt
    <3>1. ReverseCommit(p) => /\ obl' = [obl EXCEPT ![x] = ReversedRow(@, r, amt)]
                              /\ net' = [net EXCEPT ![x] = @ - amt]
                              /\ stale' = IF r.settled # obl[x].settled THEN stale \cup {x} ELSE stale
      BY DEF ReverseCommit, r, x, amt
    <3> QED BY <1>3, <2>1, <3>1 DEF TypeOK
  <2>4. \A o \in OblKeys : ~ Exists(o)' => ~ Exists(o)
    BY <1>b DEF RowsKept
  <2>5. obl[x] \in Row /\ obl[x].settled \in Int /\ net[x] \in Int /\ obl'[x].settled \in Int
    <3>1. TypeOK' BY NextTypeOK
    <3> QED BY <1>c, <2>1, <3>1 DEF Row, TypeOK
  <2> HIDE DEF r, x, amt
  <2>6. ASSUME NEW o \in OblKeys, o \notin stale' PROVE net'[o] <= obl'[o].settled
    <3>1. CASE o = x
      <4>1. x \notin stale /\ r.settled = obl[x].settled
        BY <2>3, <2>6, <3>1
      <4>2. net[x] <= obl[x].settled
        BY <2>1, <4>1 DEF NetInv
      <4>3. obl'[x].settled >= obl[x].settled - amt
        BY <2>2, <2>3, <4>1
      <4> QED BY <2>1, <2>3, <2>5, <3>1, <4>2, <4>3
    <3>2. CASE o # x
      BY <2>3, <2>6, <3>2 DEF NetInv
    <3> QED BY <3>1, <3>2
  <2>7. ASSUME NEW o \in OblKeys, ~ Exists(o)' PROVE net'[o] = 0
    BY <2>1, <2>3, <2>4, <2>7 DEF NetInv
  <2> QED BY <2>6, <2>7 DEF NetInv
<1>4. ASSUME NEW p \in Procs, CancelCommit(p)
      PROVE  NetInv'
  <2>1. UNCHANGED <<net, stale>>
    BY <1>4 DEF CancelCommit
  <2>2. req[p] \in CancelRequest
    BY <1>4, RequestKinds DEF CancelCommit, TypeOK, Requests
  <2>3. \A o \in OblKeys : obl'[o].settled = obl[o].settled
    BY <1>4, <2>2 DEF CancelCommit, CancelRequest, TypeOK
  <2>4. \A o \in OblKeys : ~ Exists(o)' => ~ Exists(o)
    BY <1>b DEF RowsKept
  <2> QED BY <2>1, <2>3, <2>4 DEF NetInv
<1>5. ASSUME UNCHANGED <<obl, net, stale>> PROVE NetInv'
  BY <1>5 DEF NetInv, Exists
<1>6. ASSUME NEW i, NEW o, CreateIntent(i, o) PROVE UNCHANGED <<obl, net, stale>>
  BY <1>6 DEF CreateIntent
<1>7. ASSUME NEW p \in Procs, NEW k, NEW o, NEW amt, NEW i, NEW skip,
             SettleRead(p, k, o, amt, i, skip) \/ ReverseRead(p, k, o)
               \/ CancelRead(p, o) \/ Rollback(p)
      PROVE  UNCHANGED <<obl, net, stale>>
  BY <1>7 DEF SettleRead, ReverseRead, CancelRead, Rollback
<1> QED BY <1>1, <1>2, <1>3, <1>4, <1>5, <1>6, <1>7 DEF Next

\* Until a reversal has written an obligation from an outdated copy, what was paid on it
\* and not reversed is at most what was due: settle_obligation accepts no overpayment.
THEOREM NoOverpaymentUnlessStaleHolds == Spec => []NoOverpaymentUnlessStale
<1>1. Init => NetInv
  BY DEF Init, NetInv, Exists
<1>2. IInv /\ NetInv /\ [Next]_vars => NetInv'
  <2>1. ASSUME NetInv, UNCHANGED vars PROVE NetInv'
    BY <2>1 DEF NetInv, Exists, vars
  <2> QED BY <2>1, NextNetInv
<1>3. IInv /\ NetInv => NoOverpaymentUnlessStale
  <2>1. ASSUME IInv, NetInv, NEW o \in OblKeys, o \notin stale PROVE net[o] <= obl[o].total
    <3>1. net[o] \in Int /\ obl[o].settled \in Nat /\ obl[o].total \in Nat
      BY <2>1 DEF IInv, TypeOK
    <3>2. net[o] <= obl[o].settled /\ obl[o].settled <= obl[o].total
      BY <2>1 DEF IInv, NetInv, SettledWithinTotal
    <3> QED BY <3>1, <3>2
  <2> QED BY <2>1 DEF NoOverpaymentUnlessStale
<1> QED BY <1>1, <1>2, <1>3, Invariance, PTL DEF Spec

-------------------------------------------------------------------------------
\* How a step changes the settlements and what they amount to.
LEMMA MoneySteps ==
  ASSUME IInv, Next
  PROVE  \/ UNCHANGED <<stl, net>>
         \/ \E k \in StlKeys, e \in Normal :
              /\ stl[k] = Absent /\ stl' = [stl EXCEPT ![k] = e]
              /\ net' = [net EXCEPT ![e.obl] = @ + e.amt]
         \/ \E k, orig \in StlKeys :
              /\ stl[k] = Absent /\ stl[orig] \in Normal /\ ~ IsReversed(orig)
              /\ stl' = [stl EXCEPT ![k] = [kind |-> "reversal", obl |-> stl[orig].obl,
                                            amt |-> stl[orig].amt, reverses |-> orig]]
              /\ net' = [net EXCEPT ![stl[orig].obl] = @ - stl[orig].amt]
<1>1. ASSUME NEW p \in Procs, SettleCommit(p)
      PROVE  \E k \in StlKeys, e \in Normal :
               /\ stl[k] = Absent /\ stl' = [stl EXCEPT ![k] = e]
               /\ net' = [net EXCEPT ![e.obl] = @ + e.amt]
  <2> DEFINE r == req[p]
             e == [kind |-> "normal", obl |-> r.obl, amt |-> r.amt, intent |-> r.intent]
  <2>1. r.key \in StlKeys /\ e \in Normal
    BY <1>1, SettleFacts DEF SettleRequest, Normal
  <2>2. stl[r.key] = Absent /\ stl' = [stl EXCEPT ![r.key] = e]
    BY <1>1 DEF SettleCommit, KeyFree
  <2>3. net' = [net EXCEPT ![r.obl] = @ + r.amt]
    BY <1>1 DEF SettleCommit
  <2>4. e.obl = r.obl /\ e.amt = r.amt
    OBVIOUS
  <2> HIDE DEF e
  <2> QED BY <2>1, <2>2, <2>3, <2>4
<1>2. ASSUME NEW p \in Procs, ReverseCommit(p)
      PROVE  \E k, orig \in StlKeys :
              /\ stl[k] = Absent /\ stl[orig] \in Normal /\ ~ IsReversed(orig)
              /\ stl' = [stl EXCEPT ![k] = [kind |-> "reversal", obl |-> stl[orig].obl,
                                            amt |-> stl[orig].amt, reverses |-> orig]]
              /\ net' = [net EXCEPT ![stl[orig].obl] = @ - stl[orig].amt]
  <2>1. req[p].key \in StlKeys /\ req[p].orig \in StlKeys /\ stl[req[p].orig] \in Normal
    BY <1>2, ReverseFacts DEF ReverseRequest
  <2>2. /\ stl[req[p].key] = Absent /\ ~ IsReversed(req[p].orig)
        /\ stl' = [stl EXCEPT ![req[p].key] =
                     [kind |-> "reversal", obl |-> stl[req[p].orig].obl,
                      amt |-> stl[req[p].orig].amt, reverses |-> req[p].orig]]
        /\ net' = [net EXCEPT ![stl[req[p].orig].obl] = @ - stl[req[p].orig].amt]
    BY <1>2 DEF ReverseCommit, KeyFree
  <2> QED BY <2>1, <2>2
<1>3. ASSUME NEW p \in Procs, CancelCommit(p) \/ Rollback(p)
      PROVE  UNCHANGED <<stl, net>>
  BY <1>3 DEF CancelCommit, Rollback
<1>4. ASSUME NEW p, NEW k, NEW o, NEW amt, NEW i, NEW skip,
             \/ SettleRead(p, k, o, amt, i, skip) \/ ReverseRead(p, k, o) \/ CancelRead(p, o)
             \/ CreateObligation(o, amt) \/ CreateIntent(i, o)
      PROVE  UNCHANGED <<stl, net>>
  BY <1>4 DEF SettleRead, ReverseRead, CancelRead, CreateObligation, CreateIntent
<1> QED BY <1>1, <1>2, <1>3, <1>4 DEF Next

\* How a step may change the table of settlements.
LEMMA StlSteps ==
  ASSUME IInv, Next
  PROVE  \/ UNCHANGED stl
         \/ \E k \in StlKeys, e \in Normal :
              stl[k] = Absent /\ stl' = [stl EXCEPT ![k] = e]
         \/ \E k, orig \in StlKeys :
              /\ stl[k] = Absent /\ stl[orig] \in Normal /\ ~ IsReversed(orig)
              /\ stl' = [stl EXCEPT ![k] = [kind |-> "reversal", obl |-> stl[orig].obl,
                                            amt |-> stl[orig].amt, reverses |-> orig]]
BY MoneySteps

\* Two concurrent reversals never both undo the same settlement (the check of
\* reverse_settlement and the UNIQUE index behind it).
THEOREM ReversedAtMostOnceHolds == Spec => []ReversedAtMostOnce
<1>1. Init => ReversedAtMostOnce
  BY DEF Init, ReversedAtMostOnce, Absent
<1>2. IInv /\ ReversedAtMostOnce /\ [Next]_vars => ReversedAtMostOnce'
  <2>1. ASSUME IInv, ReversedAtMostOnce, NEW k \in StlKeys, NEW e \in Normal,
               stl' = [stl EXCEPT ![k] = e]
        PROVE  ReversedAtMostOnce'
    BY <2>1 DEF ReversedAtMostOnce, Normal, IInv, TypeOK
  <2>2. ASSUME IInv, ReversedAtMostOnce, NEW k \in StlKeys, NEW orig \in StlKeys,
               ~ IsReversed(orig),
               stl' = [stl EXCEPT ![k] = [kind |-> "reversal", obl |-> stl[orig].obl,
                                          amt |-> stl[orig].amt, reverses |-> orig]]
        PROVE  ReversedAtMostOnce'
    BY <2>2 DEF ReversedAtMostOnce, IsReversed, IInv, TypeOK
  <2>3. ASSUME ReversedAtMostOnce, UNCHANGED stl PROVE ReversedAtMostOnce'
    BY <2>3 DEF ReversedAtMostOnce
  <2> QED BY <2>1, <2>2, <2>3, StlSteps DEF vars
<1> QED BY <1>1, <1>2, Invariance, PTL DEF Spec

\* Finance Core keeps the promise of the ledger: a key is decided once and for all, and
\* a settlement is undone at most once, by its exact mirror.
THEOREM ImplementsLedger == Spec => LedgerSpec
<1>1. Init => Ledger!Init
  BY DEF Init, Ledger!Init, Absent, Ledger!Absent
<1>2. IInv /\ [Next]_vars => [Ledger!Next]_stl
  <2>1. ASSUME NEW k \in StlKeys, NEW e \in Normal,
               stl[k] = Absent, stl' = [stl EXCEPT ![k] = e]
        PROVE  Ledger!Next
    <3>1. Ledger!Post(k, e)
      BY <2>1 DEF Ledger!Post, Ledger!Absent, Absent
    <3>2. e \in Ledger!Normal
      BY DEF Ledger!Normal, Normal
    <3> QED BY <3>1, <3>2 DEF Ledger!Next
  <2>2. ASSUME NEW k \in StlKeys, NEW orig \in StlKeys,
               stl[k] = Absent, stl[orig] \in Normal, ~ IsReversed(orig),
               stl' = [stl EXCEPT ![k] = [kind |-> "reversal", obl |-> stl[orig].obl,
                                          amt |-> stl[orig].amt, reverses |-> orig]]
        PROVE  Ledger!Next
    <3>1. Ledger!Undo(k, orig)
      BY <2>2 DEF Ledger!Undo, Ledger!Absent, Ledger!IsReversed, Absent, IsReversed, Normal
    <3> QED BY <3>1 DEF Ledger!Next
  <2> QED BY <2>1, <2>2, StlSteps DEF vars
<1> QED BY <1>1, <1>2, Invariance, PTL DEF Spec, LedgerSpec, Ledger!Spec

-------------------------------------------------------------------------------
LEMMA NextIntent ==
  ASSUME IInv, IntentSettledByItsObligation, Next
  PROVE  IntentSettledByItsObligation'
<1>a. TypeOK BY DEF IInv
<1>b. RowsKept BY RowsAreKept
\* A payment already recorded keeps backing its intent.
<1>1. ASSUME NEW i \in IntentKeys, intent[i].status = "settled"
      PROVE  \E k \in StlKeys : /\ stl'[k].kind = "normal" /\ stl'[k].intent = i
                                /\ stl'[k].obl = intent'[i].obl
  <2>1. PICK k \in StlKeys : /\ stl[k].kind = "normal" /\ stl[k].intent = i
                             /\ stl[k].obl = intent[i].obl
    BY <1>1 DEF IntentSettledByItsObligation
  <2>2. stl'[k] = stl[k] /\ intent'[i].obl = intent[i].obl
    BY <1>b, <1>1, <2>1 DEF RowsKept, Absent
  <2> QED BY <2>1, <2>2
\* An intent becomes settled only with the payment that settles it.
<1>2. ASSUME NEW p \in Procs, SettleCommit(p), NEW i \in IntentKeys,
             intent'[i].status = "settled", intent[i].status # "settled"
      PROVE  \E k \in StlKeys : /\ stl'[k].kind = "normal" /\ stl'[k].intent = i
                                /\ stl'[k].obl = intent'[i].obl
  <2> DEFINE r == req[p]
  <2>a. r \in SettleRequest
    BY <1>2, <1>a, SettleFacts
  <2>b. intent' = IF r.intent = None THEN intent
                  ELSE [intent EXCEPT ![r.intent].status = "settled"]
    BY <1>2 DEF SettleCommit
  <2>c. intent \in [IntentKeys -> [status : {"absent", "pending", "settled"},
                                  obl : OblKeys \cup {None}]]
    BY <1>a DEF TypeOK
  <2>d. r.intent = i
    BY <1>2, <2>b, <2>c
  <2>e. intent'[i].obl = intent[i].obl
    BY <2>b, <2>c, <2>d
  <2>1. r \in SettleRequest /\ r.intent = i /\ intent'[i].obl = intent[i].obl
    BY <2>a, <2>d, <2>e
  <2>2. intent[i].obl = r.obl
    BY <1>2, <2>1 DEF IInv, LoadedRows, LoadedOK, IntentMatches, SettleCommit
  <2>3. stl'[r.key] = [kind |-> "normal", obl |-> r.obl, amt |-> r.amt, intent |-> r.intent]
    BY <1>2, <1>a, <2>1 DEF SettleCommit, TypeOK, SettleRequest
  <2>4. r.key \in StlKeys
    BY <2>1 DEF SettleRequest
  <2> QED BY <2>1, <2>2, <2>3, <2>4
<1>3. ASSUME ~ \E p \in Procs : SettleCommit(p), NEW i \in IntentKeys,
             intent'[i].status = "settled"
      PROVE  intent[i].status = "settled"
  <2>1. ASSUME NEW j \in IntentKeys, NEW o \in OblKeys \cup {None}, CreateIntent(j, o)
        PROVE  intent[i].status = "settled"
    BY <1>3, <1>a, <2>1 DEF CreateIntent, TypeOK
  <2>2. ASSUME UNCHANGED intent PROVE intent[i].status = "settled"
    BY <1>3, <2>2
  <2>3. ASSUME NEW p, NEW k, NEW o, NEW amt, NEW x, NEW skip,
               \/ CreateObligation(o, amt) \/ SettleRead(p, k, o, amt, x, skip)
               \/ ReverseRead(p, k, o) \/ ReverseCommit(p) \/ CancelRead(p, o)
               \/ CancelCommit(p) \/ Rollback(p)
        PROVE  UNCHANGED intent
    BY <2>3 DEF CreateObligation, SettleRead, ReverseRead, ReverseCommit, CancelRead,
                CancelCommit, Rollback
  <2> QED BY <1>3, <2>1, <2>2, <2>3 DEF Next
<1> QED BY <1>1, <1>2, <1>3 DEF IntentSettledByItsObligation

\* An intent is settled only by a payment recorded on the obligation it was created for:
\* settle_obligation checks it before any write, and neither row changes afterwards.
THEOREM IntentSettledByItsObligationHolds == Spec => []IntentSettledByItsObligation
<1>1. Init => IntentSettledByItsObligation
  BY DEF Init, IntentSettledByItsObligation
<1>2. IInv /\ IntentSettledByItsObligation /\ [Next]_vars => IntentSettledByItsObligation'
  <2>1. ASSUME IntentSettledByItsObligation, UNCHANGED vars
        PROVE  IntentSettledByItsObligation'
    BY <2>1 DEF IntentSettledByItsObligation, vars
  <2> QED BY <2>1, NextIntent
<1> QED BY <1>1, <1>2, Invariance, PTL DEF Spec

-------------------------------------------------------------------------------
(* Sums.  A function g on sets of keys that grows by a[k] when k joins a set gives *)
(* the sum of a over each of them.  It needs no counting, and follows a when one of *)
(* its values changes.                                                              *)

IsSum(g, a, K) ==
  /\ g \in [SUBSET K -> Nat] /\ g[{}] = 0
  /\ \A S \in SUBSET K : \A k \in S : g[S] = g[S \ {k}] + a[k]

With(f, k, v) == [f EXCEPT ![k] = v]

\* The sum once the value at k is v.
Resummed(g, K, k, v) == [S \in SUBSET K |-> IF k \in S THEN g[S \ {k}] + v ELSE g[S]]

\* Each value is part of the sum.
LEMMA PartOfTheSum ==
  ASSUME NEW K, NEW a \in [K -> Nat], NEW g, IsSum(g, a, K), NEW k \in K
  PROVE  /\ g[K] \in Nat /\ g[K \ {k}] \in Nat
         /\ g[K] = g[K \ {k}] + a[k] /\ a[k] <= g[K]
<1>1. g[K] \in Nat /\ g[K \ {k}] \in Nat
  BY DEF IsSum
<1>2. g[K] = g[K \ {k}] + a[k]
  BY DEF IsSum
<1> QED BY <1>1, <1>2

\* When one value changes, the sum changes by as much.
LEMMA SumFollows ==
  ASSUME NEW K, NEW a \in [K -> Nat], NEW g, IsSum(g, a, K), NEW k \in K, NEW v \in Nat
  PROVE  \E h : /\ IsSum(h, With(a, k, v), K) /\ h[K] = g[K] - a[k] + v
               /\ \A S \in SUBSET K : k \notin S => h[S] = g[S]
<1> USE DEF With
<1> DEFINE h == Resummed(g, K, k, v)
           b == With(a, k, v)
<1>1. \A S \in SUBSET K : g[S] \in Nat
  BY DEF IsSum
<1>2. \A S \in SUBSET K : h[S] = IF k \in S THEN g[S \ {k}] + v ELSE g[S]
  BY DEF Resummed
<1>3. h \in [SUBSET K -> Nat]
  <2>1. \A S \in SUBSET K : (IF k \in S THEN g[S \ {k}] + v ELSE g[S]) \in Nat
    <3> SUFFICES ASSUME NEW S \in SUBSET K PROVE (IF k \in S THEN g[S \ {k}] + v ELSE g[S]) \in Nat
      OBVIOUS
    <3>1. S \ {k} \in SUBSET K
      OBVIOUS
    <3>2. g[S] \in Nat /\ g[S \ {k}] \in Nat
      BY <1>1, <3>1
    <3> QED BY <3>2
  <2> QED BY <2>1 DEF Resummed
<1>4. ASSUME NEW S \in SUBSET K, NEW j \in S
      PROVE  h[S] = h[S \ {j}] + b[j]
  <2>1. S \ {j} \in SUBSET K /\ S \ {k} \in SUBSET K
    OBVIOUS
  <2>2. CASE j = k
    <3>1. h[S] = g[S \ {k}] + v
      BY <1>2, <2>2
    <3>2. h[S \ {k}] = g[S \ {k}]
      BY <1>2, <2>1
    <3>3. b[k] = v
      OBVIOUS
    <3> QED BY <2>2, <3>1, <3>2, <3>3
  <2>3. CASE j # k /\ k \in S
    <3>1. h[S] = g[S \ {k}] + v
      BY <1>2, <2>3
    <3>2. h[S \ {j}] = g[(S \ {j}) \ {k}] + v
      BY <1>2, <2>1, <2>3
    <3>3. (S \ {j}) \ {k} = (S \ {k}) \ {j}
      OBVIOUS
    <3>4. g[S \ {k}] = g[(S \ {k}) \ {j}] + a[j]
      BY <2>1, <2>3 DEF IsSum
    <3>5. b[j] = a[j] /\ a[j] \in Nat
      BY <2>3
    <3>6. g[(S \ {k}) \ {j}] \in Nat
      <4>1. (S \ {k}) \ {j} \in SUBSET K
        OBVIOUS
      <4> QED BY <1>1, <4>1
    <3>7. h[S] = g[S \ {k}] + v /\ h[S \ {j}] = g[(S \ {k}) \ {j}] + v
      BY <3>1, <3>2, <3>3
    <3> HIDE DEF h, b
    <3> QED BY <3>4, <3>5, <3>6, <3>7
  <2>4. CASE k \notin S
    <3>1. h[S] = g[S] /\ h[S \ {j}] = g[S \ {j}]
      BY <1>2, <2>1, <2>4
    <3>2. g[S] = g[S \ {j}] + a[j]
      BY DEF IsSum
    <3>3. b[j] = a[j]
      BY <2>4
    <3> HIDE DEF h, b
    <3> QED BY <3>1, <3>2, <3>3
  <2> QED BY <2>2, <2>3, <2>4
<1>5. h[K] = g[K] - a[k] + v
  <2>1. h[K] = g[K \ {k}] + v
    BY <1>2
  <2>2. g[K] = g[K \ {k}] + a[k] /\ g[K \ {k}] \in Nat /\ g[K] \in Nat /\ a[k] \in Nat
    BY PartOfTheSum
  <2> HIDE DEF h
  <2> QED BY <2>1, <2>2
<1>6. h[{}] = 0 /\ \A S \in SUBSET K : k \notin S => h[S] = g[S]
  BY <1>2 DEF IsSum
<1> HIDE DEF h
<1>7. IsSum(h, b, K)
  BY <1>3, <1>4, <1>6 DEF IsSum
<1> QED BY <1>5, <1>6, <1>7

-------------------------------------------------------------------------------
(* What an obligation has received is the sum of the payments on it that stand, and   *)
(* what it shows tells that sum until a reversal has used an outdated copy.          *)

Stands(o, k) == stl[k].kind = "normal" /\ stl[k].obl = o /\ ~ IsReversed(k)
Counted(o) == [k \in StlKeys |-> IF Stands(o, k) THEN stl[k].amt ELSE 0]

Explained == \A o \in OblKeys : \E g : IsSum(g, Counted(o), StlKeys) /\ g[StlKeys] = net[o]

\* What is undone is a payment.
UndoesPayments ==
  \A k \in StlKeys : stl[k].kind = "reversal" => stl[stl[k].reverses].kind = "normal"

Tells(status, settled, total) ==
  status \in {"open", "partially_settled", "settled"} => status = StatusFor(settled, total)

\* The row of an obligation, and the copy a reversal has of it
Exact(row, paid) == row.settled = paid /\ Tells(row.status, row.settled, row.total)
ExactRows == \A o \in OblKeys : o \notin stale => Exact(obl[o], net[o])
ExactCopies ==
  \A p \in Procs : req[p].op = "reverse" =>
    LET o == stl[req[p].orig].obl
    IN o \notin stale => Tells(req[p].status, req[p].settled, obl[o].total)

Balanced == NetInv /\ UndoesPayments /\ Explained /\ ExactRows /\ ExactCopies

LEMMA NextUndoesPayments == ASSUME IInv, UndoesPayments, Next PROVE UndoesPayments'
<1>a. stl \in [StlKeys -> {Absent} \cup Normal \cup Reversal]
  BY DEF IInv, TypeOK
<1>b. \A k \in StlKeys : stl[k].kind = "reversal" => stl[k].reverses \in StlKeys
  BY <1>a, EntryKinds DEF Reversal
<1>1. ASSUME NEW k \in StlKeys, NEW e \in Normal, stl[k] = Absent, stl' = [stl EXCEPT ![k] = e]
      PROVE  UndoesPayments'
  BY <1>a, <1>b, <1>1 DEF UndoesPayments, Normal, Absent
<1>2. ASSUME NEW k \in StlKeys, NEW orig \in StlKeys, stl[k] = Absent, stl[orig] \in Normal,
             stl' = [stl EXCEPT ![k] = [kind |-> "reversal", obl |-> stl[orig].obl,
                                        amt |-> stl[orig].amt, reverses |-> orig]]
      PROVE  UndoesPayments'
  BY <1>a, <1>b, <1>2 DEF UndoesPayments, Normal, Absent
<1>3. UNCHANGED stl => UndoesPayments'
  BY DEF UndoesPayments
<1> QED BY <1>1, <1>2, <1>3, StlSteps

\* A payment adds itself to what stands on its obligation, and to nothing else.
LEMMA PaymentStands ==
  ASSUME TypeOK, UndoesPayments, NEW k \in StlKeys, NEW e \in Normal, NEW o \in OblKeys,
         stl[k] = Absent, stl' = With(stl, k, e)
  PROVE  /\ Counted(o)[k] = 0
         /\ Counted(o)' = IF e.obl = o THEN With(Counted(o), k, e.amt) ELSE Counted(o)
<1> USE DEF With
<1>a. stl \in [StlKeys -> {Absent} \cup Normal \cup Reversal]
  BY DEF TypeOK
<1>b. stl'[k] = e /\ e.kind = "normal" /\ \A j \in StlKeys \ {k} : stl'[j] = stl[j]
  BY <1>a DEF Normal
<1>c. \A j \in StlKeys : stl[j].kind = "reversal" => j # k /\ stl[j].reverses # k
  BY DEF UndoesPayments, Absent
<1>1. ~ IsReversed(k)'
  BY <1>b, <1>c DEF IsReversed
<1>2. \A j \in StlKeys : IsReversed(j)' <=> IsReversed(j)
  BY <1>b, <1>c DEF IsReversed
<1>3. \A j \in StlKeys \ {k} : Stands(o, j)' <=> Stands(o, j)
  BY <1>b, <1>2 DEF Stands
<1>4. Stands(o, k)' <=> e.obl = o
  BY <1>b, <1>1 DEF Stands
<1>5. ~ Stands(o, k)
  BY DEF Stands, Absent
<1>6. \A j \in StlKeys \ {k} : Counted(o)'[j] = Counted(o)[j]
  BY <1>b, <1>3 DEF Counted
<1>7. Counted(o)[k] = 0 /\ Counted(o)'[k] = IF e.obl = o THEN e.amt ELSE 0
  BY <1>b, <1>4, <1>5 DEF Counted
<1>8. /\ Counted(o) = [j \in StlKeys |-> Counted(o)[j]]
      /\ Counted(o)' = [j \in StlKeys |-> Counted(o)'[j]]
  BY DEF Counted
<1> QED BY <1>6, <1>7, <1>8

MirrorOf(orig) ==
  [kind |-> "reversal", obl |-> stl[orig].obl, amt |-> stl[orig].amt, reverses |-> orig]

\* A reversal takes its payment out of what stands on its obligation, and nothing else.
LEMMA ReversalStands ==
  ASSUME TypeOK, NEW k \in StlKeys, NEW orig \in StlKeys, NEW o \in OblKeys,
         stl[k] = Absent, stl[orig] \in Normal, ~ IsReversed(orig),
         stl' = With(stl, k, MirrorOf(orig))
  PROVE  /\ Counted(o)[orig] = IF stl[orig].obl = o THEN stl[orig].amt ELSE 0
         /\ Counted(o)' = With(Counted(o), orig, 0)
<1> USE DEF With, MirrorOf
<1>a. stl \in [StlKeys -> {Absent} \cup Normal \cup Reversal]
  BY DEF TypeOK
<1>b. /\ stl'[k].kind = "reversal" /\ stl'[k].reverses = orig
      /\ \A j \in StlKeys \ {k} : stl'[j] = stl[j]
  BY <1>a
<1>c. stl[k].kind = "absent" /\ orig # k /\ stl[orig].kind = "normal"
  BY DEF Absent, Normal
<1>1. IsReversed(orig)'
  BY <1>b DEF IsReversed
<1>2. \A j \in StlKeys \ {orig} : IsReversed(j)' <=> IsReversed(j)
  BY <1>b, <1>c DEF IsReversed
<1>3. \A j \in StlKeys \ {orig} : Stands(o, j)' <=> Stands(o, j)
  <2>1. ~ Stands(o, k) /\ ~ Stands(o, k)'
    BY <1>b, <1>c DEF Stands
  <2> QED BY <1>b, <1>2, <2>1 DEF Stands
<1>4. /\ ~ Stands(o, orig)'
      /\ Stands(o, orig) <=> stl[orig].obl = o
  BY <1>1, <1>c DEF Stands
<1>5. \A j \in StlKeys \ {orig} : Counted(o)'[j] = Counted(o)[j]
  <2> SUFFICES ASSUME NEW j \in StlKeys \ {orig} PROVE Counted(o)'[j] = Counted(o)[j]
    OBVIOUS
  <2>1. CASE j = k
    <3>1. ~ Stands(o, k) /\ ~ Stands(o, k)'
      BY <1>b, <1>c DEF Stands
    <3> QED BY <2>1, <3>1 DEF Counted
  <2>2. CASE j # k
    BY <1>b, <1>3, <2>2 DEF Counted
  <2> QED BY <2>1, <2>2
<1>6. Counted(o)'[orig] = 0 /\ Counted(o)[orig] = IF stl[orig].obl = o THEN stl[orig].amt ELSE 0
  BY <1>4 DEF Counted
<1>7. /\ Counted(o) = [j \in StlKeys |-> Counted(o)[j]]
      /\ Counted(o)' = [j \in StlKeys |-> Counted(o)'[j]]
  BY DEF Counted
<1> QED BY <1>5, <1>6, <1>7

LEMMA CountedType ==
  ASSUME TypeOK, NEW o \in OblKeys PROVE Counted(o) \in [StlKeys -> Nat]
<1>1. ASSUME NEW k \in StlKeys, Stands(o, k) PROVE stl[k].amt \in Nat
  <2>1. stl[k] \in Normal
    <3>1. stl[k] \in {Absent} \cup Normal \cup Reversal
      BY <1>1 DEF TypeOK
    <3>2. stl[k].kind = "normal"
      BY <1>1 DEF Stands
    <3> QED BY <3>1, <3>2, EntryKinds
  <2> QED BY <2>1 DEF Normal
<1> QED BY <1>1 DEF Counted

LEMMA NextExplained ==
  ASSUME IInv, UndoesPayments, Explained, Next
  PROVE  Explained'
<1>a. TypeOK
  BY DEF IInv
<1> SUFFICES ASSUME NEW o \in OblKeys
             PROVE  \E h : IsSum(h, Counted(o)', StlKeys) /\ h[StlKeys] = net'[o]
  BY DEF Explained
<1>b. PICK g : IsSum(g, Counted(o), StlKeys) /\ g[StlKeys] = net[o]
  BY DEF Explained
<1>c. Counted(o) \in [StlKeys -> Nat]
  BY <1>a, CountedType
<1>d. net \in [OblKeys -> Int] /\ net[o] \in Int
  BY <1>a DEF TypeOK
<1>1. CASE UNCHANGED <<stl, net>>
  <2>1. Counted(o)' = Counted(o)
    BY <1>1 DEF Counted, Stands, IsReversed
  <2> QED BY <1>1, <1>b, <2>1
<1>2. ASSUME NEW k \in StlKeys, NEW e \in Normal, stl[k] = Absent, stl' = [stl EXCEPT ![k] = e],
             net' = [net EXCEPT ![e.obl] = @ + e.amt]
      PROVE  \E h : IsSum(h, Counted(o)', StlKeys) /\ h[StlKeys] = net'[o]
  <2>1. /\ Counted(o)[k] = 0
        /\ Counted(o)' = IF e.obl = o THEN With(Counted(o), k, e.amt) ELSE Counted(o)
    <3>1. stl' = With(stl, k, e)
      BY <1>2 DEF With
    <3>2. k \in StlKeys /\ e \in Normal /\ stl[k] = Absent
      BY <1>2
    <3> QED BY <1>a, <3>1, <3>2, PaymentStands
  <2>2. e.obl \in OblKeys /\ e.amt \in Nat
    BY <1>2 DEF Normal
  <2>3. net'[o] = IF e.obl = o THEN net[o] + e.amt ELSE net[o]
    BY <1>d, <1>2, <2>2
  <2>4. CASE e.obl = o
    <3>1. PICK h : IsSum(h, With(Counted(o), k, e.amt), StlKeys)
                   /\ h[StlKeys] = g[StlKeys] - Counted(o)[k] + e.amt
      BY <1>2, <1>b, <1>c, <2>2, SumFollows
    <3>2. h[StlKeys] = net'[o]
      BY <1>b, <1>d, <2>1, <2>2, <2>3, <2>4, <3>1
    <3> QED BY <2>1, <2>4, <3>1, <3>2
  <2>5. CASE e.obl # o
    BY <1>b, <2>1, <2>3, <2>5
  <2> QED BY <2>4, <2>5
<1>3. ASSUME NEW k \in StlKeys, NEW orig \in StlKeys,
             stl[k] = Absent, stl[orig] \in Normal, ~ IsReversed(orig),
             stl' = [stl EXCEPT ![k] = [kind |-> "reversal", obl |-> stl[orig].obl,
                                        amt |-> stl[orig].amt, reverses |-> orig]],
             net' = [net EXCEPT ![stl[orig].obl] = @ - stl[orig].amt]
      PROVE  \E h : IsSum(h, Counted(o)', StlKeys) /\ h[StlKeys] = net'[o]
  <2>1. /\ Counted(o)[orig] = IF stl[orig].obl = o THEN stl[orig].amt ELSE 0
        /\ Counted(o)' = With(Counted(o), orig, 0)
    <3>1. stl' = With(stl, k, MirrorOf(orig))
      BY <1>3 DEF With, MirrorOf
    <3>2. /\ k \in StlKeys /\ orig \in StlKeys
          /\ stl[k] = Absent /\ stl[orig] \in Normal /\ ~ IsReversed(orig)
      BY <1>3
    <3> QED BY <1>a, <3>1, <3>2, ReversalStands
  <2>2. stl[orig].obl \in OblKeys /\ stl[orig].amt \in Nat
    BY <1>3 DEF Normal
  <2>3. net'[o] = IF stl[orig].obl = o THEN net[o] - stl[orig].amt ELSE net[o]
    BY <1>d, <1>3, <2>2
  <2>4. PICK h : IsSum(h, With(Counted(o), orig, 0), StlKeys)
                 /\ h[StlKeys] = g[StlKeys] - Counted(o)[orig] + 0
    BY <1>3, <1>b, <1>c, SumFollows
  <2>5. h[StlKeys] = net'[o]
    BY <1>b, <1>d, <2>1, <2>2, <2>3, <2>4
  <2> QED BY <2>1, <2>4, <2>5
<1> QED BY <1>1, <1>2, <1>3, MoneySteps

\* A payment that stands is part of what its obligation has received.
LEMMA StandingIsReceived ==
  ASSUME TypeOK, Explained, NEW k \in StlKeys, stl[k] \in Normal, ~ IsReversed(k)
  PROVE  stl[k].amt <= net[stl[k].obl]
<1> DEFINE o == stl[k].obl
<1>1. o \in OblKeys /\ stl[k].kind = "normal"
  BY DEF Normal
<1>2. PICK g : IsSum(g, Counted(o), StlKeys) /\ g[StlKeys] = net[o]
  BY <1>1 DEF Explained
<1>3. Counted(o)[k] = stl[k].amt
  BY <1>1 DEF Counted, Stands
<1>4. Counted(o) \in [StlKeys -> Nat]
  BY <1>1, CountedType
<1>5. Counted(o)[k] <= g[StlKeys]
  <2> HIDE DEF o
  <2> QED BY <1>2, <1>4, PartOfTheSum
<1> QED BY <1>2, <1>3, <1>5

-------------------------------------------------------------------------------
\* A payment leaves the row exact.
LEMMA ExactAfterPayment ==
  ASSUME NEW row \in Row, NEW paid \in Int, NEW amt \in Nat, Exact(row, paid)
  PROVE  Exact(SettledRow(row, amt), paid + amt)
BY DEF Exact, Tells, SettledRow, Row

\* So does a reversal that works from the row as it is and undoes what is part of it.
LEMMA ExactAfterReversal ==
  ASSUME NEW row \in Row, NEW paid \in Int, NEW amt \in Nat \ {0}, NEW loaded,
         Exact(row, paid), amt <= paid, loaded.settled = row.settled,
         Tells(loaded.status, loaded.settled, row.total)
  PROVE  Exact(ReversedRow(row, loaded, amt), paid - amt)
<1> DEFINE left == row.settled - amt
<1>1. row.settled = paid /\ row.settled \in Nat /\ row.total \in Nat
  BY DEF Exact, Row
<1>2. Restored(loaded.settled, amt) = left /\ left # loaded.settled
  BY <1>1 DEF Restored
<1>3. ReversedRow(row, loaded, amt) =
        [status |-> IF StatusFor(left, row.total) # loaded.status
                    THEN StatusFor(left, row.total) ELSE row.status,
         total |-> row.total, settled |-> left]
  BY <1>2 DEF ReversedRow
<1> HIDE DEF left
<1>4. StatusFor(left, row.total) \in {"open", "partially_settled", "settled"}
  BY StatusForType
<1>5. CASE StatusFor(left, row.total) # loaded.status
  BY <1>1, <1>2, <1>3, <1>5 DEF Exact, Tells, left
<1>6. CASE StatusFor(left, row.total) = loaded.status
  <2>1. loaded.status = StatusFor(row.settled, row.total)
    BY <1>4, <1>6 DEF Tells
  <2>2. Tells(row.status, left, row.total)
    BY <1>6, <2>1 DEF Tells, Exact
  <2> QED BY <1>1, <1>3, <1>6, <2>2 DEF Exact, left
<1> QED BY <1>5, <1>6

LEMMA NextExactRows ==
  ASSUME IInv, Balanced, Next
  PROVE  ExactRows'
<1>a. TypeOK
  BY DEF IInv
<1>b. obl \in [OblKeys -> Row] /\ net \in [OblKeys -> Int]
  BY <1>a DEF TypeOK, Row
<1>c. \A o \in OblKeys : obl[o] \in Row /\ net[o] \in Int
  BY <1>b
<1>1. ASSUME NEW x \in OblKeys, NEW amt \in Amounts, CreateObligation(x, amt)
      PROVE  ExactRows'
  <2>1. UNCHANGED <<net, stale>> /\ net[x] = 0
    BY <1>1 DEF CreateObligation, Balanced, NetInv
  <2>2. /\ \A o \in OblKeys \ {x} : obl'[o] = obl[o]
        /\ obl'[x] = [status |-> "open", total |-> amt, settled |-> 0]
    BY <1>1, <1>b DEF CreateObligation
  <2>3. Exact(obl'[x], net[x])
    BY <2>1, <2>2 DEF Exact, Tells, StatusFor
  <2> QED BY <2>1, <2>2, <2>3 DEF ExactRows, Balanced
<1>2. ASSUME NEW p \in Procs, SettleCommit(p)
      PROVE  ExactRows'
  <2> DEFINE x == req[p].obl
             amt == req[p].amt
  <2>1. x \in OblKeys /\ amt \in Nat
    BY <1>2, SettleFacts DEF SettleRequest
  <2>2. /\ obl' = [obl EXCEPT ![x] = SettledRow(obl[x], amt)]
        /\ net' = [net EXCEPT ![x] = net[x] + amt] /\ stale' = stale
    BY <1>2 DEF SettleCommit
  <2> HIDE DEF x, amt
  <2>3. /\ \A o \in OblKeys \ {x} : obl'[o] = obl[o] /\ net'[o] = net[o]
        /\ obl'[x] = SettledRow(obl[x], amt) /\ net'[x] = net[x] + amt
    BY <1>b, <2>1, <2>2
  <2>4. ASSUME x \notin stale PROVE Exact(obl'[x], net'[x])
    <3>1. Exact(obl[x], net[x])
      BY <2>1, <2>4 DEF Balanced, ExactRows
    <3>2. Exact(SettledRow(obl[x], amt), net[x] + amt)
      BY <1>c, <2>1, <3>1, ExactAfterPayment
    <3> QED BY <2>3, <3>2
  <2> QED BY <2>2, <2>3, <2>4 DEF ExactRows, Balanced
<1>3. ASSUME NEW p \in Procs, ReverseCommit(p)
      PROVE  ExactRows'
  <2> DEFINE r == req[p]
             x == stl[r.orig].obl
             amt == stl[r.orig].amt
  <2>1. /\ r.orig \in StlKeys /\ stl[r.orig] \in Normal /\ r.op = "reverse"
        /\ x \in OblKeys /\ amt \in Nat \ {0} /\ ~ IsReversed(r.orig)
    BY <1>3, ReverseFacts DEF Normal, ReverseRequest, ReverseCommit
  <2>2. /\ obl' = [obl EXCEPT ![x] = ReversedRow(obl[x], r, amt)]
        /\ net' = [net EXCEPT ![x] = net[x] - amt]
        /\ stale' = IF r.settled # obl[x].settled THEN stale \cup {x} ELSE stale
    BY <1>3 DEF ReverseCommit
  <2>3. amt <= net[x]
    BY <1>a, <2>1, StandingIsReceived DEF Balanced
  <2>4. x \notin stale => Tells(r.status, r.settled, obl[x].total)
    BY <2>1 DEF Balanced, ExactCopies
  <2> HIDE DEF r, x, amt
  <2>5. /\ \A o \in OblKeys \ {x} : obl'[o] = obl[o] /\ net'[o] = net[o]
        /\ obl'[x] = ReversedRow(obl[x], r, amt) /\ net'[x] = net[x] - amt
    BY <1>b, <2>1, <2>2
  <2>6. ASSUME x \notin stale' PROVE Exact(obl'[x], net'[x])
    <3>1. x \notin stale /\ r.settled = obl[x].settled
      BY <2>2, <2>6
    <3>2. Exact(obl[x], net[x])
      BY <2>1, <3>1 DEF Balanced, ExactRows
    <3>3. Exact(ReversedRow(obl[x], r, amt), net[x] - amt)
      BY <1>c, <2>1, <2>3, <2>4, <3>1, <3>2, ExactAfterReversal
    <3> QED BY <2>5, <3>3
  <2> QED BY <2>2, <2>5, <2>6 DEF ExactRows, Balanced
<1>4. ASSUME NEW p \in Procs, CancelCommit(p)
      PROVE  ExactRows'
  <2> DEFINE x == req[p].obl
             status == IF req[p].status # "cancelled" THEN "cancelled" ELSE obl[x].status
  <2>1. x \in OblKeys
    BY <1>4, <1>a, RequestKinds DEF CancelCommit, TypeOK, Requests, CancelRequest
  <2>2. UNCHANGED <<net, stale>> /\ obl' = [obl EXCEPT ![x].status = status]
    BY <1>4 DEF CancelCommit
  <2>3. status \in {"cancelled", obl[x].status}
    OBVIOUS
  <2> HIDE DEF x, status
  <2>4. /\ \A o \in OblKeys \ {x} : obl'[o] = obl[o]
        /\ obl'[x].status = status
        /\ obl'[x].total = obl[x].total /\ obl'[x].settled = obl[x].settled
    BY <1>b, <2>1, <2>2 DEF Row
  <2>5. Exact(obl[x], net[x]) => Exact(obl'[x], net[x])
    BY <2>3, <2>4 DEF Exact, Tells
  <2> QED BY <2>1, <2>2, <2>4, <2>5 DEF ExactRows, Balanced
<1>5. ASSUME UNCHANGED <<obl, net, stale>> PROVE ExactRows'
  BY <1>5 DEF ExactRows, Balanced
<1>6. ASSUME NEW i, NEW o, CreateIntent(i, o) PROVE UNCHANGED <<obl, net, stale>>
  BY <1>6 DEF CreateIntent
<1>7. ASSUME NEW p \in Procs, NEW k, NEW o, NEW amt, NEW i, NEW skip,
             SettleRead(p, k, o, amt, i, skip) \/ ReverseRead(p, k, o)
               \/ CancelRead(p, o) \/ Rollback(p)
      PROVE  UNCHANGED <<obl, net, stale>>
  BY <1>7 DEF SettleRead, ReverseRead, CancelRead, Rollback
<1> QED BY <1>1, <1>2, <1>3, <1>4, <1>5, <1>6, <1>7 DEF Next

\* What a step may do to the request of p.
LEMMA CopySteps ==
  ASSUME IInv, Next, NEW p \in Procs, req'[p].op = "reverse"
  PROVE  /\ stale \subseteq stale'
         /\ \/ req'[p] = req[p]
            \/ /\ UNCHANGED <<obl, stl, stale>> /\ req'[p].orig \in StlKeys
               /\ stl[req'[p].orig].kind = "normal"
               /\ req'[p].status = obl[stl[req'[p].orig].obl].status
               /\ req'[p].settled = obl[stl[req'[p].orig].obl].settled
<1>a. req \in [Procs -> Requests]
  BY DEF IInv, TypeOK, Requests
<1>1. ASSUME NEW o \in OblKeys, NEW amt \in Amounts, CreateObligation(o, amt)
      PROVE  stale' = stale /\ req'[p] = req[p]
  BY <1>1 DEF CreateObligation
<1>2. ASSUME NEW i \in IntentKeys, NEW o \in OblKeys \cup {None}, CreateIntent(i, o)
      PROVE  stale' = stale /\ req'[p] = req[p]
  BY <1>2 DEF CreateIntent
<1>3. ASSUME NEW q \in Procs, SettleCommit(q) \/ CancelCommit(q) \/ Rollback(q)
      PROVE  stale' = stale /\ req'[p] = req[p]
  <2>1. stale' = stale /\ req' = [req EXCEPT ![q] = Idle]
    BY <1>3 DEF SettleCommit, CancelCommit, Rollback
  <2> QED BY <1>a, <2>1 DEF Idle
<1>4. ASSUME NEW q \in Procs, ReverseCommit(q)
      PROVE  stale \subseteq stale' /\ req'[p] = req[p]
  <2>1. stale \subseteq stale' /\ req' = [req EXCEPT ![q] = Idle]
    BY <1>4 DEF ReverseCommit
  <2> QED BY <1>a, <2>1 DEF Idle
<1>5. ASSUME NEW q \in Procs, NEW k \in StlKeys, NEW o \in OblKeys, NEW amt \in Amounts,
             NEW i \in IntentKeys \cup {None}, NEW skip \in BOOLEAN,
             SettleRead(q, k, o, amt, i, skip)
      PROVE  stale' = stale /\ req'[p] = req[p]
  <2> DEFINE r == [op |-> "settle", key |-> k, obl |-> o, amt |-> amt,
                   intent |-> i, skip |-> skip]
  <2>1. r.op # "reverse" /\ req' = [req EXCEPT ![q] = r] /\ stale' = stale
    BY <1>5 DEF SettleRead
  <2> HIDE DEF r
  <2> QED BY <1>a, <2>1
<1>7. ASSUME NEW q \in Procs, NEW o \in OblKeys, CancelRead(q, o)
      PROVE  stale' = stale /\ req'[p] = req[p]
  <2> DEFINE r == [op |-> "cancel", obl |-> o, status |-> obl[o].status]
  <2>1. r.op # "reverse" /\ req' = [req EXCEPT ![q] = r] /\ stale' = stale
    BY <1>7 DEF CancelRead
  <2> HIDE DEF r
  <2> QED BY <1>a, <2>1
<1>6. ASSUME NEW q \in Procs, NEW k \in StlKeys, NEW orig \in StlKeys, ReverseRead(q, k, orig)
      PROVE  /\ UNCHANGED <<obl, stl, stale>>
             /\ \/ req'[p] = req[p]
                \/ /\ req'[p].orig \in StlKeys
                   /\ stl[req'[p].orig].kind = "normal"
                   /\ req'[p].status = obl[stl[req'[p].orig].obl].status
                   /\ req'[p].settled = obl[stl[req'[p].orig].obl].settled
  <2> DEFINE r == [op |-> "reverse", key |-> k, orig |-> orig,
                   status |-> obl[stl[orig].obl].status,
                   settled |-> obl[stl[orig].obl].settled]
  <2>1. req' = [req EXCEPT ![q] = r] /\ UNCHANGED <<obl, stl, stale>> /\ stl[orig].kind = "normal"
    BY <1>6 DEF ReverseRead
  <2>2. /\ r.orig = orig /\ r.status = obl[stl[orig].obl].status
        /\ r.settled = obl[stl[orig].obl].settled
    OBVIOUS
  <2> HIDE DEF r
  <2>3. req'[p] = IF p = q THEN r ELSE req[p]
    BY <1>a, <2>1
  <2> QED BY <1>6, <2>1, <2>2, <2>3
<1> QED BY <1>1, <1>2, <1>3, <1>4, <1>5, <1>6, <1>7 DEF Next

LEMMA NextExactCopies ==
  ASSUME IInv, Balanced, Next
  PROVE  ExactCopies'
<1>a. req \in [Procs -> Requests]
  BY DEF IInv, TypeOK, Requests
<1> SUFFICES ASSUME NEW p \in Procs, req'[p].op = "reverse",
                    stl'[req'[p].orig].obl \notin stale'
             PROVE  Tells(req'[p].status, req'[p].settled, obl'[stl'[req'[p].orig].obl].total)
  BY DEF ExactCopies
<1>1. CASE req'[p] = req[p]
  <2> DEFINE orig == req[p].orig
             o == stl[orig].obl
  <2>1. orig \in StlKeys /\ stl[orig].kind = "normal"
    BY <1>a, <1>1, RequestKinds DEF IInv, LoadedRows, LoadedOK, ReverseRequest
  <2>2. stl[orig] # Absent /\ o \in OblKeys /\ Exists(o)
    <3>1. stl[orig] \in {Absent} \cup Normal \cup Reversal
      BY <2>1 DEF IInv, TypeOK
    <3>2. stl[orig] \in Normal
      BY <2>1, <3>1, EntryKinds
    <3>3. Exists(o)
      BY <2>1 DEF IInv, LoadedRows
    <3> QED BY <2>1, <3>2, <3>3 DEF Normal, Absent
  <2>3. stl'[orig] = stl[orig] /\ obl'[o].total = obl[o].total
    BY <2>1, <2>2, RowsAreKept DEF RowsKept
  <2>4. o \notin stale
    BY <1>1, <2>3, CopySteps
  <2>5. Tells(req[p].status, req[p].settled, obl[o].total)
    BY <1>1, <2>4 DEF Balanced, ExactCopies
  <2> QED BY <1>1, <2>3, <2>5
<1>2. CASE /\ UNCHANGED <<obl, stl, stale>> /\ req'[p].orig \in StlKeys
           /\ stl[req'[p].orig].kind = "normal"
           /\ req'[p].status = obl[stl[req'[p].orig].obl].status
           /\ req'[p].settled = obl[stl[req'[p].orig].obl].settled
  <2> DEFINE o == stl[req'[p].orig].obl
  <2>1. o \in OblKeys
    <3>1. stl[req'[p].orig] \in {Absent} \cup Normal \cup Reversal
      BY <1>2 DEF IInv, TypeOK
    <3>2. stl[req'[p].orig] \in Normal
      BY <1>2, <3>1, EntryKinds
    <3> QED BY <3>2 DEF Normal
  <2>2. o \notin stale
    BY <1>2
  <2>3. Exact(obl[o], net[o])
    BY <2>1, <2>2 DEF Balanced, ExactRows
  <2> QED BY <1>2, <2>3 DEF Exact
<1> QED BY <1>1, <1>2, CopySteps

LEMMA InitBalanced == Init => Balanced
<1> SUFFICES ASSUME Init PROVE Balanced
  OBVIOUS
<1>1. NetInv /\ UndoesPayments /\ ExactRows /\ ExactCopies
  BY DEF Init, NetInv, Exists, UndoesPayments, ExactRows, Exact, Tells, ExactCopies, Absent, Idle
<1>2. Explained
  <2> DEFINE g == [S \in SUBSET StlKeys |-> 0]
  <2>1. ASSUME NEW o \in OblKeys PROVE IsSum(g, Counted(o), StlKeys) /\ g[StlKeys] = net[o]
    <3>1. \A k \in StlKeys : Counted(o)[k] = 0
      BY DEF Init, Counted, Stands, Absent
    <3>2. \A S \in SUBSET StlKeys : \A k \in S : g[S] = 0 /\ g[S \ {k}] = 0
      OBVIOUS
    <3>3. g \in [SUBSET StlKeys -> Nat] /\ g[StlKeys] = 0 /\ g[{}] = 0
      OBVIOUS
    <3>4. net[o] = 0
      BY DEF Init
    <3> HIDE DEF g
    <3>5. ASSUME NEW S \in SUBSET StlKeys, NEW k \in S PROVE g[S] = g[S \ {k}] + Counted(o)[k]
      <4>1. Counted(o)[k] = 0
        BY <3>1
      <4>2. g[S] = 0 /\ g[S \ {k}] = 0
        BY <3>2
      <4> QED BY <4>1, <4>2
    <3> QED BY <3>3, <3>4, <3>5 DEF IsSum
  <2> HIDE DEF g
  <2> QED BY <2>1 DEF Explained
<1> QED BY <1>1, <1>2 DEF Balanced

\* As long as no reversal has used an outdated copy, amount_settled is exactly what was
\* paid and not reversed, and the status tells it: what service.py:284-310 and 385-391
\* compute, whatever the requests do side by side.
THEOREM BalanceIsExactUnlessStaleHolds == Spec => []BalanceIsExactUnlessStale
<1>1. IInv /\ Balanced /\ [Next]_vars => Balanced'
  <2>1. ASSUME IInv, Balanced, Next PROVE Balanced'
    <3>1. NetInv /\ UndoesPayments /\ Explained
      BY <2>1 DEF Balanced
    <3>2. NetInv' /\ UndoesPayments' /\ Explained'
      BY <2>1, <3>1, NextNetInv, NextUndoesPayments, NextExplained
    <3>3. ExactRows' /\ ExactCopies'
      BY <2>1, NextExactRows, NextExactCopies
    <3> QED BY <3>2, <3>3 DEF Balanced
  <2>2. ASSUME Balanced, UNCHANGED vars PROVE Balanced'
    <3>1. NetInv' /\ UndoesPayments' /\ ExactRows' /\ ExactCopies'
      BY <2>2 DEF Balanced, NetInv, Exists, UndoesPayments, ExactRows, ExactCopies, vars
    <3>2. \A o \in OblKeys : Counted(o)' = Counted(o)
      BY <2>2 DEF vars, Counted, Stands, IsReversed
    <3>3. net' = net
      BY <2>2 DEF vars
    <3>4. Explained'
      BY <2>2, <3>2, <3>3 DEF Balanced, Explained
    <3> QED BY <3>1, <3>4 DEF Balanced
  <2> QED BY <2>1, <2>2
<1>2. IInv /\ Balanced => BalanceIsExactUnlessStale
  <2>1. ASSUME IInv, Balanced, NEW o \in OblKeys, o \notin stale
        PROVE  /\ obl[o].settled = net[o]
               /\ obl[o].status = "open" => net[o] = 0
               /\ obl[o].status = "partially_settled" => 0 < net[o] /\ net[o] < obl[o].total
               /\ obl[o].status = "settled" => net[o] = obl[o].total
    <3>1. obl[o].settled \in Nat /\ obl[o].total \in Nat /\ obl[o].settled <= obl[o].total
      BY <2>1 DEF IInv, TypeOK, SettledWithinTotal
    <3>2. Exact(obl[o], net[o])
      BY <2>1 DEF Balanced, ExactRows
    <3> QED BY <3>1, <3>2 DEF Exact, Tells, StatusFor
  <2> QED BY <2>1 DEF BalanceIsExactUnlessStale
<1> QED BY <1>1, <1>2, InitBalanced, Invariance, PTL DEF Spec

================================================================================
