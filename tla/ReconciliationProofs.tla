-------------------------- MODULE ReconciliationProofs --------------------------
(***************************************************************************)
(* What reconciliation guarantees for any transactions, obligations,       *)
(* amounts and concurrent requests.                                        *)
(***************************************************************************)
EXTENDS Reconciliation, FiniteSetTheorems, WellFoundedInduction, TLAPS

USE AmountsAssumption, LinesAssumption, NoneAssumption

LEMMA CaseFacts ==
  ASSUME NEW c \in Cases
  PROVE  /\ c.tx \in Transactions
         /\ Len(c.obs) \in Nat \ {0} /\ DOMAIN c.obs = 1 .. Len(c.obs)
         /\ \A i \in 1 .. Len(c.obs) : c.obs[i] \in Obligations
         /\ ObligationsOf(c) \subseteq Obligations /\ ObligationsOf(c) # {}
<1>1. c.tx \in Transactions /\ c.obs \in Combinations
  BY DEF Cases
<1>2. PICK n \in 1 .. MaxCombination : c.obs \in [1 .. n -> Obligations]
  BY <1>1 DEF Combinations
<1>3. Len(c.obs) = n /\ n \in Nat \ {0} /\ DOMAIN c.obs = 1 .. n
  BY <1>2
<1>4. \A i \in 1 .. n : c.obs[i] \in Obligations
  BY <1>2
<1>5. c.obs[1] \in ObligationsOf(c)
  BY <1>3 DEF ObligationsOf
<1> QED BY <1>1, <1>3, <1>4, <1>5 DEF ObligationsOf

-------------------------------------------------------------------------------
(* The inductive invariant.  A request that confirms a case keeps the rows of  *)
(* the obligations it has paid: they still have room when it commits, and      *)
(* unless somebody has settled the whole case, it has paid all it went past.   *)

Has(k) ==
  /\ pc[k] \in Paying \cup {"reject"} => job[k] \in Cases
  /\ pc[k] = "propose" => job[k] \in Transactions
  /\ pc[k] = "close" => job[k] \in Statements /\ stmt[job[k]] # "absent"
  /\ pc[k] = "reverse" => job[k] \in Reversals /\ job[k].loaded <= Total[job[k].obl]
  /\ pc[k] \notin Paying => mine[k] = {} /\ txrow[k] = "none"

Closing(k) ==
  pc[k] = "close" => \A t \in Transactions : file[t] = job[k] => tx[t] = "matched"

Position(k) ==
  /\ pc[k] \in {"check", "cas", "flush"} => at[k] \in 1 .. Len(job[k].obs)
  /\ pc[k] = "finish" => at[k] = Len(job[k].obs) + 1 /\ txrow[k] # "none"
  /\ pc[k] = "flush" => Match(k) \in mine[k]

Confirming(k) ==
  pc[k] \in Paying =>
    /\ mine[k] \subseteq ObligationsOf(job[k])
    /\ settled[job[k]] = {} =>
         \A i \in 1 .. Len(job[k].obs) : i < at[k] => job[k].obs[i] \in mine[k]
    /\ status[job[k]] # "absent"
    /\ txrow[k] = "clean" => tx[job[k].tx] = "matched"

Holding(k) ==
  \A o \in mine[k] : RowFree(o, k) /\ paid[o] + imputed[job[k]][o] <= Total[o]

Files ==
  \A t \in Transactions :
    /\ tx[t] = "absent" => file[t] = None
    /\ file[t] # None => stmt[file[t]] # "absent"

IInv ==
  /\ TypeOK
  /\ \A k \in Callers : Has(k) /\ Closing(k) /\ Position(k) /\ Confirming(k) /\ Holding(k)
  /\ Files
  /\ NeverOverpaid
  /\ CaseSettledWhole
  /\ DecisionMatchesMoney
  /\ MatchedMeansSettled
  /\ ClosedMeansMatched

LEMMA InitIInv == Init => IInv
<1> SUFFICES ASSUME Init PROVE IInv
  OBVIOUS
<1>1. TypeOK
  BY DEF Init, TypeOK, NothingImputed, Steps, Jobs
<1>2. \A k \in Callers : Has(k) /\ Closing(k) /\ Position(k) /\ Confirming(k) /\ Holding(k)
  BY DEF Init, Has, Closing, Position, Confirming, Holding, Paying
<1>3. Files /\ NeverOverpaid
  BY DEF Init, Files, NeverOverpaid
<1>4. CaseSettledWhole /\ DecisionMatchesMoney /\ MatchedMeansSettled /\ ClosedMeansMatched
  BY DEF Init, CaseSettledWhole, DecisionMatchesMoney, MatchedMeansSettled, ClosedMeansMatched
<1> QED BY <1>1, <1>2, <1>3, <1>4 DEF IInv

-------------------------------------------------------------------------------
\* A request that changes no table keeps the invariant when it keeps its own part.
Others(k) ==
  \A x \in Callers \ {k} :
    /\ pc'[x] = pc[x] /\ job'[x] = job[x] /\ at'[x] = at[x]
    /\ mine'[x] = mine[x] /\ txrow'[x] = txrow[x]

LEMMA OthersKeepTheirs ==
  ASSUME IInv, NEW k \in Callers, NEW x \in Callers \ {k}, Others(k),
         UNCHANGED <<money, bank, cases>>,
         mine'[k] \subseteq mine[k] \/ \A o \in mine'[k] \ mine[k] : RowFree(o, k)
  PROVE  (Has(x) /\ Closing(x) /\ Position(x) /\ Confirming(x) /\ Holding(x))'
<1>1. /\ pc'[x] = pc[x] /\ job'[x] = job[x] /\ at'[x] = at[x]
      /\ mine'[x] = mine[x] /\ txrow'[x] = txrow[x]
  BY DEF Others
<1>2. Has(x) /\ Closing(x) /\ Position(x) /\ Confirming(x) /\ Holding(x)
  BY DEF IInv
<1>3. (Has(x) /\ Closing(x) /\ Position(x) /\ Confirming(x))'
  BY <1>1, <1>2 DEF Has, Closing, Position, Confirming, Match, money, bank, cases
<1>4. ASSUME NEW o \in mine[x] PROVE RowFree(o, x)'
  <2>1. \A y \in Callers \ {x} : o \notin mine[y]
    BY <1>2 DEF Holding, RowFree
  <2>2. o \notin mine'[k]
    BY <2>1 DEF RowFree
  <2>3. \A y \in Callers \ {k} : mine'[y] = mine[y]
    BY DEF Others
  <2> QED BY <2>1, <2>2, <2>3 DEF RowFree
<1>5. Holding(x)'
  BY <1>1, <1>2, <1>4 DEF Holding, money, cases
<1> QED BY <1>3, <1>5

LEMMA CallStep ==
  ASSUME IInv, NEW k \in Callers, Others(k), UNCHANGED <<money, bank, cases>>, TypeOK',
         mine'[k] \subseteq mine[k] \/ \A o \in mine'[k] \ mine[k] : RowFree(o, k),
         (Has(k) /\ Closing(k) /\ Position(k) /\ Confirming(k) /\ Holding(k))'
  PROVE  IInv'
<1>1. \A x \in Callers :
        (Has(x) /\ Closing(x) /\ Position(x) /\ Confirming(x) /\ Holding(x))'
  BY OthersKeepTheirs
<1>2. (Files /\ NeverOverpaid /\ CaseSettledWhole /\ DecisionMatchesMoney
         /\ MatchedMeansSettled /\ ClosedMeansMatched)'
  BY DEF IInv, Files, NeverOverpaid, CaseSettledWhole, DecisionMatchesMoney,
     MatchedMeansSettled, ClosedMeansMatched, money, bank, cases
<1> QED BY <1>1, <1>2 DEF IInv

\* Rows that are kept stay free of others and with room.
LEMMA StillHolding ==
  ASSUME IInv, NEW k \in Callers, Others(k), UNCHANGED <<money, bank, cases>>,
         job'[k] = job[k], mine'[k] \subseteq mine[k]
  PROVE  Holding(k)'
<1>1. \A o \in mine[k] : RowFree(o, k) /\ paid[o] + imputed[job[k]][o] <= Total[o]
  BY DEF IInv, Holding
<1>2. \A o \in mine'[k] : RowFree(o, k)'
  BY <1>1 DEF RowFree, Others
<1> QED BY <1>1, <1>2 DEF Holding, money, cases

LEMMA EndFacts ==
  ASSUME IInv, NEW k \in Callers, End(k)
  PROVE  /\ Others(k)
         /\ pc'[k] = "idle" /\ job'[k] = None /\ at'[k] = 0 /\ mine'[k] = {} /\ txrow'[k] = "none"
         /\ pc' \in [Callers -> Steps]
         /\ job' \in [Callers -> Jobs]
         /\ at' \in [Callers -> Nat]
         /\ mine' \in [Callers -> SUBSET Obligations]
         /\ txrow' \in [Callers -> {"none", "clean", "dirty", "held"}]
BY DEF IInv, TypeOK, End, Others, Steps, Jobs

\* A request that ends without a write.
LEMMA EndStep ==
  ASSUME IInv, NEW k \in Callers, End(k), UNCHANGED <<money, bank, cases>>
  PROVE  IInv'
<1>1. Others(k) /\ TypeOK'
  BY EndFacts DEF IInv, TypeOK, money, bank, cases
<1>2. pc'[k] = "idle" /\ mine'[k] = {} /\ txrow'[k] = "none"
  BY EndFacts
<1>3. (Has(k) /\ Closing(k) /\ Position(k) /\ Confirming(k) /\ Holding(k))'
  BY <1>2 DEF Has, Closing, Position, Confirming, Holding, Paying
<1> QED BY <1>1, <1>2, <1>3, CallStep

\* The loop of confirm_case goes on: with what it has paid, or with nothing once the
\* session was rolled back because another request has settled the case.
LEMMA GoOnStep ==
  ASSUME IInv, NEW k \in Callers, NEW rows, NEW kept, GoOn(k, rows, kept),
         pc[k] \in {"check", "cas", "flush"},
         rows \subseteq mine[k], kept \in {"none", txrow[k], "held"},
         HasWinner(k) \/ (rows = mine[k] /\ Match(k) \in rows)
  PROVE  IInv'
<1> DEFINE c == job[k]
           i == at[k]
<1>1. c \in Cases /\ i \in 1 .. Len(c.obs) /\ Match(k) = c.obs[i]
  BY DEF IInv, Has, Position, Paying, Match
<1>2. pc[k] \in Paying /\ mine[k] \subseteq ObligationsOf(c) /\ mine[k] \subseteq Obligations
  BY <1>1, CaseFacts DEF IInv, Confirming, Paying
<1>3. /\ \A x \in Callers \ {k} : pc'[x] = pc[x] /\ at'[x] = at[x]
                                  /\ mine'[x] = mine[x] /\ txrow'[x] = txrow[x]
      /\ pc'[k] = (IF i = Len(c.obs) THEN "finish" ELSE "check")
      /\ at'[k] = i + 1 /\ mine'[k] = rows /\ txrow'[k] = Marked(k, kept) /\ job' = job
      /\ UNCHANGED <<money, bank, cases>>
  BY DEF GoOn, IInv, TypeOK
<1>4. Others(k)
  BY <1>3 DEF Others
<1>5. Marked(k, kept) \in {"clean", "dirty", "held"}
  BY DEF Marked, IInv, TypeOK
<1>6. Marked(k, kept) = "clean" => tx[c.tx] = "matched"
  BY <1>2 DEF Marked, IInv, Confirming
<1>7. TypeOK'
  <2>1. /\ pc' \in [Callers -> Steps]
        /\ at' \in [Callers -> Nat] /\ mine' \in [Callers -> SUBSET Obligations]
        /\ txrow' \in [Callers -> {"none", "clean", "dirty", "held"}]
    BY <1>2, <1>5 DEF GoOn, IInv, TypeOK, Steps, Paying
  <2> QED BY <1>3, <2>1 DEF IInv, TypeOK, money, bank, cases
<1>8. pc'[k] \in {"finish", "check"} /\ pc'[k] \in Paying
  BY <1>3 DEF Paying
<1>9. Has(k)' /\ Closing(k)'
  BY <1>1, <1>3, <1>8 DEF Has, Closing, Paying
<1>10. Position(k)'
  <2>1. Len(c.obs) \in Nat /\ i \in Nat
    BY <1>1, CaseFacts
  <2> QED BY <1>1, <1>3, <1>5, <2>1 DEF Position
<1>11. Confirming(k)'
  <2>1. settled[c] = {} => \A j \in 1 .. Len(c.obs) : j < i + 1 => c.obs[j] \in rows
    <3> SUFFICES ASSUME settled[c] = {}, NEW j \in 1 .. Len(c.obs), j < i + 1
                 PROVE  c.obs[j] \in rows
      OBVIOUS
    <3>1. rows = mine[k] /\ c.obs[i] \in rows
      BY <1>1 DEF HasWinner
    <3>2. CASE j = i
      BY <3>1, <3>2
    <3>3. CASE j < i
      BY <1>2, <3>1, <3>3 DEF IInv, Confirming
    <3>4. j \in Nat /\ i \in Nat
      BY <1>1, CaseFacts
    <3> QED BY <3>2, <3>3, <3>4
  <2>2. rows \subseteq ObligationsOf(c) /\ status[c] # "absent"
    BY <1>2 DEF IInv, Confirming
  <2>3. settled' = settled /\ status' = status /\ tx' = tx
    BY <1>3 DEF money, bank, cases
  <2> HIDE DEF c, i
  <2> QED BY <1>3, <1>6, <2>1, <2>2, <2>3 DEF Confirming, c
<1>12. Holding(k)'
  BY <1>3, <1>4, StillHolding
<1> QED BY <1>3, <1>4, <1>7, <1>9, <1>10, <1>11, <1>12, CallStep

LEMMA LoopKeepsIInv ==
  ASSUME IInv, NEW k \in Callers,
         FoundByKey(k) \/ NotFound(k) \/ Pay(k) \/ Refused(k) \/ Insert(k) \/ Duplicate(k)
  PROVE  IInv'
<1> DEFINE c == job[k]
<1>1. CASE FoundByKey(k)
  BY <1>1, GoOnStep DEF FoundByKey
<1>2. CASE Duplicate(k)
  BY <1>2, GoOnStep DEF Duplicate
<1>3. CASE Refused(k)
  BY <1>3, GoOnStep, EndStep DEF Refused
<1>4. CASE Insert(k)
  <2>1. pc[k] = "flush" /\ Match(k) \in mine[k]
    BY <1>4 DEF Insert, IInv, Position
  <2> QED BY <1>4, <2>1, GoOnStep DEF Insert
<1>5. CASE NotFound(k)
  <2>1. /\ \A x \in Callers \ {k} : pc'[x] = pc[x]
        /\ pc[k] = "check" /\ pc'[k] = "cas" /\ UNCHANGED <<money, bank, cases, call>>
        /\ pc' \in [Callers -> Steps]
    BY <1>5 DEF NotFound, IInv, TypeOK, Steps, Paying
  <2>2. Others(k) /\ TypeOK'
    BY <2>1 DEF Others, IInv, TypeOK, money, bank, cases, call
  <2>3. Has(k) /\ Closing(k) /\ Position(k) /\ Confirming(k)
    BY DEF IInv
  <2>4. (Has(k) /\ Closing(k) /\ Position(k) /\ Confirming(k))'
    BY <2>1, <2>3 DEF Has, Closing, Position, Confirming, Paying, money, bank, cases, call
  <2>5. Holding(k)'
    BY <2>1, <2>2, StillHolding DEF call
  <2> QED BY <2>1, <2>2, <2>4, <2>5, CallStep DEF call
<1>6. CASE Pay(k)
  <2>1. c \in Cases /\ Match(k) \in ObligationsOf(c) /\ Match(k) \in Obligations
    <3>1. c \in Cases /\ at[k] \in 1 .. Len(c.obs) /\ Match(k) = c.obs[at[k]]
      BY <1>6 DEF Pay, IInv, Has, Position, Paying, Match
    <3> QED BY <3>1, CaseFacts DEF ObligationsOf
  <2>2. /\ \A x \in Callers \ {k} : pc'[x] = pc[x] /\ mine'[x] = mine[x]
        /\ pc[k] = "cas" /\ pc'[k] = "flush" /\ mine'[k] = mine[k] \cup {Match(k)}
        /\ UNCHANGED <<money, bank, cases, job, at, txrow>>
        /\ RowFree(Match(k), k) /\ imputed[c][Match(k)] <= Remaining(Match(k))
    BY <1>6 DEF Pay, Fits, IInv, TypeOK, Paying
  <2>3. /\ pc' \in [Callers -> Steps]
        /\ mine' \in [Callers -> SUBSET Obligations]
    BY <1>6, <2>1 DEF Pay, IInv, TypeOK, Steps, Paying
  <2>4. Others(k) /\ TypeOK'
    BY <2>2, <2>3 DEF Others, IInv, TypeOK, money, bank, cases
  <2>5. Has(k) /\ Closing(k) /\ Position(k) /\ Confirming(k) /\ Holding(k)
    BY DEF IInv
  <2>6. (Has(k) /\ Closing(k))'
    BY <2>2, <2>5 DEF Has, Closing, Paying, bank
  <2>7. Position(k)'
    BY <2>2, <2>5 DEF Position, Match
  <2>8. Confirming(k)'
    BY <2>1, <2>2, <2>5 DEF Confirming, Paying, money, bank, cases
  <2>9. Holding(k)'
    <3>1. \A o \in mine'[k] : RowFree(o, k)
      BY <2>2, <2>5 DEF Holding
    <3>2. \A o \in mine'[k] : RowFree(o, k)'
      BY <2>2, <3>1 DEF RowFree
    <3>3. paid[Match(k)] + imputed[c][Match(k)] <= Total[Match(k)]
      BY <2>1, <2>2 DEF Remaining, IInv, TypeOK
    <3>4. \A o \in mine'[k] : paid[o] + imputed[c][o] <= Total[o]
      BY <2>2, <2>5, <3>3 DEF Holding
    <3> QED BY <2>2, <3>2, <3>4 DEF Holding, money, cases
  <2> QED BY <2>2, <2>4, <2>6, <2>7, <2>8, <2>9, CallStep
<1> QED BY <1>1, <1>2, <1>3, <1>4, <1>5, <1>6

StartsReverse(k) ==
  \/ \E o \in Obligations, a \in Amounts : StartReverse(k, o, None, a)
  \/ \E o \in Obligations, c \in Cases : StartReverse(k, o, c, imputed[c][o])

\* What a reversal has loaded.
LEMMA StartReverseFacts ==
  ASSUME IInv, NEW k \in Callers, StartsReverse(k)
  PROVE  \E r \in Reversals :
           /\ r.loaded <= Total[r.obl]
           /\ r.of # None => r.amt = imputed[r.of][r.obl] /\ r.obl \in settled[r.of]
           /\ Start(k, "reverse", r) /\ job' = [job EXCEPT ![k] = r]
<1>1. PICK o \in Obligations, c \in Cases \cup {None}, a \in Nat :
        /\ StartReverse(k, o, c, a)
        /\ c # None => a = imputed[c][o]
  <2>1. CASE \E o \in Obligations, a \in Amounts : StartReverse(k, o, None, a)
    BY <2>1
  <2>2. CASE \E o \in Obligations, c \in Cases : StartReverse(k, o, c, imputed[c][o])
    BY <2>2 DEF IInv, TypeOK
  <2> QED BY <2>1, <2>2 DEF StartsReverse
<1> DEFINE r == [obl |-> o, of |-> c, amt |-> a, loaded |-> paid[o]]
<1>2. r \in Reversals /\ paid[o] <= Total[o]
  BY DEF Reversals, IInv, TypeOK, NeverOverpaid
<1>3. Start(k, "reverse", r) /\ Stands(r)
  BY <1>1 DEF StartReverse
<1>4. r.obl = o /\ r.of = c /\ r.amt = a /\ r.loaded = paid[o]
  OBVIOUS
<1>5. c # None => o \in settled[c]
  BY <1>3, <1>4 DEF Stands, Reversible
<1> HIDE DEF r
<1> QED BY <1>1, <1>2, <1>3, <1>4, <1>5 DEF Start

Starts(k) ==
  \/ \E s \in Statements : StartClose(k, s)
  \/ \E t \in Transactions : StartPropose(k, t)
  \/ \E c \in Cases : StartReject(k, c) \/ StartConfirm(k, c)
  \/ StartsReverse(k)

\* A request that starts holds nothing, and touches nothing but its own step.
LEMMA StartsLeave ==
  ASSUME IInv, NEW k \in Callers, Starts(k)
  PROVE  /\ pc[k] = "idle" /\ mine[k] = {} /\ txrow[k] = "none"
         /\ mine' = mine /\ txrow' = txrow /\ UNCHANGED <<money, bank, cases>>
         /\ Others(k)
<1> DEFINE Left(step, what) ==
      /\ Start(k, step, what)
      /\ at' = at \/ at' = [at EXCEPT ![k] = 1]
      /\ mine' = mine /\ txrow' = txrow /\ UNCHANGED <<money, bank, cases>>
<1>1. \E step, what : Left(step, what)
  <2>1. CASE \E s \in Statements : StartClose(k, s)
    <3>1. PICK s \in Statements : StartClose(k, s)
      BY <2>1
    <3>2. Left("close", s)
      BY <3>1 DEF StartClose
    <3> QED BY <3>2
  <2>2. CASE \E t \in Transactions : StartPropose(k, t)
    <3>1. PICK t \in Transactions : StartPropose(k, t)
      BY <2>2
    <3>2. Left("propose", t)
      BY <3>1 DEF StartPropose
    <3> QED BY <3>2
  <2>3. CASE \E c \in Cases : StartReject(k, c)
    <3>1. PICK c \in Cases : StartReject(k, c)
      BY <2>3
    <3>2. Left("reject", c)
      BY <3>1 DEF StartReject
    <3> QED BY <3>2
  <2>4. CASE \E c \in Cases : StartConfirm(k, c)
    <3>1. PICK c \in Cases : StartConfirm(k, c)
      BY <2>4
    <3>2. Left("check", c)
      BY <3>1 DEF StartConfirm
    <3> QED BY <3>2
  <2>5. CASE StartsReverse(k)
    <3>1. PICK o, c, a : StartReverse(k, o, c, a)
      BY <2>5 DEF StartsReverse
    <3> DEFINE r == [obl |-> o, of |-> c, amt |-> a, loaded |-> paid[o]]
    <3>2. Left("reverse", r)
      BY <3>1 DEF StartReverse
    <3> QED BY <3>2
  <2> HIDE DEF Left
  <2> QED BY <2>1, <2>2, <2>3, <2>4, <2>5 DEF Starts
<1>2. PICK step, what : Left(step, what)
  BY <1>1
<1>3. /\ pc[k] = "idle" /\ pc' = [pc EXCEPT ![k] = step] /\ job' = [job EXCEPT ![k] = what]
      /\ at' = at \/ at' = [at EXCEPT ![k] = 1]
      /\ mine' = mine /\ txrow' = txrow /\ UNCHANGED <<money, bank, cases>>
  BY <1>2 DEF Start
<1> HIDE DEF Left
<1>4. mine[k] = {} /\ txrow[k] = "none"
  BY <1>3 DEF IInv, Has, Paying
<1>5. DOMAIN pc = Callers /\ DOMAIN job = Callers /\ DOMAIN at = Callers
  BY DEF IInv, TypeOK
<1>6. Others(k)
  <2>1. \A x \in Callers \ {k} : at'[x] = at[x]
    BY <1>3, <1>5
  <2>2. \A x \in Callers \ {k} : pc'[x] = pc[x] /\ job'[x] = job[x]
    BY <1>3, <1>5
  <2> QED BY <1>3, <2>1, <2>2 DEF Others
<1> QED BY <1>3, <1>4, <1>6

\* A request that starts: what it has checked is true at that moment.
LEMMA StartKeepsIInv ==
  ASSUME IInv, NEW k \in Callers, Starts(k)
  PROVE  IInv'
<1>1. /\ pc[k] = "idle" /\ mine[k] = {} /\ txrow[k] = "none"
      /\ mine' = mine /\ txrow' = txrow /\ UNCHANGED <<money, bank, cases>>
  BY StartsLeave
<1>2. Others(k)
  BY StartsLeave
<1>3. TypeOK'
  <2>1. pc' \in [Callers -> Steps]
    <3>1. PICK step \in {"check", "reject", "propose", "close", "reverse"} :
            pc' = [pc EXCEPT ![k] = step]
      BY DEF Starts, StartClose, StartPropose, StartReject, StartConfirm, StartsReverse, StartReverse, Start
    <3> QED BY <3>1 DEF IInv, TypeOK, Steps, Paying
  <2>2. job' \in [Callers -> Jobs]
    <3>1. PICK what \in Jobs : job' = [job EXCEPT ![k] = what]
      <4>1. CASE StartsReverse(k)
        BY <4>1, StartReverseFacts DEF Jobs
      <4>2. CASE ~ StartsReverse(k)
        BY <4>2 DEF Starts, StartClose, StartPropose, StartReject, StartConfirm, Start, Jobs
      <4> QED BY <4>1, <4>2
    <3> QED BY <3>1 DEF IInv, TypeOK
  <2>3. at' \in [Callers -> Nat]
    <3>1. at' = at \/ at' = [at EXCEPT ![k] = 1]
      <4>1. CASE StartsReverse(k)
        BY <4>1 DEF StartsReverse, StartReverse
      <4>2. CASE \E c \in Cases : StartConfirm(k, c)
        BY <4>2 DEF StartConfirm
      <4>3. CASE ~ StartsReverse(k) /\ ~ \E c \in Cases : StartConfirm(k, c)
        BY <4>3 DEF Starts, StartClose, StartPropose, StartReject
      <4> QED BY <4>1, <4>2, <4>3
    <3>2. at \in [Callers -> Nat]
      BY DEF IInv, TypeOK
    <3>3. [at EXCEPT ![k] = 1] \in [Callers -> Nat]
      BY <3>2
    <3> QED BY <3>1, <3>2, <3>3
  <2> QED BY <1>1, <2>1, <2>2, <2>3 DEF IInv, TypeOK, money, bank, cases
<1>4. Holding(k)'
  BY <1>1 DEF Holding
<1>5. (Has(k) /\ Closing(k) /\ Position(k) /\ Confirming(k))'
  <2>1. CASE \E s \in Statements : StartClose(k, s)
    <3>1. PICK s \in Statements : StartClose(k, s)
      BY <2>1
    <3>2. pc'[k] = "close" /\ job'[k] = s /\ stmt[s] = "open" /\ NothingUnmatched(s)
      BY <3>1 DEF StartClose, Start, IInv, TypeOK
    <3>3. \A t \in Transactions : file[t] = s => tx[t] = "matched"
      BY <3>2 DEF NothingUnmatched, IInv, TypeOK, Files
    <3> QED BY <1>1, <3>2, <3>3 DEF Has, Closing, Position, Confirming, Paying, bank
  <2>2. CASE \E t \in Transactions : StartPropose(k, t)
    <3>1. pc'[k] = "propose" /\ job'[k] \in Transactions
      BY <2>2 DEF StartPropose, Start, IInv, TypeOK
    <3> QED BY <1>1, <3>1 DEF Has, Closing, Position, Confirming, Paying
  <2>3. CASE \E c \in Cases : StartReject(k, c)
    <3>1. pc'[k] = "reject" /\ job'[k] \in Cases
      BY <2>3 DEF StartReject, Start, IInv, TypeOK
    <3> QED BY <1>1, <3>1 DEF Has, Closing, Position, Confirming, Paying
  <2>4. CASE \E c \in Cases : StartConfirm(k, c)
    <3>1. PICK c \in Cases : StartConfirm(k, c)
      BY <2>4
    <3>2. pc'[k] = "check" /\ job'[k] = c /\ at'[k] = 1 /\ status[c] = "proposed"
      BY <3>1 DEF StartConfirm, Start, IInv, TypeOK
    <3>3. Len(c.obs) \in Nat \ {0}
      BY CaseFacts
    <3> QED BY <1>1, <3>2, <3>3 DEF Has, Closing, Position, Confirming, Paying, cases
  <2>5. CASE StartsReverse(k)
    <3>1. PICK r \in Reversals : r.loaded <= Total[r.obl] /\ Start(k, "reverse", r)
      BY <2>5, StartReverseFacts
    <3>2. pc'[k] = "reverse" /\ job'[k] = r
      BY <3>1 DEF Start, IInv, TypeOK
    <3> QED BY <1>1, <3>1, <3>2 DEF Has, Closing, Position, Confirming, Paying
  <2> QED BY <2>1, <2>2, <2>3, <2>4, <2>5 DEF Starts
<1> QED BY <1>1, <1>2, <1>3, <1>4, <1>5, CallStep

-------------------------------------------------------------------------------
(* The steps that change the tables.                                           *)

LEMMA ImportKeepsIInv ==
  ASSUME IInv, NEW s \in Statements, Import(s)
  PROVE  IInv'
<1>1. /\ stmt[s] = "absent" /\ stmt'[s] = "open"
      /\ \A r \in Statements \ {s} : stmt'[r] = stmt[r]
      /\ \A t \in Transactions :
           \/ tx'[t] = tx[t] /\ file'[t] = file[t]
           \/ tx[t] = "absent" /\ tx'[t] = "unmatched" /\ file'[t] = s
      /\ UNCHANGED <<money, cases, pc, call>>
  BY DEF Import, NewLines, IInv, TypeOK
<1>2. TypeOK'
  <2>1. stmt' \in [Statements -> {"absent", "open", "closed"}]
    BY DEF Import, IInv, TypeOK
  <2>2. tx' \in [Transactions -> {"absent", "unmatched", "matched"}]
    BY DEF Import, IInv, TypeOK
  <2>3. file' \in [Transactions -> Statements \cup {None}]
    BY DEF Import, IInv, TypeOK
  <2> QED BY <1>1, <2>1, <2>2, <2>3 DEF IInv, TypeOK, money, cases, call
<1>3. ASSUME NEW k \in Callers
      PROVE  (Has(k) /\ Closing(k) /\ Position(k) /\ Confirming(k) /\ Holding(k))'
  <2>1. Has(k) /\ Closing(k) /\ Position(k) /\ Confirming(k) /\ Holding(k)
    BY DEF IInv
  <2>2. pc[k] = "close" => job[k] \in Statements \ {s}
    BY <1>1, <2>1 DEF Has
  <2>3. Has(k)'
    BY <1>1, <2>1, <2>2 DEF Has, call
  <2>4. Closing(k)'
    BY <1>1, <2>1, <2>2 DEF Closing, call
  <2>5. Position(k)' /\ Holding(k)'
    BY <1>1, <2>1 DEF Position, Holding, RowFree, Match, money, cases, call
  <2>6. Confirming(k)'
    <3>1. pc[k] \in Paying => job[k].tx \in Transactions
      BY <2>1, CaseFacts DEF Has
    <3>2. \A t \in Transactions : tx[t] = "matched" => tx'[t] = "matched"
      BY <1>1
    <3> QED BY <1>1, <2>1, <3>1, <3>2 DEF Confirming, money, cases, call
  <2> QED BY <2>3, <2>4, <2>5, <2>6
<1>4. Files'
  BY <1>1 DEF IInv, Files, TypeOK
<1>5. (NeverOverpaid /\ CaseSettledWhole /\ DecisionMatchesMoney)'
  BY <1>1 DEF IInv, NeverOverpaid, CaseSettledWhole, DecisionMatchesMoney, money, cases
<1>6. MatchedMeansSettled'
  BY <1>1 DEF IInv, MatchedMeansSettled, money
<1>7. ClosedMeansMatched'
  <2>1. file \in [Transactions -> Statements \cup {None}]
    BY DEF IInv, TypeOK
  <2> QED BY <1>1, <2>1 DEF IInv, ClosedMeansMatched
<1> QED BY <1>2, <1>3, <1>4, <1>5, <1>6, <1>7 DEF IInv

LEMMA ReopenKeepsIInv ==
  ASSUME IInv, NEW s \in Statements, Reopen(s)
  PROVE  IInv'
<1>1. /\ stmt'[s] = "open" /\ \A r \in Statements \ {s} : stmt'[r] = stmt[r]
      /\ UNCHANGED <<money, tx, file, cases, pc, call>>
      /\ stmt' \in [Statements -> {"absent", "open", "closed"}]
  <2>1. stmt \in [Statements -> {"absent", "open", "closed"}]
    BY DEF IInv, TypeOK
  <2>2. stmt' = [stmt EXCEPT ![s] = "open"] /\ UNCHANGED <<money, tx, file, cases, pc, call>>
    BY DEF Reopen
  <2>3. stmt' \in [Statements -> {"absent", "open", "closed"}]
    BY <2>1, <2>2
  <2>4. stmt'[s] = "open" /\ \A r \in Statements \ {s} : stmt'[r] = stmt[r]
    BY <2>1, <2>2
  <2> QED BY <2>2, <2>3, <2>4
<1>2. TypeOK'
  BY <1>1 DEF IInv, TypeOK, money, cases, call
<1>3. ASSUME NEW k \in Callers
      PROVE  (Has(k) /\ Closing(k) /\ Position(k) /\ Confirming(k) /\ Holding(k))'
  <2>1. UNCHANGED <<paid, settled, undone, other>>
    BY <1>1 DEF money
  <2>2. UNCHANGED <<tx, file, status, imputed, pc, job, at, mine, txrow>>
    BY <1>1 DEF cases, call
  <2>3. Has(k)'
    <3>1. \A r \in Statements : stmt[r] # "absent" => stmt'[r] # "absent"
      BY <1>1
    <3> QED BY <2>2, <3>1 DEF IInv, Has
  <2>7. Position(k)'
    BY <2>2 DEF IInv, Position, Match
  <2>4. Closing(k)'
    BY <1>1, <2>1, <2>2 DEF IInv, Closing
  <2>5. Confirming(k)'
    BY <2>1, <2>2 DEF IInv, Confirming, RowFree, Match
  <2>6. Holding(k)'
    BY <2>1, <2>2 DEF IInv, Holding, RowFree, Match
  <2> QED BY <2>3, <2>4, <2>5, <2>6, <2>7
<1>4. (Files /\ ClosedMeansMatched)'
  BY <1>1 DEF IInv, Files, ClosedMeansMatched, TypeOK
<1>5. (NeverOverpaid /\ CaseSettledWhole /\ DecisionMatchesMoney /\ MatchedMeansSettled)'
  BY <1>1 DEF IInv, NeverOverpaid, CaseSettledWhole, DecisionMatchesMoney, MatchedMeansSettled,
     money, cases
<1> QED BY <1>2, <1>3, <1>4, <1>5 DEF IInv

LEMMA CloseKeepsIInv ==
  ASSUME IInv, NEW k \in Callers, Close(k)
  PROVE  IInv'
<1> DEFINE s == job[k]
<1>1. s \in Statements /\ stmt[s] # "absent"
      /\ \A t \in Transactions : file[t] = s => tx[t] = "matched"
  BY DEF Close, IInv, Has, Closing
<1>2. /\ stmt'[s] = "closed" /\ \A r \in Statements \ {s} : stmt'[r] = stmt[r]
      /\ stmt' \in [Statements -> {"absent", "open", "closed"}]
      /\ UNCHANGED <<money, tx, file, cases>>
  BY <1>1 DEF Close, IInv, TypeOK
<1>3. TypeOK' /\ Others(k)
  BY <1>2, EndFacts DEF Close, IInv, TypeOK, money, cases
<1>4. pc'[k] = "idle" /\ mine'[k] = {} /\ txrow'[k] = "none"
  BY EndFacts DEF Close
<1> HIDE DEF s
<1>5. ASSUME NEW x \in Callers
      PROVE  (Has(x) /\ Closing(x) /\ Position(x) /\ Confirming(x) /\ Holding(x))'
  <2>1. CASE x = k
    BY <1>4, <2>1 DEF Has, Closing, Position, Confirming, Holding, Paying
  <2>2. CASE x # k
    <3>1. Has(x) /\ Closing(x) /\ Position(x) /\ Confirming(x) /\ Holding(x)
      BY DEF IInv
    <3>2. /\ pc'[x] = pc[x] /\ job'[x] = job[x] /\ at'[x] = at[x]
          /\ mine'[x] = mine[x] /\ txrow'[x] = txrow[x]
      BY <1>3, <2>2 DEF Others
    <3>3. Has(x)'
      BY <1>1, <1>2, <3>1, <3>2 DEF Has
    <3>4. (Closing(x) /\ Position(x) /\ Confirming(x))'
      BY <1>2, <3>1, <3>2 DEF Closing, Position, Confirming, Match, money, cases
    <3>5. \A o \in mine[x] : RowFree(o, x)'
      BY <1>3, <1>4, <3>1 DEF Holding, RowFree, Others
    <3>6. Holding(x)'
      BY <1>2, <3>1, <3>2, <3>5 DEF Holding, money, cases
    <3> QED BY <3>3, <3>4, <3>6
  <2> QED BY <2>1, <2>2
<1>6. (Files /\ ClosedMeansMatched)'
  BY <1>1, <1>2 DEF IInv, Files, ClosedMeansMatched, TypeOK
<1>7. (NeverOverpaid /\ CaseSettledWhole /\ DecisionMatchesMoney /\ MatchedMeansSettled)'
  BY <1>2 DEF IInv, NeverOverpaid, CaseSettledWhole, DecisionMatchesMoney, MatchedMeansSettled,
     money, cases
<1> QED BY <1>3, <1>5, <1>6, <1>7 DEF IInv

\* A step that writes cases or balances keeps the part of a request when it leaves its
\* case and the rows it holds alone.
LEMMA UntouchedRequest ==
  ASSUME IInv, NEW x \in Callers, UNCHANGED bank,
         pc'[x] = pc[x] /\ job'[x] = job[x] /\ at'[x] = at[x],
         mine'[x] = mine[x] /\ txrow'[x] = txrow[x],
         \A y \in Callers : mine'[y] \subseteq mine[y],
         pc[x] \in Paying =>
           /\ status'[job[x]] # "absent"
           /\ settled'[job[x]] = {} => settled[job[x]] = {}
           /\ \A o \in mine[x] : paid'[o] = paid[o] /\ imputed'[job[x]][o] = imputed[job[x]][o]
  PROVE  (Has(x) /\ Closing(x) /\ Position(x) /\ Confirming(x) /\ Holding(x))'
<1>1. Has(x) /\ Closing(x) /\ Position(x) /\ Confirming(x) /\ Holding(x)
  BY DEF IInv
<1>2. (Has(x) /\ Closing(x) /\ Position(x))'
  BY <1>1 DEF Has, Closing, Position, Match, bank
<1>3. Confirming(x)'
  BY <1>1 DEF Confirming, bank
<1>4. \A o \in mine[x] : RowFree(o, x)'
  BY <1>1 DEF Holding, RowFree
<1>5. Holding(x)'
  <2>1. CASE pc[x] \in Paying
    BY <1>1, <1>4, <2>1 DEF Holding
  <2>2. CASE pc[x] \notin Paying
    BY <1>1, <2>2 DEF Holding, Has
  <2> QED BY <2>1, <2>2
<1> QED BY <1>2, <1>3, <1>5

\* The request that has just ended.
LEMMA EndedRequest ==
  ASSUME NEW k \in Callers, pc'[k] = "idle", mine'[k] = {}, txrow'[k] = "none"
  PROVE  (Has(k) /\ Closing(k) /\ Position(k) /\ Confirming(k) /\ Holding(k))'
BY DEF Has, Closing, Position, Confirming, Holding, Paying

LEMMA ProposeKeepsIInv ==
  ASSUME IInv, NEW k \in Callers, Propose(k)
  PROVE  IInv'
<1>1. PICK s \in Combinations :
        /\ Candidate(job[k], s)
        /\ LET c == [tx |-> job[k], obs |-> s] IN
             /\ status[c] = "absent"
             /\ status' = [status EXCEPT ![c] = "proposed"]
             /\ imputed' = [imputed EXCEPT ![c] =
                              [o \in Obligations |-> Imputed(job[k], s, o)]]
  BY DEF Propose
<1> DEFINE c == [tx |-> job[k], obs |-> s]
<1>2. job[k] \in Transactions /\ c \in Cases
  BY DEF Propose, IInv, Has, Cases
<1>3. \A o \in Obligations : Imputed(job[k], s, o) \in Nat
  <2> SUFFICES ASSUME NEW o \in Obligations, o \in {s[i] : i \in DOMAIN s}
               PROVE  Imputed(job[k], s, o) \in Nat
    BY DEF Imputed
  <2>1. Remaining(o) > 0 /\ Remaining(o) \in Int
    <3>1. \A i \in DOMAIN s : Remaining(s[i]) > 0
      BY <1>1 DEF Candidate
    <3>2. Total[o] \in Int /\ paid[o] \in Int
      BY DEF IInv, TypeOK
    <3> QED BY <3>1, <3>2 DEF Remaining
  <2>2. TxAmount[job[k]] \in Nat /\ Remaining(o) \in Nat
    BY <1>2, <2>1
  <2> QED BY <2>2 DEF Imputed
<1>4. /\ status[c] = "absent" /\ status'[c] = "proposed"
      /\ \A d \in Cases \ {c} : status'[d] = status[d] /\ imputed'[d] = imputed[d]
      /\ UNCHANGED <<money, bank>> /\ End(k)
  BY <1>1, <1>2 DEF Propose, IInv, TypeOK
<1>5. TypeOK'
  <2>1. status' \in [Cases -> {"absent", "proposed", "confirmed", "rejected"}]
    BY <1>1, <1>2 DEF IInv, TypeOK
  <2>2. imputed' \in [Cases -> [Obligations -> Nat]]
    BY <1>1, <1>2, <1>3 DEF IInv, TypeOK
  <2> QED BY <1>4, <2>1, <2>2, EndFacts DEF IInv, TypeOK, money, bank
<1> HIDE DEF c
<1>6. pc'[k] = "idle" /\ mine'[k] = {} /\ txrow'[k] = "none" /\ Others(k)
  BY <1>4, EndFacts
<1>7. ASSUME NEW x \in Callers
      PROVE  (Has(x) /\ Closing(x) /\ Position(x) /\ Confirming(x) /\ Holding(x))'
  <2>1. CASE x = k
    BY <1>6, <2>1, EndedRequest
  <2>2. CASE x # k
    <3>1. /\ pc'[x] = pc[x] /\ job'[x] = job[x] /\ at'[x] = at[x]
          /\ mine'[x] = mine[x] /\ txrow'[x] = txrow[x]
      BY <1>6, <2>2 DEF Others
    <3>2. \A y \in Callers : mine'[y] \subseteq mine[y]
      BY <1>6 DEF Others
    <3>3. pc[x] \in Paying => job[x] \in Cases \ {c}
      BY <1>4 DEF IInv, Has, Confirming
    <3>4. pc[x] \in Paying => status[job[x]] # "absent"
      BY DEF IInv, Confirming
    <3>5. UNCHANGED bank /\ settled' = settled /\ paid' = paid
      BY <1>4 DEF money
    <3> QED BY <1>4, <3>1, <3>2, <3>3, <3>4, <3>5, UntouchedRequest
  <2> QED BY <2>1, <2>2
<1>8. DecisionMatchesMoney'
  BY <1>2, <1>4 DEF IInv, DecisionMatchesMoney, money
<1>9. (Files /\ NeverOverpaid /\ CaseSettledWhole /\ MatchedMeansSettled /\ ClosedMeansMatched)'
  BY <1>4 DEF IInv, Files, NeverOverpaid, CaseSettledWhole, MatchedMeansSettled,
     ClosedMeansMatched, money, bank
<1> QED BY <1>5, <1>7, <1>8, <1>9 DEF IInv

LEMMA RejectKeepsIInv ==
  ASSUME IInv, NEW k \in Callers, Reject(k)
  PROVE  IInv'
<1> DEFINE c == job[k]
<1>1. c \in Cases
  BY DEF Reject, IInv, Has
<1>2. /\ status'[c] = "rejected" /\ \A d \in Cases \ {c} : status'[d] = status[d]
      /\ status' \in [Cases -> {"absent", "proposed", "confirmed", "rejected"}]
      /\ UNCHANGED <<money, bank, imputed>> /\ End(k)
  BY <1>1 DEF Reject, IInv, TypeOK
<1> HIDE DEF c
<1>3. TypeOK'
  BY <1>2, EndFacts DEF IInv, TypeOK, money, bank
<1>4. pc'[k] = "idle" /\ mine'[k] = {} /\ txrow'[k] = "none" /\ Others(k)
  BY <1>2, EndFacts
<1>5. ASSUME NEW x \in Callers
      PROVE  (Has(x) /\ Closing(x) /\ Position(x) /\ Confirming(x) /\ Holding(x))'
  <2>1. CASE x = k
    BY <1>4, <2>1, EndedRequest
  <2>2. CASE x # k
    <3>1. /\ pc'[x] = pc[x] /\ job'[x] = job[x] /\ at'[x] = at[x]
          /\ mine'[x] = mine[x] /\ txrow'[x] = txrow[x]
      BY <1>4, <2>2 DEF Others
    <3>2. \A y \in Callers : mine'[y] \subseteq mine[y]
      BY <1>4 DEF Others
    <3>3. pc[x] \in Paying => job[x] \in Cases /\ status[job[x]] # "absent"
      BY DEF IInv, Has, Confirming
    <3>4. UNCHANGED bank /\ settled' = settled /\ paid' = paid /\ imputed' = imputed
      BY <1>2 DEF money
    <3> QED BY <1>2, <3>1, <3>2, <3>3, <3>4, UntouchedRequest
  <2> QED BY <2>1, <2>2
<1>6. DecisionMatchesMoney'
  BY <1>1, <1>2 DEF IInv, DecisionMatchesMoney, money
<1>7. (Files /\ NeverOverpaid /\ CaseSettledWhole /\ MatchedMeansSettled /\ ClosedMeansMatched)'
  BY <1>2 DEF IInv, Files, NeverOverpaid, CaseSettledWhole, MatchedMeansSettled,
     ClosedMeansMatched, money, bank
<1> QED BY <1>3, <1>5, <1>6, <1>7 DEF IInv

\* A payment by the rest of the application: of an obligation no request holds.
LEMMA ElsewhereKeepsIInv ==
  ASSUME IInv, NEW o \in Obligations, NEW a \in Amounts, SettleElsewhere(o, a)
  PROVE  IInv'
<1>1. /\ \A k \in Callers : o \notin mine[k]
      /\ UNCHANGED <<settled, undone, stale, bank, cases, pc, call>>
      /\ paid' = [paid EXCEPT ![o] = @ + a] /\ other' = [other EXCEPT ![o] = @ + a]
      /\ a <= Remaining(o)
  BY DEF SettleElsewhere
<1>2. /\ paid' \in [Obligations -> Nat] /\ other' \in [Obligations -> Nat]
      /\ \A p \in Obligations \ {o} : paid'[p] = paid[p]
  BY <1>1 DEF IInv, TypeOK
<1>3. TypeOK'
  BY <1>1, <1>2 DEF IInv, TypeOK, bank, cases, call
<1>4. ASSUME NEW x \in Callers
      PROVE  (Has(x) /\ Closing(x) /\ Position(x) /\ Confirming(x) /\ Holding(x))'
  <2>1. mine[x] \subseteq Obligations \ {o}
    BY <1>1 DEF IInv, TypeOK
  <2>2. pc[x] \in Paying => status[job[x]] # "absent"
    BY DEF IInv, Confirming
  <2> QED BY <1>1, <1>2, <2>1, <2>2, UntouchedRequest DEF call, cases
<1>5. NeverOverpaid'
  <2>1. paid'[o] <= Total[o]
    BY <1>1 DEF Remaining, IInv, TypeOK
  <2> QED BY <1>2, <2>1 DEF IInv, NeverOverpaid
<1>6. (Files /\ CaseSettledWhole /\ DecisionMatchesMoney /\ MatchedMeansSettled
         /\ ClosedMeansMatched)'
  BY <1>1 DEF IInv, Files, CaseSettledWhole, DecisionMatchesMoney, MatchedMeansSettled,
     ClosedMeansMatched, bank, cases
<1> QED BY <1>3, <1>4, <1>5, <1>6 DEF IInv

\* What a reversal writes: the row of one obligation, which no confirmation holds.
LEMMA ReverseFacts ==
  ASSUME IInv, NEW k \in Callers, Reverse(k)
  PROVE  LET r == job[k] IN
         /\ r \in Reversals /\ r.obl \in Obligations /\ r.amt \in Nat /\ r.loaded \in Nat
         /\ \A x \in Callers \ {k} : r.obl \notin mine[x]
         /\ paid' \in [Obligations -> Nat] /\ \A p \in Obligations \ {r.obl} : paid'[p] = paid[p]
         /\ paid'[r.obl] <= Total[r.obl]
         /\ r.loaded = paid[r.obl] => paid'[r.obl] = Restored(paid[r.obl], r.amt)
         /\ stale' = IF r.loaded = paid[r.obl] THEN stale ELSE stale \cup {r.obl}
         /\ \/ /\ r.of = None /\ r.amt <= other[r.obl] /\ undone' = undone
               /\ other' = [other EXCEPT ![r.obl] = @ - r.amt]
            \/ /\ r.of \in Cases /\ r.obl \in settled[r.of] \ undone[r.of] /\ other' = other
               /\ undone' = [undone EXCEPT ![r.of] = @ \cup {r.obl}]
         /\ UNCHANGED <<settled, bank, cases>> /\ End(k)
<1> DEFINE r == job[k]
<1>1. r \in Reversals /\ r.loaded <= Total[r.obl] /\ pc[k] = "reverse"
  BY DEF Reverse, IInv, Has
<1>2. /\ r.obl \in Obligations /\ r.amt \in Nat /\ r.loaded \in Nat
      /\ r.of \in Cases \cup {None}
  BY <1>1 DEF Reversals
<1>3. /\ RowFree(r.obl, k) /\ Stands(r)
      /\ paid' = [paid EXCEPT ![r.obl] = Rewritten(@, r)]
      /\ other' = [other EXCEPT ![r.obl] = IF r.of = None THEN @ - r.amt ELSE @]
      /\ undone' = IF r.of = None THEN undone
                   ELSE [undone EXCEPT ![r.of] = @ \cup {r.obl}]
      /\ stale' = IF r.loaded = paid[r.obl] THEN stale ELSE stale \cup {r.obl}
      /\ End(k) /\ UNCHANGED <<settled, bank, cases>>
  BY DEF Reverse
<1> HIDE DEF r
<1>4. /\ paid \in [Obligations -> Nat] /\ other \in [Obligations -> Nat]
      /\ paid[r.obl] <= Total[r.obl] /\ Total[r.obl] \in Nat
  BY <1>2 DEF IInv, TypeOK, NeverOverpaid
<1>5. /\ Restored(r.loaded, r.amt) \in Nat /\ Restored(r.loaded, r.amt) <= r.loaded
  BY <1>2 DEF Restored
<1>6. Rewritten(paid[r.obl], r) \in Nat /\ Rewritten(paid[r.obl], r) <= Total[r.obl]
  BY <1>1, <1>2, <1>4, <1>5 DEF Rewritten
<1>7. /\ paid' \in [Obligations -> Nat] /\ paid'[r.obl] = Rewritten(paid[r.obl], r)
      /\ \A p \in Obligations \ {r.obl} : paid'[p] = paid[p]
  BY <1>2, <1>3, <1>4, <1>6
<1>8. r.loaded = paid[r.obl] => Rewritten(paid[r.obl], r) = Restored(paid[r.obl], r.amt)
  BY DEF Rewritten
<1>9. CASE r.of = None
  <2>1. r.amt <= other[r.obl] /\ undone' = undone
    BY <1>3, <1>9 DEF Stands
  <2>2. other' = [other EXCEPT ![r.obl] = @ - r.amt]
    BY <1>3, <1>9
  <2> QED BY <1>1, <1>2, <1>3, <1>6, <1>7, <1>8, <1>9, <2>1, <2>2 DEF RowFree, r
<1>10. CASE r.of # None
  <2>1. r.of \in Cases /\ r.obl \in settled[r.of] \ undone[r.of]
    BY <1>2, <1>3, <1>10 DEF Stands, Reversible
  <2>2. other' = other /\ undone' = [undone EXCEPT ![r.of] = @ \cup {r.obl}]
    BY <1>2, <1>3, <1>4, <1>10
  <2> QED BY <1>1, <1>2, <1>3, <1>6, <1>7, <1>8, <1>10, <2>1, <2>2 DEF RowFree, r
<1> QED BY <1>9, <1>10

LEMMA ReverseKeepsIInv ==
  ASSUME IInv, NEW k \in Callers, Reverse(k)
  PROVE  IInv'
<1> DEFINE o == job[k].obl
<1>1. /\ o \in Obligations /\ \A x \in Callers \ {k} : o \notin mine[x]
      /\ paid' \in [Obligations -> Nat] /\ \A p \in Obligations \ {o} : paid'[p] = paid[p]
      /\ paid'[o] <= Total[o]
      /\ UNCHANGED <<settled, bank, cases>> /\ End(k)
  BY ReverseFacts
<1>2. other' \in [Obligations -> Nat] /\ undone' \in [Cases -> SUBSET Obligations]
      /\ stale' \subseteq Obligations
  <2>1. other \in [Obligations -> Nat] /\ undone \in [Cases -> SUBSET Obligations]
        /\ stale \subseteq Obligations
    BY DEF IInv, TypeOK
  <2> QED BY <1>1, <2>1, ReverseFacts
<1> HIDE DEF o
<1>3. TypeOK' /\ Others(k) /\ pc'[k] = "idle" /\ mine'[k] = {} /\ txrow'[k] = "none"
  BY <1>1, <1>2, EndFacts DEF IInv, TypeOK, bank, cases
<1>4. ASSUME NEW x \in Callers
      PROVE  (Has(x) /\ Closing(x) /\ Position(x) /\ Confirming(x) /\ Holding(x))'
  <2>1. CASE x = k
    BY <1>3, <2>1, EndedRequest
  <2>2. CASE x # k
    <3>1. /\ pc'[x] = pc[x] /\ job'[x] = job[x] /\ at'[x] = at[x]
          /\ mine'[x] = mine[x] /\ txrow'[x] = txrow[x]
      BY <1>3, <2>2 DEF Others
    <3>2. \A y \in Callers : mine'[y] \subseteq mine[y]
      BY <1>3 DEF Others
    <3>3. pc[x] \in Paying => status[job[x]] # "absent"
      BY DEF IInv, Confirming
    <3>4. mine[x] \subseteq Obligations \ {o}
      BY <1>1, <2>2 DEF IInv, TypeOK
    <3> QED BY <1>1, <3>1, <3>2, <3>3, <3>4, UntouchedRequest DEF cases
  <2> QED BY <2>1, <2>2
<1>5. NeverOverpaid'
  BY <1>1 DEF IInv, NeverOverpaid
<1>6. (Files /\ CaseSettledWhole /\ DecisionMatchesMoney /\ MatchedMeansSettled
         /\ ClosedMeansMatched)'
  BY <1>1 DEF IInv, Files, CaseSettledWhole, DecisionMatchesMoney, MatchedMeansSettled,
     ClosedMeansMatched, bank, cases
<1> QED BY <1>3, <1>4, <1>5, <1>6 DEF IInv

\* The commit of confirm_case.
LEMMA FinishKeepsIInv ==
  ASSUME IInv, NEW k \in Callers, Finish(k)
  PROVE  IInv'
<1> DEFINE c == job[k]
<1>1. /\ c \in Cases /\ c.tx \in Transactions /\ pc[k] = "finish" /\ pc[k] \in Paying
      /\ ObligationsOf(c) # {} /\ mine[k] \subseteq Obligations
  BY CaseFacts DEF Finish, IInv, Has, TypeOK, Paying
<1>2. mine[k] \subseteq ObligationsOf(c) /\ (settled[c] = {} => mine[k] = ObligationsOf(c))
  <2>1. mine[k] \subseteq ObligationsOf(c)
    BY <1>1 DEF IInv, Confirming
  <2>2. ASSUME settled[c] = {} PROVE ObligationsOf(c) \subseteq mine[k]
    <3>1. at[k] = Len(c.obs) + 1 /\ Len(c.obs) \in Nat /\ DOMAIN c.obs = 1 .. Len(c.obs)
      BY <1>1, CaseFacts DEF IInv, Position
    <3>2. \A i \in 1 .. Len(c.obs) : i < at[k] => c.obs[i] \in mine[k]
      BY <1>1, <2>2 DEF IInv, Confirming
    <3> QED BY <3>1, <3>2 DEF ObligationsOf
  <2> QED BY <2>1, <2>2
<1>3. /\ settled'[c] = ObligationsOf(c) /\ settled' \in [Cases -> SUBSET Obligations]
      /\ \A d \in Cases \ {c} : settled'[d] = settled[d]
  <2>1. settled' = [settled EXCEPT ![c] = @ \cup mine[k]]
    BY DEF Finish
  <2>2. settled[c] \in {{}, ObligationsOf(c)}
    BY <1>1 DEF IInv, CaseSettledWhole
  <2> QED BY <1>1, <1>2, <2>1, <2>2 DEF IInv, TypeOK
<1>4. tx'[c.tx] = "matched" /\ tx' \in [Transactions -> {"absent", "unmatched", "matched"}]
      /\ \A t \in Transactions \ {c.tx} : tx'[t] = tx[t]
  <2>1. tx' = [tx EXCEPT ![c.tx] = IF txrow[k] \in {"dirty", "held"} THEN "matched" ELSE @]
    BY DEF Finish
  <2>2. txrow[k] \notin {"dirty", "held"} => tx[c.tx] = "matched"
    <3>1. txrow[k] # "none"
      BY <1>1 DEF IInv, Position
    <3>2. txrow[k] = "clean" => tx[c.tx] = "matched"
      BY <1>1 DEF IInv, Confirming
    <3>3. txrow[k] \in {"none", "clean", "dirty", "held"}
      BY DEF IInv, TypeOK
    <3> QED BY <3>1, <3>2, <3>3
  <2> QED BY <1>1, <2>1, <2>2 DEF IInv, TypeOK
<1>5. /\ status'[c] = "confirmed" /\ \A d \in Cases \ {c} : status'[d] = status[d]
      /\ status' \in [Cases -> {"absent", "proposed", "confirmed", "rejected"}]
  BY <1>1 DEF Finish, IInv, TypeOK
<1>6. \A o \in mine[k] : paid[o] + imputed[c][o] <= Total[o]
  BY DEF IInv, Holding
<1>7. /\ paid' \in [Obligations -> Nat] /\ \A o \in Obligations \ mine[k] : paid'[o] = paid[o]
      /\ \A o \in mine[k] : paid'[o] = paid[o] + imputed[c][o]
  <2>1. paid' = [o \in Obligations |-> IF o \in mine[k] THEN paid[o] + imputed[c][o] ELSE paid[o]]
    BY DEF Finish
  <2>2. \A o \in Obligations : paid[o] \in Nat /\ imputed[c][o] \in Nat
    BY <1>1 DEF IInv, TypeOK
  <2> QED BY <1>1, <2>1, <2>2
<1>8. UNCHANGED <<other, undone, stale, file, stmt, imputed>> /\ End(k)
  BY DEF Finish
<1> HIDE DEF c
<1>9. pc'[k] = "idle" /\ mine'[k] = {} /\ txrow'[k] = "none" /\ Others(k)
  BY <1>8, EndFacts
<1>10. TypeOK'
  BY <1>3, <1>4, <1>5, <1>7, <1>8, EndFacts DEF IInv, TypeOK
<1>11. ASSUME NEW x \in Callers
       PROVE  (Has(x) /\ Closing(x) /\ Position(x) /\ Confirming(x) /\ Holding(x))'
  <2>1. CASE x = k
    BY <1>9, <2>1, EndedRequest
  <2>2. CASE x # k
    <3>1. /\ pc'[x] = pc[x] /\ job'[x] = job[x] /\ at'[x] = at[x]
          /\ mine'[x] = mine[x] /\ txrow'[x] = txrow[x]
      BY <1>9, <2>2 DEF Others
    <3>2. Has(x) /\ Closing(x) /\ Position(x) /\ Confirming(x) /\ Holding(x)
      BY DEF IInv
    <3>3. Has(x)' /\ Position(x)'
      BY <1>8, <3>1, <3>2 DEF Has, Position, Match
    <3>4. Closing(x)'
      BY <1>4, <1>8, <3>1, <3>2 DEF Closing
    <3>5. Confirming(x)'
      <4>1. pc[x] \in Paying => job[x] \in Cases /\ job[x].tx \in Transactions
        BY <3>2, CaseFacts DEF Has
      <4>2. \A t \in Transactions : tx[t] = "matched" => tx'[t] = "matched"
        BY <1>4
      <4>3. \A d \in Cases : settled'[d] = {} => settled[d] = {}
        BY <1>1, <1>3
      <4>4. \A d \in Cases : status[d] # "absent" => status'[d] # "absent"
        BY <1>5
      <4> QED BY <3>1, <3>2, <4>1, <4>2, <4>3, <4>4 DEF Confirming
    <3>6. Holding(x)'
      <4>1. mine[x] \subseteq Obligations \ mine[k]
        BY <2>2, <3>2 DEF Holding, RowFree, IInv, TypeOK
      <4>2. \A o \in mine[x] : RowFree(o, x)'
        BY <1>9, <3>2 DEF Holding, RowFree, Others
      <4> QED BY <1>7, <1>8, <3>1, <3>2, <4>1, <4>2 DEF Holding
    <3> QED BY <3>3, <3>4, <3>5, <3>6
  <2> QED BY <2>1, <2>2
<1>12. Files'
  <2>1. \A t \in Transactions : tx'[t] = "absent" => tx[t] = "absent"
    BY <1>1, <1>4
  <2> QED BY <1>8, <2>1 DEF IInv, Files
<1>13. NeverOverpaid'
  BY <1>6, <1>7 DEF IInv, NeverOverpaid
<1>14. CaseSettledWhole' /\ DecisionMatchesMoney'
  BY <1>1, <1>3, <1>5 DEF IInv, CaseSettledWhole, DecisionMatchesMoney
<1>15. MatchedMeansSettled'
  <2>1. ASSUME NEW t \in Transactions
        PROVE  tx'[t] = "matched" <=> \E d \in Cases : d.tx = t /\ settled'[d] # {}
    <3>1. CASE t = c.tx
      BY <1>1, <1>3, <1>4, <3>1
    <3>2. CASE t # c.tx
      <4>1. tx'[t] = tx[t] /\ \A d \in Cases : d.tx = t => settled'[d] = settled[d]
        BY <1>3, <1>4, <3>2
      <4> QED BY <4>1 DEF IInv, MatchedMeansSettled
    <3> QED BY <3>1, <3>2
  <2> QED BY <2>1 DEF MatchedMeansSettled
<1>16. ClosedMeansMatched'
  BY <1>4, <1>8 DEF IInv, ClosedMeansMatched
<1> QED BY <1>10, <1>11, <1>12, <1>13, <1>14, <1>15, <1>16 DEF IInv

-------------------------------------------------------------------------------
LEMMA NextIInv == IInv /\ [Next]_vars => IInv'
<1> SUFFICES ASSUME IInv, [Next]_vars PROVE IInv'
  OBVIOUS
<1>1. ASSUME NEW s \in Statements, Import(s) \/ Reopen(s) PROVE IInv'
  BY <1>1, ImportKeepsIInv, ReopenKeepsIInv
<1>2. ASSUME NEW o \in Obligations, NEW a \in Amounts, SettleElsewhere(o, a) PROVE IInv'
  BY <1>2, ElsewhereKeepsIInv
<1>4. ASSUME NEW k \in Callers, Starts(k)
      PROVE  IInv'
  BY <1>4, StartKeepsIInv
<1>5. ASSUME NEW k \in Callers, Step(k) PROVE IInv'
  <2>1. CASE Close(k)
    BY <2>1, CloseKeepsIInv
  <2>2. CASE Propose(k)
    BY <2>2, ProposeKeepsIInv
  <2>3. CASE ProposeNothing(k)
    BY <2>3, EndStep DEF ProposeNothing
  <2>4. CASE Reject(k)
    BY <2>4, RejectKeepsIInv
  <2>5. CASE FoundByKey(k) \/ NotFound(k) \/ Pay(k) \/ Refused(k) \/ Insert(k) \/ Duplicate(k)
    BY <2>5, LoopKeepsIInv
  <2>6. CASE Finish(k)
    BY <2>6, FinishKeepsIInv
  <2>7. CASE Reverse(k)
    BY <2>7, ReverseKeepsIInv
  <2>8. CASE ReverseRefused(k)
    BY <2>8, EndStep DEF ReverseRefused
  <2> QED BY <1>5, <2>1, <2>2, <2>3, <2>4, <2>5, <2>6, <2>7, <2>8 DEF Step
<1>6. ASSUME NEW k \in Callers, DeadlockVictim(k) \/ Crash(k) PROVE IInv'
  BY <1>6, EndStep DEF DeadlockVictim, Crash
<1>7. CASE UNCHANGED vars
  <2>1. UNCHANGED <<money, bank, cases, call>> /\ pc' = pc
    BY <1>7 DEF vars
  <2>2. TypeOK'
    BY <2>1 DEF IInv, TypeOK, money, bank, cases, call
  <2>3. ASSUME NEW x \in Callers
        PROVE  (Has(x) /\ Closing(x) /\ Position(x) /\ Confirming(x) /\ Holding(x))'
    <3>1. pc[x] \in Paying => status[job[x]] # "absent"
      BY DEF IInv, Confirming
    <3> QED BY <2>1, <3>1, UntouchedRequest DEF money, cases, call
  <2>4. (Files /\ NeverOverpaid /\ CaseSettledWhole /\ DecisionMatchesMoney
           /\ MatchedMeansSettled /\ ClosedMeansMatched)'
    BY <2>1 DEF IInv, Files, NeverOverpaid, CaseSettledWhole, DecisionMatchesMoney,
       MatchedMeansSettled, ClosedMeansMatched, money, bank, cases
  <2> QED BY <2>2, <2>3, <2>4 DEF IInv
<1> QED BY <1>1, <1>2, <1>4, <1>5, <1>6, <1>7 DEF Next, Starts, StartsReverse

\* The invariant holds in every state.
THEOREM Invariance == Spec => []IInv
BY InitIInv, NextIInv, PTL DEF Spec

\* Types; no balance becomes negative, whatever copy a reversal has computed it from.
THEOREM TypeCorrect == Spec => []TypeOK
<1>1. IInv => TypeOK
  BY DEF IInv
<1> QED BY <1>1, Invariance, PTL

\* confirm_case is atomic: no state shows a case with a part of its settlements.
THEOREM CaseSettledWholeHolds == Spec => []CaseSettledWhole
<1>1. IInv => CaseSettledWhole
  BY DEF IInv
<1> QED BY <1>1, Invariance, PTL

\* A proposal has moved no money, and a confirmed case has moved all of it.
THEOREM DecisionMatchesMoneyHolds == Spec => []DecisionMatchesMoney
<1>1. IInv => DecisionMatchesMoney
  BY DEF IInv
<1> QED BY <1>1, Invariance, PTL

\* No mix of cases, of other payments and of reversals brings amount_settled above the
\* total, not even a reversal that writes from an outdated copy.
THEOREM NeverOverpaidHolds == Spec => []NeverOverpaid
<1>1. IInv => NeverOverpaid
  BY DEF IInv
<1> QED BY <1>1, Invariance, PTL

\* The bank transactions marked matched are those a case has used.
THEOREM MatchedMeansSettledHolds == Spec => []MatchedMeansSettled
<1>1. IInv => MatchedMeansSettled
  BY DEF IInv
<1> QED BY <1>1, Invariance, PTL

\* A closed statement hides no unmatched transaction.
THEOREM ClosedMeansMatchedHolds == Spec => []ClosedMeansMatched
<1>1. IInv => ClosedMeansMatched
  BY DEF IInv
<1> QED BY <1>1, Invariance, PTL

-------------------------------------------------------------------------------
(* Sums.  A function g on sets of keys that grows by a[k] when k joins a set gives *)
(* the sum of a over each of them.  It follows a when one of its values changes,   *)
(* and on a finite set it is the sum the library computes.                         *)

IsSum(g, a, K) ==
  /\ g \in [SUBSET K -> Nat] /\ g[{}] = 0
  /\ \A S \in SUBSET K : \A k \in S : g[S] = g[S \ {k}] + a[k]

\* The sum once the value at k is v.
Resummed(g, K, k, v) == [S \in SUBSET K |-> IF k \in S THEN g[S \ {k}] + v ELSE g[S]]

LEMMA SumFollows ==
  ASSUME NEW K, NEW a \in [K -> Nat], NEW b \in [K -> Nat], NEW g, IsSum(g, a, K),
         NEW k \in K, \A j \in K \ {k} : b[j] = a[j]
  PROVE  \E h : IsSum(h, b, K) /\ \A S \in SUBSET K : k \notin S => h[S] = g[S]
<1> DEFINE v == b[k]
           h == Resummed(g, K, k, v)
<1>1. \A S \in SUBSET K : g[S] \in Nat
  BY DEF IsSum
<1>2. \A S \in SUBSET K : h[S] = IF k \in S THEN g[S \ {k}] + v ELSE g[S]
  BY DEF Resummed
<1>3. h \in [SUBSET K -> Nat]
  <2>1. \A S \in SUBSET K : (IF k \in S THEN g[S \ {k}] + v ELSE g[S]) \in Nat
    <3> SUFFICES ASSUME NEW S \in SUBSET K PROVE (IF k \in S THEN g[S \ {k}] + v ELSE g[S]) \in Nat
      OBVIOUS
    <3>1. S \ {k} \in SUBSET K
      OBVIOUS
    <3>2. g[S] \in Nat /\ g[S \ {k}] \in Nat /\ v \in Nat
      BY <1>1, <3>1
    <3> QED BY <3>2
  <2>2. h = [S \in SUBSET K |-> IF k \in S THEN g[S \ {k}] + v ELSE g[S]]
    BY DEF Resummed
  <2> HIDE DEF h, v
  <2> QED BY <2>1, <2>2
<1>4. ASSUME NEW S \in SUBSET K, NEW j \in S
      PROVE  h[S] = h[S \ {j}] + b[j]
  <2>1. S \ {j} \in SUBSET K /\ S \ {k} \in SUBSET K
    OBVIOUS
  <2>2. CASE j = k
    <3>1. h[S] = g[S \ {k}] + v
      BY <1>2, <2>2
    <3>2. h[S \ {k}] = g[S \ {k}]
      BY <1>2, <2>1
    <3> HIDE DEF h
    <3> QED BY <2>2, <3>1, <3>2
  <2>3. CASE j # k /\ k \in S
    <3>1. h[S] = g[S \ {k}] + v
      BY <1>2, <2>3
    <3>2. h[S \ {j}] = g[(S \ {j}) \ {k}] + v
      BY <1>2, <2>1, <2>3
    <3>3. (S \ {j}) \ {k} = (S \ {k}) \ {j}
      OBVIOUS
    <3>4. g[S \ {k}] = g[(S \ {k}) \ {j}] + a[j]
      BY <2>1, <2>3 DEF IsSum
    <3>5. b[j] = a[j] /\ a[j] \in Nat /\ v \in Nat
      BY <2>3
    <3>6. g[(S \ {k}) \ {j}] \in Nat
      <4>1. (S \ {k}) \ {j} \in SUBSET K
        OBVIOUS
      <4> QED BY <1>1, <4>1
    <3>7. h[S] = g[S \ {k}] + v /\ h[S \ {j}] = g[(S \ {k}) \ {j}] + v
      BY <3>1, <3>2, <3>3
    <3> HIDE DEF h, v
    <3> QED BY <3>4, <3>5, <3>6, <3>7
  <2>4. CASE k \notin S
    <3>1. h[S] = g[S] /\ h[S \ {j}] = g[S \ {j}]
      BY <1>2, <2>1, <2>4
    <3>2. g[S] = g[S \ {j}] + a[j]
      BY DEF IsSum
    <3>3. b[j] = a[j]
      BY <2>4
    <3> HIDE DEF h
    <3> QED BY <3>1, <3>2, <3>3
  <2> QED BY <2>2, <2>3, <2>4
<1>5. h[{}] = 0
  BY <1>2 DEF IsSum
<1>6. \A S \in SUBSET K : k \notin S => h[S] = g[S]
  BY <1>2
<1> HIDE DEF h
<1>7. IsSum(h, b, K)
  BY <1>3, <1>4, <1>5 DEF IsSum
<1> QED BY <1>6, <1>7

\* h adds up the subsets of S, one element after another.
AddsUp(h, a, S) ==
  h[{}] = 0 /\ \A s \in SUBSET S : s # {} => \E x \in s : h[s] = a[x] + h[s \ {x}]

\* Any way of adding up a finite set, one element after another, gives this sum.
LEMMA SumsAgree ==
  ASSUME NEW K, NEW a \in [K -> Nat], NEW g, IsSum(g, a, K),
         NEW S \in SUBSET K, IsFiniteSet(S), NEW h, AddsUp(h, a, S)
  PROVE  h[S] = g[S]
<1> DEFINE T == {s \in SUBSET S : h[s] # g[s]}
<1>1. SUFFICES ASSUME T # {} PROVE FALSE
  <2>1. S \in SUBSET S
    OBVIOUS
  <2> QED BY <2>1
<1>2. IsWellFoundedOn(StrictSubsetOrdering(S), SUBSET S)
  <2>1. FiniteSubsetsOf(S) = SUBSET S
    BY FS_FiniteSubsetsOfFinite
  <2>2. IsWellFoundedOn(StrictSubsetOrdering(S), FiniteSubsetsOf(S))
    BY FS_StrictSubsetOrderingWellFounded
  <2> QED BY <2>1, <2>2
<1>3. T \subseteq SUBSET S
  OBVIOUS
<1>4. PICK m \in T : \A y \in T : <<y, m>> \notin StrictSubsetOrdering(S)
  <2> HIDE DEF T
  <2> QED BY <1>1, <1>2, <1>3, WFMin
<1>5. m \in SUBSET S /\ h[m] # g[m]
  BY <1>4
<1>6. m # {}
  BY <1>5 DEF IsSum, AddsUp
<1>7. PICK x \in m : h[m] = a[x] + h[m \ {x}]
  BY <1>5, <1>6 DEF AddsUp
<1> DEFINE r == m \ {x}
<1>8. r \in SUBSET S /\ r \subseteq m /\ r # m
  BY <1>5, <1>7
<1>9. <<r, m>> \in StrictSubsetOrdering(S)
  <2> HIDE DEF r
  <2> QED BY <1>5, <1>8 DEF StrictSubsetOrdering
<1>10. h[r] = g[r]
  BY <1>4, <1>8, <1>9
<1>11. g[m] = g[r] + a[x] /\ g[r] \in Nat /\ a[x] \in Nat
  BY <1>5, <1>7, <1>8 DEF IsSum
<1>12. h[m] = a[x] + g[r]
  BY <1>7, <1>10
<1> HIDE DEF r
<1> QED BY <1>5, <1>11, <1>12

\* What some cases pay of an obligation
AllImputed(o, S) == MapThenSumSet(LAMBDA c : imputed[c][o], S)

LEMMA SumOfImputed ==
  ASSUME NEW o, NEW K, NEW a \in [K -> Nat], NEW g, IsSum(g, a, K),
         \A k \in K : a[k] = imputed[k][o], NEW S \in SUBSET K, IsFiniteSet(S)
  PROVE  AllImputed(o, S) = g[S]
<1> DEFINE Sums(h) ==
             h = [s \in SUBSET S |-> IF s = {} THEN 0
                  ELSE imputed[CHOOSE x \in s : TRUE][o] + h[s \ {CHOOSE x \in s : TRUE}]]
           h == CHOOSE h : Sums(h)
<1>1. \E j : Sums(j)
  <2> DEFINE j == [s \in SUBSET S |-> g[s]]
  <2>1. ASSUME NEW s \in SUBSET S, s # {}
        PROVE  g[s] = imputed[CHOOSE x \in s : TRUE][o] + j[s \ {CHOOSE x \in s : TRUE}]
    <3> DEFINE x == CHOOSE x \in s : TRUE
    <3>1. x \in s
      BY <2>1
    <3>2. s \ {x} \in SUBSET S /\ s \in SUBSET K /\ s \ {x} \in SUBSET K /\ x \in K
      BY <3>1
    <3>3. j[s \ {x}] = g[s \ {x}]
      BY <3>2
    <3> HIDE DEF x, j
    <3>4. g[s] = g[s \ {x}] + a[x]
      BY <3>1, <3>2 DEF IsSum
    <3>5. g[s \ {x}] \in Nat /\ a[x] \in Nat
      BY <3>2 DEF IsSum
    <3>6. g[s] = a[x] + g[s \ {x}] /\ a[x] = imputed[x][o]
      BY <3>1, <3>2, <3>4, <3>5
    <3>7. g[s] = imputed[x][o] + j[s \ {x}]
      BY <3>3, <3>6
    <3> QED BY <3>7 DEF x
  <2>2. g[{}] = 0
    BY DEF IsSum
  <2>3. Sums(j)
    BY <2>1, <2>2
  <2> QED BY <2>3
<1>2. Sums(h)
  BY <1>1
<1>3. AllImputed(o, S) = h[S]
  BY DEF AllImputed, MapThenSumSet, MapThenFoldSet
<1>4. h[{}] = 0
  BY <1>2
<1>5. ASSUME NEW s \in SUBSET S, s # {}
      PROVE  \E x \in s : h[s] = a[x] + h[s \ {x}]
  <2> DEFINE x == CHOOSE x \in s : TRUE
  <2>1. x \in s
    BY <1>5
  <2>2. h[s] = imputed[x][o] + h[s \ {x}]
    BY <1>2, <1>5
  <2> HIDE DEF h, x
  <2>3. a[x] = imputed[x][o]
    BY <2>1
  <2> QED BY <2>1, <2>2, <2>3
<1> HIDE DEF h
<1>6. AddsUp(h, a, S)
  BY <1>4, <1>5 DEF AddsUp
<1>7. h[S] = g[S]
  BY <1>6, SumsAgree
<1> QED BY <1>3, <1>7

-------------------------------------------------------------------------------
(* The balances.  Only a request that is about to lose its payment can hold rows of a *)
(* case that somebody else has settled: so no commit adds a settlement twice.         *)

PaidOnce(k) ==
  pc[k] \in Paying /\ settled[job[k]] # {} =>
    mine[k] \subseteq IF pc[k] = "flush" THEN {Match(k)} ELSE {}

Undoing == \A c \in Cases : undone[c] \subseteq settled[c]

\* A reversal of a settlement of a case undoes what that case pays.
SameAmount(k) ==
  pc[k] = "reverse" /\ job[k].of # None =>
    /\ job[k].amt = imputed[job[k].of][job[k].obl]
    /\ job[k].obl \in settled[job[k].of]

\* What each case pays of an obligation
Shares(o) == [c \in Cases |-> imputed[c][o]]

Explained(o) ==
  o \notin stale =>
    /\ IsFiniteSet(Live(o))
    /\ \E g : IsSum(g, Shares(o), Cases) /\ paid[o] = other[o] + g[Live(o)]

Balances ==
  /\ \A k \in Callers : PaidOnce(k) /\ SameAmount(k)
  /\ Undoing
  /\ \A o \in Obligations : Explained(o)

LEMMA InitBalances == Init => Balances
<1> SUFFICES ASSUME Init PROVE Balances
  OBVIOUS
<1>1. (\A k \in Callers : PaidOnce(k) /\ SameAmount(k)) /\ Undoing
  BY DEF Init, PaidOnce, SameAmount, Undoing, Paying
<1>2. ASSUME NEW o \in Obligations PROVE Explained(o)
  <2> DEFINE g == [S \in SUBSET Cases |-> 0]
  <2>1. Shares(o) = [c \in Cases |-> 0]
    BY DEF Init, Shares, NothingImputed
  <2>2. IsSum(g, Shares(o), Cases)
    <3>1. g \in [SUBSET Cases -> Nat] /\ g[{}] = 0
      OBVIOUS
    <3>2. ASSUME NEW S \in SUBSET Cases, NEW c \in S
          PROVE  g[S] = g[S \ {c}] + Shares(o)[c]
      <4>1. g[S] = 0 /\ g[S \ {c}] = 0 /\ Shares(o)[c] = 0
        BY <2>1
      <4> HIDE DEF g
      <4> QED BY <4>1
    <3> HIDE DEF g
    <3> QED BY <3>1, <3>2 DEF IsSum
  <2>3. Live(o) = {}
    BY DEF Init, Live
  <2>4. g[{}] = 0 /\ paid[o] = 0 /\ other[o] = 0
    BY DEF Init
  <2> HIDE DEF g
  <2> QED BY <2>2, <2>3, <2>4, FS_EmptySet DEF Explained
<1> QED BY <1>1, <1>2 DEF Balances

\* Steps of one request that change no table.
LEMMA KeepsPaidOnce ==
  ASSUME IInv, NEW k \in Callers, PaidOnce(k), NEW x \in Callers,
         PaidOnce(x), Others(k), UNCHANGED settled, PaidOnce(k)'
  PROVE  PaidOnce(x)'
BY DEF PaidOnce, Others, Match

LEMMA LoopPaidOnce ==
  ASSUME IInv, NEW k \in Callers, PaidOnce(k),
         FoundByKey(k) \/ NotFound(k) \/ Pay(k) \/ Refused(k) \/ Insert(k) \/ Duplicate(k)
  PROVE  Others(k) /\ PaidOnce(k)'
<1> DEFINE c == job[k]
<1>1. ASSUME NEW rows, NEW kept, GoOn(k, rows, kept), settled[c] # {} => rows = {}
      PROVE  Others(k) /\ PaidOnce(k)'
  <2>1. mine'[k] = rows /\ UNCHANGED <<settled, job>> /\ Others(k)
    BY <1>1 DEF GoOn, money, Others, IInv, TypeOK
  <2> QED BY <1>1, <2>1 DEF PaidOnce
<1>2. CASE End(k) /\ UNCHANGED <<money, bank, cases>>
  BY <1>2, EndFacts DEF PaidOnce, Paying
<1>3. CASE FoundByKey(k)
  <2>1. pc[k] = "check" /\ GoOn(k, mine[k], txrow[k])
    BY <1>3 DEF FoundByKey
  <2>2. settled[c] # {} => mine[k] = {}
    BY <2>1 DEF PaidOnce, Paying
  <2> QED BY <1>1, <2>1, <2>2
<1>4. CASE Duplicate(k)
  BY <1>1, <1>4 DEF Duplicate
<1>5. CASE Refused(k)
  BY <1>1, <1>2, <1>5 DEF Refused
<1>6. CASE Insert(k)
  <2>1. c \in Cases /\ Match(k) \in ObligationsOf(c)
    <3>1. c \in Cases /\ at[k] \in 1 .. Len(c.obs) /\ Match(k) = c.obs[at[k]]
      BY <1>6 DEF Insert, IInv, Has, Position, Paying, Match
    <3> QED BY <3>1, CaseFacts DEF ObligationsOf
  <2>2. settled[c] = {}
    BY <1>6, <2>1 DEF Insert, HasWinner, IInv, CaseSettledWhole
  <2> QED BY <1>1, <1>6, <2>2 DEF Insert
<1>7. CASE NotFound(k)
  <2>1. pc[k] = "check" /\ pc' = [pc EXCEPT ![k] = "cas"] /\ UNCHANGED <<money, bank, cases, call>>
    BY <1>7 DEF NotFound
  <2>2. pc'[k] = "cas" /\ \A x \in Callers \ {k} : pc'[x] = pc[x]
    BY <2>1 DEF IInv, TypeOK
  <2>3. UNCHANGED <<settled, job, at, mine, txrow>>
    BY <2>1 DEF money, call
  <2> QED BY <2>1, <2>2, <2>3 DEF PaidOnce, Others, Paying
<1>8. CASE Pay(k)
  <2>1. /\ pc[k] = "cas" /\ mine' = [mine EXCEPT ![k] = @ \cup {Match(k)}]
        /\ pc' = [pc EXCEPT ![k] = "flush"] /\ UNCHANGED <<money, bank, cases, job, at, txrow>>
    BY <1>8 DEF Pay
  <2>2. /\ pc'[k] = "flush" /\ mine'[k] = mine[k] \cup {Match(k)}
        /\ \A x \in Callers \ {k} : pc'[x] = pc[x] /\ mine'[x] = mine[x]
    BY <2>1 DEF IInv, TypeOK
  <2>3. UNCHANGED <<settled, job, at, txrow>> /\ Match(k)' = Match(k)
    BY <2>1 DEF money, Match
  <2>4. settled[c] # {} => mine[k] = {}
    BY <2>1 DEF PaidOnce, Paying
  <2> QED BY <2>1, <2>2, <2>3, <2>4 DEF PaidOnce, Others
<1> QED BY <1>3, <1>4, <1>5, <1>6, <1>7, <1>8

\* The commit of a case: the requests that confirm the same case hold nothing.
LEMMA FinishFacts ==
  ASSUME IInv, NEW k \in Callers, PaidOnce(k), Finish(k)
  PROVE  LET c == job[k] IN
         /\ c \in Cases /\ settled' = [settled EXCEPT ![c] = @ \cup mine[k]]
         /\ \/ mine[k] = {}
            \/ settled[c] = {} /\ mine[k] = ObligationsOf(c)
         /\ paid' = [o \in Obligations |-> IF o \in mine[k] THEN paid[o] + imputed[c][o] ELSE paid[o]]
         /\ UNCHANGED <<other, undone, stale, imputed>> /\ End(k)
<1> DEFINE c == job[k]
<1>1. c \in Cases /\ pc[k] = "finish" /\ pc[k] \in Paying
  BY DEF Finish, IInv, Has, Paying
<1>2. settled[c] # {} => mine[k] = {}
  BY <1>1 DEF PaidOnce
<1>3. ASSUME settled[c] = {} PROVE mine[k] = ObligationsOf(c)
  <2>1. mine[k] \subseteq ObligationsOf(c)
    BY <1>1 DEF IInv, Confirming
  <2>2. at[k] = Len(c.obs) + 1 /\ Len(c.obs) \in Nat /\ DOMAIN c.obs = 1 .. Len(c.obs)
    BY <1>1, CaseFacts DEF IInv, Position
  <2>3. \A i \in 1 .. Len(c.obs) : i < at[k] => c.obs[i] \in mine[k]
    BY <1>1, <1>3 DEF IInv, Confirming
  <2> QED BY <2>1, <2>2, <2>3 DEF ObligationsOf
<1> QED BY <1>1, <1>2, <1>3 DEF Finish

LEMMA FinishPaidOnce ==
  ASSUME IInv, NEW k \in Callers, NEW x \in Callers, PaidOnce(k), PaidOnce(x), Finish(k)
  PROVE  PaidOnce(x)'
<1> DEFINE c == job[k]
<1>1. Others(k) /\ pc'[k] = "idle" /\ mine'[k] = {}
  BY FinishFacts, EndFacts
<1>2. CASE x = k
  BY <1>1, <1>2 DEF PaidOnce, Paying
<1>3. CASE x # k
  <2>1. pc'[x] = pc[x] /\ job'[x] = job[x] /\ mine'[x] = mine[x] /\ Match(x)' = Match(x)
    BY <1>1, <1>3 DEF Others, Match
  <2>2. CASE pc[x] \in Paying /\ job[x] = c /\ settled[c] = {} /\ mine[k] = ObligationsOf(c)
    <3>1. mine[x] \subseteq mine[k]
      BY <2>2 DEF IInv, Confirming
    <3>2. \A o \in mine[x] : o \notin mine[k]
      BY <1>3 DEF IInv, Holding, RowFree
    <3> QED BY <2>1, <3>1, <3>2 DEF PaidOnce
  <2>3. CASE pc[x] \in Paying /\ ~ (job[x] = c /\ settled[c] = {} /\ mine[k] = ObligationsOf(c))
    <3>1. job[x] \in Cases /\ settled \in [Cases -> SUBSET Obligations]
      BY <2>3 DEF IInv, Has, TypeOK
    <3>2. settled'[job[x]] # {} => settled[job[x]] # {}
      BY <2>3, <3>1, FinishFacts
    <3> QED BY <2>1, <3>2 DEF PaidOnce
  <2>4. CASE pc[x] \notin Paying
    BY <2>1, <2>4 DEF PaidOnce
  <2> QED BY <2>2, <2>3, <2>4
<1> QED BY <1>2, <1>3

\* What a step does to the balances.
LEMMA MoneySteps ==
  ASSUME IInv, \A k \in Callers : PaidOnce(k), [Next]_vars
  PROVE  \/ UNCHANGED <<money, imputed>>
         \/ \E c \in Cases :
              /\ status[c] = "absent" /\ UNCHANGED money
              /\ \A d \in Cases \ {c} : imputed'[d] = imputed[d]
         \/ \E o \in Obligations, a \in Amounts :
              /\ paid' = [paid EXCEPT ![o] = @ + a] /\ other' = [other EXCEPT ![o] = @ + a]
              /\ UNCHANGED <<settled, undone, stale, imputed>>
         \/ \E k \in Callers : Finish(k)
         \/ \E k \in Callers : Reverse(k)
<1>1. ASSUME NEW s \in Statements, Import(s) \/ Reopen(s)
      PROVE  UNCHANGED <<money, imputed>>
  BY <1>1 DEF Import, Reopen, cases
<1>2. ASSUME NEW o \in Obligations, NEW a \in Amounts, SettleElsewhere(o, a)
      PROVE  /\ paid' = [paid EXCEPT ![o] = @ + a] /\ other' = [other EXCEPT ![o] = @ + a]
             /\ UNCHANGED <<settled, undone, stale, imputed>>
  BY <1>2 DEF SettleElsewhere, cases
<1>4. ASSUME NEW k \in Callers, Starts(k) \/ DeadlockVictim(k) \/ Crash(k)
      PROVE  UNCHANGED <<money, imputed>>
  BY <1>4, StartsLeave DEF DeadlockVictim, Crash, cases
<1>5. ASSUME NEW k \in Callers, Close(k) \/ ProposeNothing(k) \/ Reject(k) \/ ReverseRefused(k)
      PROVE  UNCHANGED <<money, imputed>>
  BY <1>5 DEF Close, ProposeNothing, Reject, ReverseRefused, cases
<1>6. ASSUME NEW k \in Callers,
             FoundByKey(k) \/ NotFound(k) \/ Pay(k) \/ Refused(k) \/ Insert(k) \/ Duplicate(k)
      PROVE  UNCHANGED <<money, imputed>>
  BY <1>6 DEF FoundByKey, NotFound, Pay, Refused, Insert, Duplicate, GoOn, cases
<1>7. ASSUME NEW k \in Callers, Propose(k)
      PROVE  \E c \in Cases :
              /\ status[c] = "absent" /\ UNCHANGED money
              /\ \A d \in Cases \ {c} : imputed'[d] = imputed[d]
  <2>1. PICK s \in Combinations :
          LET c == [tx |-> job[k], obs |-> s] IN
          /\ status[c] = "absent"
          /\ imputed' = [imputed EXCEPT ![c] = [o \in Obligations |-> Imputed(job[k], s, o)]]
    BY <1>7 DEF Propose
  <2> DEFINE c == [tx |-> job[k], obs |-> s]
  <2>2. c \in Cases
    BY <1>7 DEF Propose, IInv, Has, Cases
  <2>3. \A d \in Cases \ {c} : imputed'[d] = imputed[d]
    BY <2>1 DEF IInv, TypeOK
  <2>4. UNCHANGED money
    BY <1>7 DEF Propose
  <2>5. status[c] = "absent"
    BY <2>1
  <2> HIDE DEF c
  <2> QED BY <2>2, <2>3, <2>4, <2>5
<1>8. UNCHANGED vars => UNCHANGED <<money, imputed>>
  BY DEF vars, cases
<1> QED BY <1>1, <1>2, <1>4, <1>5, <1>6, <1>7, <1>8 DEF Next, Step, Starts, StartsReverse

\* The settlements of a case that stand, once one request commits it ...
LEMMA FinishLive ==
  ASSUME IInv, Undoing, NEW k \in Callers, PaidOnce(k), Finish(k), NEW o \in Obligations
  PROVE  \/ Live(o)' = Live(o) /\ paid'[o] = paid[o]
         \/ \E c \in Cases \ Live(o) :
              Live(o)' = Live(o) \cup {c} /\ paid'[o] = paid[o] + imputed[c][o]
<1> DEFINE c == job[k]
<1>1. /\ c \in Cases /\ settled' = [settled EXCEPT ![c] = @ \cup mine[k]]
      /\ paid' = [p \in Obligations |-> IF p \in mine[k] THEN paid[p] + imputed[c][p] ELSE paid[p]]
      /\ undone' = undone
  BY FinishFacts
<1>2. settled \in [Cases -> SUBSET Obligations] /\ undone \in [Cases -> SUBSET Obligations]
  BY DEF IInv, TypeOK
<1>3. CASE o \notin mine[k]
  <2>1. \A d \in Cases : o \in settled'[d] <=> o \in settled[d]
    BY <1>1, <1>2, <1>3
  <2>2. Live(o)' = Live(o)
    BY <1>1, <2>1 DEF Live
  <2> QED BY <1>1, <1>3, <2>2
<1>4. CASE o \in mine[k]
  <2>1. settled[c] = {}
    BY <1>4, FinishFacts
  <2>2. undone[c] = {}
    BY <1>1, <2>1 DEF Undoing
  <2>3. \A d \in Cases : o \in settled'[d] \ undone'[d] <=> d = c \/ o \in settled[d] \ undone[d]
    BY <1>1, <1>2, <1>4, <2>2
  <2>4. Live(o)' = Live(o) \cup {c} /\ c \notin Live(o)
    BY <1>1, <2>1, <2>3 DEF Live
  <2>5. paid'[o] = paid[o] + imputed[c][o]
    BY <1>1, <1>4
  <2> HIDE DEF c
  <2> QED BY <1>1, <2>4, <2>5
<1> QED BY <1>3, <1>4

\* ... and once one is reversed.
LEMMA ReversalLive ==
  ASSUME IInv, NEW k \in Callers, Reverse(k), NEW o \in Obligations
  PROVE  \/ /\ Live(o)' = Live(o) /\ ~ (o = job[k].obl /\ job[k].of \in Cases /\ job[k].of # None)
         \/ /\ o = job[k].obl /\ job[k].of # None
            /\ job[k].of \in Live(o) /\ Live(o)' = Live(o) \ {job[k].of}
<1> DEFINE r == job[k]
<1>1. settled' = settled
  BY ReverseFacts
<1>2. undone \in [Cases -> SUBSET Obligations]
  BY DEF IInv, TypeOK
<1>3. \/ r.of = None /\ undone' = undone
      \/ /\ r.of \in Cases /\ r.obl \in settled[r.of] \ undone[r.of]
         /\ undone' = [undone EXCEPT ![r.of] = @ \cup {r.obl}]
  BY ReverseFacts
<1>4. CASE r.of = None
  <2>1. Live(o)' = Live(o)
    BY <1>1, <1>3, <1>4, NoneAssumption DEF Live
  <2> QED BY <1>4, <2>1
<1>5. CASE r.of # None /\ o # r.obl
  <2>1. \A d \in Cases : o \in undone'[d] <=> o \in undone[d]
    BY <1>2, <1>3, <1>5
  <2>2. Live(o)' = Live(o)
    BY <1>1, <2>1 DEF Live
  <2> QED BY <1>5, <2>2
<1>6. CASE r.of # None /\ o = r.obl
  <2>1. \A d \in Cases : o \in undone'[d] <=> d = r.of \/ o \in undone[d]
    BY <1>2, <1>3, <1>6
  <2>2. r.of \in Live(o) /\ Live(o)' = Live(o) \ {r.of}
    BY <1>1, <1>3, <1>6, <2>1 DEF Live
  <2> QED BY <1>6, <2>2
<1> QED BY <1>4, <1>5, <1>6

\* Every step leaves each balance explained.
LEMMA NextExplained ==
  ASSUME IInv, IInv', Undoing, \A k \in Callers : PaidOnce(k) /\ SameAmount(k), [Next]_vars,
         NEW o \in Obligations, Explained(o)
  PROVE  Explained(o)'
<1>0. SUFFICES ASSUME o \notin stale' PROVE Explained(o)'
  BY DEF Explained
<1>a. o \notin stale
  <2>1. stale \subseteq stale'
    <3>1. \A k \in Callers : Finish(k) => stale' = stale
      BY DEF Finish
    <3>2. \A k \in Callers : Reverse(k) => stale' = stale \/ stale' = stale \cup {job[k].obl}
      BY DEF Reverse
    <3> QED BY <3>1, <3>2, MoneySteps DEF money
  <2> QED BY <1>0, <2>1
<1> DEFINE L == Live(o)
<1>1. PICK g : IsSum(g, Shares(o), Cases) /\ paid[o] = other[o] + g[L]
  BY <1>a DEF Explained
<1>2. /\ L \in SUBSET Cases /\ Shares(o) \in [Cases -> Nat]
      /\ \A c \in Cases : Shares(o)[c] = imputed[c][o]
      /\ paid \in [Obligations -> Nat] /\ other \in [Obligations -> Nat]
  BY DEF IInv, TypeOK, Live, Shares
<1>3. other[o] \in Nat /\ paid[o] \in Nat /\ IsFiniteSet(L)
  BY <1>a, <1>2 DEF Explained
<1>4. \A S \in SUBSET Cases : g[S] \in Nat
  BY <1>1 DEF IsSum
<1>5. CASE UNCHANGED <<money, imputed>>
  <2>1. Live(o)' = L /\ Shares(o)' = Shares(o)
    BY <1>5 DEF Live, Shares, money
  <2> QED BY <1>1, <1>3, <1>5, <2>1 DEF Explained, money
<1>6. ASSUME NEW c \in Cases, status[c] = "absent", UNCHANGED money,
             \A d \in Cases \ {c} : imputed'[d] = imputed[d]
      PROVE  Explained(o)'
  <2>1. c \notin L /\ Live(o)' = L
    BY <1>6 DEF IInv, DecisionMatchesMoney, Live, money
  <2>2. Shares(o)' \in [Cases -> Nat] /\ \A d \in Cases \ {c} : Shares(o)'[d] = Shares(o)[d]
    BY <1>6 DEF IInv, TypeOK, Shares
  <2>3. PICK h : IsSum(h, Shares(o)', Cases) /\ \A S \in SUBSET Cases : c \notin S => h[S] = g[S]
    <3> DEFINE a == Shares(o)
               b == Shares(o)'
    <3>1. a \in [Cases -> Nat] /\ b \in [Cases -> Nat] /\ \A d \in Cases \ {c} : b[d] = a[d]
      BY <1>2, <2>2
    <3>2. IsSum(g, a, Cases)
      BY <1>1
    <3>3. c \in Cases
      BY <1>6
    <3> HIDE DEF a, b
    <3>4. \A j \in Cases \ {c} : b[j] = a[j]
      BY <3>1
    <3>5. a \in [Cases -> Nat] /\ b \in [Cases -> Nat]
      BY <3>1
    <3>6. \E h : IsSum(h, b, Cases) /\ \A S \in SUBSET Cases : c \notin S => h[S] = g[S]
      BY <3>2, <3>3, <3>4, <3>5, SumFollows
    <3> QED BY <3>6 DEF b
  <2>4. h[L] = g[L]
    BY <1>2, <2>1, <2>3
  <2> HIDE DEF L
  <2> QED BY <1>1, <1>3, <1>6, <2>1, <2>3, <2>4 DEF Explained, money
<1>7. ASSUME NEW p \in Obligations, NEW n \in Amounts,
             paid' = [paid EXCEPT ![p] = @ + n], other' = [other EXCEPT ![p] = @ + n],
             UNCHANGED <<settled, undone, stale, imputed>>
      PROVE  Explained(o)'
  <2>1. Live(o)' = L /\ Shares(o)' = Shares(o)
    BY <1>7 DEF Live, Shares
  <2>3. paid'[o] = other'[o] + g[L]
    <3>1. g[L] \in Nat
      BY <1>2, <1>4
    <3>2. CASE p = o
      <4>1. paid'[o] = paid[o] + n /\ other'[o] = other[o] + n
        BY <1>2, <1>7, <3>2
      <4> HIDE DEF L
      <4> QED BY <1>1, <1>2, <3>1, <4>1
    <3>3. CASE p # o
      BY <1>1, <1>2, <1>7, <3>3
    <3> QED BY <3>2, <3>3
  <2> HIDE DEF L
  <2> QED BY <1>1, <1>3, <2>1, <2>3 DEF Explained
<1>8. ASSUME NEW k \in Callers, Finish(k) PROVE Explained(o)'
  <2>1. other' = other /\ Shares(o)' = Shares(o)
    BY <1>8, FinishFacts DEF Shares
  <2>2. CASE Live(o)' = L /\ paid'[o] = paid[o]
    BY <1>1, <1>3, <2>1, <2>2 DEF Explained
  <2>3. ASSUME NEW c \in Cases \ L, Live(o)' = L \cup {c}, paid'[o] = paid[o] + imputed[c][o]
        PROVE  Explained(o)'
    <3> DEFINE N == L \cup {c}
    <3>1. N \in SUBSET Cases /\ c \in N /\ N \ {c} = L
      BY <1>2, <2>3
    <3>2. g[N] = g[L] + imputed[c][o]
      <4> HIDE DEF N, L
      <4>1. g[N] = g[N \ {c}] + Shares(o)[c]
        BY <1>1, <3>1 DEF IsSum
      <4> QED BY <1>2, <3>1, <4>1
    <3>3. g[L] \in Nat /\ imputed[c][o] \in Nat
      BY <1>2, <1>4
    <3>4. IsFiniteSet(N)
      BY <1>3, FS_AddElement
    <3>5. Live(o)' = N
      BY <2>3
    <3> HIDE DEF N, L
    <3>6. paid'[o] = other[o] + g[N]
      BY <1>1, <1>3, <2>3, <3>2, <3>3
    <3> QED BY <1>1, <1>3, <2>1, <3>4, <3>5, <3>6 DEF Explained
  <2> QED BY <1>8, <2>2, <2>3, FinishLive
<1>9. ASSUME NEW k \in Callers, Reverse(k) PROVE Explained(o)'
  <2> DEFINE r == job[k]
  <2>1. Shares(o)' = Shares(o) /\ r.amt \in Nat /\ r.obl \in Obligations
    BY <1>9, ReverseFacts DEF cases, Shares
  <2>2. CASE o # r.obl
    <3>1. paid'[o] = paid[o]
      BY <1>9, <2>2, ReverseFacts
    <3>2. other'[o] = other[o]
      BY <1>2, <1>9, <2>1, <2>2, ReverseFacts
    <3>3. Live(o)' = L
      BY <1>9, <2>2, ReversalLive
    <3> QED BY <1>1, <1>3, <2>1, <3>1, <3>2, <3>3 DEF Explained
  <2>3. ASSUME o = r.obl PROVE r.loaded = paid[o] /\ paid'[o] = Restored(paid[o], r.amt)
    <3>1. stale' = IF r.loaded = paid[r.obl] THEN stale ELSE stale \cup {r.obl}
      BY <1>9, ReverseFacts
    <3>2. r.loaded = paid[o]
      BY <1>0, <2>3, <3>1
    <3>3. r.loaded = paid[r.obl] => paid'[r.obl] = Restored(paid[r.obl], r.amt)
      BY <1>9, ReverseFacts
    <3> QED BY <2>3, <3>2, <3>3
  <2>4. CASE o = r.obl /\ r.of = None
    <3>1. r.amt <= other[o] /\ other'[o] = other[o] - r.amt
      <4>1. None \notin Cases
        BY NoneAssumption
      <4>2. r.amt <= other[r.obl] /\ other' = [other EXCEPT ![r.obl] = @ - r.amt]
        BY <1>9, <2>4, <4>1, ReverseFacts
      <4> QED BY <1>2, <2>4, <4>2
    <3>2. Live(o)' = L
      BY <1>9, <2>4, ReversalLive
    <3>3. g[L] \in Nat
      BY <1>2, <1>4
    <3> HIDE DEF r, L
    <3>4. paid'[o] = paid[o] - r.amt
      BY <1>1, <1>3, <2>1, <2>3, <2>4, <3>1, <3>3 DEF Restored
    <3>5. paid'[o] = other'[o] + g[L]
      BY <1>1, <1>3, <2>1, <3>1, <3>3, <3>4
    <3> QED BY <1>1, <1>3, <2>1, <3>2, <3>5 DEF Explained
  <2>5. CASE o = r.obl /\ r.of # None
    <3> DEFINE c == r.of
               N == L \ {c}
    <3>1. c \in L /\ Live(o)' = N
      <4>1. c \in Cases
        BY <1>9, <2>5, ReverseFacts
      <4> QED BY <1>9, <2>5, <4>1, ReversalLive
    <3>2. N \in SUBSET Cases
      BY <1>2
    <3>3. r.amt = imputed[c][o]
      <4>1. pc[k] = "reverse"
        BY <1>9 DEF Reverse
      <4> QED BY <2>5, <4>1 DEF SameAmount
    <3>4. g[L] = g[N] + r.amt
      BY <1>1, <1>2, <3>1, <3>3 DEF IsSum
    <3>5. g[N] \in Nat
      BY <1>4, <3>2
    <3>6. IsFiniteSet(N)
      BY <1>3, FS_RemoveElement
    <3>7. other' = other
      BY <1>9, <2>5, ReverseFacts
    <3> HIDE DEF N, L, c, r
    <3>8. paid'[o] = paid[o] - r.amt
      BY <1>1, <1>3, <2>1, <2>3, <2>5, <3>4, <3>5 DEF Restored
    <3>9. paid'[o] = other[o] + g[N]
      BY <1>1, <1>3, <2>1, <3>4, <3>5, <3>8
    <3> QED BY <1>1, <2>1, <3>1, <3>6, <3>7, <3>9 DEF Explained
  <2> HIDE DEF r
  <2> QED BY <2>2, <2>4, <2>5
<1> HIDE DEF L
<1> QED BY <1>5, <1>6, <1>7, <1>8, <1>9, MoneySteps

\* A request is reversing because it has started to, and then keeps what it has loaded.
LEMMA OnlyStartsReverse ==
  ASSUME IInv, [Next]_vars, NEW x \in Callers, ~ StartsReverse(x)
  PROVE  pc'[x] = "reverse" => pc[x] = "reverse" /\ job'[x] = job[x]
<1> DEFINE Kept == pc'[x] = "reverse" => pc[x] = "reverse" /\ job'[x] = job[x]
<1>a. pc \in [Callers -> Steps] /\ job \in [Callers -> Jobs]
  BY DEF IInv, TypeOK
<1>1. ASSUME NEW k \in Callers, End(k) PROVE Kept
  BY <1>1, <1>a DEF End
<1>2. ASSUME NEW k \in Callers, NEW step, step # "reverse", NEW what, Start(k, step, what)
      PROVE  Kept
  BY <1>2, <1>a DEF Start
<1>3. ASSUME NEW k \in Callers, NEW rows, NEW row, GoOn(k, rows, row) PROVE Kept
  BY <1>3, <1>a DEF GoOn
<1>4. ASSUME NEW k \in Callers, NotFound(k) \/ Pay(k) PROVE Kept
  <2>1. CASE NotFound(k)
    BY <1>a, <2>1 DEF NotFound, call
  <2>2. CASE Pay(k)
    BY <1>a, <2>2 DEF Pay
  <2> QED BY <1>4, <2>1, <2>2
<1>5. ASSUME NEW k \in Callers, k # x, StartsReverse(k) PROVE Kept
  BY <1>5, <1>a DEF StartsReverse, StartReverse, Start
<1>6. CASE UNCHANGED <<pc, call>>
  BY <1>6 DEF call
<1>7. ASSUME NEW k \in Callers, Step(k) PROVE Kept
  <2>1. CASE NotFound(k) \/ Pay(k)
    BY <1>4, <2>1
  <2>2. CASE FoundByKey(k) \/ Refused(k) \/ Insert(k) \/ Duplicate(k)
    BY <1>1, <1>3, <2>2 DEF FoundByKey, Refused, Insert, Duplicate
  <2>3. CASE \/ Close(k) \/ Propose(k) \/ ProposeNothing(k) \/ Reject(k) \/ Finish(k)
             \/ Reverse(k) \/ ReverseRefused(k)
    BY <1>1, <2>3 DEF Close, Propose, ProposeNothing, Reject, Finish, Reverse, ReverseRefused
  <2> QED BY <1>7, <2>1, <2>2, <2>3 DEF Step
<1>8. ASSUME NEW k \in Callers,
             \/ \E s \in Statements : StartClose(k, s)
             \/ \E t \in Transactions : StartPropose(k, t)
             \/ \E c \in Cases : StartReject(k, c) \/ StartConfirm(k, c)
      PROVE  Kept
  BY <1>2, <1>8 DEF StartClose, StartPropose, StartReject, StartConfirm
<1>9. ASSUME NEW k \in Callers, DeadlockVictim(k) \/ Crash(k) PROVE Kept
  BY <1>1, <1>9 DEF DeadlockVictim, Crash
<1>10. ASSUME NEW s \in Statements, Import(s) \/ Reopen(s) PROVE Kept
  BY <1>6, <1>10 DEF Import, Reopen
<1>11. ASSUME NEW o \in Obligations, NEW a \in Amounts, SettleElsewhere(o, a) PROVE Kept
  BY <1>6, <1>11 DEF SettleElsewhere
<1>12. UNCHANGED vars => Kept
  BY <1>6 DEF vars
<1>13. ASSUME NEW k \in Callers, StartsReverse(k) PROVE Kept
  BY <1>5, <1>13
<1> HIDE DEF Kept
<1>14. Kept
  BY <1>7, <1>8, <1>9, <1>10, <1>11, <1>12, <1>13 DEF Next, Starts, StartsReverse
<1> QED BY <1>14 DEF Kept

LEMMA NextPaidOnce ==
  ASSUME IInv, \A k \in Callers : PaidOnce(k), [Next]_vars, NEW x \in Callers
  PROVE  PaidOnce(x)'
<1>1. ASSUME NEW k \in Callers, Others(k), UNCHANGED settled, PaidOnce(k)'
      PROVE  PaidOnce(x)'
  BY <1>1, KeepsPaidOnce
<1>2. UNCHANGED <<settled, call, pc>> => PaidOnce(x)'
  BY DEF PaidOnce, Match, call
<1>3. ASSUME NEW k \in Callers, End(k) PROVE Others(k) /\ PaidOnce(k)'
  BY <1>3, EndFacts DEF PaidOnce, Paying
<1>4. ASSUME NEW k \in Callers, Starts(k)
      PROVE  PaidOnce(x)'
  <2>1. mine[k] = {} /\ mine' = mine /\ UNCHANGED settled
    BY <1>4, StartsLeave DEF money
  <2>2. Others(k)
    BY <1>4, StartsLeave
  <2> QED BY <1>1, <2>1, <2>2 DEF PaidOnce
<1>5. ASSUME NEW k \in Callers,
             \/ Close(k) \/ Propose(k) \/ ProposeNothing(k) \/ Reject(k) \/ Reverse(k)
             \/ ReverseRefused(k) \/ DeadlockVictim(k) \/ Crash(k)
      PROVE  PaidOnce(x)'
  <2>1. End(k) /\ UNCHANGED settled
    BY <1>5 DEF Close, Propose, ProposeNothing, Reject, Reverse, ReverseRefused,
       DeadlockVictim, Crash, money
  <2> QED BY <1>1, <1>3, <2>1
<1>6. ASSUME NEW k \in Callers,
             FoundByKey(k) \/ NotFound(k) \/ Pay(k) \/ Refused(k) \/ Insert(k) \/ Duplicate(k)
      PROVE  PaidOnce(x)'
  <2>1. UNCHANGED settled
    BY <1>6 DEF FoundByKey, NotFound, Pay, Refused, Insert, Duplicate, GoOn, money
  <2> QED BY <1>1, <1>6, <2>1, LoopPaidOnce
<1>7. ASSUME NEW k \in Callers, Finish(k) PROVE PaidOnce(x)'
  BY <1>7, FinishPaidOnce
<1>8. ASSUME NEW s \in Statements, Import(s) \/ Reopen(s) PROVE PaidOnce(x)'
  BY <1>2, <1>8 DEF Import, Reopen, money
<1>9. ASSUME NEW o \in Obligations, NEW a \in Amounts, SettleElsewhere(o, a) PROVE PaidOnce(x)'
  BY <1>2, <1>9 DEF SettleElsewhere
<1>10. UNCHANGED vars => PaidOnce(x)'
  BY <1>2 DEF vars, money
<1> QED BY <1>4, <1>5, <1>6, <1>7, <1>8, <1>9, <1>10 DEF Next, Step, Starts, StartsReverse

\* While a settlement stands or has stood, its case is not proposed anew.
LEMMA NextSameAmount ==
  ASSUME IInv, \A k \in Callers : PaidOnce(k) /\ SameAmount(k), [Next]_vars, NEW x \in Callers
  PROVE  SameAmount(x)'
<1>1. ASSUME NEW c \in Cases, NEW o \in Obligations, o \in settled[c]
      PROVE  o \in settled'[c] /\ imputed'[c][o] = imputed[c][o]
  <2>1. status[c] # "absent"
    BY <1>1 DEF IInv, DecisionMatchesMoney
  <2>2. ASSUME NEW k \in Callers, Finish(k)
        PROVE  o \in settled'[c] /\ imputed'[c][o] = imputed[c][o]
    <3>1. settled' = [settled EXCEPT ![job[k]] = @ \cup mine[k]] /\ imputed' = imputed
      BY <2>2 DEF Finish
    <3> QED BY <1>1, <3>1 DEF IInv, TypeOK
  <2>3. ASSUME NEW k \in Callers, Reverse(k)
        PROVE  o \in settled'[c] /\ imputed'[c][o] = imputed[c][o]
    BY <1>1, <2>3 DEF Reverse, cases
  <2>4. ASSUME UNCHANGED <<settled, imputed>>
        PROVE  o \in settled'[c] /\ imputed'[c][o] = imputed[c][o]
    BY <1>1, <2>4
  <2>5. ASSUME UNCHANGED settled, \E e \in Cases : status[e] = "absent" /\ \A d \in Cases \ {e} : imputed'[d] = imputed[d]
        PROVE  o \in settled'[c] /\ imputed'[c][o] = imputed[c][o]
    BY <1>1, <2>1, <2>5
  <2> QED BY <2>2, <2>3, <2>4, <2>5, MoneySteps DEF money
<1>2. ASSUME pc'[x] = "reverse" => pc[x] = "reverse" /\ job'[x] = job[x]
      PROVE  SameAmount(x)'
  <2>1. pc[x] = "reverse" => job[x] \in Reversals
    BY DEF IInv, Has
  <2>2. pc[x] = "reverse" /\ job[x].of # None => job[x].of \in Cases /\ job[x].obl \in Obligations
    BY <2>1 DEF Reversals
  <2> QED BY <1>1, <1>2, <2>2 DEF SameAmount
<1>3. ASSUME StartsReverse(x) PROVE SameAmount(x)'
  <2>1. PICK r \in Reversals :
          /\ r.of # None => r.amt = imputed[r.of][r.obl] /\ r.obl \in settled[r.of]
          /\ job' = [job EXCEPT ![x] = r]
    BY <1>3, StartReverseFacts
  <2>2. job'[x] = r /\ settled' = settled /\ imputed' = imputed
    BY <1>3, <2>1 DEF IInv, TypeOK, StartsReverse, StartReverse, money, cases
  <2> QED BY <2>1, <2>2 DEF SameAmount
<1>4. ~ StartsReverse(x) => (pc'[x] = "reverse" => pc[x] = "reverse" /\ job'[x] = job[x])
  BY OnlyStartsReverse
<1> QED BY <1>2, <1>3, <1>4

LEMMA NextUndoing ==
  ASSUME IInv, Undoing, \A k \in Callers : PaidOnce(k), [Next]_vars
  PROVE  Undoing'
<1>1. ASSUME UNCHANGED <<settled, undone>> PROVE Undoing'
  BY <1>1 DEF Undoing
<1>2. ASSUME NEW k \in Callers, Finish(k) PROVE Undoing'
  <2>1. settled' = [settled EXCEPT ![job[k]] = @ \cup mine[k]] /\ undone' = undone
    BY <1>2, FinishFacts
  <2> QED BY <2>1 DEF Undoing, IInv, TypeOK
<1>3. ASSUME NEW k \in Callers, Reverse(k) PROVE Undoing'
  <2> DEFINE r == job[k]
  <2>1. settled' = settled /\ undone \in [Cases -> SUBSET Obligations]
    BY <1>3, ReverseFacts DEF IInv, TypeOK
  <2>2. \/ undone' = undone
        \/ /\ r.of \in Cases /\ r.obl \in settled[r.of]
           /\ undone' = [undone EXCEPT ![r.of] = @ \cup {r.obl}]
    BY <1>3, ReverseFacts
  <2> HIDE DEF r
  <2> QED BY <2>1, <2>2 DEF Undoing
<1> QED BY <1>1, <1>2, <1>3, MoneySteps DEF money

\* The balances are accounted for in every state.
THEOREM BalanceInvariance == Spec => [](IInv /\ Balances)
<1>1. Init => IInv /\ Balances
  BY InitIInv, InitBalances
<1>2. IInv /\ Balances /\ [Next]_vars => (IInv /\ Balances)'
  <2> SUFFICES ASSUME IInv, Balances, [Next]_vars PROVE (IInv /\ Balances)'
    OBVIOUS
  <2>1. IInv'
    BY NextIInv
  <2>2. (\A k \in Callers : PaidOnce(k) /\ SameAmount(k)) /\ Undoing /\ \A o \in Obligations : Explained(o)
    BY DEF Balances
  <2>3. \A k \in Callers : PaidOnce(k)' /\ SameAmount(k)'
    BY <2>2, NextPaidOnce, NextSameAmount
  <2>4. Undoing'
    BY <2>2, NextUndoing
  <2>5. \A o \in Obligations : Explained(o)'
    BY <2>1, <2>2, NextExplained
  <2> QED BY <2>1, <2>3, <2>4, <2>5 DEF Balances
<1> QED BY <1>1, <1>2, PTL DEF Spec

LEMMA BalancesImplied == ASSUME IInv, Balances PROVE BalancesAreExplained
<1>1. ASSUME NEW o \in Obligations, o \notin stale
      PROVE  paid[o] = other[o] + AllImputed(o, Live(o))
  <2>1. PICK g : IsSum(g, Shares(o), Cases) /\ paid[o] = other[o] + g[Live(o)]
    BY <1>1 DEF Balances, Explained
  <2>2. /\ Live(o) \in SUBSET Cases /\ Shares(o) \in [Cases -> Nat]
        /\ \A c \in Cases : Shares(o)[c] = imputed[c][o]
    BY DEF IInv, TypeOK, Live, Shares
  <2>3. IsFiniteSet(Live(o))
    BY <1>1 DEF Balances, Explained
  <2>4. AllImputed(o, Live(o)) = g[Live(o)]
    BY <2>1, <2>2, <2>3, SumOfImputed
  <2> QED BY <2>1, <2>4
<1> QED BY <1>1 DEF BalancesAreExplained, AllImputed

\* Until a reversal has written it from an outdated copy, a balance is what was paid
\* elsewhere plus the settlements of cases that stand, once each.
THEOREM BalancesAreExplainedHolds == Spec => []BalancesAreExplained
BY BalanceInvariance, BalancesImplied, PTL
================================================================================
