----------------------------- MODULE Reconciliation -----------------------------
(***************************************************************************)
(* The reconciliation of bank transactions with the obligations of Finance *)
(* Core (reconciliation/service.py) and the statements that carry these    *)
(* transactions (banking/service.py).                                      *)
(*                                                                         *)
(* A case is a proposal: one bank transaction that pays one obligation, or *)
(* several.  Confirming it settles each of its obligations in turn, in ONE *)
(* SQL transaction: the obligations it has paid stay locked until the      *)
(* commit.  propose, reject and close read a status, then write: whatever  *)
(* commits between the two is not seen.  A reversal reads a balance, then  *)
(* writes what it has computed from it.                                    *)
(*                                                                         *)
(* All transactions and obligations here have the same society and the     *)
(* same direction; the others are never candidates.  A cancelled           *)
(* obligation takes no payment, as one already paid in full.               *)
(***************************************************************************)
EXTENDS Integers, Sequences, FiniteSetsExt

CONSTANTS
  Transactions,   \* bank transactions, by the hash that identifies them
  Obligations, Statements,
  Callers,        \* requests that may run at the same time
  Total,          \* amount_total of each obligation
  TxAmount,       \* absolute amount of each transaction
  Lines,          \* the transactions in the file of each statement
  MaxCombination, \* MAX_COMBINATION_SIZE
  Amounts,        \* bound: amounts paid outside of any case
  MaxOutside,     \* bound: what stands of them on each obligation
  None

ASSUME AmountsAssumption ==
  /\ Total \in [Obligations -> Nat \ {0}] /\ TxAmount \in [Transactions -> Nat \ {0}]
  /\ Amounts \subseteq Nat \ {0} /\ MaxOutside \in [Obligations -> Nat]
  /\ MaxCombination \in Nat \ {0}
ASSUME LinesAssumption == Lines \in [Statements -> SUBSET Transactions]
\* What identifies a case: its transaction and its obligations, in the order in which
\* its matches are created and confirmed.
Combinations ==
  {s \in UNION {[1 .. n -> Obligations] : n \in 1 .. MaxCombination} :
     \A i, j \in DOMAIN s : s[i] = s[j] => i = j}
Cases == [tx : Transactions, obs : Combinations]
ObligationsOf(c) == {c.obs[i] : i \in DOMAIN c.obs}

ASSUME NoneAssumption == None \notin Statements \cup Cases

\* A reversal under way: what it undoes (a settlement of the case `of`, or one made
\* outside of any case), and the copy of amount_settled it has loaded.
Reversals == [obl : Obligations, of : Cases \cup {None}, amt : Nat, loaded : Nat]

VARIABLES
  paid,     \* amount_settled of each obligation
  other,    \* history: the part of it that was paid outside of any case
  tx,       \* reconcile_status of each bank transaction
  file,     \* the statement it was imported from
  stmt,     \* BankStatement, with its flag closed
  status,   \* ReconciliationCase
  imputed,  \* amount_imputed of the matches of a case
  settled,  \* the obligations of a case that have their settlement "stl:case:.."
  undone,   \* those of them whose settlement has been reversed
  stale,    \* history: obligations a reversal wrote from an outdated copy
  pc,       \* the step each request is at
  job,      \* the case, transaction, statement or reversal it is about
  at,       \* confirm: the match in hand
  mine,     \* confirm: the obligations paid and not committed, whose rows are locked
  txrow     \* confirm: what the session knows of the bank transaction

money == <<paid, other, settled, undone, stale>>
bank == <<tx, file, stmt>>
cases == <<status, imputed>>
call == <<job, at, mine, txrow>>
vars == <<money, bank, cases, pc, call>>

Paying == {"check", "cas", "flush", "finish"}
Steps == Paying \cup {"idle", "reject", "propose", "close", "reverse"}
Jobs == Cases \cup Transactions \cup Statements \cup Reversals \cup {None}

TypeOK ==
  /\ paid \in [Obligations -> Nat] /\ other \in [Obligations -> Nat]
  /\ tx \in [Transactions -> {"absent", "unmatched", "matched"}]
  /\ file \in [Transactions -> Statements \cup {None}]
  /\ stmt \in [Statements -> {"absent", "open", "closed"}]
  /\ status \in [Cases -> {"absent", "proposed", "confirmed", "rejected"}]
  /\ imputed \in [Cases -> [Obligations -> Nat]]
  /\ settled \in [Cases -> SUBSET Obligations] /\ undone \in [Cases -> SUBSET Obligations]
  /\ stale \subseteq Obligations
  /\ pc \in [Callers -> Steps]
  /\ job \in [Callers -> Jobs]
  /\ at \in [Callers -> Nat]
  /\ mine \in [Callers -> SUBSET Obligations]
  /\ txrow \in [Callers -> {"none", "clean", "dirty", "held"}]

NothingImputed == [o \in Obligations |-> 0]

Init ==
  /\ paid = [o \in Obligations |-> 0] /\ other = [o \in Obligations |-> 0]
  /\ tx = [t \in Transactions |-> "absent"] /\ file = [t \in Transactions |-> None]
  /\ stmt = [s \in Statements |-> "absent"]
  /\ status = [c \in Cases |-> "absent"] /\ imputed = [c \in Cases |-> NothingImputed]
  /\ settled = [c \in Cases |-> {}] /\ undone = [c \in Cases |-> {}]
  /\ stale = {}
  /\ pc = [k \in Callers |-> "idle"] /\ job = [k \in Callers |-> None]
  /\ at = [k \in Callers |-> 0] /\ mine = [k \in Callers |-> {}]
  /\ txrow = [k \in Callers |-> "none"]

Remaining(o) == Total[o] - paid[o]
RowFree(o, k) == \A x \in Callers \ {k} : o \notin mine[x]

Start(k, step, what) ==
  /\ pc[k] = "idle"
  /\ pc' = [pc EXCEPT ![k] = step]
  /\ job' = [job EXCEPT ![k] = what]

\* The end of a request and of its SQL transaction.
End(k) ==
  /\ pc' = [pc EXCEPT ![k] = "idle"]
  /\ job' = [job EXCEPT ![k] = None]
  /\ at' = [at EXCEPT ![k] = 0]
  /\ mine' = [mine EXCEPT ![k] = {}]
  /\ txrow' = [txrow EXCEPT ![k] = "none"]

-------------------------------------------------------------------------------
\* import_statement: the lines already known from another statement are left out.
NewLines(s) == {t \in Lines[s] : tx[t] = "absent"}

Import(s) ==
  /\ stmt[s] = "absent"
  /\ stmt' = [stmt EXCEPT ![s] = "open"]
  /\ tx' = [t \in Transactions |-> IF t \in NewLines(s) THEN "unmatched" ELSE tx[t]]
  /\ file' = [t \in Transactions |-> IF t \in NewLines(s) THEN s ELSE file[t]]
  /\ UNCHANGED <<money, cases, pc, call>>

\* close_statement, refused while a transaction of the statement is unmatched.
AlwaysMutant(s) == TRUE
NothingUnmatched(s) == \A t \in Transactions : file[t] = s => tx[t] # "unmatched"

StartClose(k, s) ==
  /\ stmt[s] = "open"
  /\ NothingUnmatched(s)
  /\ Start(k, "close", s)
  /\ UNCHANGED <<money, bank, cases, at, mine, txrow>>

Close(k) ==
  /\ pc[k] = "close"
  /\ stmt' = [stmt EXCEPT ![job[k]] = "closed"]
  /\ End(k)
  /\ UNCHANGED <<money, tx, file, cases>>

Reopen(s) ==
  /\ stmt[s] = "closed"
  /\ stmt' = [stmt EXCEPT ![s] = "open"]
  /\ UNCHANGED <<money, tx, file, cases, pc, call>>

-------------------------------------------------------------------------------
\* propose_matches_for_transaction: the checks ...
StartPropose(k, t) ==
  /\ tx[t] = "unmatched"
  /\ stmt[file[t]] # "closed"
  /\ Start(k, "propose", t)
  /\ UNCHANGED <<money, bank, cases, at, mine, txrow>>

\* _score_pair: without an amount equal within 1% the threshold is out of reach; with it,
\* dates and labels decide.
Abs(n) == IF n < 0 THEN -n ELSE n
CloseAmount(t, o) == 100 * Abs(TxAmount[t] - Remaining(o)) <= Remaining(o)

Imputed(t, s, o) ==
  IF o \notin {s[i] : i \in DOMAIN s} THEN 0
  ELSE IF Len(s) = 1 /\ TxAmount[t] < Remaining(o) THEN TxAmount[t] ELSE Remaining(o)

\* ... the candidates, one alone or several that add up exactly, smallest first ...
Candidate(t, s) ==
  /\ \A i \in DOMAIN s : Remaining(s[i]) > 0
  /\ \/ Len(s) = 1 /\ CloseAmount(t, s[1])
     \/ /\ Len(s) > 1
        /\ MapThenSumSet(Remaining, {s[i] : i \in DOMAIN s}) = TxAmount[t]
        /\ \A i, j \in DOMAIN s : i < j => Remaining(s[i]) <= Remaining(s[j])

\* ... and _create_case: a case that exists is returned as it is, whatever its status.
Propose(k) ==
  /\ pc[k] = "propose"
  /\ \E s \in Combinations :
       LET c == [tx |-> job[k], obs |-> s] IN
       /\ Candidate(job[k], s) /\ status[c] = "absent"
       /\ status' = [status EXCEPT ![c] = "proposed"]
       /\ imputed' = [imputed EXCEPT ![c] =
                        [o \in Obligations |-> Imputed(job[k], s, o)]]
  /\ End(k)
  /\ UNCHANGED <<money, bank>>

\* No reliable candidate (_record_exception), or a case that exists.
ProposeNothing(k) ==
  /\ pc[k] = "propose"
  /\ End(k)
  /\ UNCHANGED <<money, bank, cases>>

-------------------------------------------------------------------------------
\* reject_case.
StartReject(k, c) ==
  /\ status[c] = "proposed"
  /\ Start(k, "reject", c)
  /\ UNCHANGED <<money, bank, cases, at, mine, txrow>>

Reject(k) ==
  /\ pc[k] = "reject"
  /\ status' = [status EXCEPT ![job[k]] = "rejected"]
  /\ End(k)
  /\ UNCHANGED <<money, bank, imputed>>

-------------------------------------------------------------------------------
\* confirm_case: the check, then settle_obligation for each match.
StartConfirm(k, c) ==
  /\ status[c] = "proposed"
  /\ Start(k, "check", c)
  /\ at' = [at EXCEPT ![k] = 1]
  /\ UNCHANGED <<money, bank, cases, mine, txrow>>

Match(k) == job[k].obs[at[k]]
HasWinner(k) == Match(k) \in settled[job[k]]

\* The rest of the loop's body: the bank transaction is marked in the session, from the
\* row as it is when the session reads it first; the UPDATE waits for the next flush.
Marked(k, row) ==
  IF row # "none" THEN row ELSE IF tx[job[k].tx] = "matched" THEN "clean" ELSE "dirty"

GoOn(k, rows, row) ==
  /\ mine' = [mine EXCEPT ![k] = rows]
  /\ txrow' = [txrow EXCEPT ![k] = Marked(k, row)]
  /\ at' = [at EXCEPT ![k] = @ + 1]
  /\ pc' = [pc EXCEPT ![k] = IF at[k] = Len(job[k].obs) THEN "finish" ELSE "check"]
  /\ UNCHANGED <<money, bank, cases, job>>

\* _existing_by_key at the head of settle_obligation.
FoundByKey(k) == pc[k] = "check" /\ HasWinner(k) /\ GoOn(k, mine[k], txrow[k])

NotFound(k) ==
  /\ pc[k] = "check" /\ ~ HasWinner(k)
  /\ pc' = [pc EXCEPT ![k] = "cas"]
  /\ UNCHANGED <<money, bank, cases, call>>

\* The conditional UPDATE, which waits for the row and then sees what is committed.
Fits(k) == imputed[job[k]][Match(k)] <= Remaining(Match(k))

Pay(k) ==
  /\ pc[k] = "cas" /\ RowFree(Match(k), k)
  /\ Fits(k)
  /\ mine' = [mine EXCEPT ![k] = @ \cup {Match(k)}]
  /\ pc' = [pc EXCEPT ![k] = "flush"]
  /\ UNCHANGED <<money, bank, cases, job, at, txrow>>

\* It changes no row: everything is rolled back, and the settlement of another request
\* for the same match is returned, or 409 ends the request.
RefusalSkippedMutant(k) ==
  /\ pc[k] = "cas" /\ RowFree(Match(k), k)
  /\ ~ Fits(k)
  /\ GoOn(k, mine[k], txrow[k])
RetryForEverMutant(k) ==
  /\ pc[k] = "cas" /\ RowFree(Match(k), k)
  /\ ~ Fits(k)
  /\ pc' = [pc EXCEPT ![k] = "check"]
  /\ mine' = [mine EXCEPT ![k] = {}] /\ txrow' = [txrow EXCEPT ![k] = "none"]
  /\ UNCHANGED <<money, bank, cases, job, at>>
Refused(k) ==
  /\ pc[k] = "cas" /\ RowFree(Match(k), k)
  /\ ~ Fits(k)
  /\ \/ HasWinner(k) /\ GoOn(k, {}, "none")
     \/ ~ HasWinner(k) /\ End(k) /\ UNCHANGED <<money, bank, cases>>

\* The flush after the INSERT: it also updates the bank transaction of the previous match.
TxFree(k) ==
  txrow[k] = "dirty" =>
    \A x \in Callers \ {k} : ~ (pc[x] \in Paying /\ txrow[x] = "held" /\ job[x].tx = job[k].tx)

Insert(k) ==
  /\ pc[k] = "flush" /\ TxFree(k)
  /\ ~ HasWinner(k)
  /\ GoOn(k, mine[k], IF txrow[k] = "dirty" THEN "held" ELSE txrow[k])

\* The key of the settlement is taken: our own payment is rolled back.
KeptPaymentMutant(k) ==
  /\ pc[k] = "flush" /\ TxFree(k)
  /\ HasWinner(k)
  /\ GoOn(k, mine[k], txrow[k])
Duplicate(k) ==
  /\ pc[k] = "flush" /\ TxFree(k)
  /\ HasWinner(k)
  /\ GoOn(k, {}, "none")

\* The case is marked, and the route commits.
UnmarkedCaseMutant(k) ==
  LET c == job[k] IN
  /\ pc[k] = "finish" /\ TxFree(k)
  /\ paid' = [o \in Obligations |-> IF o \in mine[k] THEN paid[o] + imputed[c][o] ELSE paid[o]]
  /\ settled' = [settled EXCEPT ![c] = @ \cup mine[k]]
  /\ tx' = [tx EXCEPT ![c.tx] = IF txrow[k] \in {"dirty", "held"} THEN "matched" ELSE @]
  /\ End(k)
  /\ UNCHANGED <<other, undone, stale, file, stmt, imputed, status>>
Finish(k) ==
  LET c == job[k] IN
  /\ pc[k] = "finish" /\ TxFree(k)
  /\ paid' = [o \in Obligations |-> IF o \in mine[k] THEN paid[o] + imputed[c][o] ELSE paid[o]]
  /\ settled' = [settled EXCEPT ![c] = @ \cup mine[k]]
  /\ tx' = [tx EXCEPT ![c.tx] = IF txrow[k] \in {"dirty", "held"} THEN "matched" ELSE @]
  /\ status' = [status EXCEPT ![c] = "confirmed"]
  /\ End(k)
  /\ UNCHANGED <<other, undone, stale, file, stmt, imputed>>

-------------------------------------------------------------------------------
\* The rest of the application settles obligations (the conditional UPDATE of
\* settle_obligation, in a transaction of its own) ...
SettleElsewhere(o, a) ==
  /\ \A k \in Callers : o \notin mine[k]
  /\ a <= Remaining(o) /\ other[o] + a <= MaxOutside[o]
  /\ paid' = [paid EXCEPT ![o] = @ + a]
  /\ other' = [other EXCEPT ![o] = @ + a]
  /\ UNCHANGED <<settled, undone, stale, bank, cases, pc, call>>

\* ... and reverses settlements, those of cases included: the obligation is loaded
\* without a lock, and the balance computed from that copy is written later.
Reversible(c) == settled[c] \ undone[c]
ReversedAgainMutant(r) == r.of # None => r.obl \in Reversible(r.of)
Stands(r) ==
  IF r.of = None THEN r.amt <= other[r.obl] ELSE r.obl \in Reversible(r.of)

StartReverse(k, o, c, a) ==
  LET r == [obl |-> o, of |-> c, amt |-> a, loaded |-> paid[o]] IN
  /\ Stands(r)
  /\ Start(k, "reverse", r)
  /\ UNCHANGED <<money, bank, cases, at, mine, txrow>>

Restored(loaded, amt) == IF loaded < amt THEN 0 ELSE loaded - amt

\* The column is part of the UPDATE when it differs from the copy.
Rewritten(row, r) ==
  IF Restored(r.loaded, r.amt) = r.loaded THEN row ELSE Restored(r.loaded, r.amt)

Reverse(k) ==
  LET r == job[k] IN
  /\ pc[k] = "reverse" /\ RowFree(r.obl, k)
  /\ Stands(r)
  /\ paid' = [paid EXCEPT ![r.obl] = Rewritten(@, r)]
  /\ other' = [other EXCEPT ![r.obl] = IF r.of = None THEN @ - r.amt ELSE @]
  /\ undone' = IF r.of = None THEN undone ELSE [undone EXCEPT ![r.of] = @ \cup {r.obl}]
  /\ stale' = IF r.loaded = paid[r.obl] THEN stale ELSE stale \cup {r.obl}
  /\ End(k)
  /\ UNCHANGED <<settled, bank, cases>>

\* Another request has reversed the same settlement.
ReverseRefused(k) ==
  /\ pc[k] = "reverse"
  /\ ~ Stands(job[k])
  /\ End(k)
  /\ UNCHANGED <<money, bank, cases>>

-------------------------------------------------------------------------------
WaitsFor(k, x) ==
  /\ k # x
  /\ \/ pc[k] = "cas" /\ Match(k) \in mine[x]
     \/ /\ pc[k] \in {"flush", "finish"} /\ txrow[k] = "dirty"
        /\ pc[x] \in Paying /\ txrow[x] = "held" /\ job[x].tx = job[k].tx

\* PostgreSQL fails one transaction of a cycle of waits; the request ends in an error.
InCycle(k) ==
  \E S \in SUBSET Callers :
    /\ k \in S
    /\ \A x \in S : (\E y \in S : WaitsFor(x, y)) /\ (\E y \in S : WaitsFor(y, x))

DeadlockVictim(k) == InCycle(k) /\ End(k) /\ UNCHANGED <<money, bank, cases>>

\* The process dies, or the connection to the database is lost.
Crash(k) == pc[k] # "idle" /\ End(k) /\ UNCHANGED <<money, bank, cases>>

Step(k) ==
  \/ Close(k) \/ Propose(k) \/ ProposeNothing(k) \/ Reject(k)
  \/ FoundByKey(k) \/ NotFound(k) \/ Pay(k) \/ Refused(k)
  \/ Insert(k) \/ Duplicate(k) \/ Finish(k)
  \/ Reverse(k) \/ ReverseRefused(k)

Next ==
  \/ \E s \in Statements : Import(s) \/ Reopen(s)
  \/ \E o \in Obligations, a \in Amounts : SettleElsewhere(o, a)
  \/ \E k \in Callers :
       \/ \E s \in Statements : StartClose(k, s)
       \/ \E t \in Transactions : StartPropose(k, t)
       \/ \E c \in Cases : StartReject(k, c) \/ StartConfirm(k, c)
       \/ \E o \in Obligations, a \in Amounts : StartReverse(k, o, None, a)
       \/ \E o \in Obligations, c \in Cases : StartReverse(k, o, c, imputed[c][o])
       \/ Step(k) \/ DeadlockVictim(k) \/ Crash(k)

Spec == Init /\ [][Next]_vars

\* A request that has started runs on, row locks are granted in the order they are asked
\* for, and PostgreSQL breaks every cycle of waits.
LiveSpec == Spec /\ \A k \in Callers : SF_vars(Step(k)) /\ WF_vars(DeadlockVictim(k))

-------------------------------------------------------------------------------
\* A case is settled as a whole or not at all, whatever refusal, race, deadlock or crash
\* interrupts confirm_case after some of its matches.
CaseSettledWhole == \A c \in Cases : settled[c] \in {{}, ObligationsOf(c)}

\* « Aucun rapprochement n'est jamais confirmé automatiquement »: a proposal has paid
\* nothing, and a confirmed case has paid everything.
DecisionMatchesMoney ==
  \A c \in Cases :
    /\ status[c] \in {"absent", "proposed"} => settled[c] = {}
    /\ status[c] = "confirmed" => settled[c] = ObligationsOf(c)

\* « rejouable sans double règlement »: until a reversal has written it from an outdated
\* copy, what an obligation has received is what was paid elsewhere plus each settlement
\* of its cases that stands, once.
Live(o) == {c \in Cases : o \in settled[c] \ undone[c]}
BalancesAreExplained ==
  \A o \in Obligations :
    o \notin stale => paid[o] = other[o] + MapThenSumSet(LAMBDA c : imputed[c][o], Live(o))

\* Cases proposed from the same balance, confirmed side by side and mixed with payments
\* made elsewhere, never bring an obligation above its total.
NeverOverpaid == \A o \in Obligations : paid[o] <= Total[o]

\* A bank transaction is marked matched exactly when a case has used it.
MatchedMeansSettled ==
  \A t \in Transactions :
    tx[t] = "matched" <=> \E c \in Cases : c.tx = t /\ settled[c] # {}

\* The unmatched transactions of a statement cannot be hidden by closing it, even when
\* imports, confirmations and other closings run between the check and the write.
ClosedMeansMatched ==
  \A t \in Transactions :
    file[t] # None /\ stmt[file[t]] = "closed" => tx[t] = "matched"

\* Every request ends: confirmations that take the same obligations in different orders
\* do not wait for each other for ever.
EveryRequestEnds == \A k \in Callers : pc[k] # "idle" ~> pc[k] = "idle"

================================================================================
