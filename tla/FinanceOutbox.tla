----------------------------- MODULE FinanceOutbox -----------------------------
(***************************************************************************)
(* The transactional outbox of Finance Core and the accounting bridge that *)
(* consumes it: dispatch_pending_events (finance_core/service.py) with     *)
(* handle_financial_event (finance_core/accounting_bridge.py) as handler,  *)
(* which posts a draft entry in the journal (accounting/auto.py).          *)
(*                                                                         *)
(* A dispatcher is one call of POST /finance-core/outbox/dispatch: ONE SQL *)
(* transaction for the whole batch, a savepoint per entry, one commit at   *)
(* the end.  Nothing it writes is seen by others before that commit, but   *)
(* the rows it updated stay locked and the journal numbers it inserted     *)
(* stay reserved by their UNIQUE key: another dispatcher that needs one of *)
(* them waits.                                                             *)
(***************************************************************************)
EXTENDS Integers, FiniteSets

CONSTANTS
  Bridged,     \* settlement.created events the bridge has to post
  Preempted,   \* settlement.created events posted by their caller beforehand
  Silent,      \* events of other types
  Dispatchers, \* calls of the dispatch endpoint that may run at the same time
  MaxAttempts, \* MAX_OUTBOX_ATTEMPTS
  Limit,       \* size of a batch
  MaxManual,   \* bound: journal entries written by the rest of the application
  MaxDeletes,  \* bound: draft entries deleted by an accountant
  MaxFaults,   \* bound: failures of ecriture_settlement that come from outside
  MaxCrashes,  \* bound: dispatchers that die with their transaction
  MaxNumber,   \* bound: numbers of the journal (large enough never to be reached)
  Free, Manual, None

Events == Bridged \cup Preempted \cup Silent

ASSUME BoundsAssumption ==
  /\ MaxAttempts \in Nat \ {0} /\ Limit \in Nat \ {0} /\ MaxNumber \in Nat
  /\ MaxManual \in Nat /\ MaxDeletes \in Nat /\ MaxFaults \in Nat /\ MaxCrashes \in Nat
ASSUME EventsAssumption ==
  /\ IsFiniteSet(Events) /\ None \notin Events /\ Free \notin Events /\ Manual \notin Events
  /\ Free # Manual
  /\ Bridged \cap Preempted = {} /\ (Bridged \cup Preempted) \cap Silent = {}

VARIABLES
  row,      \* table finance_outbox_events, one row per event
  acc,      \* table accounting_events, key "acc:<event key>"
  journal,  \* table ecritures_comptables by the number in numero_piece
  pc,       \* the step each dispatcher is at
  todo,     \* the entries of its batch it has still to take
  loaded,   \* its copies of the rows, made by the SELECT
  ev,       \* the entry it has in hand
  num,      \* the number it has computed for the entry to post
  tx,       \* the rows it has updated and not committed (NoRow: not updated)
  posted,   \* the numbers it has inserted and not committed (0: none)
  used,     \* how much of each bound is spent
  gone      \* history: the events whose entry an accountant has deleted

store == <<row, acc, journal, gone>>
batch == <<todo, loaded, ev, num>>
vars == <<store, pc, batch, tx, posted, used>>

Numbers == 1 .. MaxNumber

Statuses == {"absent", "pending", "dispatched", "failed"}
Rows == [status : Statuses, attempts : 0 .. MaxAttempts]
Bounds == [manual : 0 .. MaxManual, deletes : 0 .. MaxDeletes,
           faults : 0 .. MaxFaults, crashes : 0 .. MaxCrashes]

TypeOK ==
  /\ row \in [Events -> Rows]
  /\ acc \in [Events -> {"none", "posted", "skipped"}]
  /\ journal \in [Numbers -> Events \cup {Free, Manual}]
  /\ pc \in [Dispatchers -> {"idle", "pick", "lock", "handle", "insert"}]
  /\ todo \in [Dispatchers -> SUBSET Events]
  /\ loaded \in [Dispatchers -> [Events -> Rows]]
  /\ ev \in [Dispatchers -> Events \cup {None}]
  /\ num \in [Dispatchers -> Numbers \cup {0}]
  /\ tx \in [Dispatchers -> [Events -> Rows]]
  /\ posted \in [Dispatchers -> [Events -> Numbers \cup {0}]]
  /\ used \in Bounds
  /\ gone \in SUBSET Events

NoRow == [status |-> "absent", attempts |-> 0]
NoRows == [e \in Events |-> NoRow]
NoPosts == [e \in Events |-> 0]

Init ==
  /\ row = NoRows
  /\ acc = [e \in Events |-> "none"]
  /\ journal = [n \in Numbers |-> Free]
  /\ pc = [d \in Dispatchers |-> "idle"]
  /\ todo = [d \in Dispatchers |-> {}]
  /\ loaded = [d \in Dispatchers |-> NoRows]
  /\ ev = [d \in Dispatchers |-> None]
  /\ num = [d \in Dispatchers |-> 0]
  /\ tx = [d \in Dispatchers |-> NoRows]
  /\ posted = [d \in Dispatchers |-> NoPosts]
  /\ used = [manual |-> 0, deletes |-> 0, faults |-> 0, crashes |-> 0]
  /\ gone = {}

RowLockedBy(d, e) == tx[d][e] # NoRow
Reserved(d) == {posted[d][e] : e \in Events} \ {0}

Entries == {n \in Numbers : journal[n] # Free}

\* _next_numero_piece: the number of entries it can see, plus one.
NextNumber(mine) == Cardinality(Entries) + Cardinality(mine) + 1

-------------------------------------------------------------------------------
\* emit_event in the transaction of the business operation, with the accounting event
\* that settle_obligation(skip_accounting_bridge=True) writes in advance.
Emit(e) ==
  /\ row[e] = NoRow
  /\ row' = [row EXCEPT ![e] = [status |-> "pending", attempts |-> 0]]
  /\ acc' = [acc EXCEPT ![e] = IF e \in Preempted THEN "skipped" ELSE @]
  /\ UNCHANGED <<journal, gone, pc, batch, tx, posted, used>>

\* The rest of the application (accounting, achats, ventes) posts an entry and commits.
ManualEntry ==
  LET n == NextNumber({}) IN
  /\ used.manual < MaxManual
  /\ n \in Numbers /\ journal[n] = Free /\ \A d \in Dispatchers : n \notin Reserved(d)
  /\ journal' = [journal EXCEPT ![n] = Manual]
  /\ used' = [used EXCEPT !.manual = @ + 1]
  /\ UNCHANGED <<row, acc, gone, pc, batch, tx, posted>>

\* delete_ecriture: any entry still in draft.
DeleteDraft(n) ==
  /\ used.deletes < MaxDeletes
  /\ journal[n] # Free
  /\ journal' = [journal EXCEPT ![n] = Free]
  /\ gone' = gone \cup ({journal[n]} \ {Manual})
  /\ used' = [used EXCEPT !.deletes = @ + 1]
  /\ UNCHANGED <<row, acc, pc, batch, tx, posted>>

-------------------------------------------------------------------------------
\* The SELECT of dispatch_pending_events: LIMIT rows, without a lock and in no order.
NoRetryLimitMutant(e) == row[e].status \in {"pending", "failed"}
Eligible(e) ==
  \/ row[e].status = "pending"
  \/ row[e].status = "failed" /\ row[e].attempts < MaxAttempts

Select(d) ==
  /\ pc[d] = "idle"
  /\ \E entries \in SUBSET {e \in Events : Eligible(e)} :
       /\ entries # {} /\ Cardinality(entries) <= Limit
       /\ Cardinality(entries) < Limit => entries = {e \in Events : Eligible(e)}
       /\ todo' = [todo EXCEPT ![d] = entries]
       /\ loaded' = [loaded EXCEPT ![d] =
                       [e \in Events |-> IF e \in entries THEN row[e] ELSE NoRow]]
  /\ pc' = [pc EXCEPT ![d] = "pick"]
  /\ UNCHANGED <<store, ev, num, tx, posted, used>>

\* The next entry of the loaded list.
Take(d) ==
  /\ pc[d] = "pick"
  /\ \E e \in todo[d] :
       /\ ev' = [ev EXCEPT ![d] = e]
       /\ todo' = [todo EXCEPT ![d] = @ \ {e}]
  /\ pc' = [pc EXCEPT ![d] = "lock"]
  /\ UNCHANGED <<store, loaded, num, tx, posted, used>>

\* `entry.attempts += 1`, flushed by begin_nested: an UPDATE of that column alone, with
\* the loaded value plus one, once no other transaction holds the row.
AttemptsLeftMutant(copy) == copy.attempts
NextAttempts(copy) == copy.attempts + 1

Lock(d) ==
  LET e == ev[d] IN
  /\ pc[d] = "lock"
  /\ \A x \in Dispatchers \ {d} : ~ RowLockedBy(x, e)
  /\ tx' = [tx EXCEPT ![d][e] = [status |-> row[e].status,
                                 attempts |-> NextAttempts(loaded[d][e])]]
  /\ pc' = [pc EXCEPT ![d] = "handle"]
  /\ UNCHANGED <<store, batch, posted, used>>

\* The status is part of the UPDATE only when it differs from the loaded one.
Outcome(d, status) ==
  /\ tx' = [tx EXCEPT ![d][ev[d]] =
              [status |-> IF status # loaded[d][ev[d]].status THEN status ELSE @.status,
               attempts |-> @.attempts]]
  /\ pc' = [pc EXCEPT ![d] = "pick"]
  /\ ev' = [ev EXCEPT ![d] = None]
  /\ num' = [num EXCEPT ![d] = 0]
  /\ UNCHANGED <<store, todo, loaded>>

\* The handler has nothing to post: another type of event, or already posted or skipped.
AlwaysPostMutant(e) == e \in Silent
NothingToPost(e) == e \in Silent \/ acc[e] \in {"posted", "skipped"}

HandleNothing(d) ==
  /\ pc[d] = "handle"
  /\ NothingToPost(ev[d])
  /\ Outcome(d, "dispatched")
  /\ UNCHANGED <<posted, used>>

\* ecriture_settlement computes the number of its entry.
HandleNumber(d) ==
  LET n == NextNumber(Reserved(d)) IN
  /\ pc[d] = "handle"
  /\ ~ NothingToPost(ev[d])
  /\ n \in Numbers
  /\ num' = [num EXCEPT ![d] = n]
  /\ pc' = [pc EXCEPT ![d] = "insert"]
  /\ UNCHANGED <<store, todo, loaded, ev, tx, posted, used>>

\* The INSERT waits for a transaction that has reserved the number, then succeeds ...
Granted(d) == \A x \in Dispatchers \ {d} : num[d] \notin Reserved(x)
NoUniqueKeyMutant(d) == FALSE
Taken(d) == journal[num[d]] # Free \/ num[d] \in Reserved(d)

Insert(d) ==
  /\ pc[d] = "insert" /\ Granted(d)
  /\ ~ Taken(d)
  /\ posted' = [posted EXCEPT ![d][ev[d]] = num[d]]
  /\ Outcome(d, "dispatched")
  /\ UNCHANGED used

\* ... or violates the UNIQUE key: the savepoint takes back the accounting event, and the
\* "failed" the handler had put on it.
SwallowedMutant(d) ==
  /\ pc[d] = "insert" /\ Granted(d)
  /\ Taken(d)
  /\ Outcome(d, "dispatched")
  /\ UNCHANGED <<posted, used>>
InsertFails(d) ==
  /\ pc[d] = "insert" /\ Granted(d)
  /\ Taken(d)
  /\ Outcome(d, "failed")
  /\ UNCHANGED <<posted, used>>

\* Any other exception of the handler.
Fault(d) ==
  /\ used.faults < MaxFaults
  /\ pc[d] = "handle" /\ ~ NothingToPost(ev[d])
  /\ Outcome(d, "failed")
  /\ used' = [used EXCEPT !.faults = @ + 1]
  /\ UNCHANGED posted

\* The end of a transaction: the locks and the reservations go with it.
Release(d) ==
  /\ pc' = [pc EXCEPT ![d] = "idle"]
  /\ todo' = [todo EXCEPT ![d] = {}]
  /\ loaded' = [loaded EXCEPT ![d] = NoRows]
  /\ ev' = [ev EXCEPT ![d] = None]
  /\ num' = [num EXCEPT ![d] = 0]
  /\ tx' = [tx EXCEPT ![d] = NoRows]
  /\ posted' = [posted EXCEPT ![d] = NoPosts]

\* db.commit() after the last entry: everything the batch wrote appears at once.
Commit(d) ==
  /\ pc[d] = "pick" /\ todo[d] = {}
  /\ row' = [e \in Events |-> IF RowLockedBy(d, e) THEN tx[d][e] ELSE row[e]]
  /\ acc' = [e \in Events |-> IF posted[d][e] # 0 THEN "posted" ELSE acc[e]]
  /\ journal' = [n \in Numbers |-> IF n \in Reserved(d)
                                   THEN CHOOSE e \in Events : posted[d][e] = n
                                   ELSE journal[n]]
  /\ Release(d)
  /\ UNCHANGED <<gone, used>>

Crash(d) ==
  /\ used.crashes < MaxCrashes
  /\ pc[d] # "idle"
  /\ Release(d)
  /\ used' = [used EXCEPT !.crashes = @ + 1]
  /\ UNCHANGED store

WaitsFor(d, x) ==
  /\ d # x
  /\ \/ pc[d] = "lock" /\ RowLockedBy(x, ev[d])
     \/ pc[d] = "insert" /\ num[d] \in Reserved(x)

\* PostgreSQL fails the statement of one transaction of a cycle of waits.  At "lock" that
\* statement runs in begin_nested, outside the try: the whole batch is lost.  At "insert"
\* it runs in the handler: the savepoint is rolled back and the entry is a failed one.
InCycle(d) ==
  \E S \in SUBSET Dispatchers :
    /\ d \in S
    /\ \A x \in S : (\E y \in S : WaitsFor(x, y)) /\ (\E y \in S : WaitsFor(y, x))

RetryInPlaceMutant(d) ==
  /\ InCycle(d) /\ pc[d] = "lock"
  /\ UNCHANGED <<store, batch, pc, tx, posted, used>>
LoseBatch(d) == InCycle(d) /\ pc[d] = "lock" /\ Release(d) /\ UNCHANGED <<store, used>>

LoseEntry(d) ==
  /\ InCycle(d) /\ pc[d] = "insert"
  /\ Outcome(d, "failed")
  /\ UNCHANGED <<posted, used>>

DeadlockVictim(d) == LoseBatch(d) \/ LoseEntry(d)

Step(d) ==
  \/ Take(d) \/ Lock(d) \/ HandleNothing(d) \/ HandleNumber(d)
  \/ Insert(d) \/ InsertFails(d) \/ Fault(d) \/ Commit(d)

Next ==
  \/ \E e \in Events : Emit(e)
  \/ ManualEntry
  \/ \E n \in Numbers : DeleteDraft(n)
  \/ \E d \in Dispatchers : Select(d) \/ Step(d) \/ Crash(d) \/ DeadlockVictim(d)

Spec == Init /\ [][Next]_vars

\* A batch that has started runs on (row locks are granted in arrival order) and
\* PostgreSQL breaks every cycle of waits.
BatchFairness ==
  \A d \in Dispatchers : SF_vars(Step(d)) /\ WF_vars(DeadlockVictim(d))

\* Somebody keeps calling the endpoint: the scheduled task the docstring relies on.
CallFairness == \A d \in Dispatchers : WF_vars(Select(d))

LiveSpec == Spec /\ BatchFairness /\ CallFairness

-------------------------------------------------------------------------------
\* A settlement is posted at most once: whatever dispatchers overlap, die or retry, no
\* event has two entries in the journal (accounting_bridge.py:36-40).
PostedOnce ==
  \A m, n \in Numbers : journal[m] = journal[n] /\ journal[m] \in Events => m = n

\* A settlement whose caller has posted its own entry is never posted again by the bridge
\* (settle_obligation with skip_accounting_bridge: « un double comptage »).
NeverCountedTwice == \A n \in Numbers : journal[n] \notin Preempted \cup Silent

\* The savepoint keeps the entry of the outbox and the accounting event together: an
\* event is marked dispatched exactly when its accounting event is posted.
OutboxAgreesWithBridge ==
  \A e \in Bridged : row[e].status = "dispatched" <=> acc[e] = "posted"

\* No entry is lost on the way: an event posted by the bridge is in the journal, under a
\* number of its own, until an accountant deletes the draft.
NoEntryLost ==
  \A e \in Events : acc[e] = "posted" => e \in gone \/ \E n \in Numbers : journal[n] = e

\* What has been dispatched stays so: a dispatcher that works from an older copy of the
\* row and fails never takes the row back to "failed".
DispatchedIsFinal ==
  [][\A e \in Events : row[e].status = "dispatched" => row'[e].status = "dispatched"]_row

\* Nothing is posted, and no attempt counted, by a batch that does not commit: what is
\* pending has never been tried, what failed has been.
AttemptsTellTheStory ==
  \A e \in Events : row[e].status \in {"absent", "pending"} <=> row[e].attempts = 0

\* Every call of the endpoint ends: dispatchers lock rows in no particular order, and the
\* cycles this makes are broken by the database.
EveryBatchEnds == \A d \in Dispatchers : pc[d] # "idle" ~> pc[d] = "idle"

\* Whatever fails, an event is in the end dispatched or given up: no entry is tried for
\* ever.  The one way out is a deadlock: it loses the whole batch with the attempts it
\* counted, so two dispatchers that meet in one for ever try their entries for ever.
EveryEventIsSettled ==
  <>[][\A d \in Dispatchers : ~ LoseBatch(d)]_vars =>
    \A e \in Events : row[e].status # "absent" ~>
      (row[e].status = "dispatched" \/ row[e].attempts = MaxAttempts)

================================================================================
