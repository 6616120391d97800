# A formal model of SGDI / ATLAS

SGDI is the management system of a security company: one FastAPI application over one
PostgreSQL database (`app/`), web front ends served by it, and a mobile application
(`mobile/atlas`). This directory holds TLA+ models of the parts of it whose correctness
depends on the order in which things happen, the TLC runs that check them on small
instances, and TLAPS proofs of the properties that matter most for every instance.

Paths below are relative to the root of the repository (`src/` in `PROJECT.json`).

Contents

1. [The system](#1-the-system)
2. [What the models have in common](#2-what-the-models-have-in-common)
3. [FinanceCore and SettlementLedger](#3-financecore-and-settlementledger)
4. [FinanceOutbox](#4-financeoutbox)
5. [Reconciliation](#5-reconciliation)
6. [MobileSession](#6-mobilesession)
7. [OfflineQueue](#7-offlinequeue)
8. [SnapshotSync](#8-snapshotsync)
9. [EmployeeReads](#9-employeereads)
10. [SupplierPayment](#10-supplierpayment)
11. [The runs](#11-the-runs)
12. [Fairness](#12-fairness)
13. [What is proved](#13-what-is-proved)
14. [Where the code departs from what it says](#14-where-the-code-departs-from-what-it-says)
15. [What is not modelled](#15-what-is-not-modelled)
16. [Plan](#16-plan)

## 1. The system

Every HTTP request runs in a thread of its own with a database session of its own
(`app/db/session.py`: no autoflush, no autocommit, PostgreSQL's default isolation, READ
COMMITTED). A session loads a row once and keeps that copy until it commits or rolls back;
what it writes is an `UPDATE` of the columns that differ from the copy. So the state of
the system is the database plus what each request in progress has read, and the hard
behaviours are those of requests that read, decide, and write later. The web application
and the mobile application each keep copies of their own of what the server holds, and run
one piece of JavaScript at a time, up to its next `await`: there the hard behaviours are
those of answers that come after the copy, the session or the rights have changed.

| Component | State it keeps | Operations | Interacts with | What is hard | What makes it correct |
|---|---|---|---|---|---|
| **Finance Core** `app/modules/finance_core/service.py` | obligations (total, amount settled, status), payment intents, settlements, financial events | create an obligation or an intent, settle, reverse, cancel | every module that owes or is owed money calls it; writes the outbox in the same transaction | the balance is guarded by a compare-and-swap in one operation and overwritten from a copy in another; retries under idempotency keys | a key is decided once, a settlement undone once, the balance explains the settlements |
| **Outbox and accounting bridge** `dispatch_pending_events`, `accounting_bridge.py`, `accounting/auto.py` | outbox rows with attempts, accounting events, journal entries under unique numbers | emit, dispatch a batch, post an entry, delete a draft | reads what Finance Core emitted, writes the journal that accountants edit | one transaction for a whole batch, savepoints, rows locked in no order, numbers computed by counting, crashes, retries | posted at most once, never lost, every event dispatched or given up |
| **Bank statements and reconciliation** `banking/service.py`, `reconciliation/service.py` | statements with a flag closed, bank transactions, cases with their matches | import, close, reopen, propose, confirm, reject | confirming a case settles obligations of Finance Core, whose refusals roll back the session of the caller | several settlements in one transaction, checks made before the write, deadlocks between cases over the same obligations | a case is settled whole or not at all, balances add up, a closed statement hides nothing |
| **Mobile sessions** `auth/sessions.py`, `mobile/atlas/src/auth`, `api/client.ts` | server: a session and the digest of its current refresh token; device: session in memory, renewal in flight, secure storage | login, renewal, logout, revocation; sign-in, restore, retry, sign-out | every API call of the application; the network between the two | calls refused together, answers lost or late, crash between memory and storage | a token is spent once, never presented twice by accident, a session signed out stays out |
| **Offline queue** `mobile/atlas/src/offline` | the incidents entered without network: in memory, in an encrypted file, in the copy of the loop that sends | queue, discard, retry, send one by one, load, save | the incident API of the server, keyed by the identifier made on the phone; the session of the account signed in | answer lost after the server accepted, application killed in the middle, entries added or discarded during a sending, another account signing in | nothing entered is lost, nor recorded twice unless two calls for it overlap on the server, order is kept, each incident leaves under the name of its author |
| **Shared snapshot** `static/sgdi-app.js`, `irongs/service.py` | server: the collections and a cached snapshot; station: its copy, the baseline it was loaded with, flags dirty, ready, hydrated | load everything, edit, save what differs from the baseline | every station loads and saves the same collections; sign-out, expiry, changes of rights | a load that ends after an edit, a save queued behind another, a cache filled with an older reading, a copy emptied and not loaded again | one load at a time, other stations' work is not erased, what was said to be saved stays |
| **Employees of a station** `static/sgdi-app.js`, `drh/service.py` | the rows of the employees, the scopes marked fresh, whether rows lack their documents, readings in progress | ask for a scope with or without documents, share a reading, read page by page, invalidate | the screens that ask, the signals of change, the session | shared and obsolete readings, answers of two shapes and two scopes in any order, pages that move while they are read | a fresh scope has the rows of the server, an old answer changes nothing, a caller gets the shape it asked for |
| **Supplier invoices** `achats/service.py` | invoices with a total, an amount paid and a status | enter, correct, pay | settles in Finance Core inside a `try` that swallows every refusal, drafts a journal entry | the rollback of a refused settlement takes the invoice's own change with it; two payments computed from one copy | the invoice, its obligation and the journal agree |
| **Recruitment SMS** `recruitment_sms_service.py`, `..._worker.py` | challenges (code, attempts, lease, delivery state), rate counters | request and verify a code, dispatch, poll, acknowledge, apply a delivery report | an SMS gateway and a worker per process | leases that expire while a message is being sent, reports out of order, two workers | a code is used once, a message is not sent for ever, a late report never undoes a final state |
| **Remote capture** `biometrics/remote_capture.py` | a capture session per terminal, with deadlines | start, acknowledge, check, photo, decide, expire | a terminal that polls, an operator | an order that expires while it is carried out | a terminal has one order, a photo is accepted once |
| **Alerts** `alerts/service.py`, `lifecycle.py`, `scheduler.py` | alerts by deduplication key, their history | detect, update, resolve, acknowledge, close | detectors run by a scheduler under a lock | a detection racing an operator | one open alert per key, only legal transitions |
| **Customer invoicing** `irongs/sql_bridge.py` | invoices, credit notes, payments | issue, credit, pay, cancel | mirrors in Finance Core | sequences of legal calls | totals and statuses agree |
| **Others** | | | | | see section 15 |

The components call each other directly, in one process and one SQL transaction; what
couples them is that a callee may roll back the transaction of its caller
(`finance_core/service.py:299`), or defer work to the outbox. The money side is the core
of the program's own logic and is modelled first; the protocols between the applications
and the server follow. The first eight components of the table are modelled, the four
after them are not (section 15).

The hazards found while reading are in `PROJECT.json`, each with its line and the
properties that would catch it going wrong.

## 2. What the models have in common

- **An action is what one transaction does without giving others a chance.** A request
  that reads, decides and writes later is split at the read: one action checks what it
  has loaded and keeps the copy, another writes. From its first write on, a request holds
  the row lock until the commit; where nothing else can be observed in between, the write
  and the commit are one action (`FinanceCore`), and where several rows are locked one
  after the other, each is an action (`FinanceOutbox`, `Reconciliation`).
- **The WHERE clause of an UPDATE is evaluated on the committed row**, after a wait for
  the lock if somebody holds it, whatever the request had read. This is what makes the
  compare-and-swaps of the code sound, and why an UPDATE without a condition is not.
- **A column is part of an UPDATE only if it differs from the loaded copy.** An operator
  of each model says so (`ReversedRow`, `Outcome`, `Marked`).
- **Deadlocks are reached, then broken**: `WaitsFor` is PostgreSQL's lock graph, `InCycle`
  a cycle of it, and an action fails one of the victims the way the code would see it.
- **Crashes**: a request may die at any step; its transaction is rolled back.
- **In JavaScript an action runs to the next `await`.** Everything a function does before
  it, the functions it calls included, is one step; an answer, a timer or a user comes in
  between. `Quiet` (`MobileSession`) and `Busy` (`EmployeeReads`) keep other steps out while
  calls that an answer has woken go on.
- **A property excepts named situations, not states.** Where the code is known to lose
  something, a history variable (`stale`, `missed`, `crossed`, `exposed`, `blank`, `outside`,
  `overwritten`) marks what that situation touches at the step where it happens, and the
  property is about the rest: it says that there is no other way to lose it.
- **Data**: amounts are small numbers of the smallest unit (the code quantizes to cents),
  keys and names are model values.
- Definitions whose name ends in `Mutant` are not part of a model. Each is a plausible
  slip in the definition next to it, kept to show that a property notices it.

## 3. FinanceCore and SettlementLedger

`FinanceCore.tla` models `finance_core/service.py` except the outbox.

| Model | Code |
|---|---|
| `obl`, `intent`, `stl` | tables `financial_obligations`, `payment_intents`, `settlements`, by idempotency key |
| `event`, `cancelEvent` | table `financial_events`; the event of a cancellation has a key of its own form |
| `preempted` | accounting events written in advance by `settle_obligation(skip_accounting_bridge=True)` |
| `req[p]` | what request `p` has loaded: its arguments, and for a reversal or a cancellation the copy of the obligation |
| `CreateObligation`, `CreateIntent` | `create_obligation`, `create_payment_intent` |
| `SettleRead` / `SettleCommit` | `settle_obligation` up to / from its conditional UPDATE (`CasHolds`) |
| `ReverseRead` / `ReverseCommit` | `reverse_settlement` up to / from its flush |
| `CancelRead` / `CancelCommit` | `cancel_obligation` likewise |
| `Rollback` | a lost compare-and-swap, a violated UNIQUE key, a crash |

A call with a key already decided returns what it finds and changes nothing: it is a
stuttering step. `net` (payments minus reversals) and `stale` (the obligations a reversal
has written from an outdated copy) are history variables.

Properties: `NoOverpaymentUnlessStale`, `BalanceIsExactUnlessStale`, and `LedgerSpec`:
`FinanceCore` implements `SettlementLedger`, the abstract specification of what is promised
about settlements (a key is decided once and for ever; a settlement is undone only by its
mirror, at most once), with `entry <- stl`.

No property says that every settlement has an event of its own: it is not so when its key
is also an obligation's (section 14), and when it is not, the row and the event are written
by one commit and there is nothing to get wrong.

`SettledWithinTotal`, `ReversedAtMostOnce` and `IntentSettledByItsObligation` are proved
(section 13) and not run again. `NoOverpayment` is what the code says of itself and does
not hold (section 14).

## 4. FinanceOutbox

`FinanceOutbox.tla` models `dispatch_pending_events` with `handle_financial_event` as its
handler, and the numbering of `accounting/auto.py`.

| Model | Code |
|---|---|
| `row` | table `finance_outbox_events` |
| `acc` | table `accounting_events`, key `acc:<event>` |
| `journal` | table `ecritures_comptables` by number |
| `pc`, `todo`, `loaded`, `ev`, `num` | a dispatcher: its step, the rest of its batch, its copies, the entry in hand, the number it computed |
| `tx`, `posted` | what its transaction has written: locks and reservations for the others |
| `Select`, `Take` | the SELECT with LIMIT (in no order, without a lock), the loop |
| `Lock` | `attempts += 1`, flushed by `begin_nested` |
| `HandleNothing`, `HandleNumber`, `Insert`, `InsertFails`, `Fault` | the handler: nothing to do, number computed by counting, entry inserted, number already taken, any other failure |
| `Commit`, `Crash`, `LoseBatch`, `LoseEntry` | end of the transaction; a deadlock in `begin_nested` loses the batch, one inside the savepoint fails the entry |
| `ManualEntry`, `DeleteDraft` | the rest of the application, which shares the journal |

Events are of three sorts: settlements the bridge has to post (`Bridged`), settlements
their caller posts itself (`Preempted`), and all others (`Silent`).

A number is computed by counting entries, so a deleted draft makes the next number collide
with an existing one: the savepoint fails, the entry is retried, and only another entry
lets it through. This is inside the runs (`MaxDeletes = 1`).

Properties: `PostedOnce`, `NeverCountedTwice`, `OutboxAgreesWithBridge`, `NoEntryLost`, and
under fairness `EveryBatchEnds` and `EveryEventIsSettled`; `AttemptsTellTheStory` and
`DispatchedIsFinal` are proved and not run again. The last is conditional: a batch lost to a
deadlock loses the attempts it counted, so two dispatchers that meet in a deadlock again and
again try their entries for ever. It holds of behaviours in which such losses eventually stop.

## 5. Reconciliation

`Reconciliation.tla` models the statements of `banking/service.py` and the cases of
`reconciliation/service.py`, with the part of `settle_obligation` that `confirm_case`
depends on.

| Model | Code |
|---|---|
| `paid`, `other`, `settled`, `undone` | `amount_settled`; the part paid outside of any case; the settlements `stl:case:..` that exist and those reversed |
| `tx`, `file`, `stmt` | bank transactions, the statement each was imported from, its flag closed |
| `status`, `imputed` | cases and the amounts of their matches |
| `pc`, `job`, `at`, `mine`, `txrow` | a request: its step, its object, the match in hand, the rows it has paid and not committed, its copy of the bank transaction |
| `Import`, `StartClose`/`Close`, `Reopen` | `import_statement`, `close_statement`, `reopen_statement` |
| `StartPropose`/`Propose`/`ProposeNothing` | `propose_matches_for_transaction` with `_create_case` |
| `StartReject`/`Reject` | `reject_case` |
| `StartConfirm`, then `FoundByKey`, `NotFound`, `Pay`, `Refused`, `Insert`, `Duplicate` for each match, then `Finish` | `confirm_case`, and inside it each path of `settle_obligation`: key found, conditional UPDATE, refusal, key taken by another request |
| `SettleElsewhere` | the rest of the application settling the same obligations |
| `StartReverse`, then `Reverse` or `ReverseRefused` | `reverse_settlement`, of a settlement of a case or of one made elsewhere: its checks and the copy of `amount_settled` it loads (`Reversals`), then the absolute value it writes (`Restored`, floored at 0; `Rewritten`: no UPDATE of the column when the value does not differ from the copy) or the key of the reversal already taken |

The delicate part is that `settle_obligation` answers a lost race by rolling back the
session of its caller: the payments of the previous matches of the case disappear, and the
confirmation goes on with the settlement it found. `CaseSettledWhole` and
`BalancesAreExplained` say that nothing is half done all the same: when a key of a case is
found, all of them are there, because the case was committed whole by another request.

Properties: `CaseSettledWhole`, `DecisionMatchesMoney`, `BalancesAreExplained`,
`ClosedMeansMatched`, `EveryRequestEnds`; `NeverOverpaid` and `MatchedMeansSettled` are
proved and not run again. What does not hold is in section 14.

A reversal may be read before a confirmation commits and write after it: the payment of the
case is then erased from `paid`, as in `FinanceCore`. `stale` marks the obligation at the step
that writes from an outdated copy, and `BalancesAreExplained` is about the obligations not so
marked. `TypeOK`, `NeverOverpaid` and the other properties make no exception: a balance that is
wrong stays between 0 and the total.

## 6. MobileSession

`MobileSession.tla` models the renewable sessions end to end: `auth/sessions.py` on the
server, and one device.

| Model | Code |
|---|---|
| `server` | table `auth_sessions`: state, how many renewals, why it was revoked |
| `renewal` | calls of `POST /auth/refresh` and how far the server is with each |
| `LoadRefused`, `LoadReused`, `Load` / `Consume`, `ConsumeLost` | `rotate_session` up to / from its conditional UPDATE (`Consumes`) |
| `RevokeUserSessions`, `Serve` | `revoke_user_sessions`; `ensure_session_active` and `logout` |
| `current`, `renewing`, `held` | `session.ts`: the session, the shared renewal, whether the object it started from is still the session |
| `call` | API calls in progress, with the token each carries and whether it is its second attempt |
| `Attempt`, `Join`, `NothingToRenew`, `TryAgain`, `StartRenewal` | `exchange` and `renewSession`: which token a call is sent with |
| `Renewed`, `NotRenewed`, `RenewalFails`, `Denied`, `Rejected` | what the answer, or its absence, does |
| `ui`, `opening`, `SignIn`, `ProfileDone`, `Retry`, `Restore`, `SignOut`, `SignOutLocally`, `LogoutDone` | `AuthProvider` |
| `stored`, `writes`, `Flush`, `Crash` | secure storage, written behind; the application killed |

JavaScript runs to its next `await`: a call that starts chooses its token before anything
else happens on the device, which `Quiet` says. The server and the network interleave
freely; a renewal the device has given up may still be served later.

Properties: `ConsumedOnce` (a refresh token is spent at most once, however many requests
present it), `NeverTakenForACopy` (outside of the situations named
below the server never takes a token of this device for a copy, whatever its calls do side by
side) and `SignedOutStaysOut`.

`missed` is the history variable that marks, at the step where it happens, that tokens were
spent which the device may present again. `mobile/atlas/docs/ARCHITECTURE.md:87` excepts one
such situation, the answer to a renewal that is lost (`RenewalFails`). The code has others, and
the model names each: the application killed during a renewal, or before a write to its storage is
done (`Crash`); a session renewed while older tokens of it, those of the login answer or those
loaded from the storage, are still to be stored or put in memory (`OlderToCome` in `Renewed`);
the tokens of a renewal dropped because the object it started from was replaced by another with the
same tokens (`BeingRenewed` in `Restore`), or because the session was closed while the older ones
are those in the storage (`LastStored` in `NotRenewed`). Nothing is inferred from the state of
the storage itself.

`restoreState` asks the storage, then installs what it answers: two steps (`Retry` or `Crash`,
then `Restore`), between which other calls may go on. A profile refused for a permission (403)
closes the session as one refused for its token does (`Answers`, `Rejected`); a picture that is
refused closes nothing (`RequestDone`).

## 7. OfflineQueue

`OfflineQueue.tla` models the incidents entered on a phone without network, from the screen
that enters one to the row of the server.

| Model | Code |
|---|---|
| `user`, `SignIn`, `SignOut` | the account of `AuthProvider`, as `OfflineProvider` sees it |
| `latest`, `shown` | `latest.current` of `OfflineProvider`, and the account its queue was loaded for |
| `loading`, `Load` | `loadQueue`: a queue of another account is erased, not read; `Resumed` puts back what a killed run left `syncing` |
| `saving`, `stored`, `SaveDone`, `SaveFails` | `saveQueue` over `secureBlob.ts`; `Commit` is what every change of the queue does |
| `overlap`, `Outcomes` | two writes side by side take the same generation number: what is read back is one of them, the value before, or nothing |
| `Submit`, `Discard`, `Retry` | `new.tsx` once its direct attempt got no answer, and the screen of the queue |
| `loop`, `StartSync`, `Advance`, `Send`, `Continue` | `syncQueue`: it works on the copy it started with, marks an incident, sends it, settles it and writes its copy back |
| `SendAgain` | the client repeats a call refused for its session under the session that replaced it |
| `rows`, `Found`, `Lookup`, `Record` | the rows of an incident, and `upsert_incident`: the SELECT by `external_id`, then the INSERT or the UPDATE |
| `Accepted`, `Refused`, `Unanswered` | the answers, and what `AfterFailure` keeps |
| `late`, `GivenUp`, `LateLookup`, `LateWrite` | calls the phone has given up on, which the server does not serve, has served, or goes on serving |
| `Crash` | the application killed and opened again |

`upsert_incident` (`irongs/sql_bridge.py:1386`) is a SELECT and then an INSERT, and no UNIQUE
constraint stands behind it (`ops/models.py:163`). A call cut off at its delay may still be
served, so it may overlap the next call for the same incident, and both may insert. `crossed` holds
the incidents sent while the server was still serving an earlier call for them;
`OneRowUnlessCrossed` says that there is no other way to a second row. Once there are two, the
SELECT fails on them, the server can neither accept nor refuse the incident, and the queue behind
it waits: `EventuallySettled` excepts a queue that holds such an incident (`Stuck`).

`exposed` holds the incidents touched by one of the situations in which the code may lose or revive
something: a change made on the screen while the loop runs over its own copy (`sync.ts:35`),
two writes side by side, an account that leaves while something is in progress, a keychain
that refuses. They are in the model and reached in the runs; the properties say that
nothing else harms an incident.

`Kept(q, A)` is `filter`: the items of `q` that are in `A`. It is written by the places it
keeps, the n-th item being the one with n places up to it, and not by recursion, so that its
order and its contents can be proved (`OfflineQueueProofs`, the operators on queues).

Properties: `NothingLost`, `OneRowUnlessCrossed`, `SentByItsOwner`, `NotSentAgain`, `SentInOrder`,
and under fairness `EventuallySettled`.

## 8. SnapshotSync

`SnapshotSync.tla` models the base that all stations of the web application share: a station
loads it whole (`sgdiPullState`, `get_database`), works on its copy, and saves the
collections that differ from its baseline (`sgdiBackendSave`, `replace_database`).

| Model | Code |
|---|---|
| `server`, `cache`, `ServerRead`, `ServerCaches`, `CacheExpires`, `Replaced` | the records by collection and the snapshot cache of `irongs/service.py`; an empty collection replaces nothing |
| `db`, `baseline`, `dirty`, `ready`, `hydrated` | `db`, `sgdiSavedBaseline`, `sgdiDirty`, `sgdiPostgresReady`, `sgdiHydrated` |
| `Edit`, `AutoSave`, `Payload`, `Put`, `Saved`, `SaveFails`, `again` | `saveDB`, the timer of 30 s, `sgdiLegacySnapshot`, the loop of `sgdiBackendSave` and its `sgdiSaveAgain`, `sgdiServerOnlyFailure` |
| `pull`, `flight`, `Pull`, `Woken`, `MayStart`, `Over` | calls of `sgdiPullState` and the promise they share |
| `RightsChanged`, `Hydrate`, `LoadAccounts`, `PullFails` | the steps of a load: `sgdiRefreshSessionFromServer`, `hydrateDB` with `sgdiCaptureBaseline`, `sgdiLoadAuthState` |
| `EmptyDB`, `Filled` | `emptyDB` and what `hydrateDB` completes: the settings of a copy are never empty |
| `Login`, `Logout`, `SessionExpires` | the session |
| `others`, `LoadedElsewhere`, `SavedElsewhere` | the other stations: their copies, loaded from the base or from its cache; a save of theirs puts the collection of their copy, with a new entry, in place of the server's |

A collection is the set of entries it holds. Several calls may wait for one load; when it
ends they are woken together and each looks again before it starts. The payload is built at
the first step of a save and at each further turn, from the copy of that moment; the
baseline is taken from the copy when the answer comes, not from the payload that was sent.
A save queued meanwhile makes another turn first, which is why that is right.

Properties: `OnePullAtATime`; `NoClobber`, a save erases nothing of others in collections
this station has not changed, unless its copy was emptied by a change of rights and not loaded
again (`blank`: the defaults of the settings then leave, section 14); `OwnWorkKept`, what was
said to be saved stays, unless an older snapshot or a change of rights took it out of the copy,
or another station replaced the collection by a copy without it (`exposed`, which each of these
steps extends by the entries it takes out). What the last one watches over is the queue of saves: an
entry added while a save is on its way.
`SavedOnlyWhatWasLoaded` is what the code says of itself and does not hold (section 14).

## 9. EmployeeReads

`EmployeeReads.tla` models the employees a station keeps beside the shared base, which have
an API of their own, and the sharing of readings among its screens (`sgdiPullEmployees`,
`sgdiPullCurrentEmployees`, `sgdiInvalidateDrhReads`).

| Model | Code |
|---|---|
| `server`, `List`, `OnPage`, `ServerChange` | the employees of the database; `list_employees`, `list_employees_page` (`drh/service.py`) |
| `agents`, `shapeLight`, `ensured` | `db.agents`, `__sgdiAgentsShapeLight`, the scopes of `__sgdiEnsuredAt` |
| `call`, `Ask`, `Shareable`, `AskAgain`, `Goes` | a call, the reading it may share (same shape, same scope or the company, still current), its further attempts |
| `read`, `ServerLists`, `ListFails`, `ServerPages`, `NextPage`, `PagesFail` | a reading: the whole list, or the fallback page by page |
| `Apply`, `Merged`, `Complete`, `StillLight`, `Dropped` | what an answer does to the rows, the marks and the flag of missing documents; an obsolete one is dropped |
| `Invalidate`, `DataChange`, `TokenChanges` | what makes readings obsolete: the revision, the token |
| `ScreenAsks`, `ScreenShows`, `RightsChanged` | what alters the rows without a reading |

Revisions and tokens are compared for equality only, so a reading carries whether they are
still its own. An obsolete reading has only one step left, to be dropped, whatever its
answer brings. `behind`, `known` and `outside` say what the station was told last, and
which rows something else than a reading has altered since.

Properties: `FreshMeansServer`, `NeverOlderThanKnown`, `GetsTheShapeAsked`;
`FullUnlessFlagged` is proved and not run again.

## 10. SupplierPayment

`SupplierPayment.tla` is the composition of `payer_facture` with Finance Core: it EXTENDS
`FinanceCore`, and each of its steps leaves the tables of that module alone or takes one of
its actions, which `ImplementsFinanceCore` proves.

| Model | Code |
|---|---|
| `facture`, `CreateFacture`, `UpdateFacture` | a row of `factures_fournisseur`; `create_facture` opens the obligation, `update_facture` corrects the total and nothing else |
| `pay`, `PayRead` | `payer_facture` up to its checks, with the copy it loaded |
| `PayLocks`, `PaySettles` | `settle_obligation` as called there, with the amount reached as key, and `skip_accounting_bridge=True` |
| `PayAlone` | no obligation, a key already used, or a refusal that `except` swallows |
| `PayRefused` | the UPDATE or the insertion refused: `settle_obligation` rolls the session back, the invoice's new amount with it |
| `PayPosts`, `posted` | `ecriture_paiement_fournisseur` and the end of the request |
| `PayFails` | the commit fails on a journal number already taken, or the process dies |
| `Elsewhere` | reconciliation, reversals, cancellations on the same obligation |

Amounts are in cents, so the `Float` columns and their tolerance are left out.

Properties: `PaidIsBacked` (the invoice never shows more paid than its debt has settled,
while nothing is undone or cancelled), `MirrorsUnlessOverwritten` (both agree to the cent
when nobody else pays and no payment wrote over another), `AccountedFor` (what the invoice
shows, and what the bridge skips, was posted).

## 11. The runs

| Run | Instance | Distinct states | Shows |
|---|---|---|---|
| `finance_requests` | 1 obligation, 4 settlement keys, 1 intent, 2 requests, amounts 1 and 2 | 137 thousand | the properties of `FinanceCore`, and `LedgerSpec` |
| `finance_overpay` | the same without intents | to the violation | section 14 |
| `outbox_safety` | 3 events, 2 dispatchers, batches of 2, 2 attempts, 1 foreign entry, 1 deletion, 1 failure, 1 crash | 1.4 million | the safety properties of `FinanceOutbox` |
| `outbox_live` | 2 events, 2 dispatchers, the same without the crash | 122 thousand | `EveryBatchEnds`, `EveryEventIsSettled` |
| `reconcile_requests` | 1 transaction of 2, obligations of 1 and 2, 2 requests, 1 payment made elsewhere standing at a time | 339 thousand | the properties of `Reconciliation`, liveness included |
| `mobile_device` | 2 logins, 2 renewals, 1 request beside the sign-out and the profile, 2 renewals per session, 1 crash | 6.8 million | the properties of `MobileSession` |
| `offline_accounts` | 2 accounts, 2 incidents, 2 sign-ins, 1 restart or refused write, 1 call served after it was given up | 3.8 million | the safety properties of `OfflineQueue` |
| `offline_live` | 1 account, 2 incidents, 1 restart or refused write, 1 retry, no late call | 398 thousand | `EventuallySettled`, and `NotSentAgain` with retries |
| `snapshot_station` | 2 collections, 2 entries, 2 loads, 1 other station, 2 failures, sign-outs or changes of rights | 7.5 million | the properties of `SnapshotSync` |
| `snapshot_blank` | the same | to the violation | section 14 |
| `employee_reads` | 2 employees, 2 societies, 2 calls with 1 and 2 attempts, 3 sorts of requests, 1 change on the server, 1 other event | 1.9 million | the properties of `EmployeeReads` |
| `supplier_invoice` | 1 invoice of total 0, 2 or 3, 2 requests, 2 keys for what is done elsewhere, amounts 1 to 3 | 1.6 million | the properties of `SupplierPayment` |

Why these bounds are enough to be interesting: a lost update needs two requests and a third to
notice it, an overpayment two payments and a reversal on one obligation, a double posting two
dispatchers that selected the same event, a deadlock two of them with two rows, a half-settled
case two matches, a number collision a deletion with an entry above it, a token presented twice
two renewals, an incident sent out of order or under another name two incidents and two
accounts, a second row a late call beside a new one, a clobbered collection two collections and
an entry on each side, an answer of the wrong shape two calls, a page missed two employees of
which one moves, a payment lost two payments and a total corrected upwards. Each happens: every
action is taken, and for every property a slip of the code is known that breaks it within the
same bounds. What has no instance in the runs (several obligations at a time, more requests or
dispatchers) is covered by the proofs of section 13, which hold for any number.

`Reconciliation` and `FinanceCore` let requests come for ever, so no bound is put on them other
than the sets of keys. The bounds `MaxManual`, `MaxDeletes`, `MaxFaults`, `MaxCrashes`,
`MaxGen`, `MaxNumber`, `MaxSignIns`, `MaxRetries`, `MaxEvents`, `MaxChanges`, `MaxOutside`,
`MaxPosted` and the set `Threads` (calls served late at a time) are in the guards of the actions
they limit. `MaxNumber` is never reached in the runs. `MCOfflineQueue` stops exploring where
every incident is exposed: no property but `OneRowUnlessCrossed`, which is proved, speaks of
those, and an exposed incident stays so. `MCReconciliation` does not go on from a balance
written from an outdated copy to a second reversal under way. `offline_live` also passes with a
late call (1.9 million states); it is run without to keep it short. Deadlock checking is off
where all keys or bounds may be spent and the system rightly stops; it is on for
`reconcile_requests`.

Symmetry (interchangeable requests, keys, dispatchers, renewals, sessions, accounts, incidents,
loads, entries) and views are used in safety runs only. The views of `MCSnapshotSync`,
`MCOfflineQueue` and `MCEmployeeReads` join states that differ only in what no step reads again:
a reading that has become obsolete, a snapshot already applied, what is known of an exposed
incident.

## 12. Fairness

- `SF_vars(Step(d))` for a dispatcher, `SF_vars(Step(k))` for a request: one that has
  started runs on. A step that waits for a row is enabled only while the row is free;
  PostgreSQL grants row locks in the order in which they were asked for, so a waiter is
  not overtaken for ever: hence strong fairness.
- `WF_vars(DeadlockVictim(..))`: PostgreSQL runs its deadlock detection after
  `deadlock_timeout`; a cycle of waits does not last.
- `WF_vars(Select(d))`, for `EveryEventIsSettled` only: somebody calls the dispatch
  endpoint again and again. `finance_core/routes.py:142-146` says that a scheduled task
  does so in production; **nothing in this repository schedules it**, so the property is a
  statement about that deployment, and without the task events simply stay pending.
- `OfflineQueue`: weak fairness of what the phone does by itself, the timer that starts the
  loop (`StartSync`), its next line (`Send`, `Continue`), the end of a load and of a write
  to the storage, the end of a call by its delay (`Unanswered`). Strong fairness of
  `Lookup` and `Accepted`: a call that is made again and again is served, and accepted, in the
  end, which is what waiting for the network means; without it nothing is ever sent. Refusals
  are not assumed, and late calls need not end.
- Nothing is assumed of users, crashes, other modules or the network otherwise.

`FinanceCore`, `MobileSession`, `SnapshotSync`, `EmployeeReads` and `SupplierPayment` are
checked for safety only.

## 13. What is proved

The proofs are in the modules named `..Proofs`, for any number of obligations, keys,
events, requests, dispatchers, sessions, tokens, accounts, incidents, collections, entries,
employees, societies and calls and any amounts, under the named assumptions of each module
on its constants (amounts are positive integers, the null value is not a name, sorts of
events are disjoint, sets whose members the program counts are finite). Every safety property
that a run checks is proved. Each proof follows the same argument: an inductive invariant,
which TLC checked before it was proved, a lemma per action that the action preserves it, and
the theorem `Spec => []P` from it.

**FinanceCore.** `IInv` is `TypeOK`, `SettledWithinTotal` and `LoadedRows`: what a request
has loaded stays meaningful until it writes (rows are not deleted, a settlement and a
total do not change, and an outdated amount is still within the total). Without the last
part a reversal could write anything. From it: `TypeCorrect`, `SettledWithinTotalHolds`,
`ReversedAtMostOnceHolds`, `IntentSettledByItsObligationHolds`, and `ImplementsLedger`: every
step of `FinanceCore` is a step of `SettlementLedger` or leaves the settlements alone.
`NoOverpaymentUnlessStaleHolds` and `BalanceIsExactUnlessStaleHolds` need a second invariant,
`Balanced`: what is paid and not reversed on an obligation is the sum of its settlements
(`Explained`), the row shows that sum and the status that goes with it (`ExactRows`), and a
copy that has become wrong is one whose use will be marked (`ExactCopies`). A sum over a set
of keys is a function `g` on sets with `g[{}] = 0` and `g[S] = g[S \ {k}] + a[k]` (`IsSum`):
that one exists is a part of the invariant, each step builds the next one from it, and no
induction over the set is needed.

**FinanceOutbox.** `IInv` says where each dispatcher is (`Progress`), that its copies are
of rows that are still eligible or have been dispatched since (`Copies`), what its
uncommitted updates and insertions look like (`Updated`, `Inserted`), that a row is
updated by one transaction at a time (`Exclusive`), and that the accounting events and the
journal agree (`Accounts`). The row locks are what makes it inductive: what a dispatcher
found out about an entry after locking it still holds when its batch commits. From it:
`TypeOK`, `PostedOnce`, `NeverCountedTwice`, `OutboxAgreesWithBridge`, `NoEntryLost`,
`AttemptsTellTheStory` and the action property `DispatchedIsFinal`.

**Reconciliation.** `IInv` says of a confirmation in progress that it has paid all the
matches it went past unless somebody has settled the whole case (`Confirming`), and that
the rows it has paid are its own and still have room (`Holding`); and of a closing that
nothing it checked can become unmatched (`Closing`). From it: `CaseSettledWhole`,
`DecisionMatchesMoney`, `NeverOverpaid`, `MatchedMeansSettled`, `ClosedMeansMatched`.

`TypeCorrect` and `NeverOverpaid` hold with reversals that write absolute values from outdated
copies: what is written is at most the copy, the copy was at most the total, and it is floored
at 0.

`Balances` explains each balance that no reversal has written from an outdated copy, beside it:
what was paid elsewhere plus the settlements of cases that stand (`Explained`, a sum in the sense
of `IsSum`); what is undone was settled (`Undoing`); and the part that makes it inductive
(`PaidOnce`): a request that still holds rows of
a case which another request has settled is about to lose them, so no commit counts a
settlement twice. The property itself adds up with the fold of the library; that any way of
adding up gives the same number on a finite set (`SumsAgree`) follows from a smallest set on
which it would not, strict inclusion of finite sets being well founded. From it:
`BalancesAreExplainedHolds`.

**MobileSession.** Two facts suffice for the server (`TInv`): a token presented is one it issued
and is older than the session once it has been granted (`Presented`), and the tokens of the
device are of sessions that were opened (`Opened`). From it: `TypeCorrect`, `ConsumedOnceHolds`.
`NeverTakenForACopyHolds` needs facts about both ends, true while none of the situations of
section 6 has happened (`Fresh`, `AllGood`): the tokens in memory, those being opened or
restored and the last ones stored are those of the session's current generation; the only
renewal the server may still execute is the one in flight, for the current generation, and the
session in memory has that generation too, or the one before while its answer is due. It is this
invariant that showed the case of `BeingRenewed`, and `OlderToCome` is what it needs where a
renewal replaces tokens that are held elsewhere. `SignedOutStaysOutHolds` follows the copies of
a session left (`OutInv`): once the sign-out is over, neither the memory, nor the last write of
the storage, nor a login in progress has its token.

**OfflineQueue.** Every queue, wherever it is kept, holds incidents in the order in which they
were entered (`Shape`): `TypeCorrect`. An incident that was never sent while an earlier call for
it was still served has at most one row and at most one call in progress, which is right when it
has found no row (`OneRow`): `OneRowUnlessCrossedHolds`. Its incidents are those of the account
it is kept for, except exposed ones (`Owners`): `SentByItsOwnerHolds`. And either every incident
on the phone is exposed, or nothing disturbs the queue (`Risk`): then the queue in memory, the
copy of the loop and what the storage will hold once its writes are over each have all that
still has to be sent (`Keeping`), in a state that tells what the server and the user decided
(`Telling`), and the loop has it ahead (`Queueing`). From it: `NothingLostHolds`,
`NotSentAgainHolds`, `SentInOrderHolds`.

**SnapshotSync.** `Inv` adds two facts to the types: outside of what this station touched, its
copy is what was last loaded or saved, or was emptied (`Untouched`); so the payload of a copy
that was not emptied is empty outside of the scope it was built for (`Carried`), and the server
takes no empty collection. From it: `TypeCorrect`, `OnePullAtATimeHolds`, `NoClobberHolds`.
`OwnWorkKeptHolds` follows each entry of this station in the collection it was put in (`OwnInv`,
for some `home`): the copy has it while it is not exposed, a payload has it once its
acknowledgement will count, no snapshot that can still be applied knows more of it than the
server does, and no copy, here or on another station, has it anywhere else than at home.

**EmployeeReads.** While the server has not changed since the last invalidation, a reading
that is still current holds what the server holds: the whole list, or the employees of the
pages received so far, counted by `Rank` (`ReadsServer`). `FreshMeansServer` is inductive
beside it. Of older readings, what is current is at least as recent as what was known when
it started (`NotOlder`), and a row without documents comes only from a reading that asked
for none (`ReadShapes`). From it: `TypeCorrect`, `FreshMeansServerHolds`,
`FullUnlessFlaggedHolds`, `NeverOlderThanKnownHolds`, `GetsTheShapeAskedHolds`. Facts about
cardinalities come from the library of finite sets.

**SupplierPayment.** A settlement of a payment has the amount the invoice came to as its
key; so, while nothing is undone, the debt has settled at least the largest of these keys
(`KeysOfPayments`), and at least what the invoice shows and what every payment has loaded
(`Backed`). From it: `InvoiceTypeCorrect`, `PaidIsBackedHolds`. A payment that writes without
having settled came to an amount some settlement already has for its key, so it was computed from an
older invoice and writes over a newer one: but for that the two amounts are equal
(`MirrorsHolds`). What is posted never goes down, and is at least what the invoice and every
payment in progress show, and the sum of the settlements the bridge skips (`Booked`):
`AccountedForHolds`. Finally `ImplementsFinanceCore`, with the corollary
`InvoiceSettledWithinTotal`, through which what is proved of `FinanceCore` holds of the
composition.

Several theorems state properties that no run repeats, because the proof says more at the
cost of nothing: `SettledWithinTotalHolds`, `ReversedAtMostOnceHolds`,
`IntentSettledByItsObligationHolds`, `AttemptsTellTheStoryHolds`, `DispatchedIsFinalHolds`,
`NeverOverpaidHolds`, `MatchedMeansSettledHolds`, `FullUnlessFlaggedHolds`,
`InvoiceTypeCorrect`.

**Only model-checked**: liveness (`EveryBatchEnds`, `EveryEventIsSettled`,
`EveryRequestEnds`, `EventuallySettled`). It rests on fairness, that is on which actions are
enabled, which the prover does not cover.

## 14. Where the code departs from what it says

Two runs end with a counterexample.

- **An obligation can be overpaid** (`finance_overpay`). `reverse_settlement`
  (`finance_core/service.py:385`) computes the new amount from a row it loaded without a
  lock and writes it as an absolute value. A settlement that commits in between is erased
  from the balance, and the obligation accepts the amount a second time; `service.py:234`
  says « JAMAIS de dépassement silencieux ».
- **A station can save a copy it never loaded** (`snapshot_blank`). When the rights of the
  account have changed, `sgdiRefreshSessionFromServer` (`static/sgdi-app.js:2151`) empties
  the copy and leaves `sgdiHydrated` and the old baseline. An entry added before the load
  that follows has succeeded leaves alone in its collection, and replaces the server's;
  lines 923-924 say « JAMAIS sauvegarder avant le premier chargement serveur ».

The models contain the following as well, met while writing them; no run is kept for them.

- A second incident for one declaration: `upsert_incident` (`irongs/sql_bridge.py:1386-1393`) looks
  for the row, then inserts it, and `external_id` is indexed and not unique
  (`ops/models.py:163`). A call the phone has given up, still served, and the next one may insert
  both, although `mobile/atlas/docs/ARCHITECTURE.md:207` says « Pas de doublon » and
  `mobile/atlas/src/offline/OfflineProvider.tsx:66` that one is impossible. From then on
  `scalar_one_or_none` raises for this identifier: the phone reads a failure of the server, keeps
  the incident and stops there at each sending, so those entered after it do not leave either.
- The tokens of a login are stored once its profile has come (`AuthProvider.tsx:133`). If the
  session was renewed meanwhile, for the profile itself when its first attempt is refused, the newer
  tokens were stored first and the spent ones are written over them; after a restart they are
  presented, and the server closes the session as copied. So it is when the application is killed
  after a renewal and before its storage is written, and when `restoreState` puts in memory tokens
  it loaded before a renewal (`AuthProvider.tsx:64-70`). `mobile/atlas/docs/ARCHITECTURE.md:87`
  names the lost answer only.
- A station whose copy was emptied by a change of rights also sends the defaults that `emptyDB`
  gives to `settings` and `societesConfig` (`static/sgdi-app.js:2918-2919`): they differ from the
  kept baseline, and replace the server's although the user changed neither. Lines 904-907 say of a
  save « on n'envoie donc que ce qui a réellement changé ».
- A save replaces each collection it carries by the station's copy (`irongs/service.py:640`,
  709-724). What another station added to the same collection since that copy was loaded is
  deleted; the comment of `static/sgdi-app.js:904-907` promises only for
  « d'autres collections ».
- `cancel_obligation` checks the status it loaded and writes later without a condition
  (`finance_core/service.py:193`): a settled obligation can end cancelled, although line 192
  means to refuse it. `reverse_settlement` of a settlement of a cancelled obligation gives it a
  status among open, partially settled and settled (line 388). A reversal of a case's settlement
  writes the balance from a copy as well, and may erase what another case has paid
  (`BalancesAreExplained` excepts it).
- `payer_facture`: when `settle_obligation` refuses in the database it rolls back the
  session, the invoice's new amount with it; the exception is swallowed, the journal entry
  drafted and the request answered 200. The payment is then in the books and neither on
  the invoice nor on its debt, although `achats/service.py:445-446` counts on an invoice
  left unchanged. No concurrency is needed: correct the total upwards, which the debt does
  not follow, and pay.
- A journal number already taken makes the commit of `create_facture` or of a payment fail
  (500), against the comment at `achats/service.py:407`.
- A settlement has no event when its key is also an obligation's: both events are called
  `evt:<key>:created`, the callers choose the keys (`finance_core/routes.py:83` and `:107`), and
  `emit_event` answers with the event it finds (`finance_core/service.py:54`). Nothing is put in
  the outbox for it, and the bridge never posts it, against `finance_core/models.py:146-148`,
  « chaque mutation … écrit UN événement ici ». The run
  keeps the keys of the two apart.
- The bridge marks an accounting event `failed` and raises again, so the savepoint of the
  dispatcher takes the mark back; the comment at `accounting_bridge.py:66` counts on it.
- `confirm_case` and `reject_case` both write the status they decided on from a copy
  (`reconciliation/service.py:241`): a settled case can end rejected, although
  `tests/test_reconciliation.py:122` says « un cas rejeté ne doit jamais régler
  l'obligation ». The flag of a closed statement is read before the case is written
  (line 110), although line 113 says « un rapprochement ne doit JAMAIS être proposé sur une
  période gelée ». A reversal leaves the case of its settlement confirmed
  (`finance_core/service.py:356`), and two cases of one bank transaction may both be
  confirmed (`reconciliation/service.py:213`).
- A session restored again while it is being renewed (`Retry`, after a profile that got no
  answer) replaces the object the renewal started from: `mobile/atlas/src/auth/session.ts:57`
  takes this for a sign-out and drops the new token. The old one is spent; the next renewal
  presents it, and the server takes that for a copy and closes the session.
- A load of the base that began under another session is applied all the same
  (`static/sgdi-app.js:1041-1052`), although every place that ends a session counts the
  answers under way as obsolete (line 4115). A call that asked for the employees with their
  documents and whose reading fails is given the rows the station has, without documents
  if need be (line 1714).

## 15. What is not modelled

Most of the lines of the repository are screens, forms, tables, documents and exports, or
records written once per request, in one transaction. They have no protocol whose
orders could be explored, and a model of them would repeat them line by line. The modelled
share of the code is small for that reason; it is the share in which the order of events
matters.

Inside the modelled parts:

- *Banking*: bank accounts, the parsing of statement files, two identical lines of one file
  (`banking/service.py:241`), the inbox of exceptions, `propose_n_to_one_for_obligation`,
  which nothing calls, the scoring of dates and labels.
- *Accounting*: accounts and amounts of journal entries, the other generators of entries.
- *Mobile sessions*: expiry by date (30 and 90 days), purge of dead ones, rate limits, the
  biometric lock, a logout that the server serves after the device has given up on it.
- *Offline queue*: the content of an incident and its validation.
- *Shared snapshot*: `Settings` stands for `settings` and `societesConfig`, the two collections
  `emptyDB` gives defaults to; what `sgdiAutoRepairDB` derives for the second from the other
  collections is left out. The collections with an API of their own, the timers and signals that
  decide when to load (`static/sgdi-app.js:1172`), the repairs made on the copy after a load,
  a collection emptied by its user, which the server ignores (`irongs/service.py:638`).
  A signal of change that comes within 2 s of a load is dropped; loads come at any time in
  the model, and no property says that they come.
- *Employees*: the delays that decide whether a screen asks, edits not yet saved, rows that
  come with the whole base.
- *Supplier purchases*: suppliers, orders, receptions and their stock movements, the journal
  entry of the invoice itself.

Components with a protocol of their own and no model yet: the SMS queue and its twin for push
notifications, remote capture, alerts, customer invoices. Sales, payroll and taxes meet the
modelled parts only by opening obligations in Finance Core.

Components without one: payroll, taxes, loans, budget, treasury, profitability, reporting
(arithmetic or aggregation in one transaction); operations, human resources, equipment,
regulatory deadlines, recruitment forms, attendance, portals, patrols, directory, commercial
screens (records written once per request); rotations (a calendar function); biometrics
(numeric similarity); permissions, audit, configuration, migrations; the assistant, which
calls an external model. `PROJECT.json` has one entry for each, with the reason.

## 16. Plan

Done, in this order: `SettlementLedger`, `FinanceCore`, `FinanceOutbox`, `Reconciliation`,
`SnapshotSync`, `EmployeeReads`, `SupplierPayment`, `MobileSession` and `OfflineQueue`, each
with its proofs.

Proofs to come: no safety property of a run is left. An abstract specification of the
queue of a phone, a set of incidents each delivered under the name of its author,
would gather what is proved of `OfflineQueue` in one refinement; so would, for
`MobileSession`, a lineage of tokens of which one is current. The modules declare no
recursive operator, so that they can be proved about.

Models that would follow, one module and one run each: `SmsQueue` (challenges and their
leases: a code is used once, a final delivery state is final), `RemoteCapture` (one order per
terminal, deadlines and late photographs), `Alerts` (deduplication and life cycle under
concurrent detection and handling), `Invoicing` (issue, credit note, payment, cancellation).
