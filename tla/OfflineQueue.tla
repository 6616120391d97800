------------------------------ MODULE OfflineQueue ------------------------------
(***************************************************************************)
(* Incidents entered without network in ATLAS MOBILE                       *)
(* (mobile/atlas/src/offline, app/incidents/new.tsx): the queue kept in    *)
(* memory and in the secure storage, the loop that sends it, the accounts  *)
(* that sign in and out, and the server that records each incident under   *)
(* the identifier made on the phone.                                       *)
(*                                                                         *)
(* JavaScript runs to its next await: an action is what happens between    *)
(* two of them.  The content of an incident, the error shown and the       *)
(* number of attempts are left out.  A write to the storage is whole when  *)
(* it is alone (secureBlob.ts); what two writes side by side may leave is  *)
(* chosen in SaveDone.                                                     *)
(*                                                                         *)
(* The server looks for the row of an incident, then inserts or updates    *)
(* it; nothing in the table makes the identifier unique.  It may still be  *)
(* serving a call that the phone has given up.                             *)
(***************************************************************************)
EXTENDS Integers, Sequences, SequencesExt

CONSTANTS
  Users,       \* accounts used on this phone
  Ids,         \* identifiers made on the phone, one per incident entered
  Nobody,      \* no account
  Limit,       \* QUEUE_LIMIT
  Threads,     \* bound: calls given up by the phone that the server serves at the same time
  MaxSignIns,  \* bound: accounts signed in, one after the other
  MaxFaults,   \* bound: times the application is killed or the storage refuses a write
  MaxRetries   \* bound: refused incidents put back in the queue by the user

ASSUME NobodyAssumption == Nobody \notin Users
ASSUME QueueBounds == Limit \in Nat /\ {MaxSignIns, MaxFaults, MaxRetries} \subseteq Nat

Writers == {"loop", "screen"}

VARIABLES
  user,      \* account signed in
  latest,    \* the ref of the provider: the queue in memory
  shown,     \* account the screens show latest to; nobody until its queue is loaded
  loading,   \* accounts whose stored queue is being read
  loop,      \* syncQueue: where it is, for whom, what it still has to send, its copy
  saving,    \* saveQueue in progress, of the loop and of the screens
  overlap,   \* two saves have run side by side and one is not over
  stored,    \* secure storage
  rows,      \* table incidents: rows with this external_id
  late,      \* calls the phone has given up that the server still serves
  spent,     \* how much of the bounds is spent
  author,    \* history: who entered the incident
  order,     \* history: incidents entered, in order
  refused,   \* history: incidents the server refused, and the user has not sent again
  dropped,   \* history: incidents the user discarded
  sentBy,    \* history: in whose name an incident was recorded
  crossed,   \* history: incidents sent while the server still served an earlier call for them
  exposed    \* history: incidents that an overwritten change, an account that left or two writes
             \* side by side may have lost or revived

device == <<user, latest, shown, loading, loop>>
storage == <<saving, overlap, stored>>
server == <<rows, late>>
history == <<author, order, refused, dropped, sentBy, crossed, exposed>>
vars == <<device, storage, server, spent, history>>

States == {"pending", "syncing", "failed", "conflict"}
Item(i, st) == [id |-> i, state |-> st]
Queues == Seq([id : Ids, state : States])
Idle == [pc |-> "idle", for |-> Nobody, todo |-> <<>>, copy |-> <<>>, sender |-> Nobody,
         seen |-> "unread"]
Absent == [user |-> Nobody, items |-> <<>>]

\* What a call has seen of the row of its incident
Seen == {"unread", "none", "row"}
Calls == [id : Ids, by : Users, seen : Seen]

IdsOf(q) == {e.id : e \in ToSet(q)}

\* filter: the items of q that are in A, in their order; the n-th is the one with n places
\* up to it
Places(q, A) == {k \in DOMAIN q : q[k] \in A}
UpTo(P, k) == {j \in P : j <= k}
Kept(q, A) ==
  LET P == Places(q, A)
  IN [n \in 1 .. Cardinality(P) |-> q[CHOOSE k \in P : Cardinality(UpTo(P, k)) = n]]

EvenFailedMutant(q) == Kept(q, [id : Ids, state : States \ {"conflict"}])
Pending(q) == Kept(q, [id : Ids, state : {"pending"}])
Without(q, i) == Kept(q, [id : Ids \ {i}, state : States])
WithState(q, i, st) == [k \in DOMAIN q |-> IF q[k].id = i THEN Item(i, st) ELSE q[k]]

TypeOK ==
  /\ {user, shown} \subseteq Users \cup {Nobody} /\ loading \subseteq Users
  /\ latest \in Queues
  /\ loop.pc \in {"idle", "marking", "sending", "settling", "stopping"}
  /\ loop.for \in Users \cup {Nobody} /\ loop.sender \in Users \cup {Nobody}
  /\ loop.todo \in Seq(Ids) /\ loop.copy \in Queues /\ loop.seen \in Seen \cup {"several"}
  /\ \A e \in ToSet(loop.copy) :
       e.state = "syncing" <=> loop.pc \in {"marking", "sending"} /\ e.id = Head(loop.todo)
  /\ \A w \in Writers : saving[w].busy \in BOOLEAN /\ saving[w].blob.items \in Queues
  /\ stored.user \in Users \cup {Nobody} /\ stored.items \in Queues
  /\ overlap \in BOOLEAN
  /\ rows \in [Ids -> Nat] /\ late \in [Threads -> Calls \cup {Nobody}]
  /\ IsInjective([k \in DOMAIN latest |-> latest[k].id])

Init ==
  /\ user = Nobody /\ latest = <<>> /\ shown = Nobody /\ loading = {} /\ loop = Idle
  /\ saving = [w \in Writers |-> [busy |-> FALSE, blob |-> Absent]]
  /\ overlap = FALSE /\ stored = Absent
  /\ rows = [i \in Ids |-> 0] /\ late = [t \in Threads |-> Nobody]
  /\ spent = [signIns |-> 0, faults |-> 0, retries |-> 0]
  /\ author = [i \in Ids |-> Nobody] /\ order = <<>>
  /\ refused = {} /\ dropped = {} /\ sentBy = {} /\ crossed = {} /\ exposed = {}
--------------------------------------------------------------------------------
(* Storage.                                                                *)

Busy(w) == saving[w].busy
Other(w) == IF w = "loop" THEN "screen" ELSE "loop"
Blob(u, q) == IF q = <<>> THEN Absent ELSE [user |-> u, items |-> q]

\* Incidents on the phone, wherever they are.
OnPhone == IdsOf(latest) \cup IdsOf(stored.items) \cup IdsOf(loop.copy)
             \cup UNION {IdsOf(saving[w].blob.items) : w \in Writers}

Fault == spent.faults < MaxFaults /\ spent' = [spent EXCEPT !.faults = @ + 1]

\* commit: the queue in memory, then the storage, for the account of the closure
Commit(w, u, q) ==
  /\ latest' = q /\ shown' = u
  /\ saving' = [saving EXCEPT ![w] = [busy |-> TRUE, blob |-> Blob(u, q)]]
  /\ overlap' = (overlap \/ Busy(Other(w)))
  /\ UNCHANGED stored

\* What the storage may hold after w's write: its own value, unless another write
\* ran beside it.
Outcomes(w) ==
  IF overlap
  THEN {saving[w].blob, stored, Absent} \cup {saving[v].blob : v \in {x \in Writers : Busy(x)}}
  ELSE {saving[w].blob}

SaveDone(w) ==
  /\ Busy(w)
  /\ stored' \in Outcomes(w)
  /\ saving' = [saving EXCEPT ![w] = [busy |-> FALSE, blob |-> Absent]]
  /\ overlap' = (overlap /\ Busy(Other(w)))
  /\ UNCHANGED <<device, server, spent, history>>

\* The keychain refuses: the error is swallowed and the queue is only in memory.
SaveFails(w) ==
  /\ Busy(w) /\ Fault
  /\ saving' = [saving EXCEPT ![w] = [busy |-> FALSE, blob |-> Absent]]
  /\ overlap' = (overlap /\ Busy(Other(w)))
  /\ exposed' = exposed \cup OnPhone
  /\ UNCHANGED <<device, stored, server, author, order, refused, dropped, sentBy, crossed>>
--------------------------------------------------------------------------------
(* The account.                                                            *)

SwitchTo(u) == user' = u /\ latest' = <<>> /\ shown' = Nobody

AnyQueueMutant(u) == stored # Absent
\* loadQueue: the queue of this account; another one is erased, never read
OwnQueue(u) == stored.user = u

\* A switch while the loop runs or a save is not done puts every incident at risk.
Disturbed == loop # Idle \/ \E w \in Writers : Busy(w)

SignIn(u) ==
  /\ user = Nobody /\ spent.signIns < MaxSignIns
  /\ SwitchTo(u)
  /\ loading' = loading \cup {u}
  /\ spent' = [spent EXCEPT !.signIns = @ + 1]
  /\ exposed' = exposed \cup (IF Disturbed THEN OnPhone ELSE {})
  /\ UNCHANGED <<loop, storage, server, author, order, refused, dropped, sentBy, crossed>>

SignOut ==
  /\ user # Nobody
  /\ SwitchTo(Nobody)
  /\ exposed' = exposed \cup (IF Disturbed THEN OnPhone ELSE {})
  /\ UNCHANGED <<loading, loop, storage, server, spent, author, order, refused, dropped, sentBy, crossed>>

StillSyncingMutant(q) == q
\* loadQueue: what an interrupted run left "syncing" is pending again
Resumed(q) == [k \in DOMAIN q |-> Item(q[k].id, IF q[k].state = "syncing" THEN "pending" ELSE q[k].state)]

Load(u) ==
  /\ u \in loading
  /\ loading' = loading \ {u}
  /\ stored' = IF OwnQueue(u) THEN stored ELSE Absent
  /\ latest' = IF user # u THEN latest
               ELSE IF OwnQueue(u) THEN Resumed(stored.items) ELSE <<>>
  /\ shown' = IF user = u THEN u ELSE shown
  /\ exposed' = exposed \cup (IF OwnQueue(u) THEN {} ELSE IdsOf(stored.items))
  /\ UNCHANGED <<user, loop, saving, overlap, server, spent, author, order, refused, dropped, sentBy,
                 crossed>>
--------------------------------------------------------------------------------
(* The server: upsert_incident.                                            *)

NeverFoundMutant(i) == "none"
\* The SELECT, which fails when the identifier has several rows
Found(i) == IF rows[i] = 0 THEN "none" ELSE IF rows[i] = 1 THEN "row" ELSE "several"

\* The INSERT or the UPDATE, and the end of the transaction
Record(i, by, seen) ==
  /\ seen \in {"none", "row"}
  /\ rows' = [rows EXCEPT ![i] = IF seen = "none" THEN @ + 1 ELSE @]
  /\ sentBy' = sentBy \cup {<<i, by>>}

\* What becomes of a call that gets no answer: the server does nothing of it, or records
\* the incident, or goes on with it.
GivenUp(i, by, seen) ==
  \/ UNCHANGED <<server, sentBy>>
  \/ Record(i, by, seen) /\ UNCHANGED late
  \/ /\ seen \in Seen
     /\ \E t \in Threads :
          /\ late[t] = Nobody
          /\ late' = [late EXCEPT ![t] = [id |-> i, by |-> by, seen |-> seen]]
     /\ UNCHANGED <<rows, sentBy>>

LateLookup(t) ==
  /\ late[t] # Nobody /\ late[t].seen = "unread"
  /\ late' = IF Found(late[t].id) \in Seen
             THEN [late EXCEPT ![t].seen = Found(late[t].id)] ELSE [late EXCEPT ![t] = Nobody]
  /\ UNCHANGED <<device, storage, rows, spent, history>>

LateWrite(t) ==
  /\ late[t] # Nobody
  /\ Record(late[t].id, late[t].by, late[t].seen)
  /\ late' = [late EXCEPT ![t] = Nobody]
  /\ UNCHANGED <<device, storage, spent, author, order, refused, dropped, crossed, exposed>>

StillServed(i) == \E t \in Threads : late[t] # Nobody /\ late[t].id = i
--------------------------------------------------------------------------------
(* The screens.                                                            *)

Enabled == user # Nobody /\ ~Busy("screen")

\* The direct attempt got no answer.
Submit(i) ==
  /\ Enabled /\ author[i] = Nobody
  /\ Len(latest) < Limit
  /\ Commit("screen", user, Append(latest, Item(i, "pending")))
  /\ \E seen \in {"unread", Found(i)} : GivenUp(i, user, seen)
  /\ author' = [author EXCEPT ![i] = user] /\ order' = Append(order, i)
  /\ exposed' = exposed \cup (IF loop # Idle THEN {i} ELSE {})
                        \cup (IF Busy("loop") \/ user \in loading THEN OnPhone \cup {i} ELSE {})
  /\ UNCHANGED <<user, loading, loop, spent, refused, dropped, crossed>>

\* An incident on its way to the server is kept.
Discardable(e) == e.state # "syncing"

Discard(i) ==
  /\ Enabled /\ shown = user /\ i \in IdsOf(latest)
  /\ LET kept == Kept(latest, {e \in ToSet(latest) : e.id # i \/ ~Discardable(e)})
     IN Commit("screen", user, kept) /\ dropped' = dropped \cup ({i} \ IdsOf(kept))
  /\ exposed' = exposed \cup (IF loop # Idle THEN {i} ELSE {})
                        \cup (IF Busy("loop") \/ user \in loading THEN OnPhone ELSE {})
  /\ UNCHANGED <<user, loading, loop, server, spent, author, order, refused, sentBy, crossed>>

\* retry, for one incident or for all of them
Retry(ids) ==
  /\ Enabled /\ shown = user /\ spent.retries < MaxRetries
  /\ ids \cap {e.id : e \in {x \in ToSet(latest) : x.state \in {"failed", "conflict"}}} # {}
  /\ LET Again(e) == IF e.id \in ids /\ e.state \in {"failed", "conflict"}
                     THEN Item(e.id, "pending") ELSE e
     IN Commit("screen", user, [k \in DOMAIN latest |-> Again(latest[k])])
  /\ refused' = refused \ ids
  /\ spent' = [spent EXCEPT !.retries = @ + 1]
  /\ exposed' = exposed \cup (IF loop # Idle THEN ids ELSE {})
                        \cup (IF Busy("loop") \/ user \in loading THEN OnPhone ELSE {})
  /\ UNCHANGED <<user, loading, loop, server, author, order, dropped, sentBy, crossed>>
--------------------------------------------------------------------------------
(* The loop that sends.                                                    *)

\* replace: the loop's own copy becomes the queue
Replace(copy, l) ==
  /\ loop' = [l EXCEPT !.copy = copy]
  /\ Commit("loop", l.for, copy)

\* The next incident is marked, or the loop ends.
Advance(l) ==
  IF l.todo = <<>>
  THEN loop' = Idle /\ UNCHANGED <<latest, shown, storage>>
  ELSE Replace(WithState(l.copy, Head(l.todo), "syncing"), [l EXCEPT !.pc = "marking"])

\* Timer, return to the foreground, end of a load or a retry.
StartSync ==
  /\ user # Nobody /\ shown = user /\ loop = Idle
  /\ Pending(latest) # <<>>
  /\ Advance([Idle EXCEPT !.for = user, !.copy = latest,
                          !.todo = [k \in DOMAIN Pending(latest) |-> Pending(latest)[k].id]])
  /\ exposed' = exposed \cup (IF Busy("screen") THEN OnPhone ELSE {})
  /\ UNCHANGED <<user, loading, server, spent, author, order, refused, dropped, sentBy, crossed>>

\* The request leaves with the session of the account signed in now.
Send ==
  /\ loop.pc = "marking" /\ ~Busy("loop")
  /\ loop' = [loop EXCEPT !.pc = "sending", !.sender = user]
  /\ crossed' = crossed \cup {i \in {Head(loop.todo)} : StillServed(i)}
  /\ UNCHANGED <<user, latest, shown, loading, storage, server, spent,
                 author, order, refused, dropped, sentBy, exposed>>

\* The server has the call.
Served == loop.pc = "sending" /\ loop.sender # Nobody

\* A request refused because its session is over goes again with the one that replaced it.
SendAgain ==
  /\ Served /\ loop.seen = "unread"
  /\ user \notin {Nobody, loop.sender}
  /\ loop' = [loop EXCEPT !.sender = user]
  /\ UNCHANGED <<user, latest, shown, loading, storage, server, spent, history>>

Current == Head(loop.todo)

Lookup ==
  /\ Served /\ loop.seen = "unread"
  /\ loop' = [loop EXCEPT !.seen = Found(Current)]
  /\ UNCHANGED <<user, latest, shown, loading, storage, server, spent, history>>

\* What becomes of the incident once the call is over
Settle(pc, copy) ==
  /\ Replace(copy, [loop EXCEPT !.pc = pc, !.todo = Tail(@), !.sender = Nobody, !.seen = "unread"])
  /\ exposed' = exposed \cup (IF Busy("screen") THEN OnPhone ELSE {})
  /\ UNCHANGED <<user, loading, spent, author, order, dropped, crossed>>

Accepted ==
  /\ Served
  /\ Record(Current, loop.sender, loop.seen)
  /\ Settle("settling", Without(loop.copy, Current))
  /\ UNCHANGED <<late, refused>>

\* forbidden, validation, not_found: failed; conflict stays a conflict
Refused(st) ==
  /\ Served /\ loop.seen \in Seen
  /\ st \in {"failed", "conflict"}
  /\ Settle("settling", WithState(loop.copy, Current, st))
  /\ refused' = refused \cup {Current}
  /\ UNCHANGED <<server, sentBy>>

LeftSyncingMutant(copy, i) == copy
ForgottenMutant(copy, i) == Without(copy, i)
\* Network, delay, server down, session over: kept, and pending again
AfterFailure(copy, i) == WithState(copy, i, "pending")

\* The call of the loop, if there is one, gets no answer.
Cut == IF Served THEN GivenUp(Current, loop.sender, loop.seen) ELSE UNCHANGED <<server, sentBy>>

\* No answer, or an error of the server: pending again, and the loop stops there.
Unanswered ==
  /\ loop.pc = "sending"
  /\ Cut
  /\ Settle("stopping", AfterFailure(loop.copy, Current))
  /\ UNCHANGED refused

GoesOnMutant(l) == l.todo
\* The first one that gets no answer ends the loop.
Remaining(l) == IF l.pc = "stopping" THEN <<>> ELSE l.todo

Continue ==
  /\ loop.pc \in {"settling", "stopping"} /\ ~Busy("loop")
  /\ Advance([loop EXCEPT !.todo = Remaining(loop)])
  /\ exposed' = exposed \cup (IF Busy("screen") /\ loop'.pc # "idle" THEN OnPhone ELSE {})
  /\ UNCHANGED <<user, loading, server, spent, author, order, refused, dropped, sentBy, crossed>>

\* Incidents that the storage does not hold as the last commit left them
Unsaved ==
  LET As(i, b) == {e \in ToSet(Resumed(b.items)) : e.id = i}
  IN {i \in Ids : \E w \in Writers : Busy(w) /\ As(i, saving[w].blob) # As(i, stored)}

\* The application is killed and opened again with the session it had.
Crash ==
  /\ Fault /\ Cut
  /\ latest' = <<>> /\ shown' = Nobody /\ loop' = Idle
  /\ loading' = {user} \ {Nobody}
  /\ stored' \in {stored} \cup UNION {Outcomes(w) : w \in {x \in Writers : Busy(x)}}
  /\ saving' = [w \in Writers |-> [busy |-> FALSE, blob |-> Absent]] /\ overlap' = FALSE
  /\ exposed' = exposed \cup Unsaved
  /\ UNCHANGED <<user, author, order, refused, dropped, crossed>>

Next ==
  \/ \E u \in Users : SignIn(u) \/ Load(u)
  \/ SignOut \/ Crash
  \/ \E i \in Ids : Submit(i) \/ Discard(i)
  \/ \E ids \in {{i} : i \in Ids} \cup {Ids} : Retry(ids)
  \/ StartSync \/ Send \/ SendAgain \/ Continue
  \/ Lookup \/ Accepted \/ Unanswered \/ \E st \in {"failed", "conflict"} : Refused(st)
  \/ \E t \in Threads : LateLookup(t) \/ LateWrite(t)
  \/ \E w \in Writers : SaveDone(w) \/ SaveFails(w)

\* The timer, the end of a load and of a save, and the next line of the loop come; a call
\* that is made again and again is served, and accepted if nothing refuses it.
Fairness ==
  /\ \A u \in Users : WF_vars(Load(u))
  /\ \A w \in Writers : WF_vars(SaveDone(w))
  /\ WF_vars(StartSync) /\ WF_vars(Send) /\ WF_vars(Continue)
  /\ WF_vars(Unanswered)
  /\ SF_vars(Lookup) /\ SF_vars(Accepted)

Spec == Init /\ [][Next]_vars /\ Fairness
--------------------------------------------------------------------------------
(* Properties.                                                             *)

\* An incident the user was told is kept is on the server, or it is in the storage
\* or being written there, where a restart finds it: sync.ts:19-20, "rien n'est perdu".
Durable(i) == i \in IdsOf(stored.items) \cup UNION {IdsOf(saving[w].blob.items) : w \in Writers}
NothingLost ==
  \A i \in Ids \ (exposed \cup dropped) : author[i] # Nobody => rows[i] > 0 \/ Durable(i)

\* A direct attempt, a first sending cut off and a second one after a restart make one row:
\* the identifier made on the phone goes with all of them (docs/ARCHITECTURE.md:207), unless
\* the incident is sent while the server still serves an earlier call for it.
OneRowUnlessCrossed == \A i \in Ids \ crossed : rows[i] <= 1

\* queue.ts:16-17: an incident is never sent under the account of another, unless the
\* account changed while it was being sent or saved.
SentByItsOwner == \A p \in sentBy : p[2] = author[p[1]] \/ p[1] \in exposed

Starts(i) == loop.pc = "marking" /\ loop'.pc = "sending" /\ Current = i

\* What the server refused and what the user discarded is not sent again behind their
\* back (docs/ARCHITECTURE.md:208), across restarts, retries of others and sign-ins.
NotSentAgain == [][\A i \in refused \cup dropped : Starts(i) => i \in exposed]_vars

\* An incident leaves before those the same user entered after it.
Before(j, i) == \E m, n \in DOMAIN order : m < n /\ order[m] = j /\ order[n] = i
Awaited(j) == rows[j] = 0 /\ j \notin refused \cup dropped \cup exposed
SentInOrder ==
  [][\A i, j \in Ids : Starts(i) /\ Before(j, i) /\ author[i] = author[j] /\ i \notin exposed
        => ~Awaited(j)]_vars

\* An incident does not wait for ever while its author is signed in: network failures,
\* refused neighbours, restarts and the ends of loops never leave it aside, unless an incident
\* that has two rows, which the server can neither accept nor refuse, is in the queue.
Waits(i) == author[i] # Nobody /\ author[i] = user /\ i \in OnPhone
              /\ i \notin refused \cup dropped \cup exposed
Stuck == \E i \in IdsOf(latest) : rows[i] > 1
EventuallySettled == \A i \in Ids : []<>(~Waits(i) \/ Stuck)
================================================================================
