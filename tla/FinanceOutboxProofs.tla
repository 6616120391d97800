-------------------------- MODULE FinanceOutboxProofs --------------------------
(***************************************************************************)
(* What the outbox and its bridge guarantee for any number of events and   *)
(* of concurrent dispatchers, whatever fails.                              *)
(***************************************************************************)
EXTENDS FinanceOutbox, FiniteSetTheorems, TLAPS

USE BoundsAssumption, EventsAssumption

-------------------------------------------------------------------------------
(* The inductive invariant.  The row locks make a dispatcher the only one to   *)
(* deal with the entries it has updated, so what it found out about them (not  *)
(* dispatched, not posted) still holds when its batch commits.                 *)

HasEntry(d) == pc[d] \in {"lock", "handle", "insert"}
InHand(d, e) == pc[d] \in {"handle", "insert"} /\ ev[d] = e

\* Where a dispatcher is, and what it has done so far of its batch.
Progress(d) ==
  /\ pc[d] = "idle" => \A e \in Events : e \notin todo[d] /\ tx[d][e] = NoRow
  /\ HasEntry(d) => ev[d] \in Events /\ ev[d] \notin todo[d]
  /\ pc[d] = "lock" => tx[d][ev[d]] = NoRow
  /\ pc[d] \in {"handle", "insert"} => tx[d][ev[d]] # NoRow /\ posted[d][ev[d]] = 0
  /\ pc[d] = "insert" => ev[d] \in Bridged /\ acc[ev[d]] = "none" /\ num[d] \in Numbers
  /\ \A e \in todo[d] : tx[d][e] = NoRow

\* The copies of the rows it has still to work on.
Copies(d) ==
  \A e \in Events : (e \in todo[d] \/ (HasEntry(d) /\ ev[d] = e)) =>
    /\ loaded[d][e].status \in {"pending", "failed"}
    /\ loaded[d][e].attempts < MaxAttempts
    /\ row[e].status # "absent"
    /\ loaded[d][e].status = "failed" => row[e].status # "pending"

\* The rows it has updated.
Updated(d) ==
  \A e \in Events : tx[d][e] # NoRow =>
    /\ tx[d][e].attempts > 0
    /\ row[e].status # "absent"
    /\ InHand(d, e) => tx[d][e].status = row[e].status
    /\ ~ InHand(d, e) =>
         /\ tx[d][e].status \in {"dispatched", "failed"}
         /\ e \notin Bridged => tx[d][e].status = "dispatched"
         /\ e \in Bridged => (tx[d][e].status = "dispatched"
                                <=> (posted[d][e] # 0 \/ acc[e] = "posted"))

\* The entries it has inserted.
Inserted(d) ==
  \A e \in Events : posted[d][e] # 0 =>
    /\ tx[d][e] # NoRow
    /\ e \in Bridged /\ acc[e] = "none"
    /\ journal[posted[d][e]] = Free
    /\ \A x \in Dispatchers, f \in Events : posted[x][f] = posted[d][e] => x = d /\ f = e

\* A row is updated by one transaction at a time.
Exclusive ==
  \A d, x \in Dispatchers : d # x => \A e \in Events : tx[d][e] = NoRow \/ tx[x][e] = NoRow

\* The accounting events and the journal.
Accounts ==
  /\ \A e \in Bridged : acc[e] # "skipped"
  /\ \A e \in Preempted : acc[e] # "posted" /\ (row[e].status # "absent" => acc[e] = "skipped")
  /\ \A e \in Silent : acc[e] # "posted"
  /\ \A n \in Numbers : journal[n] \in Events => journal[n] \in Bridged /\ acc[journal[n]] = "posted"

IInv ==
  /\ TypeOK
  /\ \A d \in Dispatchers : Progress(d) /\ Copies(d) /\ Updated(d) /\ Inserted(d)
  /\ Exclusive
  /\ Accounts
  /\ AttemptsTellTheStory
  /\ OutboxAgreesWithBridge
  /\ PostedOnce
  /\ NoEntryLost

LEMMA InitIInv == Init => IInv
<1> SUFFICES ASSUME Init PROVE IInv
  OBVIOUS
<1>1. TypeOK
  BY DEF Init, TypeOK, NoRows, NoRow, NoPosts, Rows, Statuses, Bounds
<1>2. \A d \in Dispatchers : Progress(d) /\ Copies(d) /\ Updated(d) /\ Inserted(d)
  BY DEF Init, Progress, Copies, Updated, Inserted, HasEntry, NoRows, NoPosts
<1>3. Exclusive /\ Accounts
  BY DEF Init, Exclusive, Accounts, NoRows, NoRow, Events
<1>4. AttemptsTellTheStory /\ OutboxAgreesWithBridge /\ PostedOnce /\ NoEntryLost
  BY DEF Init, AttemptsTellTheStory, OutboxAgreesWithBridge, PostedOnce, NoEntryLost,
         NoRows, NoRow, Events
<1> QED BY <1>1, <1>2, <1>3, <1>4 DEF IInv

-------------------------------------------------------------------------------
(* The actions, one lemma each: the conjuncts an action leaves alone together, *)
(* then those it can disturb.                                                  *)

LEMMA EmitStep ==
  ASSUME IInv, NEW e \in Events, Emit(e)
  PROVE  IInv'
<1> USE DEF Emit, batch
<1>1. TypeOK'
  BY DEF IInv, TypeOK, Rows, Statuses
<1>2. /\ \A f \in Events : f # e => row'[f] = row[f] /\ acc'[f] = acc[f]
      /\ row[e].status = "absent" /\ row'[e].status = "pending" /\ row'[e].attempts = 0
      /\ acc'[e] = IF e \in Preempted THEN "skipped" ELSE acc[e]
  BY DEF IInv, TypeOK, NoRow
<1>3. ASSUME NEW d \in Dispatchers
      PROVE  (Progress(d) /\ Copies(d) /\ Updated(d) /\ Inserted(d))'
  <2>0. Progress(d) /\ Copies(d) /\ Updated(d) /\ Inserted(d)
    BY DEF IInv
  <2>1. e \notin todo[d] /\ ~ (HasEntry(d) /\ ev[d] = e) /\ tx[d][e] = NoRow /\ posted[d][e] = 0
    BY <1>2, <2>0 DEF Copies, Updated, Inserted
  <2>2. Progress(d)'
    BY <1>2, <2>0, <2>1 DEF Progress, HasEntry
  <2>3. Copies(d)'
    BY <1>2, <2>0, <2>1 DEF Copies, HasEntry
  <2>4. Updated(d)'
    BY <1>2, <2>0, <2>1 DEF Updated, InHand
  <2>5. Inserted(d)'
    BY <1>2, <2>0, <2>1 DEF Inserted
  <2> QED BY <2>2, <2>3, <2>4, <2>5
<1>4. Exclusive'
  BY DEF IInv, Exclusive
<1>5. Accounts'
  <2>1. acc[e] # "posted"
    <3>1. CASE e \in Bridged
      BY <3>1, <1>2 DEF IInv, OutboxAgreesWithBridge
    <3>2. CASE e \notin Bridged
      BY <3>2 DEF IInv, Accounts, Events
    <3> QED BY <3>1, <3>2
  <2> QED BY <1>2, <2>1 DEF IInv, Accounts, Events, TypeOK
<1>6. AttemptsTellTheStory'
  BY <1>2 DEF IInv, AttemptsTellTheStory
<1>7. OutboxAgreesWithBridge'
  BY <1>2 DEF IInv, OutboxAgreesWithBridge, Events
<1>8. PostedOnce'
  BY DEF IInv, PostedOnce
<1>9. NoEntryLost'
  BY <1>2 DEF IInv, NoEntryLost
<1> QED BY <1>1, <1>3, <1>4, <1>5, <1>6, <1>7, <1>8, <1>9 DEF IInv

LEMMA ManualStep ==
  ASSUME IInv, ManualEntry
  PROVE  IInv'
<1> DEFINE n == NextNumber({})
<1> HIDE DEF n
<1>0. /\ n \in Numbers /\ journal[n] = Free
      /\ \A d \in Dispatchers : n \notin Reserved(d)
      /\ journal' = [journal EXCEPT ![n] = Manual]
      /\ used.manual < MaxManual /\ used' = [used EXCEPT !.manual = @ + 1]
      /\ UNCHANGED <<row, acc, gone, pc, batch, tx, posted>>
  BY DEF ManualEntry, n
<1>1. TypeOK'
  <2>0. used \in Bounds
    BY DEF IInv, TypeOK
  <2>1. used' \in Bounds
    BY <1>0, <2>0 DEF Bounds
  <2> QED BY <1>0, <2>1 DEF IInv, TypeOK, batch
<1>2. \A m \in Numbers : journal'[m] = IF m = n THEN Manual ELSE journal[m]
  BY <1>0 DEF IInv, TypeOK
<1>3. ASSUME NEW d \in Dispatchers
      PROVE  (Progress(d) /\ Copies(d) /\ Updated(d) /\ Inserted(d))'
  <2>0. Progress(d) /\ Copies(d) /\ Updated(d) /\ Inserted(d)
    BY DEF IInv
  <2>1. (Progress(d) /\ Copies(d) /\ Updated(d))'
    BY <1>0, <2>0 DEF Progress, Copies, Updated, HasEntry, InHand, batch
  <2>2. \A e \in Events : posted[d][e] # 0 => posted[d][e] \in Numbers /\ posted[d][e] # n
    BY <1>0 DEF Reserved, IInv, TypeOK
  <2>3. Inserted(d)'
    BY <1>0, <1>2, <2>0, <2>2 DEF Inserted
  <2> QED BY <2>1, <2>3
<1>4. Exclusive' /\ AttemptsTellTheStory' /\ OutboxAgreesWithBridge'
  BY <1>0 DEF IInv, Exclusive, AttemptsTellTheStory, OutboxAgreesWithBridge
<1>5. Accounts'
  BY <1>0, <1>2 DEF IInv, Accounts
<1>6. PostedOnce'
  BY <1>2 DEF IInv, PostedOnce
<1>7. NoEntryLost'
  <2> SUFFICES ASSUME NEW e \in Events, acc[e] = "posted", e \notin gone
               PROVE  \E m \in Numbers : journal'[m] = e
    BY <1>0 DEF NoEntryLost
  <2>1. PICK m \in Numbers : journal[m] = e
    BY DEF IInv, NoEntryLost
  <2> QED BY <1>0, <1>2, <2>1
<1> QED BY <1>1, <1>3, <1>4, <1>5, <1>6, <1>7 DEF IInv

LEMMA DeleteStep ==
  ASSUME IInv, NEW n \in Numbers, DeleteDraft(n)
  PROVE  IInv'
<1> USE DEF DeleteDraft, batch
<1>1. TypeOK'
  <2>0. used \in Bounds
    BY DEF IInv, TypeOK
  <2>1. used' \in Bounds
    BY <2>0 DEF Bounds
  <2> QED BY <2>1 DEF IInv, TypeOK
<1>2. \A m \in Numbers : journal'[m] = IF m = n THEN Free ELSE journal[m]
  BY DEF IInv, TypeOK
<1>3. ASSUME NEW d \in Dispatchers
      PROVE  (Progress(d) /\ Copies(d) /\ Updated(d) /\ Inserted(d))'
  <2>0. Progress(d) /\ Copies(d) /\ Updated(d) /\ Inserted(d)
    BY DEF IInv
  <2>1. (Progress(d) /\ Copies(d) /\ Updated(d))'
    BY <2>0 DEF Progress, Copies, Updated, HasEntry, InHand
  <2>2. \A e \in Events : posted[d][e] # 0 => posted[d][e] \in Numbers
    BY DEF IInv, TypeOK
  <2>3. Inserted(d)'
    BY <1>2, <2>0, <2>2 DEF Inserted
  <2> QED BY <2>1, <2>3
<1>4. Exclusive' /\ AttemptsTellTheStory' /\ OutboxAgreesWithBridge'
  BY DEF IInv, Exclusive, AttemptsTellTheStory, OutboxAgreesWithBridge
<1>5. Accounts'
  BY <1>2 DEF IInv, Accounts
<1>6. PostedOnce'
  BY <1>2 DEF IInv, PostedOnce
<1>7. NoEntryLost'
  <2> SUFFICES ASSUME NEW e \in Events, acc[e] = "posted", e \notin gone'
               PROVE  \E m \in Numbers : journal'[m] = e
    BY DEF NoEntryLost
  <2>1. e \notin gone /\ e # journal[n]
    OBVIOUS
  <2>2. PICK m \in Numbers : journal[m] = e
    BY <2>1 DEF IInv, NoEntryLost
  <2> QED BY <1>2, <2>1, <2>2
<1> QED BY <1>1, <1>3, <1>4, <1>5, <1>6, <1>7 DEF IInv
LEMMA SelectStep ==
  ASSUME IInv, NEW d \in Dispatchers, Select(d)
  PROVE  IInv'
<1>0. PICK entries \in SUBSET {e \in Events : Eligible(e)} :
        /\ todo' = [todo EXCEPT ![d] = entries]
        /\ loaded' = [loaded EXCEPT ![d] =
                        [e \in Events |-> IF e \in entries THEN row[e] ELSE NoRow]]
  BY DEF Select
<1>1. /\ pc[d] = "idle" /\ pc' = [pc EXCEPT ![d] = "pick"]
      /\ UNCHANGED <<row, acc, journal, gone, ev, num, tx, posted, used>>
  BY DEF Select, store
<1>2. TypeOK'
  <2>1. NoRow \in Rows
    BY DEF NoRow, Rows, Statuses
  <2>2. todo' \in [Dispatchers -> SUBSET Events] /\ loaded' \in [Dispatchers -> [Events -> Rows]]
    BY <1>0, <2>1 DEF IInv, TypeOK
  <2> QED BY <1>1, <2>2 DEF IInv, TypeOK
<1>3. ASSUME NEW x \in Dispatchers
      PROVE  (Progress(x) /\ Copies(x) /\ Updated(x) /\ Inserted(x))'
  <2>0. Progress(x) /\ Copies(x) /\ Updated(x) /\ Inserted(x)
    BY DEF IInv
  <2>1. x # d => /\ pc'[x] = pc[x] /\ todo'[x] = todo[x] /\ loaded'[x] = loaded[x]
    BY <1>0, <1>1 DEF IInv, TypeOK
  <2>2. x = d => /\ pc'[x] = "pick" /\ todo'[x] = entries
                 /\ \A e \in entries : e \in Events /\ loaded'[x][e] = row[e]
    BY <1>0, <1>1 DEF IInv, TypeOK
  <2>3. Progress(x)'
    BY <1>0, <1>1, <2>0, <2>1, <2>2 DEF Progress, HasEntry
  <2>4. Copies(x)'
    <3>1. CASE x = d
      <4> SUFFICES ASSUME NEW e \in entries
                   PROVE  /\ row[e].status \in {"pending", "failed"}
                          /\ row[e].attempts < MaxAttempts
        BY <1>1, <2>2, <3>1 DEF Copies, HasEntry
      <4>1. Eligible(e) /\ e \in Events
        BY <1>0
      <4> QED BY <4>1 DEF Eligible, IInv, AttemptsTellTheStory
    <3>2. CASE x # d
      BY <1>1, <2>0, <2>1, <3>2 DEF Copies, HasEntry
    <3> QED BY <3>1, <3>2
  <2>5. (Updated(x) /\ Inserted(x))'
    BY <1>1, <2>0, <2>1, <2>2 DEF Updated, Inserted, InHand
  <2> QED BY <2>3, <2>4, <2>5
<1>4. (Exclusive /\ Accounts /\ AttemptsTellTheStory /\ OutboxAgreesWithBridge
         /\ PostedOnce /\ NoEntryLost)'
  BY <1>1 DEF IInv, Exclusive, Accounts, AttemptsTellTheStory, OutboxAgreesWithBridge,
              PostedOnce, NoEntryLost
<1> QED BY <1>2, <1>3, <1>4 DEF IInv

LEMMA TakeStep ==
  ASSUME IInv, NEW d \in Dispatchers, Take(d)
  PROVE  IInv'
<1>0. PICK e \in todo[d] : /\ ev' = [ev EXCEPT ![d] = e]
                           /\ todo' = [todo EXCEPT ![d] = @ \ {e}]
  BY DEF Take
<1>1. /\ pc[d] = "pick" /\ pc' = [pc EXCEPT ![d] = "lock"]
      /\ UNCHANGED <<row, acc, journal, gone, loaded, num, tx, posted, used>>
  BY DEF Take, store
<1>2. TypeOK'
  BY <1>0, <1>1 DEF IInv, TypeOK
<1>3. ASSUME NEW x \in Dispatchers
      PROVE  (Progress(x) /\ Copies(x) /\ Updated(x) /\ Inserted(x))'
  <2>0. Progress(x) /\ Copies(x) /\ Updated(x) /\ Inserted(x)
    BY DEF IInv
  <2>1. x # d => /\ pc'[x] = pc[x] /\ todo'[x] = todo[x] /\ ev'[x] = ev[x]
    BY <1>0, <1>1 DEF IInv, TypeOK
  <2>2. x = d => /\ pc'[x] = "lock" /\ todo'[x] = todo[x] \ {e} /\ ev'[x] = e
                 /\ e \in Events /\ e \in todo[x]
    BY <1>0, <1>1 DEF IInv, TypeOK
  <2>3. Progress(x)'
    BY <1>1, <2>0, <2>1, <2>2 DEF Progress, HasEntry
  <2>4. Copies(x)'
    BY <1>1, <2>0, <2>1, <2>2 DEF Copies, HasEntry
  <2>5. (Updated(x) /\ Inserted(x))'
    BY <1>1, <2>0, <2>1, <2>2 DEF Updated, Inserted, InHand
  <2> QED BY <2>3, <2>4, <2>5
<1>4. (Exclusive /\ Accounts /\ AttemptsTellTheStory /\ OutboxAgreesWithBridge
         /\ PostedOnce /\ NoEntryLost)'
  BY <1>1 DEF IInv, Exclusive, Accounts, AttemptsTellTheStory, OutboxAgreesWithBridge,
              PostedOnce, NoEntryLost
<1> QED BY <1>2, <1>3, <1>4 DEF IInv

LEMMA NumberStep ==
  ASSUME IInv, NEW d \in Dispatchers, HandleNumber(d)
  PROVE  IInv'
<1> DEFINE n == NextNumber(Reserved(d))
<1> HIDE DEF n
<1>1. /\ pc[d] = "handle" /\ pc' = [pc EXCEPT ![d] = "insert"]
      /\ n \in Numbers /\ num' = [num EXCEPT ![d] = n]
      /\ ~ NothingToPost(ev[d])
      /\ UNCHANGED <<row, acc, journal, gone, todo, loaded, ev, tx, posted, used>>
  BY DEF HandleNumber, store, n
<1>2. TypeOK'
  BY <1>1 DEF IInv, TypeOK
<1>3. ASSUME NEW x \in Dispatchers
      PROVE  (Progress(x) /\ Copies(x) /\ Updated(x) /\ Inserted(x))'
  <2>0. Progress(x) /\ Copies(x) /\ Updated(x) /\ Inserted(x)
    BY DEF IInv
  <2>1. x # d => pc'[x] = pc[x] /\ num'[x] = num[x]
    BY <1>1 DEF IInv, TypeOK
  <2>2. x = d => pc[x] = "handle" /\ pc'[x] = "insert" /\ num'[x] \in Numbers
    BY <1>1 DEF IInv, TypeOK
  <2>3. x = d => ev[x] \in Bridged /\ acc[ev[x]] = "none"
    <3> SUFFICES ASSUME x = d PROVE ev[d] \in Bridged /\ acc[ev[d]] = "none"
      OBVIOUS
    <3>1. ev[d] \in Events /\ row[ev[d]].status # "absent"
      BY <1>1, <2>0 DEF Progress, Copies, HasEntry
    <3>2. ev[d] \notin Silent /\ acc[ev[d]] = "none"
      BY <1>1, <3>1 DEF NothingToPost, IInv, TypeOK
    <3>3. ev[d] \notin Preempted
      BY <3>1, <3>2 DEF IInv, Accounts
    <3> QED BY <3>1, <3>2, <3>3 DEF Events
  <2>4. Progress(x)'
    BY <1>1, <2>0, <2>1, <2>2, <2>3 DEF Progress, HasEntry
  <2>5. Copies(x)'
    BY <1>1, <2>0, <2>1, <2>2 DEF Copies, HasEntry
  <2>6. (Updated(x) /\ Inserted(x))'
    BY <1>1, <2>0, <2>1, <2>2 DEF Updated, Inserted, InHand
  <2> QED BY <2>4, <2>5, <2>6
<1>4. (Exclusive /\ Accounts /\ AttemptsTellTheStory /\ OutboxAgreesWithBridge
         /\ PostedOnce /\ NoEntryLost)'
  BY <1>1 DEF IInv, Exclusive, Accounts, AttemptsTellTheStory, OutboxAgreesWithBridge,
              PostedOnce, NoEntryLost
<1> QED BY <1>2, <1>3, <1>4 DEF IInv

LEMMA LockStep ==
  ASSUME IInv, NEW d \in Dispatchers, Lock(d)
  PROVE  IInv'
<1> DEFINE e == ev[d]
           new == [status |-> row[e].status, attempts |-> NextAttempts(loaded[d][e])]
<1>1. /\ pc[d] = "lock" /\ pc' = [pc EXCEPT ![d] = "handle"]
      /\ \A x \in Dispatchers \ {d} : tx[x][e] = NoRow
      /\ tx' = [tx EXCEPT ![d][e] = new]
      /\ UNCHANGED <<row, acc, journal, gone, todo, loaded, ev, num, posted, used>>
  BY DEF Lock, store, batch, RowLockedBy
<1>2. Progress(d) /\ Copies(d) /\ Updated(d) /\ Inserted(d)
  BY DEF IInv
<1>3. e \in Events /\ tx[d][e] = NoRow /\ e \notin todo[d]
  BY <1>1, <1>2 DEF Progress, HasEntry
<1>4. /\ loaded[d][e].status \in {"pending", "failed"} /\ loaded[d][e].attempts < MaxAttempts
      /\ row[e].status # "absent"
  BY <1>1, <1>2, <1>3 DEF Copies, HasEntry
<1>5. new \in Rows /\ new.attempts > 0 /\ new.status = row[e].status /\ new # NoRow
  <2>1. row[e] \in Rows /\ loaded[d][e] \in Rows
    BY <1>3 DEF IInv, TypeOK
  <2>2. loaded[d][e].attempts + 1 \in 0 .. MaxAttempts /\ loaded[d][e].attempts + 1 > 0
    BY <1>4, <2>1 DEF Rows
  <2> QED BY <1>4, <2>1, <2>2 DEF Rows, NextAttempts, NoRow
<1>6. \A x \in Dispatchers, f \in Events :
        tx'[x][f] = IF x = d /\ f = e THEN new ELSE tx[x][f]
  BY <1>1, <1>3 DEF IInv, TypeOK
<1> HIDE DEF e, new
<1>7. e = ev[d]
  BY DEF e
<1>8. TypeOK'
  <2>1. tx' \in [Dispatchers -> [Events -> Rows]]
    BY <1>1, <1>3, <1>5 DEF IInv, TypeOK
  <2> QED BY <1>1, <2>1 DEF IInv, TypeOK
<1>9. posted[d][e] = 0
  BY <1>2, <1>3 DEF Inserted
<1>10. ASSUME NEW x \in Dispatchers
       PROVE  (Progress(x) /\ Copies(x) /\ Updated(x) /\ Inserted(x))'
  <2>0. Progress(x) /\ Copies(x) /\ Updated(x) /\ Inserted(x)
    BY DEF IInv
  <2>1. x # d => pc'[x] = pc[x] /\ \A f \in Events : tx'[x][f] = tx[x][f]
    BY <1>1, <1>6 DEF IInv, TypeOK
  <2>2. x = d => pc[x] = "lock" /\ pc'[x] = "handle"
    BY <1>1 DEF IInv, TypeOK
  <2>3. x # d => todo[x] \subseteq Events /\ (HasEntry(x) => ev[x] \in Events)
    BY <2>0 DEF IInv, TypeOK, Progress
  <2>4. x = d => \A f \in todo[x] : f \in Events /\ f # e
    BY <1>3 DEF IInv, TypeOK
  <2>5. Progress(x)'
    <3>1. CASE x # d
      BY <1>1, <2>0, <2>1, <2>3, <3>1 DEF Progress, HasEntry
    <3>2. CASE x = d
      BY <1>1, <1>3, <1>5, <1>6, <1>7, <1>9, <2>0, <2>2, <2>4, <3>2 DEF Progress, HasEntry
    <3> QED BY <3>1, <3>2
  <2>6. Copies(x)'
    BY <1>1, <2>0, <2>1, <2>2 DEF Copies, HasEntry
  <2>7. Updated(x)'
    <3>1. CASE x # d
      BY <1>1, <2>0, <2>1, <3>1 DEF Updated, InHand
    <3>2. CASE x = d
      BY <1>1, <1>4, <1>5, <1>6, <1>7, <2>0, <2>2, <3>2 DEF Updated, InHand
    <3> QED BY <3>1, <3>2
  <2>8. Inserted(x)'
    BY <1>1, <1>5, <1>6, <2>0 DEF Inserted
  <2> QED BY <2>5, <2>6, <2>7, <2>8
<1>11. Exclusive'
  BY <1>1, <1>3, <1>6 DEF IInv, Exclusive
<1>12. (Accounts /\ AttemptsTellTheStory /\ OutboxAgreesWithBridge /\ PostedOnce /\ NoEntryLost)'
  BY <1>1 DEF IInv, Accounts, AttemptsTellTheStory, OutboxAgreesWithBridge, PostedOnce,
              NoEntryLost
<1> QED BY <1>8, <1>10, <1>11, <1>12 DEF IInv
\* What a dispatcher knows of the entry it has in hand.
LEMMA HandFacts ==
  ASSUME IInv, NEW d \in Dispatchers, pc[d] \in {"handle", "insert"}
  PROVE  /\ ev[d] \in Events /\ ev[d] \notin todo[d]
         /\ tx[d][ev[d]] # NoRow /\ tx[d][ev[d]] \in Rows /\ tx[d][ev[d]].attempts > 0
         /\ tx[d][ev[d]].status = row[ev[d]].status
         /\ row[ev[d]].status \in {"pending", "dispatched", "failed"}
         /\ posted[d][ev[d]] = 0
         /\ loaded[d][ev[d]].status \in {"pending", "failed"}
         /\ loaded[d][ev[d]].status = "failed" => row[ev[d]].status # "pending"
         /\ ev[d] \in Preempted => acc[ev[d]] = "skipped"
         /\ ev[d] \in Bridged => (row[ev[d]].status = "dispatched" <=> acc[ev[d]] = "posted")
         /\ pc[d] = "insert" => /\ ev[d] \in Bridged /\ acc[ev[d]] = "none"
                                /\ num[d] \in Numbers
<1>1. Progress(d) /\ Copies(d) /\ Updated(d)
  BY DEF IInv
<1>2. /\ ev[d] \in Events /\ ev[d] \notin todo[d]
      /\ tx[d][ev[d]] # NoRow /\ posted[d][ev[d]] = 0
      /\ pc[d] = "insert" => ev[d] \in Bridged /\ acc[ev[d]] = "none" /\ num[d] \in Numbers
  BY <1>1 DEF Progress, HasEntry
<1>3. /\ loaded[d][ev[d]].status \in {"pending", "failed"}
      /\ row[ev[d]].status # "absent"
      /\ loaded[d][ev[d]].status = "failed" => row[ev[d]].status # "pending"
  BY <1>1, <1>2 DEF Copies, HasEntry
<1>4. tx[d][ev[d]].attempts > 0 /\ tx[d][ev[d]].status = row[ev[d]].status
  BY <1>1, <1>2 DEF Updated, InHand
<1>5. tx[d][ev[d]] \in Rows /\ row[ev[d]].status \in Statuses
  BY <1>2 DEF IInv, TypeOK, Rows
<1>6. ev[d] \in Preempted => acc[ev[d]] = "skipped"
  BY <1>2, <1>3 DEF IInv, Accounts
<1>7. ev[d] \in Bridged => (row[ev[d]].status = "dispatched" <=> acc[ev[d]] = "posted")
  BY DEF IInv, OutboxAgreesWithBridge
<1> QED BY <1>2, <1>3, <1>4, <1>5, <1>6, <1>7 DEF Statuses

\* The end of the work on one entry, however it ends.
LEMMA OutcomeStep ==
  ASSUME IInv, NEW d \in Dispatchers, pc[d] \in {"handle", "insert"},
         NEW status \in {"dispatched", "failed"}, Outcome(d, status), used' \in Bounds,
         \/ status = "dispatched" /\ NothingToPost(ev[d]) /\ UNCHANGED posted
         \/ status = "failed" /\ ~ NothingToPost(ev[d]) /\ UNCHANGED posted
         \/ /\ status = "dispatched" /\ pc[d] = "insert" /\ Granted(d) /\ ~ Taken(d)
            /\ posted' = [posted EXCEPT ![d][ev[d]] = num[d]]
  PROVE  IInv'
<1> DEFINE e == ev[d]
           n == num[d]
           mine == status = "dispatched" /\ ~ NothingToPost(e)
           new == [status |-> IF status # loaded[d][e].status THEN status ELSE tx[d][e].status,
                   attempts |-> tx[d][e].attempts]
<1>1. /\ tx' = [tx EXCEPT ![d][e] = new]
      /\ pc' = [pc EXCEPT ![d] = "pick"]
      /\ ev' = [ev EXCEPT ![d] = None]
      /\ num' = [num EXCEPT ![d] = 0]
      /\ UNCHANGED <<row, acc, journal, gone, todo, loaded>>
  <2>1. tx' = [tx EXCEPT ![d][e] =
                 [status |-> IF status # loaded[d][e].status THEN status ELSE @.status,
                  attempts |-> @.attempts]]
    BY DEF Outcome
  <2>2. tx' = [tx EXCEPT ![d][e] = new]
    BY <2>1, HandFacts DEF IInv, TypeOK
  <2> QED BY <2>2 DEF Outcome, store
<1>2. e \in Events /\ acc[e] \in {"none", "posted", "skipped"}
  BY HandFacts DEF IInv, TypeOK
<1>3. status = "failed" => e \in Bridged /\ acc[e] = "none"
  <2>1. status = "failed" => ~ NothingToPost(e)
    OBVIOUS
  <2> QED BY <1>2, <2>1, HandFacts DEF NothingToPost, Events
<1>4. new \in Rows /\ new.attempts > 0 /\ new.status = status /\ new # NoRow
  <2>1. new.status = status
    BY <1>3, HandFacts
  <2> QED BY <2>1, HandFacts DEF Rows, Statuses, NoRow
<1>5. \A x \in Dispatchers, f \in Events :
        tx'[x][f] = IF x = d /\ f = e THEN new ELSE tx[x][f]
  BY <1>1, HandFacts DEF IInv, TypeOK
<1>6. mine => /\ pc[d] = "insert" /\ Granted(d) /\ ~ Taken(d)
               /\ posted' = [posted EXCEPT ![d][e] = n]
  OBVIOUS
<1>7. ~ mine => UNCHANGED posted
  <2>1. pc[d] = "insert" => ~ NothingToPost(e)
    BY HandFacts DEF NothingToPost, Events
  <2> QED BY <2>1
<1>8. mine => n \in Numbers /\ n # 0 /\ e \in Bridged /\ acc[e] = "none" /\ journal[n] = Free
  BY <1>6, HandFacts DEF Taken, Numbers
<1>9. mine => \A x \in Dispatchers, f \in Events : posted[x][f] # n
  BY <1>8, <1>6 DEF Granted, Taken, Reserved
<1>10. \A x \in Dispatchers, f \in Events :
        posted'[x][f] = IF mine /\ x = d /\ f = e THEN n ELSE posted[x][f]
  BY <1>2, <1>6, <1>7 DEF IInv, TypeOK
<1>11. ~ mine /\ status = "dispatched" => e \in Silent \/ acc[e] \in {"posted", "skipped"}
  BY DEF NothingToPost
<1>12. status = "failed" => ~ mine
  OBVIOUS
<1>13. TypeOK'
  <2>1. tx' \in [Dispatchers -> [Events -> Rows]]
    BY <1>1, <1>4, HandFacts DEF IInv, TypeOK
  <2>2. posted' \in [Dispatchers -> [Events -> Numbers \cup {0}]]
    <3>1. CASE mine
      <4>1. posted \in [Dispatchers -> [Events -> Numbers \cup {0}]]
        BY DEF IInv, TypeOK
      <4>2. n \in Numbers \cup {0} /\ e \in Events /\ posted' = [posted EXCEPT ![d][e] = n]
        BY <1>2, <1>8, <1>6, <3>1
      <4> HIDE DEF e, n
      <4> QED BY <4>1, <4>2
    <3>2. CASE ~ mine
      BY <1>7, <3>2 DEF IInv, TypeOK
    <3> QED BY <3>1, <3>2
  <2> QED BY <1>1, <2>1, <2>2 DEF IInv, TypeOK
<1>14. e = ev[d] /\ e \in Events /\ posted[d][e] = 0 /\ tx[d][e] # NoRow /\ e \notin todo[d]
       /\ row[e].status # "absent"
  BY HandFacts
<1>15. \A x \in Dispatchers : x # d => /\ pc'[x] = pc[x] /\ ev'[x] = ev[x] /\ num'[x] = num[x]
                                       /\ posted'[x] = posted[x] /\ tx'[x] = tx[x]
  BY <1>1 DEF IInv, TypeOK
<1>16. pc'[d] = "pick"
  BY <1>1 DEF IInv, TypeOK
<1>17. ASSUME NEW x \in Dispatchers
       PROVE  Progress(x) /\ Copies(x) /\ Updated(x) /\ Inserted(x)
  BY DEF IInv
<1>18. todo[d] \subseteq Events
  BY DEF IInv, TypeOK
<1>19. /\ acc[e] \in {"none", "posted", "skipped"} /\ (e \in Bridged => acc[e] # "skipped")
       /\ status \in {"dispatched", "failed"}
       /\ Bridged \cap Silent = {}
  BY <1>14 DEF IInv, TypeOK, Accounts
<1> HIDE DEF e, n, mine, new
<1>20. (Progress(d) /\ Copies(d))'
  <2>1. Progress(d)'
    BY <1>1, <1>5, <1>14, <1>16, <1>17, <1>18 DEF Progress, HasEntry
  <2>2. Copies(d)'
    BY <1>1, <1>16, <1>17 DEF Copies, HasEntry
  <2> QED BY <2>1, <2>2
<1>21. Updated(d)'
  <2> SUFFICES ASSUME NEW f \in Events, tx'[d][f] # NoRow
               PROVE  /\ tx'[d][f].attempts > 0
                      /\ row[f].status # "absent"
                      /\ tx'[d][f].status \in {"dispatched", "failed"}
                      /\ f \notin Bridged => tx'[d][f].status = "dispatched"
                      /\ f \in Bridged => (tx'[d][f].status = "dispatched"
                                            <=> (posted'[d][f] # 0 \/ acc[f] = "posted"))
    BY <1>1, <1>16 DEF Updated, InHand
  <2>1. CASE f = e
    BY <1>3, <1>4, <1>5, <1>8, <1>10, <1>11, <1>12, <1>14, <1>19, <2>1
  <2>2. CASE f # e
    BY <1>5, <1>10, <1>14, <1>17, <2>2 DEF Updated, InHand
  <2> QED BY <2>1, <2>2
<1>22. ASSUME NEW x \in Dispatchers
       PROVE  Inserted(x)'
  <2> SUFFICES ASSUME NEW f \in Events, posted'[x][f] # 0
               PROVE  /\ tx'[x][f] # NoRow
                      /\ f \in Bridged /\ acc[f] = "none"
                      /\ journal[posted'[x][f]] = Free
                      /\ \A y \in Dispatchers, g \in Events :
                           posted'[y][g] = posted'[x][f] => y = x /\ g = f
    BY <1>1 DEF Inserted
  <2>1. CASE mine /\ x = d /\ f = e
    BY <1>4, <1>5, <1>8, <1>9, <1>10, <1>14, <2>1
  <2>2. CASE ~ (mine /\ x = d /\ f = e)
    <3>1. posted'[x][f] = posted[x][f]
      BY <1>10, <2>2
    <3>2. /\ tx[x][f] # NoRow /\ f \in Bridged /\ acc[f] = "none"
          /\ journal[posted[x][f]] = Free
          /\ \A y \in Dispatchers, g \in Events : posted[y][g] = posted[x][f] => y = x /\ g = f
      BY <1>17, <3>1 DEF Inserted
    <3>3. tx'[x][f] # NoRow
      BY <1>4, <1>5, <3>2
    <3> QED BY <1>9, <1>10, <3>1, <3>2, <3>3
  <2> QED BY <2>1, <2>2
<1>23. ASSUME NEW x \in Dispatchers, x # d
       PROVE  (Progress(x) /\ Copies(x) /\ Updated(x))'
  BY <1>1, <1>15, <1>17, <1>23 DEF Progress, Copies, Updated, HasEntry, InHand
<1>24. Exclusive'
  BY <1>5, <1>14 DEF IInv, Exclusive
<1>25. (Accounts /\ AttemptsTellTheStory /\ OutboxAgreesWithBridge /\ PostedOnce /\ NoEntryLost)'
  BY <1>1 DEF IInv, Accounts, AttemptsTellTheStory, OutboxAgreesWithBridge, PostedOnce,
              NoEntryLost
<1> QED BY <1>13, <1>20, <1>21, <1>22, <1>23, <1>24, <1>25 DEF IInv
\* A transaction that ends gives up its locks and reservations, and nobody else's.
LEMMA ReleaseFacts ==
  ASSUME TypeOK, NEW d \in Dispatchers, Release(d)
  PROVE  /\ pc' \in [Dispatchers -> {"idle", "pick", "lock", "handle", "insert"}]
         /\ todo' \in [Dispatchers -> SUBSET Events]
         /\ loaded' \in [Dispatchers -> [Events -> Rows]]
         /\ ev' \in [Dispatchers -> Events \cup {None}]
         /\ num' \in [Dispatchers -> Numbers \cup {0}]
         /\ tx' \in [Dispatchers -> [Events -> Rows]]
         /\ posted' \in [Dispatchers -> [Events -> Numbers \cup {0}]]
         /\ \A x \in Dispatchers \ {d} :
              /\ pc'[x] = pc[x] /\ todo'[x] = todo[x] /\ loaded'[x] = loaded[x]
              /\ ev'[x] = ev[x] /\ num'[x] = num[x] /\ tx'[x] = tx[x] /\ posted'[x] = posted[x]
         /\ pc'[d] = "idle" /\ todo'[d] = {}
         /\ \A e \in Events : tx'[d][e] = NoRow /\ posted'[d][e] = 0
<1>1. NoRows \in [Events -> Rows] /\ NoPosts \in [Events -> Numbers \cup {0}]
  BY DEF NoRows, NoPosts, NoRow, Rows, Statuses
<1>2. \A e \in Events : NoRows[e] = NoRow /\ NoPosts[e] = 0
  BY DEF NoRows, NoPosts
<1>3. /\ pc' \in [Dispatchers -> {"idle", "pick", "lock", "handle", "insert"}]
      /\ todo' \in [Dispatchers -> SUBSET Events]
      /\ ev' \in [Dispatchers -> Events \cup {None}]
      /\ num' \in [Dispatchers -> Numbers \cup {0}]
  BY DEF Release, TypeOK
<1>4. /\ loaded' \in [Dispatchers -> [Events -> Rows]]
      /\ tx' \in [Dispatchers -> [Events -> Rows]]
      /\ posted' \in [Dispatchers -> [Events -> Numbers \cup {0}]]
  BY <1>1 DEF Release, TypeOK
<1> QED BY <1>2, <1>3, <1>4 DEF Release, TypeOK

\* A batch that is lost leaves no trace.
LEMMA LostStep ==
  ASSUME IInv, NEW d \in Dispatchers, Release(d), UNCHANGED store, used' \in Bounds
  PROVE  IInv'
<1>1. UNCHANGED <<row, acc, journal, gone>>
  BY DEF store
<1>2. TypeOK
  BY DEF IInv
<1>3. TypeOK'
  BY <1>1, <1>2, ReleaseFacts DEF TypeOK
<1>4. ASSUME NEW x \in Dispatchers
      PROVE  (Progress(x) /\ Copies(x) /\ Updated(x) /\ Inserted(x))'
  <2>0. Progress(x) /\ Copies(x) /\ Updated(x) /\ Inserted(x)
    BY DEF IInv
  <2>1. CASE x = d
    BY <1>2, <2>1, ReleaseFacts DEF Progress, Copies, Updated, Inserted, HasEntry
  <2>2. CASE x # d
    <3>0. /\ pc'[x] = pc[x] /\ todo'[x] = todo[x] /\ loaded'[x] = loaded[x]
          /\ ev'[x] = ev[x] /\ num'[x] = num[x] /\ tx'[x] = tx[x] /\ posted'[x] = posted[x]
      BY <1>2, <2>2, ReleaseFacts
    <3>1. (Progress(x) /\ Copies(x) /\ Updated(x))'
      BY <1>1, <2>0, <3>0 DEF Progress, Copies, Updated, HasEntry, InHand
    <3>2. \A y \in Dispatchers, f \in Events : posted'[y][f] = posted[y][f] \/ posted'[y][f] = 0
      BY <1>2, ReleaseFacts
    <3>3. Inserted(x)'
      BY <1>1, <2>0, <3>0, <3>2 DEF Inserted
    <3> QED BY <3>1, <3>3
  <2> QED BY <2>1, <2>2
<1>5. Exclusive'
  <2>1. \A x \in Dispatchers, e \in Events : tx'[x][e] = tx[x][e] \/ tx'[x][e] = NoRow
    BY <1>2, ReleaseFacts
  <2> QED BY <2>1 DEF IInv, Exclusive
<1>6. (Accounts /\ AttemptsTellTheStory /\ OutboxAgreesWithBridge /\ PostedOnce /\ NoEntryLost)'
  BY <1>1 DEF IInv, Accounts, AttemptsTellTheStory, OutboxAgreesWithBridge, PostedOnce,
              NoEntryLost
<1> QED BY <1>3, <1>4, <1>5, <1>6 DEF IInv

\* What a commit makes of the tables.
LEMMA CommitFacts ==
  ASSUME IInv, NEW d \in Dispatchers, Commit(d)
  PROVE  /\ \A e \in Events :
              /\ tx[d][e] = NoRow => row'[e] = row[e]
              /\ tx[d][e] # NoRow => row'[e] = tx[d][e]
              /\ posted[d][e] = 0 => acc'[e] = acc[e]
              /\ posted[d][e] # 0 => /\ acc'[e] = "posted" /\ posted[d][e] \in Numbers
                                     /\ journal'[posted[d][e]] = e
         /\ \A n \in Numbers :
              \/ journal'[n] = journal[n] /\ \A e \in Events : posted[d][e] # n
              \/ \E e \in Events : posted[d][e] = n /\ journal'[n] = e
         /\ \A e \in Events : tx[d][e] # NoRow =>
              /\ tx[d][e].attempts > 0
              /\ row[e].status # "absent"
              /\ tx[d][e].status \in {"dispatched", "failed"}
              /\ e \notin Bridged => tx[d][e].status = "dispatched"
              /\ e \in Bridged => (tx[d][e].status = "dispatched"
                                     <=> (posted[d][e] # 0 \/ acc[e] = "posted"))
<1>1. pc[d] = "pick" /\ Updated(d) /\ Inserted(d)
  BY DEF Commit, IInv
<1>2. \A e \in Events : posted[d][e] # 0 => posted[d][e] \in Numbers
  BY DEF IInv, TypeOK
<1>3. \A n \in Numbers : n # 0
  BY DEF Numbers
<1>4. ASSUME NEW n \in Numbers, NEW e \in Events, posted[d][e] = n
      PROVE  journal'[n] = e
  <2>1. \A f \in Events : posted[d][f] = n => f = e
    BY <1>1, <1>3, <1>4 DEF Inserted
  <2>2. (CHOOSE f \in Events : posted[d][f] = n) = e
    BY <1>4, <2>1
  <2>3. n \in Reserved(d)
    BY <1>3, <1>4 DEF Reserved
  <2> QED BY <2>2, <2>3 DEF Commit
<1>5. ASSUME NEW n \in Numbers, \A e \in Events : posted[d][e] # n
      PROVE  journal'[n] = journal[n]
  BY <1>5 DEF Commit, Reserved
<1>6. \A e \in Events : /\ tx[d][e] = NoRow => row'[e] = row[e]
                        /\ tx[d][e] # NoRow => row'[e] = tx[d][e]
                        /\ posted[d][e] = 0 => acc'[e] = acc[e]
                        /\ posted[d][e] # 0 => acc'[e] = "posted"
  BY DEF Commit, RowLockedBy
<1>7. \A e \in Events : tx[d][e] # NoRow =>
              /\ tx[d][e].attempts > 0
              /\ row[e].status # "absent"
              /\ tx[d][e].status \in {"dispatched", "failed"}
              /\ e \notin Bridged => tx[d][e].status = "dispatched"
              /\ e \in Bridged => (tx[d][e].status = "dispatched"
                                     <=> (posted[d][e] # 0 \/ acc[e] = "posted"))
  BY <1>1 DEF Updated, InHand
<1>8. \A n \in Numbers :
              \/ journal'[n] = journal[n] /\ \A e \in Events : posted[d][e] # n
              \/ \E e \in Events : posted[d][e] = n /\ journal'[n] = e
  BY <1>4, <1>5
<1> QED BY <1>2, <1>4, <1>6, <1>7, <1>8

LEMMA CommitStep ==
  ASSUME IInv, NEW d \in Dispatchers, Commit(d)
  PROVE  IInv'
<1>1. TypeOK /\ Release(d) /\ UNCHANGED <<gone, used>>
  BY DEF IInv, Commit
<1>2. TypeOK'
  <2>1. row' \in [Events -> Rows] /\ acc' \in [Events -> {"none", "posted", "skipped"}]
    BY <1>1 DEF Commit, TypeOK
  <2>2. ASSUME NEW n \in Numbers PROVE journal'[n] \in Events \cup {Free, Manual}
    <3>1. \/ journal'[n] = journal[n]
          \/ \E e \in Events : journal'[n] = e
      BY <1>1, CommitFacts
    <3>2. journal[n] \in Events \cup {Free, Manual}
      BY <1>1 DEF TypeOK
    <3> QED BY <3>1, <3>2
  <2>3. journal' \in [Numbers -> Events \cup {Free, Manual}]
    BY <2>2 DEF Commit
  <2>4. used' \in Bounds /\ gone' \in SUBSET Events
    BY <1>1 DEF TypeOK
  <2> QED BY <1>1, <2>1, <2>3, <2>4, ReleaseFacts DEF TypeOK
<1>3. Progress(d) /\ Copies(d) /\ Updated(d) /\ Inserted(d)
  BY DEF IInv
<1>4. (Progress(d) /\ Copies(d) /\ Updated(d) /\ Inserted(d))'
  BY <1>1, ReleaseFacts DEF Progress, Copies, Updated, Inserted, HasEntry
<1>5. ASSUME NEW x \in Dispatchers, x # d
      PROVE  (Progress(x) /\ Copies(x) /\ Updated(x) /\ Inserted(x))'
  <2>0. Progress(x) /\ Copies(x) /\ Updated(x) /\ Inserted(x)
    BY DEF IInv
  <2>1. /\ pc'[x] = pc[x] /\ todo'[x] = todo[x] /\ loaded'[x] = loaded[x]
        /\ ev'[x] = ev[x] /\ num'[x] = num[x] /\ tx'[x] = tx[x] /\ posted'[x] = posted[x]
    BY <1>1, <1>5, ReleaseFacts
  <2>2. \A e \in Events : tx[x][e] # NoRow =>
          tx[d][e] = NoRow /\ posted[d][e] = 0 /\ row'[e] = row[e] /\ acc'[e] = acc[e]
    BY <1>3, <1>5, CommitFacts DEF IInv, Exclusive, Inserted
  <2>3. Progress(x)'
    BY <2>0, <2>1, <2>2 DEF Progress, HasEntry, Events
  <2>4. Copies(x)'
    BY <2>0, <2>1, CommitFacts DEF Copies, HasEntry
  <2>5. Updated(x)'
    BY <2>0, <2>1, <2>2 DEF Updated, InHand
  <2>6. ASSUME NEW e \in Events, posted[x][e] # 0
        PROVE  journal'[posted[x][e]] = Free
    <3>1. posted[x][e] \in Numbers /\ journal[posted[x][e]] = Free
      BY <1>1, <2>0, <2>6 DEF Inserted, TypeOK
    <3>2. \A f \in Events : posted[d][f] # posted[x][e]
      BY <1>5, <2>0, <2>6 DEF Inserted
    <3> QED BY <3>1, <3>2, CommitFacts
  <2>7. \A y \in Dispatchers, f \in Events : posted'[y][f] = posted[y][f] \/ posted'[y][f] = 0
    BY <1>1, ReleaseFacts
  <2>8. Inserted(x)'
    BY <2>0, <2>1, <2>2, <2>6, <2>7 DEF Inserted
  <2> QED BY <2>3, <2>4, <2>5, <2>8
<1>6. Exclusive'
  <2>1. \A x \in Dispatchers, e \in Events : tx'[x][e] = tx[x][e] \/ tx'[x][e] = NoRow
    BY <1>1, ReleaseFacts
  <2> QED BY <2>1 DEF IInv, Exclusive
<1>7. \A e \in Events : posted[d][e] # 0 => e \in Bridged /\ tx[d][e] # NoRow /\ acc[e] = "none"
  BY <1>3 DEF Inserted
<1>8. Accounts'
  <2>1. \A e \in Events : e \notin Bridged => acc'[e] = acc[e]
    BY <1>7, CommitFacts
  <2>2. \A e \in Events : row'[e].status # "absent" => row[e].status # "absent"
    BY CommitFacts
  <2>3. \A e \in Events : acc[e] = "posted" => acc'[e] = "posted"
    BY CommitFacts
  <2>4. \A e \in Bridged : acc'[e] # "skipped"
    BY CommitFacts DEF IInv, Accounts, Events
  <2>5. ASSUME NEW n \in Numbers, journal'[n] \in Events
        PROVE  journal'[n] \in Bridged /\ acc'[journal'[n]] = "posted"
    <3>1. CASE journal'[n] = journal[n]
      BY <2>3, <2>5, <3>1 DEF IInv, Accounts
    <3>2. CASE \E e \in Events : posted[d][e] = n /\ journal'[n] = e
      BY <1>7, <3>2, CommitFacts DEF Numbers
    <3> QED BY <3>1, <3>2, CommitFacts
  <2> QED BY <2>1, <2>2, <2>4, <2>5 DEF IInv, Accounts, Events
<1>9. AttemptsTellTheStory'
  BY CommitFacts DEF IInv, AttemptsTellTheStory
<1>10. OutboxAgreesWithBridge'
  BY <1>7, CommitFacts DEF IInv, OutboxAgreesWithBridge, Events
<1>11. PostedOnce'
  <2> SUFFICES ASSUME NEW m \in Numbers, NEW n \in Numbers, NEW e \in Events,
                      journal'[m] = e, journal'[n] = e
               PROVE  m = n
    BY DEF PostedOnce
  <2>1. \A k \in Numbers : journal'[k] = e =>
          \/ journal[k] = e /\ acc[e] = "posted"
          \/ posted[d][e] = k /\ acc[e] = "none"
    BY <1>7, CommitFacts DEF IInv, Accounts, Numbers
  <2> QED BY <2>1 DEF IInv, PostedOnce
<1>12. NoEntryLost'
  <2> SUFFICES ASSUME NEW e \in Events, acc'[e] = "posted", e \notin gone
               PROVE  \E m \in Numbers : journal'[m] = e
    BY <1>1 DEF NoEntryLost
  <2>1. CASE posted[d][e] # 0
    BY <2>1, CommitFacts
  <2>2. CASE posted[d][e] = 0
    <3>1. acc[e] = "posted"
      BY <2>2, CommitFacts
    <3>2. PICK m \in Numbers : journal[m] = e
      BY <3>1 DEF IInv, NoEntryLost
    <3>3. \A f \in Events : posted[d][f] = m => journal[m] = Free
      BY <1>3 DEF Inserted, Numbers
    <3> QED BY <3>2, <3>3, CommitFacts
  <2> QED BY <2>1, <2>2
<1> QED BY <1>2, <1>4, <1>5, <1>6, <1>8, <1>9, <1>10, <1>11, <1>12 DEF IInv
-------------------------------------------------------------------------------
LEMMA NextIInv ==
  ASSUME IInv, [Next]_vars
  PROVE  IInv'
<1>0. used \in Bounds
  BY DEF IInv, TypeOK
<1>1. ASSUME NEW e \in Events, Emit(e)
      PROVE  IInv'
  BY <1>1, EmitStep
<1>2. ASSUME ManualEntry
      PROVE  IInv'
  BY <1>2, ManualStep
<1>3. ASSUME NEW n \in Numbers, DeleteDraft(n)
      PROVE  IInv'
  BY <1>3, DeleteStep
<1>4. ASSUME NEW d \in Dispatchers, Select(d) \/ Take(d) \/ Lock(d) \/ HandleNumber(d) \/ Commit(d)
      PROVE  IInv'
  BY <1>4, SelectStep, TakeStep, LockStep, NumberStep, CommitStep
<1>5. ASSUME NEW d \in Dispatchers, HandleNothing(d)
      PROVE  IInv'
  BY <1>0, <1>5, OutcomeStep DEF HandleNothing
<1>6. ASSUME NEW d \in Dispatchers, Insert(d)
      PROVE  IInv'
  BY <1>0, <1>6, OutcomeStep DEF Insert
<1>7. ASSUME NEW d \in Dispatchers, InsertFails(d) \/ LoseEntry(d)
      PROVE  IInv'
  <2>1. pc[d] = "insert" /\ Outcome(d, "failed") /\ UNCHANGED <<posted, used>>
    BY <1>7 DEF InsertFails, LoseEntry
  <2>2. ~ NothingToPost(ev[d])
    BY <2>1, HandFacts DEF NothingToPost, Events
  <2> QED BY <1>0, <2>1, <2>2, OutcomeStep
<1>8. ASSUME NEW d \in Dispatchers, Fault(d)
      PROVE  IInv'
  <2>1. used' \in Bounds
    BY <1>0, <1>8 DEF Fault, Bounds
  <2> QED BY <1>8, <2>1, OutcomeStep DEF Fault
<1>9. ASSUME NEW d \in Dispatchers, Crash(d)
      PROVE  IInv'
  <2>1. used' \in Bounds
    BY <1>0, <1>9 DEF Crash, Bounds
  <2> QED BY <1>9, <2>1, LostStep DEF Crash
<1>10. ASSUME NEW d \in Dispatchers, LoseBatch(d)
       PROVE  IInv'
  <2>1. Release(d) /\ UNCHANGED <<store, used>>
    BY <1>10 DEF LoseBatch
  <2> QED BY <1>0, <2>1, LostStep
<1>11. CASE UNCHANGED vars
  BY <1>11 DEF vars, store, batch, IInv, TypeOK, Progress, Copies, Updated, Inserted, Exclusive,
     Accounts, HasEntry, InHand, AttemptsTellTheStory, OutboxAgreesWithBridge, PostedOnce, NoEntryLost
<1> QED BY <1>1, <1>2, <1>3, <1>4, <1>5, <1>6, <1>7, <1>8, <1>9, <1>10, <1>11
        DEF Next, Step, DeadlockVictim

\* The invariant holds in every state.
THEOREM Invariance == Spec => []IInv
BY InitIInv, NextIInv, PTL DEF Spec

\* The tables and the dispatchers stay well formed; no entry is tried more than
\* MAX_OUTBOX_ATTEMPTS times according to its own counter.
THEOREM TypeCorrect == Spec => []TypeOK
<1>1. IInv => TypeOK
  BY DEF IInv
<1> QED BY <1>1, Invariance, PTL

\* No settlement has two entries in the journal, however many dispatchers overlap.
THEOREM PostedOnceHolds == Spec => []PostedOnce
<1>1. IInv => PostedOnce
  BY DEF IInv
<1> QED BY <1>1, Invariance, PTL

\* What its caller has posted, the bridge never posts.
THEOREM NeverCountedTwiceHolds == Spec => []NeverCountedTwice
<1>1. IInv => NeverCountedTwice
  <2> SUFFICES ASSUME IInv, NEW n \in Numbers
               PROVE  journal[n] \notin Preempted \cup Silent
    BY DEF NeverCountedTwice
  <2>1. journal[n] \in Events => journal[n] \in Bridged
    BY DEF IInv, Accounts
  <2> QED BY <2>1 DEF Events
<1> QED BY <1>1, Invariance, PTL

\* The outbox and the accounting events agree on what has been done.
THEOREM OutboxAgreesWithBridgeHolds == Spec => []OutboxAgreesWithBridge
<1>1. IInv => OutboxAgreesWithBridge
  BY DEF IInv
<1> QED BY <1>1, Invariance, PTL

\* A posted event is in the journal until an accountant deletes it.
THEOREM NoEntryLostHolds == Spec => []NoEntryLost
<1>1. IInv => NoEntryLost
  BY DEF IInv
<1> QED BY <1>1, Invariance, PTL

\* The counter of attempts tells what has been tried and what has not.
THEOREM AttemptsTellTheStoryHolds == Spec => []AttemptsTellTheStory
<1>1. IInv => AttemptsTellTheStory
  BY DEF IInv
<1> QED BY <1>1, Invariance, PTL

\* No stale dispatcher takes a dispatched entry back.
THEOREM DispatchedIsFinalHolds == Spec => DispatchedIsFinal
<1>1. ASSUME IInv, [Next]_vars, NEW e \in Events, row[e].status = "dispatched"
      PROVE  row'[e].status = "dispatched"
  <2>1. ASSUME NEW f \in Events, Emit(f)
        PROVE  row'[e].status = "dispatched"
    BY <1>1, <2>1 DEF Emit, NoRow, IInv, TypeOK
  <2>2. ASSUME NEW d \in Dispatchers, Commit(d)
        PROVE  row'[e].status = "dispatched"
    <3>1. CASE tx[d][e] = NoRow
      BY <1>1, <2>2, <3>1, CommitFacts
    <3>2. CASE tx[d][e] # NoRow
      <4>1. row'[e] = tx[d][e] /\ (e \notin Bridged => tx[d][e].status = "dispatched")
        BY <1>1, <2>2, <3>2, CommitFacts
      <4>2. e \in Bridged => acc[e] = "posted"
        BY <1>1 DEF IInv, OutboxAgreesWithBridge
      <4>3. e \in Bridged /\ acc[e] = "posted" => tx[d][e].status = "dispatched"
        BY <1>1, <2>2, <3>2, CommitFacts
      <4> QED BY <4>1, <4>2, <4>3
    <3> QED BY <3>1, <3>2
  <2>3. ASSUME ~ \E f \in Events : Emit(f), ~ \E d \in Dispatchers : Commit(d)
        PROVE  row' = row
    BY <1>1, <2>3 DEF Next, Step, DeadlockVictim, ManualEntry, DeleteDraft, Select, Take, Lock,
       HandleNothing, HandleNumber, Insert, InsertFails, Fault, Crash, LoseBatch, LoseEntry,
       Outcome, store, vars
  <2> QED BY <1>1, <2>1, <2>2, <2>3
<1>2. IInv /\ [Next]_vars =>
        [\A e \in Events : row[e].status = "dispatched" => row'[e].status = "dispatched"]_row
  BY <1>1
<1> QED BY <1>2, Invariance, PTL DEF Spec, DispatchedIsFinal
================================================================================
