--------------------------- MODULE OfflineQueueProofs ---------------------------
(***************************************************************************)
(* Proofs about OfflineQueue, for any accounts, incidents and limits.      *)
(*                                                                         *)
(* Every queue, wherever it is kept, holds incidents in the order in which *)
(* they were entered (AllInOrder).  Its incidents are those of the account *)
(* it is kept for, except exposed ones (Owners).  And either every         *)
(* incident on the phone is exposed, or nothing disturbs the queue: then   *)
(* the queue in memory, the copy of the loop and what the storage will     *)
(* hold each have all the incidents that still have to be sent (Keeping),  *)
(* in a state that tells what the server and the user decided of them      *)
(* (Telling).                                                              *)
(*                                                                         *)
(* An incident that was never sent while an earlier call for it was still  *)
(* served has one row at most, and one call at most that the server has    *)
(* not finished with; one that found no row is right about it (OneRow).    *)
(***************************************************************************)
EXTENDS OfflineQueue, FiniteSetTheorems, TLAPS

Items == [id : Ids, state : States]

--------------------------------------------------------------------------------
(* The operators on queues.                                                *)

LEMMA QueueShape ==
  ASSUME NEW q \in Queues
  PROVE  /\ Len(q) \in Nat /\ DOMAIN q = 1 .. Len(q)
         /\ q \in [1 .. Len(q) -> Items]
         /\ \A k \in DOMAIN q : q[k] \in Items /\ q[k].id \in Ids /\ q[k].state \in States
         /\ \A e \in ToSet(q) : e \in Items /\ e.id \in Ids /\ e.state \in States
<1>1. Len(q) \in Nat /\ DOMAIN q = 1 .. Len(q) /\ q \in [1 .. Len(q) -> Items]
  <2>1. q \in Seq(Items)
    BY DEF Queues, Items
  <2>2. QED BY <2>1
<1>2. \A k \in DOMAIN q : q[k] \in Items
  BY <1>1
<1>3. \A e \in Items : e.id \in Ids /\ e.state \in States
  BY DEF Items
<1>4. QED BY <1>1, <1>2, <1>3 DEF ToSet

\* A function on an initial interval of the numbers is a sequence.
LEMMA SequenceOf ==
  ASSUME NEW S, NEW n \in Nat, NEW f \in [1 .. n -> S]
  PROVE  f \in Seq(S) /\ Len(f) = n /\ DOMAIN f = 1 .. n
OBVIOUS

\* The places of a filter are counted from 1 to their number, in their order.
LEMMA CountedPlaces ==
  ASSUME NEW n \in Nat, NEW P \in SUBSET (1 .. n)
  PROVE  /\ Cardinality(P) \in Nat
         /\ \A k \in P : Cardinality(UpTo(P, k)) \in 1 .. Cardinality(P)
         /\ \A j, k \in P : j < k => Cardinality(UpTo(P, j)) < Cardinality(UpTo(P, k))
         /\ \A m \in 1 .. Cardinality(P) : \E k \in P : Cardinality(UpTo(P, k)) = m
<1>1. IsFiniteSet(P)
  <2>1. IsFiniteSet(1 .. n)
    BY FS_Interval
  <2>2. QED BY <2>1, FS_Subset
<1>2. Cardinality(P) \in Nat
  BY <1>1, FS_CardinalityType
<1>3. ASSUME NEW k \in P
      PROVE  IsFiniteSet(UpTo(P, k)) /\ Cardinality(UpTo(P, k)) \in 1 .. Cardinality(P)
  <2>1. UpTo(P, k) \in SUBSET P
    BY DEF UpTo
  <2>2. IsFiniteSet(UpTo(P, k)) /\ Cardinality(UpTo(P, k)) <= Cardinality(P)
    BY <1>1, <2>1, FS_Subset
  <2>3. k \in UpTo(P, k)
    BY DEF UpTo
  <2>4. Cardinality(UpTo(P, k)) # 0
    BY <2>2, <2>3, FS_EmptySet
  <2>5. Cardinality(UpTo(P, k)) \in Nat
    BY <2>2, FS_CardinalityType
  <2>6. QED BY <1>2, <2>2, <2>4, <2>5
<1>4. ASSUME NEW j \in P, NEW k \in P, j < k
      PROVE  Cardinality(UpTo(P, j)) < Cardinality(UpTo(P, k))
  <2>0. \A x \in P : x \in Nat
    OBVIOUS
  <2>1. UpTo(P, j) \in SUBSET UpTo(P, k)
    <3>1. ASSUME NEW x \in P, x <= j PROVE x <= k
      BY <1>4, <2>0, <3>1
    <3>2. QED BY <3>1 DEF UpTo
  <2>2. k \in UpTo(P, k) /\ k \notin UpTo(P, j)
    BY <1>4, <2>0 DEF UpTo
  <2>3. Cardinality(UpTo(P, j)) <= Cardinality(UpTo(P, k))
        /\ (Cardinality(UpTo(P, k)) = Cardinality(UpTo(P, j)) => UpTo(P, k) = UpTo(P, j))
    BY <1>3, <2>1, FS_Subset
  <2>4. Cardinality(UpTo(P, j)) # Cardinality(UpTo(P, k))
    BY <2>2, <2>3
  <2>5. Cardinality(UpTo(P, j)) \in Nat /\ Cardinality(UpTo(P, k)) \in Nat
    BY <1>3, FS_CardinalityType
  <2>6. QED BY <2>3, <2>4, <2>5
<1>5. ASSUME NEW m \in 1 .. Cardinality(P)
      PROVE  \E k \in P : Cardinality(UpTo(P, k)) = m
  <2> DEFINE rank == [k \in P |-> Cardinality(UpTo(P, k))]
             T == 1 .. Cardinality(P)
  <2>1. rank \in [P -> T]
    BY <1>3
  <2>2. \A j, k \in P : rank[j] = rank[k] => j = k
    <3>1. SUFFICES ASSUME NEW j \in P, NEW k \in P, rank[j] = rank[k] PROVE j = k
      OBVIOUS
    <3>2. Cardinality(UpTo(P, j)) = Cardinality(UpTo(P, k)) /\ Cardinality(UpTo(P, j)) \in Nat
      BY <1>3, <3>1
    <3>3. ~(j < k) /\ ~(k < j)
      BY <1>4, <3>2
    <3>4. QED BY <3>3
  <2>3. rank \in Injection(P, T)
    BY <2>1, <2>2 DEF Injection, IsInjective
  <2>4. IsFiniteSet(T) /\ Cardinality(T) = Cardinality(P)
    BY <1>2, FS_Interval
  <2>5. rank \in Surjection(P, T)
    BY <2>3, <2>4, FS_Injection
  <2>6. \E k \in P : rank[k] = m
    BY <2>5 DEF Surjection
  <2>7. QED BY <2>6
<1>6. QED BY <1>2, <1>3, <1>4, <1>5

\* The items of a filtered queue stand at increasing places of the queue.
LEMMA KeptFacts ==
  ASSUME NEW q \in Queues, NEW A
  PROVE  /\ Kept(q, A) \in Queues
         /\ ToSet(Kept(q, A)) = ToSet(q) \cap A
         /\ \E at \in [DOMAIN Kept(q, A) -> DOMAIN q] :
              /\ \A n \in DOMAIN Kept(q, A) : Kept(q, A)[n] = q[at[n]]
              /\ \A m, n \in DOMAIN Kept(q, A) : m < n => at[m] < at[n]
<1> DEFINE P == Places(q, A)
           c == Cardinality(P)
           at == [n \in 1 .. c |-> CHOOSE k \in P : Cardinality(UpTo(P, k)) = n]
<1>1. Len(q) \in Nat /\ DOMAIN q = 1 .. Len(q) /\ \A k \in DOMAIN q : q[k] \in Items
  BY QueueShape
<1>2. P \in SUBSET (1 .. Len(q))
  BY <1>1 DEF Places
<1>3. /\ c \in Nat
      /\ \A k \in P : Cardinality(UpTo(P, k)) \in 1 .. c
      /\ \A j, k \in P : j < k => Cardinality(UpTo(P, j)) < Cardinality(UpTo(P, k))
      /\ \A m \in 1 .. c : \E k \in P : Cardinality(UpTo(P, k)) = m
  BY <1>1, <1>2, CountedPlaces
<1>4. ASSUME NEW n \in 1 .. c PROVE at[n] \in P /\ Cardinality(UpTo(P, at[n])) = n
  BY <1>3
<1>5. Kept(q, A) = [n \in 1 .. c |-> q[at[n]]]
  BY DEF Kept
<1>6. \A n \in 1 .. c : at[n] \in DOMAIN q /\ q[at[n]] \in Items /\ q[at[n]] \in A
  BY <1>1, <1>4 DEF Places
<1>7. Kept(q, A) \in [1 .. c -> Items] /\ DOMAIN Kept(q, A) = 1 .. c
  BY <1>5, <1>6
<1>8. Kept(q, A) \in Queues
  BY <1>3, <1>7, SequenceOf DEF Queues, Items
<1>9. ASSUME NEW m \in 1 .. c, NEW n \in 1 .. c, m < n PROVE at[m] < at[n]
  <2>1. at[m] \in P /\ at[n] \in P /\ Cardinality(UpTo(P, at[m])) = m /\ Cardinality(UpTo(P, at[n])) = n
    BY <1>4
  <2>2. at[m] \in Nat /\ at[n] \in Nat
    BY <1>2, <2>1
  <2>3. ~(at[n] < at[m])
    BY <1>3, <1>9, <2>1
  <2>4. at[n] # at[m]
    BY <1>9, <2>1
  <2>5. QED BY <2>2, <2>3, <2>4
<1>10. ToSet(Kept(q, A)) \subseteq ToSet(q) \cap A
  <2>1. ASSUME NEW n \in 1 .. c PROVE Kept(q, A)[n] \in ToSet(q) \cap A
    BY <1>5, <1>6 DEF ToSet
  <2>2. QED BY <1>7, <2>1 DEF ToSet
<1>11. ASSUME NEW e \in ToSet(q), e \in A PROVE e \in ToSet(Kept(q, A))
  <2>1. PICK k \in DOMAIN q : q[k] = e
    BY DEF ToSet
  <2>2. k \in P
    BY <1>11, <2>1 DEF Places
  <2>3. PICK n \in 1 .. c : n = Cardinality(UpTo(P, k))
    BY <1>3, <2>2
  <2>4. at[n] \in P /\ Cardinality(UpTo(P, at[n])) = Cardinality(UpTo(P, k))
    BY <1>4, <2>3
  <2>5. at[n] \in Nat /\ k \in Nat
    BY <1>2, <2>2, <2>4
  <2>6. ~(at[n] < k) /\ ~(k < at[n])
    <3>1. Cardinality(UpTo(P, k)) \in Nat
      BY <2>3
    <3>2. QED BY <1>3, <2>2, <2>4, <3>1
  <2>7. at[n] = k
    BY <2>5, <2>6
  <2>8. Kept(q, A)[n] = e
    BY <1>5, <2>1, <2>7
  <2>9. QED BY <1>7, <2>8 DEF ToSet
<1>12. at \in [DOMAIN Kept(q, A) -> DOMAIN q]
  BY <1>6, <1>7
<1>13. \A n \in DOMAIN Kept(q, A) : Kept(q, A)[n] = q[at[n]]
  BY <1>5, <1>7
<1>14. \A m, n \in DOMAIN Kept(q, A) : m < n => at[m] < at[n]
  BY <1>7, <1>9
<1> HIDE DEF at, c
<1>15. QED BY <1>8, <1>10, <1>11, <1>12, <1>13, <1>14

--------------------------------------------------------------------------------
(* Queues in the order of entry.                                           *)

\* The incidents of a queue were entered, one after the other.
Earlier(j, i, o) == \E m, n \in DOMAIN o : m < n /\ o[m] = j /\ o[n] = i
Ordered(q, o) == \A m, n \in DOMAIN q : m < n => Earlier(q[m].id, q[n].id, o)
InOrder(q, o) == Ordered(q, o) /\ IdsOf(q) \subseteq ToSet(o)

LEMMA IdsOfTyped ==
  ASSUME NEW q \in Queues
  PROVE  IdsOf(q) \subseteq Ids /\ \A i : i \in IdsOf(q) <=> \E e \in ToSet(q) : e.id = i
BY QueueShape DEF IdsOf

LEMMA EmptyQueue ==
  /\ <<>> \in Queues /\ ToSet(<<>>) = {} /\ IdsOf(<<>>) = {}
  /\ \A o : InOrder(<<>>, o)
<1>1. <<>> \in Queues
  BY DEF Queues
<1>2. ToSet(<<>>) = {}
  BY DEF ToSet
<1>3. IdsOf(<<>>) = {}
  BY <1>2 DEF IdsOf
<1>4. \A o : InOrder(<<>>, o)
  BY <1>3 DEF InOrder, Ordered
<1>5. QED BY <1>1, <1>2, <1>3, <1>4

\* A change of states only.
LEMMA Mapped ==
  ASSUME NEW q \in Queues, NEW r \in [DOMAIN q -> Items],
         \A k \in DOMAIN q : r[k].id = q[k].id
  PROVE  r \in Queues /\ IdsOf(r) = IdsOf(q) /\ (\A o : InOrder(q, o) => InOrder(r, o))
<1>1. Len(q) \in Nat /\ DOMAIN q = 1 .. Len(q)
  BY QueueShape
<1>2. r \in Queues /\ DOMAIN r = DOMAIN q
  BY <1>1, SequenceOf DEF Queues, Items
<1>3. IdsOf(r) = IdsOf(q)
  BY <1>2 DEF IdsOf, ToSet
<1>4. \A o : Ordered(q, o) => Ordered(r, o)
  BY <1>2 DEF Ordered
<1>5. QED BY <1>2, <1>3, <1>4 DEF InOrder

LEMMA WithStateFacts ==
  ASSUME NEW q \in Queues, NEW i, NEW st \in States
  PROVE  /\ WithState(q, i, st) \in Queues
         /\ IdsOf(WithState(q, i, st)) = IdsOf(q)
         /\ \A o : InOrder(q, o) => InOrder(WithState(q, i, st), o)
         /\ \A e \in ToSet(WithState(q, i, st)) :
              IF e.id = i THEN e.state = st ELSE e \in ToSet(q)
<1> DEFINE r == WithState(q, i, st)
<1>1. \A k \in DOMAIN q : q[k] \in Items /\ q[k].id \in Ids
  BY QueueShape
<1>2. ASSUME NEW k \in DOMAIN q
      PROVE  /\ r[k] = IF q[k].id = i THEN Item(i, st) ELSE q[k]
             /\ r[k] \in Items /\ r[k].id = q[k].id
             /\ IF r[k].id = i THEN r[k].state = st ELSE r[k] = q[k]
  <2>1. r[k] = IF q[k].id = i THEN Item(i, st) ELSE q[k]
    BY DEF WithState
  <2>2. q[k].id = i => Item(i, st) \in Items /\ Item(i, st).id = i /\ Item(i, st).state = st
    BY <1>1 DEF Item, Items
  <2>3. QED BY <1>1, <2>1, <2>2
<1>3. r \in [DOMAIN q -> Items] /\ DOMAIN r = DOMAIN q
  BY <1>2 DEF WithState
<1>4. r \in Queues /\ IdsOf(r) = IdsOf(q) /\ (\A o : InOrder(q, o) => InOrder(r, o))
  BY <1>2, <1>3, Mapped
<1>5. ASSUME NEW e \in ToSet(r) PROVE IF e.id = i THEN e.state = st ELSE e \in ToSet(q)
  <2>1. PICK k \in DOMAIN q : e = r[k]
    BY <1>3 DEF ToSet
  <2>2. QED BY <1>2, <2>1 DEF ToSet
<1>6. QED BY <1>4, <1>5

LEMMA ResumedFacts ==
  ASSUME NEW q \in Queues
  PROVE  /\ Resumed(q) \in Queues /\ IdsOf(Resumed(q)) = IdsOf(q)
         /\ \A o : InOrder(q, o) => InOrder(Resumed(q), o)
         /\ \A e \in ToSet(Resumed(q)) : e.state # "syncing"
         /\ \A e \in ToSet(Resumed(q)) : \E d \in ToSet(q) :
              e.id = d.id /\ (e.state \in {"failed", "conflict"} <=> d.state \in {"failed", "conflict"})
         /\ \A d \in ToSet(q) : \E e \in ToSet(Resumed(q)) :
              e.id = d.id /\ (e.state \in {"failed", "conflict"} <=> d.state \in {"failed", "conflict"})
<1> DEFINE r == Resumed(q)
<1>1. \A k \in DOMAIN q : q[k] \in Items /\ q[k].id \in Ids /\ q[k].state \in States
  BY QueueShape
<1>2. ASSUME NEW k \in DOMAIN q
      PROVE  /\ r[k] \in Items /\ r[k].id = q[k].id /\ r[k].state # "syncing"
             /\ r[k].state \in {"failed", "conflict"} <=> q[k].state \in {"failed", "conflict"}
  <2>1. r[k] = Item(q[k].id, IF q[k].state = "syncing" THEN "pending" ELSE q[k].state)
    BY DEF Resumed
  <2>2. r[k].id = q[k].id /\ r[k].state = (IF q[k].state = "syncing" THEN "pending" ELSE q[k].state)
    BY <2>1 DEF Item
  <2>3. r[k] \in Items
    BY <1>1, <2>1 DEF Item, Items, States
  <2>4. QED BY <2>2, <2>3
<1>3. r \in [DOMAIN q -> Items] /\ DOMAIN r = DOMAIN q
  BY <1>2 DEF Resumed
<1>4. r \in Queues /\ IdsOf(r) = IdsOf(q) /\ (\A o : InOrder(q, o) => InOrder(r, o))
  BY <1>2, <1>3, Mapped
<1> HIDE DEF r
<1>5. \A e \in ToSet(r) : \E k \in DOMAIN q : e = r[k] /\ q[k] \in ToSet(q)
  BY <1>3 DEF ToSet
<1>6. \A d \in ToSet(q) : \E k \in DOMAIN q : d = q[k] /\ r[k] \in ToSet(r)
  BY <1>3 DEF ToSet
<1>7. \A e \in ToSet(r) : e.state # "syncing" /\ \E d \in ToSet(q) :
        e.id = d.id /\ (e.state \in {"failed", "conflict"} <=> d.state \in {"failed", "conflict"})
  BY <1>2, <1>5
<1>8. \A d \in ToSet(q) : \E e \in ToSet(r) :
        e.id = d.id /\ (e.state \in {"failed", "conflict"} <=> d.state \in {"failed", "conflict"})
  BY <1>2, <1>6
<1>9. QED BY <1>4, <1>7, <1>8 DEF r

LEMMA KeptInOrder ==
  ASSUME NEW q \in Queues, NEW A
  PROVE  /\ Kept(q, A) \in Queues /\ ToSet(Kept(q, A)) = ToSet(q) \cap A
         /\ IdsOf(Kept(q, A)) \subseteq IdsOf(q)
         /\ \A o : InOrder(q, o) => InOrder(Kept(q, A), o)
<1>1. Kept(q, A) \in Queues /\ ToSet(Kept(q, A)) = ToSet(q) \cap A
  BY KeptFacts
<1>2. IdsOf(Kept(q, A)) \subseteq IdsOf(q)
  BY <1>1 DEF IdsOf
<1>3. PICK at \in [DOMAIN Kept(q, A) -> DOMAIN q] :
        /\ \A n \in DOMAIN Kept(q, A) : Kept(q, A)[n] = q[at[n]]
        /\ \A m, n \in DOMAIN Kept(q, A) : m < n => at[m] < at[n]
  BY KeptFacts
<1>4. \A o : Ordered(q, o) => Ordered(Kept(q, A), o)
  BY <1>3 DEF Ordered
<1>5. QED BY <1>1, <1>2, <1>4 DEF InOrder

LEMMA WithoutFacts ==
  ASSUME NEW q \in Queues, NEW i
  PROVE  /\ Without(q, i) \in Queues /\ IdsOf(Without(q, i)) = IdsOf(q) \ {i}
         /\ \A e \in ToSet(Without(q, i)) : e \in ToSet(q) /\ e.id # i
         /\ \A o : InOrder(q, o) => InOrder(Without(q, i), o)
<1>1. /\ Without(q, i) \in Queues
      /\ ToSet(Without(q, i)) = ToSet(q) \cap [id : Ids \ {i}, state : States]
      /\ \A o : InOrder(q, o) => InOrder(Without(q, i), o)
  BY KeptInOrder DEF Without
<1>2. \A e \in ToSet(q) : e \in [id : Ids \ {i}, state : States] <=> e.id # i
  BY QueueShape DEF Items
<1>3. IdsOf(Without(q, i)) = IdsOf(q) \ {i}
  BY <1>1, <1>2 DEF IdsOf
<1>4. QED BY <1>1, <1>2, <1>3

\* The identifiers of what waits, which the loop is to send.
LEMMA PendingFacts ==
  ASSUME NEW q \in Queues, NEW o, InOrder(q, o),
         NEW todo, todo = [k \in DOMAIN Pending(q) |-> Pending(q)[k].id]
  PROVE  /\ todo \in Seq(Ids) /\ (Pending(q) # <<>> => todo # <<>>)
         /\ ToSet(todo) = {e.id : e \in {x \in ToSet(q) : x.state = "pending"}}
         /\ \A m, n \in DOMAIN todo : m < n => Earlier(todo[m], todo[n], o)
<1>1. /\ Pending(q) \in Queues /\ InOrder(Pending(q), o)
      /\ ToSet(Pending(q)) = ToSet(q) \cap [id : Ids, state : {"pending"}]
  BY KeptInOrder DEF Pending
<1>2. \A e \in ToSet(q) : e \in [id : Ids, state : {"pending"}] <=> e.state = "pending"
  BY QueueShape DEF Items
<1>3. /\ Len(Pending(q)) \in Nat /\ DOMAIN Pending(q) = 1 .. Len(Pending(q))
      /\ \A k \in DOMAIN Pending(q) : Pending(q)[k].id \in Ids
  BY <1>1, QueueShape
<1>4. todo \in [1 .. Len(Pending(q)) -> Ids] /\ DOMAIN todo = DOMAIN Pending(q)
  BY <1>3
<1>5. todo \in Seq(Ids) /\ Len(todo) = Len(Pending(q))
  BY <1>3, <1>4, SequenceOf
<1>6. Pending(q) # <<>> => todo # <<>>
  <2>1. Pending(q) \in Seq(Items)
    BY <1>1 DEF Queues, Items
  <2>2. Len(Pending(q)) = 0 => Pending(q) = <<>>
    BY <2>1
  <2>3. todo = <<>> => Len(todo) = 0
    OBVIOUS
  <2>4. QED BY <1>5, <2>2, <2>3
<1>7. ToSet(todo) = {e.id : e \in ToSet(Pending(q))}
  BY <1>4 DEF ToSet
<1>8. ToSet(todo) = {e.id : e \in {x \in ToSet(q) : x.state = "pending"}}
  BY <1>1, <1>2, <1>7
<1>9. \A m, n \in DOMAIN todo : m < n => Earlier(todo[m], todo[n], o)
  BY <1>1, <1>4 DEF InOrder, Ordered
<1>10. QED BY <1>5, <1>6, <1>8, <1>9

\* What is left after the first.
LEMMA TailFacts ==
  ASSUME NEW S, NEW s \in Seq(S), s # <<>>
  PROVE  /\ Head(s) \in S /\ Head(s) \in ToSet(s) /\ Tail(s) \in Seq(S)
         /\ Head(s) = s[1] /\ 1 \in DOMAIN s
         /\ \A n \in DOMAIN Tail(s) : n + 1 \in DOMAIN s /\ Tail(s)[n] = s[n + 1]
         /\ ToSet(s) = {Head(s)} \cup ToSet(Tail(s))
<1>1. Len(s) \in Nat /\ Len(s) # 0 /\ DOMAIN s = 1 .. Len(s) /\ \A n \in DOMAIN s : s[n] \in S
  OBVIOUS
<1>2. Head(s) = s[1] /\ 1 \in DOMAIN s
  BY <1>1
<1>3. Tail(s) \in Seq(S) /\ Len(Tail(s)) = Len(s) - 1 /\ DOMAIN Tail(s) = 1 .. (Len(s) - 1)
  BY <1>1
<1>4. \A n \in DOMAIN Tail(s) : n + 1 \in DOMAIN s /\ Tail(s)[n] = s[n + 1]
  BY <1>1, <1>3
<1>5. ASSUME NEW x \in ToSet(s) PROVE x = Head(s) \/ x \in ToSet(Tail(s))
  <2>1. PICK n \in DOMAIN s : x = s[n]
    BY DEF ToSet
  <2>2. CASE n = 1
    BY <1>2, <2>1, <2>2
  <2>3. CASE n # 1
    <3>1. n - 1 \in DOMAIN Tail(s) /\ (n - 1) + 1 = n
      BY <1>1, <1>3, <2>3
    <3>2. Tail(s)[n - 1] = x
      BY <1>4, <2>1, <3>1
    <3>3. QED BY <3>1, <3>2 DEF ToSet
  <2>4. QED BY <2>2, <2>3
<1>6. Head(s) \in ToSet(s) /\ ToSet(Tail(s)) \subseteq ToSet(s)
  BY <1>2, <1>4 DEF ToSet
<1>7. ToSet(s) = {Head(s)} \cup ToSet(Tail(s))
  BY <1>5, <1>6
<1>8. QED BY <1>1, <1>2, <1>3, <1>4, <1>6, <1>7

--------------------------------------------------------------------------------
(* The shape of the state.                                                 *)

Accounts == Users \cup {Nobody}
Loops == [pc : {"idle", "marking", "sending", "settling", "stopping"}, for : Accounts,
          todo : Seq(Ids), copy : Queues, sender : Accounts, seen : Seen \cup {"several"}]
Blobs == [user : Accounts, items : Queues]

ServerShape == rows \in [Ids -> Nat] /\ late \in [Threads -> Calls \cup {Nobody}]

Typed ==
  /\ user \in Accounts /\ shown \in Accounts /\ loading \subseteq Users
  /\ latest \in Queues /\ loop \in Loops
  /\ saving \in [Writers -> [busy : BOOLEAN, blob : Blobs]]
  /\ stored \in Blobs /\ overlap \in BOOLEAN
  /\ ServerShape

AllInOrder ==
  /\ InOrder(latest, order) /\ InOrder(stored.items, order) /\ InOrder(loop.copy, order)
  /\ \A w \in Writers : InOrder(saving[w].blob.items, order)

HistoryShape ==
  /\ author \in [Ids -> Accounts] /\ order \in Seq(Ids)
  /\ \A m, n \in DOMAIN order : order[m] = order[n] => m = n
  /\ \A i \in Ids : author[i] # Nobody <=> i \in ToSet(order)
  /\ refused \cup dropped \subseteq ToSet(order)
  /\ \A p \in sentBy : p[1] \in ToSet(order)
  /\ \A t \in Threads : late[t] # Nobody => late[t].id \in ToSet(order)

\* The incident on its way is the first of those to send, and the only one said to be.
Marked(l) == l.pc \in {"marking", "sending"}
TodoShape(l, o) ==
  /\ Marked(l) => l.todo # <<>>
  /\ ToSet(l.todo) \subseteq IdsOf(l.copy)
  /\ \A m, n \in DOMAIN l.todo : m < n => Earlier(l.todo[m], l.todo[n], o)
  /\ \A e \in ToSet(l.copy) : e.state = "syncing" <=> Marked(l) /\ e.id = Head(l.todo)

LoopShape ==
  /\ loop.pc = "idle" => loop = Idle
  /\ TodoShape(loop, order)
  /\ ~Marked(loop) => \A e \in ToSet(latest) : e.state # "syncing"
  /\ Busy("loop") => loop.pc \in {"marking", "settling", "stopping"}
  /\ loop.pc # "sending" => loop.seen = "unread"
  /\ \A i \in Ids : loop.pc = "sending" /\ loop.seen = "row" /\ Head(loop.todo) = i => rows[i] # 0

Shape == Typed /\ AllInOrder /\ HistoryShape /\ LoopShape

LEMMA IdleFacts ==
  /\ Idle \in Loops /\ Idle.pc = "idle" /\ Idle.todo = <<>> /\ Idle.copy = <<>>
  /\ Idle.seen = "unread"
  /\ ~Marked(Idle) /\ \A o : TodoShape(Idle, o) /\ InOrder(Idle.copy, o)
<1>1. /\ Idle.pc = "idle" /\ Idle.todo = <<>> /\ Idle.copy = <<>> /\ ~Marked(Idle)
      /\ Idle.seen = "unread"
  BY DEF Idle, Marked
<1>2. Idle \in Loops
  BY EmptyQueue DEF Idle, Loops, Accounts, Seen
<1>3. DOMAIN <<>> = {}
  OBVIOUS
<1>4. \A o : TodoShape(Idle, o) /\ InOrder(Idle.copy, o)
  BY <1>1, <1>3, EmptyQueue DEF TodoShape
<1>5. QED BY <1>1, <1>2, <1>4

LEMMA AbsentFacts ==
  Absent \in Blobs /\ Absent.items = <<>> /\ Absent.user = Nobody
BY EmptyQueue DEF Absent, Blobs, Accounts

LEMMA BlobFacts ==
  ASSUME NEW u \in Accounts, NEW q \in Queues
  PROVE  Blob(u, q) \in Blobs /\ Blob(u, q).items = q /\ (q # <<>> => Blob(u, q).user = u)
BY AbsentFacts DEF Blob, Blobs

\* Writing to the storage touches the queue in memory and one of the two writers.
LEMMA CommitFacts ==
  ASSUME Typed, NEW w \in Writers, NEW u \in Accounts, NEW q \in Queues, Commit(w, u, q)
  PROVE  /\ latest' = q /\ shown' = u /\ stored' = stored
         /\ overlap' = (overlap \/ Busy(Other(w))) /\ overlap' \in BOOLEAN
         /\ saving' \in [Writers -> [busy : BOOLEAN, blob : Blobs]]
         /\ Busy(w)' /\ saving'[w].blob = Blob(u, q) /\ saving'[w].blob.items = q
         /\ saving'[Other(w)] = saving[Other(w)] /\ (Busy(Other(w))' <=> Busy(Other(w)))
<1>1. /\ latest' = q /\ shown' = u /\ stored' = stored
      /\ overlap' = (overlap \/ Busy(Other(w)))
      /\ saving' = [saving EXCEPT ![w] = [busy |-> TRUE, blob |-> Blob(u, q)]]
  BY DEF Commit
<1>2. Other(w) \in Writers /\ Other(w) # w
  BY DEF Other, Writers
<1>3. Blob(u, q) \in Blobs /\ Blob(u, q).items = q
  BY BlobFacts
<1>4. saving'[w] = [busy |-> TRUE, blob |-> Blob(u, q)]
  BY <1>1 DEF Typed
<1>5. saving'[Other(w)] = saving[Other(w)]
  BY <1>1, <1>2 DEF Typed
<1>6. saving' \in [Writers -> [busy : BOOLEAN, blob : Blobs]]
  BY <1>1, <1>3 DEF Typed
<1>7. overlap' \in BOOLEAN
  BY <1>1, <1>2 DEF Busy, Typed
<1>8. QED BY <1>1, <1>3, <1>4, <1>5, <1>6, <1>7 DEF Busy

LEMMA WritersFacts ==
  /\ Writers = {"loop", "screen"} /\ Other("loop") = "screen" /\ Other("screen") = "loop"
BY DEF Writers, Other

LEMMA InitShape == Init => Shape
<1> SUFFICES ASSUME Init PROVE Shape
  OBVIOUS
<1>1. Typed
  <2>1. saving \in [Writers -> [busy : BOOLEAN, blob : Blobs]]
    BY AbsentFacts DEF Init
  <2>2. ServerShape
    BY DEF Init, ServerShape
  <2>3. latest \in Queues /\ loop \in Loops /\ stored \in Blobs
    BY EmptyQueue, IdleFacts, AbsentFacts DEF Init
  <2>4. QED BY <2>1, <2>2, <2>3 DEF Init, Typed, Accounts
<1>2. AllInOrder
  BY EmptyQueue, IdleFacts, AbsentFacts DEF Init, AllInOrder
<1>3. HistoryShape
  <2>1. order = <<>> /\ order \in Seq(Ids) /\ DOMAIN order = {} /\ ToSet(order) = {}
    BY EmptyQueue DEF Init
  <2>2. author \in [Ids -> Accounts] /\ \A i \in Ids : author[i] = Nobody
    BY DEF Init, Accounts
  <2>3. refused = {} /\ dropped = {} /\ sentBy = {} /\ \A t \in Threads : late[t] = Nobody
    BY DEF Init
  <2>4. QED BY <2>1, <2>2, <2>3 DEF HistoryShape
<1>4. LoopShape
  <2>1. loop = Idle /\ latest = <<>> /\ ~Busy("loop")
    BY WritersFacts DEF Init, Busy
  <2>2. QED BY <2>1, EmptyQueue, IdleFacts DEF LoopShape
<1>5. QED BY <1>1, <1>2, <1>3, <1>4 DEF Shape

--------------------------------------------------------------------------------
(* The shape is kept.                                                      *)

\* Nothing that a history holds goes, and every queue stays in order.
Grown(old, new) ==
  /\ \A q : InOrder(q, old) => InOrder(q, new)
  /\ \A j, i : Earlier(j, i, old) => Earlier(j, i, new)

LEMMA SameIsGrown == \A o : Grown(o, o)
BY DEF Grown

\* An incident is entered after all the others.
LEMMA EnteredLast ==
  ASSUME NEW o \in Seq(Ids), NEW i \in Ids
  PROVE  /\ Append(o, i) \in Seq(Ids) /\ ToSet(Append(o, i)) = ToSet(o) \cup {i}
         /\ \A j \in ToSet(o) : Earlier(j, i, Append(o, i))
         /\ Grown(o, Append(o, i))
         /\ (\A m, n \in DOMAIN o : o[m] = o[n] => m = n) /\ i \notin ToSet(o)
              => \A m, n \in DOMAIN Append(o, i) : Append(o, i)[m] = Append(o, i)[n] => m = n
<1> DEFINE p == Append(o, i)
<1>1. Len(o) \in Nat /\ DOMAIN o = 1 .. Len(o)
  OBVIOUS
<1>2. /\ p \in Seq(Ids) /\ Len(p) = Len(o) + 1 /\ DOMAIN p = 1 .. (Len(o) + 1)
      /\ p[Len(o) + 1] = i
  BY <1>1
<1>3. \A n \in DOMAIN o : n \in DOMAIN p /\ p[n] = o[n]
  BY <1>1, <1>2
<1>4. \A n \in DOMAIN p : n \in DOMAIN o \/ n = Len(o) + 1
  BY <1>1, <1>2
<1>5. Len(o) + 1 \in DOMAIN p /\ Len(o) + 1 \notin DOMAIN o
  BY <1>1, <1>2
<1> HIDE DEF p
<1>6. ToSet(p) = ToSet(o) \cup {i}
  BY <1>2, <1>3, <1>4, <1>5 DEF ToSet
<1>7. ASSUME NEW j \in ToSet(o) PROVE Earlier(j, i, p)
  <2>1. PICK m \in DOMAIN o : o[m] = j
    BY DEF ToSet
  <2>2. m < Len(o) + 1 /\ m \in DOMAIN p /\ p[m] = j
    BY <1>1, <1>3, <2>1
  <2>3. QED BY <1>2, <1>5, <2>2 DEF Earlier
<1>8. \A j, k : Earlier(j, k, o) => Earlier(j, k, p)
  BY <1>3 DEF Earlier
<1>9. \A q : InOrder(q, o) => InOrder(q, p)
  BY <1>6, <1>8 DEF InOrder, Ordered
<1>10. ASSUME \A m, n \in DOMAIN o : o[m] = o[n] => m = n, i \notin ToSet(o),
              NEW m \in DOMAIN p, NEW n \in DOMAIN p, p[m] = p[n]
       PROVE  m = n
  <2>1. \A k \in DOMAIN o : o[k] # i
    BY <1>10 DEF ToSet
  <2>2. QED BY <1>2, <1>3, <1>4, <1>10, <2>1
<1>11. Grown(o, p)
  BY <1>8, <1>9 DEF Grown
<1>12. (\A m, n \in DOMAIN o : o[m] = o[n] => m = n) /\ i \notin ToSet(o)
              => \A m, n \in DOMAIN p : p[m] = p[n] => m = n
  BY <1>10
<1>13. QED BY <1>2, <1>6, <1>7, <1>11, <1>12 DEF p

\* A screen writes its queue.
LEMMA ScreenShape ==
  ASSUME Shape, NEW q \in Queues, Commit("screen", user, q),
         UNCHANGED <<user, loading, loop>>, ServerShape', HistoryShape',
         \A i \in Ids : rows[i] # 0 => rows'[i] # 0,
         Grown(order, order'), InOrder(q, order'),
         ~Marked(loop) => \A e \in ToSet(q) : e.state # "syncing"
  PROVE  Shape'
<1>1. /\ latest' = q /\ shown' = user /\ stored' = stored /\ overlap' \in BOOLEAN
      /\ saving' \in [Writers -> [busy : BOOLEAN, blob : Blobs]]
      /\ saving'["screen"].blob.items = q /\ saving'["loop"] = saving["loop"]
      /\ Busy("loop")' <=> Busy("loop")
  BY CommitFacts, WritersFacts DEF Shape, Typed
<1>2. Typed'
  BY <1>1 DEF Shape, Typed
<1>3. AllInOrder'
  <2>1. InOrder(stored.items, order') /\ InOrder(loop.copy, order')
        /\ InOrder(saving["loop"].blob.items, order')
    BY WritersFacts DEF Shape, AllInOrder, Grown
  <2>2. \A w \in Writers : InOrder(saving'[w].blob.items, order')
    BY <1>1, <2>1, WritersFacts
  <2>3. QED BY <1>1, <2>1, <2>2 DEF AllInOrder
<1>4. TodoShape(loop, order')
  BY DEF Shape, LoopShape, TodoShape, Grown
<1>5. LoopShape'
  BY <1>1, <1>4 DEF Shape, LoopShape
<1>6. QED BY <1>2, <1>3, <1>5 DEF Shape

\* The loop writes its copy.
LEMMA LoopCommitShape ==
  ASSUME Shape, Commit("loop", loop'.for, loop'.copy),
         UNCHANGED <<user, loading, order>>, ServerShape', HistoryShape',
         loop' \in Loops, loop'.pc \in {"marking", "settling", "stopping"}, loop'.seen = "unread",
         InOrder(loop'.copy, order), TodoShape(loop', order)
  PROVE  Shape'
<1>0. loop'.for \in Accounts /\ loop'.copy \in Queues
  BY DEF Loops
<1>1. /\ latest' = loop'.copy /\ shown' = loop'.for /\ stored' = stored /\ overlap' \in BOOLEAN
      /\ saving' \in [Writers -> [busy : BOOLEAN, blob : Blobs]]
      /\ saving'["loop"].blob.items = loop'.copy /\ saving'["screen"] = saving["screen"]
  BY <1>0, CommitFacts, WritersFacts DEF Shape
<1>2. Typed'
  BY <1>0, <1>1 DEF Shape, Typed
<1>3. AllInOrder'
  <2>1. InOrder(stored.items, order) /\ InOrder(saving["screen"].blob.items, order)
    BY WritersFacts DEF Shape, AllInOrder
  <2>2. \A w \in Writers : InOrder(saving'[w].blob.items, order)
    BY <1>1, <2>1, WritersFacts
  <2>3. QED BY <1>1, <2>1, <2>2 DEF AllInOrder
<1>4. ~Marked(loop') => \A e \in ToSet(loop'.copy) : e.state # "syncing"
  BY DEF TodoShape
<1>5. LoopShape'
  BY <1>1, <1>4 DEF LoopShape
<1>6. QED BY <1>2, <1>3, <1>5 DEF Shape

\* What each step of the screens and of the loop does to the queue it writes.
LEMMA AppendFacts ==
  ASSUME NEW q \in Queues, NEW i \in Ids, NEW o \in Seq(Ids), InOrder(q, o)
  PROVE  /\ Append(q, Item(i, "pending")) \in Queues
         /\ ToSet(Append(q, Item(i, "pending"))) = ToSet(q) \cup {Item(i, "pending")}
         /\ IdsOf(Append(q, Item(i, "pending"))) = IdsOf(q) \cup {i}
         /\ InOrder(Append(q, Item(i, "pending")), Append(o, i))
<1> DEFINE r == Append(q, Item(i, "pending"))
<1>1. Item(i, "pending") \in Items /\ Item(i, "pending").id = i
  BY DEF Item, Items, States
<1>2. Len(q) \in Nat /\ DOMAIN q = 1 .. Len(q) /\ q \in Seq(Items)
  BY QueueShape DEF Queues, Items
<1>3. /\ r \in Seq(Items) /\ Len(r) = Len(q) + 1 /\ DOMAIN r = 1 .. (Len(q) + 1)
      /\ r[Len(q) + 1] = Item(i, "pending")
  BY <1>1, <1>2
<1>4. r \in Queues
  BY <1>3 DEF Queues, Items
<1>5. \A n \in DOMAIN q : n \in DOMAIN r /\ r[n] = q[n]
  BY <1>2, <1>3
<1>6. \A n \in DOMAIN r : n \in DOMAIN q \/ n = Len(q) + 1
  BY <1>2, <1>3
<1>7. Len(q) + 1 \in DOMAIN r
  BY <1>2, <1>3
<1> HIDE DEF r
<1>8. ToSet(r) = ToSet(q) \cup {Item(i, "pending")}
  BY <1>3, <1>5, <1>6, <1>7 DEF ToSet
<1>9. IdsOf(r) = IdsOf(q) \cup {i}
  BY <1>1, <1>8 DEF IdsOf
<1>10. /\ ToSet(Append(o, i)) = ToSet(o) \cup {i} /\ Grown(o, Append(o, i))
       /\ \A j \in ToSet(o) : Earlier(j, i, Append(o, i))
  BY EnteredLast
<1>11. InOrder(q, Append(o, i)) /\ IdsOf(q) \subseteq ToSet(o)
  BY <1>10 DEF Grown, InOrder
<1>12. ASSUME NEW m \in DOMAIN r, NEW n \in DOMAIN r, m < n
       PROVE  Earlier(r[m].id, r[n].id, Append(o, i))
  <2>1. m \in DOMAIN q
    BY <1>2, <1>3, <1>12
  <2>2. r[m].id \in ToSet(o) /\ r[m].id = q[m].id
    BY <1>5, <1>11, <2>1 DEF IdsOf, ToSet
  <2>3. CASE n \in DOMAIN q
    BY <1>5, <1>11, <1>12, <2>1, <2>3 DEF InOrder, Ordered
  <2>4. CASE n = Len(q) + 1
    BY <1>1, <1>3, <1>10, <2>2, <2>4
  <2>5. QED BY <1>6, <2>3, <2>4
<1>13. InOrder(r, Append(o, i))
  BY <1>9, <1>10, <1>11, <1>12 DEF InOrder, Ordered
<1>14. QED BY <1>4, <1>8, <1>9, <1>13 DEF r

\* The queue that a retry writes.
Retried(q, ids) ==
  [k \in DOMAIN q |-> IF q[k].id \in ids /\ q[k].state \in {"failed", "conflict"}
                      THEN Item(q[k].id, "pending") ELSE q[k]]

LEMMA RetriedFacts ==
  ASSUME NEW q \in Queues, NEW ids
  PROVE  /\ Retried(q, ids) \in Queues /\ IdsOf(Retried(q, ids)) = IdsOf(q)
         /\ \A o : InOrder(q, o) => InOrder(Retried(q, ids), o)
         /\ \A e \in ToSet(Retried(q, ids)) : \E d \in ToSet(q) :
              /\ e.id = d.id
              /\ IF d.id \in ids /\ d.state \in {"failed", "conflict"}
                 THEN e.state = "pending" ELSE e.state = d.state
<1> DEFINE r == Retried(q, ids)
<1>1. \A k \in DOMAIN q : q[k] \in Items /\ q[k].id \in Ids
  BY QueueShape
<1>2. ASSUME NEW k \in DOMAIN q
      PROVE  /\ r[k] \in Items /\ r[k].id = q[k].id
             /\ IF q[k].id \in ids /\ q[k].state \in {"failed", "conflict"}
                THEN r[k].state = "pending" ELSE r[k].state = q[k].state
  <2>1. r[k] = IF q[k].id \in ids /\ q[k].state \in {"failed", "conflict"}
               THEN Item(q[k].id, "pending") ELSE q[k]
    BY DEF Retried
  <2>2. /\ Item(q[k].id, "pending") \in Items /\ Item(q[k].id, "pending").id = q[k].id
        /\ Item(q[k].id, "pending").state = "pending"
    BY <1>1 DEF Item, Items, States
  <2>3. QED BY <1>1, <2>1, <2>2
<1>3. r \in [DOMAIN q -> Items] /\ DOMAIN r = DOMAIN q
  BY <1>2 DEF Retried
<1>4. r \in Queues /\ IdsOf(r) = IdsOf(q) /\ (\A o : InOrder(q, o) => InOrder(r, o))
  BY <1>2, <1>3, Mapped
<1> HIDE DEF r
<1>5. \A e \in ToSet(r) : \E k \in DOMAIN q : e = r[k] /\ q[k] \in ToSet(q)
  BY <1>3 DEF ToSet
<1>6. \A e \in ToSet(r) : \E d \in ToSet(q) :
              /\ e.id = d.id
              /\ IF d.id \in ids /\ d.state \in {"failed", "conflict"}
                 THEN e.state = "pending" ELSE e.state = d.state
  BY <1>2, <1>5
<1>7. QED BY <1>4, <1>6 DEF r

LEMMA RetryCommits ==
  ASSUME NEW ids, Retry(ids)
  PROVE  Commit("screen", user, Retried(latest, ids))
BY DEF Retry, Retried

\* The queue that a discard writes.
Left(q, i) == Kept(q, {e \in ToSet(q) : e.id # i \/ ~Discardable(e)})

LEMMA LeftFacts ==
  ASSUME NEW q \in Queues, NEW i
  PROVE  /\ Left(q, i) \in Queues /\ ToSet(Left(q, i)) \subseteq ToSet(q)
         /\ \A o : InOrder(q, o) => InOrder(Left(q, i), o)
         /\ IdsOf(q) \ {i} \subseteq IdsOf(Left(q, i)) /\ IdsOf(Left(q, i)) \subseteq IdsOf(q)
<1>1. /\ Left(q, i) \in Queues
      /\ ToSet(Left(q, i)) = ToSet(q) \cap {e \in ToSet(q) : e.id # i \/ ~Discardable(e)}
      /\ \A o : InOrder(q, o) => InOrder(Left(q, i), o)
  BY KeptInOrder DEF Left
<1>2. \A e \in ToSet(q) : e.id # i => e \in ToSet(Left(q, i))
  BY <1>1
<1>3. QED BY <1>1, <1>2 DEF IdsOf

LEMMA DiscardCommits ==
  ASSUME NEW i, Discard(i)
  PROVE  /\ Commit("screen", user, Left(latest, i))
         /\ dropped' = dropped \cup ({i} \ IdsOf(Left(latest, i)))
BY DEF Discard, Left

\* No incident is entered before itself.
LEMMA NotEarlierThanItself ==
  ASSUME HistoryShape, NEW j, NEW i, Earlier(j, i, order)
  PROVE  j # i
<1>1. order \in Seq(Ids) /\ \A m, n \in DOMAIN order : order[m] = order[n] => m = n
  BY DEF HistoryShape
<1>2. PICK m \in DOMAIN order, n \in DOMAIN order : m < n /\ order[m] = j /\ order[n] = i
  BY DEF Earlier
<1>3. m \in Nat /\ n \in Nat
  BY <1>1
<1>4. m # n
  BY <1>2, <1>3
<1>5. QED BY <1>1, <1>2, <1>4

\* Of two incidents, one was entered before the other.
LEMMA OneBeforeTheOther ==
  ASSUME HistoryShape, NEW j, NEW i, Earlier(j, i, order), Earlier(i, j, order)
  PROVE  FALSE
<1>1. order \in Seq(Ids) /\ \A m, n \in DOMAIN order : order[m] = order[n] => m = n
  BY DEF HistoryShape
<1>2. PICK m \in DOMAIN order, n \in DOMAIN order : m < n /\ order[m] = j /\ order[n] = i
  BY DEF Earlier
<1>3. PICK k \in DOMAIN order, l \in DOMAIN order : k < l /\ order[k] = i /\ order[l] = j
  BY DEF Earlier
<1>4. k = n /\ l = m
  BY <1>1, <1>2, <1>3
<1>5. m \in Nat /\ n \in Nat
  BY <1>1
<1>6. QED BY <1>2, <1>3, <1>4, <1>5

\* What is left to send comes after the incident on its way.
LEMMA NextOnes ==
  ASSUME HistoryShape, NEW l \in Loops, TodoShape(l, order), l.todo # <<>>
  PROVE  /\ Head(l.todo) \in Ids /\ Head(l.todo) \in ToSet(l.todo) /\ Tail(l.todo) \in Seq(Ids)
         /\ ToSet(Tail(l.todo)) = ToSet(l.todo) \ {Head(l.todo)}
         /\ \A j \in ToSet(Tail(l.todo)) : Earlier(Head(l.todo), j, order)
         /\ \A m, n \in DOMAIN Tail(l.todo) : m < n => Earlier(Tail(l.todo)[m], Tail(l.todo)[n], order)
<1> DEFINE t == l.todo
<1>1. t \in Seq(Ids)
  BY DEF Loops
<1>2. /\ Head(t) \in Ids /\ Head(t) \in ToSet(t) /\ Tail(t) \in Seq(Ids)
      /\ Head(t) = t[1] /\ 1 \in DOMAIN t
      /\ \A n \in DOMAIN Tail(t) : n + 1 \in DOMAIN t /\ Tail(t)[n] = t[n + 1]
      /\ ToSet(t) = {Head(t)} \cup ToSet(Tail(t))
  BY <1>1, TailFacts
<1>3. \A m, n \in DOMAIN t : m < n => Earlier(t[m], t[n], order)
  BY DEF TodoShape
<1>4. \A n \in DOMAIN Tail(t) : n \in Nat /\ 1 < n + 1
  BY <1>2
<1>5. ASSUME NEW j \in ToSet(Tail(t)) PROVE Earlier(Head(t), j, order)
  <2>1. PICK n \in DOMAIN Tail(t) : j = Tail(t)[n]
    BY DEF ToSet
  <2>2. QED BY <1>2, <1>3, <1>4, <2>1
<1>6. Head(t) \notin ToSet(Tail(t))
  BY <1>5, NotEarlierThanItself
<1>7. ASSUME NEW m \in DOMAIN Tail(t), NEW n \in DOMAIN Tail(t), m < n
      PROVE  Earlier(Tail(t)[m], Tail(t)[n], order)
  <2>1. m + 1 < n + 1
    BY <1>4, <1>7
  <2>2. QED BY <1>2, <1>3, <2>1
<1> HIDE DEF t
<1>8. ToSet(Tail(t)) = ToSet(t) \ {Head(t)}
  BY <1>2, <1>6
<1>9. QED BY <1>2, <1>5, <1>7, <1>8 DEF t

\* The loop marks the next incident.
LEMMA AdvanceFacts ==
  ASSUME HistoryShape, NEW l \in Loops, TodoShape(l, order), ~Marked(l), InOrder(l.copy, order),
         Advance(l), l.todo # <<>>
  PROVE  /\ loop' \in Loops /\ loop'.pc = "marking" /\ loop'.for = l.for /\ loop'.todo = l.todo
         /\ loop'.seen = l.seen
         /\ loop'.copy = WithState(l.copy, Head(l.todo), "syncing") /\ loop'.sender = l.sender
         /\ Commit("loop", loop'.for, loop'.copy)
         /\ InOrder(loop'.copy, order) /\ TodoShape(loop', order)
         /\ IdsOf(loop'.copy) = IdsOf(l.copy)
<1> DEFINE q == WithState(l.copy, Head(l.todo), "syncing")
<1>1. l.copy \in Queues /\ "syncing" \in States
  BY DEF Loops, States
<1>2. /\ q \in Queues /\ IdsOf(q) = IdsOf(l.copy) /\ (InOrder(l.copy, order) => InOrder(q, order))
      /\ \A e \in ToSet(q) : IF e.id = Head(l.todo) THEN e.state = "syncing" ELSE e \in ToSet(l.copy)
  BY <1>1, WithStateFacts
<1> HIDE DEF q
<1>3. loop' = [[l EXCEPT !.pc = "marking"] EXCEPT !.copy = q] /\ Commit("loop", l.for, q)
  BY DEF Advance, Replace, q
<1>4. /\ loop'.pc = "marking" /\ loop'.for = l.for /\ loop'.todo = l.todo /\ loop'.copy = q
      /\ loop'.sender = l.sender /\ loop'.seen = l.seen
  BY <1>3 DEF Loops
<1>5. loop' \in Loops
  BY <1>2, <1>3 DEF Loops
<1>6. Marked(loop')
  BY <1>4 DEF Marked
<1>7. \A e \in ToSet(q) : e.state = "syncing" <=> e.id = Head(l.todo)
  BY <1>2 DEF TodoShape
<1>8. TodoShape(loop', order)
  BY <1>2, <1>4, <1>6, <1>7 DEF TodoShape
<1>9. QED BY <1>2, <1>3, <1>4, <1>5, <1>8 DEF q

\* An incident is settled, and its place in the copy says how.
LEMMA SettleFacts ==
  ASSUME HistoryShape, loop \in Loops, loop.pc = "sending", TodoShape(loop, order), InOrder(loop.copy, order),
         NEW pc \in {"settling", "stopping"}, NEW q, Settle(pc, q),
         \/ q = Without(loop.copy, Current)
         \/ \E st \in {"failed", "conflict", "pending"} : q = WithState(loop.copy, Current, st)
  PROVE  /\ loop' \in Loops /\ loop'.pc = pc /\ loop'.for = loop.for /\ loop'.todo = Tail(loop.todo)
         /\ loop'.copy = q /\ loop'.sender = Nobody /\ loop'.seen = "unread"
         /\ Commit("loop", loop'.for, loop'.copy)
         /\ InOrder(q, order) /\ TodoShape(loop', order)
         /\ Current \in Ids /\ Current \in ToSet(loop.todo) /\ Current \in IdsOf(loop.copy)
         /\ ToSet(loop'.todo) = ToSet(loop.todo) \ {Current}
<1>1. loop.copy \in Queues /\ loop.todo # <<>> /\ Marked(loop) /\ loop.for \in Accounts
  BY DEF Loops, TodoShape, Marked
<1>2. /\ Current \in Ids /\ Current \in ToSet(loop.todo) /\ Tail(loop.todo) \in Seq(Ids)
      /\ ToSet(Tail(loop.todo)) = ToSet(loop.todo) \ {Current}
      /\ \A m, n \in DOMAIN Tail(loop.todo) :
           m < n => Earlier(Tail(loop.todo)[m], Tail(loop.todo)[n], order)
  BY <1>1, NextOnes DEF Current
<1>3. \A e \in ToSet(loop.copy) : e.state = "syncing" <=> e.id = Current
  BY <1>1 DEF TodoShape, Current
<1>4. /\ q \in Queues /\ InOrder(q, order) /\ \A e \in ToSet(q) : e.state # "syncing"
      /\ IdsOf(loop.copy) \ {Current} \subseteq IdsOf(q)
  <2>1. CASE q = Without(loop.copy, Current)
    <3>1. /\ q \in Queues /\ IdsOf(q) = IdsOf(loop.copy) \ {Current} /\ InOrder(q, order)
          /\ \A e \in ToSet(q) : e \in ToSet(loop.copy) /\ e.id # Current
      BY <1>1, <2>1, WithoutFacts
    <3>2. QED BY <1>3, <3>1
  <2>2. ASSUME NEW st \in {"failed", "conflict", "pending"}, q = WithState(loop.copy, Current, st)
        PROVE  /\ q \in Queues /\ InOrder(q, order) /\ \A e \in ToSet(q) : e.state # "syncing"
               /\ IdsOf(loop.copy) \ {Current} \subseteq IdsOf(q)
    <3>1. st \in States
      BY DEF States
    <3>2. /\ q \in Queues /\ IdsOf(q) = IdsOf(loop.copy) /\ InOrder(q, order)
          /\ \A e \in ToSet(q) : IF e.id = Current THEN e.state = st ELSE e \in ToSet(loop.copy)
      BY <1>1, <2>2, <3>1, WithStateFacts
    <3>3. QED BY <1>3, <3>2
  <2>3. QED BY <2>1, <2>2
<1>5. /\ loop' = [[loop EXCEPT !.pc = pc, !.todo = Tail(@), !.sender = Nobody, !.seen = "unread"]
                    EXCEPT !.copy = q]
      /\ Commit("loop", loop.for, q)
  BY DEF Settle, Replace, Loops
<1>6. /\ loop'.pc = pc /\ loop'.for = loop.for /\ loop'.todo = Tail(loop.todo) /\ loop'.copy = q
      /\ loop'.sender = Nobody /\ loop'.seen = "unread"
  BY <1>5 DEF Loops
<1>7. loop' \in Loops
  BY <1>2, <1>4, <1>5 DEF Loops, Accounts, Seen
<1>8. ~Marked(loop')
  BY <1>6 DEF Marked
<1>9. ToSet(Tail(loop.todo)) \subseteq IdsOf(q)
  BY <1>2, <1>4 DEF TodoShape
<1>10. TodoShape(loop', order)
  BY <1>2, <1>4, <1>6, <1>8, <1>9 DEF TodoShape
<1>11. Current \in IdsOf(loop.copy)
  BY <1>2 DEF TodoShape
<1>12. QED BY <1>2, <1>4, <1>5, <1>6, <1>7, <1>10, <1>11

--------------------------------------------------------------------------------
(* The server.                                                             *)

\* What a call for i in the name of by may do: record i, or go on being served.
Moves(i, by) ==
  /\ ServerShape'
  /\ \A j \in Ids : (j # i => rows'[j] = rows[j]) /\ (rows[j] # 0 => rows'[j] # 0)
  /\ \A p \in sentBy' : p \in sentBy \/ p = <<i, by>>
  /\ \A t \in Threads : late'[t] # Nobody =>
       \/ late'[t].id = i /\ late'[t].by = by
       \/ late[t] # Nobody /\ late'[t].id = late[t].id /\ late'[t].by = late[t].by

LEMMA RecordFacts ==
  ASSUME ServerShape, NEW i \in Ids, NEW by, NEW seen, Record(i, by, seen)
  PROVE  /\ rows' \in [Ids -> Nat] /\ seen \in {"none", "row"}
         /\ rows'[i] = (IF seen = "none" THEN rows[i] + 1 ELSE rows[i])
         /\ \A j \in Ids : j # i => rows'[j] = rows[j]
         /\ \A j \in Ids : rows[j] # 0 => rows'[j] # 0
         /\ sentBy' = sentBy \cup {<<i, by>>}
<1>1. /\ rows \in [Ids -> Nat] /\ rows[i] \in Nat
      /\ rows' = [rows EXCEPT ![i] = IF seen = "none" THEN @ + 1 ELSE @]
      /\ seen \in {"none", "row"} /\ sentBy' = sentBy \cup {<<i, by>>}
  BY DEF ServerShape, Record
<1>2. rows'[i] = (IF seen = "none" THEN rows[i] + 1 ELSE rows[i])
  BY <1>1
<1>3. \A j \in Ids : j # i => rows'[j] = rows[j]
  BY <1>1
<1>4. rows' \in [Ids -> Nat]
  BY <1>1
<1>5. rows[i] # 0 => rows'[i] # 0
  BY <1>1, <1>2
<1>6. QED BY <1>1, <1>2, <1>3, <1>4, <1>5

\* Moves, from what a step does to the rows, to their senders and to the calls still served.
LEMMA MovesBy ==
  ASSUME NEW i, NEW by, ServerShape',
         \A j \in Ids : (j # i => rows'[j] = rows[j]) /\ (rows[j] # 0 => rows'[j] # 0),
         \A p \in sentBy' : p \in sentBy \/ p = <<i, by>>,
         NEW t \in Threads, \A x \in Threads : x # t => late'[x] = late[x],
         late'[t] = Nobody \/ (late'[t].id = i /\ late'[t].by = by)
  PROVE  Moves(i, by)
<1>1. ASSUME NEW x \in Threads, late'[x] # Nobody
      PROVE  \/ late'[x].id = i /\ late'[x].by = by
             \/ late[x] # Nobody /\ late'[x].id = late[x].id /\ late'[x].by = late[x].by
  <2>1. CASE x = t
    BY <1>1, <2>1
  <2>2. CASE x # t
    BY <1>1, <2>2
  <2>3. QED BY <2>1, <2>2
<1>2. QED BY <1>1 DEF Moves

LEMMA GivenUpFacts ==
  ASSUME ServerShape, NEW i \in Ids, NEW by \in Users, NEW seen, GivenUp(i, by, seen)
  PROVE  Moves(i, by)
<1>1. CASE UNCHANGED <<server, sentBy>>
  BY <1>1 DEF Moves, ServerShape, server
<1>2. CASE Record(i, by, seen) /\ UNCHANGED late
  BY <1>2, RecordFacts DEF Moves, ServerShape
<1>3. ASSUME seen \in Seen, UNCHANGED <<rows, sentBy>>, NEW t \in Threads,
             late' = [late EXCEPT ![t] = [id |-> i, by |-> by, seen |-> seen]]
      PROVE  Moves(i, by)
  <2>1. [id |-> i, by |-> by, seen |-> seen] \in Calls
    BY <1>3 DEF Calls
  <2>2. late \in [Threads -> Calls \cup {Nobody}]
    BY DEF ServerShape
  <2>3. late' \in [Threads -> Calls \cup {Nobody}] /\ late'[t] = [id |-> i, by |-> by, seen |-> seen]
        /\ \A x \in Threads : x # t => late'[x] = late[x]
    BY <1>3, <2>1, <2>2
  <2>4. late'[t].id = i /\ late'[t].by = by
    BY <2>3
  <2>5. QED BY <1>3, <2>3, <2>4 DEF Moves, ServerShape
<1>4. QED BY <1>1, <1>2, <1>3 DEF GivenUp

LEMMA LateFacts ==
  ASSUME ServerShape, NEW t \in Threads, LateLookup(t) \/ LateWrite(t)
  PROVE  /\ late[t] # Nobody /\ late[t] \in Calls /\ late[t].id \in Ids
         /\ Moves(late[t].id, late[t].by)
         /\ UNCHANGED <<user, latest, shown, loading, loop, saving, overlap, stored, author, order,
                        refused, dropped, crossed, exposed>>
<1>1. /\ late[t] # Nobody
      /\ UNCHANGED <<user, latest, shown, loading, loop, saving, overlap, stored, author, order,
                     refused, dropped, crossed, exposed>>
  BY DEF LateLookup, LateWrite, device, storage, history
<1>2. late \in [Threads -> Calls \cup {Nobody}] /\ late[t] \in Calls /\ late[t].id \in Ids
  BY <1>1 DEF ServerShape, Calls
<1>3. CASE LateLookup(t)
  <2>1. /\ UNCHANGED <<rows, sentBy>>
        /\ \/ late' = [late EXCEPT ![t].seen = Found(late[t].id)] /\ Found(late[t].id) \in Seen
           \/ late' = [late EXCEPT ![t] = Nobody]
    BY <1>3 DEF LateLookup, history
  <2>2. CASE late' = [late EXCEPT ![t] = Nobody]
    <3>1. late' \in [Threads -> Calls \cup {Nobody}] /\ late'[t] = Nobody
          /\ \A x \in Threads : x # t => late'[x] = late[x]
      BY <1>2, <2>2
    <3>2. ServerShape'
      BY <2>1, <3>1 DEF ServerShape
    <3>3. \A j \in Ids : (j # late[t].id => rows'[j] = rows[j]) /\ (rows[j] # 0 => rows'[j] # 0)
      BY <2>1
    <3>4. \A p \in sentBy' : p \in sentBy \/ p = <<late[t].id, late[t].by>>
      BY <2>1
    <3>5. QED BY <1>1, <1>2, <3>1, <3>2, <3>3, <3>4, MovesBy
  <2>3. CASE late' = [late EXCEPT ![t].seen = Found(late[t].id)] /\ Found(late[t].id) \in Seen
    <3>1. [late[t] EXCEPT !.seen = Found(late[t].id)] \in Calls
      BY <1>2, <2>3 DEF Calls
    <3>2. late' = [late EXCEPT ![t] = [late[t] EXCEPT !.seen = Found(late[t].id)]]
      BY <2>3
    <3>3. late' \in [Threads -> Calls \cup {Nobody}]
          /\ late'[t] = [late[t] EXCEPT !.seen = Found(late[t].id)]
          /\ \A x \in Threads : x # t => late'[x] = late[x]
      BY <1>2, <3>1, <3>2
    <3>4. late'[t].id = late[t].id /\ late'[t].by = late[t].by
      BY <1>2, <3>3 DEF Calls
    <3>5. ServerShape'
      BY <2>1, <3>3 DEF ServerShape
    <3>6. \A j \in Ids : (j # late[t].id => rows'[j] = rows[j]) /\ (rows[j] # 0 => rows'[j] # 0)
      BY <2>1
    <3>7. \A p \in sentBy' : p \in sentBy \/ p = <<late[t].id, late[t].by>>
      BY <2>1
    <3>8. QED BY <1>1, <1>2, <3>3, <3>4, <3>5, <3>6, <3>7, MovesBy
  <2>4. QED BY <2>1, <2>2, <2>3
<1>4. CASE LateWrite(t)
  <2>1. Record(late[t].id, late[t].by, late[t].seen) /\ late' = [late EXCEPT ![t] = Nobody]
    BY <1>4 DEF LateWrite
  <2>2. late' \in [Threads -> Calls \cup {Nobody}] /\ late'[t] = Nobody
        /\ \A x \in Threads : x # t => late'[x] = late[x]
    BY <1>2, <2>1
  <2>3. /\ rows' \in [Ids -> Nat]
        /\ \A j \in Ids : (j # late[t].id => rows'[j] = rows[j]) /\ (rows[j] # 0 => rows'[j] # 0)
        /\ sentBy' = sentBy \cup {<<late[t].id, late[t].by>>}
    BY <1>2, <2>1, RecordFacts
  <2>4. ServerShape'
    BY <2>2, <2>3 DEF ServerShape
  <2>5. \A p \in sentBy' : p \in sentBy \/ p = <<late[t].id, late[t].by>>
    BY <2>3
  <2>6. QED BY <1>1, <1>2, <2>2, <2>3, <2>4, <2>5, MovesBy
<1>5. QED BY <1>1, <1>2, <1>3, <1>4

\* The incident of the call of the loop was entered, and the call is made for an account.
LEMMA CallFacts ==
  ASSUME Shape, loop.pc = "sending"
  PROVE  /\ Current \in Ids /\ Current \in ToSet(loop.todo) /\ Current \in IdsOf(loop.copy)
         /\ Current \in ToSet(order) /\ (Served => loop.sender \in Users)
<1>1. /\ loop \in Loops /\ TodoShape(loop, order) /\ InOrder(loop.copy, order) /\ HistoryShape
      /\ ServerShape
  BY DEF Shape, Typed, AllInOrder, LoopShape
<1>2. loop.todo # <<>>
  BY <1>1 DEF TodoShape, Marked
<1>3. Current \in Ids /\ Current \in ToSet(loop.todo)
  BY <1>1, <1>2, NextOnes DEF Current
<1>4. Current \in IdsOf(loop.copy)
  BY <1>1, <1>3 DEF TodoShape
<1>5. Current \in ToSet(order)
  BY <1>1, <1>4 DEF InOrder
<1>6. Served => loop.sender \in Users
  BY <1>1 DEF Served, Loops, Accounts
<1>7. QED BY <1>3, <1>4, <1>5, <1>6

\* What the end of the call of the loop may have done on the server.
Ended == UNCHANGED <<rows, late, sentBy>> \/ (Served /\ Moves(Current, loop.sender))

LEMMA CutFacts ==
  ASSUME Shape, Cut
  PROVE  Ended
<1>1. CASE ~Served
  BY <1>1 DEF Cut, Ended, server
<1>2. CASE Served
  <2>1. GivenUp(Current, loop.sender, loop.seen)
    BY <1>2 DEF Cut
  <2>2. Current \in Ids /\ loop.sender \in Users /\ ServerShape
    BY <1>2, CallFacts DEF Served, Shape, Typed
  <2>3. QED BY <1>2, <2>1, <2>2, GivenUpFacts DEF Ended
<1>3. QED BY <1>1, <1>2

\* What the server records and still serves was entered.
LEMMA MovedHistory ==
  ASSUME HistoryShape, NEW i, NEW by, NEW o, ToSet(order) \subseteq ToSet(o), i \in ToSet(o),
         Moves(i, by)
  PROVE  /\ \A p \in sentBy' : p[1] \in ToSet(o)
         /\ \A t \in Threads : late'[t] # Nobody => late'[t].id \in ToSet(o)
<1>1. /\ \A p \in sentBy : p[1] \in ToSet(order)
      /\ \A t \in Threads : late[t] # Nobody => late[t].id \in ToSet(order)
  BY DEF HistoryShape
<1>2. /\ \A p \in sentBy' : p \in sentBy \/ p = <<i, by>>
      /\ \A t \in Threads : late'[t] # Nobody =>
           \/ late'[t].id = i /\ late'[t].by = by
           \/ late[t] # Nobody /\ late'[t].id = late[t].id /\ late'[t].by = late[t].by
  BY DEF Moves
<1>3. QED BY <1>1, <1>2

LEMMA EndedShape ==
  ASSUME Shape, Ended, UNCHANGED <<author, order, dropped>>, refused' \subseteq ToSet(order)
  PROVE  ServerShape' /\ HistoryShape'
<1>1. CASE UNCHANGED <<rows, late, sentBy>>
  BY <1>1 DEF Shape, Typed, ServerShape, HistoryShape
<1>2. CASE Served /\ Moves(Current, loop.sender)
  <2>1. Current \in ToSet(order)
    BY <1>2, CallFacts DEF Served
  <2>2. ServerShape'
    BY <1>2 DEF Moves
  <2>3. /\ \A p \in sentBy' : p[1] \in ToSet(order)
        /\ \A t \in Threads : late'[t] # Nobody => late'[t].id \in ToSet(order)
    BY <1>2, <2>1, MovedHistory DEF Shape
  <2>4. QED BY <2>2, <2>3 DEF Shape, HistoryShape
<1>3. QED BY <1>1, <1>2 DEF Ended

--------------------------------------------------------------------------------
(* The steps.                                                              *)

\* The steps of the screens.
LEMMA SubmitShape ==
  ASSUME Shape, NEW i \in Ids, Submit(i)
  PROVE  Shape'
<1> DEFINE q == Append(latest, Item(i, "pending"))
<1>1. /\ user # Nobody /\ author[i] = Nobody /\ Commit("screen", user, q)
      /\ \E seen \in {"unread", Found(i)} : GivenUp(i, user, seen)
      /\ author' = [author EXCEPT ![i] = user] /\ order' = Append(order, i)
      /\ UNCHANGED <<user, loading, loop, refused, dropped>>
  BY DEF Submit, Enabled
<1>2. /\ order \in Seq(Ids) /\ latest \in Queues /\ InOrder(latest, order) /\ user \in Accounts
      /\ user \in Users /\ ServerShape /\ author \in [Ids -> Accounts] /\ i \notin ToSet(order)
  BY <1>1 DEF Shape, Typed, AllInOrder, HistoryShape, Accounts
<1>3. /\ q \in Queues /\ ToSet(q) = ToSet(latest) \cup {Item(i, "pending")}
      /\ InOrder(q, order')
  BY <1>1, <1>2, AppendFacts
<1>4. /\ order' \in Seq(Ids) /\ ToSet(order') = ToSet(order) \cup {i} /\ Grown(order, order')
      /\ \A m, n \in DOMAIN order' : order'[m] = order'[n] => m = n
  BY <1>1, <1>2, EnteredLast DEF Shape, HistoryShape
<1>5. Moves(i, user)
  BY <1>1, <1>2, GivenUpFacts
<1>6. HistoryShape'
  <2>1. author' \in [Ids -> Accounts] /\ author'[i] = user
        /\ \A j \in Ids : j # i => author'[j] = author[j]
    BY <1>1, <1>2
  <2>2. \A j \in Ids : author'[j] # Nobody <=> j \in ToSet(order')
    BY <1>1, <1>4, <2>1 DEF Shape, HistoryShape
  <2>3. /\ \A p \in sentBy' : p[1] \in ToSet(order')
        /\ \A t \in Threads : late'[t] # Nobody => late'[t].id \in ToSet(order')
    BY <1>4, <1>5, MovedHistory DEF Shape
  <2>4. refused' \cup dropped' \subseteq ToSet(order')
    BY <1>1, <1>4 DEF Shape, HistoryShape
  <2>5. QED BY <1>4, <2>1, <2>2, <2>3, <2>4 DEF HistoryShape
<1>7. ~Marked(loop) => \A e \in ToSet(q) : e.state # "syncing"
  BY <1>3 DEF Shape, LoopShape, Item
<1>8. ServerShape' /\ \A j \in Ids : rows[j] # 0 => rows'[j] # 0
  BY <1>5 DEF Moves
<1> HIDE DEF q
<1>9. QED BY <1>1, <1>3, <1>4, <1>6, <1>7, <1>8, ScreenShape

LEMMA DiscardShape ==
  ASSUME Shape, NEW i \in Ids, Discard(i)
  PROVE  Shape'
<1> DEFINE q == Left(latest, i)
<1>1. /\ i \in IdsOf(latest) /\ UNCHANGED <<user, loading, loop, rows, late, author, order, refused, sentBy>>
      /\ Commit("screen", user, q) /\ dropped' = dropped \cup ({i} \ IdsOf(q))
  BY DiscardCommits DEF Discard, server
<1>2. latest \in Queues /\ InOrder(latest, order) /\ IdsOf(latest) \subseteq ToSet(order)
  BY DEF Shape, Typed, AllInOrder, InOrder
<1>3. q \in Queues /\ InOrder(q, order) /\ ToSet(q) \subseteq ToSet(latest)
  BY <1>2, LeftFacts
<1> HIDE DEF q
<1>4. HistoryShape'
  BY <1>1, <1>2 DEF Shape, HistoryShape
<1>5. /\ Grown(order, order') /\ InOrder(q, order') /\ ServerShape'
      /\ \A j \in Ids : rows[j] # 0 => rows'[j] # 0
  BY <1>1, <1>3, SameIsGrown DEF Shape, Typed, ServerShape
<1>6. ~Marked(loop) => \A e \in ToSet(q) : e.state # "syncing"
  BY <1>3 DEF Shape, LoopShape
<1>7. QED BY <1>1, <1>3, <1>4, <1>5, <1>6, ScreenShape

LEMMA RetryShape ==
  ASSUME Shape, NEW ids, Retry(ids)
  PROVE  Shape'
<1> DEFINE q == Retried(latest, ids)
<1>1. /\ UNCHANGED <<user, loading, loop, rows, late, author, order, dropped, sentBy>>
      /\ Commit("screen", user, q) /\ refused' = refused \ ids
  BY RetryCommits DEF Retry, server
<1>2. latest \in Queues /\ InOrder(latest, order)
  BY DEF Shape, Typed, AllInOrder
<1>3. /\ q \in Queues /\ InOrder(q, order)
      /\ \A e \in ToSet(q) : \E d \in ToSet(latest) : e.state = "pending" \/ e.state = d.state
  BY <1>2, RetriedFacts
<1> HIDE DEF q
<1>4. HistoryShape'
  BY <1>1 DEF Shape, HistoryShape
<1>5. /\ Grown(order, order') /\ InOrder(q, order') /\ ServerShape'
      /\ \A j \in Ids : rows[j] # 0 => rows'[j] # 0
  BY <1>1, <1>3, SameIsGrown DEF Shape, Typed, ServerShape
<1>6. ~Marked(loop) => \A e \in ToSet(q) : e.state # "syncing"
  BY <1>3 DEF Shape, LoopShape
<1>7. QED BY <1>1, <1>3, <1>4, <1>5, <1>6, ScreenShape

\* The steps of the loop.
Started(u, q, t) == [Idle EXCEPT !.for = u, !.copy = q, !.todo = t]

LEMMA StartedFacts ==
  ASSUME NEW u \in Accounts, NEW q \in Queues, NEW t \in Seq(Ids)
  PROVE  /\ Started(u, q, t) \in Loops /\ Started(u, q, t).pc = "idle" /\ Started(u, q, t).for = u
         /\ Started(u, q, t).todo = t /\ Started(u, q, t).copy = q /\ Started(u, q, t).sender = Nobody
         /\ Started(u, q, t).seen = "unread"
BY DEF Started, Idle, Loops, Accounts, Seen

LEMMA StartShape ==
  ASSUME Shape, StartSync
  PROVE  /\ Shape' /\ loop = Idle /\ shown = user /\ user # Nobody
         /\ loop'.pc = "marking" /\ loop'.for = user /\ loop'.sender = Nobody
         /\ loop'.copy = WithState(latest, Head(loop'.todo), "syncing")
         /\ IdsOf(loop'.copy) = IdsOf(latest)
         /\ ToSet(loop'.todo) = {e.id : e \in {x \in ToSet(latest) : x.state = "pending"}}
         /\ Commit("loop", loop'.for, loop'.copy)
         /\ \A e \in ToSet(latest) : e.state # "syncing"
<1> DEFINE todo == [k \in DOMAIN Pending(latest) |-> Pending(latest)[k].id]
           l == Started(user, latest, todo)
<1>1. /\ user # Nobody /\ shown = user /\ loop = Idle /\ Pending(latest) # <<>> /\ Advance(l)
      /\ UNCHANGED <<user, loading, rows, late, author, order, refused, dropped, sentBy>>
  BY DEF StartSync, Started, server
<1>2. latest \in Queues /\ InOrder(latest, order) /\ user \in Accounts /\ Nobody \in Accounts
  BY DEF Shape, Typed, AllInOrder, Accounts
<1>3. /\ todo \in Seq(Ids) /\ todo # <<>>
      /\ ToSet(todo) = {e.id : e \in {x \in ToSet(latest) : x.state = "pending"}}
      /\ \A m, n \in DOMAIN todo : m < n => Earlier(todo[m], todo[n], order)
  BY <1>1, <1>2, PendingFacts
<1> HIDE DEF todo
<1>4. /\ l \in Loops /\ l.pc = "idle" /\ l.for = user /\ l.todo = todo /\ l.copy = latest
      /\ l.sender = Nobody /\ l.seen = "unread"
  BY <1>2, <1>3, StartedFacts
<1> HIDE DEF l
<1>6. ~Marked(l) /\ ~Marked(loop)
  BY <1>1, <1>4, IdleFacts DEF Marked
<1>7. \A e \in ToSet(latest) : e.state # "syncing"
  BY <1>6 DEF Shape, LoopShape
<1>8. ToSet(todo) \subseteq IdsOf(latest)
  BY <1>3 DEF IdsOf
<1>9. TodoShape(l, order)
  BY <1>3, <1>4, <1>6, <1>7, <1>8 DEF TodoShape
<1>10. /\ loop' \in Loops /\ loop'.pc = "marking" /\ loop'.for = user /\ loop'.todo = todo
       /\ loop'.copy = WithState(latest, Head(todo), "syncing") /\ loop'.sender = Nobody
       /\ loop'.seen = "unread"
       /\ Commit("loop", loop'.for, loop'.copy)
       /\ InOrder(loop'.copy, order) /\ TodoShape(loop', order) /\ IdsOf(loop'.copy) = IdsOf(latest)
  BY <1>1, <1>2, <1>3, <1>4, <1>6, <1>9, AdvanceFacts DEF Shape
<1>11. HistoryShape' /\ ServerShape'
  BY <1>1 DEF Shape, HistoryShape, Typed, ServerShape
<1>12. Shape'
  BY <1>1, <1>10, <1>11, LoopCommitShape
<1>13. QED BY <1>1, <1>3, <1>7, <1>10, <1>12

\* A step that settles the incident on its way.
Settling == Accepted \/ Unanswered \/ \E st \in {"failed", "conflict"} : Refused(st)

LEMMA SettlingShape ==
  ASSUME Shape, Settling
  PROVE  /\ Shape' /\ loop.pc = "sending" /\ loop'.for = loop.for
         /\ loop'.pc \in {"settling", "stopping"} /\ loop'.sender = Nobody
         /\ Commit("loop", loop'.for, loop'.copy)
         /\ Current \in Ids /\ Current \in ToSet(loop.todo) /\ Current \in IdsOf(loop.copy)
         /\ ToSet(loop'.todo) = ToSet(loop.todo) \ {Current}
         /\ UNCHANGED <<user, loading, author, order, dropped>>
         /\ exposed' = exposed \cup (IF Busy("screen") THEN OnPhone ELSE {})
         /\ Ended /\ loop'.seen = "unread" /\ crossed' = crossed
         /\ \/ /\ loop'.pc = "settling" /\ loop'.copy = Without(loop.copy, Current)
               /\ Record(Current, loop.sender, loop.seen) /\ refused' = refused
            \/ /\ loop'.pc = "settling" /\ refused' = refused \cup {Current}
               /\ \E st \in {"failed", "conflict"} : loop'.copy = WithState(loop.copy, Current, st)
            \/ /\ loop'.pc = "stopping" /\ refused' = refused
               /\ loop'.copy = WithState(loop.copy, Current, "pending")
<1>1. /\ loop \in Loops /\ TodoShape(loop, order) /\ InOrder(loop.copy, order) /\ HistoryShape
  BY DEF Shape, Typed, AllInOrder, LoopShape
<1>2. loop.pc = "sending"
  BY DEF Settling, Accepted, Refused, Unanswered, Served
<1>3. \/ /\ Settle("settling", Without(loop.copy, Current))
         /\ Record(Current, loop.sender, loop.seen) /\ refused' = refused
      \/ /\ \E st \in {"failed", "conflict"} : Settle("settling", WithState(loop.copy, Current, st))
         /\ refused' = refused \cup {Current}
      \/ /\ Settle("stopping", WithState(loop.copy, Current, "pending"))
         /\ refused' = refused
  BY DEF Settling, Accepted, Refused, Unanswered, AfterFailure
<1>4. \E pc \in {"settling", "stopping"} : \E q : Settle(pc, q)
  BY <1>3
<1>5. /\ UNCHANGED <<user, loading, author, order, dropped, crossed>>
      /\ exposed' = exposed \cup (IF Busy("screen") THEN OnPhone ELSE {})
  BY <1>4 DEF Settle
<1>6. ASSUME NEW pc \in {"settling", "stopping"}, NEW q, Settle(pc, q),
             \/ q = Without(loop.copy, Current)
             \/ \E st \in {"failed", "conflict", "pending"} : q = WithState(loop.copy, Current, st)
      PROVE  /\ loop' \in Loops /\ loop'.pc = pc /\ loop'.for = loop.for /\ loop'.todo = Tail(loop.todo)
             /\ loop'.copy = q /\ loop'.sender = Nobody /\ loop'.seen = "unread"
             /\ Commit("loop", loop'.for, loop'.copy)
             /\ InOrder(loop'.copy, order) /\ TodoShape(loop', order)
             /\ Current \in Ids /\ Current \in ToSet(loop.todo) /\ Current \in IdsOf(loop.copy)
             /\ ToSet(loop'.todo) = ToSet(loop.todo) \ {Current}
  BY <1>1, <1>2, <1>6, SettleFacts
<1>7. /\ loop' \in Loops /\ loop'.for = loop.for /\ loop'.sender = Nobody /\ loop'.seen = "unread"
      /\ Commit("loop", loop'.for, loop'.copy)
      /\ InOrder(loop'.copy, order) /\ TodoShape(loop', order)
      /\ Current \in Ids /\ Current \in ToSet(loop.todo) /\ Current \in IdsOf(loop.copy)
      /\ ToSet(loop'.todo) = ToSet(loop.todo) \ {Current}
      /\ loop'.pc \in {"settling", "stopping"}
  BY <1>3, <1>6
<1>8. \/ /\ loop'.pc = "settling" /\ loop'.copy = Without(loop.copy, Current)
         /\ Record(Current, loop.sender, loop.seen) /\ refused' = refused
      \/ /\ loop'.pc = "settling" /\ refused' = refused \cup {Current}
         /\ \E st \in {"failed", "conflict"} : loop'.copy = WithState(loop.copy, Current, st)
      \/ /\ loop'.pc = "stopping" /\ refused' = refused
         /\ loop'.copy = WithState(loop.copy, Current, "pending")
  BY <1>3, <1>6
<1>9. Ended
  <2>1. CASE Accepted
    <3>1. Served /\ Record(Current, loop.sender, loop.seen) /\ UNCHANGED late
      BY <2>1 DEF Accepted
    <3>2. ServerShape
      BY DEF Shape, Typed
    <3>3. Moves(Current, loop.sender)
      BY <1>7, <3>1, <3>2, RecordFacts DEF Moves, ServerShape
    <3>4. QED BY <3>1, <3>3 DEF Ended
  <2>2. CASE Unanswered
    BY <2>2, CutFacts DEF Unanswered
  <2>3. CASE \E st \in {"failed", "conflict"} : Refused(st)
    BY <2>3 DEF Refused, Ended, server
  <2>4. QED BY <2>1, <2>2, <2>3 DEF Settling
<1>10. Current \in ToSet(order)
  BY <1>1, <1>7 DEF InOrder
<1>11. refused' \subseteq ToSet(order)
  BY <1>1, <1>8, <1>10 DEF HistoryShape
<1>12. ServerShape' /\ HistoryShape'
  BY <1>5, <1>9, <1>11, EndedShape
<1>13. Shape'
  BY <1>5, <1>7, <1>12, LoopCommitShape
<1>14. QED BY <1>2, <1>5, <1>7, <1>8, <1>9, <1>13

\* The loop goes on with what is left, or ends.
LEMMA ContinueShape ==
  ASSUME Shape, Continue
  PROVE  /\ Shape' /\ loop.pc \in {"settling", "stopping"} /\ ~Busy("loop")
         /\ UNCHANGED <<user, loading, rows, late, author, order, refused, dropped, sentBy>>
         /\ \/ /\ loop' = Idle /\ (loop.pc = "stopping" \/ loop.todo = <<>>)
               /\ UNCHANGED <<latest, shown, storage>> /\ exposed' = exposed
            \/ /\ loop.pc = "settling" /\ loop.todo # <<>>
               /\ loop'.pc = "marking" /\ loop'.for = loop.for /\ loop'.todo = loop.todo
               /\ loop'.copy = WithState(loop.copy, Head(loop.todo), "syncing")
               /\ IdsOf(loop'.copy) = IdsOf(loop.copy)
               /\ Commit("loop", loop'.for, loop'.copy)
               /\ exposed' = exposed \cup (IF Busy("screen") THEN OnPhone ELSE {})
<1> DEFINE l == [loop EXCEPT !.todo = Remaining(loop)]
<1>1. /\ loop.pc \in {"settling", "stopping"} /\ ~Busy("loop") /\ Advance(l)
      /\ exposed' = exposed \cup (IF Busy("screen") /\ loop'.pc # "idle" THEN OnPhone ELSE {})
      /\ UNCHANGED <<user, loading, rows, late, author, order, refused, dropped, sentBy>>
  BY DEF Continue, server
<1>2. loop \in Loops /\ InOrder(loop.copy, order) /\ TodoShape(loop, order) /\ HistoryShape
  BY DEF Shape, Typed, AllInOrder, LoopShape
<1>3. Remaining(loop) \in Seq(Ids) /\ (Remaining(loop) = loop.todo \/ Remaining(loop) = <<>>)
  BY <1>2 DEF Remaining, Loops
<1>4. l \in Loops /\ l.pc = loop.pc /\ l.for = loop.for /\ l.copy = loop.copy /\ l.sender = loop.sender
      /\ l.todo = Remaining(loop) /\ l.seen = loop.seen /\ loop.seen = "unread"
  BY <1>1, <1>2, <1>3 DEF Loops, Shape, LoopShape
<1>5. HistoryShape' /\ ServerShape'
  BY <1>1 DEF Shape, HistoryShape, Typed, ServerShape
<1> HIDE DEF l
<1>6. CASE l.todo = <<>>
  <2>1. loop' = Idle /\ UNCHANGED <<latest, shown, storage>>
    BY <1>1, <1>6 DEF Advance
  <2>2. exposed' = exposed
    BY <1>1, <2>1, IdleFacts
  <2>3. loop.pc = "stopping" \/ loop.todo = <<>>
    BY <1>4, <1>6 DEF Remaining
  <2>4. Typed'
    BY <1>1, <2>1, IdleFacts DEF Shape, Typed, ServerShape, storage
  <2>5. AllInOrder'
    BY <1>1, <2>1, IdleFacts DEF Shape, AllInOrder, storage
  <2>6. LoopShape'
    <3>1. ~Marked(loop) /\ ~Marked(loop') /\ TodoShape(loop', order) /\ latest' = latest
      BY <1>1, <2>1, IdleFacts DEF Marked
    <3>2. ~Busy("loop")'
      BY <1>1, <2>1 DEF Busy, storage
    <3>3. loop'.pc = "idle" /\ loop'.seen = "unread" /\ ToSet(latest) = ToSet(latest')
      BY <2>1, IdleFacts
    <3>4. QED BY <1>1, <2>1, <3>1, <3>2, <3>3 DEF LoopShape, Shape
  <2>7. QED BY <1>1, <1>5, <2>1, <2>2, <2>3, <2>4, <2>5, <2>6 DEF Shape
<1>7. CASE l.todo # <<>>
  <2>1. loop.pc = "settling" /\ l.todo = loop.todo
    BY <1>1, <1>3, <1>4, <1>7 DEF Remaining
  <2>2. ~Marked(loop) /\ ~Marked(l)
    BY <1>4, <2>1 DEF Marked
  <2>3. TodoShape(l, order)
    BY <1>2, <1>4, <2>1, <2>2 DEF TodoShape
  <2>4. /\ loop' \in Loops /\ loop'.pc = "marking" /\ loop'.for = loop.for /\ loop'.todo = loop.todo
        /\ loop'.seen = "unread"
        /\ loop'.copy = WithState(loop.copy, Head(loop.todo), "syncing")
        /\ Commit("loop", loop'.for, loop'.copy)
        /\ InOrder(loop'.copy, order) /\ TodoShape(loop', order) /\ IdsOf(loop'.copy) = IdsOf(loop.copy)
    BY <1>1, <1>2, <1>4, <1>7, <2>1, <2>2, <2>3, AdvanceFacts
  <2>5. exposed' = exposed \cup (IF Busy("screen") THEN OnPhone ELSE {})
    BY <1>1, <2>4
  <2>6. Shape'
    BY <1>1, <1>5, <2>4, LoopCommitShape
  <2>7. QED BY <1>1, <1>7, <2>1, <2>4, <2>5, <2>6
<1>8. QED BY <1>6, <1>7

\* The request leaves, in the name of the account signed in, and the server looks for its row.
Calling == Send \/ SendAgain \/ Lookup

LEMMA CallingFacts ==
  ASSUME loop \in Loops, user \in Accounts, Calling
  PROVE  /\ loop.pc \in {"marking", "sending"} /\ loop' \in Loops /\ loop'.pc = "sending"
         /\ loop'.for = loop.for /\ loop'.todo = loop.todo /\ loop'.copy = loop.copy
         /\ loop'.sender = user \/ (loop.pc = "sending" /\ loop'.sender = loop.sender)
         /\ loop'.seen = loop.seen \/ loop'.seen = Found(Current)
         /\ ~Busy("loop") \/ loop.pc = "sending"
<1>1. CASE Send
  <2>1. loop.pc = "marking" /\ ~Busy("loop") /\ loop' = [loop EXCEPT !.pc = "sending", !.sender = user]
    BY <1>1 DEF Send
  <2>2. QED BY <2>1 DEF Loops
<1>2. CASE SendAgain
  <2>1. loop.pc = "sending" /\ loop' = [loop EXCEPT !.sender = user]
    BY <1>2 DEF SendAgain, Served
  <2>2. QED BY <2>1 DEF Loops
<1>3. CASE Lookup
  <2>1. loop.pc = "sending" /\ loop' = [loop EXCEPT !.seen = Found(Current)]
    BY <1>3 DEF Lookup, Served
  <2>2. Found(Current) \in Seen \cup {"several"}
    BY DEF Found, Seen
  <2>3. QED BY <2>1, <2>2 DEF Loops
<1>4. QED BY <1>1, <1>2, <1>3 DEF Calling

LEMMA SendShape ==
  ASSUME Shape, Calling
  PROVE  /\ Shape' /\ loop.pc \in {"marking", "sending"} /\ loop'.pc = "sending"
         /\ loop'.for = loop.for /\ loop'.todo = loop.todo /\ loop'.copy = loop.copy
         /\ loop'.sender = user \/ (loop.pc = "sending" /\ loop'.sender = loop.sender)
         /\ UNCHANGED <<user, latest, shown, loading, saving, overlap, stored, rows, late, author, order,
                        refused, dropped, sentBy, exposed>>
<1>1. UNCHANGED <<user, latest, shown, loading, saving, overlap, stored, rows, late, author, order,
                  refused, dropped, sentBy, exposed>>
  BY DEF Calling, Send, SendAgain, Lookup, storage, server, history
<1>2. loop \in Loops /\ user \in Accounts
  BY DEF Shape, Typed
<1>3. /\ loop.pc \in {"marking", "sending"} /\ loop' \in Loops /\ loop'.pc = "sending"
      /\ loop'.for = loop.for /\ loop'.todo = loop.todo /\ loop'.copy = loop.copy
      /\ loop'.sender = user \/ (loop.pc = "sending" /\ loop'.sender = loop.sender)
      /\ ~Busy("loop") \/ loop.pc = "sending"
  BY <1>2, CallingFacts
<1>4. Typed' /\ AllInOrder' /\ HistoryShape'
  BY <1>1, <1>3 DEF Shape, Typed, ServerShape, AllInOrder, HistoryShape
<1>5. Marked(loop) /\ Marked(loop')
  BY <1>3 DEF Marked
<1>6. TodoShape(loop', order)
  BY <1>3, <1>5 DEF Shape, LoopShape, TodoShape
<1>7. ~Busy("loop")'
  BY <1>1, <1>3 DEF Busy, Shape, LoopShape
<1>8. ASSUME NEW i \in Ids, loop'.seen = "row", Head(loop'.todo) = i PROVE rows'[i] # 0
  <2>1. CASE loop'.seen = loop.seen
    BY <1>1, <1>3, <1>8, <2>1 DEF Shape, LoopShape
  <2>2. CASE loop'.seen = Found(Current)
    BY <1>1, <1>3, <1>8, <2>2 DEF Found, Current
  <2>3. QED BY <1>2, <2>1, <2>2, CallingFacts
<1>9. LoopShape'
  BY <1>1, <1>3, <1>5, <1>6, <1>7, <1>8 DEF LoopShape
<1>10. QED BY <1>1, <1>3, <1>4, <1>9 DEF Shape

\* The server goes on with a call that the phone has given up.
LEMMA LateShape ==
  ASSUME Shape, NEW t \in Threads, LateLookup(t) \/ LateWrite(t)
  PROVE  Shape'
<1>1. /\ late[t] # Nobody /\ Moves(late[t].id, late[t].by)
      /\ UNCHANGED <<user, latest, shown, loading, loop, saving, overlap, stored, author, order,
                     refused, dropped>>
  BY LateFacts DEF Shape, Typed
<1>2. ServerShape'
  BY <1>1 DEF Moves
<1>3. HistoryShape'
  <2>1. late[t].id \in ToSet(order)
    BY <1>1 DEF Shape, HistoryShape
  <2>2. /\ \A p \in sentBy' : p[1] \in ToSet(order)
        /\ \A x \in Threads : late'[x] # Nobody => late'[x].id \in ToSet(order)
    BY <1>1, <2>1, MovedHistory DEF Shape
  <2>3. QED BY <1>1, <2>2 DEF Shape, HistoryShape
<1>4. Typed' /\ AllInOrder'
  BY <1>1, <1>2 DEF Shape, Typed, AllInOrder
<1>5. \A i \in Ids : rows[i] # 0 => rows'[i] # 0
  BY <1>1 DEF Moves
<1>6. LoopShape'
  BY <1>1, <1>5 DEF Shape, LoopShape, Busy
<1>7. QED BY <1>3, <1>4, <1>6 DEF Shape

\* What a write may leave in the storage is in order too.
LEMMA OutcomeFacts ==
  ASSUME Typed, NEW w \in Writers, NEW b \in Outcomes(w)
  PROVE  /\ b \in Blobs
         /\ b = stored \/ b = Absent \/ \E v \in Writers : b = saving[v].blob
         /\ AllInOrder => InOrder(b.items, order)
<1>1. b = stored \/ b = Absent \/ \E v \in Writers : b = saving[v].blob
  BY DEF Outcomes
<1>2. b \in Blobs
  BY <1>1, AbsentFacts DEF Typed
<1>3. AllInOrder => InOrder(b.items, order)
  BY <1>1, AbsentFacts, EmptyQueue DEF AllInOrder
<1>4. QED BY <1>1, <1>2, <1>3

\* A write is over.
LEMMA SaveOver ==
  ASSUME Shape, NEW w \in Writers, Busy(w), stored' \in Blobs, InOrder(stored'.items, order),
         saving' = [saving EXCEPT ![w] = [busy |-> FALSE, blob |-> Absent]],
         overlap' = (overlap /\ Busy(Other(w))),
         UNCHANGED <<device, rows, late, author, order, refused, dropped, sentBy>>
  PROVE  /\ Shape' /\ ~Busy(w)' /\ saving'[w].blob = Absent
         /\ \A v \in Writers : v # w => saving'[v] = saving[v] /\ (Busy(v)' <=> Busy(v))
<1>1. saving \in [Writers -> [busy : BOOLEAN, blob : Blobs]]
  BY DEF Shape, Typed
<1>2. Other(w) \in Writers
  BY DEF Other, Writers
<1>3. /\ saving'[w] = [busy |-> FALSE, blob |-> Absent]
      /\ \A v \in Writers : v # w => saving'[v] = saving[v]
      /\ saving' \in [Writers -> [busy : BOOLEAN, blob : Blobs]]
  BY <1>1, AbsentFacts
<1>4. ~Busy(w)' /\ saving'[w].blob = Absent /\ \A v \in Writers : v # w => (Busy(v)' <=> Busy(v))
  BY <1>3 DEF Busy
<1>5. overlap' \in BOOLEAN
  BY <1>1, <1>2 DEF Busy, Shape, Typed
<1>6. Typed'
  BY <1>3, <1>5 DEF Shape, Typed, ServerShape, device
<1>7. AllInOrder'
  <2>1. \A v \in Writers : InOrder(saving'[v].blob.items, order)
    BY <1>3, AbsentFacts, EmptyQueue DEF Shape, AllInOrder
  <2>2. QED BY <2>1 DEF Shape, AllInOrder, device
<1>8. HistoryShape'
  BY DEF Shape, HistoryShape
<1>9. Busy("loop")' => Busy("loop")
  BY <1>4, WritersFacts
<1>10. LoopShape'
  BY <1>9 DEF Shape, LoopShape, device
<1>11. QED BY <1>3, <1>4, <1>6, <1>7, <1>8, <1>10 DEF Shape

LEMMA SaveShape ==
  ASSUME Shape, NEW w \in Writers, SaveDone(w) \/ SaveFails(w)
  PROVE  /\ Shape' /\ Busy(w) /\ ~Busy(w)' /\ saving'[w].blob = Absent
         /\ \A v \in Writers : v # w => saving'[v] = saving[v] /\ (Busy(v)' <=> Busy(v))
         /\ overlap' = (overlap /\ Busy(Other(w)))
         /\ UNCHANGED <<device, rows, late, author, order, refused, dropped, sentBy>>
         /\ \/ stored' \in Outcomes(w) /\ exposed' = exposed
            \/ stored' = stored /\ exposed' = exposed \cup OnPhone
<1>1. /\ Busy(w) /\ saving' = [saving EXCEPT ![w] = [busy |-> FALSE, blob |-> Absent]]
      /\ overlap' = (overlap /\ Busy(Other(w)))
      /\ UNCHANGED <<device, rows, late, author, order, refused, dropped, sentBy>>
      /\ \/ stored' \in Outcomes(w) /\ exposed' = exposed
         \/ stored' = stored /\ exposed' = exposed \cup OnPhone
  BY DEF SaveDone, SaveFails, server, history
<1>2. stored' \in Blobs /\ InOrder(stored'.items, order)
  BY <1>1, OutcomeFacts DEF Shape, Typed, AllInOrder
<1>3. QED BY <1>1, <1>2, SaveOver

\* An account signs in or out.
LEMMA SwitchShape ==
  ASSUME Shape, SignOut \/ \E u \in Users : SignIn(u)
  PROVE  /\ Shape' /\ latest' = <<>> /\ shown' = Nobody /\ user' \in Accounts
         /\ (user' = Nobody /\ loading' = loading) \/ (user' \in loading' /\ loading' = loading \cup {user'})
         /\ exposed' = exposed \cup (IF Disturbed THEN OnPhone ELSE {})
         /\ UNCHANGED <<loop, saving, overlap, stored, rows, late, author, order, refused, dropped, sentBy>>
<1>1. /\ latest' = <<>> /\ shown' = Nobody /\ user' \in Accounts /\ loading' \subseteq Users
      /\ (user' = Nobody /\ loading' = loading) \/ (user' \in loading' /\ loading' = loading \cup {user'})
      /\ exposed' = exposed \cup (IF Disturbed THEN OnPhone ELSE {})
      /\ UNCHANGED <<loop, saving, overlap, stored, rows, late, author, order, refused, dropped, sentBy>>
  BY DEF SignIn, SignOut, SwitchTo, storage, server, Shape, Typed, Accounts
<1>2. <<>> \in Queues /\ ToSet(<<>>) = {} /\ Nobody \in Accounts
  BY EmptyQueue DEF Accounts
<1>3. Typed'
  BY <1>1, <1>2 DEF Shape, Typed, ServerShape
<1>4. AllInOrder'
  BY <1>1, EmptyQueue DEF Shape, AllInOrder
<1>5. HistoryShape'
  BY <1>1 DEF Shape, HistoryShape
<1>6. LoopShape'
  <2>1. Busy("loop")' <=> Busy("loop")
    BY <1>1 DEF Busy
  <2>2. QED BY <1>1, <1>2, <2>1 DEF Shape, LoopShape
<1>7. QED BY <1>1, <1>3, <1>4, <1>5, <1>6 DEF Shape

LEMMA LoadShape ==
  ASSUME Shape, NEW u \in Users, Load(u)
  PROVE  Shape'
<1>1. /\ loading' = loading \ {u}
      /\ stored' = IF OwnQueue(u) THEN stored ELSE Absent
      /\ latest' = IF user # u THEN latest
                   ELSE IF OwnQueue(u) THEN Resumed(stored.items) ELSE <<>>
      /\ shown' = IF user = u THEN u ELSE shown
      /\ UNCHANGED <<user, loop, saving, overlap, rows, late, author, order, refused, dropped, sentBy>>
  BY DEF Load, server
<1>2. stored \in Blobs /\ stored.items \in Queues /\ InOrder(stored.items, order) /\ u \in Accounts
  BY DEF Shape, Typed, Blobs, AllInOrder, Accounts
<1>3. stored' \in Blobs /\ InOrder(stored'.items, order)
  BY <1>1, <1>2, AbsentFacts, EmptyQueue
<1>4. /\ latest' \in Queues /\ InOrder(latest', order)
      /\ latest' = latest \/ \A e \in ToSet(latest') : e.state # "syncing"
  BY <1>1, <1>2, ResumedFacts, EmptyQueue DEF Shape, Typed, AllInOrder
<1>5. Typed'
  BY <1>1, <1>2, <1>3, <1>4 DEF Shape, Typed, ServerShape
<1>6. AllInOrder'
  BY <1>1, <1>3, <1>4 DEF Shape, AllInOrder
<1>7. HistoryShape'
  BY <1>1 DEF Shape, HistoryShape
<1>8. LoopShape'
  <2>1. Busy("loop")' <=> Busy("loop")
    BY <1>1 DEF Busy
  <2>2. QED BY <1>1, <1>4, <2>1 DEF Shape, LoopShape
<1>9. QED BY <1>5, <1>6, <1>7, <1>8 DEF Shape

LEMMA CrashShape ==
  ASSUME Shape, Crash
  PROVE  /\ Shape' /\ \A w \in Writers : ~Busy(w)' /\ saving'[w].blob = Absent
<1>1. /\ latest' = <<>> /\ shown' = Nobody /\ loop' = Idle /\ loading' = {user} \ {Nobody}
      /\ stored' \in {stored} \cup UNION {Outcomes(w) : w \in {x \in Writers : Busy(x)}}
      /\ saving' = [w \in Writers |-> [busy |-> FALSE, blob |-> Absent]] /\ overlap' = FALSE
      /\ Cut /\ UNCHANGED <<user, author, order, refused, dropped>>
  BY DEF Crash
<1>2. \A w \in Writers : saving'[w] = [busy |-> FALSE, blob |-> Absent]
  BY <1>1
<1>3. stored' \in Blobs /\ InOrder(stored'.items, order)
  BY <1>1, OutcomeFacts DEF Shape, Typed, AllInOrder
<1>4. ServerShape' /\ HistoryShape'
  <2>1. refused' \subseteq ToSet(order)
    BY <1>1 DEF Shape, HistoryShape
  <2>2. QED BY <1>1, <2>1, CutFacts, EndedShape
<1>6. Typed'
  <2>1. saving' \in [Writers -> [busy : BOOLEAN, blob : Blobs]]
    BY <1>1, AbsentFacts
  <2>2. Nobody \in Accounts /\ loading' \subseteq Users
    BY <1>1 DEF Shape, Typed, Accounts
  <2>3. QED BY <1>1, <1>3, <1>4, <2>1, <2>2, EmptyQueue, IdleFacts DEF Shape, Typed
<1>5. AllInOrder'
  BY <1>1, <1>2, <1>3, AbsentFacts, IdleFacts, EmptyQueue DEF AllInOrder
<1>7. \A w \in Writers : ~Busy(w)' /\ saving'[w].blob = Absent
  BY <1>2 DEF Busy
<1>8. LoopShape'
  <2>1. ~Busy("loop")'
    BY <1>7, WritersFacts
  <2>2. QED BY <1>1, <2>1, IdleFacts, EmptyQueue DEF LoopShape
<1>9. QED BY <1>4, <1>5, <1>6, <1>7, <1>8 DEF Shape

\* The disjuncts of Next, one incident being settled in three ways.
LEMMA Steps ==
  ASSUME Next
  PROVE  \/ \E u \in Users : Load(u)
         \/ SignOut \/ \E u \in Users : SignIn(u)
         \/ \E i \in Ids : Submit(i)
         \/ \E i \in Ids : Discard(i)
         \/ \E ids : Retry(ids)
         \/ StartSync \/ Calling \/ Continue \/ Settling \/ Crash
         \/ \E t \in Threads : LateLookup(t) \/ LateWrite(t)
         \/ \E w \in Writers : SaveDone(w) \/ SaveFails(w)
BY DEF Next, Calling, Settling

LEMMA NextShape ==
  ASSUME Shape, [Next]_vars
  PROVE  Shape'
<1>1. CASE UNCHANGED vars
  <2>1. Typed' /\ AllInOrder' /\ HistoryShape'
    BY <1>1 DEF vars, device, storage, server, history, Shape, Typed, ServerShape, AllInOrder,
                HistoryShape
  <2>2. LoopShape'
    BY <1>1 DEF vars, device, storage, server, history, Shape, LoopShape, Busy
  <2>3. QED BY <2>1, <2>2 DEF Shape
<1>2. CASE Next
  BY <1>2, Steps, LoadShape, SwitchShape, SubmitShape, DiscardShape, RetryShape, StartShape,
     SendShape, LateShape, ContinueShape, SettlingShape, CrashShape, SaveShape
<1>3. QED BY <1>1, <1>2

LEMMA ShapeHolds == Spec => []Shape
<1>1. Init => Shape
  BY InitShape
<1>2. Shape /\ [Next]_vars => Shape'
  BY NextShape
<1>3. QED BY <1>1, <1>2, PTL DEF Spec


\* No incident is twice in a queue.
LEMMA OnceInAQueue ==
  ASSUME Shape, NEW q \in Queues, InOrder(q, order), NEW m \in DOMAIN q, NEW n \in DOMAIN q,
         q[m].id = q[n].id
  PROVE  m = n
<1>1. m \in Nat /\ n \in Nat
  BY QueueShape
<1>2. ~(m < n) /\ ~(n < m)
  BY NotEarlierThanItself DEF Shape, InOrder, Ordered
<1>3. QED BY <1>1, <1>2

LEMMA ShapeIsTyped == Shape => TypeOK
<1> SUFFICES ASSUME Shape PROVE TypeOK
  OBVIOUS
<1>1. Typed /\ InOrder(latest, order)
  BY DEF Shape, AllInOrder
<1>2. /\ {user, shown} \subseteq Users \cup {Nobody} /\ loading \subseteq Users
      /\ latest \in Queues /\ overlap \in BOOLEAN
  BY <1>1 DEF Typed, Accounts
<1>3. /\ loop.pc \in {"idle", "marking", "sending", "settling", "stopping"}
      /\ loop.for \in Users \cup {Nobody} /\ loop.sender \in Users \cup {Nobody}
      /\ loop.todo \in Seq(Ids) /\ loop.copy \in Queues /\ loop.seen \in Seen \cup {"several"}
  BY <1>1 DEF Typed, Loops, Accounts
<1>4. \A e \in ToSet(loop.copy) :
        e.state = "syncing" <=> loop.pc \in {"marking", "sending"} /\ e.id = Head(loop.todo)
  BY DEF Shape, LoopShape, TodoShape, Marked
<1>5. /\ \A w \in Writers : saving[w].busy \in BOOLEAN /\ saving[w].blob.items \in Queues
      /\ stored.user \in Users \cup {Nobody} /\ stored.items \in Queues
  BY <1>1 DEF Typed, Blobs, Accounts
<1>6. rows \in [Ids -> Nat] /\ late \in [Threads -> Calls \cup {Nobody}]
  BY <1>1 DEF Typed, ServerShape
<1>7. IsInjective([k \in DOMAIN latest |-> latest[k].id])
  <2>1. \A m, n \in DOMAIN latest : latest[m].id = latest[n].id => m = n
    BY <1>1, <1>2, OnceInAQueue
  <2>2. QED BY <2>1 DEF IsInjective
<1>8. QED BY <1>2, <1>3, <1>4, <1>5, <1>6, <1>7 DEF TypeOK

\* The state keeps its shape: no queue holds an incident twice, and the only incident said to be
\* on its way is the one that is (sync.ts:36-60, OfflineProvider.tsx).
THEOREM TypeCorrect == Spec => []TypeOK
BY ShapeHolds, ShapeIsTyped, PTL

--------------------------------------------------------------------------------
(* One row.                                                                *)

\* One row at most, one call still served at most, and none that has seen a row that is not there
\* any more, or has missed one.
ServedOnce(i) ==
  /\ rows[i] <= 1
  /\ \A t \in Threads : late[t] # Nobody /\ late[t].id = i =>
       /\ late[t].seen = "none" => rows[i] = 0
       /\ \A x \in Threads : late[x] # Nobody /\ late[x].id = i => x = t

OneCall(i) ==
  loop.pc = "sending" /\ Current = i => ~StillServed(i) /\ (loop.seen = "none" => rows[i] = 0)

OneRow == \A i \in Ids \ crossed : ServedOnce(i) /\ OneCall(i)

\* A step that does nothing for i on the server, or at most ends a call.
Spares(i) ==
  /\ rows'[i] = rows[i]
  /\ \A t \in Threads : late'[t] # Nobody /\ late'[t].id = i => late'[t] = late[t]

LEMMA Spared ==
  ASSUME NEW i \in Ids, Spares(i)
  PROVE  /\ ServedOnce(i) => ServedOnce(i)'
         /\ ~StillServed(i) => ~StillServed(i)'
<1>1. /\ rows'[i] = rows[i]
      /\ \A t \in Threads : late'[t] # Nobody /\ late'[t].id = i =>
           late'[t] = late[t] /\ late[t] # Nobody /\ late[t].id = i
  BY DEF Spares
<1>2. ASSUME ServedOnce(i) PROVE ServedOnce(i)'
  <2>1. rows'[i] <= 1
    BY <1>1, <1>2 DEF ServedOnce
  <2>2. ASSUME NEW t \in Threads, late'[t] # Nobody, late'[t].id = i
        PROVE  /\ late'[t].seen = "none" => rows'[i] = 0
               /\ \A x \in Threads : late'[x] # Nobody /\ late'[x].id = i => x = t
    BY <1>1, <1>2, <2>2 DEF ServedOnce
  <2>3. QED BY <2>1, <2>2 DEF ServedOnce
<1>3. ASSUME ~StillServed(i) PROVE ~StillServed(i)'
  BY <1>1, <1>3 DEF StillServed
<1>4. QED BY <1>2, <1>3

LEMMA GivenUpSpares ==
  ASSUME ServerShape, NEW i \in Ids, NEW by, NEW seen, GivenUp(i, by, seen), NEW j \in Ids, j # i
  PROVE  Spares(j)
<1>1. CASE UNCHANGED <<server, sentBy>>
  BY <1>1 DEF Spares, server
<1>2. CASE Record(i, by, seen) /\ UNCHANGED late
  BY <1>2, RecordFacts DEF Spares
<1>3. ASSUME UNCHANGED <<rows, sentBy>>, NEW t \in Threads,
             late' = [late EXCEPT ![t] = [id |-> i, by |-> by, seen |-> seen]]
      PROVE  Spares(j)
  <2>1. late \in [Threads -> Calls \cup {Nobody}]
    BY DEF ServerShape
  <2>2. late'[t].id = i /\ \A x \in Threads : x # t => late'[x] = late[x]
    BY <1>3, <2>1
  <2>3. QED BY <1>3, <2>2 DEF Spares
<1>4. QED BY <1>1, <1>2, <1>3 DEF GivenUp

\* The only call for i is given up.
LEMMA GivenUpOnce ==
  ASSUME ServerShape, NEW i \in Ids, NEW by, NEW seen, GivenUp(i, by, seen),
         ServedOnce(i), ~StillServed(i), seen = "none" => rows[i] = 0
  PROVE  ServedOnce(i)'
<1>1. \A t \in Threads : ~(late[t] # Nobody /\ late[t].id = i)
  BY DEF StillServed
<1>2. CASE UNCHANGED <<server, sentBy>>
  BY <1>2, Spared DEF Spares, server
<1>3. CASE Record(i, by, seen) /\ UNCHANGED late
  <2>1. rows'[i] = (IF seen = "none" THEN rows[i] + 1 ELSE rows[i])
    BY <1>3, RecordFacts
  <2>2. rows'[i] <= 1
    BY <2>1 DEF ServedOnce, ServerShape
  <2>3. QED BY <1>1, <1>3, <2>2 DEF ServedOnce
<1>4. ASSUME UNCHANGED <<rows, sentBy>>, NEW t \in Threads,
             late' = [late EXCEPT ![t] = [id |-> i, by |-> by, seen |-> seen]]
      PROVE  ServedOnce(i)'
  <2>1. late \in [Threads -> Calls \cup {Nobody}]
    BY DEF ServerShape
  <2>2. /\ late'[t] = [id |-> i, by |-> by, seen |-> seen]
        /\ \A x \in Threads : x # t => late'[x] = late[x]
    BY <1>4, <2>1
  <2>3. late'[t].id = i /\ late'[t].seen = seen
    BY <2>2
  <2>4. \A x \in Threads : late'[x] # Nobody /\ late'[x].id = i => x = t
    BY <1>1, <2>2
  <2>5. rows'[i] = rows[i] /\ rows[i] <= 1 /\ (seen = "none" => rows'[i] = 0)
    BY <1>4 DEF ServedOnce
  <2>6. ASSUME NEW x \in Threads, late'[x] # Nobody, late'[x].id = i
        PROVE  /\ late'[x].seen = "none" => rows'[i] = 0
               /\ \A y \in Threads : late'[y] # Nobody /\ late'[y].id = i => y = x
    BY <2>3, <2>4, <2>5, <2>6
  <2>7. QED BY <2>5, <2>6 DEF ServedOnce
<1>5. QED BY <1>2, <1>3, <1>4 DEF GivenUp

\* The call of the loop ends, with or without an answer.
LEMMA EndOneRow ==
  ASSUME Shape, OneRow, loop.pc = "sending" => loop'.pc # "sending", crossed' = crossed,
         \/ UNCHANGED <<rows, late>> \/ (Served /\ GivenUp(Current, loop.sender, loop.seen)),
         loop.pc # "sending" => loop'.pc # "sending"
  PROVE  OneRow'
<1> SUFFICES ASSUME NEW i \in Ids \ crossed PROVE ServedOnce(i)' /\ OneCall(i)'
  BY DEF OneRow
<1>1. ServedOnce(i) /\ OneCall(i)
  BY DEF OneRow
<1>2. OneCall(i)'
  BY DEF OneCall
<1>3. CASE UNCHANGED <<rows, late>>
  BY <1>1, <1>2, <1>3, Spared DEF Spares
<1>4. CASE Served /\ GivenUp(Current, loop.sender, loop.seen)
  <2>1. Current \in Ids /\ ServerShape /\ loop.pc = "sending"
    BY <1>4, CallFacts DEF Served, Shape, Typed
  <2>2. CASE Current = i
    BY <1>1, <1>2, <1>4, <2>1, <2>2, GivenUpOnce DEF OneCall
  <2>3. CASE Current # i
    <3>1. Spares(i)
      BY <1>4, <2>1, <2>3, GivenUpSpares
    <3>2. QED BY <1>1, <1>2, <3>1, Spared
  <2>4. QED BY <2>2, <2>3
<1>5. QED BY <1>3, <1>4

LEMMA SubmitOneRow ==
  ASSUME Shape, OneRow, NEW i \in Ids, Submit(i)
  PROVE  OneRow'
<1>1. /\ author[i] = Nobody /\ UNCHANGED <<loop, crossed>>
      /\ \E seen \in {"unread", Found(i)} : GivenUp(i, user, seen)
  BY DEF Submit
<1>2. ServerShape /\ i \notin ToSet(order)
  BY <1>1 DEF Shape, Typed, HistoryShape
<1>3. ~StillServed(i)
  BY <1>2 DEF Shape, HistoryShape, StillServed
<1>4. PICK seen \in {"unread", Found(i)} : GivenUp(i, user, seen)
  BY <1>1
<1>5. seen = "none" => rows[i] = 0
  BY DEF Found
<1>6. \A j \in Ids : j # i => Spares(j)
  BY <1>2, <1>4, GivenUpSpares
<1>7. ASSUME NEW j \in Ids \ crossed PROVE ServedOnce(j)' /\ OneCall(j)'
  <2>1. ServedOnce(j) /\ OneCall(j)
    BY DEF OneRow
  <2>2. CASE j # i
    <3>1. ServedOnce(j)' /\ (~StillServed(j) => ~StillServed(j)') /\ rows'[j] = rows[j]
      BY <1>6, <2>1, <2>2, Spared DEF Spares
    <3>2. OneCall(j)'
      BY <1>1, <2>1, <3>1 DEF OneCall, Current
    <3>3. QED BY <3>1, <3>2
  <2>3. CASE j = i
    <3>1. ServedOnce(j)'
      BY <1>2, <1>3, <1>4, <1>5, <2>1, <2>3, GivenUpOnce
    <3>2. loop.pc = "sending" => Current # i
      BY <1>2, CallFacts
    <3>3. OneCall(j)'
      BY <1>1, <2>3, <3>2 DEF OneCall, Current
    <3>4. QED BY <3>1, <3>3
  <2>4. QED BY <2>2, <2>3
<1>8. QED BY <1>1, <1>7 DEF OneRow

LEMMA CallingOneRow ==
  ASSUME Shape, OneRow, Calling
  PROVE  OneRow'
<1>1. loop'.todo = loop.todo /\ UNCHANGED <<rows, late>>
  BY SendShape
<1>2. \A i \in Ids : ServedOnce(i) => ServedOnce(i)'
  BY <1>1, Spared DEF Spares
<1>3. \A i \in Ids : ~StillServed(i) => ~StillServed(i)'
  BY <1>1, Spared DEF Spares
<1>4. CASE Send
  <2>1. /\ loop.pc = "marking" /\ loop' = [loop EXCEPT !.pc = "sending", !.sender = user]
        /\ crossed' = crossed \cup {i \in {Head(loop.todo)} : StillServed(i)}
    BY <1>4 DEF Send
  <2>2. loop'.seen = "unread"
    BY <2>1 DEF Shape, LoopShape, Typed, Loops
  <2>3. \A i \in Ids \ crossed' : i \in Ids \ crossed /\ (Current' = i => ~StillServed(i))
    BY <1>1, <2>1 DEF Current
  <2>4. \A i \in Ids \ crossed' : OneCall(i)'
    BY <1>3, <2>2, <2>3 DEF OneCall
  <2>5. QED BY <1>2, <2>3, <2>4 DEF OneRow
<1>5. CASE SendAgain \/ Lookup
  <2>1. /\ loop.pc = "sending" /\ crossed' = crossed
        /\ loop'.seen = loop.seen \/ loop'.seen = Found(Current)
    BY <1>5, CallingFacts DEF SendAgain, Lookup, Served, history, Shape, Typed, Calling
  <2>2. ASSUME NEW i \in Ids \ crossed PROVE OneCall(i)'
    <3>1. OneCall(i)
      BY DEF OneRow
    <3>2. Found(Current) = "none" => rows[Current] = 0
      BY DEF Found
    <3>3. QED BY <1>1, <1>3, <2>1, <3>1, <3>2 DEF OneCall, Current
  <2>3. QED BY <1>2, <2>1, <2>2 DEF OneRow
<1>6. QED BY <1>4, <1>5 DEF Calling

LEMMA LateOneRow ==
  ASSUME Shape, OneRow, NEW t \in Threads, LateLookup(t) \/ LateWrite(t)
  PROVE  OneRow'
<1>1. /\ late[t] # Nobody /\ late[t] \in Calls /\ late[t].id \in Ids /\ UNCHANGED <<loop, crossed>>
      /\ ServerShape /\ late \in [Threads -> Calls \cup {Nobody}]
  BY LateFacts DEF Shape, Typed, ServerShape
<1> DEFINE c == late[t].id
<1>2. /\ \A x \in Threads : x # t => late'[x] = late[x]
      /\ late'[t] # Nobody => late'[t].id = c /\ (late'[t].seen = "none" => rows'[c] = 0)
      /\ rows' = rows \/ (late'[t] = Nobody /\ Record(c, late[t].by, late[t].seen))
  <2>1. CASE LateWrite(t)
    <3>1. Record(c, late[t].by, late[t].seen) /\ late' = [late EXCEPT ![t] = Nobody]
      BY <2>1 DEF LateWrite
    <3>2. QED BY <1>1, <3>1
  <2>2. CASE LateLookup(t)
    <3>1. /\ rows' = rows
          /\ \/ late' = [late EXCEPT ![t].seen = Found(c)]
             \/ late' = [late EXCEPT ![t] = Nobody]
      BY <2>2 DEF LateLookup
    <3>2. CASE late' = [late EXCEPT ![t] = Nobody]
      BY <1>1, <3>1, <3>2
    <3>3. CASE late' = [late EXCEPT ![t].seen = Found(c)]
      <4>1. late' = [late EXCEPT ![t] = [late[t] EXCEPT !.seen = Found(c)]]
        BY <3>3
      <4>2. /\ late'[t] = [late[t] EXCEPT !.seen = Found(c)]
            /\ \A x \in Threads : x # t => late'[x] = late[x]
        BY <1>1, <4>1
      <4>3. late'[t].id = c /\ late'[t].seen = Found(c)
        BY <1>1, <4>2 DEF Calls
      <4>4. Found(c) = "none" => rows[c] = 0
        BY DEF Found
      <4>5. QED BY <3>1, <4>2, <4>3, <4>4
    <3>4. QED BY <3>1, <3>2, <3>3
  <2>3. QED BY <2>1, <2>2
<1>3. ASSUME NEW i \in Ids \ crossed PROVE ServedOnce(i)' /\ OneCall(i)'
  <2>1. ServedOnce(i) /\ OneCall(i)
    BY DEF OneRow
  <2>2. CASE i # c
    <3>1. rows'[i] = rows[i]
      BY <1>1, <1>2, <2>2, RecordFacts
    <3>2. Spares(i)
      BY <1>2, <2>2, <3>1 DEF Spares
    <3>3. ServedOnce(i)' /\ (~StillServed(i) => ~StillServed(i)')
      BY <2>1, <3>2, Spared
    <3>4. OneCall(i)'
      BY <1>1, <2>1, <3>1, <3>3 DEF OneCall, Current
    <3>5. QED BY <3>3, <3>4
  <2>3. CASE i = c
    <3>1. \A x \in Threads : late[x] # Nobody /\ late[x].id = i => x = t
      BY <1>1, <2>1, <2>3 DEF ServedOnce
    <3>2. (loop.pc = "sending" => Current # i) /\ (late[t].seen = "none" => rows[i] = 0)
      BY <1>1, <2>1, <2>3 DEF OneCall, StillServed, ServedOnce
    <3>3. OneCall(i)'
      BY <1>1, <3>2 DEF OneCall, Current
    <3>4. rows'[i] <= 1
      <4>1. CASE rows' = rows
        BY <2>1, <4>1 DEF ServedOnce
      <4>2. CASE Record(c, late[t].by, late[t].seen)
        BY <1>1, <2>1, <2>3, <3>2, <4>2, RecordFacts DEF ServedOnce, ServerShape
      <4>3. QED BY <1>2, <4>1, <4>2
    <3>5. \A x \in Threads : late'[x] # Nobody /\ late'[x].id = i => x = t
      BY <1>2, <3>1
    <3>6. ServedOnce(i)'
      BY <1>2, <2>3, <3>4, <3>5 DEF ServedOnce
    <3>7. QED BY <3>3, <3>6
  <2>4. QED BY <2>2, <2>3
<1>4. QED BY <1>1, <1>3 DEF OneRow

\* A step that leaves the server and the call of the loop as they are.
LEMMA QuietOneRow ==
  ASSUME OneRow, UNCHANGED <<rows, late, crossed>>,
         loop'.pc # "sending" \/ loop' = loop
  PROVE  OneRow'
<1>1. ASSUME NEW i \in Ids \ crossed PROVE ServedOnce(i)' /\ OneCall(i)'
  <2>1. ServedOnce(i) /\ OneCall(i)
    BY DEF OneRow
  <2>2. ServedOnce(i)' /\ (~StillServed(i) => ~StillServed(i)')
    BY <2>1, Spared DEF Spares
  <2>3. OneCall(i)'
    BY <2>1, <2>2 DEF OneCall, Current
  <2>4. QED BY <2>2, <2>3
<1>2. QED BY <1>1 DEF OneRow

LEMMA NextOneRow ==
  ASSUME Shape, OneRow, [Next]_vars
  PROVE  OneRow'
<1>1. CASE UNCHANGED vars
  BY <1>1, QuietOneRow DEF vars, device, server, history
<1>2. ASSUME NEW u \in Users, Load(u) PROVE OneRow'
  BY <1>2, QuietOneRow DEF Load, server
<1>3. CASE SignOut \/ \E u \in Users : SignIn(u)
  BY <1>3, QuietOneRow DEF SignOut, SignIn, server
<1>4. ASSUME NEW i \in Ids, Discard(i) PROVE OneRow'
  BY <1>4, QuietOneRow DEF Discard, server
<1>5. ASSUME NEW ids, Retry(ids) PROVE OneRow'
  BY <1>5, QuietOneRow DEF Retry, server
<1>6. CASE StartSync
  <2>1. loop'.pc = "marking"
    BY <1>6, StartShape
  <2>2. QED BY <1>6, <2>1, QuietOneRow DEF StartSync, server
<1>7. CASE Continue
  <2>1. loop'.pc # "sending"
    BY <1>7, ContinueShape, IdleFacts
  <2>2. QED BY <1>7, <2>1, QuietOneRow DEF Continue, server
<1>8. ASSUME NEW w \in Writers, SaveDone(w) \/ SaveFails(w) PROVE OneRow'
  BY <1>8, QuietOneRow DEF SaveDone, SaveFails, device, server, history
<1>9. CASE Settling
  <2>1. loop.pc = "sending" /\ loop'.pc # "sending" /\ crossed' = crossed
    BY <1>9, SettlingShape
  <2>2. UNCHANGED <<rows, late>> \/ (Served /\ GivenUp(Current, loop.sender, loop.seen))
    BY <1>9 DEF Settling, Accepted, Refused, Unanswered, Cut, GivenUp, server
  <2>3. QED BY <2>1, <2>2, EndOneRow
<1>10. CASE Crash
  <2>1. loop'.pc # "sending" /\ crossed' = crossed
    BY <1>10, IdleFacts DEF Crash
  <2>2. UNCHANGED <<rows, late>> \/ (Served /\ GivenUp(Current, loop.sender, loop.seen))
    BY <1>10 DEF Crash, Cut, server
  <2>3. QED BY <2>1, <2>2, EndOneRow
<1>11. CASE Next
  BY <1>2, <1>3, <1>4, <1>5, <1>6, <1>7, <1>8, <1>9, <1>10, <1>11, Steps, SubmitOneRow,
     CallingOneRow, LateOneRow
<1>12. QED BY <1>1, <1>11

\* However often an incident is attempted, sent, cut off and sent again, the server has one row
\* for it (docs/ARCHITECTURE.md:207), unless it was sent while the server still served an earlier
\* call for it: then neither call sees the row of the other (sql_bridge.py:1386-1410).
THEOREM OneRowUnlessCrossedHolds == Spec => []OneRowUnlessCrossed
<1>1. Init => Shape /\ OneRow
  <2>1. Init => OneRow
    <3>1. ASSUME Init, NEW i \in Ids PROVE ServedOnce(i) /\ OneCall(i)
      <4>1. rows[i] = 0 /\ loop.pc = "idle" /\ \A t \in Threads : late[t] = Nobody
        BY <3>1, IdleFacts DEF Init
      <4>2. QED BY <4>1 DEF ServedOnce, OneCall
    <3>2. QED BY <3>1 DEF OneRow
  <2>2. QED BY <2>1, InitShape
<1>2. Shape /\ OneRow /\ [Next]_vars => Shape' /\ OneRow'
  BY NextShape, NextOneRow
<1>3. OneRow => OneRowUnlessCrossed
  BY DEF OneRow, ServedOnce, OneRowUnlessCrossed
<1>4. QED BY <1>1, <1>2, <1>3, PTL DEF Spec

--------------------------------------------------------------------------------
(* The incidents of each account stay its own.                             *)

\* The incidents of q that are not in x were entered by u.
OwnedBy(q, u, x, a) == \A i \in IdsOf(q) \ x : a[i] = u

\* What the server recorded, or still serves, is in the name of the author.
Named ==
  /\ SentByItsOwner
  /\ \A t \in Threads : late[t] # Nobody =>
       late[t].by = author[late[t].id] \/ late[t].id \in exposed

Owners ==
  /\ OwnedBy(latest, user, exposed, author)
  /\ OwnedBy(loop.copy, user, exposed, author) /\ OwnedBy(loop.copy, loop.for, exposed, author)
  /\ OwnedBy(stored.items, stored.user, exposed, author)
  /\ \A w \in Writers : OwnedBy(saving[w].blob.items, saving[w].blob.user, exposed, author)
  /\ loop.pc = "sending" /\ Current \notin exposed => loop.sender = user
  /\ Named

\* Incidents stay their author's when more of them are exposed, or others are entered.
LEMMA StillOwned ==
  ASSUME Shape, exposed \subseteq exposed', \A i \in ToSet(order) : author'[i] = author[i],
         NEW q, IdsOf(q) \subseteq ToSet(order), NEW u, OwnedBy(q, u, exposed, author)
  PROVE  OwnedBy(q, u, exposed', author')
BY DEF OwnedBy

LEMMA NothingOwned ==
  ASSUME NEW q, NEW x, IdsOf(q) \subseteq x
  PROVE  \A u, a : OwnedBy(q, u, x, a)
BY DEF OwnedBy

LEMMA OnPhoneFacts ==
  /\ IdsOf(latest) \subseteq OnPhone /\ IdsOf(stored.items) \subseteq OnPhone
  /\ IdsOf(loop.copy) \subseteq OnPhone
  /\ \A w \in Writers : IdsOf(saving[w].blob.items) \subseteq OnPhone
BY DEF OnPhone

\* The incidents of every queue were entered.
LEMMA AllEntered ==
  ASSUME Shape
  PROVE  /\ IdsOf(latest) \subseteq ToSet(order) /\ IdsOf(stored.items) \subseteq ToSet(order)
         /\ IdsOf(loop.copy) \subseteq ToSet(order)
         /\ \A w \in Writers : IdsOf(saving[w].blob.items) \subseteq ToSet(order)
BY DEF Shape, AllInOrder, InOrder

\* What a step may do to the storage and to the loop without touching whose incidents they are.
LEMMA OthersStayOwned ==
  ASSUME Shape, Owners, exposed \subseteq exposed', \A i \in ToSet(order) : author'[i] = author[i]
  PROVE  /\ OwnedBy(latest, user, exposed', author')
         /\ OwnedBy(loop.copy, user, exposed', author') /\ OwnedBy(loop.copy, loop.for, exposed', author')
         /\ OwnedBy(stored.items, stored.user, exposed', author')
         /\ \A w \in Writers : OwnedBy(saving[w].blob.items, saving[w].blob.user, exposed', author')
<1>1. /\ OwnedBy(latest, user, exposed, author)
      /\ OwnedBy(loop.copy, user, exposed, author) /\ OwnedBy(loop.copy, loop.for, exposed, author)
      /\ OwnedBy(stored.items, stored.user, exposed, author)
      /\ \A w \in Writers : OwnedBy(saving[w].blob.items, saving[w].blob.user, exposed, author)
  BY DEF Owners
<1>2. QED BY <1>1, StillOwned, AllEntered

LEMMA NamedStays ==
  ASSUME Shape, Owners, exposed \subseteq exposed', \A i \in ToSet(order) : author'[i] = author[i],
         UNCHANGED <<late, sentBy>>
  PROVE  Named'
<1>1. \A p \in sentBy : p[1] \in ToSet(order) /\ (p[2] = author[p[1]] \/ p[1] \in exposed)
  BY DEF Owners, Named, SentByItsOwner, Shape, HistoryShape
<1>2. \A t \in Threads : late[t] # Nobody =>
        late[t].id \in ToSet(order) /\ (late[t].by = author[late[t].id] \/ late[t].id \in exposed)
  BY DEF Owners, Named, Shape, HistoryShape
<1>3. SentByItsOwner'
  BY <1>1 DEF SentByItsOwner
<1>4. QED BY <1>2, <1>3 DEF Named

\* A call made for the author of its incident, or for an exposed one.
LEMMA NamedMoves ==
  ASSUME Shape, Owners, exposed \subseteq exposed', \A i \in ToSet(order) : author'[i] = author[i],
         NEW j, NEW by, Moves(j, by), by = author'[j] \/ j \in exposed'
  PROVE  Named'
<1>1. \A p \in sentBy : p[1] \in ToSet(order) /\ (p[2] = author[p[1]] \/ p[1] \in exposed)
  BY DEF Owners, Named, SentByItsOwner, Shape, HistoryShape
<1>2. \A t \in Threads : late[t] # Nobody =>
        late[t].id \in ToSet(order) /\ (late[t].by = author[late[t].id] \/ late[t].id \in exposed)
  BY DEF Owners, Named, Shape, HistoryShape
<1>3. /\ \A p \in sentBy' : p \in sentBy \/ p = <<j, by>>
      /\ \A t \in Threads : late'[t] # Nobody =>
           \/ late'[t].id = j /\ late'[t].by = by
           \/ late[t] # Nobody /\ late'[t].id = late[t].id /\ late'[t].by = late[t].by
  BY DEF Moves
<1>4. SentByItsOwner'
  BY <1>1, <1>3 DEF SentByItsOwner
<1>5. \A t \in Threads : late'[t] # Nobody =>
        late'[t].by = author'[late'[t].id] \/ late'[t].id \in exposed'
  BY <1>2, <1>3
<1>6. QED BY <1>4, <1>5 DEF Named

\* The call of the loop is made for the author of the incident, or for an exposed one.
LEMMA EndedNamed ==
  ASSUME Shape, Owners, exposed \subseteq exposed', author' = author, Ended
  PROVE  Named'
<1>1. CASE UNCHANGED <<rows, late, sentBy>>
  BY <1>1, NamedStays
<1>2. CASE Served /\ Moves(Current, loop.sender)
  <2>1. loop.pc = "sending" /\ Current \in IdsOf(loop.copy)
    BY <1>2, CallFacts DEF Served
  <2>2. Current \in exposed \/ loop.sender = author[Current]
    BY <2>1 DEF Owners, OwnedBy
  <2>3. QED BY <1>2, <2>2, NamedMoves
<1>3. QED BY <1>1, <1>2 DEF Ended

\* A writer writes incidents of the account of its closure.
LEMMA CommitOwned ==
  ASSUME Shape, Owners, exposed \subseteq exposed', \A i \in ToSet(order) : author'[i] = author[i],
         NEW w \in Writers, NEW u \in Accounts, NEW q \in Queues, Commit(w, u, q),
         OwnedBy(q, u, exposed', author'), OwnedBy(q, user, exposed', author')
  PROVE  /\ OwnedBy(latest', user, exposed', author')
         /\ OwnedBy(stored'.items, stored'.user, exposed', author')
         /\ \A v \in Writers : OwnedBy(saving'[v].blob.items, saving'[v].blob.user, exposed', author')
<1>1. /\ latest' = q /\ stored' = stored /\ saving'[w].blob = Blob(u, q)
      /\ saving'[Other(w)] = saving[Other(w)]
  BY CommitFacts DEF Shape
<1>2. \A v \in Writers : v = w \/ v = Other(w)
  BY DEF Writers, Other
<1>3. OwnedBy(Blob(u, q).items, Blob(u, q).user, exposed', author')
  <2>1. CASE q = <<>>
    BY <2>1, AbsentFacts, EmptyQueue, NothingOwned DEF Blob
  <2>2. CASE q # <<>>
    BY <2>2, BlobFacts
  <2>3. QED BY <2>1, <2>2
<1>4. \A v \in Writers : OwnedBy(saving[v].blob.items, saving[v].blob.user, exposed', author')
  BY OthersStayOwned
<1>5. \A v \in Writers : OwnedBy(saving'[v].blob.items, saving'[v].blob.user, exposed', author')
  BY <1>1, <1>2, <1>3, <1>4
<1>6. QED BY <1>1, <1>5, OthersStayOwned

LEMMA InitOwners == Init => Owners
<1> SUFFICES ASSUME Init PROVE Owners
  OBVIOUS
<1>1. /\ IdsOf(latest) = {} /\ IdsOf(loop.copy) = {} /\ IdsOf(stored.items) = {}
      /\ \A w \in Writers : IdsOf(saving[w].blob.items) = {}
  BY EmptyQueue, AbsentFacts, IdleFacts DEF Init
<1>2. loop.pc # "sending" /\ sentBy = {} /\ \A t \in Threads : late[t] = Nobody
  BY IdleFacts DEF Init
<1>3. QED BY <1>1, <1>2 DEF Owners, OwnedBy, Named, SentByItsOwner

LEMMA SubmitOwners ==
  ASSUME Shape, Owners, NEW i \in Ids, Submit(i)
  PROVE  Owners'
<1> DEFINE q == Append(latest, Item(i, "pending"))
<1>1. /\ author[i] = Nobody /\ Commit("screen", user, q)
      /\ \E seen \in {"unread", Found(i)} : GivenUp(i, user, seen)
      /\ author' = [author EXCEPT ![i] = user] /\ user # Nobody
      /\ UNCHANGED <<user, loading, loop, refused, dropped>>
      /\ exposed \subseteq exposed'
  BY DEF Submit, Enabled
<1>2. /\ user \in Accounts /\ latest \in Queues /\ InOrder(latest, order) /\ order \in Seq(Ids)
      /\ i \notin ToSet(order) /\ author \in [Ids -> Accounts] /\ ToSet(order) \subseteq Ids
  BY <1>1 DEF Shape, Typed, AllInOrder, HistoryShape, ToSet
<1>3. author'[i] = user /\ \A j \in ToSet(order) : author'[j] = author[j]
  BY <1>1, <1>2
<1>4. q \in Queues /\ IdsOf(q) = IdsOf(latest) \cup {i}
  BY <1>2, AppendFacts
<1>5. OwnedBy(q, user, exposed', author')
  BY <1>1, <1>3, <1>4, OthersStayOwned DEF OwnedBy
<1> HIDE DEF q
<1>6. "screen" \in Writers
  BY WritersFacts
<1>7. /\ OwnedBy(latest', user, exposed', author')
      /\ OwnedBy(stored'.items, stored'.user, exposed', author')
      /\ \A v \in Writers : OwnedBy(saving'[v].blob.items, saving'[v].blob.user, exposed', author')
  BY <1>1, <1>2, <1>3, <1>4, <1>5, <1>6, CommitOwned
<1>8. Named'
  <2>1. Moves(i, user)
    BY <1>1, <1>2, GivenUpFacts DEF Shape, Typed, Accounts
  <2>2. QED BY <1>1, <1>3, <2>1, NamedMoves
<1>9. loop'.pc = "sending" /\ Current' \notin exposed' => loop'.sender = user'
  BY <1>1 DEF Owners, Current
<1>10. /\ OwnedBy(loop.copy, user, exposed', author') /\ OwnedBy(loop.copy, loop.for, exposed', author')
  BY <1>1, <1>3, OthersStayOwned
<1>11. QED BY <1>1, <1>7, <1>8, <1>9, <1>10 DEF Owners

\* A screen writes what is left of its queue.
LEMMA ScreenOwners ==
  ASSUME Shape, Owners, exposed \subseteq exposed', NEW q \in Queues, Commit("screen", user, q),
         IdsOf(q) \subseteq IdsOf(latest), UNCHANGED <<user, loop, author, late, sentBy>>
  PROVE  Owners'
<1>1. user \in Accounts /\ "screen" \in Writers
  BY WritersFacts DEF Shape, Typed
<1>2. OwnedBy(q, user, exposed', author')
  BY OthersStayOwned DEF OwnedBy
<1>3. /\ OwnedBy(latest', user, exposed', author')
      /\ OwnedBy(stored'.items, stored'.user, exposed', author')
      /\ \A v \in Writers : OwnedBy(saving'[v].blob.items, saving'[v].blob.user, exposed', author')
  BY <1>1, <1>2, CommitOwned
<1>4. Named'
  BY NamedStays
<1>5. loop'.pc = "sending" /\ Current' \notin exposed' => loop'.sender = user'
  BY DEF Owners, Current
<1>6. OwnedBy(loop.copy, user, exposed', author') /\ OwnedBy(loop.copy, loop.for, exposed', author')
  BY OthersStayOwned
<1>7. QED BY <1>3, <1>4, <1>5, <1>6 DEF Owners

\* The loop writes what is left of its copy.
LEMMA LoopOwners ==
  ASSUME Shape, Shape', Owners, exposed \subseteq exposed', loop'.pc # "sending",
         Commit("loop", loop'.for, loop'.copy),
         OwnedBy(loop'.copy, user, exposed, author), OwnedBy(loop'.copy, loop'.for, exposed, author),
         UNCHANGED <<user, author>>, Named'
  PROVE  Owners'
<1>1. loop'.for \in Accounts /\ loop'.copy \in Queues /\ "loop" \in Writers
  BY WritersFacts DEF Shape, Typed, Loops
<1>2. OwnedBy(loop'.copy, user, exposed', author') /\ OwnedBy(loop'.copy, loop'.for, exposed', author')
  BY DEF OwnedBy
<1>3. /\ OwnedBy(latest', user, exposed', author')
      /\ OwnedBy(stored'.items, stored'.user, exposed', author')
      /\ \A v \in Writers : OwnedBy(saving'[v].blob.items, saving'[v].blob.user, exposed', author')
  BY <1>1, <1>2, CommitOwned
<1>4. QED BY <1>2, <1>3 DEF Owners

LEMMA StartOwners ==
  ASSUME Shape, Owners, StartSync
  PROVE  Owners'
<1>1. /\ Shape' /\ loop'.pc = "marking" /\ loop'.for = user /\ Commit("loop", loop'.for, loop'.copy)
      /\ IdsOf(loop'.copy) = IdsOf(latest)
  BY StartShape
<1>2. UNCHANGED <<user, author, late, sentBy>> /\ exposed \subseteq exposed'
  BY DEF StartSync, server
<1>3. OwnedBy(loop'.copy, user, exposed, author)
  BY <1>1 DEF Owners, OwnedBy
<1>4. Named'
  BY <1>2, NamedStays
<1>5. QED BY <1>1, <1>2, <1>3, <1>4, LoopOwners

LEMMA ContinueOwners ==
  ASSUME Shape, Owners, Continue
  PROVE  Owners'
<1>1. /\ Shape' /\ UNCHANGED <<user, author, late, sentBy>> /\ exposed \subseteq exposed'
  BY ContinueShape
<1>2. Named'
  BY <1>1, NamedStays
<1>3. CASE loop' = Idle /\ UNCHANGED <<latest, shown, storage>>
  <2>1. IdsOf(loop'.copy) = {} /\ loop'.pc # "sending"
    BY <1>3, IdleFacts, EmptyQueue
  <2>2. OwnedBy(loop'.copy, user', exposed', author') /\ OwnedBy(loop'.copy, loop'.for, exposed', author')
    BY <2>1, NothingOwned
  <2>3. QED BY <1>1, <1>2, <1>3, <2>1, <2>2, OthersStayOwned DEF Owners, storage
<1>4. CASE /\ loop'.pc = "marking" /\ loop'.for = loop.for /\ IdsOf(loop'.copy) = IdsOf(loop.copy)
           /\ Commit("loop", loop'.for, loop'.copy)
  <2>1. OwnedBy(loop'.copy, user, exposed, author) /\ OwnedBy(loop'.copy, loop'.for, exposed, author)
    BY <1>4 DEF Owners, OwnedBy
  <2>2. QED BY <1>1, <1>2, <1>4, <2>1, LoopOwners
<1>5. QED BY <1>3, <1>4, ContinueShape

\* The incident that was on its way is in the copy, whatever becomes of it.
LEMMA SettledCopy ==
  ASSUME Shape, Settling
  PROVE  /\ IdsOf(loop'.copy) = IdsOf(loop.copy) \/ IdsOf(loop'.copy) = IdsOf(loop.copy) \ {Current}
         /\ loop'.copy # Without(loop.copy, Current) => IdsOf(loop'.copy) = IdsOf(loop.copy)
<1>1. loop.copy \in Queues
  BY DEF Shape, Typed, Loops
<1>2. \A st \in {"failed", "conflict", "pending"} :
        IdsOf(WithState(loop.copy, Current, st)) = IdsOf(loop.copy)
  BY <1>1, WithStateFacts DEF States
<1>3. IdsOf(Without(loop.copy, Current)) = IdsOf(loop.copy) \ {Current}
  BY <1>1, WithoutFacts
<1>4. \/ loop'.copy = Without(loop.copy, Current)
      \/ \E st \in {"failed", "conflict", "pending"} : loop'.copy = WithState(loop.copy, Current, st)
  BY SettlingShape
<1>5. QED BY <1>2, <1>3, <1>4

LEMMA SettlingOwners ==
  ASSUME Shape, Owners, Settling
  PROVE  Owners'
<1>1. /\ Shape' /\ loop.pc = "sending" /\ loop'.for = loop.for
      /\ loop'.pc \in {"settling", "stopping"} /\ Commit("loop", loop'.for, loop'.copy)
      /\ Current \in IdsOf(loop.copy) /\ UNCHANGED <<user, author>> /\ exposed \subseteq exposed'
      /\ Ended
  BY SettlingShape
<1>2. OwnedBy(loop'.copy, user, exposed, author) /\ OwnedBy(loop'.copy, loop'.for, exposed, author)
  BY <1>1, SettledCopy DEF Owners, OwnedBy
<1>3. Named'
  BY <1>1, EndedNamed
<1>4. QED BY <1>1, <1>2, <1>3, LoopOwners

LEMMA SendOwners ==
  ASSUME Shape, Owners, Calling
  PROVE  Owners'
<1>1. /\ loop'.for = loop.for /\ loop'.copy = loop.copy /\ loop'.todo = loop.todo
      /\ loop'.sender = user \/ (loop.pc = "sending" /\ loop'.sender = loop.sender)
      /\ UNCHANGED <<user, latest, saving, stored, author, late, sentBy, exposed>>
  BY SendShape
<1>2. Named'
  BY <1>1, NamedStays
<1>3. loop'.pc = "sending" /\ Current' \notin exposed' => loop'.sender = user'
  BY <1>1 DEF Owners, Current
<1>4. /\ OwnedBy(latest, user, exposed, author)
      /\ OwnedBy(loop.copy, user, exposed, author) /\ OwnedBy(loop.copy, loop.for, exposed, author)
      /\ OwnedBy(stored.items, stored.user, exposed, author)
      /\ \A w \in Writers : OwnedBy(saving[w].blob.items, saving[w].blob.user, exposed, author)
  BY DEF Owners
<1>5. QED BY <1>1, <1>2, <1>3, <1>4 DEF Owners

LEMMA LateOwners ==
  ASSUME Shape, Owners, NEW t \in Threads, LateLookup(t) \/ LateWrite(t)
  PROVE  Owners'
<1>1. /\ late[t] # Nobody /\ Moves(late[t].id, late[t].by)
      /\ UNCHANGED <<user, latest, loop, saving, stored, author, order, exposed>>
  BY LateFacts DEF Shape, Typed
<1>2. late[t].by = author[late[t].id] \/ late[t].id \in exposed
  BY <1>1 DEF Owners, Named
<1>3. Named'
  BY <1>1, <1>2, NamedMoves
<1>4. loop'.pc = "sending" /\ Current' \notin exposed' => loop'.sender = user'
  BY <1>1 DEF Owners, Current
<1>5. /\ OwnedBy(latest, user, exposed, author)
      /\ OwnedBy(loop.copy, user, exposed, author) /\ OwnedBy(loop.copy, loop.for, exposed, author)
      /\ OwnedBy(stored.items, stored.user, exposed, author)
      /\ \A w \in Writers : OwnedBy(saving[w].blob.items, saving[w].blob.user, exposed, author)
  BY DEF Owners
<1>6. QED BY <1>1, <1>3, <1>4, <1>5 DEF Owners

LEMMA SaveOwners ==
  ASSUME Shape, Owners, NEW w \in Writers, SaveDone(w) \/ SaveFails(w)
  PROVE  Owners'
<1>1. /\ saving'[w].blob = Absent /\ \A v \in Writers : v # w => saving'[v] = saving[v]
      /\ UNCHANGED <<user, latest, loop, author, late, sentBy>> /\ exposed \subseteq exposed'
      /\ stored' = stored \/ stored' \in Outcomes(w)
  BY SaveShape DEF device
<1>2. OwnedBy(Absent.items, Absent.user, exposed', author')
  BY AbsentFacts, EmptyQueue, NothingOwned
<1>3. OwnedBy(stored'.items, stored'.user, exposed', author')
  <2>1. stored' = stored \/ stored' = Absent \/ \E v \in Writers : stored' = saving[v].blob
    BY <1>1, OutcomeFacts DEF Shape
  <2>2. QED BY <1>1, <1>2, <2>1, OthersStayOwned
<1>4. \A v \in Writers : OwnedBy(saving'[v].blob.items, saving'[v].blob.user, exposed', author')
  BY <1>1, <1>2, OthersStayOwned
<1>5. loop'.pc = "sending" /\ Current' \notin exposed' => loop'.sender = user'
  BY <1>1 DEF Owners, Current
<1>6. Named'
  BY <1>1, NamedStays
<1>7. /\ OwnedBy(latest, user, exposed', author')
      /\ OwnedBy(loop.copy, user, exposed', author') /\ OwnedBy(loop.copy, loop.for, exposed', author')
  BY <1>1, OthersStayOwned
<1>8. QED BY <1>1, <1>3, <1>4, <1>5, <1>6, <1>7 DEF Owners

LEMMA SwitchOwners ==
  ASSUME Shape, Owners, SignOut \/ \E u \in Users : SignIn(u)
  PROVE  Owners'
<1>1. /\ latest' = <<>> /\ exposed' = exposed \cup (IF Disturbed THEN OnPhone ELSE {})
      /\ UNCHANGED <<loop, saving, stored, author, late, sentBy>> /\ exposed \subseteq exposed'
  BY SwitchShape
<1>2. IdsOf(loop.copy) \subseteq exposed'
  <2>1. CASE Disturbed
    BY <1>1, <2>1, OnPhoneFacts
  <2>2. CASE ~Disturbed
    BY <2>2, IdleFacts, EmptyQueue DEF Disturbed
  <2>3. QED BY <2>1, <2>2
<1>3. OwnedBy(loop.copy, user', exposed', author') /\ OwnedBy(loop.copy, loop.for, exposed', author')
  BY <1>2, NothingOwned
<1>4. OwnedBy(latest', user', exposed', author')
  BY <1>1, EmptyQueue, NothingOwned
<1>5. Named'
  BY <1>1, NamedStays
<1>6. loop'.pc = "sending" /\ Current' \notin exposed' => loop'.sender = user'
  <2>1. loop.pc = "sending" => Current \in IdsOf(loop.copy)
    BY NextOnes DEF Shape, LoopShape, TodoShape, Marked, Current, Typed
  <2>2. QED BY <1>1, <1>2, <2>1 DEF Current
<1>7. /\ OwnedBy(stored.items, stored.user, exposed', author')
      /\ \A v \in Writers : OwnedBy(saving[v].blob.items, saving[v].blob.user, exposed', author')
  BY <1>1, OthersStayOwned
<1>8. QED BY <1>1, <1>3, <1>4, <1>5, <1>6, <1>7 DEF Owners

LEMMA LoadOwners ==
  ASSUME Shape, Owners, NEW u \in Users, Load(u)
  PROVE  Owners'
<1>1. /\ stored' = IF OwnQueue(u) THEN stored ELSE Absent
      /\ latest' = IF user # u THEN latest
                   ELSE IF OwnQueue(u) THEN Resumed(stored.items) ELSE <<>>
      /\ UNCHANGED <<user, loop, saving, author, late, sentBy>> /\ exposed \subseteq exposed'
  BY DEF Load, server
<1>2. OwnedBy(Absent.items, Absent.user, exposed', author') /\ OwnedBy(<<>>, user, exposed', author')
  BY AbsentFacts, EmptyQueue, NothingOwned
<1>3. OwnedBy(stored'.items, stored'.user, exposed', author')
  BY <1>1, <1>2, OthersStayOwned
<1>4. OwnedBy(latest', user, exposed', author')
  <2>1. CASE user = u /\ OwnQueue(u)
    <3>1. IdsOf(Resumed(stored.items)) = IdsOf(stored.items)
      BY ResumedFacts DEF Shape, Typed, Blobs
    <3>2. OwnedBy(stored.items, user, exposed', author')
      BY <1>1, <2>1, OthersStayOwned DEF OwnQueue
    <3>3. QED BY <1>1, <2>1, <3>1, <3>2 DEF OwnedBy
  <2>2. CASE ~(user = u /\ OwnQueue(u))
    BY <1>1, <1>2, <2>2, OthersStayOwned
  <2>3. QED BY <2>1, <2>2
<1>5. Named'
  BY <1>1, NamedStays
<1>6. loop'.pc = "sending" /\ Current' \notin exposed' => loop'.sender = user'
  BY <1>1 DEF Owners, Current
<1>7. /\ OwnedBy(loop.copy, user, exposed', author') /\ OwnedBy(loop.copy, loop.for, exposed', author')
      /\ \A v \in Writers : OwnedBy(saving[v].blob.items, saving[v].blob.user, exposed', author')
  BY <1>1, OthersStayOwned
<1>8. QED BY <1>1, <1>3, <1>4, <1>5, <1>6, <1>7 DEF Owners

LEMMA CrashOwners ==
  ASSUME Shape, Owners, Crash
  PROVE  Owners'
<1>1. /\ latest' = <<>> /\ loop' = Idle
      /\ stored' \in {stored} \cup UNION {Outcomes(w) : w \in {x \in Writers : Busy(x)}}
      /\ Cut /\ UNCHANGED <<user, author>> /\ exposed \subseteq exposed'
  BY DEF Crash
<1>2. \A u : OwnedBy(<<>>, u, exposed', author')
  BY EmptyQueue, NothingOwned
<1>3. stored' = stored \/ stored' = Absent \/ \E v \in Writers : stored' = saving[v].blob
  BY <1>1, OutcomeFacts DEF Shape
<1>4. OwnedBy(stored'.items, stored'.user, exposed', author')
  BY <1>1, <1>2, <1>3, AbsentFacts, OthersStayOwned
<1>5. \A v \in Writers : saving'[v].blob = Absent
  BY CrashShape
<1>6. \A v \in Writers : OwnedBy(saving'[v].blob.items, saving'[v].blob.user, exposed', author')
  BY <1>2, <1>5, AbsentFacts
<1>7. Named'
  BY <1>1, CutFacts, EndedNamed
<1>8. QED BY <1>1, <1>2, <1>4, <1>6, <1>7, IdleFacts DEF Owners

LEMMA NextOwners ==
  ASSUME Shape, Owners, [Next]_vars
  PROVE  Owners'
<1>1. CASE UNCHANGED vars
  BY <1>1 DEF vars, device, storage, server, history, Owners, Current, Named, SentByItsOwner
<1>2. ASSUME NEW i \in Ids, Discard(i) PROVE Owners'
  <2>1. /\ Commit("screen", user, Left(latest, i)) /\ UNCHANGED <<user, loop, author, late, sentBy>>
        /\ exposed \subseteq exposed'
    BY <1>2, DiscardCommits DEF Discard, server
  <2>2. Left(latest, i) \in Queues /\ IdsOf(Left(latest, i)) \subseteq IdsOf(latest)
    BY LeftFacts DEF Shape, Typed
  <2>3. QED BY <2>1, <2>2, ScreenOwners
<1>3. ASSUME NEW ids, Retry(ids) PROVE Owners'
  <2>1. /\ Commit("screen", user, Retried(latest, ids)) /\ UNCHANGED <<user, loop, author, late, sentBy>>
        /\ exposed \subseteq exposed'
    BY <1>3, RetryCommits DEF Retry, server
  <2>2. Retried(latest, ids) \in Queues /\ IdsOf(Retried(latest, ids)) \subseteq IdsOf(latest)
    BY RetriedFacts DEF Shape, Typed
  <2>3. QED BY <2>1, <2>2, ScreenOwners
<1>4. CASE Next
  BY <1>2, <1>3, <1>4, Steps, LoadOwners, SwitchOwners, SubmitOwners, StartOwners, SendOwners,
     LateOwners, ContinueOwners, SettlingOwners, CrashOwners, SaveOwners
<1>5. QED BY <1>1, <1>4

\* An incident is recorded in the name of who entered it, on a phone that several accounts use, or
\* it is one of those that the account left while it was being sent or saved (queue.ts:16-17).
THEOREM SentByItsOwnerHolds == Spec => []SentByItsOwner
<1>1. Init => Shape /\ Owners
  BY InitShape, InitOwners
<1>2. Shape /\ Owners /\ [Next]_vars => Shape' /\ Owners'
  BY NextShape, NextOwners
<1>3. Owners => SentByItsOwner
  BY DEF Owners, Named
<1>4. QED BY <1>1, <1>2, <1>3, PTL DEF Spec


--------------------------------------------------------------------------------
(* Nothing waits outside the queue, and the queue tells what was decided.  *)

\* What the server may still be sent: it must be somewhere on the phone.
Good == {i \in Ids : author[i] # Nobody /\ i \notin exposed \cup dropped /\ rows[i] = 0}

SomeBusy == \E w \in Writers : Busy(w)
Overlap == (overlap => SomeBusy) /\ (Busy("loop") /\ Busy("screen") => overlap)

\* What the storage will hold once it is at rest
Recent == {saving[w].blob.items : w \in {x \in Writers : Busy(x)}}
            \cup (IF SomeBusy THEN {} ELSE {stored.items})

\* With x exposed, d discarded and r refused, the state of e says which.
Told(e, x, d, r) ==
  e.id \in x \/ (e.id \notin d /\ (e.id \in r <=> e.state \in {"failed", "conflict"}))
AllTold(q, x, d, r) == \A e \in ToSet(q) : Told(e, x, d, r)

Telling ==
  /\ AllTold(latest, exposed, dropped, refused) /\ AllTold(loop.copy, exposed, dropped, refused)
  /\ \A q \in Recent : AllTold(q, exposed, dropped, refused)
  /\ \A i \in ToSet(loop.todo) : i \in exposed \/ i \notin refused \cup dropped

Keeping ==
  /\ loop # Idle => Good \subseteq IdsOf(loop.copy)
  /\ user # Nobody /\ (user \notin loading \/ shown = user) => Good \subseteq IdsOf(latest)
  /\ \A q \in Recent : Good \subseteq IdsOf(q)

Queueing == loop.pc \in {"marking", "sending", "settling"} => Good \ refused \subseteq ToSet(loop.todo)

\* One write at a time, and none while the queue of the account is being read.
Calm == ~overlap /\ (user \in loading => ~Disturbed /\ shown # user)

AllQueued == Telling /\ Keeping /\ Queueing
Risk == Overlap /\ AllQueued /\ (OnPhone \subseteq exposed \/ Calm)

LEMMA RecentFacts ==
  /\ Overlap /\ ~SomeBusy => Recent = {stored.items}
  /\ \A w \in Writers : Overlap /\ ~overlap /\ Busy(w) => Recent = {saving[w].blob.items}
  /\ \A q \in Recent : IdsOf(q) \subseteq OnPhone
  /\ Recent # {}
<1>1. \A q \in Recent : q = stored.items \/ \E w \in Writers : q = saving[w].blob.items
  BY DEF Recent
<1>2. \A q \in Recent : IdsOf(q) \subseteq OnPhone
  BY <1>1, OnPhoneFacts
<1>3. ~SomeBusy => Recent = {stored.items}
  BY DEF Recent, SomeBusy
<1>4. ASSUME NEW w \in Writers, Overlap, ~overlap, Busy(w) PROVE Recent = {saving[w].blob.items}
  <2>1. \A x \in Writers : Busy(x) <=> x = w
    BY <1>4, WritersFacts DEF Overlap
  <2>2. SomeBusy
    BY <1>4 DEF SomeBusy
  <2>3. QED BY <2>1, <2>2 DEF Recent
<1>5. Recent # {}
  BY DEF Recent, SomeBusy
<1>6. QED BY <1>2, <1>3, <1>4, <1>5

\* Once everything on the phone is exposed, nothing is left to be kept.
LEMMA Drowned ==
  Shape /\ Overlap /\ OnPhone \subseteq exposed /\ Good \subseteq OnPhone => Risk
<1> SUFFICES ASSUME Shape, Overlap, OnPhone \subseteq exposed, Good \subseteq OnPhone PROVE Risk
  OBVIOUS
<1>1. Good = {}
  BY DEF Good
<1>2. Keeping /\ Queueing
  BY <1>1 DEF Keeping, Queueing
<1>3. \A q : IdsOf(q) \subseteq OnPhone => AllTold(q, exposed, dropped, refused)
  BY DEF AllTold, Told, IdsOf
<1>4. \A i \in ToSet(loop.todo) : i \in exposed
  BY OnPhoneFacts DEF Shape, LoopShape, TodoShape
<1>5. Telling
  BY <1>3, <1>4, OnPhoneFacts, RecentFacts DEF Telling
<1>6. QED BY <1>2, <1>5 DEF Risk, AllQueued

\* What must be kept is on the phone.
LEMMA GoodOnPhone == AllQueued => Good \subseteq OnPhone
BY RecentFacts DEF AllQueued, Keeping

\* A step after which everything that was on the phone is exposed.
LEMMA DrownedStep ==
  ASSUME Shape, Shape', Risk, OnPhone \subseteq exposed', Overlap',
         OnPhone' \subseteq OnPhone \cup exposed', Good' \subseteq Good \cup OnPhone'
  PROVE  Risk'
<1>1. OnPhone' \subseteq exposed'
  OBVIOUS
<1>2. Good \subseteq OnPhone
  BY GoodOnPhone DEF Risk
<1>3. Good' \subseteq OnPhone'
  <2>1. \A i \in Good' : i \notin exposed'
    BY DEF Good
  <2>2. QED BY <1>2, <2>1
<1>4. (Shape /\ Overlap /\ OnPhone \subseteq exposed /\ Good \subseteq OnPhone)'
  BY <1>1, <1>3
<1>5. QED BY <1>4, Drowned, PTL

\* The rules of a queue are kept when more incidents are exposed.
LEMMA ToldMore ==
  ASSUME NEW q, NEW x, NEW y, x \subseteq y, NEW d, NEW r, AllTold(q, x, d, r)
  PROVE  AllTold(q, y, d, r)
BY DEF AllTold, Told

LEMMA EmptyTold == \A x, d, r : AllTold(<<>>, x, d, r)
BY EmptyQueue DEF AllTold

LEMMA GoodShrinks ==
  ASSUME exposed \subseteq exposed', dropped \subseteq dropped', author' = author,
         \A i \in Ids : rows[i] # 0 => rows'[i] # 0
  PROVE  Good' \subseteq Good
BY DEF Good

LEMMA OnPhoneNext ==
  ASSUME NEW X, IdsOf(latest') \subseteq X, IdsOf(stored'.items) \subseteq X, IdsOf(loop'.copy) \subseteq X,
         \A w \in Writers : IdsOf(saving'[w].blob.items) \subseteq X
  PROVE  OnPhone' \subseteq X
BY DEF OnPhone

\* A writer writes q: what the storage will hold is q, unless the other writer is busy.
LEMMA CommitRisk ==
  ASSUME Typed, Overlap, NEW w \in Writers, NEW u \in Accounts, NEW q \in Queues, Commit(w, u, q)
  PROVE  /\ Overlap'
         /\ \A X : IdsOf(q) \subseteq X /\ OnPhone \subseteq X /\ IdsOf(loop'.copy) \subseteq X => OnPhone' \subseteq X
         /\ ~overlap /\ ~Busy(Other(w)) => Recent' = {q} /\ ~overlap'
<1>1. /\ latest' = q /\ stored' = stored /\ overlap' = (overlap \/ Busy(Other(w)))
      /\ Busy(w)' /\ saving'[w].blob.items = q /\ saving'[Other(w)] = saving[Other(w)]
      /\ Busy(Other(w))' <=> Busy(Other(w))
  BY CommitFacts
<1>2. \A v \in Writers : v = w \/ v = Other(w)
  BY DEF Writers, Other
<1>3. Other(w) \in Writers /\ Other(w) # w
  BY DEF Writers, Other
<1>4. Overlap'
  <2>1. SomeBusy'
    BY <1>1 DEF SomeBusy
  <2>2. Busy("loop")' /\ Busy("screen")' => overlap'
    <3>1. "loop" = Other(w) \/ "screen" = Other(w)
      BY WritersFacts DEF Other
    <3>2. QED BY <1>1, <3>1
  <2>3. QED BY <2>1, <2>2 DEF Overlap
<1>5. ASSUME NEW X, IdsOf(q) \subseteq X, OnPhone \subseteq X, IdsOf(loop'.copy) \subseteq X
      PROVE  OnPhone' \subseteq X
  <2>1. \A v \in Writers : IdsOf(saving'[v].blob.items) \subseteq X
    BY <1>1, <1>2, <1>3, <1>5, OnPhoneFacts
  <2>2. IdsOf(stored'.items) \subseteq X /\ IdsOf(latest') \subseteq X
    BY <1>1, <1>5, OnPhoneFacts
  <2>3. QED BY <1>5, <2>1, <2>2, OnPhoneNext
<1>6. ASSUME ~overlap, ~Busy(Other(w)) PROVE Recent' = {q} /\ ~overlap'
  <2>1. \A x \in Writers : Busy(x)' <=> x = w
    BY <1>1, <1>2, <1>6
  <2>2. SomeBusy'
    BY <1>1 DEF SomeBusy
  <2>3. QED BY <1>1, <1>6, <2>1, <2>2 DEF Recent
<1>7. QED BY <1>4, <1>5, <1>6

LEMMA InitRisk == Init => Risk
<1> SUFFICES ASSUME Init PROVE Risk
  OBVIOUS
<1>1. Shape
  BY InitShape
<1>2. \A w \in Writers : ~Busy(w)
  BY DEF Init, Busy
<1>3. Overlap
  BY <1>2, WritersFacts DEF Overlap, Init
<1>4. OnPhone = {}
  BY EmptyQueue, IdleFacts, AbsentFacts DEF Init, OnPhone
<1>5. Good = {}
  BY DEF Init, Good
<1>6. QED BY <1>1, <1>3, <1>4, <1>5, Drowned


\* A screen writes q.  Unless the loop was writing or the queue was being read, nothing disturbs it.
LEMMA ScreenRisk ==
  ASSUME Shape, Shape', Risk, NEW q \in Queues, Commit("screen", user, q), ~Busy("screen"),
         UNCHANGED <<user, loading, loop>>, exposed \subseteq exposed', user # Nobody,
         Busy("loop") \/ user \in loading => OnPhone \cup IdsOf(q) \subseteq exposed',
         Good' \subseteq Good \cup IdsOf(q), loop # Idle => Good' \subseteq Good,
         Good \subseteq IdsOf(latest) => Good' \subseteq IdsOf(q),
         AllTold(latest, exposed, dropped, refused) => AllTold(q, exposed', dropped', refused'),
         loop # Idle => \A i \in Ids \ exposed' : /\ i \in dropped' <=> i \in dropped
                                                  /\ i \in refused' => i \in refused
                                                  /\ i \in refused => i \in refused'
  PROVE  Risk'
<1>0. Typed /\ Overlap /\ user \in Accounts /\ "screen" \in Writers /\ Other("screen") = "loop"
  BY WritersFacts DEF Shape, Typed, Risk
<1>1. /\ Overlap'
      /\ \A X : IdsOf(q) \subseteq X /\ OnPhone \subseteq X /\ IdsOf(loop'.copy) \subseteq X => OnPhone' \subseteq X
      /\ ~overlap /\ ~Busy("loop") => Recent' = {q} /\ ~overlap'
  BY <1>0, CommitRisk
<1>2. /\ latest' = q /\ shown' = user /\ saving'["screen"].blob.items = q
  BY <1>0, CommitFacts
<1>3. CASE Busy("loop") \/ user \in loading
  <2>1. OnPhone \subseteq exposed' /\ IdsOf(q) \subseteq exposed'
    BY <1>3
  <2>2. OnPhone' \subseteq OnPhone \cup exposed'
    BY <1>1, <2>1, OnPhoneFacts
  <2>3. IdsOf(q) \subseteq OnPhone'
    BY <1>2 DEF OnPhone
  <2>4. Good' \subseteq Good \cup OnPhone'
    BY <2>3
  <2>5. QED BY <1>1, <2>1, <2>2, <2>4, DrownedStep
<1>4. CASE ~Busy("loop") /\ user \notin loading
  <2>1. ~SomeBusy
    BY <1>4, WritersFacts DEF SomeBusy
  <2>2. ~overlap
    BY <1>0, <2>1 DEF Overlap
  <2>3. Recent' = {q} /\ ~overlap'
    BY <1>1, <1>4, <2>2
  <2>4. Telling /\ Keeping /\ Queueing
    BY DEF Risk, AllQueued
  <2>5. Good' \subseteq IdsOf(q)
    BY <1>4, <2>4 DEF Keeping
  <2>6. AllTold(q, exposed', dropped', refused')
    BY <2>4 DEF Telling
  <2>7. AllTold(loop.copy, exposed', dropped', refused')
    <3>1. CASE loop = Idle
      BY <3>1, IdleFacts, EmptyTold
    <3>2. CASE loop # Idle
      <4>1. \A e \in ToSet(loop.copy) : e.id \in Ids
        BY QueueShape DEF Shape, Typed, Loops
      <4>2. AllTold(loop.copy, exposed, dropped, refused)
        BY <2>4 DEF Telling
      <4>3. QED BY <3>2, <4>1, <4>2 DEF AllTold, Told
    <3>3. QED BY <3>1, <3>2
  <2>8. \A i \in ToSet(loop.todo) : i \in exposed' \/ i \notin refused' \cup dropped'
    <3>1. CASE loop = Idle
      BY <3>1, IdleFacts, EmptyQueue
    <3>2. CASE loop # Idle
      <4>1. \A i \in ToSet(loop.todo) : i \in Ids
        BY IdsOfTyped DEF Shape, LoopShape, TodoShape, Typed, Loops
      <4>2. QED BY <2>4, <3>2, <4>1 DEF Telling
    <3>3. QED BY <3>1, <3>2
  <2>9. Telling'
    BY <1>2, <2>3, <2>6, <2>7, <2>8 DEF Telling
  <2>10. Keeping'
    BY <1>2, <2>3, <2>4, <2>5 DEF Keeping
  <2>11. Queueing'
    <3>1. loop.pc \in {"marking", "sending", "settling"} => loop # Idle
      BY IdleFacts
    <3>2. ToSet(loop.todo) \subseteq Ids
      BY IdsOfTyped DEF Shape, LoopShape, TodoShape, Typed, Loops
    <3>3. \A i \in Good' : i \in Ids /\ i \notin exposed'
      BY DEF Good
    <3>4. QED BY <2>4, <3>1, <3>2, <3>3 DEF Queueing
  <2>12. Calm'
    BY <1>4, <2>3 DEF Calm
  <2>13. QED BY <1>1, <2>9, <2>10, <2>11, <2>12 DEF Risk, AllQueued
<1>5. QED BY <1>3, <1>4

LEMMA SubmitRisk ==
  ASSUME Shape, Risk, NEW i \in Ids, Submit(i)
  PROVE  Risk'
<1> DEFINE q == Append(latest, Item(i, "pending"))
<1>1. /\ user # Nobody /\ ~Busy("screen") /\ author[i] = Nobody /\ Commit("screen", user, q)
      /\ \E seen \in {"unread", Found(i)} : GivenUp(i, user, seen)
      /\ author' = [author EXCEPT ![i] = user]
      /\ UNCHANGED <<user, loading, loop, refused, dropped>>
      /\ exposed' = exposed \cup (IF loop # Idle THEN {i} ELSE {})
                            \cup (IF Busy("loop") \/ user \in loading THEN OnPhone \cup {i} ELSE {})
  BY DEF Submit, Enabled
<1>2. Shape'
  BY SubmitShape
<1>3. /\ latest \in Queues /\ InOrder(latest, order) /\ order \in Seq(Ids)
      /\ i \notin ToSet(order) /\ author \in [Ids -> Accounts] /\ ServerShape /\ user \in Users
      /\ refused \cup dropped \subseteq ToSet(order)
  BY <1>1 DEF Shape, Typed, AllInOrder, HistoryShape, Accounts
<1>4. /\ q \in Queues /\ ToSet(q) = ToSet(latest) \cup {Item(i, "pending")}
      /\ IdsOf(q) = IdsOf(latest) \cup {i}
  BY <1>3, AppendFacts
<1> HIDE DEF q
<1>5. Good' \subseteq Good \cup {i} /\ (loop # Idle => Good' \subseteq Good)
  <2>0. Moves(i, user)
    BY <1>1, <1>3, GivenUpFacts
  <2>1. \A j \in Ids : j # i => author'[j] = author[j] /\ rows'[j] = rows[j]
    BY <1>1, <1>3, <2>0 DEF Moves
  <2>2. \A j \in Good' : j = i \/ j \in Good
    BY <1>1, <2>1 DEF Good
  <2>3. \A j \in Good' : j \notin exposed'
    BY DEF Good
  <2>4. QED BY <1>1, <2>2, <2>3
<1>6. AllTold(latest, exposed, dropped, refused) => AllTold(q, exposed', dropped', refused')
  <2>1. Item(i, "pending").id = i /\ Item(i, "pending").state = "pending"
    BY DEF Item
  <2>2. Told(Item(i, "pending"), exposed', dropped, refused)
    BY <1>3, <2>1 DEF Told
  <2>3. QED BY <1>1, <1>4, <2>2 DEF AllTold, Told
<1>7. Busy("loop") \/ user \in loading => OnPhone \cup IdsOf(q) \subseteq exposed'
  BY <1>1, <1>4, OnPhoneFacts
<1>8. Good' \subseteq Good \cup IdsOf(q) /\ (Good \subseteq IdsOf(latest) => Good' \subseteq IdsOf(q))
  BY <1>4, <1>5
<1>9. exposed \subseteq exposed'
  BY <1>1
<1>10. QED BY <1>1, <1>2, <1>4, <1>5, <1>6, <1>7, <1>8, <1>9, ScreenRisk

LEMMA DiscardRisk ==
  ASSUME Shape, Risk, NEW i \in Ids, Discard(i)
  PROVE  Risk'
<1> DEFINE q == Left(latest, i)
<1>1. /\ user # Nobody /\ ~Busy("screen") /\ i \in IdsOf(latest)
      /\ UNCHANGED <<user, loading, loop, rows, late, author, refused>>
      /\ exposed' = exposed \cup (IF loop # Idle THEN {i} ELSE {})
                            \cup (IF Busy("loop") \/ user \in loading THEN OnPhone ELSE {})
      /\ Commit("screen", user, q) /\ dropped' = dropped \cup ({i} \ IdsOf(q))
  BY DiscardCommits DEF Discard, Enabled, server
<1>2. Shape'
  BY DiscardShape
<1>3. /\ q \in Queues /\ ToSet(q) \subseteq ToSet(latest)
      /\ IdsOf(latest) \ {i} \subseteq IdsOf(q) /\ IdsOf(q) \subseteq IdsOf(latest)
  BY LeftFacts DEF Shape, Typed
<1>4. \A e \in ToSet(q) : e.id \in IdsOf(q)
  BY DEF IdsOf
<1> HIDE DEF q
<1>5. exposed \subseteq exposed' /\ dropped \subseteq dropped'
  BY <1>1
<1>6. Good' \subseteq Good
  BY <1>1, <1>5, GoodShrinks
<1>7. Good \subseteq IdsOf(latest) => Good' \subseteq IdsOf(q)
  <2>1. \A j \in Good' : j \notin dropped'
    BY DEF Good
  <2>2. QED BY <1>1, <1>3, <1>6, <2>1
<1>8. AllTold(latest, exposed, dropped, refused) => AllTold(q, exposed', dropped', refused')
  <2>1. \A e \in ToSet(q) : e.id \in dropped' <=> e.id \in dropped
    BY <1>1, <1>4
  <2>2. QED BY <1>1, <1>3, <2>1 DEF AllTold, Told
<1>9. Busy("loop") \/ user \in loading => OnPhone \cup IdsOf(q) \subseteq exposed'
  BY <1>1, <1>3, OnPhoneFacts
<1>10. loop # Idle => \A j \in Ids \ exposed' : /\ j \in dropped' <=> j \in dropped
                                                /\ j \in refused' => j \in refused
                                                /\ j \in refused => j \in refused'
  BY <1>1
<1>11. QED BY <1>1, <1>2, <1>3, <1>5, <1>6, <1>7, <1>8, <1>9, <1>10, ScreenRisk

LEMMA RetryRisk ==
  ASSUME Shape, Risk, NEW ids, Retry(ids)
  PROVE  Risk'
<1> DEFINE q == Retried(latest, ids)
<1>1. /\ user # Nobody /\ ~Busy("screen")
      /\ UNCHANGED <<user, loading, loop, rows, late, author, dropped>>
      /\ exposed' = exposed \cup (IF loop # Idle THEN ids ELSE {})
                            \cup (IF Busy("loop") \/ user \in loading THEN OnPhone ELSE {})
      /\ Commit("screen", user, q) /\ refused' = refused \ ids
  BY RetryCommits DEF Retry, Enabled, server
<1>2. Shape'
  BY RetryShape
<1>3. /\ q \in Queues /\ IdsOf(q) = IdsOf(latest)
      /\ \A e \in ToSet(q) : \E d \in ToSet(latest) :
           /\ e.id = d.id
           /\ IF d.id \in ids /\ d.state \in {"failed", "conflict"}
              THEN e.state = "pending" ELSE e.state = d.state
  BY RetriedFacts DEF Shape, Typed
<1> HIDE DEF q
<1>4. exposed \subseteq exposed' /\ dropped \subseteq dropped'
  BY <1>1
<1>5. Good' \subseteq Good
  BY <1>1, <1>4, GoodShrinks
<1>6. AllTold(latest, exposed, dropped, refused) => AllTold(q, exposed', dropped', refused')
  <2>1. SUFFICES ASSUME AllTold(latest, exposed, dropped, refused), NEW e \in ToSet(q)
                 PROVE  Told(e, exposed', dropped', refused')
    BY DEF AllTold
  <2>2. PICK d \in ToSet(latest) :
           /\ e.id = d.id
           /\ IF d.id \in ids /\ d.state \in {"failed", "conflict"}
              THEN e.state = "pending" ELSE e.state = d.state
    BY <1>3
  <2>3. d.id \in exposed \/ (d.id \notin dropped /\ (d.id \in refused <=> d.state \in {"failed", "conflict"}))
    BY <2>1 DEF AllTold, Told
  <2>4. QED BY <1>1, <2>2, <2>3 DEF Told
<1>7. Busy("loop") \/ user \in loading => OnPhone \cup IdsOf(q) \subseteq exposed'
  BY <1>1, <1>3, OnPhoneFacts
<1>8. loop # Idle => \A j \in Ids \ exposed' : /\ j \in dropped' <=> j \in dropped
                                               /\ j \in refused' => j \in refused
                                               /\ j \in refused => j \in refused'
  BY <1>1
<1>9. QED BY <1>1, <1>2, <1>3, <1>4, <1>5, <1>6, <1>7, <1>8, ScreenRisk


\* The loop writes its copy.  Unless a screen was writing, nothing disturbs it.
LEMMA LoopRisk ==
  ASSUME Shape, Shape', Risk, Commit("loop", loop'.for, loop'.copy), UNCHANGED <<user, loading>>,
         ~Busy("loop"), loop # Idle \/ shown = user,
         exposed' = exposed \cup (IF Busy("screen") THEN OnPhone ELSE {}),
         IdsOf(loop'.copy) \subseteq OnPhone, Good' \subseteq Good, Good' \subseteq IdsOf(loop'.copy),
         AllTold(loop'.copy, exposed, dropped', refused'),
         \A i \in ToSet(loop'.todo) : i \in exposed \/ i \notin refused' \cup dropped',
         loop'.pc \in {"marking", "sending", "settling"} => Good' \ refused' \subseteq ToSet(loop'.todo)
  PROVE  Risk'
<1>0. /\ Typed /\ Overlap /\ "loop" \in Writers /\ Other("loop") = "screen"
      /\ loop'.for \in Accounts /\ loop'.copy \in Queues
  BY WritersFacts DEF Shape, Typed, Risk, Loops
<1>1. /\ Overlap'
      /\ \A X : IdsOf(loop'.copy) \subseteq X /\ OnPhone \subseteq X /\ IdsOf(loop'.copy) \subseteq X
                  => OnPhone' \subseteq X
      /\ ~overlap /\ ~Busy("screen") => Recent' = {loop'.copy} /\ ~overlap'
  BY <1>0, CommitRisk
<1>2. latest' = loop'.copy
  BY <1>0, CommitFacts
<1>3. OnPhone' \subseteq OnPhone
  BY <1>1
<1>4. CASE OnPhone \subseteq exposed'
  BY <1>1, <1>3, <1>4, DrownedStep
<1>5. CASE ~(OnPhone \subseteq exposed')
  <2>1. ~Busy("screen") /\ exposed' = exposed /\ Calm
    BY <1>5 DEF Risk
  <2>2. ~overlap /\ user \notin loading
    BY <2>1 DEF Calm, Disturbed
  <2>3. Recent' = {loop'.copy} /\ ~overlap'
    BY <1>1, <2>1, <2>2
  <2>4. Telling'
    BY <1>2, <2>1, <2>3 DEF Telling
  <2>5. Keeping'
    BY <1>2, <2>3 DEF Keeping
  <2>6. Queueing'
    BY DEF Queueing
  <2>7. Calm'
    BY <2>2, <2>3 DEF Calm
  <2>8. QED BY <1>1, <2>4, <2>5, <2>6, <2>7 DEF Risk, AllQueued
<1>6. QED BY <1>4, <1>5

\* The incident marked is one that may be sent, and its mark tells nothing else.
LEMMA MarkTold ==
  ASSUME NEW q \in Queues, NEW i, AllTold(q, exposed, dropped, refused),
         i \in exposed \/ i \notin refused \cup dropped
  PROVE  AllTold(WithState(q, i, "syncing"), exposed, dropped, refused)
<1>1. \A e \in ToSet(WithState(q, i, "syncing")) :
        IF e.id = i THEN e.state = "syncing" ELSE e \in ToSet(q)
  BY WithStateFacts DEF States
<1>2. QED BY <1>1 DEF AllTold, Told

LEMMA StartRisk ==
  ASSUME Shape, Risk, StartSync
  PROVE  Risk'
<1>1. /\ Shape' /\ loop = Idle /\ shown = user /\ user # Nobody
      /\ loop'.pc = "marking" /\ loop'.copy = WithState(latest, Head(loop'.todo), "syncing")
      /\ IdsOf(loop'.copy) = IdsOf(latest)
      /\ ToSet(loop'.todo) = {e.id : e \in {x \in ToSet(latest) : x.state = "pending"}}
      /\ Commit("loop", loop'.for, loop'.copy)
      /\ \A e \in ToSet(latest) : e.state # "syncing"
  BY StartShape
<1>2. /\ exposed' = exposed \cup (IF Busy("screen") THEN OnPhone ELSE {})
      /\ UNCHANGED <<user, loading, rows, late, author, order, refused, dropped, sentBy>>
  BY DEF StartSync, server
<1>3. Good' \subseteq Good
  BY <1>2, GoodShrinks
<1>4. ~Busy("loop")
  BY <1>1, IdleFacts DEF Shape, LoopShape
<1>5. /\ AllTold(latest, exposed, dropped, refused) /\ Good \subseteq IdsOf(latest)
  BY <1>1 DEF Risk, AllQueued, Telling, Keeping
<1>6. \A i \in ToSet(loop'.todo) : i \in exposed \/ i \notin refused \cup dropped
  BY <1>1, <1>5 DEF AllTold, Told
<1>7. Head(loop'.todo) \in ToSet(loop'.todo)
  BY <1>1, NextOnes, TailFacts DEF Shape, LoopShape, TodoShape, Marked, Typed, Loops
<1>8. AllTold(loop'.copy, exposed, dropped, refused)
  BY <1>1, <1>5, <1>6, <1>7, MarkTold DEF Shape, Typed
<1>9. Good' \ refused \subseteq ToSet(loop'.todo)
  <2>1. SUFFICES ASSUME NEW i \in Good', i \notin refused PROVE i \in ToSet(loop'.todo)
    OBVIOUS
  <2>2. i \in IdsOf(latest) /\ i \notin exposed
    BY <1>3, <1>5 DEF Good
  <2>3. PICK e \in ToSet(latest) : e.id = i
    BY <2>2 DEF IdsOf
  <2>4. e.state \in States
    BY QueueShape DEF Shape, Typed
  <2>5. e.state = "pending"
    BY <1>1, <1>5, <2>1, <2>2, <2>3, <2>4 DEF AllTold, Told, States
  <2>6. QED BY <1>1, <2>3, <2>5
<1>10. IdsOf(loop'.copy) \subseteq OnPhone /\ Good' \subseteq IdsOf(loop'.copy)
  BY <1>1, <1>3, <1>5, OnPhoneFacts
<1>11. QED BY <1>1, <1>2, <1>3, <1>4, <1>6, <1>8, <1>9, <1>10, LoopRisk

LEMMA ContinueRisk ==
  ASSUME Shape, Risk, Continue
  PROVE  Risk'
<1>1. /\ Shape' /\ loop.pc \in {"settling", "stopping"} /\ ~Busy("loop")
      /\ UNCHANGED <<user, loading, rows, late, author, order, refused, dropped, sentBy>>
  BY ContinueShape
<1>2. loop # Idle
  BY <1>1, IdleFacts
<1>3. Telling /\ Keeping /\ Queueing /\ Overlap
  BY DEF Risk, AllQueued
<1>4. CASE loop' = Idle /\ UNCHANGED <<latest, shown, storage>> /\ exposed' = exposed
  <2>1. Recent' = Recent /\ Overlap' /\ Good' = Good
    BY <1>1, <1>3, <1>4 DEF storage, Recent, SomeBusy, Busy, Overlap, Good
  <2>2. IdsOf(loop'.copy) = {} /\ ToSet(loop'.todo) = {} /\ loop'.pc = "idle"
    BY <1>4, IdleFacts, EmptyQueue
  <2>3. OnPhone' \subseteq OnPhone
    BY <1>4, <2>2, OnPhoneFacts, OnPhoneNext DEF storage
  <2>4. Telling'
    BY <1>1, <1>3, <1>4, <2>1, <2>2, EmptyTold, IdleFacts DEF Telling
  <2>5. Keeping' /\ Queueing'
    BY <1>1, <1>3, <1>4, <2>1, <2>2 DEF Keeping, Queueing
  <2>6. Calm => Calm'
    BY <1>1, <1>2, <1>4 DEF Calm, Disturbed, storage
  <2>7. QED BY <1>4, <2>1, <2>3, <2>4, <2>5, <2>6 DEF Risk, AllQueued
<1>5. CASE /\ loop.pc = "settling" /\ loop.todo # <<>>
           /\ loop'.pc = "marking" /\ loop'.for = loop.for /\ loop'.todo = loop.todo
           /\ loop'.copy = WithState(loop.copy, Head(loop.todo), "syncing")
           /\ IdsOf(loop'.copy) = IdsOf(loop.copy)
           /\ Commit("loop", loop'.for, loop'.copy)
           /\ exposed' = exposed \cup (IF Busy("screen") THEN OnPhone ELSE {})
  <2>1. Good' \subseteq Good
    BY <1>1, <1>5, GoodShrinks
  <2>2. Good' \subseteq IdsOf(loop'.copy) /\ IdsOf(loop'.copy) \subseteq OnPhone
    BY <1>2, <1>3, <1>5, <2>1, OnPhoneFacts DEF Keeping
  <2>3. \A i \in ToSet(loop'.todo) : i \in exposed \/ i \notin refused' \cup dropped'
    BY <1>1, <1>3, <1>5 DEF Telling
  <2>4. loop.copy \in Queues /\ Head(loop.todo) \in ToSet(loop.todo)
    BY <1>5, TailFacts DEF Shape, Typed, Loops
  <2>5. AllTold(loop'.copy, exposed, dropped', refused')
    BY <1>1, <1>3, <1>5, <2>4, MarkTold DEF Telling
  <2>6. Good' \ refused' \subseteq ToSet(loop'.todo)
    BY <1>1, <1>3, <1>5, <2>1 DEF Queueing
  <2>7. QED BY <1>1, <1>2, <1>5, <2>1, <2>2, <2>3, <2>5, <2>6, LoopRisk
<1>6. QED BY <1>4, <1>5, ContinueShape

LEMMA SettlingRisk ==
  ASSUME Shape, Risk, Settling
  PROVE  Risk'
<1>1. /\ Shape' /\ loop.pc = "sending" /\ loop'.pc \in {"settling", "stopping"}
      /\ Commit("loop", loop'.for, loop'.copy)
      /\ Current \in Ids /\ Current \in ToSet(loop.todo) /\ Current \in IdsOf(loop.copy)
      /\ ToSet(loop'.todo) = ToSet(loop.todo) \ {Current}
      /\ UNCHANGED <<user, loading, author, order, dropped>>
      /\ exposed' = exposed \cup (IF Busy("screen") THEN OnPhone ELSE {})
      /\ Ended
  BY SettlingShape
<1>2. \/ /\ loop'.pc = "settling" /\ loop'.copy = Without(loop.copy, Current)
         /\ Record(Current, loop.sender, loop.seen) /\ refused' = refused
      \/ /\ loop'.pc = "settling" /\ refused' = refused \cup {Current}
         /\ \E st \in {"failed", "conflict"} : loop'.copy = WithState(loop.copy, Current, st)
      \/ /\ loop'.pc = "stopping" /\ refused' = refused
         /\ loop'.copy = WithState(loop.copy, Current, "pending")
  BY SettlingShape
<1>3. loop # Idle /\ ~Busy("loop")
  BY <1>1, IdleFacts DEF Shape, LoopShape
<1>4. Telling /\ Keeping /\ Queueing
  BY DEF Risk, AllQueued
<1>5. /\ AllTold(loop.copy, exposed, dropped, refused) /\ Good \subseteq IdsOf(loop.copy)
      /\ Good \ refused \subseteq ToSet(loop.todo)
      /\ \A i \in ToSet(loop.todo) : i \in exposed \/ i \notin refused \cup dropped
  BY <1>1, <1>3, <1>4 DEF Telling, Keeping, Queueing
<1>6. ServerShape /\ (loop.seen = "row" => rows[Current] # 0)
  BY <1>1 DEF Shape, Typed, LoopShape, Current
<1>7. Good' \subseteq Good
  <2>1. \A i \in Ids : rows[i] # 0 => rows'[i] # 0
    BY <1>1 DEF Ended, Moves
  <2>2. QED BY <1>1, <2>1, GoodShrinks
<1>8. IdsOf(loop'.copy) \subseteq OnPhone
  BY SettledCopy, OnPhoneFacts
<1>9. loop.copy \in Queues
  BY DEF Shape, Typed, Loops
<1>10. /\ Good' \subseteq IdsOf(loop'.copy) /\ AllTold(loop'.copy, exposed, dropped', refused')
       /\ \A i \in ToSet(loop'.todo) : i \in exposed \/ i \notin refused' \cup dropped'
       /\ loop'.pc \in {"marking", "sending", "settling"} => Good' \ refused' \subseteq ToSet(loop'.todo)
  <2>1. CASE /\ loop'.copy = Without(loop.copy, Current) /\ refused' = refused
             /\ Record(Current, loop.sender, loop.seen)
    <3>1. Current \notin Good'
      <4>1. rows'[Current] # 0
        BY <1>1, <1>6, <2>1, RecordFacts DEF ServerShape
      <4>2. QED BY <4>1 DEF Good
    <3>2. /\ IdsOf(loop'.copy) = IdsOf(loop.copy) \ {Current}
          /\ \A e \in ToSet(loop'.copy) : e \in ToSet(loop.copy)
      BY <1>9, <2>1, WithoutFacts
    <3>3. Good' \subseteq IdsOf(loop'.copy) /\ Good' \ refused' \subseteq ToSet(loop'.todo)
      BY <1>1, <1>5, <1>7, <2>1, <3>1, <3>2
    <3>4. AllTold(loop'.copy, exposed, dropped', refused')
      BY <1>1, <1>5, <2>1, <3>2 DEF AllTold
    <3>5. QED BY <1>1, <1>5, <2>1, <3>3, <3>4
  <2>2. ASSUME NEW st \in {"failed", "conflict"}, loop'.copy = WithState(loop.copy, Current, st),
               refused' = refused \cup {Current}
        PROVE  <1>10!:
    <3>1. /\ IdsOf(loop'.copy) = IdsOf(loop.copy)
          /\ \A e \in ToSet(loop'.copy) : IF e.id = Current THEN e.state = st ELSE e \in ToSet(loop.copy)
      BY <1>9, <2>2, WithStateFacts DEF States
    <3>2. AllTold(loop'.copy, exposed, dropped', refused')
      BY <1>1, <1>5, <2>2, <3>1 DEF AllTold, Told
    <3>3. Good' \ refused' \subseteq ToSet(loop'.todo)
      BY <1>1, <1>5, <1>7, <2>2
    <3>4. QED BY <1>1, <1>5, <1>7, <2>2, <3>1, <3>2, <3>3
  <2>3. CASE /\ loop'.pc = "stopping" /\ refused' = refused
             /\ loop'.copy = WithState(loop.copy, Current, "pending")
    <3>1. /\ IdsOf(loop'.copy) = IdsOf(loop.copy)
          /\ \A e \in ToSet(loop'.copy) :
               IF e.id = Current THEN e.state = "pending" ELSE e \in ToSet(loop.copy)
      BY <1>9, <2>3, WithStateFacts DEF States
    <3>2. AllTold(loop'.copy, exposed, dropped', refused')
      BY <1>1, <1>5, <2>3, <3>1 DEF AllTold, Told
    <3>3. QED BY <1>1, <1>5, <1>7, <2>3, <3>1, <3>2
  <2>4. QED BY <1>2, <2>1, <2>2, <2>3
<1>11. QED BY <1>1, <1>3, <1>7, <1>8, <1>10, LoopRisk

LEMMA SendRisk ==
  ASSUME Shape, Risk, Calling
  PROVE  Risk'
<1>1. /\ loop.pc \in {"marking", "sending"} /\ loop'.pc = "sending"
      /\ loop'.todo = loop.todo /\ loop'.copy = loop.copy
      /\ UNCHANGED <<user, latest, shown, loading, saving, overlap, stored, rows, late, author,
                     refused, dropped, exposed>>
  BY SendShape
<1>2. loop # Idle /\ loop' # Idle
  BY <1>1, IdleFacts
<1>3. Recent' = Recent /\ (Overlap => Overlap') /\ Good' = Good /\ OnPhone' = OnPhone
  BY <1>1 DEF Recent, SomeBusy, Busy, Overlap, Good, OnPhone
<1>4. Telling => Telling'
  BY <1>1, <1>3 DEF Telling
<1>5. Keeping => Keeping'
  BY <1>1, <1>2, <1>3 DEF Keeping
<1>6. Queueing => Queueing'
  BY <1>1, <1>3 DEF Queueing
<1>7. Calm => Calm'
  BY <1>1, <1>2 DEF Calm, Disturbed
<1>8. QED BY <1>1, <1>3, <1>4, <1>5, <1>6, <1>7 DEF Risk, AllQueued

\* What the server does with a call given up takes nothing from the phone.
LEMMA LateRisk ==
  ASSUME Shape, Risk, NEW t \in Threads, LateLookup(t) \/ LateWrite(t)
  PROVE  Risk'
<1>1. /\ Moves(late[t].id, late[t].by)
      /\ UNCHANGED <<user, latest, shown, loading, loop, saving, overlap, stored, author, order,
                     refused, dropped, exposed>>
  BY LateFacts DEF Shape, Typed
<1>2. Good' \subseteq Good
  <2>1. \A i \in Ids : rows[i] # 0 => rows'[i] # 0
    BY <1>1 DEF Moves
  <2>2. QED BY <1>1, <2>1, GoodShrinks
<1>3. Recent' = Recent /\ (Overlap => Overlap') /\ OnPhone' = OnPhone
  BY <1>1 DEF Recent, SomeBusy, Busy, Overlap, OnPhone
<1>4. Telling => Telling'
  BY <1>1, <1>3 DEF Telling
<1>5. Keeping => Keeping'
  BY <1>1, <1>2, <1>3 DEF Keeping
<1>6. Queueing => Queueing'
  BY <1>1, <1>2 DEF Queueing
<1>7. Calm => Calm'
  BY <1>1 DEF Calm, Disturbed, Busy
<1>8. QED BY <1>1, <1>3, <1>4, <1>5, <1>6, <1>7 DEF Risk, AllQueued

LEMMA SaveRisk ==
  ASSUME Shape, Risk, NEW w \in Writers, SaveDone(w) \/ SaveFails(w)
  PROVE  Risk'
<1>1. /\ Shape' /\ Busy(w) /\ ~Busy(w)' /\ saving'[w].blob = Absent
      /\ \A v \in Writers : v # w => saving'[v] = saving[v] /\ (Busy(v)' <=> Busy(v))
      /\ overlap' = (overlap /\ Busy(Other(w)))
      /\ UNCHANGED <<device, rows, late, author, order, refused, dropped, sentBy>>
      /\ \/ stored' \in Outcomes(w) /\ exposed' = exposed
         \/ stored' = stored /\ exposed' = exposed \cup OnPhone
  BY SaveShape
<1>2. Other(w) \in Writers /\ Other(w) # w /\ \A v \in Writers : v = w \/ v = Other(w)
  BY DEF Writers, Other
<1>3. Overlap'
  BY <1>1, <1>2, WritersFacts DEF Overlap, SomeBusy
<1>4. exposed \subseteq exposed' /\ Good' \subseteq Good
  BY <1>1, GoodShrinks
<1>5. OnPhone' \subseteq OnPhone
  <2>1. stored' = stored \/ stored' = Absent \/ \E v \in Writers : stored' = saving[v].blob
    BY <1>1, OutcomeFacts DEF Shape
  <2>2. IdsOf(stored'.items) \subseteq OnPhone
    BY <2>1, OnPhoneFacts, AbsentFacts, EmptyQueue
  <2>3. \A v \in Writers : IdsOf(saving'[v].blob.items) \subseteq OnPhone
    BY <1>1, OnPhoneFacts, AbsentFacts, EmptyQueue
  <2>4. QED BY <1>1, <2>2, <2>3, OnPhoneFacts, OnPhoneNext DEF device
<1>6. CASE OnPhone \subseteq exposed'
  BY <1>1, <1>3, <1>4, <1>5, <1>6, DrownedStep
<1>7. CASE ~(OnPhone \subseteq exposed')
  <2>1. exposed' = exposed /\ Calm /\ Overlap /\ stored' \in Outcomes(w)
    BY <1>1, <1>7 DEF Risk
  <2>2. ~overlap /\ stored' = saving[w].blob
    BY <2>1 DEF Calm, Outcomes
  <2>3. Recent = {saving[w].blob.items}
    BY <1>1, <2>1, <2>2, RecentFacts
  <2>4. ~Busy(Other(w))
    BY <1>1, <1>2, <2>1, <2>2, WritersFacts DEF Overlap
  <2>5. ~SomeBusy'
    BY <1>1, <1>2, <2>4 DEF SomeBusy
  <2>6. Recent' = {stored'.items}
    BY <2>5 DEF Recent, SomeBusy
  <2>7. Recent' = Recent
    BY <2>2, <2>3, <2>6
  <2>8. Telling' /\ Keeping' /\ Queueing'
    <3>1. Telling'
      BY <1>1, <2>1, <2>7 DEF Risk, AllQueued, Telling, device
    <3>2. Keeping'
      BY <1>1, <1>4, <2>7 DEF Risk, AllQueued, Keeping, device
    <3>3. Queueing'
      BY <1>1, <1>4 DEF Risk, AllQueued, Queueing, device
    <3>4. QED BY <3>1, <3>2, <3>3
  <2>9. Calm'
    <3>1. user \notin loading
      BY <1>1, <2>1 DEF Calm, Disturbed
    <3>2. QED BY <1>1, <2>2, <3>1 DEF Calm, device
  <2>10. QED BY <1>3, <2>8, <2>9 DEF Risk, AllQueued
<1>8. QED BY <1>6, <1>7

LEMMA SwitchRisk ==
  ASSUME Shape, Risk, SignOut \/ \E u \in Users : SignIn(u)
  PROVE  Risk'
<1>1. /\ Shape' /\ latest' = <<>> /\ shown' = Nobody /\ user' \in Accounts
      /\ (user' = Nobody /\ loading' = loading) \/ (user' \in loading' /\ loading' = loading \cup {user'})
      /\ exposed' = exposed \cup (IF Disturbed THEN OnPhone ELSE {})
      /\ UNCHANGED <<loop, saving, overlap, stored, rows, late, author, order, refused, dropped, sentBy>>
  BY SwitchShape
<1>2. Overlap' /\ exposed \subseteq exposed' /\ Good' \subseteq Good
  BY <1>1, GoodShrinks DEF Risk, Overlap, SomeBusy, Busy
<1>3. OnPhone' \subseteq OnPhone
  BY <1>1, OnPhoneFacts, EmptyQueue, OnPhoneNext
<1>4. CASE OnPhone \subseteq exposed'
  BY <1>1, <1>2, <1>3, <1>4, DrownedStep
<1>5. CASE ~(OnPhone \subseteq exposed')
  <2>1. ~Disturbed /\ Calm /\ exposed' = exposed
    BY <1>1, <1>5 DEF Risk
  <2>2. Recent' = Recent /\ ~Disturbed'
    BY <1>1, <2>1 DEF Recent, SomeBusy, Busy, Disturbed
  <2>3. Telling'
    BY <1>1, <2>1, <2>2, EmptyTold DEF Risk, AllQueued, Telling
  <2>4. user' # Nobody => user' \in loading' /\ shown' # user'
    BY <1>1
  <2>5. Keeping'
    <3>1. loop' # Idle => Good' \subseteq IdsOf(loop'.copy)
      BY <1>1, <1>2 DEF Risk, AllQueued, Keeping
    <3>2. \A q \in Recent' : Good' \subseteq IdsOf(q)
      BY <1>2, <2>2 DEF Risk, AllQueued, Keeping
    <3>3. QED BY <2>4, <3>1, <3>2 DEF Keeping
  <2>6. Queueing'
    BY <1>1, <1>2 DEF Risk, AllQueued, Queueing
  <2>7. user' \in loading' => user' # Nobody
    BY <1>1, NobodyAssumption DEF Shape, Typed
  <2>8. Calm'
    BY <1>1, <2>1, <2>2, <2>4, <2>7 DEF Calm
  <2>9. QED BY <1>2, <2>3, <2>5, <2>6, <2>8 DEF Risk, AllQueued
<1>6. QED BY <1>4, <1>5

LEMMA LoadRisk ==
  ASSUME Shape, Risk, NEW u \in Users, Load(u)
  PROVE  Risk'
<1>1. /\ u \in loading /\ loading' = loading \ {u}
      /\ stored' = IF OwnQueue(u) THEN stored ELSE Absent
      /\ latest' = IF user # u THEN latest
                   ELSE IF OwnQueue(u) THEN Resumed(stored.items) ELSE <<>>
      /\ shown' = IF user = u THEN u ELSE shown
      /\ exposed' = exposed \cup (IF OwnQueue(u) THEN {} ELSE IdsOf(stored.items))
      /\ UNCHANGED <<user, loop, saving, overlap, rows, late, author, order, refused, dropped, sentBy>>
  BY DEF Load, server
<1>2. Shape'
  BY LoadShape
<1>3. /\ Overlap' /\ exposed \subseteq exposed' /\ Good' \subseteq Good
      /\ \A v \in Writers : Busy(v)' <=> Busy(v)
  BY <1>1, GoodShrinks DEF Risk, Overlap, SomeBusy, Busy
<1>4. /\ stored.items \in Queues
      /\ IdsOf(Resumed(stored.items)) = IdsOf(stored.items)
  BY ResumedFacts DEF Shape, Typed, Blobs
<1>5. OnPhone' \subseteq OnPhone
  BY <1>1, <1>4, OnPhoneFacts, EmptyQueue, AbsentFacts, OnPhoneNext
<1>6. CASE OnPhone \subseteq exposed'
  BY <1>2, <1>3, <1>5, <1>6, DrownedStep
<1>7. CASE ~(OnPhone \subseteq exposed')
  <2>1. Calm /\ Telling /\ Keeping /\ Queueing /\ Overlap
    BY <1>3, <1>7 DEF Risk, AllQueued
  <2>2. Recent' = Recent \/ (Recent = {stored.items} /\ Recent' = {<<>>} /\ ~OwnQueue(u))
    <3>1. CASE SomeBusy \/ OwnQueue(u)
      BY <1>1, <3>1 DEF Recent, SomeBusy, Busy
    <3>2. CASE ~SomeBusy /\ ~OwnQueue(u)
      BY <1>1, <1>3, <3>2, AbsentFacts DEF Recent, SomeBusy
    <3>3. QED BY <3>1, <3>2
  <2>3. Recent = {stored.items} /\ ~OwnQueue(u) => Good' = {}
    <3>1. \A i \in Good' : i \notin exposed'
      BY DEF Good
    <3>2. QED BY <1>1, <1>3, <2>1, <3>1 DEF Keeping
  <2>4. user = u => Recent = {stored.items}
    BY <1>1, <2>1, RecentFacts DEF Calm, Disturbed, SomeBusy
  <2>5. \A q \in Recent' : Good' \subseteq IdsOf(q) /\ AllTold(q, exposed', dropped, refused)
    <3>1. \A q \in Recent : AllTold(q, exposed', dropped, refused)
      BY <1>3, <2>1, ToldMore DEF Telling
    <3>2. QED BY <1>3, <2>1, <2>2, <2>3, <3>1, EmptyTold DEF Keeping
  <2>6. /\ AllTold(latest', exposed', dropped, refused)
        /\ user # Nobody /\ (user \notin loading' \/ shown' = user) => Good' \subseteq IdsOf(latest')
    <3>1. CASE user # u
      <4>1. AllTold(latest', exposed', dropped, refused)
        BY <1>1, <1>3, <2>1, <3>1, ToldMore DEF Telling
      <4>2. QED BY <1>1, <1>3, <2>1, <3>1, <4>1 DEF Keeping
    <3>2. CASE user = u /\ ~OwnQueue(u)
      BY <1>1, <2>3, <2>4, <3>2, EmptyTold
    <3>3. CASE user = u /\ OwnQueue(u)
      <4>1. latest' = Resumed(stored.items) /\ stored.items \in Recent /\ exposed' = exposed
        BY <1>1, <2>4, <3>3
      <4>2. \A e \in ToSet(latest') : \E d \in ToSet(stored.items) :
              e.id = d.id /\ (e.state \in {"failed", "conflict"} <=> d.state \in {"failed", "conflict"})
        BY <1>4, <4>1, ResumedFacts
      <4>3. AllTold(stored.items, exposed, dropped, refused) /\ Good \subseteq IdsOf(stored.items)
        BY <2>1, <4>1 DEF Telling, Keeping
      <4>4. AllTold(latest', exposed', dropped, refused)
        BY <4>1, <4>2, <4>3 DEF AllTold, Told
      <4>5. QED BY <1>3, <1>4, <4>1, <4>3, <4>4
    <3>4. QED BY <3>1, <3>2, <3>3
  <2>7. AllTold(loop.copy, exposed', dropped, refused)
    BY <1>3, <2>1, ToldMore DEF Telling
  <2>8. Telling'
    <3>1. \A i \in ToSet(loop.todo) : i \in exposed' \/ i \notin refused \cup dropped
      BY <1>3, <2>1 DEF Telling
    <3>2. QED BY <1>1, <2>5, <2>6, <2>7, <3>1 DEF Telling
  <2>9. Keeping'
    BY <1>1, <1>3, <2>1, <2>5, <2>6 DEF Keeping
  <2>10. Queueing'
    BY <1>1, <1>3, <2>1 DEF Queueing
  <2>11. Calm'
    BY <1>1, <1>3, <2>1 DEF Calm, Disturbed
  <2>12. QED BY <1>3, <2>8, <2>9, <2>10, <2>11 DEF Risk, AllQueued
<1>8. QED BY <1>6, <1>7

PartOf(S, i) == {e \in S : e.id = i}

LEMMA SamePart ==
  ASSUME NEW A, NEW B, NEW i, PartOf(A, i) = PartOf(B, i)
  PROVE  \A e : e.id = i => (e \in A <=> e \in B)
BY DEF PartOf

\* What a write cut off did not change in the storage was there already.
LEMMA CutOff ==
  ASSUME NEW q \in Queues, NEW r \in Queues, NEW i,
         PartOf(ToSet(Resumed(q)), i) = PartOf(ToSet(Resumed(r)), i)
  PROVE  /\ i \in IdsOf(q) <=> i \in IdsOf(r)
         /\ \A e \in ToSet(r) : e.id = i => \E d \in ToSet(q) :
              d.id = i /\ (e.state \in {"failed", "conflict"} <=> d.state \in {"failed", "conflict"})
<1>1. /\ IdsOf(Resumed(q)) = IdsOf(q) /\ IdsOf(Resumed(r)) = IdsOf(r)
      /\ \A e \in ToSet(Resumed(q)) : \E d \in ToSet(q) :
           e.id = d.id /\ (e.state \in {"failed", "conflict"} <=> d.state \in {"failed", "conflict"})
      /\ \A d \in ToSet(r) : \E e \in ToSet(Resumed(r)) :
           e.id = d.id /\ (e.state \in {"failed", "conflict"} <=> d.state \in {"failed", "conflict"})
  BY ResumedFacts
<1>2. \A e : e.id = i => (e \in ToSet(Resumed(q)) <=> e \in ToSet(Resumed(r)))
  BY SamePart
<1>3. i \in IdsOf(Resumed(q)) <=> i \in IdsOf(Resumed(r))
  BY <1>2 DEF IdsOf
<1>4. ASSUME NEW e \in ToSet(r), e.id = i
      PROVE  \E d \in ToSet(q) :
               d.id = i /\ (e.state \in {"failed", "conflict"} <=> d.state \in {"failed", "conflict"})
  <2>1. PICK f \in ToSet(Resumed(r)) :
          f.id = e.id /\ (f.state \in {"failed", "conflict"} <=> e.state \in {"failed", "conflict"})
    BY <1>1
  <2>2. f \in ToSet(Resumed(q))
    BY <1>2, <1>4, <2>1
  <2>3. QED BY <1>1, <1>4, <2>1, <2>2
<1>5. QED BY <1>1, <1>3, <1>4

LEMMA CrashRisk ==
  ASSUME Shape, Risk, Crash
  PROVE  Risk'
<1>1. /\ latest' = <<>> /\ shown' = Nobody /\ loop' = Idle /\ loading' = {user} \ {Nobody}
      /\ stored' \in {stored} \cup UNION {Outcomes(w) : w \in {x \in Writers : Busy(x)}}
      /\ overlap' = FALSE /\ exposed' = exposed \cup Unsaved
      /\ Cut /\ UNCHANGED <<user, author, order, refused, dropped>>
  BY DEF Crash
<1>2. Shape' /\ \A w \in Writers : ~Busy(w)' /\ saving'[w].blob = Absent
  BY CrashShape
<1>3. ~SomeBusy' /\ Overlap' /\ Recent' = {stored'.items}
  BY <1>1, <1>2, WritersFacts DEF SomeBusy, Overlap, Recent
<1>4. exposed \subseteq exposed' /\ Good' \subseteq Good
  <2>1. \A i \in Ids : rows[i] # 0 => rows'[i] # 0
    BY <1>1, CutFacts DEF Ended, Moves
  <2>2. QED BY <1>1, <2>1, GoodShrinks
<1>5. OnPhone' \subseteq OnPhone
  <2>1. stored' = stored \/ stored' = Absent \/ \E v \in Writers : stored' = saving[v].blob
    BY <1>1, OutcomeFacts DEF Shape
  <2>2. IdsOf(stored'.items) \subseteq OnPhone
    BY <2>1, OnPhoneFacts, AbsentFacts, EmptyQueue
  <2>3. QED BY <1>1, <1>2, <2>2, AbsentFacts, IdleFacts, EmptyQueue, OnPhoneNext
<1>6. CASE OnPhone \subseteq exposed'
  BY <1>2, <1>3, <1>4, <1>5, <1>6, DrownedStep
<1>7. CASE ~(OnPhone \subseteq exposed')
  <2>1. Calm /\ Overlap /\ Telling /\ Keeping
    BY <1>4, <1>7 DEF Risk, AllQueued
  <2>2. \A q \in Recent : Good \subseteq IdsOf(q) /\ AllTold(q, exposed, dropped, refused)
    BY <2>1 DEF Telling, Keeping
  <2>3. Good' \subseteq IdsOf(stored'.items) /\ AllTold(stored'.items, exposed', dropped, refused)
    <3>1. CASE stored'.items \in Recent
      BY <1>4, <2>2, <3>1, ToldMore
    <3>2. ASSUME NEW w \in Writers, Busy(w), stored' = stored
          PROVE  <2>3!:
      <4>1. /\ stored \in Blobs /\ saving[w].blob \in Blobs
            /\ ToSet(stored.items) \subseteq Items /\ IdsOf(stored.items) \subseteq Ids
        BY QueueShape, IdsOfTyped DEF Shape, Typed, Blobs
      <4>2. Recent = {saving[w].blob.items}
        BY <2>1, <3>2, RecentFacts DEF Calm
      <4>3. ASSUME NEW i \in Ids, i \notin exposed'
            PROVE  {e \in ToSet(Resumed(saving[w].blob.items)) : e.id = i}
                     = {e \in ToSet(Resumed(stored.items)) : e.id = i}
        BY <1>1, <3>2, <4>3 DEF Unsaved
      <4>4. ASSUME NEW i \in Ids, i \notin exposed'
            PROVE  /\ i \in IdsOf(saving[w].blob.items) <=> i \in IdsOf(stored.items)
                   /\ \A e \in ToSet(stored.items) : e.id = i => \E d \in ToSet(saving[w].blob.items) :
                        d.id = i /\ (e.state \in {"failed", "conflict"} <=> d.state \in {"failed", "conflict"})
        <5>1. PartOf(ToSet(Resumed(saving[w].blob.items)), i) = PartOf(ToSet(Resumed(stored.items)), i)
          BY <4>3, <4>4 DEF PartOf
        <5>2. saving[w].blob.items \in Queues /\ stored.items \in Queues
          BY <4>1 DEF Blobs
        <5>3. QED BY <5>1, <5>2, CutOff
      <4>5. Good' \subseteq IdsOf(stored.items)
        <5>1. \A i \in Good' : i \in Ids /\ i \notin exposed' /\ i \in IdsOf(saving[w].blob.items)
          BY <1>4, <2>2, <4>2 DEF Good
        <5>2. QED BY <4>4, <5>1
      <4>6. AllTold(stored.items, exposed', dropped, refused)
        <5>1. SUFFICES ASSUME NEW e \in ToSet(stored.items), e.id \notin exposed'
                       PROVE  e.id \notin dropped /\ (e.id \in refused <=> e.state \in {"failed", "conflict"})
          BY DEF AllTold, Told
        <5>2. e.id \in Ids
          BY <4>1 DEF Items
        <5>3. PICK d \in ToSet(saving[w].blob.items) :
                d.id = e.id /\ (e.state \in {"failed", "conflict"} <=> d.state \in {"failed", "conflict"})
          BY <4>4, <5>1, <5>2
        <5>4. Told(d, exposed, dropped, refused)
          BY <2>2, <4>2 DEF AllTold
        <5>5. QED BY <1>4, <5>1, <5>3, <5>4 DEF Told
      <4>7. QED BY <3>2, <4>5, <4>6
    <3>3. CASE ~SomeBusy
      <4>1. stored' = stored
        BY <1>1, <3>3 DEF SomeBusy
      <4>2. QED BY <2>1, <3>1, <3>3, <4>1, RecentFacts
    <3>4. CASE SomeBusy
      <4>1. stored' = stored \/ \E w \in Writers : Busy(w) /\ stored' \in Outcomes(w)
        BY <1>1
      <4>2. ASSUME NEW w \in Writers, Busy(w), stored' \in Outcomes(w) PROVE stored'.items \in Recent
        <5>1. stored' = saving[w].blob
          BY <2>1, <4>2 DEF Calm, Outcomes
        <5>2. QED BY <2>1, <4>2, <5>1, RecentFacts DEF Calm
      <4>3. PICK w \in Writers : Busy(w)
        BY <3>4 DEF SomeBusy
      <4>4. QED BY <3>1, <3>2, <4>1, <4>2, <4>3
    <3>5. QED BY <3>3, <3>4
  <2>4. Telling'
    BY <1>1, <1>3, <2>3, EmptyTold, IdleFacts, EmptyQueue DEF Telling
  <2>5. Keeping'
    BY <1>1, <1>3, <2>3 DEF Keeping
  <2>6. Queueing'
    BY <1>1, IdleFacts DEF Queueing
  <2>7. Calm'
    BY <1>1, <1>2 DEF Calm, Disturbed
  <2>8. QED BY <1>3, <2>4, <2>5, <2>6, <2>7 DEF Risk, AllQueued
<1>8. QED BY <1>6, <1>7

LEMMA NextRisk ==
  ASSUME Shape, Risk, [Next]_vars
  PROVE  Risk'
<1>1. CASE UNCHANGED vars
  <2>1. /\ Recent' = Recent /\ Good' = Good /\ OnPhone' = OnPhone /\ (Overlap' <=> Overlap)
        /\ (Disturbed' <=> Disturbed)
    BY <1>1 DEF vars, device, storage, server, history, Recent, SomeBusy, Busy, Good, OnPhone, Overlap, Disturbed
  <2>2. AllQueued'
    BY <1>1, <2>1 DEF vars, device, storage, server, history, Risk, AllQueued, Telling, Keeping, Queueing
  <2>3. QED BY <1>1, <2>1, <2>2 DEF vars, device, storage, server, history, Risk, Calm
<1>2. CASE Next
  BY <1>2, Steps, LoadRisk, SwitchRisk, SubmitRisk, DiscardRisk, RetryRisk, StartRisk, SendRisk,
     LateRisk, ContinueRisk, SettlingRisk, CrashRisk, SaveRisk
<1>3. QED BY <1>1, <1>2

LEMMA RiskHolds == Spec => [](Shape /\ Risk)
<1>1. Init => Shape /\ Risk
  BY InitShape, InitRisk
<1>2. Shape /\ Risk /\ [Next]_vars => Shape' /\ Risk'
  BY NextShape, NextRisk
<1>3. QED BY <1>1, <1>2, PTL DEF Spec

\* "Rien n'est perdu" (sync.ts:19-20): what is not on the server, not discarded and not exposed is
\* in what the storage will hold once it is at rest.
THEOREM NothingLostHolds == Spec => []NothingLost
<1>1. Shape /\ Risk => NothingLost
  <2>1. SUFFICES ASSUME Shape, Risk, NEW i \in Ids \ (exposed \cup dropped),
                        author[i] # Nobody, rows[i] = 0
                 PROVE  Durable(i)
    <3>1. Shape => \A j \in Ids : rows[j] = 0 \/ rows[j] > 0
      BY DEF Shape, Typed, ServerShape
    <3>2. QED BY <3>1 DEF NothingLost
  <2>2. i \in Good
    BY <2>1 DEF Good
  <2>3. \A q \in Recent : i \in IdsOf(q)
    BY <2>1, <2>2 DEF Risk, AllQueued, Keeping
  <2>4. PICK q \in Recent : i \in IdsOf(q)
    BY <2>3, RecentFacts
  <2>5. QED BY <2>4 DEF Recent, Durable
<1>2. QED BY <1>1, RiskHolds, PTL

\* No step sends again what the server refused or the user discarded: what the loop still has to
\* send was pending in a queue that says so (docs/ARCHITECTURE.md:208).
THEOREM NotSentAgainHolds == Spec => NotSentAgain
<1>1. Shape /\ Risk /\ [Next]_vars => [\A i \in refused \cup dropped : Starts(i) => i \in exposed]_vars
  <2>1. SUFFICES ASSUME Shape, Risk, NEW i \in refused \cup dropped, Starts(i) PROVE i \in exposed
    OBVIOUS
  <2>2. loop.pc = "marking" /\ Current = i
    BY <2>1 DEF Starts
  <2>3. loop.todo \in Seq(Ids) /\ loop.todo # <<>>
    BY <2>1, <2>2 DEF Shape, Typed, Loops, LoopShape, TodoShape, Marked
  <2>4. i \in ToSet(loop.todo)
    BY <2>2, <2>3, TailFacts DEF Current
  <2>5. QED BY <2>1, <2>4 DEF Risk, AllQueued, Telling
<1>2. QED BY <1>1, RiskHolds, PTL DEF Spec, NotSentAgain

\* Whatever is still to be sent is in the list of the loop, after the incident that leaves if it
\* was entered after it: an incident never overtakes an earlier one of its author (sync.ts:36-60).
THEOREM SentInOrderHolds == Spec => SentInOrder
<1>1. Shape /\ Risk /\ [Next]_vars
        => [\A i, j \in Ids : Starts(i) /\ Before(j, i) /\ author[i] = author[j] /\ i \notin exposed
                                => ~Awaited(j)]_vars
  <2>1. SUFFICES ASSUME Shape, Risk, NEW i \in Ids, NEW j \in Ids, Starts(i), Before(j, i), Awaited(j)
                 PROVE  FALSE
    OBVIOUS
  <2>2. loop.pc = "marking" /\ Current = i /\ loop.todo # <<>> /\ loop \in Loops
        /\ TodoShape(loop, order) /\ HistoryShape
    BY <2>1 DEF Starts, Shape, LoopShape, TodoShape, Marked, Typed
  <2>3. j \in ToSet(order) /\ Earlier(j, i, order)
    BY <2>1 DEF Before, Earlier, ToSet
  <2>4. j \in Good /\ j \notin refused
    BY <2>1, <2>2, <2>3 DEF Awaited, Good, HistoryShape
  <2>5. j \in ToSet(loop.todo)
    BY <2>1, <2>2, <2>4 DEF Risk, AllQueued, Queueing
  <2>6. j # i
    BY <2>2, <2>3, NotEarlierThanItself
  <2>7. Earlier(i, j, order)
    BY <2>2, <2>5, <2>6, NextOnes DEF Current
  <2>8. QED BY <2>2, <2>3, <2>7, OneBeforeTheOther
<1>2. QED BY <1>1, RiskHolds, PTL DEF Spec, SentInOrder


================================================================================
