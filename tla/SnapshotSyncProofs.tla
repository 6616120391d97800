--------------------------- MODULE SnapshotSyncProofs ---------------------------
(***************************************************************************)
(* Proofs about SnapshotSync, for any collections, entries and calls.      *)
(*                                                                         *)
(* A save erases nothing of the other stations because it carries only     *)
(* what this station has touched: outside of it the copy is what was last  *)
(* loaded or saved, unless a change of rights has emptied it (Untouched),  *)
(* so a payload is empty there (Carried), and the server takes no empty    *)
(* collection.                                                             *)
(*                                                                         *)
(* What was said to be saved stays because an entry of this station is in  *)
(* one collection, its home, in every place that may be written over the   *)
(* server's: the copy, a payload, a snapshot not applied yet, the copies   *)
(* of the other stations (OwnInv).                                         *)
(***************************************************************************)
EXTENDS SnapshotSync, TLAPS

\* The two halves of TypeOK: the data, and the calls that load it.
DataTyped ==
  /\ server \in Contents /\ db \in Contents /\ others \in [Others -> Contents]
  /\ cache \in Contents \cup {NoSnapshot} /\ baseline \in Contents \cup {NoSnapshot}
  /\ {dirty, ready, hydrated, session, again, blank} \subseteq BOOLEAN
  /\ save \in [pc : {"idle", "sent", "applied"}, payload : Contents,
               scope : SUBSET Collections, signed : BOOLEAN, blank : BOOLEAN]
  /\ events \in 0 .. MaxEvents
  /\ hydrated => baseline # NoSnapshot
  /\ again => save.pc # "idle" \/ dirty

PullsTyped ==
  /\ pull \in [Callers -> [pc : Running \cup {"idle", "waiting", "woken"},
                           snapshot : Contents \cup {NoSnapshot}]]
  /\ flight \in Callers \cup {NoCaller}
  /\ \A k \in Callers : pull[k].pc \in Running <=> flight = k
  /\ \A k \in Callers : pull[k].pc \in {"reading", "answered"} => pull[k].snapshot # NoSnapshot

\* Collections changed here are among those that exist.
TouchedTyped == touched \subseteq Collections

\* Outside of what was touched the copy is what was last loaded or saved, unless it was emptied.
Untouched ==
  baseline # NoSnapshot /\ ~blank => \A c \in Collections \ touched : db[c] = baseline[c]

\* The payload of a copy that was not emptied is empty outside of what was touched.
Carried ==
  save.pc = "sent" /\ ~save.blank => \A c \in Collections \ save.scope : save.payload[c] = {}

Inv == DataTyped /\ PullsTyped /\ TouchedTyped /\ Untouched /\ Carried

--------------------------------------------------------------------------------
(* What the operators return.                                              *)

LEMMA SplitType == TypeOK <=> DataTyped /\ PullsTyped
BY DEF TypeOK, DataTyped, PullsTyped

LEMMA NothingTyped == Nothing \in Contents
BY DEF Nothing, Contents

\* The defaults join the settings, and nothing else moves.
LEMMA FilledTyped ==
  ASSUME NEW f \in Contents
  PROVE  /\ Filled(f) \in Contents
         /\ \A c \in Collections : f[c] \subseteq Filled(f)[c] /\ Filled(f)[c] \subseteq f[c] \cup {Default}
BY SettingsAssumption DEF Filled, Contents, Items

LEMMA EmptyDBTyped == EmptyDB \in Contents /\ \A c \in Collections : EmptyDB[c] \subseteq {Default}
BY NothingTyped, FilledTyped DEF EmptyDB, Nothing

\* An entry joins a collection of the copy.
LEMMA AddedTyped ==
  ASSUME NEW f \in Contents, NEW c \in Collections, NEW e \in Items
  PROVE  [f EXCEPT ![c] = @ \cup {e}] \in Contents
BY DEF Contents

\* The server keeps its own collections where the payload is empty.
LEMMA ReplacedTyped ==
  ASSUME NEW old \in Contents, NEW new \in Contents
  PROVE  /\ Replaced(old, new) \in Contents
         /\ \A c \in Collections : new[c] = {} => Replaced(old, new)[c] = old[c]
BY DEF Contents, Replaced

\* What a turn of the saving loop sends is well formed, and empty outside of its scope unless
\* the copy was emptied.
LEMMA PutTyped ==
  ASSUME DataTyped, TouchedTyped, Untouched
  PROVE  /\ Put \in [pc : {"idle", "sent", "applied"}, payload : Contents,
                     scope : SUBSET Collections, signed : BOOLEAN, blank : BOOLEAN]
         /\ Put.pc = "sent" /\ Put.blank = blank
         /\ ~blank => \A c \in Collections \ Put.scope : Put.payload[c] = {}
<1>1. Payload \in Contents
  BY DEF DataTyped, Contents, Payload
<1>2. ASSUME ~blank, NEW c \in Collections, c \notin Put.scope
      PROVE  Put.payload[c] = {}
  <2>1. baseline # NoSnapshot /\ c \notin touched
    BY <1>2 DEF Put
  <2>2. db[c] = baseline[c]
    BY <1>2, <2>1 DEF Untouched
  <2>3. QED BY <2>1, <2>2 DEF Put, Payload, Changed
<1>3. Put \in [pc : {"idle", "sent", "applied"}, payload : Contents,
               scope : SUBSET Collections, signed : BOOLEAN, blank : BOOLEAN]
  BY <1>1 DEF Put, DataTyped, TouchedTyped
<1>4. QED BY <1>2, <1>3 DEF Put

--------------------------------------------------------------------------------
(* The steps.                                                              *)

LEMMA InitInv == Init => Inv
<1>1. Init => DataTyped
  <2> SUFFICES ASSUME Init PROVE DataTyped
    OBVIOUS
  <2>1. save \in [pc : {"idle", "sent", "applied"}, payload : Contents,
                  scope : SUBSET Collections, signed : BOOLEAN, blank : BOOLEAN]
    BY NothingTyped DEF Init, NoSave
  <2>2. events \in 0 .. MaxEvents
    BY EventsAssumption DEF Init
  <2>3. hydrated = FALSE /\ again = FALSE
    BY DEF Init
  <2>4. {dirty, ready, hydrated, session, again, blank} \subseteq BOOLEAN
    BY DEF Init
  <2>5. server \in Contents /\ db \in Contents /\ others \in [Others -> Contents]
    BY NothingTyped, EmptyDBTyped DEF Init
  <2>6. cache = NoSnapshot /\ baseline = NoSnapshot
    BY DEF Init
  <2>7. QED BY <2>1, <2>2, <2>3, <2>4, <2>5, <2>6 DEF DataTyped
<1>2. Init => PullsTyped
  BY NamesAssumption DEF Init, PullsTyped, NoPull, Running
<1>3. Init => TouchedTyped /\ Untouched /\ Carried
  BY DEF Init, TouchedTyped, Untouched, Carried, NoSave
<1>4. QED BY <1>1, <1>2, <1>3 DEF Inv

\* A user adds an entry.
LEMMA EditStep ==
  ASSUME Inv, NEW c \in Collections, NEW e \in Entries, Edit(c, e)
  PROVE  Inv'
<1>1. db' \in Contents /\ touched' = touched \cup {c}
  BY AddedTyped DEF Edit, Inv, DataTyped, Items
<1>2. db' = [db EXCEPT ![c] = @ \cup {e}] /\ db \in Contents
  BY DEF Edit, Inv, DataTyped
<1>3. save' \in [pc : {"idle", "sent", "applied"}, payload : Contents,
                 scope : SUBSET Collections, signed : BOOLEAN, blank : BOOLEAN]
      /\ (again' => save'.pc # "idle" \/ dirty') /\ again' \in BOOLEAN /\ ready' \in BOOLEAN
      /\ Carried'
  <2>0. again \in BOOLEAN /\ ready \in BOOLEAN /\ dirty' = TRUE
    BY DEF Edit, Inv, DataTyped
  <2>1. CASE UNCHANGED save
    BY <2>0, <2>1 DEF Edit, Inv, DataTyped, Carried, MaySave
  <2>2. CASE save' = [Put EXCEPT !.payload[c] = db[c] \cup {e}, !.scope = @ \cup {c}] /\ again' = FALSE
    <3>1. db[c] \cup {e} \in SUBSET Items
      BY <1>2 DEF Contents, Items
    <3>2. Put.payload \in Contents
      BY PutTyped DEF Inv
    <3>3. [Put.payload EXCEPT ![c] = db[c] \cup {e}] \in Contents
      BY <3>1, <3>2 DEF Contents
    <3>4. save' = [pc |-> "sent", payload |-> [Put.payload EXCEPT ![c] = db[c] \cup {e}],
                   scope |-> Put.scope \cup {c}, signed |-> session, blank |-> blank]
      BY <2>2 DEF Put
    <3>5. session \in BOOLEAN /\ blank \in BOOLEAN
      BY DEF Inv, DataTyped
    <3>6. Put.scope \subseteq Collections
      BY PutTyped DEF Inv
    <3>7. ~blank => \A d \in Collections \ (Put.scope \cup {c}) : Put.payload[d] = {}
      BY PutTyped DEF Inv
    <3>8. Carried'
      BY <3>2, <3>4, <3>7 DEF Carried, Contents
    <3>9. ready' \in BOOLEAN
      BY <2>0 DEF Edit
    <3>10. save' \in [pc : {"idle", "sent", "applied"}, payload : Contents,
                 scope : SUBSET Collections, signed : BOOLEAN, blank : BOOLEAN]
      BY <3>3, <3>4, <3>5, <3>6
    <3>11. QED BY <2>0, <2>2, <3>8, <3>9, <3>10
  <2>3. QED BY <2>1, <2>2 DEF Edit
<1>4. DataTyped'
  BY <1>1, <1>3 DEF rest, Edit, Inv, DataTyped
<1>5. PullsTyped'
  BY DEF rest, Edit, Inv, PullsTyped
<1>6. TouchedTyped' /\ Untouched'
  BY <1>1, <1>2 DEF Edit, Inv, TouchedTyped, Untouched, Contents
<1>7. QED BY <1>3, <1>4, <1>5, <1>6 DEF Inv

\* The steps of the saving loop.
LEMMA SavingStep ==
  ASSUME Inv, AutoSave \/ ServerReplace \/ Saved \/ SaveFails
  PROVE  Inv'
<1>1. CASE AutoSave
  <2>1. save' = save \/ save' = Put
    BY <1>1 DEF AutoSave, BackendSave
  <2>2. Carried' /\ save' \in [pc : {"idle", "sent", "applied"}, payload : Contents,
                scope : SUBSET Collections, signed : BOOLEAN, blank : BOOLEAN]
    BY <2>1, PutTyped DEF Inv, DataTyped, Carried
  <2>3. again' \in BOOLEAN /\ (again' => dirty')
    BY <1>1 DEF AutoSave, BackendSave, copy
  <2>4. DataTyped'
    BY <1>1, <2>2, <2>3 DEF rest, AutoSave, copy, history, Inv, DataTyped
  <2>5. (PullsTyped /\ TouchedTyped /\ Untouched)'
    BY <1>1 DEF rest, AutoSave, copy, history, Inv, PullsTyped, TouchedTyped, Untouched
  <2>6. QED BY <2>2, <2>4, <2>5 DEF Inv
<1>2. CASE ServerReplace
  <2>1. server' \in Contents
    BY <1>2, ReplacedTyped DEF ServerReplace, Inv, DataTyped
  <2>2. save'.pc = "applied" /\ save' \in [pc : {"idle", "sent", "applied"}, payload : Contents,
                scope : SUBSET Collections, signed : BOOLEAN, blank : BOOLEAN]
    BY <1>2 DEF ServerReplace, Inv, DataTyped
  <2>3. DataTyped'
    BY <1>2, <2>1, <2>2 DEF rest, ServerReplace, copy, history, Inv, DataTyped
  <2>4. (PullsTyped /\ TouchedTyped /\ Untouched /\ Carried)'
    BY <1>2, <2>2 DEF rest, ServerReplace, copy, history, Inv, PullsTyped, TouchedTyped, Untouched, Carried
  <2>5. QED BY <2>3, <2>4 DEF Inv
<1>3. CASE Saved
  <2>1. CASE save' = Put /\ UNCHANGED <<baseline, acked, touched>>
    <3>1. Carried' /\ save' \in [pc : {"idle", "sent", "applied"}, payload : Contents,
                  scope : SUBSET Collections, signed : BOOLEAN, blank : BOOLEAN]
      BY <2>1, PutTyped DEF Inv, DataTyped, Carried
    <3>2. DataTyped'
      BY <1>3, <2>1, <3>1 DEF rest, Saved, Inv, DataTyped
    <3>3. (PullsTyped /\ TouchedTyped /\ Untouched)'
      BY <1>3, <2>1 DEF rest, Saved, Inv, PullsTyped, TouchedTyped, Untouched
    <3>4. QED BY <3>1, <3>2, <3>3 DEF Inv
  <2>2. CASE save' = NoSave /\ baseline' = NewBaseline /\ touched' = {}
    <3>1. baseline' = db' /\ db' \in Contents /\ baseline' # NoSnapshot
      BY <1>3, <2>2, NamesAssumption DEF Saved, NewBaseline, Inv, DataTyped
    <3>2. save' \in [pc : {"idle", "sent", "applied"}, payload : Contents,
                  scope : SUBSET Collections, signed : BOOLEAN, blank : BOOLEAN] /\ save'.pc = "idle"
      BY <2>2, NothingTyped DEF NoSave
    <3>3. DataTyped'
      BY <1>3, <2>2, <3>1, <3>2 DEF rest, Saved, Inv, DataTyped
    <3>4. (PullsTyped /\ TouchedTyped /\ Untouched /\ Carried)'
      BY <1>3, <2>2, <3>1, <3>2 DEF rest, Saved, Inv, PullsTyped, TouchedTyped, Untouched, Carried
    <3>5. QED BY <3>3, <3>4 DEF Inv
  <2>3. QED BY <1>3, <2>1, <2>2 DEF Saved
<1>4. CASE SaveFails
  <2>1. save' \in [pc : {"idle", "sent", "applied"}, payload : Contents,
                scope : SUBSET Collections, signed : BOOLEAN, blank : BOOLEAN] /\ save'.pc = "idle"
    BY <1>4, NothingTyped DEF SaveFails, NoSave
  <2>2. events' \in 0 .. MaxEvents
    BY <1>4, EventsAssumption DEF SaveFails, Event, Inv, DataTyped
  <2>3. DataTyped'
    BY <1>4, <2>1, <2>2 DEF SaveFails, history, Inv, DataTyped
  <2>4. (PullsTyped /\ TouchedTyped /\ Untouched /\ Carried)'
    BY <1>4, <2>1 DEF SaveFails, history, Inv, PullsTyped, TouchedTyped, Untouched, Carried
  <2>5. QED BY <2>3, <2>4 DEF Inv
<1>5. QED BY <1>1, <1>2, <1>3, <1>4

\* A call takes the free place, or waits.
LEMMA TakeOrWait ==
  ASSUME PullsTyped, NEW k \in Callers, pull[k].pc \notin Running,
         \/ pull' = Becomes(k, "asked") /\ flight = NoCaller /\ flight' = k
         \/ pull' = Becomes(k, "waiting") /\ UNCHANGED flight
  PROVE  PullsTyped'
<1>1. CASE pull' = Becomes(k, "asked") /\ flight = NoCaller /\ flight' = k
  <2>1. \A j \in Callers : j # k => pull'[j] = pull[j] /\ pull'[j].pc \notin Running
    BY <1>1, NamesAssumption DEF Becomes, PullsTyped
  <2>2. pull'[k].pc = "asked" /\ "asked" \in Running
    BY <1>1 DEF Becomes, PullsTyped, Running
  <2>3. pull' \in [Callers -> [pc : Running \cup {"idle", "waiting", "woken"},
                               snapshot : Contents \cup {NoSnapshot}]]
    BY <1>1 DEF Becomes, PullsTyped, Running
  <2>4. QED BY <1>1, <2>1, <2>2, <2>3 DEF PullsTyped
<1>2. CASE pull' = Becomes(k, "waiting") /\ UNCHANGED flight
  <2>1. \A j \in Callers : j # k => pull'[j] = pull[j]
    BY <1>2 DEF Becomes, PullsTyped
  <2>2. pull'[k].pc = "waiting" /\ "waiting" \notin Running
    BY <1>2 DEF Becomes, PullsTyped, Running
  <2>3. pull' \in [Callers -> [pc : Running \cup {"idle", "waiting", "woken"},
                               snapshot : Contents \cup {NoSnapshot}]]
    BY <1>2 DEF Becomes, PullsTyped, Running
  <2>4. flight # k
    BY DEF PullsTyped
  <2>5. QED BY <1>2, <2>1, <2>2, <2>3, <2>4 DEF PullsTyped
<1>3. QED BY <1>1, <1>2

\* A running call goes on to another of its places.
LEMMA GoesOn ==
  ASSUME PullsTyped, NEW k \in Callers, pull[k].pc \in Running, UNCHANGED flight,
         NEW pc \in Running, NEW snapshot \in Contents \cup {NoSnapshot},
         pc \in {"reading", "answered"} => snapshot # NoSnapshot,
         pull' = [pull EXCEPT ![k] = [pc |-> pc, snapshot |-> snapshot]]
  PROVE  PullsTyped'
<1>1. \A j \in Callers : j # k => pull'[j] = pull[j]
  BY DEF PullsTyped
<1>2. pull'[k] = [pc |-> pc, snapshot |-> snapshot]
  BY DEF PullsTyped
<1>3. pull' \in [Callers -> [pc : Running \cup {"idle", "waiting", "woken"},
                             snapshot : Contents \cup {NoSnapshot}]]
  BY DEF PullsTyped
<1>4. flight = k
  BY DEF PullsTyped
<1>5. QED BY <1>1, <1>2, <1>3, <1>4 DEF PullsTyped

\* The end of a running call frees the place, and no woken call has it yet.
LEMMA OverStep ==
  ASSUME PullsTyped, NEW k \in Callers, pull[k].pc \in Running, Over(k)
  PROVE  PullsTyped'
<1>1. flight = k /\ flight' = NoCaller
  BY DEF PullsTyped, Over, Released
<1>2. ASSUME NEW j \in Callers
      PROVE  /\ pull'[j].pc \in {"idle", "waiting", "woken"} /\ pull'[j].pc # "waiting"
             /\ pull'[j] \in [pc : Running \cup {"idle", "waiting", "woken"},
                              snapshot : Contents \cup {NoSnapshot}]
  <2>1. CASE j = k
    BY <2>1 DEF Over, NoPull
  <2>2. CASE j # k
    <3>1. pull[j].pc \notin Running
      BY <1>1, <2>2 DEF PullsTyped
    <3>2. pull'[j] = Wake(j)
      BY <2>2 DEF Over
    <3>3. QED BY <3>1, <3>2 DEF Wake, NoPull, At, PullsTyped
  <2>3. QED BY <2>1, <2>2
<1>3. {"idle", "waiting", "woken"} \cap Running = {}
  BY DEF Running
<1>4. pull' \in [Callers -> [pc : Running \cup {"idle", "waiting", "woken"},
                             snapshot : Contents \cup {NoSnapshot}]]
  BY <1>2 DEF Over
<1>5. \A j \in Callers : pull'[j].pc \notin {"reading", "answered"}
  BY <1>2
<1>6. QED BY <1>1, <1>2, <1>3, <1>4, <1>5, NamesAssumption DEF PullsTyped

\* Loading, up to the answer.
LEMMA LoadingStep ==
  ASSUME Inv, NEW k \in Callers,
         Pull(k) \/ Woken(k) \/ RightsChanged(k) \/ ServerRead(k) \/ ServerCaches(k)
  PROVE  Inv'
<1> USE DEF Inv
<1>1. CASE Pull(k) \/ Woken(k)
  <2>1. pull[k].pc \notin Running
    BY <1>1 DEF Pull, Woken, At, Running
  <2>2. PullsTyped'
    BY <1>1, <2>1, TakeOrWait DEF Pull, Woken, MayStart
  <2>3. UNCHANGED <<server, cache, others, copy, save, again, events, history>>
    BY <1>1 DEF Pull, Woken
  <2>4. DataTyped' /\ TouchedTyped' /\ Untouched' /\ Carried'
    BY <2>3 DEF copy, history, DataTyped, TouchedTyped, Untouched, Carried
  <2>5. QED BY <2>2, <2>4
<1>2. CASE RightsChanged(k)
  <2>1. events' \in 0 .. MaxEvents
    BY <1>2, EventsAssumption DEF RightsChanged, Event, DataTyped
  <2>2. db' \in Contents /\ blank' = TRUE
    BY <1>2, EmptyDBTyped DEF RightsChanged
  <2>3. DataTyped'
    BY <1>2, <2>1, <2>2 DEF RightsChanged, DataTyped
  <2>4. Untouched'
    BY <1>2, <2>2 DEF RightsChanged, Untouched
  <2>5. PullsTyped' /\ TouchedTyped' /\ Carried'
    BY <1>2 DEF RightsChanged, PullsTyped, TouchedTyped, Carried
  <2>6. QED BY <2>3, <2>4, <2>5
<1>3. CASE ServerRead(k)
  <2>1. pull[k].pc \in Running /\ UNCHANGED flight
    BY <1>3 DEF ServerRead, At, Running
  <2>2. CASE cache # NoSnapshot
    BY <1>3, <2>1, <2>2, GoesOn DEF ServerRead, DataTyped, Running, copy, history,
       TouchedTyped, Untouched, Carried
  <2>3. CASE cache = NoSnapshot
    <3>1. server \in Contents /\ server # NoSnapshot
      BY NamesAssumption DEF DataTyped
    <3>2. QED
      BY <1>3, <2>1, <2>3, <3>1, GoesOn DEF ServerRead, DataTyped, Running, copy, history,
         TouchedTyped, Untouched, Carried
  <2>4. QED BY <2>2, <2>3
<1>4. CASE ServerCaches(k)
  <2>1. pull[k].pc = "reading" /\ UNCHANGED flight
    BY <1>4 DEF ServerCaches, At
  <2>2. pull[k].snapshot \in Contents /\ pull[k].snapshot # NoSnapshot
    BY <2>1 DEF PullsTyped
  <2>3. pull' = [pull EXCEPT ![k] = [pc |-> "answered", snapshot |-> pull[k].snapshot]]
    <3>1. pull[k] \in [pc : Running \cup {"idle", "waiting", "woken"},
                      snapshot : Contents \cup {NoSnapshot}]
      BY DEF PullsTyped
    <3>2. [pull[k] EXCEPT !.pc = "answered"] = [pc |-> "answered", snapshot |-> pull[k].snapshot]
      BY <3>1
    <3>3. pull' = [pull EXCEPT ![k] = [pull[k] EXCEPT !.pc = "answered"]]
      BY <1>4 DEF ServerCaches, Becomes
    <3>4. QED BY <3>2, <3>3
  <2>4. PullsTyped'
    BY <2>1, <2>2, <2>3, GoesOn DEF Running
  <2>5. DataTyped' /\ TouchedTyped' /\ Untouched' /\ Carried'
    BY <1>4, <2>2 DEF ServerCaches, DataTyped, copy, history, TouchedTyped, Untouched, Carried
  <2>6. QED BY <2>4, <2>5
<1>5. QED BY <1>1, <1>2, <1>3, <1>4

\* The answer, and the end of a load.
LEMMA LoadedStep ==
  ASSUME Inv, NEW k \in Callers, NEW notes \in BOOLEAN,
         Hydrate(k) \/ LoadAccounts(k, notes) \/ PullFails(k)
  PROVE  Inv'
<1> USE DEF Inv
<1>1. CASE Hydrate(k)
  <2>1. pull[k].pc = "answered" /\ UNCHANGED flight
    BY <1>1 DEF Hydrate, At
  <2>2. pull[k].snapshot \in Contents /\ pull[k].snapshot # NoSnapshot
    BY <2>1 DEF PullsTyped
  <2>3. pull' = [pull EXCEPT ![k] = [pc |-> "accounts", snapshot |-> pull[k].snapshot]]
    <3>1. pull[k] \in [pc : Running \cup {"idle", "waiting", "woken"},
                      snapshot : Contents \cup {NoSnapshot}]
      BY DEF PullsTyped
    <3>2. [pull[k] EXCEPT !.pc = "accounts"] = [pc |-> "accounts", snapshot |-> pull[k].snapshot]
      BY <3>1
    <3>3. pull' = [pull EXCEPT ![k] = [pull[k] EXCEPT !.pc = "accounts"]]
      BY <1>1 DEF Hydrate, Becomes
    <3>4. QED BY <3>2, <3>3
  <2>4. PullsTyped'
    BY <2>1, <2>2, <2>3, GoesOn DEF Running
  <2>5. db' = Filled(pull[k].snapshot) /\ baseline' = db' /\ touched' = {}
    BY <1>1 DEF Hydrate
  <2>6. DataTyped'
    <3>1. db' \in Contents /\ baseline' \in Contents /\ baseline' # NoSnapshot
      BY <2>2, <2>5, FilledTyped, NamesAssumption
    <3>2. QED BY <1>1, <3>1 DEF Hydrate, DataTyped
  <2>7. TouchedTyped' /\ Untouched' /\ Carried'
    BY <1>1, <2>5 DEF Hydrate, TouchedTyped, Untouched, Carried
  <2>8. QED BY <2>4, <2>6, <2>7
<1>2. CASE LoadAccounts(k, notes)
  <2>1. PullsTyped'
    BY <1>2, OverStep DEF LoadAccounts, At, Running
  <2>2. CASE db' = [db EXCEPT ![Settings] = @ \cup {Derived}]
             /\ touched' = (IF Derived \in db[Settings] THEN touched ELSE touched \cup {Settings})
    <3>1. db' \in Contents
      BY <2>2, AddedTyped, SettingsAssumption DEF DataTyped, Items
    <3>2. \A c \in Collections \ touched' : db'[c] = db[c]
      BY <2>2, SettingsAssumption DEF DataTyped, Contents
    <3>3. touched \subseteq touched' /\ touched' \subseteq Collections
      BY <2>2, SettingsAssumption DEF TouchedTyped
    <3>4. DataTyped'
      BY <1>2, <3>1 DEF LoadAccounts, DataTyped
    <3>5. TouchedTyped' /\ Untouched' /\ Carried'
      BY <1>2, <3>2, <3>3 DEF LoadAccounts, TouchedTyped, Untouched, Carried
    <3>6. QED BY <2>1, <3>4, <3>5
  <2>3. CASE UNCHANGED <<db, touched>>
    BY <1>2, <2>1, <2>3 DEF LoadAccounts, DataTyped, TouchedTyped, Untouched, Carried
  <2>4. QED BY <1>2, <2>2, <2>3 DEF LoadAccounts
<1>3. CASE PullFails(k)
  <2>1. PullsTyped'
    BY <1>3, OverStep DEF PullFails, Running
  <2>2. events' \in 0 .. MaxEvents
    BY <1>3, EventsAssumption DEF PullFails, Event, DataTyped
  <2>3. session' \in BOOLEAN /\ ready' \in BOOLEAN
    BY <1>3 DEF PullFails
  <2>4. DataTyped'
    BY <1>3, <2>2, <2>3 DEF PullFails, history, DataTyped
  <2>5. TouchedTyped' /\ Untouched' /\ Carried'
    BY <1>3 DEF PullFails, history, TouchedTyped, Untouched, Carried
  <2>6. QED BY <2>1, <2>4, <2>5
<1>4. QED BY <1>1, <1>2, <1>3

\* A sign-in, which loads.
LEMMA LoginStep ==
  ASSUME Inv, NEW k \in Callers, Login(k)
  PROVE  Inv'
<1>1. PullsTyped'
  BY TakeOrWait DEF Login, At, Running, Inv
<1>2. DataTyped' /\ TouchedTyped' /\ Untouched' /\ Carried'
  BY DEF Login, history, Inv, DataTyped, TouchedTyped, Untouched, Carried
<1>3. QED BY <1>1, <1>2 DEF Inv

\* What a step of another station does to the collections.
LEMMA ElsewhereShape ==
  ASSUME Inv, NEW s \in Others, NEW c \in Collections, NEW e \in Entries, SavedElsewhere(s, c, e)
  PROVE  /\ others' \in [Others -> Contents] /\ server' \in Contents
         /\ \A t \in Others : t # s => others'[t] = others[t]
         /\ \A d \in Collections : d # c => others'[s][d] = others[s][d] /\ server'[d] = server[d]
         /\ others'[s][c] = server'[c]
         /\ others[s][c] \cup {e} \subseteq server'[c]
         /\ server'[c] \subseteq others[s][c] \cup {e, Default}
<1>1. others \in [Others -> Contents] /\ server \in Contents /\ others[s] \in Contents
  BY DEF Inv, DataTyped
<1> DEFINE all == Filled(others[s])[c] \cup {e}
<1>2. all \subseteq Items /\ others[s][c] \cup {e} \subseteq all /\ all \subseteq others[s][c] \cup {e, Default}
  BY <1>1, FilledTyped DEF Contents, Items
<1> HIDE DEF all
<1>3. [others[s] EXCEPT ![c] = all] \in Contents
  BY <1>1, <1>2 DEF Contents
<1>4. others' = [others EXCEPT ![s] = [others[s] EXCEPT ![c] = all]]
  BY DEF SavedElsewhere, all
<1>5. /\ others' \in [Others -> Contents]
      /\ others'[s] = [others[s] EXCEPT ![c] = all]
      /\ \A t \in Others : t # s => others'[t] = others[t]
  BY <1>1, <1>3, <1>4
<1>6. others'[s][c] = all /\ \A d \in Collections : d # c => others'[s][d] = others[s][d]
  BY <1>1, <1>5 DEF Contents
<1>7. server' = [server EXCEPT ![c] = all]
  BY <1>6 DEF SavedElsewhere
<1>8. server' \in Contents /\ server'[c] = all
      /\ \A d \in Collections : d # c => server'[d] = server[d]
  BY <1>1, <1>2, <1>7 DEF Contents
<1>9. QED BY <1>2, <1>5, <1>6, <1>8

\* Another station loads or saves.
LEMMA ElsewhereStep ==
  ASSUME Inv, NEW s \in Others,
         LoadedElsewhere(s) \/ \E c \in Collections, e \in Entries : SavedElsewhere(s, c, e)
  PROVE  Inv'
<1>1. others' \in [Others -> Contents] /\ server' \in Contents /\ cache' \in Contents \cup {NoSnapshot}
  <2>1. CASE LoadedElsewhere(s)
    BY <2>1 DEF LoadedElsewhere, Inv, DataTyped
  <2>2. CASE \E c \in Collections, e \in Entries : SavedElsewhere(s, c, e)
    BY <2>2, ElsewhereShape DEF SavedElsewhere
  <2>3. QED BY <2>1, <2>2
<1>2. UNCHANGED <<copy, save, again, rest, touched, blank>>
  BY DEF LoadedElsewhere, SavedElsewhere, history
<1>3. DataTyped'
  BY <1>1, <1>2 DEF copy, rest, Inv, DataTyped
<1>4. PullsTyped' /\ TouchedTyped' /\ Untouched' /\ Carried'
  BY <1>2 DEF copy, rest, Inv, PullsTyped, TouchedTyped, Untouched, Carried
<1>5. QED BY <1>3, <1>4 DEF Inv

\* The session ends, or the cache of the server does.
LEMMA AloneStep ==
  ASSUME Inv, Logout \/ SessionExpires \/ CacheExpires
  PROVE  Inv'
<1> USE DEF Inv
<1>1. CASE Logout \/ SessionExpires
  <2>1. events' \in 0 .. MaxEvents
    BY <1>1, EventsAssumption DEF Logout, SessionExpires, Event, DataTyped
  <2>2. baseline' \in {baseline, NoSnapshot} /\ (hydrated' => baseline' = baseline /\ hydrated)
        /\ session' \in BOOLEAN /\ ready' \in BOOLEAN /\ hydrated' \in BOOLEAN
    <3>1. CASE Logout
      BY <3>1 DEF Logout, DataTyped
    <3>2. CASE SessionExpires
      BY <3>2 DEF SessionExpires, DataTyped
    <3>3. QED BY <1>1, <3>1, <3>2
  <2>3. UNCHANGED <<server, cache, others, db, dirty, save, again, pull, flight, history>>
    BY <1>1 DEF Logout, SessionExpires
  <2>4. DataTyped'
    BY <2>1, <2>2, <2>3 DEF history, DataTyped
  <2>5. PullsTyped' /\ TouchedTyped' /\ Untouched' /\ Carried'
    BY <2>2, <2>3 DEF history, PullsTyped, TouchedTyped, Untouched, Carried
  <2>6. QED BY <2>4, <2>5
<1>2. CASE CacheExpires
  BY <1>2 DEF CacheExpires, copy, rest, history, DataTyped, PullsTyped, TouchedTyped, Untouched, Carried
<1>3. QED BY <1>1, <1>2

LEMMA NextInv == Inv /\ [Next]_vars => Inv'
<1> SUFFICES ASSUME Inv, [Next]_vars PROVE Inv'
  OBVIOUS
<1>1. CASE \/ \E c \in Collections, e \in Entries :
                Edit(c, e) \/ \E s \in Others : SavedElsewhere(s, c, e)
           \/ \E s \in Others : LoadedElsewhere(s)
  BY <1>1, EditStep, ElsewhereStep
<1>2. CASE AutoSave \/ ServerReplace \/ Saved \/ SaveFails
  BY <1>2, SavingStep
<1>3. CASE \E k \in Callers :
             \/ Pull(k) \/ Woken(k) \/ RightsChanged(k)
             \/ ServerRead(k) \/ ServerCaches(k) \/ Hydrate(k) \/ PullFails(k)
             \/ \E notes \in BOOLEAN : LoadAccounts(k, notes)
             \/ Login(k)
  BY <1>3, LoadingStep, LoadedStep, LoginStep
<1>4. CASE CacheExpires \/ Logout \/ SessionExpires
  BY <1>4, AloneStep
<1>5. CASE UNCHANGED vars
  BY <1>5 DEF vars, copy, rest, history, Inv, DataTyped, PullsTyped, TouchedTyped, Untouched, Carried
<1>6. QED BY <1>1, <1>2, <1>3, <1>4, <1>5 DEF Next

\* The inductive invariant of the station: outside of what was touched, a copy that was not
\* emptied is what was loaded or saved, and a payload is empty (sgdiLegacySnapshot,
\* sgdi-app.js:900-918).
THEOREM Invariance == Spec => []Inv
BY InitInv, NextInv, PTL DEF Spec

\* Every reachable state is well formed; in particular the place of the load in progress and
\* the calls always agree (sgdi-app.js:1025-1087).
THEOREM TypeCorrect == Spec => []TypeOK
<1>1. Inv => TypeOK
  BY SplitType DEF Inv
<1>2. QED BY <1>1, Invariance, PTL

\* For any number of calls, never two load at the same time (sgdi-app.js:1029-1036).
THEOREM OnePullAtATimeHolds == Spec => []OnePullAtATime
<1>1. Inv => OnePullAtATime
  BY DEF Inv, PullsTyped, OnePullAtATime
<1>2. QED BY <1>1, Invariance, PTL

\* For any collections and any other stations, a save erases nothing in what this station has
\* not changed, unless its copy was emptied by a change of rights and not loaded again
\* (sgdi-app.js:908-917, 2151).
THEOREM NoClobberHolds == Spec => NoClobber
<1>1. Inv /\ [Next]_vars =>
        [\A c \in Collections :
           save.pc = "sent" /\ save'.pc = "applied" /\ c \notin save.scope /\ ~save.blank
             => server[c] \subseteq server'[c]]_vars
  <2> SUFFICES ASSUME Inv, [Next]_vars, NEW c \in Collections,
                      save.pc = "sent", save'.pc = "applied", c \notin save.scope, ~save.blank
               PROVE  server[c] \subseteq server'[c]
    OBVIOUS
  <2>1. save' # save /\ save'.pc # "sent" /\ save'.pc # "idle"
    OBVIOUS
  <2>2. CASE ServerReplace
    <3>1. save.payload[c] = {}
      BY DEF Inv, Carried
    <3>2. QED
      BY <2>2, <3>1, ReplacedTyped DEF ServerReplace, Inv, DataTyped
  <2>3. CASE UNCHANGED save
    BY <2>1, <2>3
  <2>4. CASE AutoSave
    BY <2>1, <2>4 DEF AutoSave, BackendSave
  <2>5. CASE Saved \/ SaveFails
    BY <2>1, <2>5 DEF Saved, SaveFails, NoSave
  <2>6. CASE \E d \in Collections, e \in Entries : Edit(d, e)
    BY <2>1, <2>6 DEF Edit
  <2>7. CASE \/ CacheExpires \/ Logout \/ SessionExpires
             \/ \E s \in Others : LoadedElsewhere(s)
             \/ \E s \in Others, d \in Collections, e \in Entries : SavedElsewhere(s, d, e)
    BY <2>3, <2>7 DEF CacheExpires, Logout, SessionExpires, LoadedElsewhere, SavedElsewhere
  <2>8. CASE \E k \in Callers :
             \/ Pull(k) \/ Woken(k) \/ RightsChanged(k)
             \/ ServerRead(k) \/ ServerCaches(k) \/ Hydrate(k) \/ PullFails(k)
             \/ \E notes \in BOOLEAN : LoadAccounts(k, notes)
             \/ Login(k)
    BY <2>3, <2>8 DEF Pull, Woken, RightsChanged, ServerRead, ServerCaches, Hydrate, PullFails,
       LoadAccounts, Login
  <2>9. CASE UNCHANGED vars
    BY <2>3, <2>9 DEF vars
  <2>10. QED BY <2>2, <2>3, <2>4, <2>5, <2>6, <2>7, <2>8, <2>9 DEF Next
<1>2. QED BY <1>1, Invariance, PTL DEF Spec, NoClobber

--------------------------------------------------------------------------------
(* What the user was told is saved.  Every entry has one home: the         *)
(* collection it was added to, in whatever copy it is met (Placed).  With  *)
(* the homes fixed, an entry of this station that nothing has exposed is   *)
(* in its copy; a snapshot or another copy that shows it is no newer than  *)
(* the server (NoNewerThanServer), so that what a save leaves out is       *)
(* there, and what another station writes back had not been lost; and a    *)
(* save in progress carries the entry, or is to be run again.              *)

\* Entries of this station that nothing took out of its copy or erased from the server.
Unexposed == mine \ exposed

\* The snapshots from which the copy, or what it is compared with, may come, and the copies of
\* the other stations.
Snapshots ==
  ({cache, baseline} \cup {pull[k].snapshot : k \in Callers} \cup {others[s] : s \in Others})
    \ {NoSnapshot}

\* Entries are met at home only, and once they were added.
Placed(home, X, seen) ==
  \A c \in Collections : \A e \in X[c] \cap Entries : e \in seen /\ home[e] = c

PlacedEverywhere(home) ==
  /\ Placed(home, server, used) /\ Placed(home, db, used) /\ Placed(home, save.payload, used)
  /\ \A X \in Snapshots : Placed(home, X, used)

InCopy(home) == \A e \in Unexposed : e \in db[home[e]]

OnServer(home) == \A e \in acked \ exposed : e \in server[home[e]]

\* A payload takes away nothing of this station, and carries all of it unless another turn
\* is due.
Carries(home, payload, all) ==
  \A e \in Unexposed :
    /\ all => e \in payload[home[e]] \/ (payload[home[e]] = {} /\ e \in server[home[e]])
    /\ e \in server[home[e]] => payload[home[e]] = {} \/ e \in payload[home[e]]

CarriesMine(home) == save.pc = "sent" => Carries(home, save.payload, ~again)

AppliedMine(home) ==
  save.pc = "applied" /\ ~again => \A e \in Unexposed : e \in server[home[e]]

NoNewerThanServer(home) ==
  \A X \in Snapshots : \A e \in Unexposed : e \in X[home[e]] => e \in server[home[e]]

Own(home) ==
  /\ PlacedEverywhere(home)
  /\ InCopy(home) /\ OnServer(home) /\ CarriesMine(home) /\ AppliedMine(home)
  /\ NoNewerThanServer(home)

Homes == [Entries -> Collections]

HistoryOrdered == acked \subseteq mine /\ exposed \subseteq mine /\ mine \subseteq used /\ used \subseteq Entries

OwnInv == HistoryOrdered /\ \E home \in Homes : Own(home)

\* The parts of Own that only the server, the copy, the save and the histories are read for
\* survive a step that leaves them alone.
LEMMA QuietStep ==
  ASSUME NEW home \in Homes, Own(home), HistoryOrdered,
         UNCHANGED <<server, db, save, again, history>>,
         Snapshots' \subseteq Snapshots \cup {server}
  PROVE  Own(home)' /\ HistoryOrdered'
<1>1. UNCHANGED <<used, mine, acked, exposed>> /\ Unexposed' = Unexposed
  BY DEF history, Unexposed
<1>2. HistoryOrdered'
  BY <1>1 DEF HistoryOrdered
<1>3. \A X \in Snapshots' : Placed(home, X, used')
  BY <1>1 DEF Own, PlacedEverywhere, Placed
<1>4. PlacedEverywhere(home)'
  BY <1>1, <1>3 DEF Own, PlacedEverywhere, Placed
<1>5. InCopy(home)' /\ OnServer(home)'
  BY <1>1 DEF Own, InCopy, OnServer
<1>6. CarriesMine(home)' /\ AppliedMine(home)'
  BY <1>1 DEF Own, CarriesMine, Carries, AppliedMine
<1>7. NoNewerThanServer(home)'
  BY <1>1 DEF Own, NoNewerThanServer
<1>8. QED BY <1>2, <1>4, <1>5, <1>6, <1>7 DEF Own

\* A turn of the saving loop carries everything of this station: what equals the baseline
\* is on the server.
LEMMA PutCarries ==
  ASSUME NEW home \in Homes, Own(home), HistoryOrdered
  PROVE  Carries(home, Put.payload, TRUE) /\ Placed(home, Put.payload, used)
<1>1. Put.payload = Payload
  BY DEF Put
<1>2. \A c \in Collections : Payload[c] \in {db[c], {}}
  BY DEF Payload
<1>3. Placed(home, Put.payload, used)
  BY <1>1, <1>2 DEF Own, PlacedEverywhere, Placed
<1>4. ASSUME NEW e \in Unexposed
      PROVE  e \in Payload[home[e]] \/ (Payload[home[e]] = {} /\ e \in server[home[e]])
  <2>1. e \in Entries /\ home[e] \in Collections
    BY DEF HistoryOrdered, Unexposed, Homes
  <2>2. e \in db[home[e]]
    BY DEF Own, InCopy
  <2>3. CASE Changed(home[e])
    BY <2>1, <2>2, <2>3 DEF Payload
  <2>4. CASE ~Changed(home[e])
    <3>1. baseline # NoSnapshot /\ e \in baseline[home[e]]
      BY <2>2, <2>4 DEF Changed
    <3>2. baseline \in Snapshots
      BY <3>1 DEF Snapshots
    <3>3. e \in server[home[e]]
      BY <3>1, <3>2 DEF Own, NoNewerThanServer
    <3>4. QED BY <2>1, <2>4, <3>3 DEF Payload
  <2>5. QED BY <2>3, <2>4
<1>5. Carries(home, Put.payload, TRUE)
  BY <1>1, <1>4 DEF Carries
<1>6. QED BY <1>3, <1>5

\* A save starts, is noted, goes on or fails, and nothing else moves.
LEMMA OwnSavingStep ==
  ASSUME NEW home \in Homes, Own(home), HistoryOrdered,
         UNCHANGED <<server, cache, others, db, baseline, pull, history>>,
         \/ save' = Put
         \/ save' = NoSave
         \/ UNCHANGED save /\ again' = TRUE
  PROVE  Own(home)' /\ HistoryOrdered'
<1>1. UNCHANGED <<used, mine, acked, exposed>> /\ Unexposed' = Unexposed
  BY DEF history, Unexposed
<1>2. Snapshots' = Snapshots
  BY DEF Snapshots
<1>3. HistoryOrdered'
  BY <1>1 DEF HistoryOrdered
<1>4. InCopy(home)' /\ OnServer(home)' /\ NoNewerThanServer(home)'
  BY <1>1, <1>2 DEF Own, InCopy, OnServer, NoNewerThanServer
<1>5. /\ Placed(home, server', used') /\ Placed(home, db', used')
      /\ \A X \in Snapshots' : Placed(home, X, used')
  BY <1>1, <1>2 DEF Own, PlacedEverywhere, Placed
<1>6. Placed(home, save'.payload, used') /\ CarriesMine(home)' /\ AppliedMine(home)'
  <2>1. CASE save' = Put
    <3>1. Carries(home, Put.payload, TRUE) /\ Placed(home, Put.payload, used)
      BY PutCarries
    <3>2. save'.payload = Put.payload /\ save'.pc = "sent"
      BY <2>1 DEF Put
    <3>3. Placed(home, save'.payload, used')
      BY <1>1, <3>1, <3>2 DEF Placed
    <3>4. CarriesMine(home)'
      BY <1>1, <3>1, <3>2 DEF CarriesMine, Carries
    <3>5. QED BY <3>2, <3>3, <3>4 DEF AppliedMine
  <2>2. CASE save' = NoSave
    <3>1. save'.pc = "idle" /\ \A c \in Collections : save'.payload[c] = {}
      BY <2>2 DEF NoSave, Nothing
    <3>2. QED BY <3>1 DEF Placed, CarriesMine, AppliedMine
  <2>3. CASE UNCHANGED save /\ again' = TRUE
    <3>1. Placed(home, save'.payload, used')
      BY <1>1, <2>3 DEF Own, PlacedEverywhere, Placed
    <3>2. CarriesMine(home)' /\ AppliedMine(home)'
      BY <1>1, <2>3 DEF Own, CarriesMine, Carries, AppliedMine
    <3>3. QED BY <3>1, <3>2
  <2>4. QED BY <2>1, <2>2, <2>3
<1>7. PlacedEverywhere(home)'
  BY <1>5, <1>6 DEF PlacedEverywhere
<1>8. QED BY <1>3, <1>4, <1>6, <1>7 DEF Own

\* An entry that is new is given a home, and none of the others moves.
LEMMA NewHome ==
  ASSUME NEW home \in Homes, HistoryOrdered,
         NEW c \in Collections, NEW e \in Entries, e \notin used, NEW seen, seen = used \cup {e},
         NEW to, to = [home EXCEPT ![e] = c]
  PROVE  /\ to \in Homes /\ to[e] = c
         /\ \A x \in used : to[x] = home[x]
         /\ \A X : Placed(home, X, used) => Placed(to, X, seen)
         /\ \A X, d : Placed(home, X, used) /\ d \in Collections => e \notin X[d]
<1>1. to \in Homes /\ to[e] = c /\ \A x \in Entries : x # e => to[x] = home[x]
  BY DEF Homes
<1>3. ASSUME NEW X, Placed(home, X, used)
      PROVE  Placed(to, X, seen) /\ \A d \in Collections : e \notin X[d]
  <2>1. \A d \in Collections : e \notin X[d]
    BY <1>3 DEF Placed
  <2>2. ASSUME NEW d \in Collections, NEW x \in X[d] \cap Entries
        PROVE  x \in seen /\ to[x] = d
    <3>1. x \in used /\ home[x] = d /\ x # e
      BY <1>3, <2>1 DEF Placed
    <3>2. QED BY <1>1, <3>1
  <2>3. QED BY <2>1, <2>2 DEF Placed
<1>4. \A x \in used : to[x] = home[x]
  BY <1>1 DEF HistoryOrdered
<1>5. QED BY <1>1, <1>3, <1>4

\* A user adds an entry, which no snapshot has.
LEMMA OwnEdit ==
  ASSUME Inv, NEW home \in Homes, Own(home), HistoryOrdered,
         NEW c \in Collections, NEW e \in Entries, Edit(c, e),
         NEW to, to = [home EXCEPT ![e] = c]
  PROVE  Own(to)' /\ HistoryOrdered'
<1>1. /\ e \notin used /\ used' = used \cup {e}
      /\ db' = [db EXCEPT ![c] = @ \cup {e}]
      /\ UNCHANGED <<server, cache, others, baseline, pull, acked, exposed>>
  BY DEF Edit, rest
<1>2. /\ to \in Homes /\ to[e] = c
      /\ \A x \in used : to[x] = home[x]
      /\ \A X : Placed(home, X, used) => Placed(to, X, used')
      /\ \A X, d : Placed(home, X, used) /\ d \in Collections => e \notin X[d]
  <2>1. to \in Homes /\ to[e] = c
    BY DEF Homes
  <2>2. \A x \in used : to[x] = home[x]
    BY <1>1, NewHome
  <2>3. \A X : Placed(home, X, used) => Placed(to, X, used')
    BY <1>1, NewHome
  <2>4. \A X, d : Placed(home, X, used) /\ d \in Collections => e \notin X[d]
    BY <1>1, NewHome
  <2>5. QED BY <2>1, <2>2, <2>3, <2>4
<1>3. Snapshots' = Snapshots
  BY <1>1 DEF Snapshots
<1>4. mine' = mine \/ (mine' = mine \cup {e})
  BY DEF Edit
<1>5. HistoryOrdered'
  BY <1>1, <1>4 DEF HistoryOrdered
<1>6. /\ Unexposed \subseteq used /\ acked \subseteq used /\ Unexposed \subseteq Entries
      /\ Unexposed' \subseteq Unexposed \cup {e}
  BY <1>1, <1>4 DEF HistoryOrdered, Unexposed
<1>7. \A d \in Collections : db'[d] = (IF d = c THEN db[d] \cup {e} ELSE db[d])
  BY <1>1 DEF Inv, DataTyped, Contents
<1>8. \A x \in Unexposed : home[x] \in Collections
  BY <1>6 DEF Homes
<1>9. Placed(to, db', used')
  <2>1. Placed(home, db, used)
    BY DEF Own, PlacedEverywhere
  <2>2. ASSUME NEW d \in Collections, NEW x \in db'[d] \cap Entries
        PROVE  x \in used' /\ to[x] = d
    <3>1. CASE x \in db[d]
      <4>1. x \in used /\ home[x] = d
        BY <2>1, <3>1 DEF Placed
      <4>2. QED BY <1>1, <1>2, <4>1
    <3>2. CASE x \notin db[d]
      <4>1. x = e /\ d = c
        BY <1>7, <3>2
      <4>2. QED BY <1>1, <1>2, <4>1
    <3>3. QED BY <3>1, <3>2
  <2>3. QED BY <2>2 DEF Placed
<1>10. Placed(to, server', used') /\ \A X \in Snapshots' : Placed(to, X, used')
  <2>1. Placed(to, server', used')
    BY <1>1, <1>2 DEF Own, PlacedEverywhere
  <2>2. \A X \in Snapshots : Placed(to, X, used')
    BY <1>2 DEF Own, PlacedEverywhere
  <2>3. QED BY <1>3, <2>1, <2>2
<1>11. InCopy(to)'
  <2>1. ASSUME NEW x \in Unexposed' PROVE x \in db'[to[x]]
    <3>1. CASE x = e
      BY <1>2, <1>7, <3>1
    <3>2. CASE x # e
      BY <1>2, <1>6, <1>7, <1>8, <3>2 DEF Own, InCopy
    <3>3. QED BY <3>1, <3>2
  <2>2. QED BY <2>1 DEF InCopy
<1>12. OnServer(to)'
  BY <1>1, <1>2, <1>6 DEF Own, OnServer
<1>13. NoNewerThanServer(to)'
  <2>1. ASSUME NEW X \in Snapshots, NEW x \in Unexposed', x \in X[to[x]]
        PROVE  x \in server[to[x]]
    <3>1. x # e
      BY <1>2, <2>1 DEF Own, PlacedEverywhere
    <3>2. QED BY <1>2, <1>6, <2>1, <3>1 DEF Own, NoNewerThanServer
  <2>2. QED BY <1>1, <1>3, <2>1 DEF NoNewerThanServer
<1>14. e \notin server[to[e]]
  BY <1>2 DEF Own, PlacedEverywhere
<1>15. Placed(to, save'.payload, used') /\ CarriesMine(to)' /\ AppliedMine(to)'
  <2>1. CASE MaySave /\ save.pc # "idle"
    <3>1. again' = TRUE /\ UNCHANGED save
      BY <2>1 DEF Edit
    <3>2. Placed(to, save'.payload, used')
      BY <1>2, <3>1 DEF Own, PlacedEverywhere
    <3>3. AppliedMine(to)'
      BY <3>1 DEF AppliedMine
    <3>4. ASSUME save.pc = "sent", NEW x \in Unexposed', x \in server[to[x]]
          PROVE  save.payload[to[x]] = {} \/ x \in save.payload[to[x]]
      <4>1. x # e /\ x \in Unexposed /\ to[x] = home[x]
        BY <1>2, <1>6, <1>14, <3>4
      <4>2. QED BY <3>4, <4>1 DEF Own, CarriesMine, Carries
    <3>5. CarriesMine(to)'
      BY <1>1, <3>1, <3>4 DEF CarriesMine, Carries
    <3>6. QED BY <3>2, <3>3, <3>5
  <2>2. CASE MaySave /\ save.pc = "idle"
    <3>1. save' = [Put EXCEPT !.payload[c] = db[c] \cup {e}, !.scope = @ \cup {c}]
      BY <2>2 DEF Edit
    <3>2. save'.pc = "sent"
          /\ \A d \in Collections : save'.payload[d] = (IF d = c THEN db'[d] ELSE Put.payload[d])
      BY <1>7, <3>1 DEF Put, Payload
    <3>3. Carries(home, Put.payload, TRUE) /\ Placed(home, Put.payload, used)
      BY PutCarries
    <3>4. Placed(to, Put.payload, used')
      BY <1>2, <3>3
    <3>5. Placed(to, save'.payload, used')
      <4>1. ASSUME NEW d \in Collections, NEW x \in save'.payload[d] \cap Entries
            PROVE  x \in used' /\ to[x] = d
        <5>1. CASE d = c
          BY <1>9, <3>2, <5>1 DEF Placed
        <5>2. CASE d # c
          <6>1. x \in Put.payload[d]
            BY <3>2, <5>2
          <6>2. x \in used /\ home[x] = d
            BY <3>3, <6>1 DEF Placed
          <6>3. QED BY <1>1, <1>2, <6>2
        <5>3. QED BY <5>1, <5>2
      <4>2. QED BY <4>1 DEF Placed
    <3>6. ASSUME NEW x \in Unexposed'
          PROVE  x \in save'.payload[to[x]] \/ (save'.payload[to[x]] = {} /\ x \in server[to[x]])
      <4>0. to[x] \in Collections
        BY <1>2, <1>6, <1>8
      <4>1. CASE to[x] = c
        <5>1. x \in db'[c]
          BY <1>11, <4>1 DEF InCopy
        <5>2. QED BY <3>2, <4>1, <5>1
      <4>2. CASE to[x] # c
        <5>1. x \in Unexposed /\ to[x] = home[x]
          BY <1>2, <1>6, <4>2
        <5>2. QED BY <3>2, <3>3, <4>0, <4>2, <5>1 DEF Carries
      <4>3. QED BY <4>1, <4>2
    <3>7. CarriesMine(to)'
      BY <1>1, <3>6 DEF CarriesMine, Carries
    <3>8. QED BY <3>2, <3>5, <3>7 DEF AppliedMine
  <2>3. CASE ~MaySave
    <3>1. UNCHANGED <<save, again, mine>>
      BY <2>3 DEF Edit
    <3>2. Unexposed' = Unexposed
      BY <1>1, <3>1 DEF Unexposed
    <3>3. Placed(to, save'.payload, used')
      BY <1>2, <3>1 DEF Own, PlacedEverywhere
    <3>4. CarriesMine(to)' /\ AppliedMine(to)'
      BY <1>1, <1>2, <1>6, <3>1, <3>2 DEF Own, CarriesMine, Carries, AppliedMine
    <3>5. QED BY <3>3, <3>4
  <2>4. QED BY <2>1, <2>2, <2>3
<1>16. PlacedEverywhere(to)'
  BY <1>9, <1>10, <1>15 DEF PlacedEverywhere
<1>17. QED BY <1>5, <1>11, <1>12, <1>13, <1>15, <1>16 DEF Own

\* Another station's entry is none of this one's, and what its save erases is known to be
\* exposed.
LEMMA OwnElsewhere ==
  ASSUME Inv, NEW home \in Homes, Own(home), HistoryOrdered,
         NEW s \in Others, NEW c \in Collections, NEW e \in Entries, SavedElsewhere(s, c, e),
         NEW to, to = [home EXCEPT ![e] = c]
  PROVE  Own(to)' /\ HistoryOrdered'
<1>1. /\ e \notin used /\ used' = used \cup {e}
      /\ cache' = NoSnapshot
      /\ exposed' = exposed \cup ((mine \cap server[c]) \ others[s][c])
      /\ UNCHANGED <<db, baseline, save, again, pull, mine, acked>>
  BY DEF SavedElsewhere, copy, rest
<1>2. to \in Homes /\ to[e] = c
  BY DEF Homes
<1>3. \A x \in used : to[x] = home[x]
  BY <1>1, NewHome
<1>4. \A X : Placed(home, X, used) => Placed(to, X, used')
  BY <1>1, NewHome
<1>5. others[s] \in Snapshots /\ Snapshots' \subseteq Snapshots \cup {others'[s]}
  <2>1. \A t \in Others : others[t] \in Contents /\ others[t] # NoSnapshot
    BY NamesAssumption DEF Inv, DataTyped
  <2>2. \A t \in Others : t # s => others'[t] = others[t]
    BY ElsewhereShape
  <2>3. QED BY <1>1, <2>1, <2>2 DEF Snapshots
<1>6. HistoryOrdered'
  BY <1>1 DEF HistoryOrdered
<1>7. /\ Unexposed' \subseteq Unexposed /\ Unexposed \subseteq used
      /\ acked' \ exposed' \subseteq Unexposed' /\ acked' \ exposed' \subseteq acked \ exposed
  BY <1>1 DEF HistoryOrdered, Unexposed
<1>8. \A x \in used : home[x] \in Collections /\ x \in Entries /\ x # e
  BY <1>1 DEF HistoryOrdered, Homes
<1>9. /\ \A d \in Collections : d # c => others'[s][d] = others[s][d] /\ server'[d] = server[d]
      /\ others'[s][c] = server'[c]
      /\ others[s][c] \cup {e} \subseteq server'[c]
      /\ server'[c] \subseteq others[s][c] \cup {e, Default}
  BY ElsewhereShape
<1>10. Placed(to, server, used') /\ Placed(to, others[s], used')
  BY <1>4, <1>5 DEF Own, PlacedEverywhere
<1>11. Placed(to, server', used') /\ Placed(to, others'[s], used')
  <2>1. e \in used' /\ Default \notin Entries
    BY <1>1, SettingsAssumption
  <2>2. QED BY <1>2, <1>9, <1>10, <2>1 DEF Placed
<1>12. PlacedEverywhere(to)'
  <2>1. Placed(to, db', used') /\ Placed(to, save'.payload, used')
    BY <1>1, <1>4 DEF Own, PlacedEverywhere
  <2>2. \A X \in Snapshots' : Placed(to, X, used')
    BY <1>4, <1>5, <1>11 DEF Own, PlacedEverywhere
  <2>3. QED BY <1>11, <2>1, <2>2 DEF PlacedEverywhere
<1>13. ASSUME NEW x \in Unexposed'
       PROVE  to[x] = home[x] /\ (x \in server[home[x]] => x \in server'[to[x]])
  <2>1. x \in mine /\ to[x] = home[x] /\ home[x] \in Collections
    BY <1>3, <1>7, <1>8 DEF HistoryOrdered, Unexposed
  <2>2. CASE home[x] = c
    <3>1. x \in server[c] => x \in others[s][c]
      BY <1>1, <2>1 DEF Unexposed
    <3>2. QED BY <1>9, <2>1, <2>2, <3>1
  <2>3. CASE home[x] # c
    BY <1>9, <2>1, <2>3
  <2>4. QED BY <2>2, <2>3
<1>14. ASSUME NEW x \in Unexposed', x \in server'[to[x]]
       PROVE  x \in server[home[x]]
  <2>1. x \in Unexposed /\ x # e /\ to[x] = home[x] /\ home[x] \in Collections /\ x \in Entries
    BY <1>3, <1>7, <1>8
  <2>2. CASE home[x] = c
    <3>1. x \in others[s][c]
      BY <1>9, <1>14, <2>1, <2>2, SettingsAssumption
    <3>2. QED BY <1>5, <2>1, <2>2, <3>1 DEF Own, NoNewerThanServer
  <2>3. CASE home[x] # c
    BY <1>9, <1>14, <2>1, <2>3
  <2>4. QED BY <2>2, <2>3
<1>15. InCopy(to)'
  BY <1>1, <1>7, <1>13 DEF Own, InCopy
<1>16. OnServer(to)'
  BY <1>7, <1>13 DEF Own, OnServer
<1>17. CarriesMine(to)'
  <2>1. ASSUME save.pc = "sent", NEW x \in Unexposed'
        PROVE  /\ ~again => \/ x \in save.payload[to[x]]
                            \/ save.payload[to[x]] = {} /\ x \in server'[to[x]]
               /\ x \in server'[to[x]] => save.payload[to[x]] = {} \/ x \in save.payload[to[x]]
    <3>1. x \in Unexposed /\ to[x] = home[x] /\ (x \in server'[to[x]] <=> x \in server[home[x]])
      BY <1>7, <1>13, <1>14
    <3>2. QED BY <2>1, <3>1 DEF Own, CarriesMine, Carries
  <2>2. QED BY <1>1, <2>1 DEF CarriesMine, Carries
<1>18. AppliedMine(to)'
  BY <1>1, <1>7, <1>13 DEF Own, AppliedMine
<1>19. NoNewerThanServer(to)'
  <2>1. ASSUME NEW X \in Snapshots', NEW x \in Unexposed', x \in X[to[x]]
        PROVE  x \in server'[to[x]]
    <3>1. x \in Unexposed /\ to[x] = home[x] /\ home[x] \in Collections
      BY <1>3, <1>7, <1>8
    <3>2. CASE X \in Snapshots
      BY <1>13, <2>1, <3>1, <3>2 DEF Own, NoNewerThanServer
    <3>3. CASE X = others'[s]
      <4>1. CASE home[x] = c
        BY <1>9, <2>1, <3>1, <3>3, <4>1
      <4>2. CASE home[x] # c
        <5>1. x \in others[s][home[x]]
          BY <1>9, <2>1, <3>1, <3>3, <4>2
        <5>2. x \in server[home[x]]
          BY <1>5, <3>1, <5>1 DEF Own, NoNewerThanServer
        <5>3. QED BY <1>13, <5>2
      <4>3. QED BY <4>1, <4>2
    <3>4. QED BY <1>5, <3>2, <3>3
  <2>2. QED BY <2>1 DEF NoNewerThanServer
<1>20. QED BY <1>6, <1>12, <1>15, <1>16, <1>17, <1>18, <1>19 DEF Own

\* The server takes the payload: nothing of this station goes, and all of it is there
\* unless another turn is due.
LEMMA OwnReplace ==
  ASSUME Inv, NEW home \in Homes, Own(home), HistoryOrdered, ServerReplace
  PROVE  Own(home)' /\ HistoryOrdered'
<1>1. /\ save.pc = "sent" /\ server' = Replaced(server, save.payload) /\ cache' = NoSnapshot
      /\ UNCHANGED <<others, db, baseline, again, pull, used, mine, acked, exposed>>
  BY DEF ServerReplace, copy, rest, history
<1>2. save'.pc = "applied" /\ save'.payload = save.payload
  BY DEF ServerReplace, Inv, DataTyped
<1>3. Snapshots' \subseteq Snapshots
  BY <1>1 DEF Snapshots
<1>4. Unexposed' = Unexposed /\ HistoryOrdered'
  BY <1>1 DEF Unexposed, HistoryOrdered
<1>5. \A c \in Collections : server'[c] = (IF save.payload[c] = {} THEN server[c] ELSE save.payload[c])
  BY <1>1 DEF Replaced
<1>6. \A e \in Unexposed : home[e] \in Collections
  BY DEF HistoryOrdered, Unexposed, Homes
<1>7. ASSUME NEW e \in Unexposed
      PROVE  (e \in server[home[e]] => e \in server'[home[e]]) /\ (~again => e \in server'[home[e]])
  <2>1. /\ ~again => e \in save.payload[home[e]] \/ (save.payload[home[e]] = {} /\ e \in server[home[e]])
        /\ e \in server[home[e]] => save.payload[home[e]] = {} \/ e \in save.payload[home[e]]
    BY <1>1 DEF Own, CarriesMine, Carries
  <2>2. QED BY <1>5, <1>6, <2>1
<1>8. Placed(home, server', used')
  BY <1>1, <1>5 DEF Own, PlacedEverywhere, Placed
<1>9. PlacedEverywhere(home)'
  BY <1>1, <1>2, <1>3, <1>8 DEF Own, PlacedEverywhere
<1>10. InCopy(home)'
  BY <1>1, <1>4 DEF Own, InCopy
<1>11. OnServer(home)'
  <2>1. acked \ exposed \subseteq Unexposed
    BY DEF HistoryOrdered, Unexposed
  <2>2. QED BY <1>1, <1>7, <2>1 DEF Own, OnServer
<1>12. CarriesMine(home)' /\ AppliedMine(home)'
  BY <1>1, <1>2, <1>4, <1>7 DEF CarriesMine, AppliedMine
<1>13. NoNewerThanServer(home)'
  BY <1>3, <1>4, <1>7 DEF Own, NoNewerThanServer
<1>14. QED BY <1>4, <1>9, <1>10, <1>11, <1>12, <1>13 DEF Own

\* The answer without another turn: the copy is on the server, and is what is compared with.
LEMMA OwnSaved ==
  ASSUME NEW home \in Homes, Own(home), HistoryOrdered, Saved, ~again
  PROVE  Own(home)' /\ HistoryOrdered'
<1>1. /\ save.pc = "applied" /\ save' = NoSave /\ baseline' = db /\ acked' = acked \cup mine
      /\ UNCHANGED <<server, cache, others, db, pull, used, mine, exposed>>
  BY DEF Saved, GoesAgain, NewBaseline, rest
<1>2. Snapshots' \subseteq Snapshots \cup {db}
  BY <1>1 DEF Snapshots
<1>3. Unexposed' = Unexposed /\ acked' = mine /\ HistoryOrdered'
  BY <1>1 DEF Unexposed, HistoryOrdered
<1>4. save'.pc = "idle" /\ \A c \in Collections : save'.payload[c] = {}
  BY <1>1 DEF NoSave, Nothing
<1>5. \A e \in Unexposed : e \in server[home[e]]
  BY <1>1 DEF Own, AppliedMine
<1>6. \A X \in Snapshots' : Placed(home, X, used')
  BY <1>1, <1>2 DEF Own, PlacedEverywhere
<1>7. Placed(home, save'.payload, used')
  BY <1>4 DEF Placed
<1>8. PlacedEverywhere(home)'
  BY <1>1, <1>6, <1>7 DEF Own, PlacedEverywhere
<1>9. InCopy(home)' /\ OnServer(home)'
  BY <1>1, <1>3, <1>5 DEF Own, InCopy, OnServer, Unexposed
<1>10. CarriesMine(home)' /\ AppliedMine(home)'
  BY <1>4 DEF CarriesMine, AppliedMine
<1>11. NoNewerThanServer(home)'
  BY <1>1, <1>3, <1>5 DEF NoNewerThanServer
<1>12. QED BY <1>3, <1>8, <1>9, <1>10, <1>11 DEF Own

\* The copy changes where this station has nothing, or what it has lost is known: the server
\* and the save stay as they are.
LEMMA OwnCopyStep ==
  ASSUME NEW home \in Homes, Own(home), HistoryOrdered,
         UNCHANGED <<server, save, again, used, mine, acked>>,
         exposed \subseteq exposed', exposed' \subseteq mine,
         \A X \in Snapshots' \ Snapshots :
           /\ Placed(home, X, used)
           /\ \A e \in Unexposed : e \in X[home[e]] => e \in server[home[e]],
         Placed(home, db', used), InCopy(home)'
  PROVE  Own(home)' /\ HistoryOrdered'
<1>1. HistoryOrdered' /\ Unexposed' \subseteq Unexposed /\ acked' \ exposed' \subseteq acked \ exposed
  BY DEF HistoryOrdered, Unexposed
<1>2. PlacedEverywhere(home)'
  <2>1. \A X \in Snapshots' : Placed(home, X, used)
    BY DEF Own, PlacedEverywhere
  <2>2. QED BY <2>1 DEF Own, PlacedEverywhere
<1>3. OnServer(home)'
  BY <1>1 DEF Own, OnServer
<1>4. CarriesMine(home)' /\ AppliedMine(home)'
  BY <1>1 DEF Own, CarriesMine, Carries, AppliedMine
<1>5. NoNewerThanServer(home)'
  <2>1. \A X \in Snapshots' : \A e \in Unexposed : e \in X[home[e]] => e \in server[home[e]]
    BY DEF Own, NoNewerThanServer
  <2>2. QED BY <1>1, <2>1 DEF NoNewerThanServer
<1>6. QED BY <1>1, <1>2, <1>3, <1>4, <1>5 DEF Own

\* A snapshot replaces the copy: what it does not show is known as exposed.
LEMMA OwnHydrate ==
  ASSUME Inv, NEW home \in Homes, Own(home), HistoryOrdered, NEW k \in Callers, Hydrate(k)
  PROVE  Own(home)' /\ HistoryOrdered'
<1> DEFINE snapshot == pull[k].snapshot
<1>1. /\ db' = Filled(snapshot) /\ baseline' = Filled(snapshot)
      /\ exposed' = exposed \cup (mine \ UNION {snapshot[c] : c \in Collections})
      /\ UNCHANGED <<server, cache, others, save, again, used, mine, acked>>
      /\ pull' = Becomes(k, "accounts")
  BY DEF Hydrate
<1>2. snapshot \in Contents /\ snapshot # NoSnapshot /\ snapshot \in Snapshots
  BY DEF Hydrate, At, Inv, PullsTyped, Snapshots
<1>3. \A j \in Callers : pull'[j].snapshot = pull[j].snapshot
  BY <1>1 DEF Becomes, Inv, PullsTyped
<1>4. Snapshots' \subseteq Snapshots \cup {Filled(snapshot)}
  BY <1>1, <1>2, <1>3 DEF Snapshots
<1>5. Placed(home, snapshot, used)
  BY <1>2 DEF Own, PlacedEverywhere
<1>6. \A c \in Collections : \A e \in Entries : e \in Filled(snapshot)[c] <=> e \in snapshot[c]
  BY <1>2, FilledTyped, SettingsAssumption
<1>7. Placed(home, Filled(snapshot), used)
  BY <1>5, <1>6 DEF Placed
<1>8. \A e \in Unexposed : e \in Entries /\ home[e] \in Collections
  BY DEF HistoryOrdered, Unexposed, Homes
<1>9. \A e \in Unexposed : e \in Filled(snapshot)[home[e]] => e \in server[home[e]]
  BY <1>2, <1>6, <1>8 DEF Own, NoNewerThanServer
<1>10. exposed \subseteq exposed' /\ exposed' \subseteq mine
  BY <1>1 DEF HistoryOrdered
<1>11. ASSUME NEW e \in Unexposed' PROVE e \in snapshot[home[e]]
  <2>1. e \in mine /\ e \in Entries
    BY <1>1 DEF Unexposed, HistoryOrdered
  <2>2. PICK c \in Collections : e \in snapshot[c]
    BY <1>1, <2>1 DEF Unexposed
  <2>3. home[e] = c
    BY <1>5, <2>1, <2>2 DEF Placed
  <2>4. QED BY <2>2, <2>3
<1>12. Unexposed' \subseteq Unexposed
  BY <1>1, <1>10 DEF Unexposed
<1>13. InCopy(home)'
  BY <1>1, <1>11, <1>6, <1>8, <1>12 DEF InCopy
<1>14. QED BY <1>1, <1>4, <1>10, <1>13, <1>7, <1>9, OwnCopyStep

\* The end of a load, with the note it may leave in the settings, which is nobody's entry.
LEMMA OwnLoadAccounts ==
  ASSUME Inv, NEW home \in Homes, Own(home), HistoryOrdered,
         NEW k \in Callers, NEW notes \in BOOLEAN, LoadAccounts(k, notes)
  PROVE  Own(home)' /\ HistoryOrdered'
<1>1. UNCHANGED <<server, cache, others, baseline, save, again, used, mine, acked, exposed>> /\ Over(k)
  BY DEF LoadAccounts
<1>2. \A j \in Callers : pull'[j].snapshot \in {pull[j].snapshot, NoSnapshot}
  BY <1>1 DEF Over, Wake, NoPull
<1>3. Snapshots' \subseteq Snapshots
  BY <1>1, <1>2 DEF Snapshots
<1>4. \A c \in Collections : db[c] \subseteq db'[c] /\ db'[c] \subseteq db[c] \cup {Derived}
  BY DEF LoadAccounts, Inv, DataTyped, Contents
<1>5. Placed(home, db', used)
  BY <1>4, SettingsAssumption DEF Own, PlacedEverywhere, Placed
<1>6. \A e \in Unexposed : home[e] \in Collections
  BY DEF HistoryOrdered, Unexposed, Homes
<1>7. InCopy(home)'
  BY <1>1, <1>4, <1>6 DEF Own, InCopy, Unexposed
<1>8. exposed' = exposed /\ exposed' \subseteq mine
  BY <1>1 DEF HistoryOrdered
<1>9. QED BY <1>1, <1>3, <1>5, <1>7, <1>8, OwnCopyStep

\* The rights changed: the copy is emptied, and everything of this station is exposed.
LEMMA OwnRightsChanged ==
  ASSUME NEW home \in Homes, Own(home), HistoryOrdered, NEW k \in Callers, RightsChanged(k)
  PROVE  Own(home)' /\ HistoryOrdered'
<1>1. /\ db' = EmptyDB /\ exposed' = exposed \cup mine
      /\ UNCHANGED <<server, cache, others, baseline, save, again, pull, used, mine, acked>>
  BY DEF RightsChanged
<1>2. Snapshots' \subseteq Snapshots
  BY <1>1 DEF Snapshots
<1>3. Placed(home, db', used)
  BY <1>1, EmptyDBTyped, SettingsAssumption DEF Placed
<1>4. InCopy(home)'
  BY <1>1 DEF InCopy, Unexposed
<1>5. exposed \subseteq exposed' /\ exposed' \subseteq mine
  BY <1>1 DEF HistoryOrdered
<1>6. QED BY <1>1, <1>2, <1>3, <1>4, <1>5, OwnCopyStep

\* Where a step that leaves the copy and the save alone takes its snapshots from.
LEMMA SnapshotsMove ==
  ASSUME Inv, NEW k \in Callers,
         Pull(k) \/ Woken(k) \/ Login(k) \/ ServerRead(k) \/ ServerCaches(k) \/ PullFails(k)
  PROVE  Snapshots' \subseteq Snapshots \cup {server} /\ UNCHANGED <<server, db, save, again, history>>
<1>1. CASE Pull(k) \/ Woken(k) \/ Login(k)
  <2>1. UNCHANGED <<server, cache, others, db, baseline, save, again, history>>
    BY <1>1 DEF Pull, Woken, Login, copy
  <2>2. pull' = Becomes(k, "asked") \/ pull' = Becomes(k, "waiting")
    BY <1>1 DEF Pull, Woken, Login
  <2>3. \A j \in Callers : pull'[j].snapshot = pull[j].snapshot
    BY <2>2 DEF Becomes, Inv, PullsTyped
  <2>4. QED BY <2>1, <2>3 DEF Snapshots
<1>2. CASE ServerRead(k)
  <2>1. UNCHANGED <<server, cache, others, db, baseline, save, again, history>>
    BY <1>2 DEF ServerRead, copy
  <2>2. \A j \in Callers : pull'[j].snapshot \in {pull[j].snapshot, cache, server}
    BY <1>2 DEF ServerRead, Inv, PullsTyped
  <2>3. QED BY <2>1, <2>2 DEF Snapshots
<1>3. CASE ServerCaches(k)
  <2>1. UNCHANGED <<server, others, db, baseline, save, again, history>> /\ cache' = pull[k].snapshot
    BY <1>3 DEF ServerCaches, copy
  <2>2. \A j \in Callers : pull'[j].snapshot = pull[j].snapshot
    BY <1>3 DEF ServerCaches, Becomes, Inv, PullsTyped
  <2>3. QED BY <2>1, <2>2 DEF Snapshots
<1>4. CASE PullFails(k)
  <2>1. UNCHANGED <<server, cache, others, db, baseline, save, again, history>>
    BY <1>4 DEF PullFails
  <2>2. \A j \in Callers : pull'[j].snapshot \in {pull[j].snapshot, NoSnapshot}
    BY <1>4 DEF PullFails, Over, Wake, NoPull
  <2>3. QED BY <2>1, <2>2 DEF Snapshots
<1>5. QED BY <1>1, <1>2, <1>3, <1>4

\* The steps of the saving loop but the answer of the server.
LEMMA OwnSaving ==
  ASSUME NEW home \in Homes, Own(home), HistoryOrdered, AutoSave \/ SaveFails \/ (Saved /\ again)
  PROVE  Own(home)' /\ HistoryOrdered'
<1>1. CASE AutoSave
  BY <1>1, OwnSavingStep DEF AutoSave, BackendSave, copy, rest
<1>2. CASE SaveFails
  BY <1>2, OwnSavingStep DEF SaveFails
<1>3. CASE Saved /\ again
  BY <1>3, OwnSavingStep DEF Saved, GoesAgain, rest, history
<1>4. QED BY <1>1, <1>2, <1>3

LEMMA InitOwn == Init => OwnInv
<1> SUFFICES ASSUME Init PROVE OwnInv
  OBVIOUS
<1>1. used = {} /\ mine = {} /\ acked = {} /\ exposed = {}
  BY DEF Init
<1>2. HistoryOrdered
  BY <1>1 DEF HistoryOrdered
<1> DEFINE home == [e \in Entries |-> Settings]
<1>3. home \in Homes
  BY SettingsAssumption DEF Homes
<1>4. server = Nothing /\ db = EmptyDB /\ save = NoSave
  BY DEF Init
<1>5. Snapshots \subseteq {Nothing}
  BY DEF Init, Snapshots, NoPull
<1>6. \A c \in Collections :
        Nothing[c] = {} /\ server[c] = {} /\ db[c] \cap Entries = {} /\ save.payload[c] = {}
  BY <1>4, EmptyDBTyped, SettingsAssumption DEF Nothing, NoSave
<1>7. PlacedEverywhere(home)
  BY <1>5, <1>6 DEF PlacedEverywhere, Placed
<1>8. InCopy(home) /\ OnServer(home) /\ CarriesMine(home) /\ AppliedMine(home) /\ NoNewerThanServer(home)
  BY <1>1, <1>4, <1>5 DEF InCopy, OnServer, CarriesMine, AppliedMine, NoNewerThanServer, Unexposed, NoSave
<1>9. QED BY <1>2, <1>3, <1>7, <1>8 DEF OwnInv, Own

LEMMA NextOwn == Inv /\ OwnInv /\ [Next]_vars => OwnInv'
<1> SUFFICES ASSUME Inv, OwnInv, [Next]_vars PROVE OwnInv'
  OBVIOUS
<1>1. PICK home \in Homes : Own(home)
  BY DEF OwnInv
<1>2. HistoryOrdered
  BY DEF OwnInv
<1>3. ASSUME NEW to \in Homes, Own(to)', HistoryOrdered' PROVE OwnInv'
  BY <1>3 DEF OwnInv
<1>4. ASSUME NEW c \in Collections, NEW e \in Entries,
             Edit(c, e) \/ \E s \in Others : SavedElsewhere(s, c, e)
      PROVE  OwnInv'
  <2> DEFINE to == [home EXCEPT ![e] = c]
  <2>1. to \in Homes
    BY DEF Homes
  <2>2. CASE Edit(c, e)
    <3>1. Own(to)' /\ HistoryOrdered'
      BY <1>1, <1>2, <2>2, OwnEdit
    <3>2. QED BY <1>3, <2>1, <3>1
  <2>3. CASE \E s \in Others : SavedElsewhere(s, c, e)
    <3>1. Own(to)' /\ HistoryOrdered'
      BY <1>1, <1>2, <2>3, OwnElsewhere
    <3>2. QED BY <1>3, <2>1, <3>1
  <2>4. QED BY <1>4, <2>2, <2>3
<1>5. CASE AutoSave \/ ServerReplace \/ Saved \/ SaveFails
  <2>1. Own(home)' /\ HistoryOrdered'
    BY <1>1, <1>2, <1>5, OwnReplace, OwnSaved, OwnSaving
  <2>2. QED BY <1>3, <2>1
<1>6. ASSUME NEW k \in Callers,
             Pull(k) \/ Woken(k) \/ Login(k) \/ ServerRead(k) \/ ServerCaches(k) \/ PullFails(k)
      PROVE  OwnInv'
  <2>1. Own(home)' /\ HistoryOrdered'
    BY <1>1, <1>2, <1>6, SnapshotsMove, QuietStep
  <2>2. QED BY <1>3, <2>1
<1>7. ASSUME NEW k \in Callers, NEW notes \in BOOLEAN,
             RightsChanged(k) \/ Hydrate(k) \/ LoadAccounts(k, notes)
      PROVE  OwnInv'
  <2>1. Own(home)' /\ HistoryOrdered'
    BY <1>1, <1>2, <1>7, OwnRightsChanged, OwnHydrate, OwnLoadAccounts
  <2>2. QED BY <1>3, <2>1
<1>8. CASE CacheExpires \/ Logout \/ SessionExpires
  <2>1. UNCHANGED <<server, others, db, save, again, pull, history>>
        /\ cache' \in {cache, NoSnapshot} /\ baseline' \in {baseline, NoSnapshot}
    BY <1>8 DEF CacheExpires, Logout, SessionExpires, copy, rest
  <2>2. Snapshots' \subseteq Snapshots \cup {server}
    BY <2>1 DEF Snapshots
  <2>3. Own(home)' /\ HistoryOrdered'
    BY <1>1, <1>2, <2>1, <2>2, QuietStep
  <2>4. QED BY <1>3, <2>3
<1>9. CASE UNCHANGED vars
  <2>1. UNCHANGED <<server, db, save, again, history>> /\ Snapshots' = Snapshots
    BY <1>9 DEF vars, copy, rest, Snapshots
  <2>2. Own(home)' /\ HistoryOrdered'
    BY <1>1, <1>2, <2>1, QuietStep
  <2>3. QED BY <1>3, <2>2
<1>10. ASSUME NEW s \in Others, LoadedElsewhere(s)
       PROVE  OwnInv'
  <2>1. UNCHANGED <<server, cache, db, baseline, pull, save, again, history>>
    BY <1>10 DEF LoadedElsewhere, copy, rest
  <2>2. \A t \in Others : others'[t] \in {others[t], server, cache}
    BY <1>10 DEF LoadedElsewhere, Inv, DataTyped
  <2>3. Snapshots' \subseteq Snapshots \cup {server}
    BY <2>1, <2>2 DEF Snapshots
  <2>4. Own(home)' /\ HistoryOrdered'
    BY <1>1, <1>2, <2>1, <2>3, QuietStep
  <2>5. QED BY <1>3, <2>4
<1>11. QED
  <2>1. CASE \E k \in Callers :
               \/ Pull(k) \/ Woken(k) \/ RightsChanged(k)
               \/ ServerRead(k) \/ ServerCaches(k) \/ Hydrate(k) \/ PullFails(k)
               \/ \E notes \in BOOLEAN : LoadAccounts(k, notes)
               \/ Login(k)
    BY <1>6, <1>7, <2>1
  <2>2. QED BY <1>4, <1>5, <1>8, <1>9, <1>10, <2>1 DEF Next

\* For any collections, entries, calls and stations, what the user was told is saved stays on
\* the server, unless an older answer or a change of rights took it out of the copy, or another
\* station saved over it a copy without it (sgdi-app.js:900-990, 1025-1087;
\* irongs/service.py:640).
THEOREM OwnWorkKeptHolds == Spec => []OwnWorkKept
<1>1. OwnInv => OwnWorkKept
  <2> SUFFICES ASSUME OwnInv, NEW e \in acked \ exposed PROVE \E c \in Collections : e \in server[c]
    BY DEF OwnWorkKept
  <2>1. PICK home \in Homes : Own(home)
    BY DEF OwnInv
  <2>2. e \in server[home[e]]
    BY <2>1 DEF Own, OnServer
  <2>3. home[e] \in Collections
    BY DEF OwnInv, HistoryOrdered, Homes
  <2>4. QED BY <2>2, <2>3
<1>2. QED BY <1>1, InitOwn, NextOwn, Invariance, PTL DEF Spec

================================================================================
