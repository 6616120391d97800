------------------------------ MODULE SnapshotSync ------------------------------
(***************************************************************************)
(* The shared database of the web application (app/static/sgdi-app.js,     *)
(* irongs/service.py): the server keeps collections; a station loads all   *)
(* of them in one snapshot, works on its copy, and saves the collections   *)
(* that differ from what it last loaded or saved.                          *)
(*                                                                         *)
(* One station of an administrator in detail (the accounts that may save   *)
(* the whole base), the others as what they load and save.  A collection   *)
(* is the set of entries it holds.  JavaScript runs to its next await: an  *)
(* action is what happens between two of them.  The collections that have  *)
(* an API of their own never travel in a save and are left out, and so is  *)
(* what is only displayed.                                                 *)
(***************************************************************************)
EXTENDS Integers, FiniteSets

CONSTANTS
  Collections,  \* collections saved with the base
  Settings,     \* the collection that is never empty in a copy, and that loading the accounts
                \* may complete
  Entries,      \* entries that users add
  Default,      \* what a copy holds of the settings before it is loaded
  Derived,      \* the entry that loading the accounts adds
  Callers,      \* calls of sgdiPullState in progress
  Others,       \* the other stations
  NoCaller, NoSnapshot,
  MaxEvents     \* bound: sign-outs, expiries, changes of rights and failures of a call

ASSUME SettingsAssumption == Settings \in Collections /\ {Default, Derived} \cap Entries = {}
ASSUME EventsAssumption == MaxEvents \in Nat

VARIABLES
  server,    \* table sgdi_records
  cache,     \* the snapshot cache of the server
  others,    \* the copies of the other stations
  db,        \* the station's copy
  baseline,  \* sgdiSavedBaseline: the copy as last loaded or saved
  dirty,     \* sgdiDirty: something waits to be saved
  ready,     \* sgdiPostgresReady
  hydrated,  \* sgdiHydrated
  session,   \* somebody is signed in
  save,      \* the save in progress: its place, its payload
  again,     \* sgdiSaveAgain
  pull,      \* the calls of sgdiPullState
  flight,    \* sgdiPullStateInFlight
  events,    \* how much of MaxEvents is spent
  used,      \* history: entries added, here or elsewhere
  mine,      \* history: entries added here that saveDB took
  acked,     \* history: entries added here and said to be saved
  touched,   \* history: collections changed here since the copy was last loaded or saved
  blank,     \* history: the copy was emptied and not loaded again
  exposed    \* history: entries of this station that an older snapshot or a reset erased from its
             \* copy, or the save of another station from the server

copy == <<db, baseline, dirty, ready, hydrated, session>>
history == <<used, mine, acked, touched, blank, exposed>>
rest == <<pull, flight, events>>
vars == <<server, cache, others, copy, save, again, rest, history>>

Items == Entries \cup {Default, Derived}
Contents == [Collections -> SUBSET Items]

ASSUME NamesAssumption == NoCaller \notin Callers /\ NoSnapshot \notin Contents

Nothing == [c \in Collections |-> {}]

\* The copy of a station is never without its settings: emptyDB has some, and sgdiAutoRepairDB
\* completes those of a snapshot.
Filled(contents) == [contents EXCEPT ![Settings] = @ \cup {Default}]
EmptyDB == Filled(Nothing)

NoSave == [pc |-> "idle", payload |-> Nothing, scope |-> {}, signed |-> FALSE, blank |-> FALSE]
NoPull == [pc |-> "idle", snapshot |-> NoSnapshot]
Running == {"asked", "reading", "answered", "accounts"}

TypeOK ==
  /\ server \in Contents /\ db \in Contents /\ others \in [Others -> Contents]
  /\ cache \in Contents \cup {NoSnapshot} /\ baseline \in Contents \cup {NoSnapshot}
  /\ {dirty, ready, hydrated, session, again, blank} \subseteq BOOLEAN
  /\ save \in [pc : {"idle", "sent", "applied"}, payload : Contents,
               scope : SUBSET Collections, signed : BOOLEAN, blank : BOOLEAN]
  /\ pull \in [Callers -> [pc : Running \cup {"idle", "waiting", "woken"},
                           snapshot : Contents \cup {NoSnapshot}]]
  /\ flight \in Callers \cup {NoCaller} /\ events \in 0 .. MaxEvents
  /\ \A k \in Callers : pull[k].pc \in Running <=> flight = k
  /\ \A k \in Callers : pull[k].pc \in {"reading", "answered"} => pull[k].snapshot # NoSnapshot
  /\ hydrated => baseline # NoSnapshot
  /\ again => save.pc # "idle" \/ dirty

\* bootApp: the application opens on a session it kept, with an empty copy.
Init ==
  /\ server = Nothing /\ cache = NoSnapshot /\ others = [s \in Others |-> Nothing]
  /\ db = EmptyDB /\ baseline = NoSnapshot
  /\ dirty = FALSE /\ ready = FALSE /\ hydrated = FALSE /\ session = TRUE
  /\ save = NoSave /\ again = FALSE
  /\ pull = [k \in Callers |-> NoPull] /\ flight = NoCaller
  /\ events = 0
  /\ used = {} /\ mine = {} /\ acked = {} /\ touched = {} /\ blank = TRUE /\ exposed = {}

Event == events < MaxEvents /\ events' = events + 1
--------------------------------------------------------------------------------
(* Saving.                                                                 *)

\* sgdiLegacySnapshot: a collection that has not changed leaves empty, and the server
\* takes no empty collection.  Without a baseline everything leaves.
Changed(c) == baseline = NoSnapshot \/ db[c] # baseline[c]
Payload == [c \in Collections |-> IF Changed(c) THEN db[c] ELSE {}]

\* One turn of the loop: the payload is the copy of now, under the session of now.
Put == [pc |-> "sent", payload |-> Payload, signed |-> session, blank |-> blank,
        scope |-> IF baseline = NoSnapshot THEN Collections ELSE touched]

\* sgdiBackendSave: one save at a time, the next one is noted
BackendSave ==
  IF save.pc # "idle"
  THEN again' = TRUE /\ UNCHANGED save
  ELSE save' = Put /\ again' = FALSE

\* sgdiRequireServerWrite: a station that was loaded once is considered ready.
MaySave == hydrated

\* A user adds an entry to a collection, and saveDB: before the first loading it says to
\* wait and the entry is only in the copy.
Edit(c, e) ==
  /\ session /\ e \notin used
  /\ used' = used \cup {e} /\ touched' = touched \cup {c}
  /\ db' = [db EXCEPT ![c] = @ \cup {e}]
  /\ dirty' = TRUE
  /\ UNCHANGED <<server, cache, others, baseline, hydrated, session, rest, acked, blank, exposed>>
  /\ IF MaySave
     THEN /\ ready' = TRUE /\ mine' = mine \cup {e}
          /\ IF save.pc # "idle"
             THEN again' = TRUE /\ UNCHANGED save
             ELSE /\ save' = [Put EXCEPT !.payload[c] = db[c] \cup {e}, !.scope = @ \cup {c}]
                  /\ again' = FALSE
     ELSE UNCHANGED <<ready, mine, save, again>>

\* Every 30 seconds, what still waits.
AutoSave ==
  /\ dirty /\ session /\ ready /\ MaySave
  /\ BackendSave
  /\ UNCHANGED <<server, cache, others, copy, rest, history>>

\* replace_database: collection by collection, the empty ones ignored
Replaced(old, new) == [c \in Collections |-> IF new[c] = {} THEN old[c] ELSE new[c]]

ServerReplace ==
  /\ save.pc = "sent" /\ save.signed
  /\ server' = Replaced(server, save.payload)
  /\ cache' = NoSnapshot
  /\ save' = [save EXCEPT !.pc = "applied"]
  /\ UNCHANGED <<others, copy, again, rest, history>>

\* What is compared with the copy from now on
SameBaselineMutant == baseline
NewBaseline == db

\* The answer: another turn if something was saved meanwhile, or the copy of now
\* becomes the baseline and the user reads "Sauvegardé".
NeverAgainMutant == FALSE
GoesAgain == again

Saved ==
  /\ save.pc = "applied"
  /\ ready' = TRUE /\ dirty' = FALSE
  /\ again' = FALSE
  /\ IF GoesAgain
     THEN save' = Put /\ UNCHANGED <<baseline, acked, touched>>
     ELSE /\ save' = NoSave
          /\ baseline' = NewBaseline /\ touched' = {}
          /\ acked' = acked \cup mine
  /\ UNCHANGED <<server, cache, others, db, hydrated, session, rest, used, mine, blank, exposed>>

\* sgdiServerOnlyFailure, whether or not the server had replaced anything
SaveFails ==
  /\ save.pc # "idle"
  /\ IF save.signed THEN Event ELSE UNCHANGED events
  /\ ready' = FALSE /\ dirty' = TRUE /\ save' = NoSave
  /\ UNCHANGED <<server, cache, others, db, baseline, hydrated, session, again, pull, flight,
                 history>>
--------------------------------------------------------------------------------
(* Loading.                                                                *)

At(k, pc) == pull[k].pc = pc
Becomes(k, pc) == [pull EXCEPT ![k].pc = pc]

Pull(k) ==
  /\ session /\ At(k, "idle")
  /\ IF flight = NoCaller
     THEN pull' = Becomes(k, "asked") /\ flight' = k
     ELSE pull' = Becomes(k, "waiting") /\ UNCHANGED flight
  /\ UNCHANGED <<server, cache, others, copy, save, again, events, history>>

\* What becomes of the calls that wait
Wake(j) == IF At(j, "waiting") THEN [NoPull EXCEPT !.pc = "woken"] ELSE pull[j]

\* finally: the place is free
StillTakenMutant == flight
Released == NoCaller

\* The end of a call wakes all those that wait; each looks again before it starts.
Over(k) ==
  /\ pull' = [j \in Callers |-> IF j = k THEN NoPull ELSE Wake(j)]
  /\ flight' = Released

AtOnceMutant(k) == TRUE
MayStart(k) == flight = NoCaller

Woken(k) ==
  /\ At(k, "woken")
  /\ IF MayStart(k)
     THEN pull' = Becomes(k, "asked") /\ flight' = k
     ELSE pull' = Becomes(k, "waiting") /\ UNCHANGED flight
  /\ UNCHANGED <<server, cache, others, copy, save, again, events, history>>

\* sgdiRefreshSessionFromServer, before the snapshot is asked for: other rights than before,
\* and the copy is emptied
RightsChanged(k) ==
  /\ At(k, "asked") /\ session /\ Event
  /\ db' = EmptyDB /\ ready' = FALSE
  /\ blank' = TRUE /\ exposed' = exposed \cup mine
  /\ UNCHANGED <<server, cache, others, baseline, dirty, hydrated, session, save, again, pull, flight,
                 used, mine, acked, touched>>

\* get_database: the cached snapshot, or a reading that is cached afterwards
ServerRead(k) ==
  /\ At(k, "asked") /\ session
  /\ pull' = [pull EXCEPT ![k] = IF cache # NoSnapshot
                                 THEN [pc |-> "answered", snapshot |-> cache]
                                 ELSE [pc |-> "reading", snapshot |-> server]]
  /\ UNCHANGED <<server, cache, others, copy, save, again, flight, events, history>>

ServerCaches(k) ==
  /\ At(k, "reading")
  /\ cache' = pull[k].snapshot
  /\ pull' = Becomes(k, "answered")
  /\ UNCHANGED <<server, others, copy, save, again, flight, events, history>>

CacheExpires ==
  /\ cache # NoSnapshot /\ cache' = NoSnapshot
  /\ UNCHANGED <<server, others, copy, save, again, rest, history>>

\* hydrateDB and sgdiCaptureBaseline
Hydrate(k) ==
  /\ At(k, "answered")
  /\ LET snapshot == pull[k].snapshot
     IN /\ db' = Filled(snapshot) /\ baseline' = Filled(snapshot)
        /\ exposed' = exposed \cup (mine \ UNION {snapshot[c] : c \in Collections})
  /\ ready' = TRUE /\ hydrated' = TRUE
  /\ pull' = Becomes(k, "accounts")
  /\ touched' = {} /\ blank' = FALSE
  /\ UNCHANGED <<server, cache, others, dirty, session, save, again, flight, events, used, mine,
                 acked>>

\* sgdiLoadAuthState: what the accounts may do is noted in the settings, after the baseline
\* was taken
LoadAccounts(k, notes) ==
  /\ At(k, "accounts")
  /\ IF notes /\ session
     THEN /\ db' = [db EXCEPT ![Settings] = @ \cup {Derived}]
          /\ touched' = IF Derived \in db[Settings] THEN touched ELSE touched \cup {Settings}
     ELSE UNCHANGED <<db, touched>>
  /\ Over(k)
  /\ UNCHANGED <<server, cache, others, baseline, dirty, ready, hydrated, session, save, again, events,
                 used, mine, acked, blank, exposed>>

\* A failure of the first loading of a session ends the session.
PullFails(k) ==
  /\ pull[k].pc \in {"asked", "reading", "answered"}
  /\ IF session THEN Event ELSE UNCHANGED events
  /\ session' = (session /\ hydrated) /\ ready' = (ready /\ hydrated)
  /\ Over(k)
  /\ UNCHANGED <<server, cache, others, db, baseline, dirty, hydrated, save, again, history>>
--------------------------------------------------------------------------------
(* The session, and the other stations.                                    *)

Login(k) ==
  /\ ~session /\ At(k, "idle")
  /\ session' = TRUE
  /\ IF flight = NoCaller
     THEN pull' = Becomes(k, "asked") /\ flight' = k
     ELSE pull' = Becomes(k, "waiting") /\ UNCHANGED flight
  /\ UNCHANGED <<server, cache, others, db, baseline, dirty, ready, hydrated, save, again, events,
                 history>>

Logout ==
  /\ session /\ Event
  /\ session' = FALSE /\ ready' = FALSE /\ hydrated' = FALSE /\ baseline' = NoSnapshot
  /\ UNCHANGED <<server, cache, others, db, dirty, save, again, pull, flight, history>>

\* sgdiHandleAuthFailure: the token is no longer valid
SessionExpires ==
  /\ session /\ Event
  /\ session' = FALSE /\ ready' = FALSE
  /\ UNCHANGED <<server, cache, others, db, baseline, dirty, hydrated, save, again, pull, flight,
                 history>>

LoadedElsewhere(s) ==
  /\ \E snapshot \in {server, cache} \ {NoSnapshot} : others' = [others EXCEPT ![s] = snapshot]
  /\ UNCHANGED <<server, cache, copy, save, again, rest, history>>

\* A user of another station adds an entry to a collection, and its save replaces the whole
\* collection by its copy, whatever was saved since it loaded.
SavedElsewhere(s, c, e) ==
  /\ e \notin used /\ used' = used \cup {e}
  /\ others' = [others EXCEPT ![s][c] = Filled(others[s])[c] \cup {e}]
  /\ server' = [server EXCEPT ![c] = others'[s][c]]
  /\ cache' = NoSnapshot
  /\ exposed' = exposed \cup ((mine \cap server[c]) \ others[s][c])
  /\ UNCHANGED <<copy, save, again, rest, mine, acked, touched, blank>>

Next ==
  \/ \E c \in Collections, e \in Entries :
       Edit(c, e) \/ \E s \in Others : SavedElsewhere(s, c, e)
  \/ \E s \in Others : LoadedElsewhere(s)
  \/ AutoSave \/ ServerReplace \/ Saved \/ SaveFails
  \/ \E k \in Callers :
       \/ Pull(k) \/ Woken(k) \/ RightsChanged(k)
       \/ ServerRead(k) \/ ServerCaches(k) \/ Hydrate(k) \/ PullFails(k)
       \/ \E notes \in BOOLEAN : LoadAccounts(k, notes)
       \/ Login(k)
  \/ CacheExpires \/ Logout \/ SessionExpires

Spec == Init /\ [][Next]_vars
--------------------------------------------------------------------------------
(* Properties.                                                             *)

\* sgdi-app.js:1029-1032: calls from dozens of places never load at the same time, also
\* when several of them wait for the end of one.
OnePullAtATime ==
  \A j, k \in Callers : pull[j].pc \in Running /\ pull[k].pc \in Running => j = k

\* sgdi-app.js:913-917: a save erases nothing the other stations saved in collections this
\* one has not changed since it loaded them, whatever was queued, loaded or signed out of in
\* between, unless its copy was emptied by a change of rights and not loaded again.
NoClobber ==
  [][\A c \in Collections :
       save.pc = "sent" /\ save'.pc = "applied" /\ c \notin save.scope /\ ~save.blank
         => server[c] \subseteq server'[c]]_vars

\* What the user was told is saved stays on the server, through saves queued behind others,
\* failures, reloads and sessions, unless an answer older than the entry, or a change of
\* rights, took it out of the copy, or the save of another station replaced the collection by
\* a copy without it (irongs/service.py:640).
OwnWorkKept ==
  \A e \in acked \ exposed : \E c \in Collections : e \in server[c]

\* sgdi-app.js:923-925 and 201-203: a station never saves a copy that was not loaded.
SavedOnlyWhatWasLoaded == save.pc # "idle" => ~save.blank
================================================================================
