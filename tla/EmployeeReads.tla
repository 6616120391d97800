------------------------------ MODULE EmployeeReads -----------------------------
(***************************************************************************)
(* The employees a station of the web application keeps in memory          *)
(* (app/static/sgdi-app.js, modules/drh/service.py).  Screens ask for the  *)
(* employees of the company or of one of its societies, with their         *)
(* documents or without; equal requests share one reading; a reading that  *)
(* fails is tried again page by page; a change, made here or signalled,    *)
(* makes every reading in progress obsolete and every mark of freshness    *)
(* void; and a call that needs a whole list asks again, a few times.       *)
(*                                                                         *)
(* JavaScript runs to its next await: an action is what happens between    *)
(* two of them, and nothing happens before the calls that an answer wakes  *)
(* have gone on (Busy).  Revisions are abstracted to what is compared:     *)
(* whether the revision and the token are still those of the reading.      *)
(***************************************************************************)
EXTENDS Integers, FiniteSets

CONSTANTS
  NbEmployees,  \* employees, numbered in the order of the pages
  Societies,    \* societies of the company
  Start,        \* where each employee is at first
  All, None,    \* the scope of the whole company; no society, no row, no reading
  Calls,        \* calls in progress
  Asked,        \* what is asked for: a scope, and whether without the documents
  Attempts,     \* attempts of each call: one for sgdiPullEmployees, more for sgdiPullCurrentEmployees
  MaxChanges,   \* bound: changes of the employees on the server
  MaxEvents     \* bound: sign-outs, changes of rights and pages asked for by a screen

ASSUME SizesAssumption == NbEmployees \in Nat /\ Attempts \in [Calls -> Nat \ {0}]
ASSUME ScopesAssumption ==
  Asked \subseteq (Societies \cup {All}) \X BOOLEAN /\ Start \in [1 .. NbEmployees -> Societies]
ASSUME BoundsAssumption == MaxChanges \in Nat /\ MaxEvents \in Nat
ASSUME NamesAssumption == All \notin Societies \cup {None} /\ None \notin Societies

VARIABLES
  server,    \* the employees of the database, and how often each has changed
  agents,    \* db.agents: the rows of the station
  shapeLight,\* __sgdiAgentsShapeLight: some rows may be without documents
  ensured,   \* __sgdiEnsuredAt: the scopes marked fresh
  session,   \* a token is present
  unread,    \* the token is not the one of the last reading
  call,      \* the calls of sgdiPullEmployees and sgdiPullCurrentEmployees
  read,      \* the readings, each named after the call that started it
  page,      \* a page on its way to a screen that shows one
  changes, events, \* how much of MaxChanges and MaxEvents is spent
  behind,    \* history: something has changed since the last invalidation
  known,     \* history: the changes of each employee at the last invalidation
  outside    \* history: rows altered otherwise than by a reading since then

station == <<agents, shapeLight, ensured>>
token == <<session, unread>>
bounds == <<changes, events>>
history == <<behind, known, outside>>
vars == <<server, station, token, call, read, page, bounds, history>>

Employees == 1 .. NbEmployees
Scopes == Societies \cup {All}

Row(society, version, light) == [society |-> society, version |-> version, light |-> light]
NoRow == Row(None, 0, FALSE)
NoRows == [e \in Employees |-> NoRow]
Rows == [Employees -> [society : Societies \cup {None}, version : Nat, light : BOOLEAN]]

NoCall == [pc |-> "idle", scope |-> None, light |-> FALSE, left |-> 0, on |-> None, same |-> FALSE]
\* The shape asked for and the shape of what comes: the pages always have the documents.
NoRead == [pc |-> "none", scope |-> None, asked |-> FALSE, light |-> FALSE, current |-> FALSE,
           rows |-> NoRows, page |-> 0, total |-> 0, found |-> 0]

Running == {"asked", "answered", "paging", "paged"}

AllCalls ==
  [pc : {"idle", "waiting", "again"}, scope : Scopes \cup {None}, light : BOOLEAN, left : Nat,
   on : Calls \cup {None}, same : BOOLEAN]

Readings ==
  [pc : Running \cup {"none"}, scope : Scopes \cup {None}, asked : BOOLEAN, light : BOOLEAN,
   current : BOOLEAN, rows : Rows, page : Nat, total : Nat, found : Nat]

TypeOK ==
  /\ server \in [Employees -> [society : Societies \cup {None}, version : Nat]]
  /\ agents \in Rows /\ page \in Rows
  /\ shapeLight \in BOOLEAN /\ session \in BOOLEAN /\ unread \in BOOLEAN /\ behind \in BOOLEAN
  /\ ensured \subseteq Scopes
  /\ call \in [Calls -> AllCalls] /\ read \in [Calls -> Readings]
  /\ changes \in 0 .. MaxChanges /\ events \in 0 .. MaxEvents
  /\ known \in [Employees -> Nat] /\ outside \subseteq Employees
  /\ \A c \in Calls :
       /\ call[c].pc = "waiting" => call[c].on \in Calls /\ read[call[c].on].pc # "none"
       /\ call[c].pc = "again" => call[c].left > 1

Init ==
  /\ server = [e \in Employees |-> [society |-> Start[e], version |-> 0]]
  /\ agents = NoRows /\ shapeLight = FALSE /\ ensured = {}
  /\ session = TRUE /\ unread = TRUE
  /\ call = [c \in Calls |-> NoCall] /\ read = [c \in Calls |-> NoRead]
  /\ page = NoRows
  /\ changes = 0 /\ events = 0
  /\ behind = FALSE /\ known = [e \in Employees |-> 0] /\ outside = {}

\* The calls woken by an answer go on before anything else happens.
Busy == \E c \in Calls : call[c].pc = "again"
--------------------------------------------------------------------------------
(* What makes a reading obsolete.                                          *)

Obsolete(readings) == [c \in Calls |-> [readings[c] EXCEPT !.current = FALSE]]

KeptMarksMutant == ensured
NoMarks == {}

\* sgdiInvalidateDrhReads, in a step that leaves `readings`
Invalidate(readings) ==
  /\ read' = Obsolete(readings)
  /\ ensured' = NoMarks
  /\ behind' = FALSE /\ outside' = {}
  /\ known' = [e \in Employees |-> server[e].version]

\* A write of this station is answered, another signals one, the counters have changed, or
\* a snapshot was loaded that leaves the employees alone.
DataChange ==
  /\ ~Busy
  /\ Invalidate(read)
  /\ UNCHANGED <<server, agents, shapeLight, token, call, page, bounds>>

\* What is asked under another token than before is not comparable with what comes back.
TokenChanges ==
  /\ unread' = TRUE
  /\ read' = Obsolete(read)
  /\ call' = [c \in Calls |-> [call[c] EXCEPT !.same = FALSE]]

Event == events < MaxEvents /\ events' = events + 1

SignOut ==
  /\ ~Busy /\ session /\ Event
  /\ session' = FALSE /\ TokenChanges
  /\ UNCHANGED <<server, station, page, changes, history>>

SignIn ==
  /\ ~Busy /\ ~session
  /\ session' = TRUE /\ TokenChanges
  /\ UNCHANGED <<server, station, page, bounds, history>>
--------------------------------------------------------------------------------
(* The server.                                                             *)

\* An employee is edited, moves to another society, leaves the base or comes back.
ServerChange(e, society) ==
  /\ ~Busy /\ changes < MaxChanges
  /\ society # None \/ server[e].society # None
  /\ changes' = changes + 1 /\ behind' = TRUE
  /\ server' = [server EXCEPT ![e] = [society |-> society, version |-> @.version + 1]]
  /\ UNCHANGED <<station, token, call, read, page, events, known, outside>>

InScope(row, scope) == row.society # None /\ scope \in {All, row.society}

Listed(scope) == {e \in Employees : InScope(server[e], scope)}

ServerRow(e, light) == Row(server[e].society, server[e].version, light)

\* list_employees
List(scope, light) ==
  [e \in Employees |-> IF e \in Listed(scope) THEN ServerRow(e, light) ELSE NoRow]

\* list_employees_page, one employee to a page: a page past the last one is the last one.
OnPage(scope, n) ==
  LET all == Listed(scope)
      wanted == IF n < Cardinality(all) THEN n ELSE Cardinality(all)
  IN {e \in all : Cardinality({d \in all : d <= e}) = wanted}
--------------------------------------------------------------------------------
(* Calls.                                                                  *)

\* The reading a call may share: of the same shape, for the same scope or else for the whole
\* company, and not obsolete.
AnyShapeMutant(c, scope, light) == read[c].current /\ read[c].scope \in {scope, All}
Shareable(c, scope, light) ==
  read[c].current /\ read[c].scope \in {scope, All} /\ read[c].asked = light

NewRead(scope, light) ==
  [NoRead EXCEPT !.pc = "asked", !.scope = scope, !.asked = light, !.light = light,
                 !.current = TRUE]

\* sgdiPullEmployees: the first reading under a new token voids the marks.
Ask(c, scope, light, left) ==
  LET shared == {d \in Calls : Shareable(d, scope, light)}
      best == {d \in shared : read[d].scope = scope}
      waitsOn(d) == call' = [call EXCEPT ![c] =
                      [pc |-> "waiting", scope |-> scope, light |-> light, left |-> left,
                       on |-> d, same |-> TRUE]]
  IN /\ unread' = FALSE
     /\ IF shared # {}
        THEN /\ \E d \in (IF best # {} THEN best ELSE shared) : waitsOn(d)
             /\ UNCHANGED <<read, ensured, history>>
        ELSE /\ waitsOn(c)
             /\ read' = [read EXCEPT ![c] = NewRead(scope, light)]
             /\ IF unread
                THEN /\ ensured' = NoMarks /\ behind' = FALSE /\ outside' = {}
                     /\ known' = [e \in Employees |-> server[e].version]
                ELSE UNCHANGED <<ensured, history>>
     /\ UNCHANGED <<server, agents, shapeLight, session, page, bounds>>

\* sgdiPullEmployees makes one attempt, sgdiPullCurrentEmployees a few.
Pull(c, scope, light) ==
  /\ ~Busy /\ session
  /\ call[c].pc = "idle" /\ read[c].pc = "none"
  /\ Ask(c, scope, light, Attempts[c])

\* What an attempt leaves
AttemptsLeft(k) == k.left - 1

AskAgain(c) ==
  /\ call[c].pc = "again"
  /\ Ask(c, call[c].scope, call[c].light, AttemptsLeft(call[c]))

\* The end of a reading wakes all the calls that wait for it: each has its rows, or an
\* error, or asks again if the reading was obsolete and its token is still the same.
OnlyTheFirstMutant(c, f) == c = f /\ call[c].pc = "waiting" /\ call[c].on = f
Woken(c, f) == call[c].pc = "waiting" /\ call[c].on = f

Goes(k, obsolete) ==
  IF obsolete /\ k.left > 1 /\ k.same THEN [k EXCEPT !.pc = "again", !.on = None] ELSE NoCall

End(f, obsolete) ==
  /\ call' = [c \in Calls |-> IF Woken(c, f) THEN Goes(call[c], obsolete) ELSE call[c]]
  /\ read' = [read EXCEPT ![f] = NoRead]
--------------------------------------------------------------------------------
(* A reading.                                                              *)

AlwaysCurrentMutant(f) == TRUE
IsCurrent(f) == read[f].current

\* An obsolete reading is dropped at its next answer, whatever it brings: only that step of
\* it is left (Dropped).
At(f, pcs) == ~Busy /\ read[f].pc \in pcs /\ IsCurrent(f)

ServerLists(f) ==
  /\ At(f, {"asked"})
  /\ read' = [read EXCEPT ![f].pc = "answered", ![f].rows = List(read[f].scope, read[f].light)]
  /\ UNCHANGED <<server, station, token, call, page, bounds, history>>

\* The whole list cannot be had: the pages are asked for, and they have the documents.
ListFails(f) ==
  /\ At(f, {"asked", "answered"})
  /\ read' = [read EXCEPT ![f].pc = "paging", ![f].light = FALSE, ![f].rows = NoRows, ![f].page = 1]
  /\ UNCHANGED <<server, station, token, call, page, bounds, history>>

\* One page: its employee if there is one, after those of the pages before; the first page
\* says how many there are.
ServerPages(f) ==
  /\ At(f, {"paging"})
  /\ LET r == read[f]
         got == OnPage(r.scope, r.page)
     IN read' = [read EXCEPT ![f] =
          [r EXCEPT !.pc = "paged",
                    !.rows = [e \in Employees |-> IF e \in got THEN ServerRow(e, FALSE) ELSE @[e]],
                    !.found = @ + Cardinality(got),
                    !.total = IF r.page = 1 THEN Cardinality(Listed(r.scope)) ELSE @]]
  /\ UNCHANGED <<server, station, token, call, page, bounds, history>>

NextPage(f) ==
  /\ At(f, {"paged"}) /\ read[f].page < read[f].total
  /\ read' = [read EXCEPT ![f].pc = "paging", ![f].page = @ + 1]
  /\ UNCHANGED <<server, station, token, call, page, bounds, history>>

\* Everything that was to come has arrived.
Arrived(f) ==
  At(f, {"answered"}) \/ (At(f, {"paged"}) /\ read[f].page >= read[f].total)

\* An answer for one society replaces its rows, and the row an employee had in another.
Merged(r) ==
  IF r.scope = All THEN r.rows
  ELSE [e \in Employees |-> IF InScope(r.rows[e], r.scope) THEN r.rows[e]
                            ELSE IF InScope(agents[e], r.scope) THEN NoRow ELSE agents[e]]

\* After an answer for one society the rows of the others are what they were.
StillLight(r) == r.light \/ (r.scope # All /\ shapeLight)

\* A list as long as announced marks its scope fresh.
Complete(r) == r.page = 0 \/ r.found >= r.total

Apply(f) ==
  /\ Arrived(f)
  /\ agents' = Merged(read[f])
  /\ shapeLight' = StillLight(read[f])
  /\ ensured' = IF Complete(read[f]) THEN ensured \cup {read[f].scope} ELSE ensured
  /\ End(f, FALSE)
  /\ UNCHANGED <<server, token, page, bounds, history>>

\* Obsolete, whether it was answered or failed: nothing is applied.
Dropped(f) ==
  /\ ~Busy /\ read[f].pc # "none" /\ ~read[f].current
  /\ End(f, TRUE)
  /\ UNCHANGED <<server, station, token, page, bounds, history>>

\* A page cannot be had: the rows stay, and the calls have them as they are or an error.
PagesFail(f) ==
  /\ At(f, {"paging", "paged"})
  /\ End(f, FALSE)
  /\ UNCHANGED <<server, station, token, page, bounds, history>>
--------------------------------------------------------------------------------
(* What alters the rows without a reading.                                 *)

\* A screen that shows one page asks for it, and adds what it gets to the rows whatever has
\* happened since.
ScreenAsks(e) ==
  /\ ~Busy /\ session /\ page = NoRows /\ e \in Listed(All) /\ Event
  /\ page' = [NoRows EXCEPT ![e] = ServerRow(e, FALSE)]
  /\ UNCHANGED <<server, station, token, call, read, changes, history>>

ScreenShows ==
  /\ ~Busy /\ page # NoRows
  /\ agents' = [e \in Employees |-> IF page[e] = NoRow THEN agents[e] ELSE page[e]]
  /\ outside' = outside \cup {e \in Employees : page[e] # NoRow}
  /\ page' = NoRows
  /\ UNCHANGED <<server, shapeLight, ensured, token, call, read, bounds, behind, known>>

\* sgdiRefreshSessionFromServer: the account has other rights, and the base is emptied.
RightsChanged ==
  /\ ~Busy /\ session /\ Event
  /\ agents' = NoRows /\ outside' = Employees
  /\ UNCHANGED <<server, shapeLight, ensured, token, call, read, page, changes, behind, known>>
--------------------------------------------------------------------------------
Next ==
  \/ DataChange \/ SignOut \/ SignIn
  \/ \E e \in Employees :
       (\E society \in Societies \cup {None} : ServerChange(e, society)) \/ ScreenAsks(e)
  \/ ScreenShows \/ RightsChanged
  \/ \E c \in Calls :
       \/ \E asked \in Asked : Pull(c, asked[1], asked[2])
       \/ AskAgain(c)
       \/ ServerLists(c) \/ ListFails(c) \/ ServerPages(c) \/ NextPage(c)
       \/ Apply(c) \/ Dropped(c) \/ PagesFail(c)

Spec == Init /\ [][Next]_vars
--------------------------------------------------------------------------------
(* Properties.                                                             *)

Fresh(scope) == ensured \cap {scope, All} # {}

\* sgdi-app.js:403-404 and 1887-1900: a scope marked fresh, which no screen asks for again, has
\* the rows of the server, none missing and none too many, once what has changed there has
\* been made known, whatever was shared, merged, answered late or page by page.
FreshMeansServer ==
  ~behind =>
    \A scope \in Scopes, e \in Employees :
      Fresh(scope) /\ e \notin outside =>
        IF e \in Listed(scope) THEN /\ agents[e].society = server[e].society
                                    /\ agents[e].version = server[e].version
        ELSE ~InScope(agents[e], scope)

\* sgdi-app.js:403-404: an answer older than the last change the station heard of changes no
\* row, even when it arrives after it.
NeverOlderThanKnown ==
  [][\A e \in Employees \ outside' :
       agents'[e] # agents[e] /\ agents'[e] # NoRow => agents'[e].version >= known[e]]_vars

\* sgdi-app.js:1692-1697: without the flag that makes a screen ask again, no row lacks its
\* documents, whatever the order in which answers of both shapes arrived.
FullUnlessFlagged == ~shapeLight => \A e \in Employees : ~agents[e].light

\* sgdi-app.js:1597-1602: a call that asked for the documents and is answered has rows with
\* documents, also when it shared the reading of another.
GetsTheShapeAsked ==
  [][\A f \in Calls : Apply(f) =>
       \A c \in Calls : Woken(c, f) /\ ~call[c].light =>
         \A e \in Employees : InScope(agents'[e], call[c].scope) => ~agents'[e].light]_vars

================================================================================
