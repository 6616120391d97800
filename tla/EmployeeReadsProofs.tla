-------------------------- MODULE EmployeeReadsProofs ---------------------------
(***************************************************************************)
(* Proofs about EmployeeReads, for any employees, societies, calls and     *)
(* attempts.                                                               *)
(*                                                                         *)
(* While nothing has changed on the server since the last invalidation,    *)
(* a reading that is still current holds what the server holds: the whole  *)
(* list, or the employees of the pages received (ReadsServer).  A mark of  *)
(* freshness is set from such a reading and voided by the invalidation, so *)
(* it is true of the rows (FreshMeansServer, inductive with it).  Before   *)
(* that, what a current reading holds is at least as recent as what was    *)
(* known when it started (NotOlder).                                       *)
(***************************************************************************)
EXTENDS EmployeeReads, FiniteSetTheorems, TLAPS

\* The two halves of TypeOK: the calls and their readings, and the rest.
CallsTyped ==
  /\ call \in [Calls -> AllCalls] /\ read \in [Calls -> Readings]
  /\ \A c \in Calls :
       /\ call[c].pc = "waiting" => call[c].on \in Calls /\ read[call[c].on].pc # "none"
       /\ call[c].pc = "again" => call[c].left > 1

StationTyped ==
  /\ server \in [Employees -> [society : Societies \cup {None}, version : Nat]]
  /\ agents \in Rows /\ page \in Rows
  /\ shapeLight \in BOOLEAN /\ session \in BOOLEAN /\ unread \in BOOLEAN /\ behind \in BOOLEAN
  /\ ensured \subseteq Scopes
  /\ changes \in 0 .. MaxChanges /\ events \in 0 .. MaxEvents
  /\ known \in [Employees -> Nat] /\ outside \subseteq Employees

\* A row without documents only comes from a reading without documents, which was asked for
\* without them.
ReadShapes ==
  /\ \A f \in Calls : read[f].light => read[f].asked
  /\ \A f \in Calls, e \in Employees : read[f].rows[e].light => read[f].light
  /\ \A f \in Calls : read[f].pc \in {"paging", "paged"} => ~read[f].light

PageShape == \A e \in Employees : ~page[e].light

\* A call waits for a reading of its shape, of its scope or of the whole company.
Waits ==
  \A c \in Calls : call[c].pc = "waiting" =>
    /\ read[call[c].on].asked = call[c].light
    /\ read[call[c].on].scope \in {call[c].scope, All}

\* What a current reading holds is not older than what was known when it started.
NotOlder ==
  \A e \in Employees :
    /\ server[e].version >= known[e]
    /\ \A f \in Calls : read[f].current /\ read[f].rows[e] # NoRow => read[f].rows[e].version >= known[e]

\* Under a token that was not read with, no reading is current.
NoneCurrent == unread => \A f \in Calls : ~read[f].current

\* A reading in progress has a scope, and the call that started it waits for it.
Scoped ==
  /\ \A f \in Calls : read[f].pc # "none" => read[f].scope \in Scopes
  /\ \A f \in Calls : read[f].current => read[f].pc # "none"

Owned ==
  /\ \A c \in Calls : read[c].pc # "none" => call[c].pc = "waiting" /\ call[c].on = c
  /\ \A c \in Calls : call[c].pc # "idle" => call[c].scope \in Scopes

\* The place of an employee in the pages of a scope.
Rank(e, scope) == Cardinality({d \in Listed(scope) : d <= e})

\* What the server holds of an employee
IsServers(row, e) == row.society = server[e].society /\ row.version = server[e].version

\* What a current reading holds while nothing has changed
Exact(f) ==
  /\ \A e \in Employees : read[f].rows[e] # NoRow =>
       e \in Listed(read[f].scope) /\ IsServers(read[f].rows[e], e)
  /\ read[f].pc = "answered" => \A e \in Listed(read[f].scope) : read[f].rows[e] # NoRow
  /\ read[f].pc = "paging" =>
       \A e \in Listed(read[f].scope) : Rank(e, read[f].scope) < read[f].page => read[f].rows[e] # NoRow
  /\ read[f].pc = "paging" /\ read[f].page # 1 => read[f].total = Cardinality(Listed(read[f].scope))
  /\ read[f].pc = "paged" =>
       /\ \A e \in Listed(read[f].scope) : Rank(e, read[f].scope) <= read[f].page => read[f].rows[e] # NoRow
       /\ read[f].total = Cardinality(Listed(read[f].scope))

ReadsServer == ~behind => \A f \in Calls : read[f].current => Exact(f)

InvOfReadings ==
  CallsTyped /\ ReadShapes /\ Waits /\ NotOlder /\ NoneCurrent /\ Scoped /\ Owned /\ ReadsServer

InvOfRows == StationTyped /\ PageShape /\ FullUnlessFlagged /\ FreshMeansServer

Inv == InvOfReadings /\ InvOfRows

--------------------------------------------------------------------------------
(* What the operators return.                                              *)

LEMMA SplitType == TypeOK <=> CallsTyped /\ StationTyped
BY DEF TypeOK, CallsTyped, StationTyped

LEMMA ListedFinite ==
  ASSUME NEW scope
  PROVE  /\ IsFiniteSet(Listed(scope)) /\ Cardinality(Listed(scope)) \in Nat
         /\ Listed(scope) \subseteq Employees
<1>1. IsFiniteSet(Employees)
  BY FS_Interval, SizesAssumption DEF Employees
<1>2. Listed(scope) \subseteq Employees
  BY DEF Listed
<1>3. IsFiniteSet(Listed(scope))
  BY <1>1, <1>2, FS_Subset
<1>4. QED BY <1>2, <1>3, FS_CardinalityType

\* The places are those of the pages: from one to the number of employees of the scope.
LEMMA RankBound ==
  ASSUME NEW scope, NEW e \in Listed(scope)
  PROVE  Rank(e, scope) \in 1 .. Cardinality(Listed(scope))
<1> DEFINE before == {d \in Listed(scope) : d <= e}
<1>1. before \subseteq Listed(scope) /\ e \in before
  BY ListedFinite, SizesAssumption DEF Employees
<1>2. IsFiniteSet(before) /\ Cardinality(before) <= Cardinality(Listed(scope))
  BY <1>1, ListedFinite, FS_Subset
<1>3. Cardinality(before) \in Nat /\ Cardinality(before) # 0
  BY <1>1, <1>2, FS_CardinalityType, FS_EmptySet
<1>4. Cardinality(Listed(scope)) \in Nat
  BY ListedFinite
<1> HIDE DEF before
<1>5. Cardinality(before) \in 1 .. Cardinality(Listed(scope))
  BY <1>2, <1>3, <1>4
<1>6. QED BY <1>5 DEF Rank, before

\* The n-th page holds the employee whose place it is.
LEMMA PageHolds ==
  ASSUME NEW scope, NEW n \in Nat, NEW e \in Listed(scope), Rank(e, scope) = n
  PROVE  e \in OnPage(scope, n)
<1>1. n \in 1 .. Cardinality(Listed(scope)) /\ Cardinality(Listed(scope)) \in Nat
  BY RankBound, ListedFinite
<1>2. (IF n < Cardinality(Listed(scope)) THEN n ELSE Cardinality(Listed(scope))) = n
  BY <1>1
<1>3. QED BY <1>2 DEF OnPage, Rank

LEMMA PageOf ==
  ASSUME NEW scope, NEW n \in Nat
  PROVE  OnPage(scope, n) \subseteq Listed(scope) /\ Cardinality(OnPage(scope, n)) \in Nat
<1>1. OnPage(scope, n) \subseteq Listed(scope)
  BY DEF OnPage
<1>2. IsFiniteSet(OnPage(scope, n))
  BY <1>1, ListedFinite, FS_Subset
<1>3. QED BY <1>1, <1>2, FS_CardinalityType

LEMMA RowsTyped ==
  /\ NoRow \in [society : Societies \cup {None}, version : Nat, light : BOOLEAN]
  /\ NoRows \in Rows /\ NoRow.society = None /\ NoRow.light = FALSE
  /\ \A e \in Employees : NoRows[e] = NoRow
BY DEF NoRow, NoRows, Row, Rows

LEMMA ServerRowTyped ==
  ASSUME StationTyped, NEW e \in Employees, NEW light \in BOOLEAN
  PROVE  /\ ServerRow(e, light) \in [society : Societies \cup {None}, version : Nat, light : BOOLEAN]
         /\ IsServers(ServerRow(e, light), e) /\ ServerRow(e, light).light = light
         /\ server[e].society # None => ServerRow(e, light) # NoRow
<1>1. server[e] \in [society : Societies \cup {None}, version : Nat]
  BY DEF StationTyped
<1>2. ServerRow(e, light) = [society |-> server[e].society, version |-> server[e].version, light |-> light]
  BY DEF ServerRow, Row
<1>3. server[e].society # None => ServerRow(e, light) # NoRow
  BY <1>2, RowsTyped
<1>4. QED BY <1>1, <1>2, <1>3 DEF IsServers

LEMMA ListedHasSociety ==
  ASSUME NEW scope, NEW e \in Listed(scope)
  PROVE  e \in Employees /\ server[e].society # None
BY DEF Listed, InScope

LEMMA NoReadTyped ==
  /\ NoRead \in Readings /\ NoRead.pc = "none" /\ ~NoRead.current /\ ~NoRead.light
  /\ \A e \in Employees : NoRead.rows[e] = NoRow
BY RowsTyped DEF NoRead, Readings

LEMMA NewReadTyped ==
  ASSUME NEW scope \in Scopes, NEW light \in BOOLEAN
  PROVE  /\ NewRead(scope, light) \in Readings
         /\ NewRead(scope, light).pc = "asked" /\ NewRead(scope, light).scope = scope
         /\ NewRead(scope, light).asked = light /\ NewRead(scope, light).light = light
         /\ NewRead(scope, light).current /\ NewRead(scope, light).rows = NoRows
<1>1. NoRead \in Readings /\ NoRead.rows = NoRows
  BY NoReadTyped DEF NoRead
<1> HIDE DEF NoRead
<1>2. QED BY <1>1 DEF NewRead, Readings, Running

--------------------------------------------------------------------------------
(* Steps of a reading.                                                     *)

LEMMA InitInv == Init => Inv
<1> SUFFICES ASSUME Init PROVE Inv
  OBVIOUS
<1>1. \A c \in Calls : call[c] = NoCall /\ read[c] = NoRead
  BY DEF Init
<1>2. NoCall \in AllCalls /\ NoCall.pc = "idle"
  BY DEF NoCall, AllCalls
<1>3. CallsTyped
  BY <1>1, <1>2, NoReadTyped DEF Init, CallsTyped
<1>4. \A e \in Employees : server[e] = [society |-> Start[e], version |-> 0] /\ Start[e] \in Societies
  BY ScopesAssumption DEF Init, Employees
<1>5. StationTyped
  <2>1. server \in [Employees -> [society : Societies \cup {None}, version : Nat]]
    BY <1>4 DEF Init
  <2>2. changes \in 0 .. MaxChanges /\ events \in 0 .. MaxEvents
    BY BoundsAssumption DEF Init
  <2>3. agents \in Rows /\ page \in Rows
    BY RowsTyped DEF Init
  <2>4. known \in [Employees -> Nat] /\ outside \subseteq Employees /\ ensured \subseteq Scopes
    BY DEF Init
  <2>5. QED BY <2>1, <2>2, <2>3, <2>4 DEF Init, StationTyped
<1>6. \A e \in Employees : agents[e] = NoRow /\ page[e] = NoRow /\ known[e] = 0
  BY RowsTyped DEF Init
<1>7. ReadShapes /\ Waits /\ NoneCurrent /\ Scoped /\ Owned
  BY <1>1, <1>2, NoReadTyped, RowsTyped DEF ReadShapes, Waits, NoneCurrent, Scoped, Owned
<1>8. NotOlder /\ ReadsServer
  <2>1. \A e \in Employees : server[e].version = 0
    BY DEF Init
  <2>2. \A f \in Calls : ~read[f].current
    BY <1>1, NoReadTyped
  <2>3. \A e \in Employees : server[e].version >= known[e]
    BY <1>6, <2>1
  <2>4. QED BY <2>2, <2>3 DEF NotOlder, ReadsServer
<1>9. PageShape /\ FullUnlessFlagged
  BY <1>6, RowsTyped DEF PageShape, FullUnlessFlagged
<1>10. FreshMeansServer
  BY DEF Init, FreshMeansServer, Fresh
<1>11. QED BY <1>3, <1>5, <1>7, <1>8, <1>9, <1>10 DEF Inv, InvOfReadings, InvOfRows

\* A current reading goes on.
LEMMA ReadingGoesOn ==
  ASSUME Inv, NEW f \in Calls, NEW r \in Readings,
         read[f].current, read[f].pc # "none",
         read' = [read EXCEPT ![f] = r],
         r.pc # "none", r.current, r.asked = read[f].asked, r.scope = read[f].scope,
         r.light => read[f].light, r.pc \in {"paging", "paged"} => ~r.light,
         \A e \in Employees : r.rows[e].light => r.light,
         \A e \in Employees : r.rows[e] # NoRow => r.rows[e].version >= known[e],
         ~behind => Exact(f)',
         UNCHANGED <<server, station, token, call, page, bounds, history>>
  PROVE  Inv'
<1>1. read'[f] = r /\ \A g \in Calls : g # f => read'[g] = read[g]
  BY DEF Inv, InvOfReadings, CallsTyped
<1>2. UNCHANGED <<server, agents, shapeLight, ensured, session, unread, call, page, changes, events,
                  behind, known, outside>>
  BY DEF station, token, bounds, history
<1>3. InvOfRows'
  BY <1>2 DEF Inv, InvOfRows, StationTyped, PageShape, FullUnlessFlagged, FreshMeansServer, Fresh,
     Listed
<1>4. CallsTyped'
  <2>1. read' \in [Calls -> Readings]
    BY DEF Inv, InvOfReadings, CallsTyped
  <2>2. \A g \in Calls : read[g].pc # "none" => read'[g].pc # "none"
    BY <1>1
  <2>3. QED BY <1>2, <2>1, <2>2 DEF Inv, InvOfReadings, CallsTyped
<1>5. ReadShapes'
  <2>1. r.light => r.asked
    BY DEF Inv, InvOfReadings, ReadShapes
  <2>2. QED BY <1>1, <2>1 DEF Inv, InvOfReadings, ReadShapes
<1>6. Waits'
  <2>1. \A g \in Calls : read'[g].asked = read[g].asked /\ read'[g].scope = read[g].scope
    BY <1>1
  <2>2. QED BY <1>2, <2>1 DEF Inv, InvOfReadings, CallsTyped, Waits
<1>7. NotOlder'
  BY <1>1, <1>2 DEF Inv, InvOfReadings, NotOlder
<1>8. NoneCurrent' /\ Scoped' /\ Owned'
  BY <1>1, <1>2 DEF Inv, InvOfReadings, NoneCurrent, Scoped, Owned
<1>9. ReadsServer'
  <2>1. ASSUME NEW g \in Calls, g # f, ~behind, read[g].current
        PROVE  Exact(g)'
    <3>1. Exact(g)
      BY <2>1 DEF Inv, InvOfReadings, ReadsServer
    <3>2. read'[g] = read[g]
      BY <1>1, <2>1
    <3>3. /\ server' = server
          /\ \A scope : Listed(scope)' = Listed(scope)
      BY <1>2 DEF Listed
    <3>4. \A e, scope : Rank(e, scope)' = Rank(e, scope)
      BY <3>3 DEF Rank
    <3>5. QED BY <3>1, <3>2, <3>3, <3>4 DEF Exact, IsServers
  <2>2. QED BY <1>1, <1>2, <2>1 DEF ReadsServer
<1>10. QED BY <1>3, <1>4, <1>5, <1>6, <1>7, <1>8, <1>9 DEF Inv, InvOfReadings

LEMMA ServerListsStep ==
  ASSUME Inv, NEW f \in Calls, ServerLists(f)
  PROVE  Inv'
<1> DEFINE rows == List(read[f].scope, read[f].light)
<1>1. read[f] \in Readings /\ read[f].pc = "asked" /\ read[f].current /\ StationTyped
  BY DEF Inv, InvOfReadings, InvOfRows, CallsTyped, ServerLists, At, IsCurrent
<1>2. \A e \in Employees :
        rows[e] = IF e \in Listed(read[f].scope) THEN ServerRow(e, read[f].light) ELSE NoRow
  BY DEF List
<1>3. read[f].light \in BOOLEAN /\ read[f].page \in Nat
  BY <1>1 DEF Readings
<1>4. rows \in Rows
  BY <1>1, <1>3, ServerRowTyped, RowsTyped DEF List, Rows
<1>5. \A e \in Employees : rows[e].light => read[f].light
  BY <1>1, <1>2, <1>3, ServerRowTyped, RowsTyped
<1>6. \A e \in Employees : rows[e] # NoRow => e \in Listed(read[f].scope) /\ IsServers(rows[e], e)
  BY <1>1, <1>2, <1>3, ServerRowTyped
<1>7. \A e \in Listed(read[f].scope) : rows[e] # NoRow
  <2>1. ASSUME NEW e \in Listed(read[f].scope) PROVE rows[e] # NoRow
    BY <1>1, <1>2, <1>3, ServerRowTyped, ListedHasSociety
  <2>2. QED BY <2>1
<1>8. \A e \in Employees : rows[e] # NoRow => rows[e].version >= known[e]
  BY <1>6 DEF IsServers, Inv, InvOfReadings, NotOlder
<1> HIDE DEF rows
<1> DEFINE r == [read[f] EXCEPT !.pc = "answered", !.rows = rows]
<1>9. r \in Readings
  BY <1>1, <1>4 DEF Readings, Running
<1>10. /\ r.pc = "answered" /\ r.rows = rows /\ r.current /\ r.asked = read[f].asked
       /\ r.scope = read[f].scope /\ r.light = read[f].light /\ r.page = read[f].page
  BY <1>1 DEF Readings
<1> HIDE DEF r
<1>11. read' = [read EXCEPT ![f] = r]
  BY DEF ServerLists, r, rows
<1>12. read'[f] = r
  BY <1>11 DEF Inv, InvOfReadings, CallsTyped
<1>13. UNCHANGED <<server, station, token, call, page, bounds, history>>
  BY DEF ServerLists
<1>14. Exact(f)'
  BY <1>6, <1>7, <1>10, <1>12, <1>13 DEF Exact, IsServers, Listed
<1>15. QED BY <1>1, <1>5, <1>8, <1>9, <1>10, <1>11, <1>13, <1>14, ReadingGoesOn

LEMMA ListFailsStep ==
  ASSUME Inv, NEW f \in Calls, ListFails(f)
  PROVE  Inv'
<1>1. read[f] \in Readings /\ read[f].pc \in {"asked", "answered"} /\ read[f].current /\ StationTyped
  BY DEF Inv, InvOfReadings, InvOfRows, CallsTyped, ListFails, At, IsCurrent
<1> DEFINE r == [read[f] EXCEPT !.pc = "paging", !.light = FALSE, !.rows = NoRows, !.page = 1]
<1>2. r \in Readings
  BY <1>1, RowsTyped DEF Readings, Running
<1>3. /\ r.pc = "paging" /\ r.rows = NoRows /\ r.current /\ r.asked = read[f].asked
      /\ r.scope = read[f].scope /\ ~r.light /\ r.page = 1
  BY <1>1 DEF Readings
<1> HIDE DEF r
<1>4. read' = [read EXCEPT ![f] = r]
  BY DEF ListFails, r
<1>5. read'[f] = r
  BY <1>4 DEF Inv, InvOfReadings, CallsTyped
<1>6. UNCHANGED <<server, station, token, call, page, bounds, history>>
  BY DEF ListFails
<1>7. \A e \in Listed(read[f].scope) : ~(Rank(e, read[f].scope) < 1)
  <2>1. ASSUME NEW e \in Listed(read[f].scope) PROVE ~(Rank(e, read[f].scope) < 1)
    <3>1. Cardinality(Listed(read[f].scope)) \in Nat
      BY ListedFinite
    <3>2. Rank(e, read[f].scope) \in 1 .. Cardinality(Listed(read[f].scope))
      BY RankBound
    <3>3. QED BY <3>1, <3>2
  <2>2. QED BY <2>1
<1>8. Exact(f)'
  <2>1. Listed(read[f].scope)' = Listed(read[f].scope)' /\ server' = server
    BY <1>6
  <2>2. \A e \in Employees : r.rows[e] = NoRow
    BY <1>3, RowsTyped
  <2>3. \A e \in Listed(r.scope) : ~(Rank(e, r.scope) < r.page)
    BY <1>3, <1>7
  <2>4. QED BY <1>3, <1>5, <2>1, <2>2, <2>3 DEF Exact, Rank, Listed
<1>9. \A e \in Employees : r.rows[e] = NoRow /\ ~r.rows[e].light
  BY <1>3, RowsTyped
<1>10. QED BY <1>1, <1>2, <1>3, <1>4, <1>6, <1>8, <1>9, ReadingGoesOn

LEMMA NextPageStep ==
  ASSUME Inv, NEW f \in Calls, NextPage(f)
  PROVE  Inv'
<1>1. /\ read[f] \in Readings /\ read[f].pc = "paged" /\ read[f].current
      /\ read[f].page < read[f].total
  BY DEF Inv, InvOfReadings, InvOfRows, CallsTyped, NextPage, At, IsCurrent
<1> DEFINE r == [read[f] EXCEPT !.pc = "paging", !.page = read[f].page + 1]
<1>2. r \in Readings
  <2>1. read[f].page + 1 \in Nat
    BY <1>1 DEF Readings
  <2>2. QED BY <1>1, <2>1 DEF Readings, Running
<1>3. /\ r.pc = "paging" /\ r.rows = read[f].rows /\ r.current /\ r.asked = read[f].asked
      /\ r.scope = read[f].scope /\ r.light = read[f].light /\ r.page = read[f].page + 1
      /\ r.total = read[f].total
  BY <1>1 DEF Readings
<1> HIDE DEF r
<1>4. read' = [read EXCEPT ![f] = r]
  BY DEF NextPage, r
<1>5. read'[f] = r
  BY <1>4 DEF Inv, InvOfReadings, CallsTyped
<1>6. UNCHANGED <<server, station, token, call, page, bounds, history>>
  BY DEF NextPage
<1>7. ~behind => Exact(f)'
  <2> SUFFICES ASSUME ~behind PROVE Exact(f)'
    OBVIOUS
  <2>1. Exact(f)
    BY <1>1 DEF Inv, InvOfReadings, ReadsServer
  <2>2. \A e \in Listed(r.scope) : Rank(e, r.scope) < r.page => r.rows[e] # NoRow
    <3>1. ASSUME NEW e \in Listed(r.scope), Rank(e, r.scope) < r.page
          PROVE  r.rows[e] # NoRow
      <4>1. Rank(e, r.scope) \in Nat
        BY RankBound, ListedFinite
      <4>2. read[f].page \in Nat
        BY <1>1 DEF Readings
      <4>3. Rank(e, read[f].scope) <= read[f].page
        BY <1>3, <3>1, <4>1, <4>2
      <4>4. QED BY <1>1, <1>3, <2>1, <4>3 DEF Exact
    <3>2. QED BY <3>1
  <2>3. /\ \A e \in Employees : r.rows[e] # NoRow => e \in Listed(r.scope) /\ IsServers(r.rows[e], e)
        /\ r.total = Cardinality(Listed(r.scope))
    BY <1>1, <1>3, <2>1 DEF Exact
  <2>4. QED BY <1>3, <1>5, <1>6, <2>2, <2>3 DEF Exact, Rank, Listed, IsServers
<1>8. /\ \A e \in Employees : r.rows[e].light => r.light
      /\ \A e \in Employees : r.rows[e] # NoRow => r.rows[e].version >= known[e]
      /\ ~r.light
  BY <1>1, <1>3 DEF Inv, InvOfReadings, ReadShapes, NotOlder
<1>9. QED BY <1>1, <1>2, <1>3, <1>4, <1>6, <1>7, <1>8, ReadingGoesOn

LEMMA ServerPagesStep ==
  ASSUME Inv, NEW f \in Calls, ServerPages(f)
  PROVE  Inv'
<1>1. /\ read[f] \in Readings /\ read[f].pc = "paging" /\ read[f].current /\ StationTyped
      /\ ~read[f].light
  BY DEF Inv, InvOfReadings, InvOfRows, CallsTyped, ReadShapes, ServerPages, At, IsCurrent
<1> DEFINE got == OnPage(read[f].scope, read[f].page)
           all == Listed(read[f].scope)
           rows == [e \in Employees |-> IF e \in got THEN ServerRow(e, FALSE) ELSE read[f].rows[e]]
<1>2. read[f].page \in Nat /\ read[f].rows \in Rows /\ read[f].found \in Nat /\ read[f].total \in Nat
  BY <1>1 DEF Readings
<1>3. got \subseteq all /\ Cardinality(got) \in Nat /\ Cardinality(all) \in Nat
  BY <1>2, PageOf, ListedFinite
<1>4. \A e \in Employees : rows[e] = IF e \in got THEN ServerRow(e, FALSE) ELSE read[f].rows[e]
  OBVIOUS
<1>5. rows \in Rows
  BY <1>1, <1>2, ServerRowTyped DEF Rows
<1>6. \A e \in Employees : ~rows[e].light
  BY <1>1, <1>4, ServerRowTyped DEF Inv, InvOfReadings, ReadShapes
<1>7. \A e \in got : rows[e] # NoRow
  <2>1. ASSUME NEW e \in got PROVE rows[e] # NoRow
    BY <1>1, <1>3, <1>4, ServerRowTyped, ListedHasSociety
  <2>2. QED BY <2>1
<1>8. \A e \in Employees : rows[e] # NoRow => rows[e].version >= known[e]
  <2>1. ASSUME NEW e \in Employees, e \in got PROVE rows[e].version >= known[e]
    BY <1>1, <1>4, <2>1, ServerRowTyped DEF IsServers, Inv, InvOfReadings, NotOlder
  <2>2. ASSUME NEW e \in Employees, e \notin got, rows[e] # NoRow PROVE rows[e].version >= known[e]
    BY <1>1, <1>4, <2>2 DEF Inv, InvOfReadings, NotOlder
  <2>3. QED BY <2>1, <2>2
<1>9. \A e \in Employees : rows[e] = read[f].rows[e] \/ (e \in all /\ IsServers(rows[e], e))
  BY <1>1, <1>3, <1>4, ServerRowTyped
<1>10. \A e \in all : Rank(e, read[f].scope) = read[f].page => e \in got
  BY <1>2, PageHolds
<1> DEFINE total == IF read[f].page = 1 THEN Cardinality(all) ELSE read[f].total
           found == read[f].found + Cardinality(got)
           r == [read[f] EXCEPT !.pc = "paged", !.rows = rows, !.found = found, !.total = total]
<1>11. read' = [read EXCEPT ![f] = r]
  BY DEF ServerPages
<1>12. \A e \in all : read[f].rows[e] # NoRow => rows[e] # NoRow
  BY <1>4, <1>7, ListedFinite
<1> HIDE DEF rows, got
<1>19. total \in Nat /\ found \in Nat
  BY <1>2, <1>3
<1> HIDE DEF total, found
<1>13. r \in Readings
  BY <1>1, <1>5, <1>19 DEF Readings, Running
<1>14. /\ r.pc = "paged" /\ r.rows = rows /\ r.current /\ r.asked = read[f].asked
       /\ r.scope = read[f].scope /\ r.light = read[f].light /\ r.page = read[f].page
       /\ r.total = total
  BY <1>1 DEF Readings
<1> HIDE DEF r
<1>15. read'[f] = r
  BY <1>11 DEF Inv, InvOfReadings, CallsTyped
<1>16. UNCHANGED <<server, station, token, call, page, bounds, history>>
  BY DEF ServerPages
<1>17. ~behind => Exact(f)'
  <2> SUFFICES ASSUME ~behind PROVE Exact(f)'
    OBVIOUS
  <2>1. Exact(f)
    BY <1>1 DEF Inv, InvOfReadings, ReadsServer
  <2>2. \A e \in all : Rank(e, read[f].scope) <= read[f].page => rows[e] # NoRow
    <3>1. ASSUME NEW e \in all, Rank(e, read[f].scope) <= read[f].page
          PROVE  rows[e] # NoRow
      <4>1. Rank(e, read[f].scope) \in Nat
        BY RankBound, ListedFinite
      <4>2. CASE Rank(e, read[f].scope) = read[f].page
        BY <1>7, <1>10, <4>2
      <4>3. CASE Rank(e, read[f].scope) < read[f].page
        BY <1>1, <1>12, <2>1, <4>3 DEF Exact
      <4>4. QED BY <1>2, <3>1, <4>1, <4>2, <4>3
    <3>2. QED BY <3>1
  <2>3. \A e \in Employees : rows[e] # NoRow => e \in all /\ IsServers(rows[e], e)
    BY <1>9, <2>1 DEF Exact
  <2>4. total = Cardinality(all)
    BY <1>1, <2>1 DEF Exact, total
  <2>5. QED BY <1>14, <1>15, <1>16, <2>2, <2>3, <2>4 DEF Exact, Rank, Listed, IsServers
<1>18. QED BY <1>1, <1>6, <1>8, <1>11, <1>13, <1>14, <1>16, <1>17, ReadingGoesOn

--------------------------------------------------------------------------------
(* Steps that make the readings obsolete.                                  *)

LEMMA AllObsolete ==
  ASSUME Inv, read' = Obsolete(read),
         call' = call \/ call' = [c \in Calls |-> [call[c] EXCEPT !.same = FALSE]],
         \A e \in Employees : (server[e].version >= known[e])'
  PROVE  InvOfReadings'
<1>1. \A c \in Calls : call[c] \in AllCalls /\ read[c] \in Readings
  BY DEF Inv, InvOfReadings, CallsTyped
<1>2. \A c \in Calls :
        /\ read'[c] = [read[c] EXCEPT !.current = FALSE]
        /\ call'[c] = call[c] \/ call'[c] = [call[c] EXCEPT !.same = FALSE]
  BY DEF Obsolete
<1>3. \A c \in Calls :
        /\ read'[c] \in Readings /\ ~read'[c].current
        /\ read'[c].pc = read[c].pc /\ read'[c].scope = read[c].scope
        /\ read'[c].asked = read[c].asked /\ read'[c].light = read[c].light
        /\ read'[c].rows = read[c].rows
  <2> SUFFICES ASSUME NEW c \in Calls
               PROVE  /\ read'[c] \in Readings /\ ~read'[c].current
                      /\ read'[c].pc = read[c].pc /\ read'[c].scope = read[c].scope
                      /\ read'[c].asked = read[c].asked /\ read'[c].light = read[c].light
                      /\ read'[c].rows = read[c].rows
    OBVIOUS
  <2>1. read[c] \in Readings /\ read'[c] = [read[c] EXCEPT !.current = FALSE]
    BY <1>1, <1>2
  <2>2. read'[c] \in Readings
    BY <2>1 DEF Readings
  <2>3. /\ ~read'[c].current
        /\ read'[c].pc = read[c].pc /\ read'[c].scope = read[c].scope
        /\ read'[c].asked = read[c].asked /\ read'[c].light = read[c].light
        /\ read'[c].rows = read[c].rows
    BY <2>1 DEF Readings
  <2>4. QED BY <2>2, <2>3
<1>4. \A c \in Calls :
        /\ call'[c] \in AllCalls
        /\ call'[c].pc = call[c].pc /\ call'[c].scope = call[c].scope
        /\ call'[c].light = call[c].light /\ call'[c].left = call[c].left
        /\ call'[c].on = call[c].on
  <2> SUFFICES ASSUME NEW c \in Calls
               PROVE  /\ call'[c] \in AllCalls
                      /\ call'[c].pc = call[c].pc /\ call'[c].scope = call[c].scope
                      /\ call'[c].light = call[c].light /\ call'[c].left = call[c].left
                      /\ call'[c].on = call[c].on
    OBVIOUS
  <2>1. call[c] \in AllCalls
    BY <1>1
  <2>2. CASE call'[c] = call[c]
    BY <2>1, <2>2
  <2>3. CASE call'[c] = [call[c] EXCEPT !.same = FALSE]
    BY <2>1, <2>3 DEF AllCalls
  <2>4. QED BY <1>2, <2>2, <2>3
<1>5. read' \in [Calls -> Readings] /\ call' \in [Calls -> AllCalls]
  <2>1. read' = [c \in Calls |-> read'[c]] /\ call' = [c \in Calls |-> call'[c]]
    BY DEF Obsolete, Inv, InvOfReadings, CallsTyped
  <2>2. QED BY <1>3, <1>4, <2>1
<1>6. CallsTyped'
  BY <1>3, <1>4, <1>5 DEF Inv, InvOfReadings, CallsTyped
<1>7. ReadShapes'
  BY <1>3 DEF Inv, InvOfReadings, ReadShapes
<1>8. Waits'
  BY <1>3, <1>4 DEF Inv, InvOfReadings, CallsTyped, Waits
<1>9. NotOlder'
  BY <1>3 DEF NotOlder
<1>10. NoneCurrent' /\ Scoped' /\ Owned' /\ ReadsServer'
  BY <1>3, <1>4 DEF Inv, InvOfReadings, NoneCurrent, Scoped, Owned, ReadsServer
<1>11. QED BY <1>6, <1>7, <1>8, <1>9, <1>10 DEF InvOfReadings

LEMMA DataChangeStep ==
  ASSUME Inv, DataChange
  PROVE  Inv'
<1>1. /\ read' = Obsolete(read) /\ ensured' = {} /\ behind' = FALSE /\ outside' = {}
      /\ known' = [e \in Employees |-> server[e].version]
      /\ UNCHANGED <<server, agents, shapeLight, session, unread, call, page, changes, events>>
  BY DEF DataChange, Invalidate, NoMarks, token, bounds
<1>2. \A e \in Employees : server[e].version \in Nat
  BY DEF Inv, InvOfRows, StationTyped
<1>3. \A e \in Employees : (server[e].version >= known[e])'
  BY <1>1, <1>2
<1>4. InvOfReadings'
  BY <1>1, <1>3, AllObsolete
<1>5. known' \in [Employees -> Nat]
  BY <1>1, <1>2
<1>6. InvOfRows'
  BY <1>1, <1>5
     DEF Inv, InvOfRows, StationTyped, PageShape, FullUnlessFlagged, FreshMeansServer, Fresh
<1>7. QED BY <1>4, <1>6 DEF Inv

LEMMA TokenStep ==
  ASSUME Inv, SignOut \/ SignIn
  PROVE  Inv'
<1>1. /\ read' = Obsolete(read) /\ unread' = TRUE
      /\ call' = [c \in Calls |-> [call[c] EXCEPT !.same = FALSE]]
      /\ session' \in BOOLEAN
      /\ UNCHANGED <<server, agents, shapeLight, ensured, page, changes, behind, known, outside>>
  BY DEF SignOut, SignIn, TokenChanges, station, bounds, history
<1>2. events' \in 0 .. MaxEvents
  BY BoundsAssumption DEF SignOut, SignIn, Event, bounds, Inv, InvOfRows, StationTyped
<1>3. \A e \in Employees : (server[e].version >= known[e])'
  BY <1>1 DEF Inv, InvOfReadings, NotOlder
<1>4. InvOfReadings'
  BY <1>1, <1>3, AllObsolete
<1>5. InvOfRows'
  BY <1>1, <1>2
     DEF Inv, InvOfRows, StationTyped, PageShape, FullUnlessFlagged, FreshMeansServer, Fresh, Listed
<1>6. QED BY <1>4, <1>5 DEF Inv

LEMMA ServerChangeStep ==
  ASSUME Inv, NEW e \in Employees, NEW society \in Societies \cup {None}, ServerChange(e, society)
  PROVE  Inv'
<1>1. /\ behind' = TRUE /\ changes' = changes + 1 /\ changes < MaxChanges
      /\ UNCHANGED <<agents, shapeLight, ensured, session, unread, call, read, page, events,
                     known, outside>>
  BY DEF ServerChange, station, token
<1>2. server \in [Employees -> [society : Societies \cup {None}, version : Nat]]
  BY DEF Inv, InvOfRows, StationTyped
<1>3. server' = [server EXCEPT ![e] = [society |-> society, version |-> server[e].version + 1]]
  BY DEF ServerChange
<1>4. server[e].version + 1 \in Nat
  BY <1>2
<1>5. server' \in [Employees -> [society : Societies \cup {None}, version : Nat]]
  BY <1>2, <1>3, <1>4
<1>6. changes' \in 0 .. MaxChanges
  BY <1>1, BoundsAssumption DEF Inv, InvOfRows, StationTyped
<1>7. \A d \in Employees : server'[d].version >= server[d].version
  BY <1>2, <1>3
<1>8. \A d \in Employees : server'[d].version >= known[d]
  <2>1. \A d \in Employees : server'[d].version \in Nat /\ server[d].version \in Nat /\ known[d] \in Nat
    BY <1>2, <1>5 DEF Inv, InvOfRows, StationTyped
  <2>2. \A d \in Employees : server[d].version >= known[d]
    BY DEF Inv, InvOfReadings, NotOlder
  <2>3. QED BY <1>7, <2>1, <2>2
<1>9. NotOlder'
  BY <1>1, <1>8 DEF Inv, InvOfReadings, NotOlder
<1>10. InvOfReadings'
  BY <1>1, <1>9
     DEF Inv, InvOfReadings, CallsTyped, ReadShapes, Waits, NoneCurrent, Scoped, Owned, ReadsServer
<1>11. InvOfRows'
  BY <1>1, <1>5, <1>6
     DEF Inv, InvOfRows, StationTyped, PageShape, FullUnlessFlagged, FreshMeansServer
<1>12. QED BY <1>10, <1>11 DEF Inv

--------------------------------------------------------------------------------
(* Steps that alter the rows without a reading.                            *)

LEMMA ReadingsStay ==
  ASSUME Inv, UNCHANGED <<server, call, read, known, behind, unread>>
  PROVE  InvOfReadings'
<1>1. \A scope : Listed(scope)' = Listed(scope)
  BY DEF Listed
<1>2. \A e, scope : Rank(e, scope)' = Rank(e, scope)
  BY <1>1 DEF Rank
<1>3. \A f \in Calls : Exact(f)' <=> Exact(f)
  BY <1>1, <1>2 DEF Exact, IsServers
<1>4. ReadsServer'
  BY <1>3 DEF Inv, InvOfReadings, ReadsServer
<1>5. QED BY <1>4
     DEF Inv, InvOfReadings, CallsTyped, ReadShapes, Waits, NotOlder, NoneCurrent, Scoped, Owned

LEMMA ScreenAsksStep ==
  ASSUME Inv, NEW e \in Employees, ScreenAsks(e)
  PROVE  Inv'
<1>1. /\ page' = [NoRows EXCEPT ![e] = ServerRow(e, FALSE)]
      /\ UNCHANGED <<server, agents, shapeLight, ensured, session, unread, call, read, changes,
                     behind, known, outside>>
  BY DEF ScreenAsks, station, token, history
<1>2. events' \in 0 .. MaxEvents
  BY BoundsAssumption DEF ScreenAsks, Event, Inv, InvOfRows, StationTyped
<1>3. ServerRow(e, FALSE) \in [society : Societies \cup {None}, version : Nat, light : BOOLEAN]
      /\ ~ServerRow(e, FALSE).light
  BY ServerRowTyped DEF Inv, InvOfRows
<1>4. page' \in Rows
  BY <1>1, <1>3, RowsTyped DEF Rows
<1>5. \A d \in Employees : page'[d] = NoRow \/ page'[d] = ServerRow(e, FALSE)
  BY <1>1, RowsTyped DEF Rows
<1>6. PageShape'
  BY <1>3, <1>5, RowsTyped DEF PageShape
<1>7. InvOfReadings'
  BY <1>1, ReadingsStay
<1>8. InvOfRows'
  BY <1>1, <1>2, <1>4, <1>6
     DEF Inv, InvOfRows, StationTyped, FullUnlessFlagged, FreshMeansServer, Fresh, Listed
<1>9. QED BY <1>7, <1>8 DEF Inv

LEMMA ScreenShowsStep ==
  ASSUME Inv, ScreenShows
  PROVE  Inv'
<1>1. /\ agents' = [e \in Employees |-> IF page[e] = NoRow THEN agents[e] ELSE page[e]]
      /\ outside' = outside \cup {e \in Employees : page[e] # NoRow}
      /\ page' = NoRows
      /\ UNCHANGED <<server, shapeLight, ensured, session, unread, call, read, changes, events,
                     behind, known>>
  BY DEF ScreenShows, token, bounds
<1>2. agents' \in Rows
  BY <1>1 DEF Inv, InvOfRows, StationTyped, Rows
<1>3. \A e \in Employees : agents'[e] = IF page[e] = NoRow THEN agents[e] ELSE page[e]
  BY <1>1
<1>4. PageShape' /\ FullUnlessFlagged'
  BY <1>1, <1>3, RowsTyped DEF Inv, InvOfRows, PageShape, FullUnlessFlagged
<1>5. \A e \in Employees : e \notin outside' => e \notin outside /\ agents'[e] = agents[e]
  BY <1>1, <1>3
<1>6. FreshMeansServer'
  BY <1>1, <1>5 DEF Inv, InvOfRows, FreshMeansServer, Fresh, Listed
<1>7. StationTyped'
  BY <1>1, <1>2, RowsTyped DEF Inv, InvOfRows, StationTyped
<1>8. InvOfReadings'
  BY <1>1, ReadingsStay
<1>9. QED BY <1>4, <1>6, <1>7, <1>8 DEF Inv, InvOfRows

LEMMA RightsChangedStep ==
  ASSUME Inv, RightsChanged
  PROVE  Inv'
<1>1. /\ agents' = NoRows /\ outside' = Employees
      /\ UNCHANGED <<server, shapeLight, ensured, session, unread, call, read, page, changes,
                     behind, known>>
  BY DEF RightsChanged, token
<1>2. events' \in 0 .. MaxEvents
  BY BoundsAssumption DEF RightsChanged, Event, Inv, InvOfRows, StationTyped
<1>3. StationTyped'
  BY <1>1, <1>2, RowsTyped DEF Inv, InvOfRows, StationTyped
<1>4. PageShape' /\ FullUnlessFlagged' /\ FreshMeansServer'
  BY <1>1, RowsTyped DEF Inv, InvOfRows, PageShape, FullUnlessFlagged, FreshMeansServer
<1>5. InvOfReadings'
  BY <1>1, ReadingsStay
<1>6. QED BY <1>3, <1>4, <1>5 DEF Inv, InvOfRows

--------------------------------------------------------------------------------
(* A call asks.                                                            *)

LEMMA AskStep ==
  ASSUME Inv, NEW c \in Calls, NEW scope \in Scopes, NEW light \in BOOLEAN, NEW left \in Nat,
         read[c].pc = "none", Ask(c, scope, light, left)
  PROVE  Inv'
<1> DEFINE shared == {d \in Calls : Shareable(d, scope, light)}
           waiting(d) == [pc |-> "waiting", scope |-> scope, light |-> light, left |-> left,
                          on |-> d, same |-> TRUE]
<1>1. /\ unread' = FALSE
      /\ UNCHANGED <<server, agents, shapeLight, session, page, changes, events>>
  BY DEF Ask, bounds
<1>2. \A d \in Calls : waiting(d) \in AllCalls
  BY DEF AllCalls
<1>3. CASE shared # {}
  <2>1. UNCHANGED <<read, ensured, behind, known, outside>>
    BY <1>3 DEF Ask, history
  <2>2. PICK d \in shared : call' = [call EXCEPT ![c] = waiting(d)]
    BY <1>3 DEF Ask
  <2>3. /\ d \in Calls /\ read[d].current /\ read[d].scope \in {scope, All} /\ read[d].asked = light
        /\ read[d].pc # "none"
    BY DEF Shareable, Inv, InvOfReadings, Scoped
  <2>4. /\ call' \in [Calls -> AllCalls]
        /\ call'[c] = waiting(d) /\ \A g \in Calls : g # c => call'[g] = call[g]
    BY <1>2, <2>2, <2>3 DEF Inv, InvOfReadings, CallsTyped
  <2>5. CallsTyped'
    <3>1. waiting(d).pc = "waiting" /\ waiting(d).on = d
      OBVIOUS
    <3> HIDE DEF waiting
    <3>2. QED BY <2>1, <2>3, <2>4, <3>1 DEF Inv, InvOfReadings, CallsTyped
  <2>6. Waits' /\ Owned'
    <3>1. /\ waiting(d).on = d /\ waiting(d).light = light /\ waiting(d).scope = scope
      OBVIOUS
    <3> HIDE DEF waiting
    <3>2. Waits'
      BY <2>1, <2>3, <2>4, <3>1 DEF Inv, InvOfReadings, Waits
    <3>3. Owned'
      BY <2>1, <2>3, <2>4, <3>1 DEF Inv, InvOfReadings, Owned
    <3>4. QED BY <3>2, <3>3
  <2>7. \A s : Listed(s)' = Listed(s)
    BY <1>1 DEF Listed
  <2>8. ReadsServer'
    <3>1. \A e, s : Rank(e, s)' = Rank(e, s)
      BY <2>7 DEF Rank
    <3>2. \A f \in Calls : Exact(f)' <=> Exact(f)
      BY <1>1, <2>1, <2>7, <3>1 DEF Exact, IsServers
    <3>3. QED BY <2>1, <3>2 DEF Inv, InvOfReadings, ReadsServer
  <2>9. ReadShapes' /\ NotOlder' /\ NoneCurrent' /\ Scoped'
    BY <1>1, <2>1 DEF Inv, InvOfReadings, ReadShapes, NotOlder, NoneCurrent, Scoped
  <2>10. InvOfRows'
    BY <1>1, <2>1, <2>7
       DEF Inv, InvOfRows, StationTyped, PageShape, FullUnlessFlagged, FreshMeansServer, Fresh
  <2>11. QED BY <2>5, <2>6, <2>8, <2>9, <2>10 DEF Inv, InvOfReadings
<1>4. CASE shared = {}
  <2>1. /\ call' = [call EXCEPT ![c] = waiting(c)]
        /\ read' = [read EXCEPT ![c] = NewRead(scope, light)]
    BY <1>4 DEF Ask
  <2>2. /\ call' \in [Calls -> AllCalls]
        /\ call'[c] = waiting(c) /\ \A g \in Calls : g # c => call'[g] = call[g]
    BY <1>2, <2>1 DEF Inv, InvOfReadings, CallsTyped
  <2>3. /\ waiting(c).pc = "waiting" /\ waiting(c).on = c /\ waiting(c).light = light
        /\ waiting(c).scope = scope
    OBVIOUS
  <2> HIDE DEF waiting
  <2>4. /\ read' \in [Calls -> Readings]
        /\ read'[c] = NewRead(scope, light) /\ \A g \in Calls : g # c => read'[g] = read[g]
    BY <2>1, NewReadTyped DEF Inv, InvOfReadings, CallsTyped
  <2>5. /\ read'[c].pc = "asked" /\ read'[c].scope = scope /\ read'[c].asked = light
        /\ read'[c].light = light /\ read'[c].current
        /\ \A e \in Employees : read'[c].rows[e] = NoRow
    BY <2>4, NewReadTyped, RowsTyped
  <2>6. \A g \in Calls : call[g].pc = "waiting" => call[g].on \in Calls /\ call[g].on # c
    BY DEF Inv, InvOfReadings, CallsTyped
  <2>7. CallsTyped'
    BY <2>2, <2>3, <2>4, <2>5, <2>6 DEF Inv, InvOfReadings, CallsTyped
  <2>8. Waits'
    BY <2>2, <2>3, <2>4, <2>5, <2>6 DEF Inv, InvOfReadings, Waits
  <2>9. Owned' /\ Scoped'
    BY <2>2, <2>3, <2>4, <2>5 DEF Inv, InvOfReadings, Owned, Scoped
  <2>10. ReadShapes'
    BY <2>4, <2>5, RowsTyped DEF Inv, InvOfReadings, ReadShapes
  <2>11. NoneCurrent'
    BY <1>1 DEF NoneCurrent
  <2>12. CASE ~unread
    <3>1. UNCHANGED <<ensured, behind, known, outside>>
      BY <1>4, <2>12 DEF Ask, history
    <3>2. \A s : Listed(s)' = Listed(s)
      BY <1>1 DEF Listed
    <3>3. \A e, s : Rank(e, s)' = Rank(e, s)
      BY <3>2 DEF Rank
    <3>4. \A g \in Calls : g # c => (Exact(g)' <=> Exact(g))
      BY <1>1, <2>4, <3>2, <3>3 DEF Exact, IsServers
    <3>5. Exact(c)'
      BY <2>5 DEF Exact
    <3>6. ReadsServer'
      BY <2>4, <3>1, <3>4, <3>5 DEF Inv, InvOfReadings, ReadsServer
    <3>7. NotOlder'
      BY <1>1, <2>4, <2>5, <3>1 DEF Inv, InvOfReadings, NotOlder
    <3>8. InvOfRows'
      BY <1>1, <3>1, <3>2
         DEF Inv, InvOfRows, StationTyped, PageShape, FullUnlessFlagged, FreshMeansServer, Fresh
    <3>9. QED BY <2>7, <2>8, <2>9, <2>10, <2>11, <3>6, <3>7, <3>8 DEF Inv, InvOfReadings
  <2>13. CASE unread
    <3>1. /\ ensured' = {} /\ behind' = FALSE /\ outside' = {}
          /\ known' = [e \in Employees |-> server[e].version]
      BY <1>4, <2>13 DEF Ask, NoMarks
    <3>2. \A g \in Calls : ~read[g].current
      BY <2>13 DEF Inv, InvOfReadings, NoneCurrent
    <3>3. \A e \in Employees : server[e].version \in Nat
      BY DEF Inv, InvOfRows, StationTyped
    <3>4. Exact(c)'
      BY <2>5 DEF Exact
    <3>5. ReadsServer'
      BY <2>4, <3>2, <3>4 DEF ReadsServer
    <3>6. \A e \in Employees : server'[e].version >= known'[e]
      BY <1>1, <3>1, <3>3
    <3>7. NotOlder'
      BY <2>4, <2>5, <3>2, <3>6 DEF NotOlder
    <3>8. known' \in [Employees -> Nat]
      BY <3>1, <3>3
    <3>9. InvOfRows'
      BY <1>1, <3>1, <3>8
         DEF Inv, InvOfRows, StationTyped, PageShape, FullUnlessFlagged, FreshMeansServer, Fresh
    <3>10. QED BY <2>7, <2>8, <2>9, <2>10, <2>11, <3>5, <3>7, <3>9 DEF Inv, InvOfReadings
  <2>14. QED BY <2>12, <2>13
<1>5. QED BY <1>3, <1>4

LEMMA PullStep ==
  ASSUME Inv, NEW c \in Calls, NEW asked \in Asked, Pull(c, asked[1], asked[2])
  PROVE  Inv'
<1>1. asked[1] \in Scopes /\ asked[2] \in BOOLEAN
  BY ScopesAssumption DEF Scopes
<1>2. Attempts[c] \in Nat
  BY SizesAssumption
<1>3. read[c].pc = "none" /\ Ask(c, asked[1], asked[2], Attempts[c])
  BY DEF Pull
<1>4. QED BY <1>1, <1>2, <1>3, AskStep

LEMMA AskAgainStep ==
  ASSUME Inv, NEW c \in Calls, AskAgain(c)
  PROVE  Inv'
<1>1. call[c] \in AllCalls /\ call[c].pc = "again" /\ call[c].left > 1 /\ call[c].scope \in Scopes
  BY DEF Inv, InvOfReadings, CallsTyped, Owned, AskAgain
<1>2. call[c].light \in BOOLEAN /\ AttemptsLeft(call[c]) \in Nat
  BY <1>1 DEF AllCalls, AttemptsLeft
<1>3. read[c].pc = "none"
  BY <1>1 DEF Inv, InvOfReadings, Owned
<1>4. Ask(c, call[c].scope, call[c].light, AttemptsLeft(call[c]))
  BY DEF AskAgain
<1>5. QED BY <1>1, <1>2, <1>3, <1>4, AskStep

--------------------------------------------------------------------------------
(* A reading ends.                                                         *)

LEMMA EndStep ==
  ASSUME Inv, NEW f \in Calls, NEW obsolete \in BOOLEAN, End(f, obsolete),
         UNCHANGED <<server, unread, behind, known>>
  PROVE  InvOfReadings'
<1>1. /\ \A c \in Calls : call[c] \in AllCalls
      /\ read \in [Calls -> Readings]
  BY DEF Inv, InvOfReadings, CallsTyped
<1>2. /\ read' \in [Calls -> Readings]
      /\ read'[f] = NoRead /\ \A g \in Calls : g # f => read'[g] = read[g]
  BY <1>1, NoReadTyped DEF End
<1>3. \A c \in Calls : ~Woken(c, f) => call'[c] = call[c]
  BY DEF End
<1>4. \A c \in Calls : Woken(c, f) =>
        /\ call'[c] \in AllCalls /\ call'[c].pc \in {"idle", "again"}
        /\ call'[c].pc = "again" => call'[c].left > 1 /\ call'[c].scope = call[c].scope
  <2> SUFFICES ASSUME NEW c \in Calls, Woken(c, f)
               PROVE  /\ call'[c] \in AllCalls /\ call'[c].pc \in {"idle", "again"}
                      /\ call'[c].pc = "again" => call'[c].left > 1 /\ call'[c].scope = call[c].scope
    OBVIOUS
  <2>1. call'[c] = Goes(call[c], obsolete)
    BY DEF End
  <2>2. call'[c] = NoCall \/ (call'[c] = [call[c] EXCEPT !.pc = "again", !.on = None] /\ call[c].left > 1)
    BY <2>1 DEF Goes
  <2>3. CASE call'[c] = NoCall
    BY <2>3 DEF NoCall, AllCalls
  <2>4. CASE call'[c] = [call[c] EXCEPT !.pc = "again", !.on = None] /\ call[c].left > 1
    <3>1. call[c] \in AllCalls
      BY <1>1
    <3>2. /\ call'[c].pc = "again" /\ call'[c].left = call[c].left /\ call'[c].scope = call[c].scope
      BY <2>4, <3>1 DEF AllCalls
    <3>3. call'[c] \in AllCalls
      BY <2>4, <3>1 DEF AllCalls
    <3>4. QED BY <2>4, <3>2, <3>3
  <2>5. QED BY <2>2, <2>3, <2>4
<1>5. call' \in [Calls -> AllCalls]
  <2>1. call' = [c \in Calls |-> call'[c]]
    BY DEF End
  <2>2. \A c \in Calls : call'[c] \in AllCalls
    BY <1>1, <1>3, <1>4
  <2>3. QED BY <2>1, <2>2
<1>6. \A c \in Calls : call'[c].pc = "waiting" =>
        call'[c] = call[c] /\ call[c].on # f /\ call[c].on \in Calls
  BY <1>3, <1>4 DEF Woken, Inv, InvOfReadings, CallsTyped
<1>7. CallsTyped'
  BY <1>2, <1>3, <1>4, <1>5, <1>6 DEF Inv, InvOfReadings, CallsTyped
<1>8. Waits'
  BY <1>2, <1>6 DEF Inv, InvOfReadings, Waits
<1>9. ReadShapes' /\ Scoped'
  BY <1>2, NoReadTyped, RowsTyped DEF Inv, InvOfReadings, ReadShapes, Scoped
<1>10. Owned'
  <2>1. \A c \in Calls : read'[c].pc # "none" => c # f /\ call[c].pc = "waiting" /\ call[c].on = c
    BY <1>2, NoReadTyped DEF Inv, InvOfReadings, Owned
  <2>2. \A c \in Calls : read'[c].pc # "none" => call'[c] = call[c]
    BY <1>3, <2>1 DEF Woken
  <2>3. \A c \in Calls : call'[c].pc # "idle" => call'[c].scope \in Scopes
    BY <1>3, <1>4 DEF Woken, Inv, InvOfReadings, Owned
  <2>4. QED BY <2>1, <2>2, <2>3 DEF Owned
<1>11. NotOlder' /\ NoneCurrent'
  BY <1>2, NoReadTyped DEF Inv, InvOfReadings, NotOlder, NoneCurrent
<1>12. ReadsServer'
  <2>1. \A s : Listed(s)' = Listed(s)
    BY DEF Listed
  <2>2. \A e, s : Rank(e, s)' = Rank(e, s)
    BY <2>1 DEF Rank
  <2>3. \A g \in Calls : g # f => (Exact(g)' <=> Exact(g))
    BY <1>2, <2>1, <2>2 DEF Exact, IsServers
  <2>4. QED BY <1>2, <2>3, NoReadTyped DEF Inv, InvOfReadings, ReadsServer
<1>13. QED BY <1>7, <1>8, <1>9, <1>10, <1>11, <1>12 DEF InvOfReadings

LEMMA NothingAppliedStep ==
  ASSUME Inv, NEW f \in Calls, Dropped(f) \/ PagesFail(f)
  PROVE  Inv'
<1>1. PICK obsolete \in BOOLEAN : End(f, obsolete)
  BY DEF Dropped, PagesFail
<1>2. UNCHANGED <<server, agents, shapeLight, ensured, session, unread, page, changes, events,
                  behind, known, outside>>
  BY DEF Dropped, PagesFail, station, token, bounds, history
<1>3. InvOfReadings'
  BY <1>1, <1>2, EndStep
<1>4. InvOfRows'
  BY <1>2 DEF Inv, InvOfRows, StationTyped, PageShape, FullUnlessFlagged, FreshMeansServer, Fresh,
     Listed
<1>5. QED BY <1>3, <1>4 DEF Inv

\* When everything has arrived and nothing has changed, the reading holds the rows of its scope.
LEMMA ArrivedHolds ==
  ASSUME Inv, NEW f \in Calls, Arrived(f), ~behind
  PROVE  \A e \in Employees :
           /\ e \in Listed(read[f].scope) =>
                IsServers(read[f].rows[e], e) /\ InScope(read[f].rows[e], read[f].scope)
           /\ e \notin Listed(read[f].scope) => read[f].rows[e] = NoRow
<1>1. /\ read[f] \in Readings /\ read[f].current
      /\ read[f].pc = "answered" \/ (read[f].pc = "paged" /\ read[f].page >= read[f].total)
  BY DEF Arrived, At, IsCurrent, Inv, InvOfReadings, CallsTyped
<1>2. Exact(f)
  BY <1>1 DEF Inv, InvOfReadings, ReadsServer
<1>3. ASSUME NEW e \in Listed(read[f].scope) PROVE read[f].rows[e] # NoRow
  <2>1. CASE read[f].pc = "answered"
    BY <1>2, <2>1 DEF Exact
  <2>2. CASE read[f].pc = "paged" /\ read[f].page >= read[f].total
    <3>1. read[f].total = Cardinality(Listed(read[f].scope)) /\ Cardinality(Listed(read[f].scope)) \in Nat
      BY <1>2, <2>2, ListedFinite DEF Exact
    <3>2. Rank(e, read[f].scope) \in 1 .. Cardinality(Listed(read[f].scope))
      BY RankBound
    <3>3. read[f].page \in Nat
      BY <1>1 DEF Readings
    <3>4. Rank(e, read[f].scope) <= read[f].page
      BY <2>2, <3>1, <3>2, <3>3
    <3>5. QED BY <1>2, <2>2, <3>4 DEF Exact
  <2>3. QED BY <1>1, <2>1, <2>2
<1>4. ASSUME NEW e \in Employees, e \in Listed(read[f].scope)
      PROVE  IsServers(read[f].rows[e], e) /\ InScope(read[f].rows[e], read[f].scope)
  <2>1. IsServers(read[f].rows[e], e)
    BY <1>2, <1>3, <1>4 DEF Exact
  <2>2. InScope(server[e], read[f].scope)
    BY <1>4 DEF Listed
  <2>3. QED BY <2>1, <2>2 DEF IsServers, InScope
<1>5. ASSUME NEW e \in Employees, e \notin Listed(read[f].scope) PROVE read[f].rows[e] = NoRow
  BY <1>2, <1>5 DEF Exact
<1>6. QED BY <1>4, <1>5

\* What a scope marked fresh says of one employee
Agrees(e, scope) ==
  /\ e \in Listed(scope) => IsServers(agents[e], e)
  /\ e \notin Listed(scope) => ~InScope(agents[e], scope)

LEMMA FreshIsAgreement ==
  FreshMeansServer <=>
    (~behind => \A scope \in Scopes, e \in Employees :
                  Fresh(scope) /\ e \notin outside => Agrees(e, scope))
BY DEF FreshMeansServer, Agrees, IsServers

LEMMA ApplyFresh ==
  ASSUME Inv, NEW f \in Calls, Apply(f)
  PROVE  FreshMeansServer'
<1> DEFINE s == read[f].scope
           rows == read[f].rows
<1>1. /\ agents' = Merged(read[f]) /\ ensured' \subseteq ensured \cup {s} /\ Arrived(f)
      /\ UNCHANGED <<server, behind, outside>>
  BY DEF Apply, history
<1>2. \A t : Listed(t)' = Listed(t)
  BY <1>1 DEF Listed
<1>3. ~InScope(NoRow, s) /\ \A t : ~InScope(NoRow, t)
  BY RowsTyped DEF InScope
<1>4. /\ s = All => \A e \in Employees : agents'[e] = rows[e]
      /\ s # All => \A e \in Employees :
           agents'[e] = IF InScope(rows[e], s) THEN rows[e]
                        ELSE IF InScope(agents[e], s) THEN NoRow ELSE agents[e]
  BY <1>1 DEF Merged
<1>5. ASSUME ~behind, NEW t \in Scopes, NEW e \in Employees, Fresh(t)', e \notin outside
      PROVE  Agrees(e, t)'
  <2>1. /\ e \in Listed(s) => IsServers(rows[e], e) /\ InScope(rows[e], s)
        /\ e \notin Listed(s) => rows[e] = NoRow
    BY <1>1, <1>5, ArrivedHolds
  <2>2. \A row : IsServers(row, e) => \A u : InScope(row, u) <=> e \in Listed(u)
    BY DEF IsServers, InScope, Listed
  <2>3. \A row : IsServers(row, e)' <=> IsServers(row, e)
    BY <1>1 DEF IsServers
  <2> HIDE DEF rows, s
  <2>4. CASE s = All
    <3>1. e \in Listed(t) => e \in Listed(s)
      BY <2>4 DEF Listed, InScope
    <3>2. agents'[e] = rows[e]
      BY <1>4, <2>4
    <3>3. e \in Listed(t) => IsServers(agents'[e], e)
      BY <2>1, <3>1, <3>2
    <3>4. e \notin Listed(t) => ~InScope(agents'[e], t)
      BY <1>3, <2>1, <2>2, <3>2
    <3>5. QED BY <1>2, <2>3, <3>3, <3>4 DEF Agrees, IsServers, InScope
  <2>5. CASE s # All /\ s = t
    <3>1. agents'[e] = IF InScope(rows[e], s) THEN rows[e]
                       ELSE IF InScope(agents[e], s) THEN NoRow ELSE agents[e]
      BY <1>4, <2>5
    <3>2. e \in Listed(t) => IsServers(agents'[e], e)
      BY <2>1, <2>5, <3>1
    <3>3. e \notin Listed(t) => ~InScope(agents'[e], t)
      BY <1>3, <2>1, <2>5, <3>1
    <3>4. QED BY <1>1, <1>2, <3>2, <3>3 DEF Agrees, IsServers, InScope
  <2>6. CASE s # All /\ s # t
    <3>1. Fresh(t)
      BY <1>1, <1>5, <2>6 DEF Fresh, s
    <3>2. Agrees(e, t)
      BY <1>5, <3>1, FreshIsAgreement DEF Inv, InvOfRows
    <3>3. agents'[e] = IF InScope(rows[e], s) THEN rows[e]
                       ELSE IF InScope(agents[e], s) THEN NoRow ELSE agents[e]
      BY <1>4, <2>6
    <3>4. CASE e \in Listed(s)
      <4>1. agents'[e] = rows[e] /\ IsServers(rows[e], e)
        BY <2>1, <3>3, <3>4
      <4>2. e \notin Listed(t) => ~InScope(agents'[e], t)
        BY <2>2, <4>1
      <4>3. QED BY <1>1, <1>2, <4>1, <4>2 DEF Agrees, IsServers, InScope
    <3>5. CASE e \notin Listed(s) /\ InScope(agents[e], s)
      <4>1. agents'[e] = NoRow
        BY <1>3, <2>1, <3>3, <3>5
      <4>2. e \notin Listed(t)
        BY <2>2, <3>2, <3>5 DEF Agrees
      <4>3. QED BY <1>2, <1>3, <4>1, <4>2 DEF Agrees, InScope
    <3>6. CASE e \notin Listed(s) /\ ~InScope(agents[e], s)
      <4>1. agents'[e] = agents[e]
        BY <1>3, <2>1, <3>3, <3>6
      <4>2. QED BY <1>1, <1>2, <3>2, <4>1 DEF Agrees, IsServers, InScope
    <3>7. QED BY <3>4, <3>5, <3>6
  <2>7. QED BY <2>4, <2>5, <2>6
<1>6. \A t \in Scopes, e \in Employees :
        ~behind' /\ Fresh(t)' /\ e \notin outside' => Agrees(e, t)'
  BY <1>1, <1>5
<1>7. FreshMeansServer' <=>
        (~behind' => \A t \in Scopes, e \in Employees : Fresh(t)' /\ e \notin outside' => Agrees(e, t)')
  BY DEF FreshMeansServer, Agrees, IsServers
<1>8. QED BY <1>6, <1>7

LEMMA ApplyStep ==
  ASSUME Inv, NEW f \in Calls, Apply(f)
  PROVE  Inv'
<1> DEFINE r == read[f]
<1>1. /\ agents' = Merged(r) /\ shapeLight' = StillLight(r)
      /\ ensured' \subseteq ensured \cup {r.scope} /\ End(f, FALSE)
      /\ UNCHANGED <<server, session, unread, page, changes, events, behind, known, outside>>
  BY DEF Apply, token, bounds, history
<1>2. r \in Readings /\ r.scope \in Scopes
  BY DEF Apply, Arrived, At, IsCurrent, Inv, InvOfReadings, CallsTyped, Scoped
<1>3. InvOfReadings'
  BY <1>1, EndStep
<1>4. \A e \in Employees :
        \/ agents'[e] = r.rows[e]
        \/ r.scope # All /\ (agents'[e] = NoRow \/ agents'[e] = agents[e])
  BY <1>1 DEF Merged
<1>5. agents' \in Rows
  <2>1. r.rows \in Rows /\ agents \in Rows
    BY <1>2 DEF Readings, Inv, InvOfRows, StationTyped
  <2> HIDE DEF r
  <2>2. QED BY <1>1, <2>1, RowsTyped DEF Merged, Rows
<1>6. shapeLight' \in BOOLEAN
  BY <1>1 DEF StillLight
<1>7. StationTyped'
  BY <1>1, <1>2, <1>5, <1>6 DEF Inv, InvOfRows, StationTyped
<1>8. FullUnlessFlagged'
  <2>1. \A e \in Employees : r.rows[e].light => r.light
    BY DEF Inv, InvOfReadings, ReadShapes
  <2>2. ~shapeLight' => ~r.light /\ (r.scope = All \/ ~shapeLight)
    BY <1>1 DEF StillLight
  <2>3. QED BY <1>4, <2>1, <2>2, RowsTyped DEF Inv, InvOfRows, FullUnlessFlagged
<1>9. FreshMeansServer'
  BY ApplyFresh
<1>10. PageShape'
  BY <1>1 DEF Inv, InvOfRows, PageShape
<1>11. QED BY <1>3, <1>7, <1>8, <1>9, <1>10 DEF Inv, InvOfRows

LEMMA NextInv ==
  ASSUME Inv, [Next]_vars
  PROVE  Inv'
<1>1. CASE DataChange
  BY <1>1, DataChangeStep
<1>2. CASE SignOut \/ SignIn
  BY <1>2, TokenStep
<1>3. ASSUME NEW e \in Employees, NEW society \in Societies \cup {None}, ServerChange(e, society)
      PROVE  Inv'
  BY <1>3, ServerChangeStep
<1>4. ASSUME NEW e \in Employees, ScreenAsks(e) PROVE Inv'
  BY <1>4, ScreenAsksStep
<1>5. CASE ScreenShows
  BY <1>5, ScreenShowsStep
<1>6. CASE RightsChanged
  BY <1>6, RightsChangedStep
<1>7. ASSUME NEW c \in Calls, NEW asked \in Asked, Pull(c, asked[1], asked[2]) PROVE Inv'
  BY <1>7, PullStep
<1>8. ASSUME NEW c \in Calls,
             AskAgain(c) \/ ServerLists(c) \/ ListFails(c) \/ ServerPages(c) \/ NextPage(c)
               \/ Apply(c) \/ Dropped(c) \/ PagesFail(c)
      PROVE  Inv'
  BY <1>8, AskAgainStep, ServerListsStep, ListFailsStep, ServerPagesStep, NextPageStep, ApplyStep,
     NothingAppliedStep
<1>9. CASE UNCHANGED vars
  <2>1. UNCHANGED <<server, agents, shapeLight, ensured, session, unread, call, read, page, changes,
                    events, behind, known, outside>>
    BY <1>9 DEF vars, station, token, bounds, history
  <2>2. InvOfReadings'
    BY <2>1, ReadingsStay
  <2>3. InvOfRows'
    BY <2>1 DEF Inv, InvOfRows, StationTyped, PageShape, FullUnlessFlagged, FreshMeansServer, Fresh,
       Listed
  <2>4. QED BY <2>2, <2>3 DEF Inv
<1>10. QED BY <1>1, <1>2, <1>3, <1>4, <1>5, <1>6, <1>7, <1>8, <1>9 DEF Next

--------------------------------------------------------------------------------
(* Theorems.                                                               *)

\* The inductive invariant: what current readings hold, and what the marks of freshness say,
\* in every state a station can be in.
THEOREM Invariance == Spec => []Inv
<1>1. Init => Inv
  BY InitInv
<1>2. Inv /\ [Next]_vars => Inv'
  BY NextInv
<1>3. QED BY <1>1, <1>2, PTL DEF Spec

\* The variables keep their types, and no call waits for a reading that does not exist
\* (sgdi-app.js:1593-1636).
THEOREM TypeCorrect == Spec => []TypeOK
<1>1. Inv => TypeOK
  BY SplitType DEF Inv, InvOfReadings, InvOfRows
<1>2. QED BY <1>1, Invariance, PTL

\* A scope marked fresh has the rows of the server once what changed has been made known
\* (sgdi-app.js:1682-1709), for any employees, societies and calls.
THEOREM FreshMeansServerHolds == Spec => []FreshMeansServer
<1>1. Inv => FreshMeansServer
  BY DEF Inv, InvOfRows
<1>2. QED BY <1>1, Invariance, PTL

\* Without the flag of light rows, every row has its documents (sgdi-app.js:1692-1697).
THEOREM FullUnlessFlaggedHolds == Spec => []FullUnlessFlagged
<1>1. Inv => FullUnlessFlagged
  BY DEF Inv, InvOfRows
<1>2. QED BY <1>1, Invariance, PTL

LEMMA RowsChangedOnlyBy ==
  ASSUME [Next]_vars, agents' # agents
  PROVE  (\E f \in Calls : Apply(f)) \/ ScreenShows \/ RightsChanged
BY DEF Next, vars, station, DataChange, SignOut, SignIn, ServerChange, ScreenAsks, Pull, AskAgain,
   Ask, ServerLists, ListFails, ServerPages, NextPage, Dropped, PagesFail

\* No answer older than the last change known changes a row (sgdi-app.js:1682), whatever the
\* number of readings in progress.
THEOREM NeverOlderThanKnownHolds == Spec => NeverOlderThanKnown
<1> DEFINE Step == \A e \in Employees \ outside' :
                     agents'[e] # agents[e] /\ agents'[e] # NoRow => agents'[e].version >= known[e]
<1>1. ASSUME Inv, [Next]_vars PROVE Step
  <2> SUFFICES ASSUME NEW e \in Employees, e \notin outside',
                      agents'[e] # agents[e], agents'[e] # NoRow
               PROVE  agents'[e].version >= known[e]
    OBVIOUS
  <2>1. (\E f \in Calls : Apply(f)) \/ ScreenShows \/ RightsChanged
    BY <1>1, RowsChangedOnlyBy
  <2>2. ASSUME NEW f \in Calls, Apply(f) PROVE agents'[e].version >= known[e]
    <3>1. agents'[e] = read[f].rows[e] /\ read[f].current
      BY <2>2 DEF Apply, Merged, Arrived, At, IsCurrent
    <3>2. QED BY <1>1, <3>1 DEF Inv, InvOfReadings, NotOlder
  <2>3. CASE ScreenShows
    BY <2>3 DEF ScreenShows
  <2>4. CASE RightsChanged
    BY <2>4 DEF RightsChanged
  <2>5. QED BY <2>1, <2>2, <2>3, <2>4
<1>2. Inv /\ [Next]_vars => [Step]_vars
  BY <1>1
<1>3. QED BY <1>2, Invariance, PTL DEF Spec, NeverOlderThanKnown

\* A call answered with what it asked for has the documents it asked for (sgdi-app.js:1597-1602),
\* whichever call started the reading.
THEOREM GetsTheShapeAskedHolds == Spec => GetsTheShapeAsked
<1> DEFINE Step == \A f \in Calls : Apply(f) =>
                     \A c \in Calls : Woken(c, f) /\ ~call[c].light =>
                       \A e \in Employees : InScope(agents'[e], call[c].scope) => ~agents'[e].light
<1>1. ASSUME Inv PROVE Step
  <2> SUFFICES ASSUME NEW f \in Calls, Apply(f), NEW c \in Calls, Woken(c, f), ~call[c].light,
                      NEW e \in Employees, InScope(agents'[e], call[c].scope)
               PROVE  ~agents'[e].light
    OBVIOUS
  <2>1. ~read[f].asked /\ read[f].scope \in {call[c].scope, All}
    BY <1>1 DEF Woken, Inv, InvOfReadings, Waits
  <2>2. ~read[f].light /\ ~read[f].rows[e].light
    BY <1>1, <2>1 DEF Inv, InvOfReadings, ReadShapes
  <2>3. agents'[e] = Merged(read[f])[e]
    BY DEF Apply
  <2>4. CASE read[f].scope = All
    BY <2>2, <2>3, <2>4 DEF Merged
  <2>5. CASE read[f].scope # All /\ read[f].scope = call[c].scope
    <3>1. agents'[e] = IF InScope(read[f].rows[e], read[f].scope) THEN read[f].rows[e]
                       ELSE IF InScope(agents[e], read[f].scope) THEN NoRow ELSE agents[e]
      BY <2>3, <2>5 DEF Merged
    <3>2. QED BY <2>2, <2>5, <3>1, RowsTyped
  <2>6. QED BY <2>1, <2>4, <2>5
<1>2. Inv /\ [Next]_vars => [Step]_vars
  BY <1>1
<1>3. QED BY <1>2, Invariance, PTL DEF Spec, GetsTheShapeAsked

================================================================================
