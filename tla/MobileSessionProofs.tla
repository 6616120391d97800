-------------------------- MODULE MobileSessionProofs --------------------------
(***************************************************************************)
(* Proofs about MobileSession, for any number of sessions, renewals, calls *)
(* and restarts.  The invariants of the module are not inductive: what the *)
(* server has counted for a session (gen) has to be related to the tokens  *)
(* on their way (Presented), to the tokens the device holds (Opened,       *)
(* Fresh) or keeps (AllGood), and the sessions that are being opened or    *)
(* restored to those left (OutInv).                                        *)
(***************************************************************************)
EXTENDS MobileSession, TLAPS, SequenceTheorems

SessionRow == [state : {"absent", "active", "revoked"}, gen : 0 .. MaxGen,
               reason : {"none", "logout", "account", "refresh_reuse"}]
RenewalRow == [state : {"new", "sent", "loaded", "granted", "refused"}, tok : Kept]
CallRow == [pc : {"idle", "new", "sent", "accepted", "denied", "waiting", "forbidden",
                  "rejecting", "failed"},
            tok : Kept, retried : BOOLEAN]

Live(t) == t # None => server[t.sid].state # "absent"

\* A token presented is one the server issued, and is spent once it is granted.
Presented ==
  \A r \in Renewals :
    /\ renewal[r].state # "new" => renewal[r].tok # None /\ Live(renewal[r].tok)
    /\ renewal[r].state = "granted" => server[renewal[r].tok.sid].gen > renewal[r].tok.gen

\* The tokens of the device are of sessions that were opened; a session is opened once.
Opened ==
  /\ \A s \in Sessions : server[s].state = "absent" => server[s].gen = 0 /\ s \notin left
  /\ Live(current) /\ Live(stored) /\ Live(opening) /\ Live(loaded)
  /\ \A i \in 1 .. Len(writes) : Live(writes[i])

TInv == TypeOK /\ Presented /\ Opened

-------------------------------------------------------------------------------
(* Values and rows *)

LEMMA TokenFacts ==
  ASSUME NEW t \in Kept, t # None
  PROVE  t \in Tokens /\ t.sid \in Sessions /\ t.gen \in 0 .. MaxGen
BY DEF Tokens, Kept

LEMMA RevokedFacts ==
  ASSUME NEW row \in SessionRow, NEW why \in {"logout", "account", "refresh_reuse"}
  PROVE  /\ Revoked(row, why) \in SessionRow
         /\ Revoked(row, why).gen = row.gen
         /\ Revoked(row, why).state = "absent" <=> row.state = "absent"
         /\ Revoked(row, why).reason \in {row.reason, why}
         /\ row.state # "active" => Revoked(row, why) = row
BY DEF Revoked, SessionRow

LEMMA Typing ==
  ASSUME TypeOK
  PROVE  /\ server \in [Sessions -> SessionRow] /\ renewal \in [Renewals -> RenewalRow]
         /\ call \in [Calls -> CallRow]
         /\ current \in Kept /\ stored \in Kept /\ opening \in Kept /\ loaded \in Kept
         /\ writes \in Seq(Kept)
         /\ renewing \in Renewals \cup {None} /\ held \in BOOLEAN /\ restoring \in BOOLEAN
         /\ held => renewing # None /\ current = renewal[renewing].tok
BY DEF TypeOK, SessionRow, RenewalRow, CallRow

\* What a server step does to the row of one session.
OneRow(s, row) ==
  /\ server' = [server EXCEPT ![s] = row]
  /\ row \in SessionRow
  /\ row.gen >= server[s].gen
  /\ row.state = "absent" <=> server[s].state = "absent"

-------------------------------------------------------------------------------
(* The steps that change nothing but the calls in progress *)

OnlyCalls ==
  /\ UNCHANGED <<net, memory, screen, disk, crashes, left, missed>>
  /\ call' \in [Calls -> CallRow]
  /\ call'[Logout].pc = "idle" => call[Logout].pc = "idle"
  /\ call[Profile].pc = "idle" => call'[Profile].pc = "idle"

CallStep(c) ==
  \/ Attempt(c) \/ Join(c) \/ NothingToRenew(c) \/ TryAgain(c)
  \/ Denied(c)
  \/ c \in Requests /\ (Request(c) \/ RequestDone(c))

LEMMA CallSteps ==
  ASSUME TypeOK, NEW c \in Calls, CallStep(c)
  PROVE  OnlyCalls
<1>1. call \in [Calls -> CallRow] /\ current \in Kept /\ Logout \in Calls
  BY Typing DEF Calls
<1>2. UNCHANGED <<net, memory, screen, disk, crashes, left, missed>>
  BY DEF CallStep, Attempt, Join, NothingToRenew, TryAgain, Denied, Request, RequestDone
<1>a. Profile \in Calls /\ Profile \notin Requests
  BY NamesAssumption DEF Calls
<1>b. c = Profile => call[c].pc # "idle"
  BY <1>a DEF CallStep, Attempt, Join, NothingToRenew, TryAgain, WantsRenewal, Denied
<1>3. \/ \E x \in CallRow : call' = [call EXCEPT ![c] = x] /\ x.pc # "idle"
      \/ call' = [call EXCEPT ![c] = NoCall] /\ c # Logout
  <2>1. CASE Attempt(c) \/ TryAgain(c)
    <3> DEFINE x(b) == [pc |-> "sent", tok |-> current, retried |-> b]
    <3>1. \A b \in BOOLEAN : x(b) \in CallRow /\ x(b).pc # "idle"
      BY <1>1 DEF CallRow
    <3>2. call' = [call EXCEPT ![c] = x(FALSE)] \/ call' = [call EXCEPT ![c] = x(TRUE)]
      BY <2>1 DEF Attempt, TryAgain
    <3> QED BY <3>1, <3>2
  <2>2. CASE Join(c)
    <3> DEFINE x == [call[c] EXCEPT !.pc = "waiting", !.retried = (call[c].pc = "denied")]
    <3>1. call' = [call EXCEPT ![c] = x]
      BY <1>1, <2>2 DEF Join, Wait
    <3>2. x \in CallRow /\ x.pc # "idle"
      BY <1>1 DEF CallRow
    <3> QED BY <3>1, <3>2
  <2>3. CASE NothingToRenew(c) \/ Denied(c) \/ (c \in Requests /\ Request(c))
    <3> DEFINE x(p) == [call[c] EXCEPT !.pc = p]
    <3>1. call' = [call EXCEPT ![c] = x("rejecting")] \/ call' = [call EXCEPT ![c] = x("new")]
      BY <1>1, <2>3 DEF NothingToRenew, Denied, Request
    <3>2. \A p \in {"rejecting", "new"} : x(p) \in CallRow /\ x(p).pc # "idle"
      BY <1>1 DEF CallRow
    <3> QED BY <3>1, <3>2
  <2>4. CASE c \in Requests /\ RequestDone(c)
    BY <2>4, NamesAssumption DEF RequestDone, Done
  <2> QED BY <2>1, <2>2, <2>3, <2>4 DEF CallStep
<1>4. NoCall \in CallRow
  BY DEF NoCall, CallRow, Kept
<1> QED BY <1>1, <1>2, <1>3, <1>4, <1>a, <1>b DEF OnlyCalls

\* What Settle does: the calls that waited go on, the others stay as they are.
LEMMA SettleFacts ==
  ASSUME TypeOK, NEW pc \in {"sent", "rejecting", "failed"}, NEW t \in Kept, Settle(pc, t)
  PROVE  /\ call' \in [Calls -> CallRow]
         /\ call'[Logout].pc = "idle" => call[Logout].pc = "idle"
         /\ call[Profile].pc = "idle" => call'[Profile].pc = "idle"
<1>1. call \in [Calls -> CallRow] /\ Logout \in Calls /\ Profile \in Calls
  BY Typing DEF Calls
<1>2. \A c \in Calls : [call[c] EXCEPT !.pc = pc, !.tok = t] \in CallRow
  BY <1>1 DEF CallRow
<1>3. \A c \in Calls : [call[c] EXCEPT !.pc = pc, !.tok = t].pc = pc
  BY <1>1 DEF CallRow
<1> QED BY <1>1, <1>2, <1>3 DEF Settle


LEMMA AppendFacts ==
  ASSUME NEW w \in Seq(Kept), NEW t \in Kept
  PROVE  /\ Append(w, t) \in Seq(Kept) /\ Append(w, t) # <<>>
         /\ Append(w, t)[Len(Append(w, t))] = t
         /\ \A i \in 1 .. Len(Append(w, t)) :
              Append(w, t)[i] = t \/ \E j \in 1 .. Len(w) : Append(w, t)[i] = w[j]
<1>1. Len(Append(w, t)) = Len(w) + 1 /\ Append(w, t) \in Seq(Kept)
  OBVIOUS
<1>2. \A i \in 1 .. Len(w) : Append(w, t)[i] = w[i]
  OBVIOUS
<1>3. Append(w, t)[Len(w) + 1] = t
  OBVIOUS
<1>4. Len(w) \in Nat
  OBVIOUS
<1>5. Append(w, t) # <<>>
  BY <1>1, <1>4
<1>6. \A i \in 1 .. Len(w) + 1 : i = Len(w) + 1 \/ i \in 1 .. Len(w)
  BY <1>4
<1> QED BY <1>1, <1>2, <1>3, <1>5, <1>6

LEMMA TailFacts ==
  ASSUME NEW w \in Seq(Kept), w # <<>>
  PROVE  /\ Head(w) \in Kept /\ Tail(w) \in Seq(Kept)
         /\ 1 \in 1 .. Len(w) /\ Head(w) = w[1]
         /\ \A i \in 1 .. Len(Tail(w)) : i + 1 \in 1 .. Len(w) /\ Tail(w)[i] = w[i + 1]
         /\ Tail(w) = <<>> => Head(w) = w[Len(w)]
         /\ Tail(w) # <<>> => Tail(w)[Len(Tail(w))] = w[Len(w)]
<1>1. Len(w) \in Nat /\ Len(w) > 0 /\ Head(w) \in Kept /\ Tail(w) \in Seq(Kept) /\ Head(w) = w[1]
  OBVIOUS
<1>a. Len(Tail(w)) = Len(w) - 1
  BY HeadTailProperties
<1>b. \A i \in 1 .. Len(w) - 1 : Tail(w)[i] = w[i + 1]
  OBVIOUS
<1>2. Len(Tail(w)) = Len(w) - 1 /\ \A i \in 1 .. Len(Tail(w)) : Tail(w)[i] = w[i + 1]
  BY <1>a, <1>b
<1>3. Tail(w) = <<>> => Len(w) = 1
  <2>1. Len(<<>>) = 0
    OBVIOUS
  <2>2. Tail(w) = <<>> => Len(Tail(w)) = 0
    BY <2>1
  <2> QED BY <1>1, <1>a, <2>2
<1>4. Tail(w) # <<>> => Len(Tail(w)) \in 1 .. Len(Tail(w)) /\ Len(Tail(w)) + 1 = Len(w)
  BY <1>1, <1>2
<1>5. 1 \in 1 .. Len(w) /\ \A i \in 1 .. Len(Tail(w)) : i + 1 \in 1 .. Len(w)
  BY <1>1, <1>2
<1> QED BY <1>1, <1>2, <1>3, <1>4, <1>5

-------------------------------------------------------------------------------
(* Typing, and the tokens that exist.  Steps of the server, then of the device. *)

\* Rows of auth_sessions only go forward; an absent one stays as it is.
ServerMoves ==
  /\ server' \in [Sessions -> SessionRow]
  /\ \A s \in Sessions :
       /\ server'[s].gen >= server[s].gen
       /\ server'[s].state = "absent" <=> server[s].state = "absent"
       /\ server[s].state = "absent" => server'[s] = server[s]

\* Answers are given to calls that were sent, and a grant consumes its token.
AnswersMove ==
  /\ renewal' \in [Renewals -> RenewalRow]
  /\ \A q \in Renewals :
       /\ renewal'[q].tok = renewal[q].tok
       /\ renewal'[q].state = "new" <=> renewal[q].state = "new"
       /\ renewal'[q].state = "granted" =>
            \/ renewal[q].state = "granted"
            \/ server'[renewal[q].tok.sid].gen > renewal[q].tok.gen

LEMMA ServerSide ==
  ASSUME TInv, ServerMoves, AnswersMove,
         UNCHANGED <<memory, screen, disk, crashes, left, missed>>,
         call' \in [Calls -> CallRow], expired' \subseteq Tokens
  PROVE  TInv'
<1>1. Presented'
  <2> SUFFICES ASSUME NEW r \in Renewals
               PROVE  /\ renewal'[r].state # "new" =>
                           renewal'[r].tok # None /\ Live(renewal[r].tok)'
                      /\ renewal'[r].state = "granted" =>
                           server'[renewal'[r].tok.sid].gen > renewal'[r].tok.gen
    BY DEF Presented
  <2>1. renewal'[r].tok = renewal[r].tok /\ renewal[r] \in RenewalRow
    BY Typing DEF AnswersMove, TInv
  <2>2. renewal'[r].state # "new" => renewal[r].tok # None /\ Live(renewal[r].tok)
    BY DEF AnswersMove, TInv, Presented
  <2>3. renewal'[r].state # "new" => renewal[r].tok.sid \in Sessions /\ renewal[r].tok.gen \in Int
    BY <2>1, <2>2, TokenFacts, BoundsAssumption DEF RenewalRow
  <2>4. renewal'[r].state # "new" => Live(renewal[r].tok)'
    BY <2>1, <2>2, <2>3 DEF ServerMoves, Live
  <2>5. ASSUME renewal'[r].state = "granted", renewal[r].state = "granted"
        PROVE  server'[renewal[r].tok.sid].gen > renewal[r].tok.gen
    <3>1. server[renewal[r].tok.sid].gen > renewal[r].tok.gen
      BY <2>5 DEF TInv, Presented
    <3>2. renewal[r].tok.sid \in Sessions /\ renewal[r].tok.gen \in Int
      BY <2>3, <2>5
    <3>3. \A s \in Sessions : server[s].gen \in Int /\ server'[s].gen \in Int
      BY Typing, BoundsAssumption DEF TInv, ServerMoves, SessionRow
    <3> QED BY <3>1, <3>2, <3>3 DEF ServerMoves
  <2> QED BY <2>1, <2>2, <2>4, <2>5 DEF AnswersMove
<1>2. \A t \in Kept : Live(t) => Live(t)'
  BY TokenFacts DEF ServerMoves, Live
<1>3. Opened'
  <2>1. /\ current \in Kept /\ stored \in Kept /\ opening \in Kept /\ loaded \in Kept
        /\ writes \in Seq(Kept)
    BY Typing DEF TInv
  <2>2. UNCHANGED <<current, stored, opening, loaded, writes, left>>
    BY DEF memory, screen, disk
  <2>3. \A i \in 1 .. Len(writes) : writes[i] \in Kept
    BY <2>1
  <2>4. \A i \in 1 .. Len(writes) : Live(writes[i])'
    BY <1>2, <2>3, <2>2 DEF TInv, Opened, Live
  <2>5. (Live(current) /\ Live(stored) /\ Live(opening) /\ Live(loaded))'
    BY <1>2, <2>1, <2>2 DEF TInv, Opened, Live
  <2>6. \A s \in Sessions : server'[s].state = "absent" => server'[s].gen = 0 /\ s \notin left'
    BY <2>2 DEF ServerMoves, TInv, Opened
  <2> QED BY <2>2, <2>4, <2>5, <2>6 DEF Opened
<1>4. TypeOK'
  <2>1. held' => renewing' # None /\ current' = renewal'[renewing'].tok
    BY Typing DEF TInv, AnswersMove, memory
  <2> QED BY <2>1 DEF TInv, TypeOK, ServerMoves, AnswersMove, SessionRow, RenewalRow, CallRow,
             memory, screen, disk
<1> QED BY <1>1, <1>3, <1>4 DEF TInv

\* A session answered or revoked: one row of the server, one renewal.
LEMMA RenewalSteps ==
  ASSUME TInv, NEW r \in Renewals,
         \/ LoadRefused(r) \/ LoadReused(r) \/ Load(r) \/ Consume(r) \/ ConsumeLost(r)
  PROVE  ServerMoves /\ AnswersMove
<1> DEFINE t == renewal[r].tok
<1>1. /\ renewal[r] \in RenewalRow /\ server \in [Sessions -> SessionRow]
      /\ renewal \in [Renewals -> RenewalRow]
  BY Typing DEF TInv
<1>2. renewal[r].state \in {"sent", "loaded"}
  BY DEF LoadRefused, LoadReused, Load, Consume, ConsumeLost
<1>3. t \in Kept /\ t # None /\ t.sid \in Sessions /\ t.gen \in 0 .. MaxGen
  BY <1>1, <1>2, TokenFacts DEF TInv, Presented, RenewalRow
<1>4. \A s \in Sessions : server[s].gen \in 0 .. MaxGen /\ server[s].gen \in Int
  BY <1>1, BoundsAssumption DEF SessionRow
<1>5. ASSUME NEW row \in SessionRow, server' = [server EXCEPT ![t.sid] = row],
             row.gen >= server[t.sid].gen, row.state = "absent" <=> server[t.sid].state = "absent",
             server[t.sid].state = "absent" => row = server[t.sid]
      PROVE  ServerMoves
  BY <1>1, <1>3, <1>4, <1>5 DEF ServerMoves
<1>6. ASSUME server' = server PROVE ServerMoves
  BY <1>1, <1>4, <1>6 DEF ServerMoves
<1>7. ASSUME NEW st \in {"loaded", "refused"}, Answer(r, st) PROVE AnswersMove
  <2>1. [renewal[r] EXCEPT !.state = st] \in RenewalRow
    BY <1>1 DEF RenewalRow
  <2>2. renewal' = [renewal EXCEPT ![r] = [renewal[r] EXCEPT !.state = st]]
    BY <1>1, <1>7 DEF Answer
  <2>3. [renewal[r] EXCEPT !.state = st].tok = t /\ [renewal[r] EXCEPT !.state = st].state = st
    BY <1>1 DEF RenewalRow
  <2> QED BY <1>1, <1>2, <2>1, <2>2, <2>3 DEF AnswersMove
<1>8. CASE LoadRefused(r) \/ Load(r)
  BY <1>6, <1>7, <1>8 DEF LoadRefused, Load
<1>9. CASE LoadReused(r) \/ ConsumeLost(r)
  <2> DEFINE row == Revoked(server[t.sid], "refresh_reuse")
  <2>1. server' = [server EXCEPT ![t.sid] = row] /\ Answer(r, "refused")
    BY <1>9 DEF LoadReused, ConsumeLost
  <2>2. /\ server[t.sid] \in SessionRow /\ row \in SessionRow /\ row.gen = server[t.sid].gen
        /\ row.state = "absent" <=> server[t.sid].state = "absent"
        /\ server[t.sid].state # "active" => row = server[t.sid]
    BY <1>1, <1>3, RevokedFacts
  <2>3. row.gen >= server[t.sid].gen
    BY <1>3, <1>4, <2>2
  <2> HIDE DEF row, t
  <2> QED BY <1>5, <1>7, <2>1, <2>2, <2>3
<1>10. CASE Consume(r)
  <2> DEFINE row == [server[t.sid] EXCEPT !.gen = @ + 1]
  <2>1. /\ server' = [server EXCEPT ![t.sid] = row] /\ Answer(r, "granted")
        /\ server[t.sid].gen = t.gen /\ server[t.sid].state = "active" /\ t.gen < MaxGen
    BY <1>1, <1>10 DEF Consume, Consumes
  <2>2. row \in SessionRow /\ row.gen = t.gen + 1 /\ row.state = "active"
    BY <1>1, <1>3, <2>1, BoundsAssumption DEF SessionRow
  <2>a. row.gen >= server[t.sid].gen
    BY <1>3, <2>1, <2>2, BoundsAssumption
  <2>b. server'[t.sid] = row
    BY <1>1, <1>3, <2>1
  <2>4. server'[t.sid].gen > t.gen
    BY <1>3, <2>2, <2>b, BoundsAssumption
  <2>3. ServerMoves
    <3> HIDE DEF row, t
    <3> QED BY <1>5, <2>1, <2>2, <2>a
  <2>5. /\ [renewal[r] EXCEPT !.state = "granted"] \in RenewalRow
        /\ [renewal[r] EXCEPT !.state = "granted"].tok = t
    BY <1>1 DEF RenewalRow
  <2>6. renewal' = [renewal EXCEPT ![r] = [renewal[r] EXCEPT !.state = "granted"]]
    BY <1>1, <2>1 DEF Answer
  <2>7. AnswersMove
    BY <1>1, <1>2, <2>4, <2>5, <2>6 DEF AnswersMove, RenewalRow
  <2> QED BY <2>3, <2>7
<1> QED BY <1>8, <1>9, <1>10


\* A revocation of all the sessions, or the logout of one.
LEMMA RevocationSteps ==
  ASSUME TInv, RevokeUserSessions \/ \E c \in Calls : Serve(c)
  PROVE  /\ ServerMoves /\ AnswersMove
         /\ call' \in [Calls -> CallRow] /\ expired' \subseteq Tokens
         /\ UNCHANGED <<renewal, expired, memory, screen, disk, crashes, left, missed>>
         /\ call'[Logout].pc = "idle" => call[Logout].pc = "idle"
         /\ call[Profile].pc = "idle" => call'[Profile].pc = "idle"
         /\ \A s \in Sessions :
              server'[s].gen = server[s].gen
              /\ (server'[s].reason = "refresh_reuse" => server[s].reason = "refresh_reuse")
<1>1. /\ server \in [Sessions -> SessionRow] /\ renewal \in [Renewals -> RenewalRow]
      /\ call \in [Calls -> CallRow] /\ Logout \in Calls /\ Profile \in Calls
  BY Typing DEF TInv, Calls
<1>2. \A s \in Sessions : server[s].gen \in Int
  BY <1>1, BoundsAssumption DEF SessionRow
<1>3. UNCHANGED <<renewal, expired, memory, screen, disk, crashes, left, missed>>
  BY DEF RevokeUserSessions, Serve
<1>4. AnswersMove
  BY <1>1, <1>3 DEF AnswersMove
<1>5. /\ call' \in [Calls -> CallRow]
      /\ call'[Logout].pc = "idle" => call[Logout].pc = "idle"
      /\ call[Profile].pc = "idle" => call'[Profile].pc = "idle"
  <2>1. CASE RevokeUserSessions
    BY <1>1, <2>1 DEF RevokeUserSessions
  <2>2. ASSUME NEW c \in Calls, Serve(c) PROVE <1>5!:
    <3> DEFINE x(p) == [call[c] EXCEPT !.pc = p]
    <3>1. \A p \in {"accepted", "forbidden", "denied"} : x(p) \in CallRow /\ x(p).pc = p
      BY <1>1 DEF CallRow
    <3>2. \E p \in {"accepted", "forbidden", "denied"} : call' = [call EXCEPT ![c] = x(p)]
      BY <1>1, <2>2 DEF Serve, Answers
    <3>3. call[c].pc = "sent"
      BY <2>2 DEF Serve
    <3> HIDE DEF x
    <3> QED BY <1>1, <3>1, <3>2, <3>3
  <2> QED BY <2>1, <2>2
<1>6. \A s \in Sessions :
        \/ server'[s] = server[s]
        \/ \E why \in {"account", "logout"} : server'[s] = Revoked(server[s], why)
  <2>1. CASE RevokeUserSessions
    BY <2>1 DEF RevokeUserSessions
  <2>2. ASSUME NEW c \in Calls, Serve(c) PROVE <1>6!:
    <3>1. \/ server' = server
          \/ server' = [server EXCEPT ![call[c].tok.sid] = Revoked(@, "logout")]
      BY <2>2 DEF Serve
    <3> QED BY <1>1, <3>1
  <2> QED BY <2>1, <2>2
<1>7. server' = [s \in Sessions |-> server'[s]]
  <2>1. CASE RevokeUserSessions
    BY <2>1 DEF RevokeUserSessions
  <2>2. ASSUME NEW c \in Calls, Serve(c) PROVE <1>7!:
    BY <1>1, <2>2 DEF Serve
  <2> QED BY <2>1, <2>2
<1>8. \A s \in Sessions :
        /\ server'[s] \in SessionRow /\ server'[s].gen = server[s].gen
        /\ server'[s].state = "absent" <=> server[s].state = "absent"
        /\ server[s].state = "absent" => server'[s] = server[s]
        /\ server'[s].reason = "refresh_reuse" => server[s].reason = "refresh_reuse"
  BY <1>1, <1>6, RevokedFacts
<1>9. ServerMoves
  BY <1>2, <1>7, <1>8 DEF ServerMoves
<1>10. expired' \subseteq Tokens
  BY <1>3 DEF TInv, TypeOK
<1> QED BY <1>3, <1>4, <1>5, <1>8, <1>9, <1>10

\* What the device may do without the server: close or replace its session, finish or
\* give up a renewal, store, stop.
DeviceMoves ==
  /\ UNCHANGED net
  /\ current' \in Kept /\ stored' \in Kept /\ opening' \in Kept /\ writes' \in Seq(Kept)
  /\ loaded' \in Kept /\ Live(loaded)' /\ restoring' \in BOOLEAN
  /\ Live(current)' /\ Live(stored)' /\ Live(opening)'
  /\ \A i \in 1 .. Len(writes') : writes'[i] # None => server[writes'[i].sid].state # "absent"
  /\ renewing' \in Renewals \cup {None}
  /\ held' = FALSE \/ UNCHANGED <<current, renewing, held>>
  /\ call' \in [Calls -> CallRow]
  /\ ui' \in {"starting", "signedOut", "signedIn", "unavailable"}
  /\ crashes' \in 0 .. MaxCrashes /\ missed' \in BOOLEAN
  /\ left' \subseteq Sessions /\ \A s \in Sessions : server[s].state = "absent" => s \notin left'

LEMMA DeviceSide ==
  ASSUME TInv, DeviceMoves
  PROVE  TInv'
<1>1. UNCHANGED <<server, renewal, expired>>
  BY DEF DeviceMoves, net
<1>2. Presented'
  BY <1>1 DEF TInv, Presented, Live
<1>3. held' => renewing' # None /\ current' = renewal'[renewing'].tok
  BY <1>1, Typing DEF TInv, DeviceMoves
<1>4. TypeOK'
  <2>1. held' \in BOOLEAN
    BY Typing DEF TInv, DeviceMoves
  <2> QED BY <1>1, <1>3, <2>1 DEF TInv, TypeOK, DeviceMoves, CallRow
<1>5. Opened'
  BY <1>1 DEF TInv, Opened, DeviceMoves, Live
<1> QED BY <1>2, <1>4, <1>5 DEF TInv

\* What is appended to the writes, or taken from them.
LEMMA WritesGrow ==
  ASSUME TInv, NEW t \in Kept, Live(t), writes' = Append(writes, t)
  PROVE  /\ writes' \in Seq(Kept) /\ writes' # <<>> /\ writes'[Len(writes')] = t
         /\ \A i \in 1 .. Len(writes') : writes'[i] # None => server[writes'[i].sid].state # "absent"
<1>1. writes \in Seq(Kept) /\ \A i \in 1 .. Len(writes) : Live(writes[i])
  BY Typing DEF TInv, Opened
<1>2. \A i \in 1 .. Len(writes') : writes'[i] = t \/ \E j \in 1 .. Len(writes) : writes'[i] = writes[j]
  BY <1>1, AppendFacts
<1> QED BY <1>1, <1>2, AppendFacts DEF Live

LEMMA WritesStay ==
  ASSUME TInv, UNCHANGED <<server, writes>>
  PROVE  /\ writes' \in Seq(Kept)
         /\ \A i \in 1 .. Len(writes') : writes'[i] # None => server[writes'[i].sid].state # "absent"
BY Typing DEF TInv, Opened, Live

\* What the storage will hold.
LEMMA LastStoredFacts ==
  ASSUME TInv
  PROVE  LastStored \in Kept /\ Live(LastStored)
<1>1. /\ stored \in Kept /\ writes \in Seq(Kept) /\ Live(stored)
      /\ \A i \in 1 .. Len(writes) : Live(writes[i])
  BY Typing DEF TInv, Opened
<1>2. writes # <<>> => Len(writes) \in 1 .. Len(writes) /\ writes[Len(writes)] \in Kept
  BY <1>1
<1> QED BY <1>1, <1>2 DEF LastStored

LEMMA FlushKeepsLast ==
  ASSUME TInv, Flush
  PROVE  LastStored' = LastStored
<1>1. /\ writes # <<>> /\ stored' = Head(writes) /\ writes' = Tail(writes)
      /\ writes \in Seq(Kept)
  BY Typing DEF Flush, TInv
<1>2. /\ writes' = <<>> => stored' = writes[Len(writes)]
      /\ writes' # <<>> => writes'[Len(writes')] = writes[Len(writes)]
  BY <1>1, TailFacts
<1> QED BY <1>1, <1>2 DEF LastStored

LEMMA ClosingFacts ==
  ASSUME TInv, UNCHANGED server, CloseSession
  PROVE  /\ current' = None /\ held' = FALSE /\ ui' = "signedOut" /\ current' \in Kept
         /\ writes' \in Seq(Kept) /\ writes' # <<>> /\ writes'[Len(writes')] = None
         /\ \A i \in 1 .. Len(writes') : writes'[i] # None => server[writes'[i].sid].state # "absent"
<1>1. None \in Kept /\ Live(None)
  BY DEF Kept, Live
<1> QED BY <1>1, WritesGrow DEF CloseSession, SetSession


LEMMA RenewedFacts ==
  ASSUME TInv, Renewed
  PROVE  /\ renewing \in Renewals /\ renewal[renewing].state = "granted" /\ held
         /\ current \in Tokens /\ current = renewal[renewing].tok
         /\ current' \in Tokens
         /\ current'.sid = current.sid /\ current'.gen = current.gen + 1
         /\ Live(current') /\ writes' = Append(writes, current')
         /\ renewing' = None /\ held' = FALSE
         /\ Settle("sent", current')
         /\ UNCHANGED <<net, screen, stored, crashes, left>> /\ missed' \in BOOLEAN
<1> DEFINE t == renewal[renewing].tok
           next == [t EXCEPT !.gen = @ + 1]
<1>1. /\ renewing \in Renewals /\ renewal[renewing].state = "granted" /\ held
      /\ current' = next /\ writes' = Append(writes, next) /\ Settle("sent", next)
      /\ renewing' = None /\ held' = FALSE
      /\ UNCHANGED <<net, screen, stored, crashes, left>> /\ missed' \in BOOLEAN
  BY Typing DEF Renewed, StillHeld, TInv, TypeOK
<1>2. renewal[renewing] \in RenewalRow /\ current = t
  BY <1>1, Typing DEF TInv
<1>3. t # None /\ Live(t) /\ server[t.sid].gen > t.gen
  BY <1>1 DEF TInv, Presented
<1>4. t \in Tokens /\ t.sid \in Sessions /\ t.gen \in 0 .. MaxGen
  BY <1>2, <1>3, TokenFacts DEF RenewalRow
<1>5. server[t.sid].gen \in 0 .. MaxGen
  BY <1>4, Typing DEF TInv, SessionRow
<1>6. next \in Tokens /\ next.sid = t.sid /\ next.gen = t.gen + 1
  BY <1>3, <1>4, <1>5, BoundsAssumption DEF Tokens
<1>7. Live(next)
  BY <1>3, <1>4, <1>6 DEF Live
<1>8. current' = next /\ next \in Tokens /\ next.sid = current.sid /\ next.gen = current.gen + 1
  BY <1>1, <1>2, <1>6
<1>9. current \in Tokens /\ current = renewal[renewing].tok
  BY <1>2, <1>4
<1> HIDE DEF next, t
<1>10. current' \in Tokens /\ current'.sid = current.sid /\ current'.gen = current.gen + 1
  BY <1>8
<1>11. Live(current') /\ writes' = Append(writes, current') /\ Settle("sent", current')
  BY <1>1, <1>7, <1>8
<1> QED BY <1>1, <1>9, <1>10, <1>11

LEMMA DoneFacts ==
  ASSUME TypeOK, NEW c \in Calls, call' = [call EXCEPT ![c] = NoCall]
  PROVE  call' \in [Calls -> CallRow]
<1>1. NoCall \in CallRow
  BY DEF NoCall, CallRow, Kept
<1> QED BY <1>1, Typing

\* The device's other steps, but for the start of a renewal and the login.
RenewalEnds == Renewed \/ NotRenewed \/ RenewalFails
Closes == LogoutDone \/ SignOutLocally \/ \E c \in Calls : Rejected(c)
Opens == ProfileDone \/ Retry \/ Restore
Stores == Flush \/ Crash

LEMMA RenewalEndMoves ==
  ASSUME TInv, RenewalEnds
  PROVE  /\ DeviceMoves
         /\ call'[Logout].pc = "idle" => call[Logout].pc = "idle"
         /\ call[Profile].pc = "idle" => call'[Profile].pc = "idle"
<1>1. /\ current \in Kept /\ stored \in Kept /\ opening \in Kept /\ crashes \in 0 .. MaxCrashes
      /\ loaded \in Kept /\ restoring \in BOOLEAN
      /\ ui \in {"starting", "signedOut", "signedIn", "unavailable"} /\ missed \in BOOLEAN
      /\ left \subseteq Sessions /\ None \in Kept
  BY DEF TInv, TypeOK, Kept
<1>2. /\ Live(current) /\ Live(stored) /\ Live(opening) /\ Live(loaded)
      /\ \A s \in Sessions : server[s].state = "absent" => s \notin left
  BY DEF TInv, Opened
<1>3. CASE Renewed
  <2>1. /\ current' \in Kept /\ Live(current')
        /\ UNCHANGED <<net, screen, stored, crashes, left>> /\ missed' \in BOOLEAN
    BY <1>3, RenewedFacts DEF Kept
  <2>2. /\ writes' \in Seq(Kept)
        /\ \A i \in 1 .. Len(writes') : writes'[i] # None => server[writes'[i].sid].state # "absent"
    BY <1>3, <2>1, RenewedFacts, WritesGrow
  <2>3. /\ call' \in [Calls -> CallRow]
        /\ call'[Logout].pc = "idle" => call[Logout].pc = "idle"
        /\ call[Profile].pc = "idle" => call'[Profile].pc = "idle"
    BY <1>3, <2>1, RenewedFacts, SettleFacts DEF TInv
  <2>4. renewing' = None /\ held' = FALSE
    BY <1>3, RenewedFacts
  <2> QED BY <1>1, <1>2, <2>1, <2>2, <2>3, <2>4 DEF DeviceMoves, net, screen, Live
<1>4. CASE NotRenewed \/ RenewalFails
  <2>1. /\ UNCHANGED <<net, current, screen, disk, crashes, left>> /\ renewing' = None /\ held' = FALSE
        /\ missed' \in BOOLEAN
    BY <1>1, <1>4 DEF NotRenewed, RenewalFails
  <2>2. /\ call' \in [Calls -> CallRow]
        /\ call'[Logout].pc = "idle" => call[Logout].pc = "idle"
        /\ call[Profile].pc = "idle" => call'[Profile].pc = "idle"
    BY <1>1, <1>4, SettleFacts DEF NotRenewed, RenewalFails, TInv
  <2>3. /\ writes' \in Seq(Kept)
        /\ \A i \in 1 .. Len(writes') : writes'[i] # None => server[writes'[i].sid].state # "absent"
    BY <2>1, WritesStay DEF net, disk
  <2> QED BY <1>1, <1>2, <2>1, <2>2, <2>3 DEF DeviceMoves, net, screen, disk, Live
<1> QED BY <1>3, <1>4 DEF RenewalEnds

LEMMA CloseMoves ==
  ASSUME TInv, Closes
  PROVE  /\ DeviceMoves /\ UNCHANGED <<renewing, left, missed>>
         /\ current' = None /\ held' = FALSE /\ ui' = "signedOut"
         /\ opening' = opening \/ opening' = None
         /\ UNCHANGED <<restoring, loaded>>
         /\ call[Profile].pc = "idle" => call'[Profile].pc = "idle"
         /\ writes' # <<>> /\ writes'[Len(writes')] = None
<1>1. /\ stored \in Kept /\ opening \in Kept /\ crashes \in 0 .. MaxCrashes
      /\ loaded \in Kept /\ restoring \in BOOLEAN
      /\ renewing \in Renewals \cup {None} /\ missed \in BOOLEAN
      /\ left \subseteq Sessions /\ None \in Kept /\ call \in [Calls -> CallRow]
  BY DEF TInv, TypeOK, Kept, CallRow
<1>2. /\ Live(stored) /\ Live(opening) /\ Live(loaded) /\ Live(None)
      /\ \A s \in Sessions : server[s].state = "absent" => s \notin left
  BY DEF TInv, Opened, Live
<1>3. /\ CloseSession
      /\ UNCHANGED <<net, renewing, restoring, loaded, stored, crashes, left, missed>>
      /\ opening' = opening \/ opening' = None
  BY DEF Closes, LogoutDone, SignOutLocally, Rejected
<1>4. UNCHANGED server
  BY <1>3 DEF net
<1>5. \/ UNCHANGED call
      \/ \E c \in Calls : call' = [call EXCEPT ![c] = NoCall]
  BY DEF Closes, LogoutDone, SignOutLocally, Rejected, Done, Calls
<1>6. call' \in [Calls -> CallRow]
  BY <1>1, <1>5, DoneFacts DEF TInv
<1>a. call[Profile].pc = "idle" => call'[Profile].pc = "idle"
  BY <1>1, <1>5 DEF NoCall, Calls
<1>7. opening' \in Kept /\ Live(opening)' /\ loaded' \in Kept /\ Live(loaded)'
  BY <1>1, <1>2, <1>3, <1>4 DEF Live
<1> QED BY <1>1, <1>2, <1>3, <1>4, <1>6, <1>7, <1>a, ClosingFacts DEF DeviceMoves, Live


LEMMA OpenMoves ==
  ASSUME TInv, Opens
  PROVE  /\ DeviceMoves /\ UNCHANGED left
         /\ call'[Logout].pc = "idle" => call[Logout].pc = "idle"
<1>1. /\ current \in Kept /\ stored \in Kept /\ opening \in Kept /\ writes \in Seq(Kept)
      /\ loaded \in Kept /\ restoring \in BOOLEAN
      /\ renewing \in Renewals \cup {None} /\ held \in BOOLEAN /\ crashes \in 0 .. MaxCrashes
      /\ missed \in BOOLEAN /\ left \subseteq Sessions /\ None \in Kept
      /\ call \in [Calls -> CallRow] /\ Profile \in Calls /\ Logout \in Calls /\ Profile # Logout
  BY NamesAssumption DEF TInv, TypeOK, Kept, Calls, CallRow
<1>2. /\ Live(current) /\ Live(stored) /\ Live(opening) /\ Live(loaded) /\ Live(None)
      /\ \A s \in Sessions : server[s].state = "absent" => s \notin left
  BY DEF TInv, Opened, Live
<1>3. CASE ProfileDone
  <2>1. /\ UNCHANGED <<net, memory, restoring, loaded, stored, crashes, left, missed>>
        /\ opening' = None
        /\ ui' \in {"signedIn", "unavailable"} /\ call' = [call EXCEPT ![Profile] = NoCall]
        /\ writes' = Append(writes, opening) \/ writes' = writes
    BY <1>3 DEF ProfileDone, Done
  <2>2. /\ writes' \in Seq(Kept)
        /\ \A i \in 1 .. Len(writes') : writes'[i] # None => server[writes'[i].sid].state # "absent"
    <3>1. CASE writes' = Append(writes, opening)
      BY <1>1, <1>2, <3>1, WritesGrow
    <3>2. CASE writes' = writes
      BY <2>1, <3>2, WritesStay DEF net
    <3> QED BY <2>1, <3>1, <3>2
  <2>a. call' \in [Calls -> CallRow]
    BY <1>1, <2>1, DoneFacts DEF TInv
  <2>b. call'[Logout] = call[Logout]
    BY <1>1, <2>1
  <2>3. call' \in [Calls -> CallRow] /\ (call'[Logout].pc = "idle" => call[Logout].pc = "idle")
    BY <2>a, <2>b
  <2> QED BY <1>1, <1>2, <2>1, <2>2, <2>3 DEF DeviceMoves, net, memory, Live
<1>4. CASE Retry
  <2>1. /\ UNCHANGED <<net, memory, call, opening, disk, crashes, left, missed>> /\ ui' = "starting"
        /\ restoring' = TRUE /\ loaded' = LastStored
    BY <1>4 DEF Retry
  <2>2. /\ writes' \in Seq(Kept)
        /\ \A i \in 1 .. Len(writes') : writes'[i] # None => server[writes'[i].sid].state # "absent"
    BY <2>1, WritesStay DEF net, disk
  <2>3. loaded' \in Kept /\ Live(loaded)'
    BY <2>1, LastStoredFacts DEF net, Live
  <2> QED BY <1>1, <1>2, <2>1, <2>2, <2>3 DEF DeviceMoves, net, memory, disk, Live
<1>5. CASE Restore
  <2>1. /\ current' = loaded /\ held' = FALSE /\ restoring' = FALSE /\ loaded' = None
        /\ UNCHANGED <<net, renewing, opening, disk, crashes, left>>
        /\ ui' \in {ui, "signedOut"} /\ missed' \in BOOLEAN
    BY <1>1, <1>5 DEF Restore, SetSession
  <2>2. ui' \in {"starting", "signedOut", "signedIn", "unavailable"}
    BY <2>1 DEF TInv, TypeOK
  <2>3. /\ writes' \in Seq(Kept)
        /\ \A i \in 1 .. Len(writes') : writes'[i] # None => server[writes'[i].sid].state # "absent"
    BY <2>1, WritesStay DEF net, disk
  <2>4. /\ [call[Profile] EXCEPT !.pc = "new"] \in CallRow
        /\ call' = call \/ call' = [call EXCEPT ![Profile] = [call[Profile] EXCEPT !.pc = "new"]]
    BY <1>1, <1>5 DEF Restore, CallRow
  <2>a. call' \in [Calls -> CallRow]
    BY <1>1, <2>4
  <2>b. call'[Logout] = call[Logout]
    BY <1>1, <2>4
  <2>5. call' \in [Calls -> CallRow] /\ (call'[Logout].pc = "idle" => call[Logout].pc = "idle")
    BY <2>a, <2>b
  <2>6. Live(current)' /\ Live(stored)' /\ Live(opening)' /\ Live(loaded)'
    BY <1>2, <2>1 DEF net, disk, Live
  <2> QED BY <1>1, <1>2, <2>1, <2>2, <2>3, <2>5, <2>6 DEF DeviceMoves, net, disk
<1> QED BY <1>3, <1>4, <1>5 DEF Opens

LEMMA StoreMoves ==
  ASSUME TInv, Stores
  PROVE  DeviceMoves
<1>1. /\ current \in Kept /\ stored \in Kept /\ opening \in Kept /\ writes \in Seq(Kept)
      /\ loaded \in Kept /\ restoring \in BOOLEAN
      /\ renewing \in Renewals \cup {None} /\ held \in BOOLEAN /\ crashes \in 0 .. MaxCrashes
      /\ ui \in {"starting", "signedOut", "signedIn", "unavailable"}
      /\ missed \in BOOLEAN /\ left \subseteq Sessions /\ None \in Kept
      /\ call \in [Calls -> CallRow]
  BY DEF TInv, TypeOK, Kept, CallRow
<1>2. /\ Live(current) /\ Live(stored) /\ Live(opening) /\ Live(loaded) /\ Live(None)
      /\ \A s \in Sessions : server[s].state = "absent" => s \notin left
      /\ \A i \in 1 .. Len(writes) : Live(writes[i])
  BY DEF TInv, Opened, Live
<1>3. CASE Flush
  <2>1. /\ UNCHANGED <<net, memory, call, screen, crashes, left, missed>>
        /\ writes # <<>> /\ stored' = Head(writes) /\ writes' = Tail(writes)
    BY <1>3 DEF Flush
  <2>2. stored' \in Kept /\ writes' \in Seq(Kept) /\ Live(stored)'
    BY <1>1, <1>2, <2>1, TailFacts DEF net, Live
  <2>3. \A i \in 1 .. Len(writes') : writes'[i] # None => server[writes'[i].sid].state # "absent"
    BY <1>1, <1>2, <2>1, TailFacts DEF Live
  <2> QED BY <1>1, <1>2, <2>1, <2>2, <2>3 DEF DeviceMoves, net, memory, screen, Live
<1>4. CASE Crash
  <2>1. /\ current' = None /\ held' = FALSE /\ renewing' = None
        /\ call' = [c \in Calls |-> NoCall] /\ ui' = "starting" /\ opening' = None
        /\ restoring' = TRUE /\ loaded' = stored
        /\ writes' = <<>> /\ crashes < MaxCrashes /\ crashes' = crashes + 1 /\ left' = {}
        /\ missed' \in BOOLEAN /\ UNCHANGED <<net, stored>>
    BY <1>1, <1>4 DEF Crash, SetSession
  <2>2. crashes' \in 0 .. MaxCrashes
    BY <1>1, <2>1, BoundsAssumption
  <2>3. NoCall \in CallRow
    BY DEF NoCall, CallRow, Kept
  <2>4. writes' \in Seq(Kept) /\ 1 .. Len(writes') = {}
    BY <2>1
  <2>5. Live(current)' /\ Live(stored)' /\ Live(opening)' /\ Live(loaded)'
    BY <1>2, <2>1 DEF net, Live
  <2> QED BY <1>1, <2>1, <2>2, <2>3, <2>4, <2>5 DEF DeviceMoves
<1> QED BY <1>3, <1>4 DEF Stores


LEMMA StartFacts ==
  ASSUME TInv, NEW c \in Calls, NEW r \in Renewals, StartRenewal(c, r)
  PROVE  /\ current \in Tokens /\ current # None /\ renewing = None /\ held = FALSE
         /\ renewal[r].state = "new"
         /\ renewal' = [renewal EXCEPT ![r] = [state |-> "sent", tok |-> current]]
         /\ renewing' = r /\ held' = TRUE
         /\ call' \in [Calls -> CallRow]
         /\ call'[Logout].pc = "idle" => call[Logout].pc = "idle"
         /\ call[Profile].pc = "idle" => call'[Profile].pc = "idle"
         /\ UNCHANGED <<server, expired, current, screen, disk, crashes, left, missed>>
<1>1. /\ call[c].pc # "idle" /\ current # None /\ renewing = None /\ renewal[r].state = "new"
      /\ renewal' = [renewal EXCEPT ![r] = [state |-> "sent", tok |-> current]]
      /\ renewing' = r /\ held' = TRUE /\ Wait(c)
      /\ UNCHANGED <<server, expired, current, screen, disk, crashes, left, missed>>
  BY DEF StartRenewal, WantsRenewal, Busy
<1>2. /\ current \in Tokens /\ held = FALSE /\ call \in [Calls -> CallRow]
      /\ Logout \in Calls /\ Profile \in Calls
  BY <1>1, Typing, TokenFacts DEF TInv, Calls
<1> DEFINE x == [call[c] EXCEPT !.pc = "waiting", !.retried = (call[c].pc = "denied")]
<1>3. call' = [call EXCEPT ![c] = x]
  BY <1>1, <1>2 DEF Wait
<1>4. x \in CallRow /\ x.pc = "waiting"
  BY <1>2 DEF CallRow
<1> HIDE DEF x
<1>5. /\ call' \in [Calls -> CallRow]
      /\ call'[Logout].pc = "idle" => call[Logout].pc = "idle"
      /\ call[Profile].pc = "idle" => call'[Profile].pc = "idle"
  BY <1>1, <1>2, <1>3, <1>4
<1> QED BY <1>1, <1>2, <1>5

LEMMA StartKeepsTInv ==
  ASSUME TInv, NEW c \in Calls, NEW r \in Renewals, StartRenewal(c, r)
  PROVE  TInv'
<1> DEFINE x == [state |-> "sent", tok |-> current]
<1>1. renewal \in [Renewals -> RenewalRow] /\ x \in RenewalRow
  BY StartFacts, Typing DEF TInv, RenewalRow, Kept
<1>2. /\ renewal' = [renewal EXCEPT ![r] = x]
      /\ x.state = "sent" /\ x.tok = current
  BY StartFacts
<1> HIDE DEF x
<1>3. renewal' \in [Renewals -> RenewalRow] /\ renewal'[r].tok = current
  BY <1>1, <1>2
<1>4. TypeOK'
  <2>1. /\ renewing' = r /\ r # None /\ current' = current /\ held' = TRUE
        /\ UNCHANGED <<server, expired, stored, opening, restoring, loaded, ui, writes, crashes, left, missed>>
        /\ call' \in [Calls -> CallRow]
    BY StartFacts, NamesAssumption DEF screen, disk
  <2>2. held' => renewing' # None /\ current' = renewal'[renewing'].tok
    BY <1>3, <2>1
  <2> QED BY <1>3, <2>1, <2>2 DEF TInv, TypeOK, RenewalRow, CallRow
<1>5. Opened'
  BY StartFacts DEF TInv, Opened, Live, screen, disk
<1>6. Presented'
  <2>1. \A q \in Renewals : q # r => renewal'[q] = renewal[q]
    BY <1>1, <1>2
  <2>2. renewal'[r] = x /\ current # None /\ Live(current) /\ UNCHANGED server
    BY <1>1, <1>2, StartFacts DEF TInv, Opened
  <2> QED BY <1>2, <2>1, <2>2 DEF TInv, Presented, Live
<1> QED BY <1>4, <1>5, <1>6 DEF TInv

LEMMA SignInFacts ==
  ASSUME TInv, NEW s \in Sessions, SignIn(s)
  PROVE  /\ server[s].state = "absent" /\ server[s].gen = 0 /\ s \notin left
         /\ server'[s].state = "active" /\ server'[s].gen = 0 /\ server'[s].reason = server[s].reason
         /\ \A q \in Sessions \ {s} : server'[q] = server[q]
         /\ server' \in [Sessions -> SessionRow]
         /\ current' = [sid |-> s, gen |-> 0] /\ opening' = current' /\ held' = FALSE
         /\ current' \in Tokens
         /\ call' \in [Calls -> CallRow] /\ call'[Logout] = call[Logout]
         /\ ui = "signedOut"
         /\ UNCHANGED <<renewal, expired, renewing, ui, restoring, loaded, disk, crashes, left, missed>>
<1>1. /\ server[s].state = "absent" /\ ui = "signedOut"
      /\ server' = [server EXCEPT ![s].state = "active"]
      /\ current' = [sid |-> s, gen |-> 0] /\ opening' = current' /\ held' = FALSE
      /\ call' = [call EXCEPT ![Profile].pc = "new"]
      /\ UNCHANGED <<renewal, expired, renewing, ui, restoring, loaded, disk, crashes, left, missed>>
  BY DEF SignIn, SetSession
<1>2. server[s].gen = 0 /\ s \notin left
  BY <1>1 DEF TInv, Opened
<1>3. server \in [Sessions -> SessionRow] /\ call \in [Calls -> CallRow]
  BY Typing DEF TInv
<1>4. /\ server' \in [Sessions -> SessionRow] /\ server'[s].state = "active"
      /\ server'[s].gen = server[s].gen /\ server'[s].reason = server[s].reason
      /\ \A q \in Sessions \ {s} : server'[q] = server[q]
  BY <1>1, <1>3 DEF SessionRow
<1>5. Profile \in Calls /\ Logout \in Calls /\ Profile # Logout
  BY NamesAssumption DEF Calls
<1>6. call' \in [Calls -> CallRow]
  BY <1>1, <1>3, <1>5 DEF CallRow
<1>7. call'[Logout] = call[Logout]
  BY <1>1, <1>3, <1>5
<1>8. current' \in Tokens
  BY <1>1, BoundsAssumption DEF Tokens
<1> QED BY <1>1, <1>2, <1>4, <1>6, <1>7, <1>8

LEMMA SignInKeepsTInv ==
  ASSUME TInv, NEW s \in Sessions, SignIn(s)
  PROVE  TInv'
<1>1. \A q \in Sessions : server[q].state # "absent" => server'[q] = server[q]
  BY SignInFacts
<1>2. \A t \in Kept : Live(t) => Live(t)'
  BY <1>1, TokenFacts DEF Live
<1>3. current' \in Kept /\ opening' \in Kept
  BY SignInFacts DEF Kept
<1>4. TypeOK'
  BY <1>3, SignInFacts DEF TInv, TypeOK, SessionRow, CallRow, disk
<1>5. Opened'
  <2>a. /\ current' = [sid |-> s, gen |-> 0] /\ opening' = current'
        /\ server'[s].state = "active"
    BY SignInFacts
  <2>1. current'.sid = s /\ opening'.sid = s /\ server'[s].state # "absent"
    BY <2>a
  <2>2. stored' = stored /\ loaded' = loaded /\ writes' = writes /\ left' = left
    BY SignInFacts DEF disk
  <2>3. stored \in Kept /\ loaded \in Kept /\ writes \in Seq(Kept)
    BY Typing DEF TInv
  <2>4. Live(stored)' /\ Live(loaded)' /\ \A i \in 1 .. Len(writes) : Live(writes[i])'
    <3>1. Live(stored)' /\ Live(loaded)'
      BY <1>2, <2>2, <2>3 DEF TInv, Opened, Live
    <3>2. \A i \in 1 .. Len(writes) : Live(writes[i])'
      <4> SUFFICES ASSUME NEW i \in 1 .. Len(writes) PROVE Live(writes[i])'
        OBVIOUS
      <4>1. writes[i] \in Kept /\ Live(writes[i])
        BY <2>3 DEF TInv, Opened
      <4> QED BY <1>2, <2>2, <4>1 DEF Live
    <3> QED BY <3>1, <3>2
  <2>5. \A q \in Sessions : server'[q].state = "absent" => server'[q].gen = 0 /\ q \notin left'
    BY <2>2, SignInFacts DEF TInv, Opened
  <2> QED BY <2>1, <2>2, <2>4, <2>5 DEF Opened, Live
<1>6. Presented'
  <2>1. UNCHANGED renewal
    BY SignInFacts
  <2>2. \A r \in Renewals : renewal[r].state # "new" =>
          renewal[r].tok # None /\ renewal[r].tok.sid \in Sessions
          /\ server[renewal[r].tok.sid].state # "absent"
    BY Typing, TokenFacts DEF TInv, Presented, Live, RenewalRow
  <2> QED BY <1>1, <2>1, <2>2 DEF TInv, Presented, Live
<1> QED BY <1>4, <1>5, <1>6 DEF TInv


\* The ways a step of the system comes about.
LEMMA StepKinds ==
  ASSUME [Next]_vars
  PROVE  \/ \E r \in Renewals :
              LoadRefused(r) \/ LoadReused(r) \/ Load(r) \/ Consume(r) \/ ConsumeLost(r)
         \/ RevokeUserSessions \/ \E c \in Calls : Serve(c)
         \/ \E t \in Tokens : AccessExpires(t)
         \/ \E c \in Calls : CallStep(c)
         \/ \E c \in Calls, r \in Renewals : StartRenewal(c, r)
         \/ RenewalEnds \/ Closes \/ Opens \/ Stores
         \/ \E s \in Sessions : SignIn(s)
         \/ SignOut
         \/ UNCHANGED vars
BY DEF Next, CallStep, RenewalEnds, Closes, Opens, Stores, Calls

LEMMA InitTInv == Init => TInv
<1> SUFFICES ASSUME Init PROVE TInv
  OBVIOUS
<1>1. TypeOK
  <2>1. /\ server \in [Sessions -> SessionRow] /\ renewal \in [Renewals -> RenewalRow]
        /\ call \in [Calls -> CallRow]
    BY BoundsAssumption DEF Init, SessionRow, RenewalRow, CallRow, NoCall, Kept
  <2>2. writes \in Seq(Kept) /\ crashes \in 0 .. MaxCrashes
    BY BoundsAssumption DEF Init
  <2> QED BY <2>1, <2>2 DEF Init, TypeOK, SessionRow, RenewalRow, CallRow, Kept
<1>2. Presented /\ Opened
  BY DEF Init, Presented, Opened, Live
<1> QED BY <1>1, <1>2 DEF TInv

LEMMA SignOutFacts ==
  ASSUME TInv, SignOut
  PROVE  /\ DeviceMoves
         /\ call'[Logout].pc # "idle" /\ ui = "signedIn"
         /\ UNCHANGED <<net, memory, screen, disk, crashes, missed>>
<1>1. /\ UNCHANGED <<net, memory, screen, disk, crashes, missed>> /\ ui = "signedIn"
      /\ current # None /\ left' = left \cup {current.sid}
      /\ call' = [call EXCEPT ![Logout].pc = "new"]
  BY DEF SignOut
<1>2. call \in [Calls -> CallRow] /\ Logout \in Calls
  BY Typing DEF TInv, Calls
<1>3. [call[Logout] EXCEPT !.pc = "new"] \in CallRow /\ [call[Logout] EXCEPT !.pc = "new"].pc = "new"
  BY <1>2 DEF CallRow
<1>4. call' \in [Calls -> CallRow] /\ call'[Logout].pc = "new"
  BY <1>1, <1>2, <1>3
<1>5. current.sid \in Sessions /\ server[current.sid].state # "absent"
  BY <1>1, Typing, TokenFacts DEF TInv, Opened, Live
<1>6. left' \subseteq Sessions /\ \A s \in Sessions : server[s].state = "absent" => s \notin left'
  BY <1>1, <1>5 DEF TInv, TypeOK, Opened
<1>7. /\ writes' \in Seq(Kept)
      /\ \A i \in 1 .. Len(writes') : writes'[i] # None => server[writes'[i].sid].state # "absent"
  BY <1>1, WritesStay DEF net, disk
<1>8. DeviceMoves
  BY <1>1, <1>4, <1>6, <1>7 DEF DeviceMoves, TInv, TypeOK, Opened, Live, net, memory, screen, disk
<1> QED BY <1>1, <1>4, <1>8

\* The steps that touch nothing this invariant is about.
LEMMA IdleKeepsTInv ==
  ASSUME TInv, \/ OnlyCalls
               \/ UNCHANGED vars
               \/ \E t \in Tokens : AccessExpires(t)
  PROVE  TInv'
<1>1. /\ UNCHANGED <<server, renewal, memory, screen, disk, crashes, left, missed>>
      /\ expired' \subseteq Tokens /\ call' \in [Calls -> CallRow]
  BY Typing DEF OnlyCalls, vars, AccessExpires, net, TInv, TypeOK
<1>2. \A s \in Sessions : server[s].gen \in Int
  BY Typing, BoundsAssumption DEF TInv, SessionRow
<1>3. ServerMoves /\ AnswersMove
  BY <1>1, <1>2, Typing DEF ServerMoves, AnswersMove, TInv
<1> QED BY <1>1, <1>3, ServerSide

LEMMA NextTInv ==
  ASSUME TInv, [Next]_vars
  PROVE  TInv'
<1>1. ASSUME NEW r \in Renewals,
             \/ LoadRefused(r) \/ LoadReused(r) \/ Load(r) \/ Consume(r) \/ ConsumeLost(r)
      PROVE  TInv'
  <2>1. /\ UNCHANGED <<expired, memory, call, screen, disk, crashes, left, missed>>
    BY <1>1 DEF LoadRefused, LoadReused, Load, Consume, ConsumeLost
  <2>2. call' \in [Calls -> CallRow] /\ expired' \subseteq Tokens
    BY <2>1, Typing DEF TInv, TypeOK
  <2>3. ServerMoves /\ AnswersMove
    BY <1>1, RenewalSteps
  <2> QED BY <2>1, <2>2, <2>3, ServerSide
<1>2. CASE RevokeUserSessions \/ \E c \in Calls : Serve(c)
  BY <1>2, RevocationSteps, ServerSide
<1>3. ASSUME NEW c \in Calls, CallStep(c) PROVE TInv'
  <2>1. TypeOK
    BY DEF TInv
  <2>2. OnlyCalls
    BY <1>3, <2>1, CallSteps
  <2> QED BY <2>2, IdleKeepsTInv
<1>4. CASE UNCHANGED vars \/ \E t \in Tokens : AccessExpires(t)
  BY <1>4, IdleKeepsTInv
<1>5. CASE RenewalEnds \/ Closes \/ Opens \/ Stores \/ SignOut
  <2>1. CASE RenewalEnds
    BY <2>1, RenewalEndMoves, DeviceSide
  <2>2. CASE Closes
    BY <2>2, CloseMoves, DeviceSide
  <2>3. CASE Opens
    BY <2>3, OpenMoves, DeviceSide
  <2>4. CASE Stores
    BY <2>4, StoreMoves, DeviceSide
  <2>5. CASE SignOut
    BY <2>5, SignOutFacts, DeviceSide
  <2> QED BY <1>5, <2>1, <2>2, <2>3, <2>4, <2>5
<1> QED BY <1>1, <1>2, <1>3, <1>4, <1>5, StartKeepsTInv, SignInKeepsTInv, StepKinds

LEMMA TInvHolds == Spec => []TInv
<1>1. TInv /\ [Next]_vars => TInv'
  BY NextTInv
<1> QED BY <1>1, InitTInv, PTL DEF Spec

\* Every state is typed: tokens name sessions that were opened, and a renewal's token has
\* room for the next one.
THEOREM TypeCorrect == Spec => []TypeOK
<1>1. TInv => TypeOK
  BY DEF TInv
<1> QED BY <1>1, TInvHolds, PTL

\* However many calls of POST /auth/refresh present one token together, one is granted.
THEOREM ConsumedOnceHolds == Spec => []ConsumedOnce
<1>1. Init => TInv /\ ConsumedOnce
  BY InitTInv DEF Init, ConsumedOnce
<1>2. ASSUME TInv, ConsumedOnce, [Next]_vars PROVE ConsumedOnce'
  <2>1. \A r \in Renewals :
          \/ renewal'[r] = renewal[r]
          \/ renewal'[r].state # "granted"
          \/ /\ \A q \in Renewals : q # r => renewal'[q] = renewal[q]
             /\ renewal'[r].tok = renewal[r].tok
             /\ server[renewal[r].tok.sid].gen = renewal[r].tok.gen
    <3>1. ASSUME NEW r \in Renewals,
                 \/ LoadRefused(r) \/ LoadReused(r) \/ Load(r) \/ ConsumeLost(r)
          PROVE <2>1!:
      <4>1. \E st \in {"loaded", "refused"} : renewal' = [renewal EXCEPT ![r].state = st]
        BY <3>1 DEF LoadRefused, LoadReused, Load, ConsumeLost, Answer
      <4> QED BY <4>1, Typing DEF TInv, RenewalRow
    <3>2. ASSUME NEW r \in Renewals, Consume(r) PROVE <2>1!:
      <4>1. /\ renewal' = [renewal EXCEPT ![r].state = "granted"]
            /\ server[renewal[r].tok.sid].gen = renewal[r].tok.gen
        BY <3>2 DEF Consume, Consumes, Answer
      <4> QED BY <4>1, Typing DEF TInv, RenewalRow
    <3>3. ASSUME NEW c \in Calls, NEW r \in Renewals, StartRenewal(c, r) PROVE <2>1!:
      <4>1. renewal' = [renewal EXCEPT ![r] = [state |-> "sent", tok |-> current]]
        BY <3>3 DEF StartRenewal
      <4> QED BY <4>1, Typing DEF TInv
    <3>4. ASSUME UNCHANGED renewal PROVE <2>1!:
      BY <3>4
    <3>5. ASSUME \/ RevokeUserSessions \/ \E c \in Calls : Serve(c)
                 \/ \E t \in Tokens : AccessExpires(t)
                 \/ \E s \in Sessions : SignIn(s)
                 \/ SignOut \/ UNCHANGED vars
          PROVE  UNCHANGED renewal
      BY <3>5 DEF RevokeUserSessions, Serve, AccessExpires, SignIn, SignOut, vars, net
    <3>6. ASSUME \/ \E c \in Calls : CallStep(c)
                 \/ RenewalEnds \/ Closes \/ Opens \/ Stores
          PROVE  UNCHANGED renewal
      <4>1. CASE \E c \in Calls : CallStep(c)
        BY <1>2, <4>1, CallSteps DEF OnlyCalls, net, TInv
      <4>2. CASE RenewalEnds
        BY <1>2, <4>2, RenewalEndMoves DEF DeviceMoves, net
      <4>3. CASE Closes
        BY <1>2, <4>3, CloseMoves DEF DeviceMoves, net
      <4>4. CASE Opens
        BY <1>2, <4>4, OpenMoves DEF DeviceMoves, net
      <4>5. CASE Stores
        BY <1>2, <4>5, StoreMoves DEF DeviceMoves, net
      <4> QED BY <3>6, <4>1, <4>2, <4>3, <4>4, <4>5
    <3> QED BY <1>2, <3>1, <3>2, <3>3, <3>4, <3>5, <3>6, StepKinds
  <2>2. \A p, q \in Renewals :
          /\ p # q /\ renewal'[p].state = "granted" /\ renewal'[q].state = "granted"
          /\ renewal'[q] = renewal[q] /\ renewal'[p] # renewal[p]
          => renewal'[p].tok # renewal'[q].tok
    <3> SUFFICES ASSUME NEW p \in Renewals, NEW q \in Renewals,
                        renewal'[p].state = "granted", renewal'[q].state = "granted",
                        renewal'[q] = renewal[q], renewal'[p] # renewal[p],
                        renewal'[p].tok = renewal'[q].tok
                 PROVE  FALSE
      OBVIOUS
    <3>1. /\ renewal'[p].tok = renewal[p].tok
          /\ server[renewal[p].tok.sid].gen = renewal[p].tok.gen
      BY <2>1
    <3>2. server[renewal[q].tok.sid].gen > renewal[q].tok.gen
      BY <1>2 DEF TInv, Presented
    <3>3. renewal[q].tok.gen \in Int
      <4>1. renewal[q] \in RenewalRow /\ renewal[q].tok # None
        BY <1>2, Typing DEF TInv, Presented
      <4> QED BY <4>1, TokenFacts, BoundsAssumption DEF RenewalRow
    <3> QED BY <3>1, <3>2, <3>3
  <2> QED BY <1>2, <2>1, <2>2 DEF ConsumedOnce
<1> QED BY <1>1, <1>2, NextTInv, PTL DEF Spec


-------------------------------------------------------------------------------
(* A device that has all the tokens it was granted.  The only renewal the      *)
(* server may still execute is the one in flight, for the current generation;  *)
(* the session in memory has that generation too, or the one before if the     *)
(* renewal has been granted and its answer is to be installed.                 *)

Outstanding(r) == renewal[r].state \in {"sent", "loaded"}
AnswerDue == held /\ renewal[renewing].state = "granted"

OneOutstanding ==
  \A r \in Renewals : Outstanding(r) =>
    r = renewing /\ server[renewal[r].tok.sid].gen = renewal[r].tok.gen
UpToDate ==
  current # None =>
    /\ AnswerDue => server[current.sid].gen = current.gen + 1
    /\ ~ AnswerDue => server[current.sid].gen = current.gen
OfAnotherSession ==
  renewing # None /\ Outstanding(renewing) /\ ~ held /\ current # None =>
    current.sid # renewal[renewing].tok.sid
NeverReused == \A s \in Sessions : server[s].reason # "refresh_reuse"

Fresh == OneOutstanding /\ UpToDate /\ OfAnotherSession /\ NeverReused

\* The tokens kept elsewhere, by a login, by a restore or in the storage, are the last
\* ones of their session, or those of the renewal in flight.
Due(t) == renewing # None /\ renewal[renewing].state = "granted" /\ renewal[renewing].tok = t
Good(t) == t # None => server[t.sid].gen = t.gen \/ Due(t)
AllGood == \A t \in {opening, loaded, LastStored} : Good(t)

FInv == ~ missed => Fresh /\ AllGood

LEMMA FreshStays ==
  ASSUME Fresh, UNCHANGED <<renewal, current, renewing, held>>,
         \A s \in Sessions : server'[s].gen = server[s].gen
           /\ (server'[s].reason = "refresh_reuse" => server[s].reason = "refresh_reuse"),
         TInv
  PROVE  Fresh'
<1>1. current # None => current.sid \in Sessions
  BY Typing, TokenFacts DEF TInv
<1>2. \A r \in Renewals : Outstanding(r) => renewal[r].tok.sid \in Sessions
  BY Typing, TokenFacts DEF TInv, Presented, Outstanding, RenewalRow
<1>3. OneOutstanding'
  BY <1>2 DEF Fresh, OneOutstanding, Outstanding
<1>4. UpToDate'
  BY <1>1 DEF Fresh, UpToDate, AnswerDue
<1>5. OfAnotherSession' /\ NeverReused'
  BY DEF Fresh, OfAnotherSession, NeverReused, Outstanding
<1> QED BY <1>3, <1>4, <1>5 DEF Fresh

LEMMA RenewalKeepsFresh ==
  ASSUME TInv, Fresh, NEW r \in Renewals,
         \/ LoadRefused(r) \/ LoadReused(r) \/ Load(r) \/ Consume(r) \/ ConsumeLost(r)
  PROVE  Fresh'
<1> DEFINE t == renewal[r].tok
<1>1. /\ renewal \in [Renewals -> RenewalRow] /\ server \in [Sessions -> SessionRow]
      /\ UNCHANGED <<current, renewing, held>>
  BY Typing DEF TInv, LoadRefused, LoadReused, Load, Consume, ConsumeLost, memory
<1>2. Outstanding(r) /\ r = renewing /\ server[t.sid].gen = t.gen
  BY DEF LoadRefused, LoadReused, Load, Consume, ConsumeLost, Outstanding, Fresh, OneOutstanding
<1>3. t \in Tokens /\ t.sid \in Sessions /\ t.gen \in Int
  BY <1>1, <1>2, TokenFacts, BoundsAssumption DEF TInv, Presented, Outstanding, RenewalRow
<1>4. held => current = t
  BY <1>2, Typing DEF TInv
<1>5. \A q \in Renewals : q # r => ~ Outstanding(q)
  BY <1>2 DEF Fresh, OneOutstanding
<1>6. ASSUME NEW st \in {"loaded", "refused"}, Answer(r, st), server' = server
      PROVE  Fresh'
  <2>1. /\ renewal' = [renewal EXCEPT ![r].state = st]
    BY <1>6 DEF Answer
  <2>2. /\ renewal'[r].tok = t /\ renewal'[r].state = st
        /\ \A q \in Renewals : q # r => renewal'[q] = renewal[q]
    BY <1>1, <2>1 DEF RenewalRow
  <2>3. OneOutstanding'
    BY <1>1, <1>2, <1>5, <1>6, <2>2 DEF OneOutstanding, Outstanding
  <2>4. ~ AnswerDue /\ ~ AnswerDue'
    BY <1>1, <1>2, <2>2 DEF AnswerDue, Outstanding
  <2>5. UpToDate'
    BY <1>1, <1>6, <2>4 DEF Fresh, UpToDate
  <2>6. OfAnotherSession' /\ NeverReused'
    BY <1>1, <1>2, <1>6, <2>2 DEF Fresh, OfAnotherSession, NeverReused, Outstanding
  <2> QED BY <2>3, <2>5, <2>6 DEF Fresh
<1>7. CASE LoadRefused(r) \/ Load(r)
  BY <1>6, <1>7 DEF LoadRefused, Load
<1>8. CASE LoadReused(r)
  BY <1>2, <1>8 DEF LoadReused, IsCurrent
\* The conditional UPDATE finds the generation unchanged: the session was closed meanwhile.
<1>9. CASE ConsumeLost(r)
  <2>1. server[t.sid].state # "active"
    BY <1>2, <1>9 DEF ConsumeLost, Consumes
  <2>2. server' = [server EXCEPT ![t.sid] = Revoked(@, "refresh_reuse")] /\ Answer(r, "refused")
    BY <1>9 DEF ConsumeLost
  <2>3. Revoked(server[t.sid], "refresh_reuse") = server[t.sid]
    BY <2>1 DEF Revoked
  <2>4. server' = server
    BY <1>1, <1>3, <2>2, <2>3
  <2> QED BY <1>6, <2>2, <2>4
<1>10. CASE Consume(r)
  <2>1. /\ server' = [server EXCEPT ![t.sid].gen = @ + 1]
        /\ renewal' = [renewal EXCEPT ![r].state = "granted"]
    BY <1>10 DEF Consume, Answer
  <2>2. /\ server'[t.sid].gen = t.gen + 1 /\ server'[t.sid].reason = server[t.sid].reason
        /\ \A s \in Sessions : s # t.sid => server'[s] = server[s]
    BY <1>1, <1>2, <1>3, <2>1 DEF SessionRow
  <2>3. /\ renewal'[r].state = "granted" /\ renewal'[r].tok = t
        /\ \A q \in Renewals : q # r => renewal'[q] = renewal[q]
    BY <1>1, <2>1 DEF RenewalRow
  <2>4. OneOutstanding'
    BY <1>5, <2>3 DEF OneOutstanding, Outstanding
  <2>5. UpToDate'
    <3>1. CASE held
      <4>1. AnswerDue' /\ current' = t
        BY <1>1, <1>2, <1>4, <2>3, <3>1 DEF AnswerDue
      <4> QED BY <2>2, <4>1 DEF UpToDate
    <3>2. CASE ~ held
      <4>1. ~ AnswerDue' /\ ~ AnswerDue /\ current' = current
        BY <1>1, <3>2 DEF AnswerDue
      <4>2. current # None => current.sid # t.sid /\ current.sid \in Sessions
        BY <1>2, <3>2, Typing, TokenFacts, NamesAssumption DEF TInv, Fresh, OfAnotherSession
      <4> QED BY <2>2, <4>1, <4>2 DEF Fresh, UpToDate
    <3> QED BY <3>1, <3>2
  <2>6. OfAnotherSession'
    BY <1>1, <1>2, <2>3 DEF OfAnotherSession, Outstanding
  <2>7. NeverReused'
    BY <1>3, <2>2 DEF Fresh, NeverReused
  <2> QED BY <2>4, <2>5, <2>6, <2>7 DEF Fresh
<1> QED BY <1>7, <1>8, <1>9, <1>10

LEMMA StartKeepsFresh ==
  ASSUME TInv, Fresh, NEW c \in Calls, NEW r \in Renewals, StartRenewal(c, r)
  PROVE  Fresh'
<1> DEFINE x == [state |-> "sent", tok |-> current]
<1>1. /\ current # None /\ renewing = None /\ held = FALSE /\ renewal[r].state = "new"
      /\ renewing' = r /\ held' = TRUE /\ UNCHANGED <<server, current>>
      /\ renewal' = [renewal EXCEPT ![r] = x]
  BY StartFacts
<1>2. /\ renewal'[r] = x /\ x.state = "sent" /\ x.tok = current
      /\ \A q \in Renewals : q # r => renewal'[q] = renewal[q]
  BY <1>1, Typing DEF TInv
<1> HIDE DEF x
<1>3. \A q \in Renewals : ~ Outstanding(q)
  BY <1>1, NamesAssumption DEF Fresh, OneOutstanding
<1>4. server[current.sid].gen = current.gen
  BY <1>1 DEF Fresh, UpToDate, AnswerDue
<1>5. OneOutstanding'
  BY <1>1, <1>2, <1>3, <1>4 DEF OneOutstanding, Outstanding
<1>6. UpToDate'
  BY <1>1, <1>2, <1>4 DEF UpToDate, AnswerDue
<1>7. OfAnotherSession' /\ NeverReused'
  BY <1>1 DEF Fresh, OfAnotherSession, NeverReused
<1> QED BY <1>5, <1>6, <1>7 DEF Fresh

LEMMA SignInKeepsFresh ==
  ASSUME TInv, Fresh, NEW s \in Sessions, SignIn(s)
  PROVE  Fresh'
<1>1. /\ server[s].state = "absent" /\ server'[s].gen = 0 /\ server'[s].reason = server[s].reason
      /\ \A q \in Sessions \ {s} : server'[q] = server[q]
      /\ current' = [sid |-> s, gen |-> 0] /\ held' = FALSE
      /\ UNCHANGED <<renewal, renewing>>
  BY SignInFacts
<1>2. \A r \in Renewals : Outstanding(r) =>
        renewal[r].tok.sid \in Sessions /\ renewal[r].tok.sid # s
  BY <1>1, Typing, TokenFacts DEF TInv, Presented, Outstanding, RenewalRow, Live
<1>3. OneOutstanding'
  BY <1>1, <1>2 DEF Fresh, OneOutstanding, Outstanding
<1>4. current'.sid = s /\ current'.gen = 0 /\ ~ AnswerDue'
  BY <1>1 DEF AnswerDue
<1>5. UpToDate'
  BY <1>1, <1>4 DEF UpToDate
<1>6. OfAnotherSession'
  BY <1>1, <1>2, <1>4, Typing DEF TInv, OfAnotherSession, Outstanding
<1>7. NeverReused'
  BY <1>1 DEF Fresh, NeverReused
<1> QED BY <1>3, <1>5, <1>6, <1>7 DEF Fresh


LEMMA RenewalEndKeepsFresh ==
  ASSUME TInv, Fresh, RenewalEnds, ~ missed'
  PROVE  Fresh'
<1>1. \A r \in Renewals : Outstanding(r) => r = renewing
  BY DEF Fresh, OneOutstanding
<1>2. UNCHANGED net /\ renewing' = None /\ held' = FALSE
  BY DEF RenewalEnds, Renewed, NotRenewed, RenewalFails
<1>3. Renewed \/ NotRenewed
  BY DEF RenewalEnds, RenewalFails
<1>4. ~ Outstanding(renewing)
  BY <1>3 DEF Renewed, NotRenewed, Outstanding
<1>5. OneOutstanding'
  BY <1>1, <1>2, <1>4 DEF OneOutstanding, Outstanding, net
<1>6. OfAnotherSession' /\ NeverReused'
  BY <1>2 DEF Fresh, OfAnotherSession, NeverReused, net
<1>7. ~ AnswerDue'
  BY <1>2 DEF AnswerDue
<1>8. UpToDate'
  <2>1. CASE Renewed
    <3>1. current'.sid = current.sid /\ current'.gen = current.gen + 1
      BY <2>1, RenewedFacts
    <3>2. AnswerDue /\ current # None
      <4>1. /\ held /\ renewal[renewing].state = "granted" /\ renewing \in Renewals
            /\ current = renewal[renewing].tok
        BY <2>1, RenewedFacts
      <4> QED BY <4>1 DEF AnswerDue, TInv, Presented
    <3>3. server[current.sid].gen = current.gen + 1
      BY <3>2 DEF Fresh, UpToDate
    <3> QED BY <1>2, <1>7, <3>1, <3>3 DEF UpToDate, net
  <2>2. CASE NotRenewed
    <3>1. ~ AnswerDue /\ UNCHANGED current
      BY <2>2 DEF NotRenewed, AnswerDue, StillHeld
    <3> QED BY <1>2, <1>7, <3>1 DEF Fresh, UpToDate, net
  <2> QED BY <1>3, <2>1, <2>2
<1> QED BY <1>5, <1>6, <1>8 DEF Fresh

\* A session closed, or replaced by the one in storage when no renewal has its token.
LEMMA ReplacedKeepsFresh ==
  ASSUME TInv, Fresh, UNCHANGED <<server, renewal, renewing>>, held' = FALSE,
         current' \in Kept,
         current' # None =>
           server[current'.sid].gen = current'.gen
           /\ (renewing # None => renewal[renewing].tok # current')
  PROVE  Fresh'
<1>1. OneOutstanding' /\ NeverReused' /\ ~ AnswerDue'
  BY DEF Fresh, OneOutstanding, NeverReused, Outstanding, AnswerDue
<1>2. UpToDate'
  BY <1>1 DEF UpToDate
<1>3. OfAnotherSession'
  <2> SUFFICES ASSUME renewing # None, Outstanding(renewing), current' # None,
                      current'.sid = renewal[renewing].tok.sid
               PROVE  FALSE
    BY DEF OfAnotherSession, Outstanding
  <2> DEFINE t == renewal[renewing].tok
  <2>1. renewing \in Renewals /\ server[t.sid].gen = t.gen
    BY Typing DEF TInv, Fresh, OneOutstanding
  <2>2. t \in Tokens /\ current' \in Tokens
    BY <2>1, Typing, TokenFacts DEF TInv, Presented, Outstanding, RenewalRow
  <2>3. t.sid = current'.sid /\ t.gen = current'.gen
    BY <2>1
  <2>4. \A p, q \in Tokens : p.sid = q.sid /\ p.gen = q.gen => p = q
    BY DEF Tokens
  <2>5. t = current'
    BY <2>2, <2>3, <2>4
  <2> QED BY <2>5
<1> QED BY <1>1, <1>2, <1>3 DEF Fresh

LEMMA CrashKeepsFresh ==
  ASSUME TInv, Fresh, Crash, ~ missed'
  PROVE  Fresh'
<1>1. /\ renewing = None /\ renewing' = None /\ current' = None /\ held' = FALSE
      /\ UNCHANGED <<server, renewal>>
  BY DEF Crash, SetSession, net
<1> QED BY <1>1, ReplacedKeepsFresh DEF Kept

LEMMA RestoreKeepsFresh ==
  ASSUME TInv, Fresh, AllGood, Restore, ~ missed'
  PROVE  Fresh'
<1>1. current' = loaded /\ held' = FALSE /\ UNCHANGED <<server, renewal, renewing>>
  BY DEF Restore, SetSession, net
<1>2. loaded # None => ~ BeingRenewed(loaded)
  BY DEF Restore
<1>3. loaded # None => server[loaded.sid].gen = loaded.gen
  BY <1>2 DEF AllGood, Good, Due, BeingRenewed
<1>4. loaded \in Kept
  BY Typing DEF TInv
<1> QED BY <1>1, <1>2, <1>3, <1>4, ReplacedKeepsFresh DEF BeingRenewed

\* The tokens kept when nothing is renewed meanwhile.
LEMMA GoodStays ==
  ASSUME TInv, UNCHANGED <<renewal, renewing>>,
         \A s \in Sessions : server'[s].gen = server[s].gen,
         NEW t \in Kept, Good(t)
  PROVE  Good(t)'
BY TokenFacts DEF Good, Due

LEMMA SameGood ==
  ASSUME TInv, AllGood, \A t \in Kept : Good(t) => Good(t)',
         {opening', loaded', LastStored'} \subseteq {opening, loaded, LastStored, None}
  PROVE  AllGood'
<1>1. opening \in Kept /\ loaded \in Kept /\ LastStored \in Kept
  BY Typing, LastStoredFacts DEF TInv
<1>2. \A t \in {opening, loaded, LastStored} : Good(t)'
  BY <1>1 DEF AllGood
<1>3. Good(None)'
  BY DEF Good
<1> QED BY <1>2, <1>3 DEF AllGood

LEMMA LastAppended ==
  ASSUME TInv, NEW t \in Kept, writes' = Append(writes, t)
  PROVE  LastStored' = t
BY Typing, AppendFacts DEF TInv, LastStored

LEMMA NextAllGood ==
  ASSUME TInv, Fresh, AllGood, ~ missed', [Next]_vars
  PROVE  AllGood'
<1>1. ASSUME UNCHANGED <<renewal, renewing>>,
             \A s \in Sessions : server'[s].gen = server[s].gen,
             {opening', loaded', LastStored'} \subseteq {opening, loaded, LastStored, None}
      PROVE  AllGood'
  BY <1>1, GoodStays, SameGood
<1>2. ASSUME UNCHANGED <<screen, disk>>
      PROVE  {opening', loaded', LastStored'} \subseteq {opening, loaded, LastStored, None}
  BY <1>2 DEF screen, disk, LastStored
<1>3. ASSUME NEW r \in Renewals,
             \/ LoadRefused(r) \/ LoadReused(r) \/ Load(r) \/ Consume(r) \/ ConsumeLost(r)
      PROVE  AllGood'
  <2>1. UNCHANGED <<memory, screen, disk>> /\ Outstanding(r)
    BY <1>3 DEF LoadRefused, LoadReused, Load, Consume, ConsumeLost, Outstanding
  <2>2. r = renewing /\ server[renewal[r].tok.sid].gen = renewal[r].tok.gen /\ renewing' = r
    BY <2>1 DEF Fresh, OneOutstanding, memory
  <2>3. \A t \in Kept : Good(t) /\ t # None => server[t.sid].gen = t.gen
    BY <2>1, <2>2 DEF Good, Due, Outstanding
  <2>4. /\ renewal \in [Renewals -> RenewalRow] /\ server \in [Sessions -> SessionRow]
        /\ r # None /\ renewal[r].tok \in Kept /\ renewal[r].tok # None
    BY <2>1, Typing, NamesAssumption DEF TInv, Presented, Outstanding, RenewalRow
  <2>5. ASSUME NEW t \in Kept, Good(t), t # None PROVE Good(t)'
    <3>1. server[t.sid].gen = t.gen /\ t \in Tokens /\ t.sid \in Sessions
      BY <2>3, <2>5, TokenFacts
    <3>2. CASE Consume(r)
      <4> DEFINE u == renewal[r].tok
      <4>1. /\ server' = [server EXCEPT ![u.sid].gen = @ + 1]
            /\ renewal' = [renewal EXCEPT ![r].state = "granted"]
        BY <3>2 DEF Consume, Answer
      <4>2. renewal'[r].state = "granted" /\ renewal'[r].tok = u /\ u \in Tokens
        BY <2>4, <4>1, TokenFacts DEF RenewalRow
      <4>3. CASE t.sid = u.sid
        <5>1. t.gen = u.gen
          BY <2>2, <3>1, <4>3
        <5>2. t = u
          BY <3>1, <4>2, <4>3, <5>1 DEF Tokens
        <5> QED BY <2>2, <2>4, <4>2, <5>2 DEF Good, Due
      <4>4. CASE t.sid # u.sid
        <5>1. server'[t.sid] = server[t.sid]
          BY <2>4, <3>1, <4>1, <4>4
        <5> QED BY <3>1, <5>1 DEF Good
      <4> QED BY <4>3, <4>4
    <3>3. CASE ~ Consume(r)
      <4>1. ServerMoves
        BY <1>3, RenewalSteps
      <4>2. server'[t.sid].gen = server[t.sid].gen
        <5>1. CASE LoadRefused(r) \/ Load(r)
          BY <5>1 DEF LoadRefused, Load
        <5>2. CASE LoadReused(r) \/ ConsumeLost(r)
          <6>1. server' = [server EXCEPT ![renewal[r].tok.sid] = Revoked(@, "refresh_reuse")]
            BY <5>2 DEF LoadReused, ConsumeLost
          <6> QED BY <2>4, <3>1, <6>1, RevokedFacts
        <5> QED BY <1>3, <3>3, <5>1, <5>2
      <4> QED BY <3>1, <4>2 DEF Good
    <3> QED BY <3>2, <3>3
  <2>6. \A t \in Kept : Good(t) => Good(t)'
    BY <2>5 DEF Good
  <2> QED BY <1>2, <2>1, <2>6, SameGood
<1>4. CASE RevokeUserSessions \/ \E c \in Calls : Serve(c)
  BY <1>1, <1>2, <1>4, RevocationSteps DEF memory
<1>5. ASSUME NEW c \in Calls, CallStep(c) PROVE AllGood'
  <2>1. OnlyCalls
    BY <1>5, CallSteps DEF TInv
  <2> QED BY <1>1, <1>2, <2>1 DEF OnlyCalls, net, memory
<1>6. CASE UNCHANGED vars \/ SignOut \/ \E t \in Tokens : AccessExpires(t)
  BY <1>1, <1>2, <1>6 DEF vars, SignOut, AccessExpires, net, memory
<1>7. ASSUME NEW c \in Calls, NEW r \in Renewals, StartRenewal(c, r) PROVE AllGood'
  <2>1. renewing = None /\ UNCHANGED <<server, screen, disk>>
    BY <1>7, StartFacts
  <2>2. \A t \in Kept : Good(t) => Good(t)'
    BY <2>1 DEF Good, Due
  <2> QED BY <1>2, <2>1, <2>2, SameGood
<1>8. ASSUME NEW s \in Sessions, SignIn(s) PROVE AllGood'
  <2>1. /\ server[s].gen = 0 /\ server'[s].gen = 0
        /\ \A q \in Sessions \ {s} : server'[q] = server[q]
        /\ opening' = [sid |-> s, gen |-> 0]
        /\ UNCHANGED <<renewal, renewing, loaded, disk>>
    BY <1>8, SignInFacts
  <2>2. \A q \in Sessions : server'[q].gen = server[q].gen
    BY <2>1
  <2>3. loaded \in Kept /\ LastStored \in Kept /\ LastStored' = LastStored /\ loaded' = loaded
    BY <2>1, Typing, LastStoredFacts DEF TInv, LastStored, disk
  <2>4. \A t \in {loaded, LastStored} : Good(t)'
    BY <2>1, <2>2, <2>3, GoodStays DEF AllGood
  <2>5. \A t \in {opening'} : Good(t)'
    BY <2>1 DEF Good
  <2> QED BY <2>3, <2>4, <2>5 DEF AllGood
<1>9. ASSUME NEW s \in Sessions, s = renewal[renewing].tok.sid, UNCHANGED <<server, renewal>>,
             NEW t \in Kept, Good(t), ~ Of(t, s)
      PROVE  Good(t)'
  BY <1>9 DEF Good, Due, Of
<1>10. CASE Renewed
  <2> DEFINE s == renewal[renewing].tok.sid
  <2>1. /\ current \in Tokens /\ current = renewal[renewing].tok /\ current' \in Tokens
        /\ current'.sid = current.sid /\ current'.gen = current.gen + 1
        /\ held /\ renewal[renewing].state = "granted"
        /\ writes' = Append(writes, current') /\ UNCHANGED <<net, screen>>
    BY <1>10, RenewedFacts
  <2>2. ~ OlderToCome(s) /\ s \in Sessions
    BY <1>10, <2>1, TokenFacts DEF Renewed, Tokens
  <2>3. current # None
    BY <1>10, RenewedFacts DEF TInv, Presented
  <2>4. server[current.sid].gen = current.gen + 1
    BY <2>1, <2>3 DEF Fresh, UpToDate, AnswerDue
  <2>5. LastStored' = current' /\ opening' = opening /\ loaded' = loaded
    BY <2>1, LastAppended DEF Kept, screen
  <2>6. \A t \in {current'} : Good(t)'
    BY <2>1, <2>4 DEF Good, net
  <2>7. opening \in Kept /\ loaded \in Kept
    BY Typing DEF TInv
  <2>8. \A t \in {opening, loaded} : Good(t)'
    BY <1>9, <2>1, <2>2, <2>7 DEF AllGood, OlderToCome, net
  <2> QED BY <2>5, <2>6, <2>8 DEF AllGood
<1>11. CASE NotRenewed
  <2>1. UNCHANGED <<net, screen, disk>> /\ renewing # None
    BY <1>11 DEF NotRenewed
  <2>2. CASE renewal[renewing].state = "refused"
    <3>1. \A t \in Kept : Good(t) => Good(t)'
      BY <2>1, <2>2 DEF Good, Due, net
    <3> QED BY <1>2, <2>1, <3>1, SameGood
  <2>3. CASE renewal[renewing].state = "granted"
    <3> DEFINE s == renewal[renewing].tok.sid
    <3>1. ~ OlderToCome(s) /\ ~ Of(LastStored, s)
      BY <1>11, <2>3 DEF NotRenewed
    <3>2. renewal[renewing] \in RenewalRow /\ renewal[renewing].tok # None
      BY <2>1, <2>3, Typing DEF TInv, Presented
    <3>3. s \in Sessions
      BY <3>2, TokenFacts DEF RenewalRow
    <3>4. opening \in Kept /\ loaded \in Kept /\ LastStored \in Kept
      BY Typing, LastStoredFacts DEF TInv
    <3>5. \A t \in {opening, loaded, LastStored} : Good(t)'
      BY <1>9, <2>1, <3>1, <3>3, <3>4 DEF AllGood, OlderToCome, net
    <3>6. {opening', loaded', LastStored'} = {opening, loaded, LastStored}
      BY <2>1 DEF screen, disk, LastStored
    <3> QED BY <3>5, <3>6 DEF AllGood
  <2> QED BY <1>11, <2>2, <2>3 DEF NotRenewed
<1>12. CASE RenewalFails
  BY <1>12 DEF RenewalFails
<1>13. CASE Closes
  <2>1. UNCHANGED <<net, renewing, loaded>> /\ opening' \in {opening, None}
    BY <1>13 DEF Closes, LogoutDone, SignOutLocally, Rejected
  <2>2. LastStored' = None
    BY <1>13, CloseMoves DEF LastStored
  <2> QED BY <1>1, <2>1, <2>2 DEF net
<1>14. CASE ProfileDone
  <2>1. /\ UNCHANGED <<net, memory, stored, loaded>> /\ opening' = None
        /\ writes' = Append(writes, opening) \/ writes' = writes
    BY <1>14 DEF ProfileDone
  <2>2. LastStored' \in {opening, LastStored}
    <3>1. CASE writes' = Append(writes, opening)
      BY <3>1, LastAppended, Typing DEF TInv
    <3>2. CASE writes' = writes
      BY <2>1, <3>2 DEF LastStored
    <3> QED BY <2>1, <3>1, <3>2
  <2> QED BY <1>1, <2>1, <2>2 DEF net, memory
<1>15. CASE Retry
  <2>1. UNCHANGED <<net, memory, opening, disk>> /\ loaded' = LastStored
    BY <1>15 DEF Retry
  <2>2. LastStored' = LastStored
    BY <2>1 DEF LastStored, disk
  <2> QED BY <1>1, <2>1, <2>2 DEF net, memory
<1>16. CASE Restore
  <2>1. UNCHANGED <<net, renewing, opening, disk>> /\ loaded' = None
    BY <1>16 DEF Restore
  <2>2. LastStored' = LastStored
    BY <2>1 DEF LastStored, disk
  <2> QED BY <1>1, <2>1, <2>2 DEF net
<1>17. CASE Flush
  <2>1. UNCHANGED <<net, memory, opening, loaded>>
    BY <1>17 DEF Flush, screen
  <2>2. LastStored' = LastStored
    BY <1>17, FlushKeepsLast
  <2> QED BY <1>1, <2>1, <2>2 DEF net, memory
<1>18. CASE Crash
  <2>1. /\ UNCHANGED <<net, renewing>> /\ opening' = None /\ loaded' = stored
        /\ writes = <<>> /\ writes' = <<>> /\ stored' = stored
    BY <1>18 DEF Crash
  <2>2. loaded' = LastStored /\ LastStored' = LastStored
    BY <2>1 DEF LastStored
  <2> QED BY <1>1, <2>1, <2>2 DEF net
<1> QED BY <1>3, <1>4, <1>5, <1>6, <1>7, <1>8, <1>10, <1>11, <1>12, <1>13, <1>14, <1>15, <1>16,
           <1>17, <1>18, StepKinds DEF RenewalEnds, Opens, Stores

LEMMA NextFresh ==
  ASSUME TInv, Fresh, AllGood, ~ missed', [Next]_vars
  PROVE  Fresh'
<1>1. ASSUME UNCHANGED <<renewal, current, renewing, held, server>> PROVE Fresh'
  BY <1>1, FreshStays
<1>2. ASSUME NEW r \in Renewals,
             \/ LoadRefused(r) \/ LoadReused(r) \/ Load(r) \/ Consume(r) \/ ConsumeLost(r)
      PROVE  Fresh'
  BY <1>2, RenewalKeepsFresh
<1>3. CASE RevokeUserSessions \/ \E c \in Calls : Serve(c)
  BY <1>3, RevocationSteps, FreshStays DEF memory
<1>4. ASSUME NEW c \in Calls, CallStep(c) PROVE Fresh'
  <2>1. OnlyCalls
    BY <1>4, CallSteps DEF TInv
  <2> QED BY <1>1, <2>1 DEF OnlyCalls, net, memory
<1>5. CASE UNCHANGED vars \/ SignOut \/ \E t \in Tokens : AccessExpires(t)
  BY <1>1, <1>5 DEF vars, SignOut, AccessExpires, net, memory
<1>6. ASSUME NEW c \in Calls, NEW r \in Renewals, StartRenewal(c, r) PROVE Fresh'
  BY <1>6, StartKeepsFresh
<1>7. ASSUME NEW s \in Sessions, SignIn(s) PROVE Fresh'
  BY <1>7, SignInKeepsFresh
<1>8. CASE RenewalEnds
  BY <1>8, RenewalEndKeepsFresh
<1>9. CASE Closes
  <2>1. /\ UNCHANGED <<server, renewal, renewing>> /\ held' = FALSE
        /\ current' = None /\ current' \in Kept
    BY <1>9, CloseMoves DEF DeviceMoves, net
  <2> QED BY <2>1, ReplacedKeepsFresh
<1>10. CASE Opens
  <2>1. CASE ProfileDone \/ Retry
    BY <1>1, <2>1 DEF ProfileDone, Retry, net, memory
  <2> QED BY <1>10, <2>1, RestoreKeepsFresh DEF Opens
<1>11. CASE Stores
  <2>1. CASE Flush
    BY <1>1, <2>1 DEF Flush, net, memory
  <2> QED BY <1>11, <2>1, CrashKeepsFresh DEF Stores
<1> QED BY <1>2, <1>3, <1>4, <1>5, <1>6, <1>7, <1>8, <1>9, <1>10, <1>11, StepKinds

\* What was missed stays missed.
LEMMA MissedStays ==
  ASSUME TInv, [Next]_vars, missed
  PROVE  missed'
<1>1. ASSUME NEW c \in Calls, CallStep(c) PROVE missed'
  <2>1. OnlyCalls
    BY <1>1, CallSteps DEF TInv
  <2> QED BY <2>1 DEF OnlyCalls
<1>2. ASSUME NEW r \in Renewals,
             \/ LoadRefused(r) \/ LoadReused(r) \/ Load(r) \/ Consume(r) \/ ConsumeLost(r)
      PROVE  missed'
  BY <1>2 DEF LoadRefused, LoadReused, Load, Consume, ConsumeLost
<1>3. CASE RevokeUserSessions \/ (\E c \in Calls : Serve(c)) \/ SignOut \/ UNCHANGED vars
  BY <1>3 DEF RevokeUserSessions, Serve, SignOut, vars
<1>4. ASSUME NEW t \in Tokens, AccessExpires(t) PROVE missed'
  BY <1>4 DEF AccessExpires
<1>5. ASSUME NEW c \in Calls, NEW r \in Renewals, StartRenewal(c, r) PROVE missed'
  BY <1>5, StartFacts
<1>6. ASSUME NEW s \in Sessions, SignIn(s) PROVE missed'
  BY <1>6, SignInFacts
<1>7. CASE RenewalEnds
  BY <1>7 DEF RenewalEnds, Renewed, NotRenewed, RenewalFails
<1>8. CASE Closes
  BY <1>8, CloseMoves
<1>9. CASE Opens \/ Stores
  BY <1>9 DEF Opens, ProfileDone, Retry, Restore, Stores, Flush, Crash
<1> QED BY <1>1, <1>2, <1>3, <1>4, <1>5, <1>6, <1>7, <1>8, <1>9, StepKinds

\* session.ts:39: a device that lost no answer and no write, and whose session was not
\* renewed while older tokens of it were still to be used, never presents a token twice: the
\* server never revokes its session as copied.
THEOREM NeverTakenForACopyHolds == Spec => []NeverTakenForACopy
<1>1. Init => FInv
  BY DEF Init, FInv, Fresh, OneOutstanding, UpToDate, OfAnotherSession, NeverReused, Outstanding,
         AllGood, Good, LastStored
<1>2. TInv /\ FInv /\ [Next]_vars => FInv'
  BY NextFresh, NextAllGood, MissedStays DEF FInv
<1>3. FInv => NeverTakenForACopy
  BY DEF FInv, Fresh, NeverReused, NeverTakenForACopy
<1> QED BY <1>1, <1>2, <1>3, TInvHolds, PTL DEF Spec

-------------------------------------------------------------------------------
(* The sessions signed out of *)

\* The session a login is opening, or a restore has loaded, was not left: both come after
\* the sign-out is over.
Keeps(t) == t # None => t.sid \notin left
OpeningKept == Keeps(opening) /\ (opening # None => ui = "signedOut")
LoadedKept ==
  /\ Keeps(loaded) /\ (loaded # None => restoring)
  /\ restoring => ui # "signedIn" /\ call[Profile].pc = "idle"

\* The profile is asked for before the screens open.
ProfileFirst == call[Profile].pc # "idle" => ui # "signedIn"

OutInv ==
  /\ OpeningKept /\ LoadedKept /\ ProfileFirst
  /\ ui # "signedIn" \/ call[Logout].pc = "idle" => Keeps(current) /\ Keeps(LastStored)

LEMMA OutStays ==
  ASSUME OutInv, UNCHANGED <<current, screen, disk, left>>,
         call'[Logout].pc = "idle" => call[Logout].pc = "idle",
         call[Profile].pc = "idle" => call'[Profile].pc = "idle"
  PROVE  OutInv'
BY DEF OutInv, OpeningKept, LoadedKept, ProfileFirst, LastStored, Keeps, screen, disk

LEMMA OutOnceClosed ==
  ASSUME TInv, OutInv, Closes
  PROVE  OutInv'
<1>1. /\ current' = None /\ ui' = "signedOut" /\ writes' # <<>> /\ writes'[Len(writes')] = None
      /\ opening' = opening \/ opening' = None
      /\ UNCHANGED <<left, restoring, loaded>>
      /\ call[Profile].pc = "idle" => call'[Profile].pc = "idle"
  BY CloseMoves
<1>2. LastStored' = None
  BY <1>1 DEF LastStored
<1>3. OpeningKept' /\ LoadedKept'
  BY <1>1 DEF OutInv, OpeningKept, LoadedKept, Keeps
<1> QED BY <1>1, <1>2, <1>3 DEF OutInv, ProfileFirst, Keeps

LEMMA NextOutInv ==
  ASSUME TInv, OutInv, [Next]_vars
  PROVE  OutInv'
<1>1. ASSUME NEW r \in Renewals,
             \/ LoadRefused(r) \/ LoadReused(r) \/ Load(r) \/ Consume(r) \/ ConsumeLost(r)
      PROVE  OutInv'
  <2>1. UNCHANGED <<current, screen, disk, left, call>>
    BY <1>1 DEF LoadRefused, LoadReused, Load, Consume, ConsumeLost, memory
  <2> QED BY <2>1, OutStays
<1>2. CASE RevokeUserSessions \/ \E c \in Calls : Serve(c)
  BY <1>2, RevocationSteps, OutStays DEF memory
<1>3. ASSUME NEW c \in Calls, CallStep(c) PROVE OutInv'
  <2>1. OnlyCalls
    BY <1>3, CallSteps DEF TInv
  <2> QED BY <2>1, OutStays DEF OnlyCalls, memory
<1>4. CASE UNCHANGED vars \/ \E t \in Tokens : AccessExpires(t)
  BY <1>4, OutStays DEF vars, AccessExpires, memory
<1>5. ASSUME NEW c \in Calls, NEW r \in Renewals, StartRenewal(c, r) PROVE OutInv'
  BY <1>5, StartFacts, OutStays
<1>6. ASSUME NEW s \in Sessions, SignIn(s) PROVE OutInv'
  <2>1. /\ s \notin left /\ current' = [sid |-> s, gen |-> 0] /\ opening' = current'
        /\ ui = "signedOut" /\ call'[Logout] = call[Logout]
        /\ UNCHANGED <<ui, restoring, loaded, stored, writes, left>>
    BY <1>6, SignInFacts DEF disk
  <2>2. ~ restoring
    BY <1>6 DEF SignIn
  <2>3. Keeps(current)' /\ OpeningKept' /\ LoadedKept'
    BY <2>1, <2>2 DEF OutInv, Keeps, OpeningKept, LoadedKept
  <2> QED BY <2>1, <2>3 DEF OutInv, ProfileFirst, LastStored, Keeps
<1>7. CASE SignOut
  <2>1. /\ call'[Logout].pc # "idle" /\ ui = "signedIn" /\ UNCHANGED <<ui, opening, restoring, loaded>>
    BY <1>7, SignOutFacts DEF screen
  <2>2. ~ restoring /\ opening = None /\ loaded = None
    BY <2>1 DEF OutInv, OpeningKept, LoadedKept
  <2>3. call'[Profile] = call[Profile]
    BY <1>7, Typing, NamesAssumption DEF SignOut, TInv, Calls
  <2> QED BY <2>1, <2>2, <2>3 DEF OutInv, OpeningKept, LoadedKept, ProfileFirst, Keeps
<1>8. CASE Renewed
  <2>1. /\ current # None /\ current'.sid = current.sid /\ current' \in Kept
        /\ writes' = Append(writes, current') /\ UNCHANGED <<screen, stored, left>>
    <3>1. current # None
      BY <1>8, RenewedFacts DEF TInv, Presented
    <3> QED BY <1>8, <3>1, RenewedFacts DEF Kept
  <2>2. LastStored' = current'
    BY <2>1, LastAppended
  <2>3. /\ call'[Logout].pc = "idle" => call[Logout].pc = "idle"
        /\ call[Profile].pc = "idle" => call'[Profile].pc = "idle"
    BY <1>8, RenewalEndMoves DEF RenewalEnds
  <2>4. Keeps(current) => Keeps(current)'
    BY <2>1 DEF Keeps
  <2>5. OpeningKept' /\ LoadedKept'
    BY <2>1, <2>3 DEF OutInv, OpeningKept, LoadedKept, Keeps, screen
  <2>6. ProfileFirst'
    BY <2>1, <2>3 DEF OutInv, ProfileFirst, screen
  <2> QED BY <2>1, <2>2, <2>3, <2>4, <2>5, <2>6 DEF OutInv, Keeps, screen
<1>9. CASE NotRenewed \/ RenewalFails
  <2>1. UNCHANGED <<current, screen, disk, left>>
    BY <1>9 DEF NotRenewed, RenewalFails
  <2> QED BY <1>9, <2>1, RenewalEndMoves, OutStays DEF RenewalEnds
<1>10. CASE Closes
  BY <1>10, OutOnceClosed
<1>11. CASE ProfileDone
  <2>1. /\ opening' = None /\ UNCHANGED <<current, stored, restoring, loaded, left>>
        /\ \/ opening # None /\ writes' = Append(writes, opening)
           \/ opening = None /\ writes' = writes
        /\ call[Profile].pc # "idle"
    BY <1>11 DEF ProfileDone, Done, Answered, Unanswered, memory
  <2>3. ~ restoring /\ ui # "signedIn"
    BY <2>1 DEF OutInv, LoadedKept, ProfileFirst
  <2>a. call'[Profile].pc = "idle"
    BY <1>11, DoneFacts, Typing, NamesAssumption DEF ProfileDone, Done, TInv, Calls, NoCall
  <2>4. OpeningKept' /\ LoadedKept' /\ ProfileFirst'
    BY <2>1, <2>3, <2>a DEF OutInv, OpeningKept, LoadedKept, ProfileFirst, Keeps
  <2>5. CASE opening # None
    <3>1. ui = "signedOut" /\ Keeps(opening) /\ Keeps(current)
      BY <2>5 DEF OutInv, OpeningKept
    <3>2. LastStored' = opening
      BY <2>1, <2>5, LastAppended, Typing DEF TInv
    <3> QED BY <2>1, <2>4, <3>1, <3>2 DEF OutInv, Keeps
  <2>6. CASE opening = None
    <3>1. Keeps(current) /\ Keeps(LastStored)
      BY <2>3 DEF OutInv
    <3>2. LastStored' = LastStored
      BY <2>1, <2>6 DEF LastStored
    <3> QED BY <2>1, <2>4, <3>1, <3>2 DEF OutInv, Keeps
  <2> QED BY <2>5, <2>6
<1>12. CASE Retry
  <2>1. /\ UNCHANGED <<current, call, opening, disk, left>> /\ ui = "unavailable" /\ ui' = "starting"
        /\ restoring' = TRUE /\ loaded' = LastStored /\ call[Profile].pc = "idle"
    BY <1>12 DEF Retry, memory
  <2>2. Keeps(current) /\ Keeps(LastStored) /\ LastStored' = LastStored
    BY <2>1 DEF OutInv, LastStored, disk
  <2> QED BY <2>1, <2>2 DEF OutInv, OpeningKept, LoadedKept, ProfileFirst, Keeps
<1>13. CASE Restore
  <2>1. /\ current' = loaded /\ ui' \in {ui, "signedOut"} /\ restoring /\ restoring' = FALSE
        /\ loaded' = None /\ UNCHANGED <<opening, disk, left>>
    BY <1>13 DEF Restore, SetSession
  <2>2. LastStored' = LastStored /\ ui # "signedIn"
    BY <2>1 DEF OutInv, LoadedKept, LastStored, disk
  <2>3. Keeps(loaded) /\ Keeps(LastStored)
    BY <2>2 DEF OutInv, LoadedKept
  <2> QED BY <2>1, <2>2, <2>3 DEF OutInv, OpeningKept, LoadedKept, ProfileFirst, Keeps
<1>14. CASE Flush
  <2>1. UNCHANGED <<current, ui, opening, restoring, loaded, left, call>>
    BY <1>14 DEF Flush, memory, screen
  <2>2. LastStored' = LastStored
    BY <1>14, FlushKeepsLast
  <2> QED BY <2>1, <2>2 DEF OutInv, OpeningKept, LoadedKept, ProfileFirst, Keeps
<1>15. CASE Crash
  <2>1. /\ current' = None /\ opening' = None /\ left' = {} /\ ui' = "starting"
        /\ restoring' = TRUE /\ call' = [c \in Calls |-> NoCall]
    BY <1>15 DEF Crash, SetSession
  <2>2. call'[Profile].pc = "idle"
    BY <2>1 DEF NoCall, Calls
  <2> QED BY <2>1, <2>2 DEF OutInv, OpeningKept, LoadedKept, ProfileFirst, Keeps
<1> QED BY <1>1, <1>2, <1>3, <1>4, <1>5, <1>6, <1>7, <1>8, <1>9, <1>10, <1>11, <1>12, <1>13,
           <1>14, <1>15, StepKinds DEF RenewalEnds, Opens, Stores

\* Once a sign-out is over, no renewal, profile, retry or write brings its session back while
\* the application runs.
THEOREM SignedOutStaysOutHolds == Spec => []SignedOutStaysOut
<1>1. Init => OutInv
  BY NamesAssumption DEF Init, OutInv, OpeningKept, LoadedKept, ProfileFirst, LastStored, Keeps, NoCall, Calls
<1>2. TInv /\ OutInv /\ [Next]_vars => OutInv'
  BY NextOutInv
<1>3. OutInv => SignedOutStaysOut
  BY DEF OutInv, LastStored, Keeps, SignedOutStaysOut
<1> QED BY <1>1, <1>2, <1>3, TInvHolds, PTL DEF Spec
================================================================================
