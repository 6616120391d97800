----------------------------- MODULE MobileSession -----------------------------
(***************************************************************************)
(* Renewable sessions of ATLAS MOBILE: the server (auth/sessions.py), one  *)
(* device (mobile/atlas/src/auth, api/client.ts) and the network between.  *)
(*                                                                         *)
(* A session has one current refresh token, used once: a renewal replaces  *)
(* it and delivers the next access token with it.  The token pair of the   *)
(* n-th renewal of session s is [sid |-> s, gen |-> n].  On the device,    *)
(* API calls run side by side; those the server refuses wait for one       *)
(* renewal that they share, then try once more.  Messages to the server    *)
(* may be late and answers may be lost; the application may be killed.     *)
(*                                                                         *)
(* Refresh tokens expire after weeks, longer than what is modelled here.   *)
(* Writes to the secure storage take effect in the order they are asked    *)
(* for.  JavaScript runs to its next await: a call that starts chooses its *)
(* token before anything else happens on the device (Quiet).               *)
(*                                                                         *)
(* A permission refused (403) closes the session when it is the profile    *)
(* that is refused, and is an answer like another otherwise.  A reload of  *)
(* the profile is one more request.                                        *)
(***************************************************************************)
EXTENDS Integers, Sequences

CONSTANTS
  Sessions,    \* sessions of one account, one per login
  Renewals,    \* calls of POST /auth/refresh
  Requests,    \* API calls made by the screens
  Profile,     \* the call of /auth/me that opens or restores a session
  Logout,      \* the call of POST /auth/logout
  MaxGen,      \* bound: renewals of one session
  MaxCrashes,  \* bound: times the application is killed
  None

Calls == Requests \cup {Profile, Logout}

ASSUME BoundsAssumption == MaxGen \in Nat /\ MaxCrashes \in Nat
ASSUME NamesAssumption ==
  Profile # Logout /\ {Profile, Logout} \cap Requests = {} /\ None \notin Sessions \cup Renewals

VARIABLES
  server,   \* table auth_sessions
  renewal,  \* the calls of /auth/refresh and what the server answered
  expired,  \* access tokens past their expiry
  current,  \* session.ts: the session in memory
  renewing, \* session.ts: the renewal in flight that calls share
  held,     \* current is still the object that renewal was started with
  call,     \* API calls in progress
  ui,       \* AuthProvider: the state the screens see
  opening,  \* signIn: the session of the login answer, not stored yet
  restoring, loaded, \* restoreState: the session it has loaded from the storage, to be installed
  stored,   \* secure storage
  writes,   \* writes to the secure storage not done yet
  crashes,  \* how much of MaxCrashes is spent
  left,     \* history: sessions the user asked to sign out of since the application started
  missed    \* history: an answer was lost, or tokens were spent that the device is to use again

net == <<server, renewal, expired>>
memory == <<current, renewing, held>>
screen == <<ui, opening, restoring, loaded>>
disk == <<stored, writes>>
vars == <<net, memory, call, screen, disk, crashes, left, missed>>

Tokens == [sid : Sessions, gen : 0 .. MaxGen]
Kept == Tokens \cup {None}

NoCall == [pc |-> "idle", tok |-> None, retried |-> FALSE]

TypeOK ==
  /\ server \in [Sessions -> [state : {"absent", "active", "revoked"}, gen : 0 .. MaxGen,
                              reason : {"none", "logout", "account", "refresh_reuse"}]]
  /\ renewal \in [Renewals -> [state : {"new", "sent", "loaded", "granted", "refused"},
                               tok : Kept]]
  /\ expired \subseteq Tokens
  /\ current \in Kept /\ stored \in Kept /\ opening \in Kept /\ loaded \in Kept
  /\ renewing \in Renewals \cup {None} /\ {held, restoring} \subseteq BOOLEAN
  /\ held => renewing # None /\ current = renewal[renewing].tok
  /\ call \in [Calls -> [pc : {"idle", "new", "sent", "accepted", "denied", "waiting",
                               "forbidden", "rejecting", "failed"},
                         tok : Kept, retried : BOOLEAN]]
  /\ ui \in {"starting", "signedOut", "signedIn", "unavailable"}
  /\ writes \in Seq(Kept)
  /\ crashes \in 0 .. MaxCrashes /\ left \subseteq Sessions /\ missed \in BOOLEAN

Init ==
  /\ server = [s \in Sessions |-> [state |-> "absent", gen |-> 0, reason |-> "none"]]
  /\ renewal = [r \in Renewals |-> [state |-> "new", tok |-> None]]
  /\ expired = {}
  /\ current = None /\ renewing = None /\ held = FALSE
  /\ call = [c \in Calls |-> NoCall]
  /\ ui = "signedOut" /\ opening = None /\ restoring = FALSE /\ loaded = None
  /\ stored = None /\ writes = <<>>
  /\ crashes = 0 /\ left = {} /\ missed = FALSE

-------------------------------------------------------------------------------
(* The server *)

Revoked(row, reason) ==
  IF row.state = "active" THEN [row EXCEPT !.state = "revoked", !.reason = reason] ELSE row

Answer(r, state) == renewal' = [renewal EXCEPT ![r].state = state]

\* rotate_session up to the conditional UPDATE.
LoadRefused(r) ==
  /\ renewal[r].state = "sent"
  /\ server[renewal[r].tok.sid].state = "revoked"
  /\ Answer(r, "refused")
  /\ UNCHANGED <<server, expired, memory, call, screen, disk, crashes, left, missed>>

IsCurrent(t) == server[t.sid].state = "active" /\ server[t.sid].gen = t.gen

LoadReused(r) ==
  LET t == renewal[r].tok IN
  /\ renewal[r].state = "sent"
  /\ server[t.sid].state = "active" /\ ~ IsCurrent(t)
  /\ server' = [server EXCEPT ![t.sid] = Revoked(@, "refresh_reuse")]
  /\ Answer(r, "refused")
  /\ UNCHANGED <<expired, memory, call, screen, disk, crashes, left, missed>>

Load(r) ==
  /\ renewal[r].state = "sent"
  /\ IsCurrent(renewal[r].tok)
  /\ Answer(r, "loaded")
  /\ UNCHANGED <<server, expired, memory, call, screen, disk, crashes, left, missed>>

\* The WHERE clause of that UPDATE, on the committed row.
StillActiveMutant(t) == server[t.sid].state = "active"
Consumes(t) == server[t.sid].gen = t.gen /\ server[t.sid].state = "active"

Consume(r) ==
  LET t == renewal[r].tok IN
  /\ renewal[r].state = "loaded" /\ t.gen < MaxGen
  /\ Consumes(t)
  /\ server' = [server EXCEPT ![t.sid].gen = @ + 1]
  /\ Answer(r, "granted")
  /\ UNCHANGED <<expired, memory, call, screen, disk, crashes, left, missed>>

ConsumeLost(r) ==
  LET t == renewal[r].tok IN
  /\ renewal[r].state = "loaded"
  /\ ~ Consumes(t)
  /\ server' = [server EXCEPT ![t.sid] = Revoked(@, "refresh_reuse")]
  /\ Answer(r, "refused")
  /\ UNCHANGED <<expired, memory, call, screen, disk, crashes, left, missed>>

\* revoke_user_sessions: a new password, an account closed.
RevokeUserSessions ==
  /\ \E s \in Sessions : server[s].state = "active"
  /\ server' = [s \in Sessions |-> Revoked(server[s], "account")]
  /\ UNCHANGED <<renewal, expired, memory, call, screen, disk, crashes, left, missed>>

\* An access token reaches its expiry, on the server and on the device.
InUse == {current} \cup {call[c].tok : c \in Calls}
AccessExpires(t) ==
  /\ t \in InUse \ expired
  /\ expired' = expired \cup {t}
  /\ UNCHANGED <<server, renewal, memory, call, screen, disk, crashes, left, missed>>

\* current_token_payload with ensure_session_active; logout revokes the session.
Valid(t) == t \notin expired /\ server[t.sid].state = "active"

\* A profile may be refused for a permission.
Answers(c, t) ==
  IF ~ Valid(t) THEN {"denied"} ELSE IF c = Profile THEN {"accepted", "forbidden"} ELSE {"accepted"}

Serve(c) ==
  LET t == call[c].tok IN
  /\ call[c].pc = "sent"
  /\ \E answer \in Answers(c, t) : call' = [call EXCEPT ![c].pc = answer]
  /\ server' = IF c = Logout /\ Valid(t)
               THEN [server EXCEPT ![t.sid] = Revoked(@, "logout")] ELSE server
  /\ UNCHANGED <<renewal, expired, memory, screen, disk, crashes, left, missed>>

-------------------------------------------------------------------------------
(* The device: session.ts and client.ts *)

SameSessionMutant(t) == current' = t /\ UNCHANGED held
SetSession(t) == current' = t /\ held' = FALSE

\* closeSession of AuthProvider.
CloseSession ==
  /\ SetSession(None)
  /\ ui' = "signedOut"
  /\ writes' = Append(writes, None)

\* exchange: the first attempt, with the token in memory if it is still good.
Attempt(c) ==
  /\ call[c].pc = "new"
  /\ current # None /\ current \notin expired
  /\ call' = [call EXCEPT ![c] = [pc |-> "sent", tok |-> current, retried |-> FALSE]]
  /\ UNCHANGED <<net, memory, screen, disk, crashes, left, missed>>

\* The two places where exchange calls renewSession: no token to send, or a 401.
WantsRenewal(c) ==
  \/ call[c].pc = "new" /\ (current = None \/ current \in expired)
  \/ call[c].pc = "denied" /\ ~ call[c].retried

\* One renewal at a time.
NeverMutant == FALSE
Busy == renewing # None

\* A call is tried again once, after a 401.
Wait(c) == call' = [call EXCEPT ![c].pc = "waiting", ![c].retried = (call[c].pc = "denied")]

Join(c) ==
  /\ WantsRenewal(c) /\ Busy
  /\ Wait(c)
  /\ UNCHANGED <<net, memory, screen, disk, crashes, left, missed>>

NothingToRenew(c) ==
  /\ WantsRenewal(c) /\ ~ Busy
  /\ current = None
  /\ call' = [call EXCEPT ![c].pc = "rejecting"]
  /\ UNCHANGED <<net, memory, screen, disk, crashes, left, missed>>

\* The refused token has been replaced meanwhile.
Replaced(c) ==
  call[c].pc = "denied" /\ current # None /\ current # call[c].tok /\ current \notin expired

TryAgain(c) ==
  /\ WantsRenewal(c) /\ ~ Busy
  /\ Replaced(c)
  /\ call' = [call EXCEPT ![c] = [pc |-> "sent", tok |-> current, retried |-> TRUE]]
  /\ UNCHANGED <<net, memory, screen, disk, crashes, left, missed>>

StartRenewal(c, r) ==
  /\ WantsRenewal(c) /\ ~ Busy
  /\ current # None /\ ~ Replaced(c)
  /\ renewal[r].state = "new"
  /\ renewal' = [renewal EXCEPT ![r] = [state |-> "sent", tok |-> current]]
  /\ renewing' = r /\ held' = TRUE
  /\ Wait(c)
  /\ UNCHANGED <<server, expired, current, screen, disk, crashes, left, missed>>

\* What the renewal gives to every call that waits for it.
Settle(pc, t) ==
  call' = [c \in Calls |->
             IF call[c].pc # "waiting" THEN call[c]
             ELSE [call[c] EXCEPT !.pc = pc, !.tok = t]]

\* The session may have been closed during the exchange: then nothing is installed.
AlwaysHeldMutant == TRUE
StillHeld == held

\* A token of this session, received or loaded before, is still to be stored (signIn) or
\* to be put in memory (restoreState).
Of(t, s) == t # None /\ t.sid = s
OlderToCome(s) == Of(opening, s) \/ Of(loaded, s)

Renewed ==
  /\ renewing # None /\ renewal[renewing].state = "granted"
  /\ StillHeld
  /\ LET next == [renewal[renewing].tok EXCEPT !.gen = @ + 1] IN
       /\ current' = next
       /\ writes' = Append(writes, next)
       /\ Settle("sent", next)
  /\ missed' = (missed \/ OlderToCome(renewal[renewing].tok.sid))
  /\ renewing' = None /\ held' = FALSE
  /\ UNCHANGED <<net, screen, stored, crashes, left>>

\* What the storage holds once its writes are done.
LastStored == IF writes = <<>> THEN stored ELSE writes[Len(writes)]

NotRenewed ==
  /\ renewing # None
  /\ LET s == renewal[renewing].tok.sid IN
     \/ /\ renewal[renewing].state = "granted" /\ ~ StillHeld
        /\ missed' = (missed \/ OlderToCome(s) \/ Of(LastStored, s))
     \/ renewal[renewing].state = "refused" /\ UNCHANGED missed
  /\ Settle("rejecting", None)
  /\ renewing' = None /\ held' = FALSE
  /\ UNCHANGED <<net, current, screen, disk, crashes, left>>

\* No answer to the renewal: the server may have had it, or have it later.
RenewalFails ==
  /\ renewing # None
  /\ Settle("failed", None)
  /\ renewing' = None /\ held' = FALSE
  /\ missed' = TRUE
  /\ UNCHANGED <<net, current, screen, disk, crashes, left>>

\* A last 401 is reported once its body is read: onUnauthorized, notifySessionRejected.
Denied(c) ==
  /\ call[c].pc = "denied" /\ call[c].retried
  /\ call' = [call EXCEPT ![c].pc = "rejecting"]
  /\ UNCHANGED <<net, memory, screen, disk, crashes, left, missed>>

\* resolveState closes the session as well when the profile is refused.
Rejected(c) ==
  /\ call[c].pc \in {"rejecting", "forbidden"}
  /\ CloseSession
  /\ call' = [call EXCEPT ![c] = NoCall]
  /\ opening' = IF c = Profile THEN None ELSE opening
  /\ UNCHANGED <<net, renewing, restoring, loaded, stored, crashes, left, missed>>

-------------------------------------------------------------------------------
(* The device: AuthProvider *)

\* A call ends with the answer of the server, or without: the network may fail before the
\* server has the call, or after it has served it.
Answered(c) == call[c].pc = "accepted"
Unanswered(c) == call[c].pc \in {"sent", "accepted", "forbidden", "denied", "failed"}
Done(c) == (Answered(c) \/ Unanswered(c)) /\ call' = [call EXCEPT ![c] = NoCall]

Request(c) ==
  /\ ui = "signedIn" /\ call[c].pc = "idle"
  /\ call' = [call EXCEPT ![c].pc = "new"]
  /\ UNCHANGED <<net, memory, screen, disk, crashes, left, missed>>

\* A picture that is refused (getImage) closes nothing.
RequestDone(c) ==
  /\ \/ Done(c)
     \/ call[c].pc = "rejecting" /\ call' = [call EXCEPT ![c] = NoCall]
  /\ UNCHANGED <<net, memory, screen, disk, crashes, left, missed>>

\* signIn: the login, then resolveState.  The storage answers before a password is typed.
SignIn(s) ==
  /\ ui = "signedOut" /\ call[Profile].pc = "idle" /\ ~ restoring
  /\ server[s].state = "absent"
  /\ server' = [server EXCEPT ![s].state = "active"]
  /\ LET t == [sid |-> s, gen |-> 0] IN SetSession(t) /\ opening' = t
  /\ call' = [call EXCEPT ![Profile].pc = "new"]
  /\ UNCHANGED <<renewal, expired, renewing, ui, restoring, loaded, disk, crashes, left, missed>>

\* The profile answers, or the network does not: signIn stores the session it was given.
ProfileDone ==
  /\ Done(Profile)
  /\ \/ Answered(Profile) /\ ui' = "signedIn"
     \/ Unanswered(Profile) /\ ui' = "unavailable"
  /\ opening' = None
  /\ writes' = IF opening # None THEN Append(writes, opening) ELSE writes
  /\ UNCHANGED <<net, memory, restoring, loaded, stored, crashes, left, missed>>

\* The object a renewal in flight was started with is replaced by another that holds the
\* same tokens: its answer will not be installed.
BeingRenewed(t) == renewing # None /\ renewal[renewing].tok = t

\* restoreState asks the storage for the session, which it reads after the writes asked
\* for before.
Retry ==
  /\ ui = "unavailable" /\ call[Profile].pc = "idle" /\ ~ restoring
  /\ ui' = "starting"
  /\ restoring' = TRUE
  /\ loaded' = LastStored
  /\ UNCHANGED <<net, memory, call, opening, disk, crashes, left, missed>>

\* The storage answers.
Restore ==
  /\ restoring /\ call[Profile].pc = "idle"
  /\ SetSession(loaded)
  /\ restoring' = FALSE /\ loaded' = None
  /\ IF loaded = None
     THEN ui' = "signedOut" /\ UNCHANGED <<call, missed>>
     ELSE /\ call' = [call EXCEPT ![Profile].pc = "new"]
          /\ missed' = (missed \/ BeingRenewed(loaded))
          /\ UNCHANGED ui
  /\ UNCHANGED <<net, renewing, opening, disk, crashes, left>>

\* signOut: the server first, if there is a session to tell it of.
SignOut ==
  /\ ui = "signedIn" /\ call[Logout].pc = "idle"
  /\ current # None
  /\ call' = [call EXCEPT ![Logout].pc = "new"]
  /\ left' = left \cup {current.sid}
  /\ UNCHANGED <<net, memory, screen, disk, crashes, missed>>

SignOutLocally ==
  /\ ui = "signedIn" /\ call[Logout].pc = "idle"
  /\ current = None
  /\ CloseSession
  /\ UNCHANGED <<net, renewing, call, opening, restoring, loaded, stored, crashes, left, missed>>

\* Whatever the server says, the session is closed on the device.
LogoutDone ==
  /\ Done(Logout)
  /\ CloseSession
  /\ UNCHANGED <<net, renewing, opening, restoring, loaded, stored, crashes, left, missed>>

\* The secure storage does the next write.
Flush ==
  /\ writes # <<>>
  /\ stored' = Head(writes) /\ writes' = Tail(writes)
  /\ UNCHANGED <<net, memory, call, screen, crashes, left, missed>>

\* The application is killed and starts again: restoreState.
Crash ==
  /\ crashes < MaxCrashes
  /\ SetSession(None) /\ renewing' = None
  /\ call' = [c \in Calls |-> NoCall]
  /\ ui' = "starting" /\ opening' = None /\ writes' = <<>>
  /\ restoring' = TRUE /\ loaded' = stored
  /\ crashes' = crashes + 1
  /\ left' = {}
  /\ missed' = (missed \/ renewing # None \/ writes # <<>>)
  /\ UNCHANGED <<net, stored>>

Quiet == \A c \in Calls : call[c].pc # "new"

Next ==
  \/ \E r \in Renewals :
       LoadRefused(r) \/ LoadReused(r) \/ Load(r) \/ Consume(r) \/ ConsumeLost(r)
  \/ RevokeUserSessions
  \/ \E t \in Tokens : AccessExpires(t)
  \/ \E c \in Calls :
       \/ Serve(c)
       \/ /\ call[c].pc = "new" \/ Quiet
          /\ \/ Attempt(c) \/ Join(c) \/ NothingToRenew(c) \/ TryAgain(c)
             \/ \E r \in Renewals : StartRenewal(c, r)
  \/ Quiet
     /\ \/ \E c \in Calls : Denied(c) \/ Rejected(c)
        \/ Renewed \/ NotRenewed \/ RenewalFails
        \/ \E c \in Requests : Request(c) \/ RequestDone(c)
        \/ \E s \in Sessions : SignIn(s)
        \/ ProfileDone \/ Retry \/ Restore \/ SignOut \/ SignOutLocally \/ LogoutDone
        \/ Flush \/ Crash

Spec == Init /\ [][Next]_vars

-------------------------------------------------------------------------------
\* A refresh token is consumed at most once, however many calls present it together
\* (the conditional UPDATE of rotate_session).
ConsumedOnce ==
  \A p, q \in Renewals :
    renewal[p].state = "granted" /\ renewal[q].state = "granted"
    /\ renewal[p].tok = renewal[q].tok => p = q

\* session.ts:39: the server never takes a token of this device for a copy, whatever its
\* calls, its sign-outs, its sign-ins and its restarts do side by side, unless the answer to a
\* renewal was lost, the application was killed during a renewal or a write of its storage,
\* or the session was renewed while older tokens of it, received (signIn) or loaded
\* (restoreState), were still to be stored or put in memory, or were those in the storage
\* when the new ones were dropped.
NeverTakenForACopy ==
  ~ missed => \A s \in Sessions : server[s].reason # "refresh_reuse"

\* session.ts:56: once the sign-out the user asked for is over, nothing brings that session
\* back, in memory or in storage, while the application runs: neither a renewal in flight when
\* it was closed, nor the answers to older calls, nor the end of a sign-in or of a retry.
SignedOutStaysOut ==
  call[Logout].pc = "idle" =>
    /\ current # None => current.sid \notin left
    /\ writes # <<>> /\ writes[Len(writes)] # None => writes[Len(writes)].sid \notin left
    /\ writes = <<>> /\ stored # None => stored.sid \notin left

================================================================================
