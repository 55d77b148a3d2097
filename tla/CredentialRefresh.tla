--------------------------- MODULE CredentialRefresh ---------------------------
(* The credential lifecycle of one account slot (one ID of wechat_accounts):   *)
(* token refreshes by the keepalive loop and on demand, scans, update links,   *)
(* the operator's status button, protocol logins that store sessions, and      *)
(* deletion, over a store whose writes are compare-and-set on a row snapshot.  *)
(*                                                                             *)
(* A credential is [scan, seq]: the scan that granted it and how many times it *)
(* has been rotated since.  seq = 0 is no token: what an expiry leaves behind  *)
(* (scan = 0) or the audit residue of a session_only row (scan > 0).           *)
EXTENDS Naturals, FiniteSets

CONSTANTS OpenIDs,      \* WeChat identities that may scan into this slot
          Workers,      \* goroutines inside refreshAccountOnce
          Clients,      \* protocol calls that log in, or use a stored session
          Routes,       \* protocol egress routes, the key of a stored session
          None,         \* no identity, no lock holder
          KeepsMarker,  \* TRUE for a channel whose marker survives a wipe
          KeptAlive,    \* TRUE if the keepalive loop runs and visits this account
          MaxScan,      \* bound on scans
          MaxSeq,       \* bound on rotations of one authorization
          MaxClicks     \* bound on the operator's status changes

ASSUME BoundsAssumption == MaxScan \in Nat /\ MaxSeq \in Nat \ {0} /\ MaxClicks \in Nat
ASSUME NoneAssumption == None \notin OpenIDs /\ None \notin Workers
ASSUME SettingsAssumption == KeepsMarker \in BOOLEAN /\ KeptAlive \in BOOLEAN

VARIABLES row,          \* the account's row
          sessions,     \* route -> the authorization that logged the session in
          server,       \* upstream: scan -> the rotation it accepts, 0 if none
          lock,         \* holder of refreshLockFor(id), or None
          pc,           \* worker -> where it is in refreshAccountOnce
          snap,         \* worker -> the row it read (latest, later saved)
          verdict,      \* worker -> the status a failed refresh will write
          cpc,          \* client -> where it is
          csnap,        \* client -> the account it was called with
          operator,     \* the status handler: idle, or the write it has pending
          clicks,       \* operator requests so far
          scans,        \* scans completed so far
          lost,         \* ghost: tokens whose successor never reached the store
          touched       \* ghost: tokens under which the operator set a status

workerVars == <<lock, pc, snap, verdict>>
clientVars == <<cpc, csnap>>
operatorVars == <<operator, clicks, touched>>
vars == <<row, sessions, server, workerVars, clientVars, operatorVars, scans, lost>>

--------------------------------------------------------------------------------
Statuses == {"alive", "unknown", "session_only", "expired"}
Cred == [scan : 0..MaxScan, seq : 0..MaxSeq]
Row == [status : Statuses \cup {"absent"}, openid : OpenIDs \cup {None},
        cred : Cred, buffer : 0..MaxSeq]
Session == [openid : OpenIDs \cup {None}, scan : 0..MaxScan]

NoCred == [scan |-> 0, seq |-> 0]
NoRow == [status |-> "absent", openid |-> None, cred |-> NoCred, buffer |-> 0]
NoSession == [openid |-> None, scan |-> 0]
NoSessions == [r \in Routes |-> NoSession]

HasToken(cred) == cred.seq > 0
Rotated(cred) == [scan |-> cred.scan, seq |-> cred.seq + 1]
Residue(cred) == [scan |-> cred.scan, seq |-> 0]

\* The token exchange succeeds only for the newest token of a live authorization.
Accepted(cred) == HasToken(cred) /\ server[cred.scan] = cred.seq

\* Row contents written by ApplyCredentialRefresh, which also wipes what a
\* rejected authorization may not keep: everything, or all but the scan time.
Expired(r) == [status |-> "expired", openid |-> r.openid, cred |-> NoCred, buffer |-> 0]
\* Fault: the rejected authorization's buffer is kept for the session's sake.
SessionOnlyKeepsBuffer(r) == [status |-> "session_only", openid |-> r.openid,
                              cred |-> Residue(r.cred), buffer |-> r.buffer]
SessionOnly(r) == [status |-> "session_only", openid |-> r.openid,
                   cred |-> Residue(r.cred), buffer |-> 0]
Renewed(r) == [status |-> "alive", openid |-> r.openid,
               cred |-> Rotated(r.cred), buffer |-> r.buffer]
Buffered(r) == [status |-> "alive", openid |-> r.openid, cred |-> r.cred, buffer |-> r.cred.seq]

\* The row a scan of openid leaves behind, in place or newly inserted.
Scanned(openid, n) == [status |-> "alive", openid |-> openid,
                       cred |-> [scan |-> n, seq |-> 1], buffer |-> 1]

\* Fault: the write is keyed by the identity, not by the credentials it replaces.
SameIdentity(snapshot) == row.openid = snapshot.openid

\* UPDATE ... WHERE id, openid, credentials, login_buffer and status are those of
\* the snapshot: the write happens only while the row still is that snapshot.
Unchanged(snapshot) == row = snapshot

Init == /\ row = NoRow
        /\ sessions = NoSessions
        /\ server = [n \in 1..MaxScan |-> 0]
        /\ lock = None
        /\ pc = [w \in Workers |-> "idle"]
        /\ snap = [w \in Workers |-> NoRow]
        /\ verdict = [w \in Workers |-> "unknown"]
        /\ cpc = [c \in Clients |-> "idle"]
        /\ csnap = [c \in Clients |-> NoRow]
        /\ operator = "idle" /\ clicks = 0 /\ touched = {}
        /\ scans = 0 /\ lost = {}

--------------------------------------------------------------------------------
(* refreshAccountOnce.  The exits that change nothing (a row that is gone,     *)
(* expired or session_only, a token that is not due, a cancelled wait for the  *)
(* lock) are the steps of BeginRefresh that are not enabled.                   *)

Release(w) == /\ lock' = None
              /\ pc' = [pc EXCEPT ![w] = "idle"]
              /\ snap' = [snap EXCEPT ![w] = NoRow]
              /\ verdict' = [verdict EXCEPT ![w] = "unknown"]
Goto(w, label) == pc' = [pc EXCEPT ![w] = label] /\ UNCHANGED lock

\* Fault: two refreshes of one account are not serialized.
BeginUnlocked(w) ==
    /\ pc[w] = "idle" /\ row.status \in {"alive", "unknown"} /\ row.cred # NoCred
    /\ lock' = w
    /\ snap' = [snap EXCEPT ![w] = row]
    /\ pc' = [pc EXCEPT ![w] = "exchange"]
    /\ UNCHANGED <<row, sessions, server, verdict, clientVars, operatorVars, scans, lost>>

BeginRefresh(w) ==
    /\ pc[w] = "idle" /\ lock = None
    /\ row.status \in {"alive", "unknown"}
    /\ lock' = w
    /\ snap' = [snap EXCEPT ![w] = row]
    /\ pc' = [pc EXCEPT ![w] = IF row.cred = NoCred /\ ~KeepsMarker THEN "missing" ELSE "exchange"]
    /\ UNCHANGED <<row, sessions, server, verdict, clientVars, operatorVars, scans, lost>>

\* No credentials at all: SetAccountStatus(id, "unknown"), which is no CAS.
MarkUnknown(w) ==
    /\ pc[w] = "missing"
    /\ \/ row' = IF row.status = "absent" THEN row ELSE [row EXCEPT !.status = "unknown"]
       \/ UNCHANGED row        \* the write fails
    /\ Release(w)
    /\ UNCHANGED <<sessions, server, clientVars, operatorVars, scans, lost>>

\* Upstream rotates the token and the reply arrives ...
ExchangeAccepted(w) ==
    /\ pc[w] = "exchange"
    /\ Accepted(snap[w].cred) /\ snap[w].cred.seq < MaxSeq
    /\ server' = [server EXCEPT ![snap[w].cred.scan] = @ + 1]
    /\ Goto(w, "save")
    /\ UNCHANGED <<row, sessions, snap, verdict, clientVars, operatorVars, scans, lost>>

\* Fault: the failure is stored under a status nothing else knows.
InconclusiveFailed(w) == verdict' = [verdict EXCEPT ![w] = "failed"]

\* The status an inconclusive failure leaves: the current one, or unknown once
\* the access token has lapsed.
Inconclusive(w) == \E status \in {snap[w].status, "unknown"} :
                       verdict' = [verdict EXCEPT ![w] = status]

\* ... or it does not, and the caller sees a transport error.
ExchangeReplyLost(w) ==
    /\ pc[w] = "exchange"
    /\ Accepted(snap[w].cred) /\ snap[w].cred.seq < MaxSeq
    /\ server' = [server EXCEPT ![snap[w].cred.scan] = @ + 1]
    /\ lost' = lost \cup {snap[w].cred}
    /\ Inconclusive(w)
    /\ Goto(w, "mark")
    /\ UNCHANGED <<row, sessions, snap, clientVars, operatorVars, scans>>

ExchangeFails(w) ==
    /\ pc[w] = "exchange"
    /\ Inconclusive(w)
    /\ Goto(w, "mark")
    /\ UNCHANGED <<row, sessions, server, snap, clientVars, operatorVars, scans, lost>>

\* Fault: a rejection is taken for one more transport failure.
RejectedInconclusive(w) ==
    /\ pc[w] = "exchange"
    /\ ~Accepted(snap[w].cred)
    /\ Inconclusive(w)
    /\ Goto(w, "mark")
    /\ UNCHANGED <<row, sessions, server, snap, clientVars, operatorVars, scans, lost>>

\* A definitive rejection (a missing refresh token is one): the account keeps a
\* session_only life if the configured route is known and still has a reusable session.
ExchangeRejected(w) ==
    /\ pc[w] = "exchange"
    /\ ~Accepted(snap[w].cred)
    /\ \/ verdict' = [verdict EXCEPT ![w] = "expired"]
       \/ \E r \in Routes : sessions[r] # NoSession /\ verdict' = [verdict EXCEPT ![w] = "session_only"]
    /\ Goto(w, "mark")
    /\ UNCHANGED <<row, sessions, server, snap, clientVars, operatorVars, scans, lost>>

\* ApplyCredentialRefresh with the status of the failure; a lost race leaves the row.
ApplyFailure(w) ==
    /\ pc[w] = "mark"
    /\ IF ~Unchanged(snap[w])
         THEN UNCHANGED <<row, sessions>>
         ELSE CASE verdict[w] = "expired" -> row' = Expired(snap[w]) /\ sessions' = NoSessions
                [] verdict[w] = "session_only" -> row' = SessionOnly(snap[w]) /\ UNCHANGED sessions
                [] OTHER -> row' = [snap[w] EXCEPT !.status = verdict[w]] /\ UNCHANGED sessions
    /\ Release(w)
    /\ UNCHANGED <<server, clientVars, operatorVars, scans, lost>>

\* The write itself fails, or the request it belongs to was cancelled.
MarkFails(w) ==
    /\ pc[w] = "mark"
    /\ Release(w)
    /\ UNCHANGED <<row, sessions, server, clientVars, operatorVars, scans, lost>>

\* Fault: a forced refresh leaves the token to be saved together with the buffer.
SaveWithBuffer(w) ==
    /\ pc[w] = "save"
    /\ Unchanged(snap[w])
    /\ \/ Release(w) /\ row' = Renewed(snap[w])
       \/ Goto(w, "reread") /\ UNCHANGED <<row, snap, verdict>>
    /\ UNCHANGED <<sessions, server, clientVars, operatorVars, scans, lost>>

\* The rotated token is saved before anything else happens.  Keepalive is done
\* then; a forced refresh goes on to fetch a new login buffer.
SaveRotated(w) ==
    /\ pc[w] = "save"
    /\ Unchanged(snap[w])
    /\ row' = Renewed(snap[w])
    /\ Release(w) \/ (Goto(w, "reread") /\ UNCHANGED <<snap, verdict>>)
    /\ UNCHANGED <<sessions, server, clientVars, operatorVars, scans, lost>>

\* The row changed meanwhile: the result is discarded.
DiscardRotated(w) ==
    /\ pc[w] = "save"
    /\ ~Unchanged(snap[w])
    /\ Release(w)
    /\ UNCHANGED <<row, sessions, server, clientVars, operatorVars, scans, lost>>

\* The write itself fails: a database error, or its five-second limit.
SaveFails(w) ==
    /\ pc[w] = "save"
    /\ lost' = lost \cup {snap[w].cred}
    /\ Release(w)
    /\ UNCHANGED <<row, sessions, server, clientVars, operatorVars, scans>>

\* Identity and credentials must still be the ones just saved; the status may differ.
Reread(w) ==
    /\ pc[w] = "reread"
    /\ IF row.openid = snap[w].openid /\ row.cred = Rotated(snap[w].cred)
         THEN /\ snap' = [snap EXCEPT ![w] = row]
              /\ Goto(w, "fetch") /\ UNCHANGED verdict
         ELSE Release(w)
    /\ UNCHANGED <<row, sessions, server, clientVars, operatorVars, scans, lost>>

\* The login buffer arrives or does not; a failure leaves the renewed token.
FetchBuffer(w) ==
    /\ pc[w] = "fetch"
    /\ (Goto(w, "store") /\ UNCHANGED <<snap, verdict>>) \/ Release(w)
    /\ UNCHANGED <<row, sessions, server, clientVars, operatorVars, scans, lost>>

\* Fault: the buffer is written with the snapshot's credentials and no CAS.
StoreBufferBlindly(w) ==
    /\ pc[w] = "store"
    /\ row' = Buffered(snap[w])
    /\ Release(w)
    /\ UNCHANGED <<sessions, server, clientVars, operatorVars, scans, lost>>

StoreBuffer(w) ==
    /\ pc[w] = "store"
    /\ row' = IF Unchanged(snap[w])
                THEN Buffered(snap[w]) ELSE row
    /\ Release(w)
    /\ UNCHANGED <<sessions, server, clientVars, operatorVars, scans, lost>>

RefreshStep(w) ==
    \/ BeginRefresh(w) \/ MarkUnknown(w) \/ ExchangeAccepted(w) \/ ExchangeReplyLost(w)
    \/ ExchangeFails(w) \/ ExchangeRejected(w) \/ ApplyFailure(w) \/ MarkFails(w) \/ SaveRotated(w)
    \/ DiscardRotated(w) \/ SaveFails(w) \/ Reread(w) \/ FetchBuffer(w) \/ StoreBuffer(w)

\* A refresh that the keepalive loop starts: not of an account whose proxies are
\* short leases (mode "api"), and of none when the interval is 0.
KeepAlive(w) == KeptAlive /\ BeginRefresh(w)
Proceed(w) == pc[w] # "idle" /\ RefreshStep(w)

--------------------------------------------------------------------------------
(* New authorizations.  Upstream issues token 1 of the next scan.              *)

Issue == /\ scans < MaxScan
         /\ scans' = scans + 1
         /\ server' = [server EXCEPT ![scans + 1] = 1]

\* storeFromScan -> UpsertAccount: the row of that identity is updated in place,
\* a free slot gets a new row.  Stored sessions are left as they are, and no
\* refresh lock is taken.
Scan(openid) ==
    /\ Issue
    /\ row.status = "absent" \/ row.openid = openid
    /\ row' = Scanned(openid, scans + 1)
    /\ UNCHANGED <<sessions, workerVars, clientVars, operatorVars, lost>>

\* Fault: the link replaces the identity and leaves the cached sessions.
UpdateKeepsSessions(openid) ==
    /\ Issue
    /\ row.status # "absent" /\ lock = None
    /\ row' = Scanned(openid, scans + 1)
    /\ UNCHANGED <<sessions, workerVars, clientVars, operatorVars, lost>>

\* UpdateAccountFromLink: replaces the authorization, and maybe the identity, in
\* place and drops the sessions with it, under the refresh lock.
UpdateFromLink(openid) ==
    /\ Issue
    /\ row.status # "absent" /\ lock = None
    /\ row' = Scanned(openid, scans + 1)
    /\ sessions' = NoSessions
    /\ UNCHANGED <<workerVars, clientVars, operatorVars, lost>>

\* DeleteAccount; the sessions go with the row (ON DELETE CASCADE).
Delete ==
    /\ row.status # "absent"
    /\ row' = NoRow /\ sessions' = NoSessions
    /\ UNCHANGED <<server, workerVars, clientVars, operatorVars, scans, lost>>

--------------------------------------------------------------------------------
(* The operator's status button: resolve and check, write, then clean up.      *)

ResolveStatusChange(status) ==
    /\ operator = "idle" /\ clicks < MaxClicks
    /\ row.status # "absent"
    /\ ~(row.status = "session_only" /\ status = "alive")
    /\ operator' = status
    /\ clicks' = clicks + 1
    /\ UNCHANGED <<row, sessions, server, workerVars, clientVars, touched, scans, lost>>

\* The write of a status or the deletion of the sessions fails; the latter's error
\* is dropped.
OperatorFails ==
    /\ operator # "idle" /\ operator' = "idle"
    /\ UNCHANGED <<row, sessions, server, workerVars, clientVars, clicks, touched, scans, lost>>

\* SetAccountStatus: by ID alone, whatever the row has become since.
SetAccountStatus ==
    /\ operator \in {"alive", "expired"}
    /\ row' = IF row.status = "absent" THEN row
              ELSE IF operator = "expired" THEN Expired(row)
              ELSE [row EXCEPT !.status = operator]
    /\ operator' = IF operator = "expired" THEN "purge" ELSE "idle"
    /\ touched' = touched \cup {row.cred}
    /\ UNCHANGED <<sessions, server, workerVars, clientVars, clicks, scans, lost>>

PurgeSessions ==
    /\ operator = "purge"
    /\ operator' = "idle"
    /\ sessions' = NoSessions
    /\ UNCHANGED <<row, server, workerVars, clientVars, clicks, touched, scans, lost>>

--------------------------------------------------------------------------------
(* Protocol calls and the session cache.                                       *)

BeginCall(c) ==
    /\ cpc[c] = "idle"
    /\ row.status \in {"alive", "unknown", "session_only"}
    /\ csnap' = [csnap EXCEPT ![c] = row]
    /\ cpc' = [cpc EXCEPT ![c] = "call"]
    /\ UNCHANGED <<row, sessions, server, workerVars, operatorVars, scans, lost>>

Return(c) == /\ cpc' = [cpc EXCEPT ![c] = "idle"]
             /\ csnap' = [csnap EXCEPT ![c] = NoRow]

\* The account is read again before the login; it has to be the same authorization.
LookAgain(c) ==
    /\ cpc[c] = "call" /\ csnap[c].buffer > 0
    /\ row.openid = csnap[c].openid /\ row.cred = csnap[c].cred
    /\ csnap' = [csnap EXCEPT ![c] = row]
    /\ UNCHANGED <<row, sessions, server, workerVars, cpc, operatorVars, scans, lost>>

\* PutSessionForAccount after a login with the account's buffer.
StoreSession(c, r) ==
    /\ cpc[c] = "call"
    /\ csnap[c].status # "session_only" /\ csnap[c].buffer > 0
    /\ LET same == /\ row.openid = csnap[c].openid /\ row.cred = csnap[c].cred
                   /\ row.buffer = csnap[c].buffer
                   /\ row.status \in {"alive", "unknown"}
       IN sessions' = IF same THEN [sessions EXCEPT ![r] =
                          [openid |-> csnap[c].openid, scan |-> csnap[c].cred.scan]]
                      ELSE sessions
    /\ Return(c)
    /\ UNCHANGED <<row, server, workerVars, operatorVars, scans, lost>>

\* InvalidateSessionForAccount: only while the account still is that authorization.
DropSession(c, r) ==
    /\ cpc[c] = "call"
    /\ csnap[c].status # "session_only"
    /\ sessions' = IF row.openid = csnap[c].openid /\ row.cred = csnap[c].cred
                     THEN [sessions EXCEPT ![r] = NoSession] ELSE sessions
    /\ Return(c)
    /\ UNCHANGED <<row, server, workerVars, operatorVars, scans, lost>>

\* A session_only account whose route has no session any more is to expire.
FindNoSession(c, r) ==
    /\ cpc[c] = "call"
    /\ csnap[c].status = "session_only" /\ sessions[r] = NoSession
    /\ cpc' = [cpc EXCEPT ![c] = "expire"]
    /\ UNCHANGED <<row, sessions, server, workerVars, csnap, operatorVars, scans, lost>>

ExpireSessionOnly(c) ==
    /\ cpc[c] = "expire"
    /\ IF Unchanged(csnap[c])
         THEN row' = Expired(csnap[c]) /\ sessions' = NoSessions
         ELSE UNCHANGED <<row, sessions>>
    /\ Return(c)
    /\ UNCHANGED <<server, workerVars, operatorVars, scans, lost>>

\* The call ends without touching the store.
EndCall(c) ==
    /\ cpc[c] = "call"
    /\ Return(c)
    /\ UNCHANGED <<row, sessions, server, workerVars, operatorVars, scans, lost>>

\* A session whose key deadline has passed is no session any more (cachedSession).
SessionLapses(r) ==
    /\ sessions[r] # NoSession
    /\ sessions' = [sessions EXCEPT ![r] = NoSession]
    /\ UNCHANGED <<row, server, workerVars, clientVars, operatorVars, scans, lost>>

CallStep(c) == \/ BeginCall(c) \/ LookAgain(c) \/ ExpireSessionOnly(c) \/ EndCall(c)
               \/ \E r \in Routes : StoreSession(c, r) \/ DropSession(c, r) \/ FindNoSession(c, r)

--------------------------------------------------------------------------------
(* The environment.                                                            *)

\* WeChat revokes an authorization (a login elsewhere, a security action).
Revoke(n) ==
    /\ server[n] > 0
    /\ server' = [server EXCEPT ![n] = 0]
    /\ UNCHANGED <<row, sessions, workerVars, clientVars, operatorVars, scans, lost>>

\* The process dies: locks and requests in flight go, the database stays.
Crash ==
    /\ lost' = lost \cup {snap[w].cred : w \in {v \in Workers : pc[v] = "save"}}
    /\ lock' = None
    /\ pc' = [w \in Workers |-> "idle"] /\ snap' = [w \in Workers |-> NoRow]
    /\ verdict' = [w \in Workers |-> "unknown"]
    /\ cpc' = [c \in Clients |-> "idle"] /\ csnap' = [c \in Clients |-> NoRow]
    /\ operator' = "idle"
    /\ UNCHANGED <<row, sessions, server, clicks, touched, scans>>

\* Everything that happens while the process stays up.
Running == \/ \E w \in Workers : RefreshStep(w)
           \/ \E c \in Clients : CallStep(c)
           \/ \E openid \in OpenIDs : Scan(openid) \/ UpdateFromLink(openid)
           \/ \E status \in {"alive", "expired"} : ResolveStatusChange(status)
           \/ \E r \in Routes : SessionLapses(r)
           \/ \E n \in 1..MaxScan : Revoke(n)
           \/ SetAccountStatus \/ PurgeSessions \/ OperatorFails \/ Delete

Next == Running \/ Crash

Spec == Init /\ [][Next]_vars

\* The keepalive loop, where it visits the account, starts a refresh of a live row
\* again and again, and each refresh runs to its end (its requests have timeouts); a
\* token that WeChat no longer accepts is not hidden behind transport failures for
\* ever, nor is the status that says so lost to failing writes for ever.
Withdraws(w) == verdict[w] \in {"expired", "session_only"} /\ ApplyFailure(w)
FairSpec == /\ Init /\ [][Running]_vars
            /\ \A w \in Workers : /\ WF_vars(KeepAlive(w)) /\ WF_vars(Proceed(w))
                                  /\ SF_vars(ExchangeRejected(w)) /\ SF_vars(Withdraws(w))

--------------------------------------------------------------------------------
(* Properties.                                                                 *)

TypeOK ==
    /\ row \in Row
    /\ sessions \in [Routes -> Session]
    /\ server \in [1..MaxScan -> 0..MaxSeq]
    /\ lock \in Workers \cup {None}
    /\ pc \in [Workers -> {"idle", "missing", "exchange", "mark", "save", "reread", "fetch", "store"}]
    /\ snap \in [Workers -> Row]
    /\ verdict \in [Workers -> Statuses]
    /\ cpc \in [Clients -> {"idle", "call", "expire"}]
    /\ csnap \in [Clients -> Row]
    /\ operator \in {"idle", "alive", "expired", "purge"}
    /\ clicks \in 0..MaxClicks
    /\ scans \in 0..MaxScan
    /\ lost \subseteq Cred /\ touched \subseteq Cred

\* A stored session was logged in by the identity the row has now, and no session
\* outlives its row: an account ID that is freed and taken by another identity,
\* or relinked to one, never hands that identity the previous one's session.
SessionIdentity == \A r \in Routes : sessions[r] # NoSession => sessions[r].openid = row.openid

\* A row whose authorization was rejected or withdrawn keeps no token and no login
\* buffer, whichever of the refresh, the protocol call and the operator got there
\* first (keepChannelMarkers and the wipes of ApplyCredentialRefresh).
RejectedHoldsNoToken ==
    row.status \in {"expired", "session_only"} => ~HasToken(row.cred) /\ row.buffer = 0

\* The token in the row is the newest one, unless there is a reason that the
\* service cannot help: WeChat revoked it, the successor is in the hands of the
\* worker about to save it, was lost on the way, or was discarded because the
\* operator changed the status under that very token.
TokenAccountedFor ==
    HasToken(row.cred) =>
        \/ Accepted(row.cred)
        \/ server[row.cred.scan] = 0
        \/ \E w \in Workers : pc[w] = "save" /\ snap[w].cred = row.cred
        \/ row.cred \in lost \cup touched

\* A refresh never withdraws a good authorization: when it turns the row expired
\* or session_only, the token was dead for one of those reasons and its successor
\* is not still on its way into the store.
WithdrawsOnlyDead ==
    [][\A w \in Workers :
          pc[w] = "mark" /\ pc'[w] = "idle" /\ HasToken(row.cred) /\ row'.status \in {"expired", "session_only"}
          /\ row' # row
          => \/ server[row.cred.scan] = 0
             \/ row.cred \in lost \cup touched]_vars

\* Once a row holds no token, or is gone, only a new scan puts one there: no
\* refresh or login that started before the expiry, deletion or rescan brings the
\* old authorization back.
NoRevivalWithoutScan ==
    [][~HasToken(row.cred) /\ HasToken(row'.cred) => scans' # scans]_vars

\* A row that looks usable while WeChat no longer takes its token does not stay
\* so, where the keepalive loop visits the account: it withdraws the row, unless a
\* scan, a deletion or the operator gets there first.  Racing writes, transport
\* failures and failing writes only ever discard its verdict finitely often.
DeadTokenIsNoticed ==
    (KeptAlive /\ row.status \in {"alive", "unknown"} /\ HasToken(row.cred) /\ ~Accepted(row.cred))
        ~> (row.status \notin {"alive", "unknown"} \/ Accepted(row.cred) \/ ~HasToken(row.cred))

\* The row's authorization behaves as the register: scans grant it, each renewal
\* is one rotation, and a withdrawn one stays away.
Register == INSTANCE AuthorizationRegister WITH
                auth <- IF HasToken(row.cred) THEN row.cred ELSE NoCred,
                issued <- scans
RegisterSpec == Register!Spec

--------------------------------------------------------------------------------
(* Statements of the documentation that the code does not keep.                *)

\* docs/credential-session-layers.md:12: session_only cannot be turned back to
\* normal by hand; only a new authorization does it.
SessionOnlyNotRevivedByHand ==
    [][row.status = "session_only" /\ row'.status = "alive" => scans' # scans]_vars

\* docs/native-autoauth-recovery.md:14: a rescan keeps clearing the old session.
RescanClearsSessions ==
    \A r \in Routes : HasToken(row.cred) /\ sessions[r] # NoSession
                      => sessions[r].scan = row.cred.scan
================================================================================
