------------------------------ MODULE CodeSession ------------------------------
(* The protocol session of one account on one egress route: wx.login code      *)
(* requests and other data calls that share it, its recovery after an          *)
(* application -14, the one-shot AutoAuth key kept with it, and the login       *)
(* budget, across re-authorizations, refused refreshes and restarts.           *)
(*                                                                             *)
(* A session is named by id; the key issued with it by the same id.  Two locks  *)
(* are taken in order: the account's code lock, then the route's state lock.   *)
EXTENDS LoginBudget

CONSTANTS CodeCalls,    \* requests for a wx.login code (getcode)
          DataCalls,    \* phone number and OperateWXData requests
          AppIDs,       \* target mini programs
          AppOf,        \* code request -> its AppID
          None,         \* no lock holder, no session, nothing recorded
          HasResidue,   \* a refused authorization leaves its scan time behind
          FreshWindow,  \* how long a session that served a code is trusted
          RepairWindow, \* backoff after a repair that did not succeed
          MaxSessions,  \* bound on sessions issued upstream
          MaxAuth,      \* bound on authorizations
          MaxTime,      \* bound on the clock
          MaxCrashes    \* bound on restarts

Calls == CodeCalls \cup DataCalls

ASSUME CallsAssumption == /\ CodeCalls \cap DataCalls = {} /\ None \notin Calls
                          /\ AppOf \in [CodeCalls -> AppIDs]
ASSUME ResidueAssumption == HasResidue \in BOOLEAN
ASSUME SessionBounds == /\ MaxSessions \in Nat \ {0} /\ MaxAuth \in Nat \ {0} /\ MaxTime \in Nat
                        /\ MaxCrashes \in Nat /\ FreshWindow \in Nat /\ RepairWindow \in Nat

VARIABLES acc,          \* the account row: which authorization, and its status
          row,          \* the stored session of this route, or None
          issued,       \* upstream: sessions (and keys) issued so far
          codeLock,     \* codeLockFor(account): its holder
          stateLock,    \* lockFor(account, route): its holder
          verified,     \* Pool.verified: the session that served the last code
          repairs,      \* Pool.codeRepairs: AppID -> the attempt in force
          pc,           \* call -> where it is
          mode,         \* call -> inside GetCode or inside RecoverCodeSession
          round,        \* call -> first try, or the one replay of invokeWXApp
          again,        \* call -> its one retry of this mode is used up
          snap,         \* call -> the account it was called with
          hand,         \* call -> the session it works on
          base,         \* call -> the stored row its next write must still find
          sent,         \* ghost: key -> times it went upstream
          served,       \* ghost: session -> when it last returned a code
          crashes

store == <<acc, row>>
memory == <<codeLock, stateLock, verified, repairs>>
call == <<pc, mode, round, again, snap, hand, base>>
ghosts == <<sent, served>>
vars == <<store, memory, call, ghosts, issued, crashes, now, budgetVars>>

--------------------------------------------------------------------------------
Statuses == {"alive", "session_only", "expired"}
Account == [auth : 1..MaxAuth, status : Statuses]

\* live: the PSK deadline stored in the blob has not passed.  spent: AttemptedAt
\* is set, or no usable key came with the session.  owner: whose ticket opened it.
Session == [id : 1..MaxSessions, owner : 1..MaxAuth, live : BOOLEAN, spent : BOOLEAN]
NoSession == [id |-> 0, owner |-> 0, live |-> FALSE, spent |-> TRUE]

\* Of a success or a repair that is not on record.
NoAccount == [auth |-> 0, status |-> "expired"]

\* Which authorization the credentials column still tells: the tokens do, a
\* refused authorization keeps at most its scan time, an expired one nothing.
Credentials(a) == IF a.status = "alive" THEN <<"tokens", a.auth>>
                  ELSE IF a.status = "session_only" /\ HasResidue THEN <<"residue", a.auth>>
                  ELSE <<"none", 0>>
SameAs(a, b) == Credentials(a) = Credentials(b)
SameAuthorization(a) == SameAs(acc, a)
SessionOnly(a) == a.status = "session_only"

Cached == row.live                      \* cachedSession finds it
HasNative == row # NoSession /\ ~row.spent
Reusable == Cached \/ HasNative

Pcs == {"idle", "codelock", "check", "lookup", "statelock", "recheck", "login", "put", "use",
        "droplock", "dropread", "drop", "rotate", "sendkey", "keyreply", "savekey",
        "rcodelock", "rstatelock", "rcheck", "rverified", "register", "probe", "rfetch",
        "rsend", "rsave", "buffer", "unclassified", "refused", "ask", "fetch", "gate",
        "ticketgate", "discard", "refresh", "replay", "expire", "done"}

TypeOK == /\ acc \in Account /\ row \in Session \cup {NoSession}
          /\ issued \in 0..MaxSessions
          /\ codeLock \in CodeCalls \cup {None} /\ stateLock \in Calls \cup {None}
          /\ verified \in [id : 0..MaxSessions, by : Account \cup {NoAccount}, at : 0..MaxTime]
          /\ repairs \in [AppIDs -> [by : Account \cup {NoAccount}, at : 0..MaxTime]]
          /\ pc \in [Calls -> Pcs] /\ mode \in [Calls -> {"call", "recover"}]
          /\ round \in [Calls -> 1..2] /\ again \in [Calls -> BOOLEAN]
          /\ snap \in [Calls -> Account]
          /\ hand \in [Calls -> Session \cup {NoSession}]
          /\ base \in [Calls -> Session \cup {NoSession}]
          /\ sent \in [1..MaxSessions -> Nat] /\ served \in [1..MaxSessions -> -1..MaxTime]
          /\ now \in 0..MaxTime /\ crashes \in 0..MaxCrashes

NotVerified == [id |-> 0, by |-> NoAccount, at |-> 0]
NoRepair == [by |-> NoAccount, at |-> 0]

\* A process starts with what an earlier one left in the store.
Init == /\ \E live, spent \in BOOLEAN :
              row \in {NoSession, [id |-> 1, owner |-> 1, live |-> live, spent |-> spent]}
        /\ issued = row.id
        /\ \E status \in {"alive", "session_only"} : acc = [auth |-> 1, status |-> status]
        /\ SessionOnly(acc) => Reusable
        /\ codeLock = None /\ stateLock = None
        /\ verified = NotVerified /\ repairs = [a \in AppIDs |-> NoRepair]
        /\ pc = [c \in Calls |-> "idle"] /\ mode = [c \in Calls |-> "call"]
        /\ round = [c \in Calls |-> 1] /\ again = [c \in Calls |-> FALSE]
        /\ snap = [c \in Calls |-> acc]
        /\ hand = [c \in Calls |-> NoSession] /\ base = [c \in Calls |-> NoSession]
        /\ sent = [k \in 1..MaxSessions |-> 0] /\ served = [k \in 1..MaxSessions |-> -1]
        /\ now = 0 /\ crashes = 0 /\ BudgetInit

Goto(c, label) == pc' = [pc EXCEPT ![c] = label]
Hold(c, session) == hand' = [hand EXCEPT ![c] = session]
FreeState(c) == stateLock' = IF stateLock = c THEN None ELSE stateLock
\* Fault: a return that does not release the account's lock.
FreeCodeForgotten(c) == UNCHANGED codeLock
FreeCode(c) == codeLock' = IF codeLock = c THEN None ELSE codeLock

\* The call leaves the pool for the given place, its deferred releases done.
Leave(c, label) == /\ Goto(c, label) /\ FreeCode(c) /\ FreeState(c)
                   /\ hand' = [hand EXCEPT ![c] = NoSession]
                   /\ base' = [base EXCEPT ![c] = NoSession]
                   /\ mode' = [mode EXCEPT ![c] = "call"]
                   /\ again' = [again EXCEPT ![c] = FALSE]
                   /\ UNCHANGED <<round, snap>>
Finish(c) == Leave(c, "done")

\* A failure invokeWXApp does not recognise: one forced refresh, then a replay.
Unclassified(c) == Leave(c, IF round[c] = 1 /\ ~SessionOnly(snap[c]) THEN "unclassified" ELSE "done")

\* A restricted account's session is unusable: only the first try expires it.
Unusable(c) == Leave(c, IF round[c] = 1 THEN "expire" ELSE "done")

Stay == UNCHANGED <<mode, round, again, snap>>

--------------------------------------------------------------------------------
(* Pool.GetCode and Pool.state                                                 *)

Enter(c) == IF c \in CodeCalls THEN "codelock" ELSE "check"

Begin(c) ==
    /\ pc[c] = "idle" /\ acc.status # "expired"
    /\ snap' = [snap EXCEPT ![c] = acc]
    /\ Goto(c, Enter(c))
    /\ UNCHANGED <<store, memory, mode, round, again, hand, base, ghosts, issued, crashes, now, budgetVars>>

\* A restricted account without a usable key gets no rebuild-and-retry.
TakeCodeLock(c) ==
    /\ pc[c] = "codelock" /\ codeLock = None
    /\ codeLock' = c
    /\ again' = [again EXCEPT ![c] = SessionOnly(snap[c]) /\ ~HasNative]
    /\ Goto(c, "check")
    /\ UNCHANGED <<store, stateLock, verified, repairs, mode, round, snap, hand, base, ghosts, issued,
                   crashes, now, budgetVars>>

Check(c) ==
    /\ pc[c] = "check"
    /\ \/ SameAuthorization(snap[c]) /\ Goto(c, "lookup") /\ Stay
          /\ UNCHANGED <<codeLock, stateLock, hand, base>>
       \/ ~SameAuthorization(snap[c]) /\ Finish(c)
    /\ UNCHANGED <<store, verified, repairs, ghosts, issued, crashes, now, budgetVars>>

Lookup(c) ==
    /\ pc[c] = "lookup"
    /\ \/ Cached /\ Hold(c, row) /\ Goto(c, "use") /\ Stay /\ UNCHANGED <<codeLock, stateLock, base>>
       \/ ~Cached /\ SessionOnly(snap[c]) /\ ~HasNative /\ Unusable(c)
       \/ ~Cached /\ (~SessionOnly(snap[c]) \/ HasNative) /\ Goto(c, "statelock") /\ Stay
          /\ UNCHANGED <<codeLock, stateLock, hand, base>>
    /\ UNCHANGED <<store, verified, repairs, ghosts, issued, crashes, now, budgetVars>>

\* The places where a call waits for the state lock, and where it goes with it.
Behind(label) == CASE label = "statelock" -> "recheck"
                   [] label = "droplock" -> "dropread"
                   [] label = "rstatelock" -> "rcheck"

TakeStateLock(c) ==
    /\ pc[c] \in {"statelock", "droplock", "rstatelock"} /\ stateLock = None
    /\ stateLock' = c
    /\ Goto(c, Behind(pc[c]))
    /\ Stay
    /\ UNCHANGED <<store, codeLock, verified, repairs, hand, base, ghosts, issued, crashes, now, budgetVars>>

Recheck(c) ==
    /\ pc[c] = "recheck"
    /\ \/ ~SameAuthorization(snap[c]) /\ Finish(c)
       \/ /\ SameAuthorization(snap[c])
          /\ \/ Cached /\ Hold(c, row) /\ Goto(c, "use") /\ FreeState(c) /\ Stay /\ UNCHANGED <<codeLock, base>>
             \/ ~Cached /\ SessionOnly(acc) /\ HasNative /\ Hold(c, row) /\ Goto(c, "rotate") /\ Stay
                /\ UNCHANGED <<codeLock, stateLock, base>>
             \/ ~Cached /\ SessionOnly(acc) /\ ~HasNative /\ Unusable(c)
             \/ ~Cached /\ ~SessionOnly(acc) /\ Goto(c, "login") /\ Stay
                /\ UNCHANGED <<codeLock, stateLock, hand, base>>
    /\ UNCHANGED <<store, verified, repairs, ghosts, issued, crashes, now, budgetVars>>

\* loginAndSession: a new session under the caller's ticket, a ticket that is
\* rejected (-10), a failure of the network, or, in a call, one of no known kind.
Login(c) ==
    /\ pc[c] = "login"
    /\ \/ /\ issued < MaxSessions /\ issued' = issued + 1
          /\ snap[c].status = "alive"
          /\ \E spent \in BOOLEAN :
                Hold(c, [id |-> issued + 1, owner |-> snap[c].auth, live |-> TRUE, spent |-> spent])
          /\ Goto(c, IF mode[c] = "call" THEN "put" ELSE "rsend")
          /\ Stay /\ UNCHANGED <<codeLock, stateLock, base>>
       \/ /\ mode[c] = "call" /\ round[c] = 1 /\ ~SessionOnly(snap[c])
          /\ Leave(c, "buffer") /\ UNCHANGED issued
       \/ /\ mode[c] = "recover" /\ ~again[c] /\ Goto(c, "rfetch") /\ Stay
          /\ UNCHANGED <<codeLock, stateLock, hand, base, issued>>
       \/ mode[c] = "call" /\ Unclassified(c) /\ UNCHANGED issued
       \/ Finish(c) /\ UNCHANGED issued
    /\ UNCHANGED <<store, verified, repairs, ghosts, crashes, now, budgetVars>>

\* Fault: the replacement is not tied to the authorization it was made under.
WritableAny(c) == acc.status = "alive"
\* PutSessionForAccount writes only for the authorization the login was made with.
Writable(c) == SameAuthorization(snap[c]) /\ acc.status \notin {"expired", "session_only"}

Put(c) ==
    /\ pc[c] = "put"
    /\ \/ Writable(c) /\ row' = hand[c] /\ Goto(c, "use") /\ FreeState(c) /\ Stay
          /\ UNCHANGED <<codeLock, hand, base>>
       \/ ~Writable(c) /\ Finish(c) /\ UNCHANGED row
    /\ UNCHANGED <<acc, verified, repairs, ghosts, issued, crashes, now, budgetVars>>

\* markSessionVerified, when the request returns the code this session gave it.
Served(c) == /\ verified' = [id |-> hand[c].id, by |-> snap[c], at |-> now]
             /\ served' = [served EXCEPT ![hand[c].id] = now]

\* The request proper: a result, a -14, a payload error that may be a stale
\* session, a failure of no known kind, or one that says nothing about the session.
UseOK(c) ==
    /\ pc[c] = "use"
    /\ \/ c \in CodeCalls /\ Served(c)
       \/ c \in DataCalls /\ UNCHANGED <<verified, served>>
    /\ Finish(c)
    /\ UNCHANGED <<store, repairs, sent, issued, crashes, now, budgetVars>>

UseFails(c) ==
    /\ pc[c] = "use"
    /\ \/ c \in CodeCalls /\ Leave(c, "rcodelock")
       \/ c \in CodeCalls /\ ~again[c] /\ Goto(c, "droplock") /\ Stay
          /\ UNCHANGED <<codeLock, stateLock, hand, base>>
       \/ Unclassified(c)
       \/ Finish(c)
    /\ UNCHANGED <<store, verified, repairs, ghosts, issued, crashes, now, budgetVars>>

\* invalidateExpected, under the state lock: a row with a usable key keeps it.
DropRead(c) ==
    /\ pc[c] = "dropread"
    /\ \/ ~SameAuthorization(snap[c]) /\ Finish(c)
       \/ SameAuthorization(snap[c]) /\ HasNative /\ base' = [base EXCEPT ![c] = row] /\ Goto(c, "drop") /\ Stay
          /\ UNCHANGED <<codeLock, stateLock, hand>>
       \/ SameAuthorization(snap[c]) /\ ~HasNative /\ SessionOnly(acc) /\ Unusable(c)
       \/ SameAuthorization(snap[c]) /\ ~HasNative /\ ~SessionOnly(acc) /\ Goto(c, "drop") /\ Stay
          /\ UNCHANGED <<codeLock, stateLock, hand, base>>
    /\ UNCHANGED <<store, verified, repairs, ghosts, issued, crashes, now, budgetVars>>

\* ReplaceNativeSessionForAccount: the stored row is exactly the one in base, and
\* the account is the one of the call and not expired.
Replaceable(c) == row = base[c] /\ SameAuthorization(snap[c]) /\ acc.status # "expired"

Drop(c) ==
    /\ pc[c] = "drop"
    /\ \/ /\ base[c] # NoSession /\ Replaceable(c)
          /\ row' = [row EXCEPT !.live = FALSE]
       \/ /\ base[c] = NoSession
          /\ row' = IF SameAuthorization(snap[c]) THEN NoSession ELSE row
    /\ again' = [again EXCEPT ![c] = TRUE]
    /\ base' = [base EXCEPT ![c] = NoSession]
    /\ Hold(c, NoSession) /\ FreeState(c) /\ Goto(c, "check")
    /\ UNCHANGED <<acc, codeLock, verified, repairs, mode, round, snap, ghosts, issued, crashes, now, budgetVars>>

DropMissed(c) ==
    /\ pc[c] = "drop" /\ base[c] # NoSession /\ ~Replaceable(c)
    /\ Finish(c)
    /\ UNCHANGED <<store, verified, repairs, ghosts, issued, crashes, now, budgetVars>>

--------------------------------------------------------------------------------
(* restoreNativeSession: spend the key in the store, send it once, store what   *)
(* it was exchanged for.                                                       *)

\* Fault: the key is sent before its use is recorded.
ConsumeUnmarked(c) ==
    /\ pc[c] = "rotate"
    /\ \/ /\ row = hand[c] /\ SameAuthorization(snap[c]) /\ acc.status # "expired"
          /\ base' = [base EXCEPT ![c] = row] /\ Goto(c, "sendkey") /\ Stay
          /\ UNCHANGED <<row, codeLock, stateLock, hand>>
       \/ Finish(c) /\ UNCHANGED row
    /\ UNCHANGED <<acc, verified, repairs, ghosts, issued, crashes, now, budgetVars>>

\* consume(), called once the connection stands.
Consume(c) ==
    /\ pc[c] = "rotate"
    /\ \/ /\ row = hand[c] /\ SameAuthorization(snap[c]) /\ acc.status # "expired"
          /\ row' = [row EXCEPT !.spent = TRUE]
          /\ base' = [base EXCEPT ![c] = row'] /\ Goto(c, "sendkey") /\ Stay
          /\ UNCHANGED <<codeLock, stateLock, hand>>
       \/ Finish(c) /\ UNCHANGED row
    /\ UNCHANGED <<acc, verified, repairs, ghosts, issued, crashes, now, budgetVars>>

SendKey(c) ==
    /\ pc[c] = "sendkey"
    /\ sent' = [sent EXCEPT ![hand[c].id] = @ + 1]
    /\ Goto(c, "keyreply")
    /\ Stay
    /\ UNCHANGED <<store, memory, hand, base, served, issued, crashes, now, budgetVars>>

\* The successor arrives, perhaps without a PSK to go with it; or the reply is
\* lost or a refusal, and the key is gone.
KeyReply(c) ==
    /\ pc[c] = "keyreply"
    /\ \/ /\ issued < MaxSessions /\ issued' = issued + 1
          /\ \E live \in BOOLEAN :
                Hold(c, [id |-> issued + 1, owner |-> hand[c].owner, live |-> live, spent |-> FALSE])
          /\ Goto(c, "savekey") /\ Stay /\ UNCHANGED <<codeLock, stateLock, base>>
       \/ Finish(c) /\ UNCHANGED issued
    /\ UNCHANGED <<store, verified, repairs, ghosts, crashes, now, budgetVars>>

SaveKey(c) ==
    /\ pc[c] = "savekey"
    /\ \/ /\ Replaceable(c) /\ row' = hand[c]
          /\ \/ ~hand[c].live /\ Finish(c)
             \/ hand[c].live /\ mode[c] = "call" /\ Goto(c, "use") /\ FreeState(c) /\ Stay
                /\ base' = [base EXCEPT ![c] = NoSession] /\ UNCHANGED <<codeLock, hand>>
             \/ hand[c].live /\ mode[c] = "recover" /\ Goto(c, "rsend") /\ Stay
                /\ base' = [base EXCEPT ![c] = NoSession] /\ UNCHANGED <<codeLock, stateLock, hand>>
       \/ ~Replaceable(c) /\ Finish(c) /\ UNCHANGED row
    /\ UNCHANGED <<acc, verified, repairs, ghosts, issued, crashes, now, budgetVars>>

--------------------------------------------------------------------------------
(* Pool.RecoverCodeSession, after a -14                                        *)

TakeRecoveryLock(c) ==
    /\ pc[c] = "rcodelock"
    /\ \/ /\ ~SessionOnly(snap[c]) \/ HasNative
          /\ codeLock = None /\ codeLock' = c
          /\ mode' = [mode EXCEPT ![c] = "recover"]
          /\ Goto(c, "rstatelock")
          /\ UNCHANGED <<stateLock, hand, base, round, again, snap>>
       \/ SessionOnly(snap[c]) /\ ~HasNative /\ Finish(c)
    /\ UNCHANGED <<store, verified, repairs, ghosts, issued, crashes, now, budgetVars>>

RecoveryCheck(c) ==
    /\ pc[c] = "rcheck"
    /\ LET permitted == /\ SameAuthorization(snap[c]) /\ acc.status # "expired"
                        /\ SessionOnly(acc) => HasNative
       IN  \/ permitted /\ Goto(c, "rverified") /\ Stay /\ UNCHANGED <<codeLock, stateLock, hand, base>>
           \/ ~permitted /\ Finish(c)
    /\ UNCHANGED <<store, verified, repairs, ghosts, issued, crashes, now, budgetVars>>

\* Fault: any session of the account counts, not the one that served the code.
RecentlyVerifiedAny(c) == /\ verified # NotVerified /\ now - verified.at < FreshWindow
                          /\ SameAs(verified.by, snap[c]) /\ Cached
\* sessionRecentlyVerified: the fingerprint is that of the session now cached.
RecentlyVerified(c) == /\ verified # NotVerified /\ now - verified.at < FreshWindow
                       /\ SameAs(verified.by, snap[c])
                       /\ Cached /\ row.id = verified.id

SkipRecovery(c) ==
    /\ pc[c] = "rverified" /\ RecentlyVerified(c)
    /\ Finish(c)
    /\ UNCHANGED <<store, verified, repairs, ghosts, issued, crashes, now, budgetVars>>

NeedRecovery(c) ==
    /\ pc[c] = "rverified" /\ ~RecentlyVerified(c)
    /\ Goto(c, "register") /\ Stay
    /\ UNCHANGED <<store, memory, hand, base, ghosts, issued, crashes, now, budgetVars>>

\* The section under p.mu.  An older attempt of this AppID holds the next one off
\* unless it is stale or belongs to another authorization.
HeldOff(c) == LET previous == repairs[AppOf[c]]
              IN  /\ previous # NoRepair /\ SameAs(previous.by, snap[c])
                  /\ now - previous.at < RepairWindow
Swept == [a \in AppIDs |-> IF now - repairs[a].at >= RepairWindow THEN NoRepair ELSE repairs[a]]
\* Fault: the end of the backoff is recorded, and read as its beginning.
AttemptUntil(c) == [Swept EXCEPT ![AppOf[c]] = [by |-> snap[c], at |-> now + RepairWindow]]
Attempt(c) == [Swept EXCEPT ![AppOf[c]] = [by |-> snap[c], at |-> now]]

\* Fault: the attempt is registered before the budget is asked.
RegisterEarly(c) ==
    /\ pc[c] = "register" /\ ~HeldOff(c)
    /\ repairs' = Attempt(c)
    /\ \/ Grant /\ Goto(c, "probe") /\ Stay /\ UNCHANGED <<codeLock, stateLock, hand, base>>
       \/ Refuse /\ Finish(c)
    /\ UNCHANGED <<store, verified, ghosts, issued, crashes, now>>

Register(c) ==
    /\ pc[c] = "register" /\ ~HeldOff(c)
    /\ \/ Grant /\ repairs' = Attempt(c) /\ Goto(c, "probe") /\ Stay
          /\ UNCHANGED <<codeLock, stateLock, hand, base>>
       \/ Refuse /\ repairs' = Swept /\ Finish(c)
    /\ UNCHANGED <<store, verified, ghosts, issued, crashes, now>>

Deferred(c) ==
    /\ pc[c] = "register" /\ HeldOff(c)
    /\ repairs' = Swept
    /\ Finish(c)
    /\ UNCHANGED <<store, verified, ghosts, issued, crashes, now, budgetVars>>

\* A restricted account may only use its own key, any other its ticket.
Probe(c) ==
    /\ pc[c] = "probe"
    /\ \/ ~SessionOnly(snap[c]) /\ Goto(c, "login") /\ Stay /\ UNCHANGED <<codeLock, stateLock, hand, base>>
       \/ SessionOnly(snap[c]) /\ HasNative /\ Hold(c, row) /\ Goto(c, "rotate") /\ Stay
          /\ UNCHANGED <<codeLock, stateLock, base>>
       \/ SessionOnly(snap[c]) /\ ~HasNative /\ Unusable(c)
    /\ UNCHANGED <<store, verified, repairs, ghosts, issued, crashes, now, budgetVars>>

\* The saved ticket was rejected: fetch a fresh one and log in with it, unless
\* the access token itself is refused.
FetchTicket(c) ==
    /\ pc[c] = "rfetch"
    /\ \/ /\ again' = [again EXCEPT ![c] = TRUE] /\ Goto(c, "login")
          /\ UNCHANGED <<codeLock, stateLock, hand, base, mode, round, snap>>
       \/ Leave(c, IF round[c] = 1 THEN "refused" ELSE "done")
       \/ Finish(c)
    /\ UNCHANGED <<store, verified, repairs, ghosts, issued, crashes, now, budgetVars>>

ProbeCode(c) ==
    /\ pc[c] = "rsend"
    /\ \/ Goto(c, "rsave") /\ Stay /\ UNCHANGED <<codeLock, stateLock, hand, base>>
       \/ Finish(c)
    /\ UNCHANGED <<store, verified, repairs, ghosts, issued, crashes, now, budgetVars>>

\* The candidate replaces the stored session only now; a rotated one is already
\* stored, and only the authorization is checked again.
SaveCandidate(c) ==
    /\ pc[c] = "rsave"
    /\ LET kept == IF SessionOnly(snap[c]) THEN SameAuthorization(snap[c]) /\ acc.status # "expired"
                                          ELSE Writable(c)
       IN  \/ /\ kept
              /\ row' = IF SessionOnly(snap[c]) THEN row ELSE hand[c]
              /\ Served(c)
              /\ repairs' = [repairs EXCEPT ![AppOf[c]] = NoRepair]
           \/ ~kept /\ UNCHANGED <<row, verified, served, repairs>>
    /\ Finish(c)
    /\ UNCHANGED <<acc, sent, issued, crashes, now, budgetVars>>

--------------------------------------------------------------------------------
(* invokeWXApp, after the pool returned an error                               *)

\* Nothing is repaired for an authorization that has been replaced meanwhile.
AfterTriage(label) == CASE label = "buffer" -> "ask"
                        [] label = "unclassified" -> "gate"
                        [] label = "refused" -> "ticketgate"

Triage(c) ==
    /\ pc[c] \in {"buffer", "unclassified", "refused"}
    /\ \/ SameAuthorization(snap[c]) /\ Goto(c, AfterTriage(pc[c])) /\ Stay
          /\ UNCHANGED <<codeLock, stateLock, hand, base>>
       \/ ~SameAuthorization(snap[c]) /\ Finish(c)
    /\ UNCHANGED <<store, verified, repairs, ghosts, issued, crashes, now, budgetVars>>

\* AllowLogin, before a fresh ticket and before a forced refresh.
Permitted(label) == CASE label = "ask" -> "fetch"
                      [] label = "gate" -> "discard"
                      [] label = "ticketgate" -> "refresh"

AskBudget(c) ==
    /\ pc[c] \in {"ask", "gate", "ticketgate"}
    /\ \/ Grant /\ Goto(c, Permitted(pc[c])) /\ Stay /\ UNCHANGED <<codeLock, stateLock, hand, base>>
       \/ Refuse /\ Finish(c)
    /\ UNCHANGED <<store, verified, repairs, ghosts, issued, crashes, now>>

\* The rejected ticket is replaced for one replay of the request, unless the
\* access token is refused too.
FetchBuffer(c) ==
    /\ pc[c] = "fetch"
    /\ \/ Goto(c, Enter(c)) /\ round' = [round EXCEPT ![c] = 2]
          /\ UNCHANGED <<codeLock, stateLock, hand, base, mode, again, snap>>
       \/ Goto(c, "gate") /\ Stay /\ UNCHANGED <<codeLock, stateLock, hand, base>>
       \/ Finish(c)
    /\ UNCHANGED <<store, verified, repairs, ghosts, issued, crashes, now, budgetVars>>

\* Fault: the session is deleted whoever's authorization is stored now.
DiscardAny(c) ==
    /\ pc[c] = "discard"
    /\ row' = NoSession
    /\ Goto(c, "refresh") /\ Stay
    /\ UNCHANGED <<acc, memory, hand, base, ghosts, issued, crashes, now, budgetVars>>

\* InvalidateSessionForAccount, without any lock of the pool.
Discard(c) ==
    /\ pc[c] = "discard"
    /\ row' = IF SameAuthorization(snap[c]) THEN NoSession ELSE row
    /\ Goto(c, "refresh") /\ Stay
    /\ UNCHANGED <<acc, memory, hand, base, ghosts, issued, crashes, now, budgetVars>>

\* The outcomes of a refresh (one step here; CredentialRefresh has its steps).
Renewed == /\ acc.status = "alive" /\ acc.auth < MaxAuth
           /\ acc' = [acc EXCEPT !.auth = @ + 1] /\ UNCHANGED row
\* Fault: a refused authorization is kept as session_only, session or not.
RejectedKeeps == acc.status = "alive" /\ acc' = [acc EXCEPT !.status = "session_only"] /\ UNCHANGED row
Rejected == /\ acc.status = "alive"
            /\ acc' = [acc EXCEPT !.status = IF Reusable THEN "session_only" ELSE "expired"]
            /\ row' = IF Reusable THEN row ELSE NoSession

ForcedRefresh(c) ==
    /\ pc[c] = "refresh"
    /\ \/ Renewed /\ Goto(c, "replay") /\ Stay /\ UNCHANGED <<codeLock, stateLock, hand, base>>
       \/ Renewed /\ Finish(c)
       \/ Rejected /\ Finish(c)
       \/ Finish(c) /\ UNCHANGED store
    /\ UNCHANGED <<verified, repairs, ghosts, issued, crashes, now, budgetVars>>

Replay(c) ==
    /\ pc[c] = "replay"
    /\ snap' = [snap EXCEPT ![c] = acc]
    /\ round' = [round EXCEPT ![c] = 2]
    /\ Goto(c, Enter(c))
    /\ UNCHANGED <<store, memory, mode, again, hand, base, ghosts, issued, crashes, now, budgetVars>>

\* A restricted account whose session turned out unusable expires, if it still
\* is the account of the call.
Expire(c) ==
    /\ pc[c] = "expire"
    /\ IF SameAuthorization(snap[c]) /\ acc.status = snap[c].status
       THEN acc' = [acc EXCEPT !.status = "expired"] /\ row' = NoSession
       ELSE UNCHANGED store
    /\ Finish(c)
    /\ UNCHANGED <<verified, repairs, ghosts, issued, crashes, now, budgetVars>>

--------------------------------------------------------------------------------
\* A scan keeps the stored sessions, an update link deletes them.
Reauthorize ==
    /\ acc.auth < MaxAuth
    /\ acc' = [auth |-> acc.auth + 1, status |-> "alive"]
    /\ row' \in {row, NoSession}
    /\ UNCHANGED <<memory, call, ghosts, issued, crashes, now, budgetVars>>

BackgroundRefresh ==
    /\ Renewed \/ Rejected
    /\ UNCHANGED <<memory, call, ghosts, issued, crashes, now, budgetVars>>

Tick == /\ now < MaxTime /\ now' = now + 1
        /\ UNCHANGED <<store, memory, call, ghosts, issued, crashes, budgetVars>>

Prune == PruneAccount /\ UNCHANGED <<store, memory, call, ghosts, issued, crashes, now>>

\* The process stops and starts again: the store stays, the pool is new, and the
\* requests of before are gone.
Crash == /\ crashes < MaxCrashes /\ crashes' = crashes + 1
         /\ codeLock' = None /\ stateLock' = None
         /\ verified' = NotVerified /\ repairs' = [a \in AppIDs |-> NoRepair]
         /\ pc' = [c \in Calls |-> IF pc[c] = "idle" THEN "idle" ELSE "done"]
         /\ mode' = [c \in Calls |-> "call"] /\ again' = [c \in Calls |-> FALSE]
         /\ hand' = [c \in Calls |-> NoSession] /\ base' = [c \in Calls |-> NoSession]
         /\ UNCHANGED <<round, snap>>
         /\ BudgetReset
         /\ UNCHANGED <<store, ghosts, issued, now>>

Step(c) == \/ TakeCodeLock(c) \/ Check(c) \/ Lookup(c) \/ TakeStateLock(c) \/ Recheck(c)
           \/ Login(c) \/ Put(c) \/ UseOK(c) \/ UseFails(c)
           \/ DropRead(c) \/ Drop(c) \/ DropMissed(c)
           \/ Consume(c) \/ SendKey(c) \/ KeyReply(c) \/ SaveKey(c)
           \/ TakeRecoveryLock(c) \/ RecoveryCheck(c) \/ SkipRecovery(c) \/ NeedRecovery(c)
           \/ Register(c) \/ Deferred(c) \/ Probe(c) \/ FetchTicket(c) \/ ProbeCode(c)
           \/ SaveCandidate(c)
           \/ Triage(c) \/ AskBudget(c) \/ FetchBuffer(c) \/ Discard(c) \/ ForcedRefresh(c)
           \/ Replay(c) \/ Expire(c)

Next == \/ \E c \in Calls : Begin(c) \/ Step(c)
        \/ Reauthorize \/ BackgroundRefresh \/ Tick \/ Prune \/ Crash

\* A handler goroutine runs until it returns: sockets, locks and the database all
\* carry the deadline of the request.
Fairness == \A c \in Calls : WF_vars(Step(c))

Spec == Init /\ [][Next]_vars /\ Fairness

--------------------------------------------------------------------------------
\* The one-shot AutoAuth key is sent upstream at most once, whatever fails and
\* wherever the process stops between marking, sending and saving it
\* (autoauth.go:243: "a restart cannot replay a request").
KeySentOnce == \A k \in 1..MaxSessions : sent[k] <= 1

\* The reply to a key that was spent always finds the row it is to replace: no
\* invalidation, recovery or login of another request takes the row away while
\* the successor is on its way, unless the account was re-authorized or expired
\* (autoauth.go:260, pool.go:261, app.go:1604).
SuccessorHasAPlace == \A c \in Calls : pc[c] \in {"keyreply", "savekey"} => row = base[c] \/ acc # snap[c]

\* A session reaches the store only for the authorization whose ticket opened it,
\* or with the owner of the very session it replaces, as a key's successor has it,
\* although a scan or a refresh may complete while the login or the exchange is under way
\* (account_rebind.go:138, native_session.go:12).
StoredForItsAuthorization ==
    [][row'.id # row.id /\ row' # NoSession =>
          acc.status # "expired" /\ row'.owner \in {acc.auth, row.owner}]_vars

\* A -14 is taken for the AppID's own refusal only if the very session that is
\* stored now has returned a code within the fresh-session window.
SkipsOnlyWhatServed ==
    [][\A c \in Calls : pc[c] = "rverified" /\ pc'[c] = "done" /\ crashes' = crashes =>
            /\ Cached /\ served[row.id] >= 0 /\ now - served[row.id] < FreshWindow]_vars

\* A five minute backoff stands only for a login the budget let through, so a
\* request that was refused leaves none (code_recovery.go:305).
BackoffWasGranted == \A a \in AppIDs : repairs[a] # NoRepair => \E i \in DOMAIN grants : grants[i] = repairs[a].at

\* Where a call holds a session nobody else has seen: a login's, before it is put,
\* a rotation's, before it is saved, or a candidate under probe.
Unstored(c) == \/ pc[c] \in {"put", "savekey"}
               \/ pc[c] \in {"rsend", "rsave"} /\ ~SessionOnly(snap[c])

\* At most one session is on its way to the store: that of the state lock's holder.
InFlight == IF stateLock \in Calls /\ Unstored(stateLock) THEN hand[stateLock] ELSE NoSession

\* The store is a cell: a session enters it at most once, the newest one issued,
\* for the authorization that opened it or in place of the spent one it succeeds;
\* a spent key is never usable again, and a restricted account loses its session
\* only as a whole (account_rebind.go:138, native_session.go:12, pool.go:260,
\* app.go:1604).
Cell == INSTANCE SessionCell WITH auth <- acc.auth, status <- acc.status, cell <- row,
                                  inflight <- InFlight
CellSpec == Cell!Spec

\* Every request returns: the code lock, the state lock and the budget's refusals
\* never leave one waiting for ever.
RequestsReturn == \A c \in Calls : pc[c] # "idle" ~> pc[c] = "done"
================================================================================
