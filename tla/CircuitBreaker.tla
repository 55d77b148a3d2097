----------------------------- MODULE CircuitBreaker ----------------------------
(* circuitBreaker and its use by invokeWXApp: a request is checked, goes       *)
(* upstream, and its outcome is folded into a target layer (account, AppID,    *)
(* class) and a session layer (account).  check and record read the clock      *)
(* before they take the mutex, so outcomes may be folded in out of order.      *)
EXTENDS Integers, FiniteSets

CONSTANTS Keys,             \* targets asked for: [account, app, op]
          Requests,         \* concurrent requests
          None,             \* no target
          TargetAppRejects, TargetEmptyCodes, TargetCooldown, TargetWindow,
          SessionDistinct, SessionWindow, SessionCooldown,  \* circuitConfig, in ticks
          MaxTargets,       \* maxBreakerTargets
          IdleAge,          \* the hour after which an idle target may go
          MaxLag,           \* bound on the clock's advance between its read and the mutex
          MaxTime           \* bound on the clock

Accounts == {k.account : k \in Keys}
Apps == {k.app : k \in Keys}

ASSUME ConfigAssumption ==
    /\ {TargetAppRejects, TargetEmptyCodes, SessionDistinct, MaxTargets} \subseteq Nat \ {0}
    /\ {TargetCooldown, TargetWindow, SessionWindow, SessionCooldown, IdleAge} \subseteq Nat \ {0}
    /\ MaxLag \in Nat /\ MaxTime \in Nat \ {0}
ASSUME KeysAssumption == \A k, l \in Keys : /\ DOMAIN k = {"account", "app", "op"}
                                            /\ k.account = l.account /\ k.app = l.app /\ k.op = l.op => k = l
ASSUME NoneAssumption == None \notin Keys

VARIABLES clock,        \* time.Now, from 1: 0 is the zero time
          targets,      \* tracked key -> [app, empty, last, until]
          sessions,     \* account -> [recent : app -> last -14 or 0, until]
          flight,       \* request -> [key, from]: its target, and the earliest clock
                        \*            reading it may still record its outcome with
          rejected      \* ghost: account -> app -> newest -14 of a code request
                        \*        since the account's session layer was last reset

vars == <<clock, targets, sessions, flight, rejected>>

--------------------------------------------------------------------------------
NoTarget == [app |-> 0, empty |-> 0, last |-> 0, until |-> 0]
NoFlight == [key |-> None, from |-> 0]
Quiet == [a \in Apps |-> 0]
NoSession == [recent |-> Quiet, until |-> 0]

Tracked == DOMAIN targets
Open(entry, now) == now < entry.until

\* countsTowardSession: a code request, or one of no class at all.
CodeClasses == {"getCode", ""}
\* Fault: a refused phone or operate request is taken for evidence, too.
CountsAnyClass(op) == TRUE
CountsTowardSession(op) == op \in CodeClasses

\* check: both layers let the request through.
Allowed(k, now) == /\ ~Open(sessions[k.account], now)
                   /\ k \in Tracked => ~Open(targets[k], now)

--------------------------------------------------------------------------------
(* targetLocked: the tables that may be left when k is looked up.  A full one  *)
(* sheds its idle targets, then the least recently active closed one; it is    *)
(* left alone, and k untracked, when every target is open.                     *)

Active(now) == {j \in Tracked : Open(targets[j], now) \/ now - targets[j].last < IdleAge}

\* Fault: the least recently active target goes, open or not.
OldestOfAll(set, now) == {j \in set : \A i \in set : targets[j].last <= targets[i].last}
Oldest(set, now) ==
    LET closed == {j \in set : ~Open(targets[j], now)}
    IN {j \in closed : \A i \in closed : targets[j].last <= targets[i].last}

Full(set) == Cardinality(set) >= MaxTargets

\* Fault: a full table takes no newcomer, whatever its targets do.
RoomWithoutEviction(k, now) ==
    IF k \in Tracked \/ ~Full(Tracked) THEN {Tracked}
    ELSE IF ~Full(Active(now)) THEN {Active(now)} ELSE {}
\* Fault: the table sheds idle targets and grows if that was not enough.
RoomUnbounded(k, now) == IF k \in Tracked \/ ~Full(Tracked) THEN {Tracked} ELSE {Active(now)}
Room(k, now) ==
    IF k \in Tracked \/ ~Full(Tracked) THEN {Tracked}
    ELSE IF ~Full(Active(now)) THEN {Active(now)}
    ELSE {Active(now) \ {j} : j \in Oldest(Active(now), now)}

\* One more refusal of a target.  Refusals too far apart are not consecutive;
\* those that come in while it is open are counted for later.
Lapsed(t, now) == t.last # 0 /\ ~Open(t, now) /\ now - t.last > TargetWindow
Counted(t, outcome, now) ==
    LET app == (IF Lapsed(t, now) THEN 0 ELSE t.app) + (IF outcome = "appReject" THEN 1 ELSE 0)
        empty == (IF Lapsed(t, now) THEN 0 ELSE t.empty) + (IF outcome = "emptyCode" THEN 1 ELSE 0)
    IN IF ~Open(t, now) /\ (app >= TargetAppRejects \/ empty >= TargetEmptyCodes)
         THEN [app |-> 0, empty |-> 0, last |-> now, until |-> now + TargetCooldown]
         ELSE [app |-> app, empty |-> empty, last |-> now, until |-> t.until]

FoldTarget(k, outcome, now) ==
    IF Room(k, now) = {} THEN UNCHANGED targets
    ELSE \E kept \in Room(k, now) :
            targets' = [j \in kept \cup {k} |->
                IF j # k THEN targets[j]
                ELSE Counted(IF k \in Tracked THEN targets[k] ELSE NoTarget, outcome, now)]

\* One more -14 of a code request for app on the account with session entry s.
\* Fault: only the AppID just rejected is remembered.
RecentAlone(s, app, now) == [a \in Apps |-> IF a = app THEN now ELSE 0]
Recent(s, app, now) ==
    [a \in Apps |-> IF a = app THEN now
                    ELSE IF s.recent[a] < now - SessionWindow THEN 0 ELSE s.recent[a]]
SessionOpens(s, recent, now) ==
    ~Open(s, now) /\ Cardinality({a \in Apps : recent[a] # 0}) >= SessionDistinct

\* Fault: a rejection starts the session entry afresh.
FoldSessionAfresh(k, outcome, now) ==
    IF outcome # "appReject" \/ ~CountsTowardSession(k.op) THEN UNCHANGED sessions
    ELSE LET s == sessions[k.account]
             recent == Recent(s, k.app, now)
         IN sessions' = [sessions EXCEPT ![k.account] =
                IF SessionOpens(s, recent, now)
                  THEN [recent |-> Quiet, until |-> now + SessionCooldown]
                  ELSE [recent |-> recent, until |-> 0]]
FoldSession(k, outcome, now) ==
    IF outcome # "appReject" \/ ~CountsTowardSession(k.op) THEN UNCHANGED sessions
    ELSE LET s == sessions[k.account]
             recent == Recent(s, k.app, now)
         IN sessions' = [sessions EXCEPT ![k.account] =
                IF SessionOpens(s, recent, now)
                  THEN [recent |-> Quiet, until |-> now + SessionCooldown]
                  ELSE [recent |-> recent, until |-> s.until]]

--------------------------------------------------------------------------------
Init == /\ clock = 1
        /\ targets = [k \in {} |-> NoTarget]
        /\ sessions = [a \in Accounts |-> NoSession]
        /\ flight = [r \in Requests |-> NoFlight]
        /\ rejected = [a \in Accounts |-> Quiet]

\* Clock readings that may reach the mutex now.
Readings(from) == {now \in from..clock : clock - now <= MaxLag}

\* check lets the request through; from here it queues in the pacer and calls.
\* (A request that is held off changes nothing.)
Check(r, k) ==
    /\ flight[r] = NoFlight
    /\ \E now \in Readings(1) : Allowed(k, now)
    /\ flight' = [flight EXCEPT ![r] = [key |-> k, from |-> clock]]
    /\ UNCHANGED <<clock, targets, sessions, rejected>>

\* Fault: the request ends and its start is kept.
DropKeepsStart(r) ==
    /\ flight[r] # NoFlight
    /\ flight' = [flight EXCEPT ![r] = [key |-> None, from |-> flight[r].from]]
    /\ UNCHANGED <<clock, targets, sessions, rejected>>

\* The request gives up in the pacer, or fails in a way the breaker ignores.
Drop(r) ==
    /\ flight[r] # NoFlight
    /\ flight' = [flight EXCEPT ![r] = NoFlight]
    /\ UNCHANGED <<clock, targets, sessions, rejected>>

\* record with a success: this target and the account's session are clear.
Succeed(r) ==
    LET k == flight[r].key
    IN /\ flight[r] # NoFlight
       /\ targets' = [j \in Tracked \ {k} |-> targets[j]]
       /\ sessions' = [sessions EXCEPT ![k.account] = NoSession]
       /\ rejected' = [rejected EXCEPT ![k.account] = Quiet]
       /\ flight' = [flight EXCEPT ![r] = NoFlight]
       /\ UNCHANGED clock

\* record with an application-layer -14 or an empty code.
Refused(r, outcome) ==
    LET k == flight[r].key
        a == k.account
    IN /\ flight[r] # NoFlight
       /\ \E now \in Readings(flight[r].from) :
             /\ FoldTarget(k, outcome, now)
             /\ FoldSession(k, outcome, now)
             /\ rejected' = [rejected EXCEPT ![a] =
                   IF ~Open(sessions[a], now) /\ Open(sessions'[a], now) THEN Quiet
                   ELSE IF outcome = "appReject" /\ k.op \in CodeClasses /\ @[k.app] < now
                   THEN [@ EXCEPT ![k.app] = now] ELSE @]
       /\ flight' = [flight EXCEPT ![r] = NoFlight]
       /\ UNCHANGED clock

\* forget: a scan, a link update or an operator's expiry.
Forget(a) ==
    /\ targets' = [k \in {j \in Tracked : j.account # a} |-> targets[k]]
    /\ sessions' = [sessions EXCEPT ![a] = NoSession]
    /\ rejected' = [rejected EXCEPT ![a] = Quiet]
    /\ UNCHANGED <<clock, flight>>

Tick == /\ clock < MaxTime
        /\ clock' = clock + 1
        /\ UNCHANGED <<targets, sessions, flight, rejected>>

Next == \/ \E r \in Requests : \/ \E k \in Keys : Check(r, k)
                               \/ \E outcome \in {"appReject", "emptyCode"} : Refused(r, outcome)
                               \/ Succeed(r) \/ Drop(r)
        \/ \E a \in Accounts : Forget(a)
        \/ Tick

Spec == Init /\ [][Next]_vars

--------------------------------------------------------------------------------
(* Properties.                                                                 *)

Times == 0..MaxTime
Deadlines(cooldown) == 0..(MaxTime + cooldown)

Target == [app : Nat, empty : Nat, last : Times, until : Deadlines(TargetCooldown)]
TypeOK ==
    /\ clock \in 1..MaxTime
    /\ Tracked \subseteq Keys /\ \A k \in Tracked : targets[k] \in Target
    /\ sessions \in [Accounts -> [recent : [Apps -> Times], until : Deadlines(SessionCooldown)]]
    /\ flight \in [Requests -> [key : Keys, from : Times] \cup {NoFlight}]
    /\ rejected \in [Accounts -> [Apps -> Times]]

\* In an action property: r's request ends.
Ends(r) == flight[r] # NoFlight /\ flight'[r] = NoFlight

\* The table does not outgrow its limit, however many AppIDs the callers walk.
TableBounded == Cardinality(Tracked) <= MaxTargets

\* A target that is held off stays held off until its deadline, however full the
\* table gets and however late a clock reading is folded in, unless a request for
\* it succeeds or its account gets a new start (forget).
TargetHolds ==
    [][\A k \in Tracked :
          Open(targets[k], clock) =>
              \/ k \in Tracked' /\ targets'[k].until >= targets[k].until
              \/ Forget(k.account)
              \/ \E r \in Requests : Ends(r) /\ flight[r].key = k /\ Succeed(r)]_vars

\* So does an account's session, whatever the requests that were under way when it
\* was held off come back with, but for a success.
SessionHolds ==
    [][\A a \in Accounts :
          Open(sessions[a], clock) =>
              \/ sessions'[a].until >= sessions[a].until
              \/ Forget(a)
              \/ \E r \in Requests : Ends(r) /\ flight[r].key.account = a /\ Succeed(r)]_vars

\* "So a new target is never silently left unprotected" (circuit.go:256): a refused
\* target is tracked afterwards, unless every slot of the table holds requests off.
RefusedIsTracked ==
    [][\A r \in Requests :
          Ends(r) /\ flight[r].key \notin Tracked' =>
              \/ \A k \in Tracked : Open(targets[k], clock - MaxLag)
              \/ ~\E outcome \in {"appReject", "emptyCode"} : Refused(r, outcome)]_vars

\* A whole account is held off only on evidence: code requests for SessionDistinct
\* AppIDs rejected within the window, none of them before a success, a new start or
\* an earlier lockout wiped the slate.
LockoutJustified ==
    [][\A r \in Requests : \A a \in Accounts :
          Ends(r) /\ sessions'[a].until > sessions[a].until =>
              LET k == flight[r].key
                  now == sessions'[a].until - SessionCooldown
              IN /\ k.account = a /\ k.op \in CodeClasses
                 /\ Cardinality({k.app} \cup {b \in Apps : rejected[a][b] # 0 /\ rejected[a][b] >= now - SessionWindow})
                       >= SessionDistinct]_vars

\* And the evidence is never missed: a rejection that leaves the account open has
\* fewer than SessionDistinct AppIDs rejected within the window, give or take twice the
\* delay with which clock readings are folded in.
LockoutNotMissed ==
    [][\A r \in Requests : \A a \in Accounts :
          LET app == flight[r].key.app
              now == sessions'[a].recent[app]
          IN Ends(r) /\ flight[r].key.account = a
             /\ sessions'[a].recent # sessions[a].recent /\ now # 0
             => \/ now < sessions[a].until
                \/ Cardinality({b \in Apps : rejected'[a][b] # 0
                                   /\ rejected'[a][b] >= now - SessionWindow + 2 * MaxLag}) < SessionDistinct]_vars

--------------------------------------------------------------------------------
(* A statement of the documentation that the code does not keep.               *)

\* circuit.go:49 and docs/code-circuit-breaker-20261101.md:34: a single success
\* clears both layers for that account.
SuccessClearsBothLayers ==
    [][\A r \in Requests :
          Succeed(r) => \A k \in Tracked' : k.account # flight[r].key.account]_vars
================================================================================
