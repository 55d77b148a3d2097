--------------------------------- MODULE Pacer ---------------------------------
(* accountPacer: spaces the upstream requests of one account.  A caller reads  *)
(* the clock, then takes the mutex and claims the next slot; between the two   *)
(* the clock moves on and others claim theirs.  Times are ticks.               *)
EXTENDS Integers, FiniteSets

CONSTANTS Accounts,     \* accounts asked for
          None,         \* no account: an idle caller
          Callers,      \* concurrent requests
          Settings,     \* what tuning.json may say: [gap, wait]; gap 0 is off
          MaxPaced,     \* maxPacedAccounts: table size that starts a prune
          SummaryEvery, \* pacingSummaryEvery
          MaxLag,       \* bound on the clock's advance between its read and the mutex
          MaxTime       \* bound on the clock

ASSUME SettingsAssumption == Settings \subseteq [gap : Nat, wait : Nat] /\ Settings # {}
ASSUME NoneAssumption == None \notin Accounts
ASSUME TimeAssumption == MaxLag \in Nat /\ MaxTime \in Nat \ {0} /\ SummaryEvery \in Nat

VARIABLES clock,        \* time.Now, from 1: 0 is the zero time
          settings,     \* the settings in force
          queue,        \* tracked account -> [next, busy, since]
          pc,           \* caller -> idle, stamped or waiting
          asked,        \* caller -> the account it asks for
          stamp,        \* caller -> the clock it read
          slot,         \* caller -> the slot it waits for
          due           \* ghost: account -> its last slot plus that slot's gap

vars == <<clock, settings, queue, pc, asked, stamp, slot, due>>
callerVars == <<pc, asked, stamp, slot>>

--------------------------------------------------------------------------------
Later(s, t) == IF s < t THEN t ELSE s

\* busy: something to report (waited + refused > 0); since: start of that report.
NewAccount == [next |-> 0, busy |-> FALSE, since |-> 0]
Tracked == DOMAIN queue
Entry(a) == IF a \in Tracked THEN queue[a] ELSE NewAccount

\* pruneLocked: a newcomer to a full table makes it forget the drained accounts.
\* Fault: an account with nothing to report is forgotten although its queue is not empty.
Quiet(a, now) == ~queue[a].busy
Drained(a, now) == queue[a].next <= now /\ ~queue[a].busy
Kept(a, now) == IF a \in Tracked \/ Cardinality(Tracked) < MaxPaced THEN Tracked
                ELSE {b \in Tracked : ~Drained(b, now)}

\* Fault: a report starts the whole account afresh, its queue included.
ReportResets(st, now) ==
    IF ~st.busy THEN st
    ELSE IF st.since = 0 THEN [st EXCEPT !.since = now]
    ELSE IF now - st.since >= SummaryEvery THEN NewAccount
    ELSE st

\* The burst report: started by the first wait or refusal, sent after SummaryEvery.
Reported(st, now) ==
    IF ~st.busy THEN st
    ELSE IF st.since = 0 THEN [st EXCEPT !.since = now]
    ELSE IF now - st.since >= SummaryEvery THEN [next |-> st.next, busy |-> FALSE, since |-> 0]
    ELSE st

\* The slot a request that read the clock at now is offered.
Offered(a, now) == Later(Entry(a).next, now)

\* The account table after the request; the entry of a is st.
Stored(a, now, st) ==
    [b \in Kept(a, now) \cup {a} |-> IF b = a THEN Reported(st, now) ELSE queue[b]]

Init == /\ clock = 1
        /\ settings \in Settings
        /\ queue = [a \in {} |-> NewAccount]
        /\ pc = [c \in Callers |-> "idle"]
        /\ asked = [c \in Callers |-> None]
        /\ stamp = [c \in Callers |-> 0]
        /\ slot = [c \in Callers |-> 0]
        /\ due = [a \in Accounts |-> 0]

--------------------------------------------------------------------------------
(* reserve, in its two steps.                                                  *)

ReadClock(c) ==
    /\ pc[c] = "idle"
    /\ \E a \in Accounts : asked' = [asked EXCEPT ![c] = a]
    /\ pc' = [pc EXCEPT ![c] = "stamped"]
    /\ stamp' = [stamp EXCEPT ![c] = clock]
    /\ UNCHANGED <<clock, settings, queue, slot, due>>

\* Fault: the caller keeps its place when it is done.
LeaveOpen(c) == pc' = [pc EXCEPT ![c] = "idle"] /\ UNCHANGED <<asked, stamp, slot>>

Leave(c) == /\ pc' = [pc EXCEPT ![c] = "idle"]
            /\ asked' = [asked EXCEPT ![c] = None]
            /\ stamp' = [stamp EXCEPT ![c] = 0]
            /\ slot' = [slot EXCEPT ![c] = 0]

\* Pacing is off: the request goes through and claims nothing.
Unpaced(c) ==
    /\ pc[c] = "stamped" /\ settings.gap = 0
    /\ Leave(c)
    /\ UNCHANGED <<clock, settings, queue, due>>

\* Fault: no limit on the wait.
ClaimUnbounded(c) ==
    LET a == asked[c]
        now == stamp[c]
        s == Offered(a, now)
        busy == Entry(a).busy \/ s > now
    IN /\ pc[c] = "stamped" /\ settings.gap > 0
       /\ queue' = Stored(a, now, [next |-> s + settings.gap, busy |-> busy, since |-> Entry(a).since])
       /\ due' = [due EXCEPT ![a] = s + settings.gap]
       /\ slot' = [slot EXCEPT ![c] = s]
       /\ pc' = [pc EXCEPT ![c] = "waiting"]
       /\ UNCHANGED <<clock, settings, asked, stamp>>

\* The offered slot is near enough: the caller waits for it.
Claim(c) ==
    LET a == asked[c]
        now == stamp[c]
        s == Offered(a, now)
        busy == Entry(a).busy \/ s > now
    IN /\ pc[c] = "stamped" /\ settings.gap > 0
       /\ s - now <= settings.wait
       /\ queue' = Stored(a, now, [next |-> s + settings.gap, busy |-> busy,
                                   since |-> Entry(a).since])
       /\ due' = [due EXCEPT ![a] = s + settings.gap]
       /\ slot' = [slot EXCEPT ![c] = s]
       /\ pc' = [pc EXCEPT ![c] = "waiting"]
       /\ UNCHANGED <<clock, settings, asked, stamp>>

\* The queue is full: refused at once, and the slot is left to the next one.
Refuse(c) ==
    LET a == asked[c]
        now == stamp[c]
    IN /\ pc[c] = "stamped" /\ settings.gap > 0
       /\ Offered(a, now) - now > settings.wait
       /\ queue' = Stored(a, now, [Entry(a) EXCEPT !.busy = TRUE])
       /\ Leave(c)
       /\ UNCHANGED <<clock, settings, due>>

\* paceWXApp: the timer fires at the slot or later, never before ...
Start(c) ==
    /\ pc[c] = "waiting" /\ clock >= slot[c]
    /\ Leave(c)
    /\ UNCHANGED <<clock, settings, queue, due>>

\* ... or the request gives up; its slot is not handed back.
Cancel(c) ==
    /\ pc[c] = "waiting"
    /\ Leave(c)
    /\ UNCHANGED <<clock, settings, queue, due>>

\* settingsLocked: an edited tuning.json is picked up.
Reload ==
    /\ settings' \in Settings \ {settings}
    /\ UNCHANGED <<clock, queue, callerVars, due>>

\* A caller that read the clock reaches the mutex within MaxLag ticks, and a
\* waiting one is not left to sleep much past its slot.
Tick ==
    /\ clock < MaxTime
    /\ \A c \in Callers : /\ pc[c] = "stamped" => clock - stamp[c] < MaxLag
                          /\ pc[c] = "waiting" => clock - slot[c] < MaxLag
    /\ clock' = clock + 1
    /\ UNCHANGED <<settings, queue, callerVars, due>>

Next == \/ \E c \in Callers : ReadClock(c) \/ Unpaced(c) \/ Claim(c) \/ Refuse(c) \/ Start(c) \/ Cancel(c)
        \/ Reload \/ Tick

Spec == Init /\ [][Next]_vars

--------------------------------------------------------------------------------
(* Properties.                                                                 *)

Times == 0..MaxTime
PacedAccount == [next : Nat, busy : BOOLEAN, since : Times]

TypeOK ==
    /\ clock \in 1..MaxTime
    /\ settings \in Settings
    /\ Tracked \subseteq Accounts
    /\ \A a \in Tracked : queue[a] \in PacedAccount
    /\ pc \in [Callers -> {"idle", "stamped", "waiting"}]
    /\ asked \in [Callers -> Accounts \cup {None}]
    /\ \A c \in Callers : asked[c] = None <=> pc[c] = "idle"
    /\ stamp \in [Callers -> Times]
    /\ slot \in [Callers -> Nat]
    /\ due \in [Accounts -> Nat]

\* A slot comes no sooner after the account's previous one than that one's gap.
\* Only a table prune between a caller's clock read and its turn at the mutex can
\* shorten it, by no more than that delay: the fresh entry has forgotten the queue.
SlotsSpaced ==
    [][\A c \in Callers : pc[c] = "stamped" /\ pc'[c] = "waiting"
                          => slot'[c] + MaxLag >= due[asked[c]]]_vars

\* With an entry in the table there is no such loss: the gap is exact, however
\* stale the caller's clock is.
TrackedSlotsExact ==
    [][\A c \in Callers : pc[c] = "stamped" /\ pc'[c] = "waiting" /\ asked[c] \in Tracked
                          => slot'[c] >= due[asked[c]]]_vars

\* "The queue stays short" (pacing.go:28): however requests, refusals, prunes and
\* edits of the settings interleave, the callers still ahead of their slot, one
\* gap apart, fit into the longest wait the settings allow.
Ahead(a) == {c \in Callers : asked[c] = a /\ pc[c] = "waiting" /\ slot[c] > clock}
Covers(gap, wait) == \A s \in Settings : s.gap = 0 \/ (gap <= s.gap /\ s.wait <= wait)
QueueShort ==
    \A a \in Accounts : \A s, t \in Settings :
        s.gap > 0 /\ Covers(s.gap, t.wait) => (Cardinality(Ahead(a)) - 1) * s.gap < t.wait
================================================================================
