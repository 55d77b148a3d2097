------------------------------ MODULE PacerProofs ------------------------------
(* For every set of accounts, callers and settings: slots of a tracked account *)
(* are never closer than the gap, those of any account by at most MaxLag, and   *)
(* the callers ahead of their slots fit into the longest wait.                 *)
EXTENDS Pacer, FiniteSetTheorems, TLAPS

\* A caller's clock reading is recent.
StampsRecent == \A c \in Callers : pc[c] = "stamped" => /\ stamp[c] \in 1..clock
                                                        /\ clock - stamp[c] <= MaxLag

\* The table is exact about the accounts it holds ...
TableExact == \A a \in Tracked : queue[a].next = due[a]

\* ... and has forgotten only accounts with no slot in front of them.
ForgottenDrained == \A a \in Accounts \ Tracked : due[a] <= clock

PInv == TypeOK /\ StampsRecent /\ TableExact /\ ForgottenDrained

--------------------------------------------------------------------------------
\* The report leaves the account's next slot alone.
LEMMA ReportKeepsNext ==
    ASSUME NEW st \in PacedAccount, NEW now \in Times
    PROVE  Reported(st, now) \in PacedAccount /\ Reported(st, now).next = st.next
  BY TimeAssumption DEF Reported, PacedAccount, Times

\* What an account is offered is no earlier than the clock reading nor its queue.
LEMMA OfferedLater ==
    ASSUME TypeOK, NEW a \in Accounts, NEW now \in Times
    PROVE  /\ Entry(a) \in PacedAccount
           /\ Offered(a, now) \in Nat
           /\ Offered(a, now) >= now
           /\ Offered(a, now) >= Entry(a).next
           /\ Offered(a, now) = now \/ Offered(a, now) = Entry(a).next
  <1>1. Entry(a) \in PacedAccount
    BY TimeAssumption DEF TypeOK, Entry, NewAccount, PacedAccount, Times
  <1>2. Entry(a).next \in Nat
    BY <1>1 DEF PacedAccount
  <1> QED
    BY <1>1, <1>2 DEF Offered, Later, Times

\* The table after a request: the entry's account has the entry's slot, the
\* others keep theirs, and whoever is gone has drained.
LEMMA StoredTable ==
    ASSUME TypeOK, NEW a \in Accounts, NEW now \in Times, NEW st \in PacedAccount
    PROVE  LET table == Stored(a, now, st)
           IN /\ DOMAIN table \subseteq Accounts
              /\ a \in DOMAIN table
              /\ \A b \in DOMAIN table : table[b] \in PacedAccount
              /\ table[a].next = st.next
              /\ \A b \in DOMAIN table \ {a} : b \in Tracked /\ table[b] = queue[b]
              /\ \A b \in Tracked \ DOMAIN table : queue[b].next <= now
  <1>1. Kept(a, now) \subseteq Tracked
    BY DEF Kept
  <1>2. \A b \in Tracked \ Kept(a, now) : queue[b].next <= now
    BY DEF Kept, Drained
  <1>3. Reported(st, now) \in PacedAccount /\ Reported(st, now).next = st.next
    BY ReportKeepsNext
  <1>4. Tracked \subseteq Accounts /\ \A b \in Tracked : queue[b] \in PacedAccount
    BY DEF TypeOK
  <1> QED
    BY <1>1, <1>2, <1>3, <1>4 DEF Stored

\* The empty table is exact and has forgotten nothing that is still due.
LEMMA InitPInv == Init => PInv
  BY TimeAssumption, SettingsAssumption
  DEF Init, PInv, TypeOK, StampsRecent, TableExact, ForgottenDrained, Tracked, Times, PacedAccount

--------------------------------------------------------------------------------
\* A step that leaves clock, table and slots alone keeps the invariant if it keeps
\* the callers' variables typed and adds no clock reading.
LEMMA LeaveKeepsPInv ==
    ASSUME PInv, NEW c \in Callers, Leave(c), UNCHANGED <<clock, settings, queue, due>>
    PROVE  PInv'
  BY TimeAssumption, NoneAssumption
  DEF PInv, TypeOK, StampsRecent, TableExact, ForgottenDrained, Leave, Tracked, Times

\* A reading taken now is recent.
LEMMA ReadClockKeepsPInv ==
    ASSUME PInv, NEW c \in Callers, ReadClock(c)
    PROVE  PInv'
  BY TimeAssumption, NoneAssumption
  DEF PInv, TypeOK, StampsRecent, TableExact, ForgottenDrained, ReadClock, Tracked, Times

\* The claimed slot is one the account is owed.
LEMMA ClaimKeepsPInv ==
    ASSUME PInv, NEW c \in Callers, Claim(c)
    PROVE  PInv'
  <1> DEFINE a == asked[c]
             now == stamp[c]
             s == Offered(a, now)
             st == [next |-> s + settings.gap, busy |-> Entry(a).busy \/ s > now,
                    since |-> Entry(a).since]
  <1>1. a \in Accounts /\ now \in Times /\ now <= clock /\ settings.gap \in Nat
    BY NoneAssumption, SettingsAssumption, TimeAssumption
    DEF PInv, TypeOK, StampsRecent, Claim, Times
  <1>2. Entry(a) \in PacedAccount /\ s \in Nat
    BY <1>1, OfferedLater DEF PInv
  <1>3. st \in PacedAccount
    BY <1>1, <1>2 DEF PacedAccount
  <1>4. /\ queue' = Stored(a, now, st)
        /\ due' = [due EXCEPT ![a] = s + settings.gap]
        /\ slot' = [slot EXCEPT ![c] = s]
        /\ pc' = [pc EXCEPT ![c] = "waiting"]
        /\ pc[c] = "stamped"
        /\ UNCHANGED <<clock, settings, asked, stamp>>
    BY DEF Claim
  <1> DEFINE table == Stored(a, now, st)
  <1>5. /\ DOMAIN table \subseteq Accounts
        /\ a \in DOMAIN table
        /\ \A b \in DOMAIN table : table[b] \in PacedAccount
        /\ table[a].next = st.next
        /\ \A b \in DOMAIN table \ {a} : b \in Tracked /\ table[b] = queue[b]
        /\ \A b \in Tracked \ DOMAIN table : queue[b].next <= now
    BY <1>1, <1>3, StoredTable DEF PInv
  <1>6. st.next = s + settings.gap
    OBVIOUS
  <1> HIDE DEF a, now, s, st, table
  <1>7. TypeOK'
    <2>1. Tracked' \subseteq Accounts /\ \A b \in Tracked' : queue'[b] \in PacedAccount
      BY <1>4, <1>5 DEF Tracked, table
    <2>2. due' \in [Accounts -> Nat] /\ slot' \in [Callers -> Nat]
      BY <1>1, <1>2, <1>4 DEF PInv, TypeOK
    <2> QED
      BY <1>4, <2>1, <2>2 DEF PInv, TypeOK, PacedAccount, Times
  <1>8. StampsRecent'
    BY <1>4 DEF PInv, TypeOK, StampsRecent
  <1>9. TableExact'
    BY <1>1, <1>4, <1>5, <1>6 DEF PInv, TypeOK, TableExact, Tracked, table
  <1>10. ForgottenDrained'
    <2> SUFFICES ASSUME NEW b \in Accounts \ Tracked' PROVE due'[b] <= clock'
      BY DEF ForgottenDrained
    <2>1. b # a /\ due'[b] = due[b] /\ clock' = clock
      BY <1>4, <1>5 DEF PInv, TypeOK, Tracked, table
    <2>2. CASE b \in Tracked
      <3>1. queue[b].next <= now /\ queue[b].next = due[b]
        BY <2>2, <1>4, <1>5 DEF PInv, TableExact, Tracked, table
      <3> QED
        BY <3>1, <2>1, <1>1 DEF PInv, TypeOK, Times
    <2>3. CASE b \notin Tracked
      BY <2>1, <2>3 DEF PInv, ForgottenDrained
    <2> QED BY <2>2, <2>3
  <1> QED BY <1>7, <1>8, <1>9, <1>10 DEF PInv

\* A refusal moves no slot; only an account with a queue is refused.
LEMMA RefuseKeepsPInv ==
    ASSUME PInv, NEW c \in Callers, Refuse(c)
    PROVE  PInv'
  <1> DEFINE a == asked[c]
             now == stamp[c]
             st == [Entry(a) EXCEPT !.busy = TRUE]
             table == Stored(a, now, st)
  <1>1. a \in Accounts /\ now \in Times /\ now <= clock /\ settings.wait \in Nat
    BY NoneAssumption, SettingsAssumption, TimeAssumption
    DEF PInv, TypeOK, StampsRecent, Refuse, Times
  <1>2. /\ Entry(a) \in PacedAccount
        /\ Offered(a, now) \in Nat
        /\ Offered(a, now) = now \/ Offered(a, now) = Entry(a).next
    BY <1>1, OfferedLater DEF PInv
  <1>3. st \in PacedAccount /\ st.next = Entry(a).next
    BY <1>2 DEF PacedAccount
  <1>4. a \in Tracked
    <2>1. Offered(a, now) - now > settings.wait
      BY DEF Refuse
    <2>2. Offered(a, now) # now /\ Entry(a).next > 0
      BY <2>1, <1>1, <1>2 DEF Times
    <2> QED BY <2>2 DEF Entry, NewAccount
  <1>5. /\ queue' = table
        /\ Leave(c) /\ pc[c] = "stamped"
        /\ UNCHANGED <<clock, settings, due>>
    BY DEF Refuse
  <1>6. /\ DOMAIN table \subseteq Accounts
        /\ a \in DOMAIN table
        /\ \A b \in DOMAIN table : table[b] \in PacedAccount
        /\ table[a].next = st.next
        /\ \A b \in DOMAIN table \ {a} : b \in Tracked /\ table[b] = queue[b]
        /\ \A b \in Tracked \ DOMAIN table : queue[b].next <= now
    BY <1>1, <1>3, StoredTable DEF PInv
  <1>7. table[a].next = due[a]
    BY <1>3, <1>4, <1>6 DEF PInv, TableExact, Entry
  <1> HIDE DEF a, now, st, table
  <1>8. TypeOK'
    <2>1. Tracked' \subseteq Accounts /\ \A b \in Tracked' : queue'[b] \in PacedAccount
      BY <1>5, <1>6 DEF Tracked
    <2> QED
      BY <1>5, <2>1, NoneAssumption, TimeAssumption DEF PInv, TypeOK, Leave, PacedAccount, Times
  <1>9. StampsRecent'
    BY <1>5 DEF PInv, TypeOK, StampsRecent, Leave
  <1>10. TableExact'
    BY <1>5, <1>6, <1>7 DEF PInv, TableExact, Tracked
  <1>11. ForgottenDrained'
    <2> SUFFICES ASSUME NEW b \in Accounts \ Tracked' PROVE due[b] <= clock
      BY <1>5 DEF ForgottenDrained
    <2>1. CASE b \in Tracked
      <3>1. queue[b].next <= now /\ queue[b].next = due[b]
        BY <2>1, <1>5, <1>6 DEF PInv, TableExact, Tracked
      <3> QED
        BY <3>1, <1>1 DEF PInv, TypeOK, Times
    <2>2. CASE b \notin Tracked
      BY <2>2 DEF PInv, ForgottenDrained
    <2> QED BY <2>1, <2>2
  <1> QED BY <1>8, <1>9, <1>10, <1>11 DEF PInv

\* The clock moves on only while every reading stays recent.
LEMMA TickKeepsPInv == ASSUME PInv, Tick PROVE PInv'
  BY TimeAssumption
  DEF PInv, TypeOK, StampsRecent, TableExact, ForgottenDrained, Tick, callerVars, Tracked, Times

\* Settings do not touch the table.
LEMMA ReloadKeepsPInv == ASSUME PInv, Reload PROVE PInv'
  BY DEF PInv, TypeOK, StampsRecent, TableExact, ForgottenDrained, Reload, callerVars, Tracked

\* The invariant is inductive.
LEMMA NextPInv == PInv /\ [Next]_vars => PInv'
  <1> SUFFICES ASSUME PInv, [Next]_vars PROVE PInv'
    OBVIOUS
  <1>1. ASSUME NEW c \in Callers, ReadClock(c) PROVE PInv'
    BY <1>1, ReadClockKeepsPInv
  <1>2. ASSUME NEW c \in Callers, Unpaced(c) \/ Start(c) \/ Cancel(c) PROVE PInv'
    BY <1>2, LeaveKeepsPInv DEF Unpaced, Start, Cancel
  <1>3. ASSUME NEW c \in Callers, Claim(c) PROVE PInv'
    BY <1>3, ClaimKeepsPInv
  <1>4. ASSUME NEW c \in Callers, Refuse(c) PROVE PInv'
    BY <1>4, RefuseKeepsPInv
  <1>5. CASE Tick
    BY <1>5, TickKeepsPInv
  <1>6. CASE Reload
    BY <1>6, ReloadKeepsPInv
  <1>7. CASE UNCHANGED vars
    BY <1>7 DEF vars, PInv, TypeOK, StampsRecent, TableExact, ForgottenDrained, Tracked
  <1> QED
    BY <1>1, <1>2, <1>3, <1>4, <1>5, <1>6, <1>7 DEF Next

--------------------------------------------------------------------------------
\* The strengthened invariant holds in every state: what the pacer knows of an
\* account is exact, and what it has forgotten is over.
THEOREM PacerInvariance == Spec => []PInv
  <1>1. Init => PInv BY InitPInv
  <1>2. PInv /\ [Next]_vars => PInv' BY NextPInv
  <1> QED BY <1>1, <1>2, PTL DEF Spec

\* The pacer's variables keep their types.
THEOREM PacerTypeCorrect == Spec => []TypeOK
  <1>1. PInv => TypeOK BY DEF PInv
  <1> QED BY <1>1, PacerInvariance, PTL

\* Only Claim puts a caller into its queue, and the slot it gets respects what the
\* account's previous slot is due.
LEMMA ClaimSpaced ==
    ASSUME PInv, [Next]_vars, NEW c \in Callers, pc[c] = "stamped", pc'[c] = "waiting"
    PROVE  /\ slot'[c] + MaxLag >= due[asked[c]]
           /\ asked[c] \in Tracked => slot'[c] >= due[asked[c]]
  <1>1. Claim(c)
    <2>1. ASSUME NEW d \in Callers, Unpaced(d) \/ Start(d) \/ Cancel(d) \/ Refuse(d) PROVE FALSE
      BY <2>1 DEF Unpaced, Start, Cancel, Refuse, Leave, PInv, TypeOK
    <2>2. ASSUME NEW d \in Callers, ReadClock(d) PROVE FALSE
      BY <2>2 DEF ReadClock, PInv, TypeOK
    <2>3. ASSUME NEW d \in Callers, Claim(d) PROVE d = c
      BY <2>3 DEF Claim, PInv, TypeOK
    <2>4. ~Tick /\ ~Reload /\ ~UNCHANGED vars
      BY DEF Tick, Reload, callerVars, vars
    <2> QED BY <2>1, <2>2, <2>3, <2>4 DEF Next
  <1> DEFINE a == asked[c]
             now == stamp[c]
  <1>2. /\ a \in Accounts /\ now \in Times /\ clock - now <= MaxLag
        /\ clock \in Nat /\ MaxLag \in Nat /\ due[a] \in Nat
    BY NoneAssumption, TimeAssumption DEF PInv, TypeOK, StampsRecent, Times
  <1>3. /\ Offered(a, now) \in Nat
        /\ Offered(a, now) >= now
        /\ Offered(a, now) >= Entry(a).next
    BY <1>2, OfferedLater DEF PInv
  <1>4. slot'[c] = Offered(a, now)
    BY <1>1 DEF Claim, PInv, TypeOK
  <1>5. CASE a \in Tracked
    <2>1. Entry(a).next = due[a]
      BY <1>5 DEF Entry, PInv, TableExact
    <2> QED BY <2>1, <1>2, <1>3, <1>4
  <1>6. CASE a \notin Tracked
    <2>1. due[a] <= clock
      BY <1>2, <1>6 DEF PInv, ForgottenDrained
    <2> QED BY <2>1, <1>2, <1>3, <1>4, <1>6 DEF Times
  <1> QED BY <1>5, <1>6

\* SlotsSpaced for every table size, number of callers and settings history.
THEOREM SpacedSlots == Spec => SlotsSpaced
  <1>1. PInv /\ [Next]_vars =>
            [\A c \in Callers : pc[c] = "stamped" /\ pc'[c] = "waiting"
                                => slot'[c] + MaxLag >= due[asked[c]]]_vars
    BY ClaimSpaced
  <1> QED BY <1>1, PacerInvariance, PTL DEF Spec, SlotsSpaced

\* TrackedSlotsExact likewise: an account in the table never loses a tick.
THEOREM ExactSlots == Spec => TrackedSlotsExact
  <1>1. PInv /\ [Next]_vars =>
            [\A c \in Callers : pc[c] = "stamped" /\ pc'[c] = "waiting" /\ asked[c] \in Tracked
                                => slot'[c] >= due[asked[c]]]_vars
    BY ClaimSpaced
  <1> QED BY <1>1, PacerInvariance, PTL DEF Spec, TrackedSlotsExact

--------------------------------------------------------------------------------
(* How many callers can be ahead of their slots                                *)

\* So many times, a gap apart, fit into a wait.
LEMMA SpacedFit ==
    ASSUME NEW S, NEW at \in [S -> Nat], NEW gap \in Nat \ {0}, NEW wait \in Nat,
           \A c \in S : at[c] \in 1..wait,
           \A c, d \in S : c # d => at[c] + gap <= at[d] \/ at[d] + gap <= at[c]
    PROVE  (Cardinality(S) - 1) * gap < wait
  <1> DEFINE width == wait + gap - 1
             place == [p \in S \X (0..gap-1) |-> at[p[1]] + p[2]]
  <1>0. width \in Nat /\ IsFiniteSet(1..width) /\ Cardinality(1..width) = width
    <2>1. width \in Nat
      OBVIOUS
    <2> HIDE DEF width
    <2>2. IsFiniteSet(1..width) /\ Cardinality(1..width) = IF 1 > width THEN 0 ELSE width - 1 + 1
      BY <2>1, FS_Interval
    <2> QED
      BY <2>1, <2>2
  <1>1. IsFiniteSet(S)
    <2>1. at \in Injection(S, 1..wait)
      BY DEF Injection, IsInjective
    <2>2. IsFiniteSet(1..wait)
      BY FS_Interval
    <2> QED
      BY <2>1, <2>2, FS_Injection
  <1>2. place \in Injection(S \X (0..gap-1), 1..width)
    <2>1. ASSUME NEW p \in S \X (0..gap-1) PROVE place[p] \in 1..width
      <3>1. p[1] \in S /\ p[2] \in 0..gap-1
        OBVIOUS
      <3> QED
        BY <3>1
    <2>2. ASSUME NEW p \in S \X (0..gap-1), NEW q \in S \X (0..gap-1), place[p] = place[q]
          PROVE  p = q
      <3>1. p[1] \in S /\ p[2] \in 0..gap-1 /\ q[1] \in S /\ q[2] \in 0..gap-1
            /\ at[p[1]] + p[2] = at[q[1]] + q[2]
        BY <2>2
      <3>2. p[1] = q[1]
        BY <3>1
      <3>3. p[2] = q[2]
        BY <3>1, <3>2
      <3>4. p = <<p[1], p[2]>> /\ q = <<q[1], q[2]>>
        OBVIOUS
      <3> QED
        BY <3>2, <3>3, <3>4
    <2> QED
      BY <2>1, <2>2 DEF Injection, IsInjective
  <1>3. Cardinality(S \X (0..gap-1)) = Cardinality(S) * gap
    <2>1. IsFiniteSet(0..gap-1) /\ Cardinality(0..gap-1) = gap
      BY FS_Interval
    <2> QED
      BY <1>1, <2>1, FS_Product
  <1>4. Cardinality(S \X (0..gap-1)) <= Cardinality(1..width)
    <2> HIDE DEF place, width
    <2> QED
      BY <1>0, <1>2, FS_Injection
  <1>5. Cardinality(S) * gap <= wait + gap - 1
    BY <1>0, <1>3, <1>4
  <1>6. Cardinality(S) \in Nat
    BY <1>1, FS_CardinalityType
  <1>7. (Cardinality(S) - 1) * gap = Cardinality(S) * gap - gap
    BY <1>6
  <1> QED
    BY <1>5, <1>6, <1>7

\* With no gap shorter and no wait longer: who waits claimed a slot within the wait,
\* and the slots still ahead are a gap apart and a gap before the next one.
Spread(gap, wait) ==
    \A c \in Callers : pc[c] = "waiting" =>
        /\ slot[c] <= clock + wait
        /\ slot[c] > clock => slot[c] + gap <= due[asked[c]]
        /\ \A d \in Callers : c # d /\ pc[d] = "waiting" /\ asked[c] = asked[d] /\ slot[c] > clock /\ slot[d] > clock
                             => slot[c] + gap <= slot[d] \/ slot[d] + gap <= slot[c]

LEMMA ClaimSpread ==
    ASSUME PInv, NEW s \in Settings, NEW t \in Settings, s.gap > 0, Covers(s.gap, t.wait), Spread(s.gap, t.wait),
           NEW e \in Callers, Claim(e)
    PROVE  Spread(s.gap, t.wait)'
  <1> DEFINE a == asked[e]
             now == stamp[e]
             new == Offered(a, now)
  <1>1. /\ a \in Accounts /\ now \in Times /\ now <= clock /\ clock \in Nat
        /\ s.gap \in Nat /\ t.wait \in Nat /\ settings.gap \in Nat /\ settings.wait \in Nat
    BY NoneAssumption, SettingsAssumption, TimeAssumption DEF PInv, TypeOK, StampsRecent, Claim, Times
  <1>2. s.gap <= settings.gap /\ settings.wait <= t.wait
    BY <1>1 DEF Covers, Claim, PInv, TypeOK
  <1>3. /\ new \in Nat /\ new >= now /\ new - now <= settings.wait
        /\ new >= Entry(a).next /\ (new = now \/ new = Entry(a).next)
    BY <1>1, OfferedLater DEF PInv, Claim
  <1>4. new <= clock + t.wait
    BY <1>1, <1>2, <1>3 DEF Times
  <1>5. /\ \A c \in Callers : slot'[c] = IF c = e THEN new ELSE slot[c]
        /\ \A c \in Callers : pc'[c] = IF c = e THEN "waiting" ELSE pc[c]
        /\ \A b \in Accounts : due'[b] = IF b = a THEN new + settings.gap ELSE due[b]
        /\ clock' = clock /\ asked' = asked /\ pc[e] = "stamped"
    BY DEF Claim, PInv, TypeOK
  <1>6. /\ \A c \in Callers : slot[c] \in Nat /\ (pc[c] = "waiting" => asked[c] \in Accounts)
        /\ \A b \in Accounts : due[b] \in Nat
    BY NoneAssumption DEF PInv, TypeOK
  <1> HIDE DEF a, now, new
  <1>7. ASSUME NEW c \in Callers, pc[c] = "waiting", asked[c] = a, slot[c] > clock
        PROVE  slot[c] + s.gap <= new
    <2>1. slot[c] + s.gap <= due[a]
      BY <1>7 DEF Spread
    <2>2. CASE a \in Tracked
      <3>1. Entry(a).next = due[a]
        BY <2>2 DEF Entry, PInv, TableExact
      <3> QED
        BY <1>1, <1>3, <1>6, <2>1, <3>1
    <2>3. CASE a \notin Tracked
      <3>1. due[a] <= clock
        BY <1>1, <2>3 DEF PInv, ForgottenDrained
      <3> QED
        BY <1>1, <1>6, <1>7, <2>1, <3>1
    <2> QED
      BY <2>2, <2>3
  <1>8. ASSUME NEW c \in Callers, pc'[c] = "waiting"
        PROVE  /\ slot'[c] <= clock' + t.wait
               /\ slot'[c] > clock' => slot'[c] + s.gap <= due'[asked'[c]]
    <2>1. CASE c = e
      BY <1>1, <1>2, <1>3, <1>4, <1>5, <2>1 DEF a
    <2>2. CASE c # e
      <3>1. pc[c] = "waiting" /\ slot'[c] = slot[c] /\ slot[c] <= clock + t.wait
            /\ (slot[c] > clock => slot[c] + s.gap <= due[asked[c]])
        BY <1>5, <1>8, <2>2 DEF Spread
      <3>2. CASE asked[c] = a
        BY <1>1, <1>3, <1>5, <1>6, <1>7, <3>1, <3>2
      <3>3. CASE asked[c] # a
        BY <1>5, <1>6, <3>1, <3>3
      <3> QED
        BY <3>2, <3>3
    <2> QED
      BY <2>1, <2>2
  <1>9. ASSUME NEW c \in Callers, NEW d \in Callers, c # d, pc'[c] = "waiting", pc'[d] = "waiting",
               asked'[c] = asked'[d], slot'[c] > clock', slot'[d] > clock'
        PROVE  slot'[c] + s.gap <= slot'[d] \/ slot'[d] + s.gap <= slot'[c]
    <2>1. CASE c # e /\ d # e
      BY <1>5, <1>9, <2>1 DEF Spread
    <2>2. CASE c = e
      BY <1>5, <1>7, <1>9, <2>2 DEF a
    <2>3. CASE d = e
      BY <1>5, <1>7, <1>9, <2>3 DEF a
    <2> QED
      BY <2>1, <2>2, <2>3
  <1> QED
    BY <1>8, <1>9 DEF Spread

\* Any other step leaves the slots and who holds them alone, but for those who leave.
LEMMA OthersSpread ==
    ASSUME PInv, NEW s \in Settings, NEW t \in Settings, Spread(s.gap, t.wait), UNCHANGED due,
           clock' \in Nat, clock <= clock',
           \A c \in Callers : pc'[c] = "waiting" => pc[c] = "waiting" /\ slot'[c] = slot[c] /\ asked'[c] = asked[c]
    PROVE  Spread(s.gap, t.wait)'
  <1>1. clock \in Nat /\ t.wait \in Nat /\ \A c \in Callers : slot[c] \in Nat
    BY SettingsAssumption DEF PInv, TypeOK
  <1>2. ASSUME NEW c \in Callers, pc'[c] = "waiting"
        PROVE  slot'[c] <= clock' + t.wait /\ (slot'[c] > clock' => slot'[c] + s.gap <= due'[asked'[c]])
    BY <1>1, <1>2 DEF Spread
  <1>3. ASSUME NEW c \in Callers, NEW d \in Callers, c # d, pc'[c] = "waiting", pc'[d] = "waiting",
               asked'[c] = asked'[d], slot'[c] > clock', slot'[d] > clock'
        PROVE  slot'[c] + s.gap <= slot'[d] \/ slot'[d] + s.gap <= slot'[c]
    BY <1>1, <1>3 DEF Spread
  <1> QED
    BY <1>2, <1>3 DEF Spread

LEMMA NextSpread ==
    ASSUME PInv, NEW s \in Settings, NEW t \in Settings, s.gap > 0, Covers(s.gap, t.wait), Spread(s.gap, t.wait),
           [Next]_vars
    PROVE  Spread(s.gap, t.wait)'
  <1>0. clock \in Nat
    BY DEF PInv, TypeOK
  <1>1. ASSUME NEW c \in Callers, ReadClock(c) PROVE Spread(s.gap, t.wait)'
    BY <1>0, <1>1, OthersSpread DEF ReadClock, PInv, TypeOK
  <1>2. ASSUME NEW c \in Callers, Unpaced(c) \/ Start(c) \/ Cancel(c) \/ Refuse(c) PROVE Spread(s.gap, t.wait)'
    <2>1. Leave(c) /\ UNCHANGED <<clock, due>>
      BY <1>2 DEF Unpaced, Start, Cancel, Refuse
    <2>2. \A d \in Callers : pc'[d] = "waiting" => pc[d] = "waiting" /\ slot'[d] = slot[d] /\ asked'[d] = asked[d]
      BY <2>1 DEF Leave, PInv, TypeOK
    <2> QED
      BY <1>0, <2>1, <2>2, OthersSpread
  <1>3. ASSUME NEW c \in Callers, Claim(c) PROVE Spread(s.gap, t.wait)'
    BY <1>3, ClaimSpread
  <1>4. CASE Tick
    BY <1>0, <1>4, OthersSpread DEF Tick, callerVars
  <1>5. CASE Reload \/ UNCHANGED vars
    BY <1>0, <1>5, OthersSpread DEF Reload, callerVars, vars
  <1> QED
    BY <1>1, <1>2, <1>3, <1>4, <1>5 DEF Next

\* QueueShort for any number of callers and accounts, any settings and any table size:
\* the callers ahead of their slots, one gap apart, fit into the longest wait.
THEOREM QueuesShort == Spec => []QueueShort
  <1> DEFINE AllSpread == \A s, t \in Settings : s.gap > 0 /\ Covers(s.gap, t.wait) => Spread(s.gap, t.wait)
  <1>1. Init => AllSpread
    BY DEF Init, Spread
  <1>2. PInv /\ AllSpread /\ [Next]_vars => AllSpread'
    BY NextSpread
  <1>3. PInv /\ AllSpread => QueueShort
    <2> SUFFICES ASSUME PInv, AllSpread, NEW a \in Accounts, NEW s \in Settings, NEW t \in Settings,
                        s.gap > 0, Covers(s.gap, t.wait)
                 PROVE  (Cardinality(Ahead(a)) - 1) * s.gap < t.wait
      BY DEF QueueShort
    <2> DEFINE at == [c \in Ahead(a) |-> slot[c] - clock]
    <2>1. /\ s.gap \in Nat \ {0} /\ t.wait \in Nat /\ clock \in Nat
          /\ Ahead(a) \subseteq Callers /\ \A c \in Callers : slot[c] \in Nat
      BY SettingsAssumption DEF PInv, TypeOK, Ahead
    <2>2. Spread(s.gap, t.wait)
      OBVIOUS
    <2>3. \A c \in Ahead(a) : at[c] \in 1..t.wait
      <3> TAKE c \in Ahead(a)
      <3>1. slot[c] > clock /\ slot[c] <= clock + t.wait /\ slot[c] \in Nat
        BY <2>1, <2>2 DEF Ahead, Spread
      <3> QED
        BY <2>1, <3>1
    <2>4. \A c, d \in Ahead(a) : c # d => at[c] + s.gap <= at[d] \/ at[d] + s.gap <= at[c]
      <3> TAKE c, d \in Ahead(a)
      <3>1. c # d => slot[c] + s.gap <= slot[d] \/ slot[d] + s.gap <= slot[c]
        BY <2>1, <2>2 DEF Ahead, Spread
      <3> QED
        BY <2>1, <3>1
    <2>5. at \in [Ahead(a) -> Nat]
      BY <2>1, <2>3
    <2> HIDE DEF at
    <2> QED
      BY <2>1, <2>3, <2>4, <2>5, SpacedFit
  <1> QED
    BY <1>1, <1>2, <1>3, PacerInvariance, PTL DEF Spec
================================================================================
