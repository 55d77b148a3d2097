-------------------------- MODULE CircuitBreakerProofs -------------------------
(* For every set of targets and requests and every setting: the table of       *)
(* targets stays bounded and never sheds a target that holds requests off, and *)
(* the session layer opens on evidence, on all of it, and stays open.          *)
EXTENDS CircuitBreaker, FiniteSetTheorems, WellFoundedInduction, TLAPS

--------------------------------------------------------------------------------
(* The table of targets.                                                       *)

TableInv == IsFiniteSet(Tracked) /\ TableBounded

\* A nonempty set of tracked targets has a least recently active one.
LEMMA LeastRecent ==
    ASSUME NEW S, S \subseteq Tracked, S # {}, \A j \in S : targets[j].last \in Nat
    PROVE  \E j \in S : \A i \in S : targets[j].last <= targets[i].last
  <1> DEFINE Past(j) == 1..targets[j].last
             T == {Past(j) : j \in S}
  <1>1. T \subseteq FiniteSubsetsOf(Nat)
    <2>1. \A j \in S : IsFiniteSet(Past(j)) /\ Past(j) \in SUBSET Nat
      BY FS_Interval
    <2> QED
      BY <2>1 DEF FiniteSubsetsOf
  <1>2. T # {}
    OBVIOUS
  <1>3. PICK least \in T : \A p \in T : <<p, least>> \notin StrictSubsetOrdering(Nat)
    <2> HIDE DEF T
    <2>1. IsWellFoundedOn(StrictSubsetOrdering(Nat), FiniteSubsetsOf(Nat))
      BY FS_StrictSubsetOrderingWellFounded
    <2> QED
      BY <1>1, <1>2, <2>1, WFMin
  <1>4. PICK j \in S : least = Past(j)
    OBVIOUS
  <1>5. ASSUME NEW i \in S, targets[i].last < targets[j].last
        PROVE  FALSE
    <2>1. Past(i) \subseteq Past(j)
      BY <1>5
    <2>2. targets[j].last \in Past(j) /\ targets[j].last \notin Past(i)
      BY <1>5
    <2>3. Past(i) \in SUBSET Nat /\ Past(j) \in SUBSET Nat
      OBVIOUS
    <2>4. Past(i) \in T
      OBVIOUS
    <2> HIDE DEF Past, T
    <2>5. <<Past(i), Past(j)>> \in StrictSubsetOrdering(Nat)
      BY <2>1, <2>2, <2>3 DEF StrictSubsetOrdering
    <2> QED
      BY <1>3, <1>4, <2>4, <2>5
  <1> QED
    BY <1>5

\* A key finds room in the table unless every slot holds requests off, and only
\* closed targets go to make it.
LEMMA RoomFits ==
    ASSUME TableInv, NEW k, NEW now, NEW kept \in Room(k, now)
    PROVE  /\ kept \subseteq Tracked
           /\ IsFiniteSet(kept \cup {k})
           /\ Cardinality(kept \cup {k}) <= MaxTargets
           /\ \A j \in Tracked \ kept : j # k /\ ~Open(targets[j], now)
  <1> DEFINE A == Active(now)
  <1>1. /\ A \subseteq Tracked
        /\ \A j \in Tracked \ A : ~Open(targets[j], now)
    BY DEF Active
  <1>2. /\ IsFiniteSet(Tracked) /\ Cardinality(Tracked) \in Nat
        /\ IsFiniteSet(A) /\ Cardinality(A) \in Nat
        /\ Cardinality(A) <= Cardinality(Tracked)
        /\ Cardinality(Tracked) <= MaxTargets /\ MaxTargets \in Nat
    BY <1>1, FS_Subset, FS_CardinalityType, ConfigAssumption DEF TableInv, TableBounded
  <1> HIDE DEF A
  <1>3. CASE k \in Tracked \/ ~Full(Tracked)
    <2>1. kept = Tracked
      BY <1>3 DEF Room
    <2>2. /\ IsFiniteSet(kept \cup {k})
          /\ Cardinality(kept \cup {k}) =
                IF k \in kept THEN Cardinality(kept) ELSE Cardinality(kept) + 1
      BY <1>2, <2>1, FS_AddElement
    <2> QED
      BY <1>2, <1>3, <2>1, <2>2 DEF Full
  <1>4. CASE k \notin Tracked /\ Full(Tracked) /\ ~Full(A)
    <2>1. kept = A
      BY <1>4 DEF Room, A
    <2>2. /\ IsFiniteSet(kept \cup {k})
          /\ Cardinality(kept \cup {k}) =
                IF k \in kept THEN Cardinality(kept) ELSE Cardinality(kept) + 1
      BY <1>2, <2>1, FS_AddElement
    <2> QED
      BY <1>1, <1>2, <1>4, <2>1, <2>2 DEF Full
  <1>5. CASE k \notin Tracked /\ Full(Tracked) /\ Full(A)
    <2>1. PICK j \in Oldest(A, now) : kept = A \ {j}
      BY <1>5 DEF Room, A
    <2>2. j \in A /\ ~Open(targets[j], now)
      BY <2>1 DEF Oldest
    <2>3. IsFiniteSet(kept) /\ Cardinality(kept) = Cardinality(A) - 1
      BY <1>2, <2>1, <2>2, FS_RemoveElement
    <2>4. /\ IsFiniteSet(kept \cup {k})
          /\ Cardinality(kept \cup {k}) =
                IF k \in kept THEN Cardinality(kept) ELSE Cardinality(kept) + 1
      BY <2>3, FS_AddElement
    <2> QED
      BY <1>1, <1>2, <1>5, <2>1, <2>2, <2>3, <2>4
  <1> QED
    BY <1>3, <1>4, <1>5

\* A key that finds no room met a table of targets that all hold requests off.
LEMMA NoRoomAllOpen ==
    ASSUME TableInv, \A j \in Tracked : targets[j].last \in Nat,
           NEW k, NEW now, Room(k, now) = {}
    PROVE  \A j \in Tracked : Open(targets[j], now)
  <1> DEFINE A == Active(now)
             closed == {j \in A : ~Open(targets[j], now)}
  <1>1. A \subseteq Tracked
    BY DEF Active
  <1>2. Full(Tracked) /\ Full(A) /\ Oldest(A, now) = {}
    BY DEF Room
  <1>3. A = Tracked
    <2>1. /\ IsFiniteSet(Tracked) /\ Cardinality(Tracked) \in Nat
          /\ IsFiniteSet(A) /\ Cardinality(A) \in Nat
          /\ Cardinality(A) <= Cardinality(Tracked)
          /\ Cardinality(Tracked) <= MaxTargets /\ MaxTargets \in Nat
      BY <1>1, FS_Subset, FS_CardinalityType, ConfigAssumption DEF TableInv, TableBounded
    <2>2. Cardinality(A) = Cardinality(Tracked)
      BY <1>2, <2>1 DEF Full
    <2> HIDE DEF A
    <2> QED
      BY <1>1, <2>1, <2>2, FS_Subset
  <1>4. closed = {}
    <2>1. SUFFICES ASSUME closed # {} PROVE FALSE
      OBVIOUS
    <2>2. closed \subseteq Tracked /\ \A j \in closed : targets[j].last \in Nat
      BY <1>1
    <2> HIDE DEF closed
    <2>3. PICK j \in closed : \A i \in closed : targets[j].last <= targets[i].last
      BY <2>1, <2>2, LeastRecent
    <2>4. j \in Oldest(A, now)
      BY <2>3 DEF Oldest, closed
    <2> QED
      BY <1>2, <2>4
  <1> QED
    BY <1>3, <1>4

--------------------------------------------------------------------------------
(* The invariant.                                                              *)

\* A request records its outcome with a clock reading that is no zero time.
FlightInv == \A r \in Requests : flight[r] # NoFlight => flight[r].from >= 1

\* What the session layer remembers of an account has been rejected since its last
\* reset ...
RecentBacked == \A a \in Accounts : \A b \in Apps : sessions[a].recent[b] <= rejected[a][b]

\* ... only so many AppIDs have been, and none in the future ...
RejectedFinite ==
    \A a \in Accounts : /\ IsFiniteSet({b \in Apps : rejected[a][b] # 0})
                        /\ \A b \in Apps : rejected[a][b] <= clock

\* ... and it remembers them all, but those that fell out of the window.
RejectedRemembered ==
    \A a \in Accounts : \A b \in Apps :
        rejected[a][b] # 0 =>
            \/ sessions[a].recent[b] # 0 /\ sessions[a].recent[b] >= rejected[a][b] - MaxLag
            \/ rejected[a][b] < clock - SessionWindow + MaxLag

SlateInv == RecentBacked /\ RejectedFinite /\ RejectedRemembered

BInv == TypeOK /\ TableInv /\ FlightInv /\ SlateInv

\* The empty tables have nothing to remember.
LEMMA InitBInv == Init => BInv
  <1> SUFFICES ASSUME Init PROVE BInv
    OBVIOUS
  <1>1. Tracked = {}
    BY DEF Init, Tracked
  <1>2. TypeOK
    BY <1>1, ConfigAssumption
    DEF Init, TypeOK, Times, Deadlines, NoSession, Quiet
  <1>3. TableInv
    BY <1>1, FS_EmptySet, ConfigAssumption DEF TableInv, TableBounded
  <1>4. FlightInv
    BY DEF Init, FlightInv
  <1>5. SlateInv
    <2>1. \A a \in Accounts : {b \in Apps : rejected[a][b] # 0} = {}
      BY DEF Init, Quiet
    <2>2. RejectedFinite
      <3>1. \A a \in Accounts : IsFiniteSet({b \in Apps : rejected[a][b] # 0})
        BY <2>1, FS_EmptySet
      <3> QED
        BY <3>1 DEF Init, RejectedFinite, Quiet
    <2> QED
      BY <2>2 DEF Init, SlateInv, RecentBacked, RejectedRemembered, NoSession, Quiet
  <1> QED
    BY <1>2, <1>3, <1>4, <1>5 DEF BInv

--------------------------------------------------------------------------------
(* What a refusal does to the session layer and to the slate of rejections:    *)
(* nothing, one more rejection on it, or the lockout that wipes it.            *)

SlateKept == UNCHANGED <<sessions, rejected>>

SlateAdded(k, now) ==
    LET s == sessions[k.account]
    IN /\ k.op \in CodeClasses
       /\ Open(s, now) \/ ~SessionOpens(s, Recent(s, k.app, now), now)
       /\ sessions' = [sessions EXCEPT ![k.account] =
                          [recent |-> Recent(s, k.app, now), until |-> s.until]]
       /\ rejected' = [rejected EXCEPT ![k.account] =
                          IF @[k.app] < now THEN [@ EXCEPT ![k.app] = now] ELSE @]

SlateWiped(k, now) ==
    LET s == sessions[k.account]
    IN /\ k.op \in CodeClasses
       /\ SessionOpens(s, Recent(s, k.app, now), now)
       /\ sessions' = [sessions EXCEPT ![k.account] =
                          [recent |-> Quiet, until |-> now + SessionCooldown]]
       /\ rejected' = [rejected EXCEPT ![k.account] = Quiet]

\* A refusal is folded into both layers with one recent reading of the clock.
LEMMA RefusedFolds ==
    ASSUME BInv, NEW r \in Requests, NEW outcome, Refused(r, outcome)
    PROVE  LET k == flight[r].key
           IN /\ k \in Keys /\ k.account \in Accounts /\ k.app \in Apps
              /\ flight' = [flight EXCEPT ![r] = NoFlight]
              /\ clock' = clock
              /\ \E now \in 1..clock :
                    /\ clock - now <= MaxLag
                    /\ FoldTarget(k, outcome, now)
                    /\ SlateKept \/ SlateAdded(k, now) \/ SlateWiped(k, now)
  <1> DEFINE k == flight[r].key
             a == k.account
             s == sessions[a]
  <1>1. flight[r] # NoFlight /\ flight[r] \in [key : Keys, from : Times] /\ flight[r].from >= 1
    BY DEF BInv, TypeOK, FlightInv, Refused
  <1>2. k \in Keys /\ a \in Accounts /\ k.app \in Apps
    BY <1>1 DEF Accounts, Apps
  <1>3. flight' = [flight EXCEPT ![r] = NoFlight] /\ clock' = clock
    BY DEF Refused
  <1>4. PICK now \in Readings(flight[r].from) :
             /\ FoldTarget(k, outcome, now)
             /\ FoldSession(k, outcome, now)
             /\ rejected' = [rejected EXCEPT ![a] =
                   IF ~Open(s, now) /\ Open(sessions'[a], now) THEN Quiet
                   ELSE IF outcome = "appReject" /\ k.op \in CodeClasses /\ @[k.app] < now
                   THEN [@ EXCEPT ![k.app] = now] ELSE @]
    BY DEF Refused
  <1>5. now \in 1..clock /\ clock - now <= MaxLag
    BY <1>1, <1>4 DEF Readings, Times, BInv, TypeOK
  <1>6. sessions \in [Accounts -> [recent : [Apps -> Times], until : Deadlines(SessionCooldown)]]
        /\ rejected \in [Accounts -> [Apps -> Times]]
    BY DEF BInv, TypeOK
  <1> HIDE DEF a
  <1>7. CASE outcome # "appReject" \/ ~CountsTowardSession(k.op)
    <2>1. sessions' = sessions
      BY <1>4, <1>7 DEF FoldSession
    <2>2. rejected' = [rejected EXCEPT ![a] = @]
      BY <1>4, <1>7, <2>1 DEF CountsTowardSession
    <2>3. SlateKept
      BY <1>2, <1>6, <2>1, <2>2 DEF SlateKept, a
    <2> QED
      BY <1>2, <1>3, <1>4, <1>5, <2>3 DEF a
  <1>8. CASE outcome = "appReject" /\ k.op \in CodeClasses /\ SessionOpens(s, Recent(s, k.app, now), now)
    <2>1. sessions' = [sessions EXCEPT ![a] = [recent |-> Quiet, until |-> now + SessionCooldown]]
      BY <1>4, <1>8 DEF FoldSession, CountsTowardSession, a
    <2>2. ~Open(s, now) /\ Open(sessions'[a], now)
      BY <1>2, <1>5, <1>6, <1>8, <2>1, ConfigAssumption DEF SessionOpens, Open, a
    <2>3. SlateWiped(k, now)
      BY <1>4, <1>8, <2>1, <2>2 DEF SlateWiped, a
    <2> QED
      BY <1>2, <1>3, <1>4, <1>5, <2>3 DEF a
  <1>9. CASE outcome = "appReject" /\ k.op \in CodeClasses /\ ~SessionOpens(s, Recent(s, k.app, now), now)
    <2>1. sessions' = [sessions EXCEPT ![a] = [recent |-> Recent(s, k.app, now), until |-> s.until]]
      BY <1>4, <1>9 DEF FoldSession, CountsTowardSession, a
    <2>2. Open(sessions'[a], now) = Open(s, now)
      BY <1>2, <1>6, <2>1 DEF Open, a
    <2>3. SlateAdded(k, now)
      BY <1>4, <1>9, <2>1, <2>2 DEF SlateAdded, a
    <2> QED
      BY <1>2, <1>3, <1>4, <1>5, <2>3 DEF a
  <1> QED
    BY <1>7, <1>8, <1>9 DEF CountsTowardSession

\* The slate's types.
SlateType ==
    /\ sessions \in [Accounts -> [recent : [Apps -> Times], until : Deadlines(SessionCooldown)]]
    /\ rejected \in [Accounts -> [Apps -> Times]]

\* Wiping an account's slate keeps the slate's invariant, whatever the deadline.
LEMMA WipeKeepsSlate ==
    ASSUME BInv, clock' = clock, NEW a, NEW until \in Deadlines(SessionCooldown),
           sessions' = [sessions EXCEPT ![a] = [recent |-> Quiet, until |-> until]],
           rejected' = [rejected EXCEPT ![a] = Quiet]
    PROVE  (SlateType /\ SlateInv)'
  <1>1. SlateType /\ clock \in 1..MaxTime /\ MaxTime \in Nat
    BY ConfigAssumption DEF BInv, TypeOK, SlateType
  <1>2. Quiet \in [Apps -> Times] /\ \A b \in Apps : Quiet[b] = 0
    BY <1>1 DEF Quiet, Times
  <1>3. SlateType'
    BY <1>1, <1>2 DEF SlateType
  <1>4. \A c \in Accounts :
            IF c = a THEN sessions'[c].recent = Quiet /\ rejected'[c] = Quiet
            ELSE sessions'[c] = sessions[c] /\ rejected'[c] = rejected[c]
    BY <1>1 DEF SlateType
  <1>5. \A c \in Accounts : IsFiniteSet({b \in Apps : rejected'[c][b] # 0})
    <2>1. {b \in Apps : Quiet[b] # 0} = {}
      BY <1>2
    <2>2. IsFiniteSet({b \in Apps : Quiet[b] # 0})
      BY <2>1, FS_EmptySet
    <2>3. TAKE c \in Accounts
    <2>4. CASE c = a
      BY <1>4, <2>2, <2>4
    <2>5. CASE c # a
      BY <1>4, <2>5 DEF BInv, SlateInv, RejectedFinite
    <2> QED
      BY <2>4, <2>5
  <1>6. \A c \in Accounts : \A b \in Apps : rejected'[c][b] <= clock'
    <2>1. \A c \in Accounts : \A b \in Apps : rejected[c][b] <= clock
      BY DEF BInv, SlateInv, RejectedFinite
    <2>2. clock' = clock /\ 0 <= clock
      BY <1>1
    <2> QED
      BY <1>2, <1>4, <2>1, <2>2
  <1>7. RecentBacked'
    BY <1>1, <1>2, <1>4 DEF BInv, SlateInv, RecentBacked
  <1>8. RejectedRemembered'
    BY <1>1, <1>2, <1>4 DEF BInv, SlateInv, RejectedRemembered
  <1> QED
    BY <1>3, <1>5, <1>6, <1>7, <1>8 DEF SlateInv, RejectedFinite

\* So does one more rejection on it: the layer forgets only what fell out of the
\* window, and a clock reading that comes in late stands in for a later one by no
\* more than MaxLag.
LEMMA AddKeepsSlate ==
    ASSUME BInv, clock' = clock, NEW k, k.account \in Accounts, k.app \in Apps,
           NEW now \in 1..clock, clock - now <= MaxLag, SlateAdded(k, now)
    PROVE  (SlateType /\ SlateInv)'
  <1> DEFINE a == k.account
             s == sessions[a]
             recent == Recent(s, k.app, now)
             slate == IF rejected[a][k.app] < now
                        THEN [rejected[a] EXCEPT ![k.app] = now] ELSE rejected[a]
  <1>1. SlateType /\ clock \in 1..MaxTime /\ MaxTime \in Nat /\ MaxLag \in Nat /\ SessionWindow \in Nat
    BY ConfigAssumption DEF BInv, TypeOK, SlateType
  <1>2. /\ sessions' = [sessions EXCEPT ![a] = [recent |-> recent, until |-> s.until]]
        /\ rejected' = [rejected EXCEPT ![a] = slate]
    BY DEF SlateAdded
  <1>3. /\ s.recent \in [Apps -> Times] /\ s.until \in Deadlines(SessionCooldown)
        /\ rejected[a] \in [Apps -> Times]
    BY <1>1 DEF SlateType
  <1>4. \A b \in Apps : /\ s.recent[b] <= rejected[a][b]
                        /\ rejected[a][b] <= clock
                        /\ rejected[a][b] # 0 =>
                              \/ s.recent[b] # 0 /\ s.recent[b] >= rejected[a][b] - MaxLag
                              \/ rejected[a][b] < clock - SessionWindow + MaxLag
    BY DEF BInv, SlateInv, RecentBacked, RejectedFinite, RejectedRemembered
  <1>5. /\ recent \in [Apps -> Times]
        /\ recent[k.app] = now
        /\ \A b \in Apps \ {k.app} :
              recent[b] = IF s.recent[b] < now - SessionWindow THEN 0 ELSE s.recent[b]
    BY <1>1, <1>3 DEF Recent, Times
  <1>6. /\ slate \in [Apps -> Times]
        /\ slate[k.app] >= now /\ slate[k.app] <= clock
        /\ \A b \in Apps \ {k.app} : slate[b] = rejected[a][b]
    BY <1>1, <1>3, <1>4 DEF Times
  <1> HIDE DEF a, s, recent, slate
  <1>7. SlateType'
    BY <1>1, <1>2, <1>3, <1>5, <1>6 DEF SlateType, a
  <1>8. \A c \in Accounts :
            IF c = a THEN sessions'[c].recent = recent /\ rejected'[c] = slate
            ELSE sessions'[c] = sessions[c] /\ rejected'[c] = rejected[c]
    BY <1>1, <1>2 DEF SlateType
  <1>9. \A b \in Apps :
            /\ recent[b] <= slate[b]
            /\ slate[b] <= clock
            /\ slate[b] # 0 => \/ recent[b] # 0 /\ recent[b] >= slate[b] - MaxLag
                               \/ slate[b] < clock - SessionWindow + MaxLag
    <2>1. TAKE b \in Apps
    <2>2. CASE b = k.app
      BY <1>1, <1>3, <1>5, <1>6, <2>2 DEF Times
    <2>3. CASE b # k.app
      BY <1>1, <1>3, <1>4, <1>5, <1>6, <2>3 DEF Times
    <2> QED
      BY <2>2, <2>3
  <1>10. IsFiniteSet({b \in Apps : slate[b] # 0})
    <2> DEFINE old == {b \in Apps : rejected[a][b] # 0}
    <2>1. IsFiniteSet(old)
      BY DEF BInv, SlateInv, RejectedFinite, a
    <2>2. {b \in Apps : slate[b] # 0} \subseteq old \cup {k.app}
      BY <1>6
    <2> HIDE DEF old
    <2>3. IsFiniteSet(old \cup {k.app})
      BY <2>1, FS_AddElement
    <2> QED
      BY <2>2, <2>3, FS_Subset
  <1>11. RejectedFinite'
    <2>1. \A c \in Accounts : IsFiniteSet({b \in Apps : rejected'[c][b] # 0})
      <3>1. TAKE c \in Accounts
      <3>2. CASE c = a
        BY <1>8, <1>10, <3>2
      <3>3. CASE c # a
        BY <1>8, <3>3 DEF BInv, SlateInv, RejectedFinite
      <3> QED
        BY <3>2, <3>3
    <2>2. \A c \in Accounts : \A b \in Apps : rejected'[c][b] <= clock'
      BY <1>8, <1>9 DEF BInv, SlateInv, RejectedFinite
    <2> QED
      BY <2>1, <2>2 DEF RejectedFinite
  <1>12. RecentBacked'
    BY <1>8, <1>9 DEF BInv, SlateInv, RecentBacked
  <1>13. RejectedRemembered'
    BY <1>8, <1>9 DEF BInv, SlateInv, RejectedRemembered
  <1> QED
    BY <1>7, <1>11, <1>12, <1>13 DEF SlateInv

--------------------------------------------------------------------------------
(* What a refusal does to the table of targets.                                *)

\* A refused target is counted as a target, and while it is open its deadline
\* stays.
LEMMA CountedHolds ==
    ASSUME NEW t \in Target, NEW outcome, NEW now \in Times
    PROVE  /\ Counted(t, outcome, now) \in Target
           /\ Open(t, now) => Counted(t, outcome, now).until = t.until
  <1> DEFINE app == (IF Lapsed(t, now) THEN 0 ELSE t.app) + (IF outcome = "appReject" THEN 1 ELSE 0)
             empty == (IF Lapsed(t, now) THEN 0 ELSE t.empty) + (IF outcome = "emptyCode" THEN 1 ELSE 0)
  <1>1. app \in Nat /\ empty \in Nat
    BY DEF Target
  <1>2. t.until \in Deadlines(TargetCooldown) /\ now + TargetCooldown \in Deadlines(TargetCooldown)
    BY ConfigAssumption DEF Target, Deadlines, Times
  <1> HIDE DEF app, empty
  <1>3. Counted(t, outcome, now) =
          IF ~Open(t, now) /\ (app >= TargetAppRejects \/ empty >= TargetEmptyCodes)
            THEN [app |-> 0, empty |-> 0, last |-> now, until |-> now + TargetCooldown]
            ELSE [app |-> app, empty |-> empty, last |-> now, until |-> t.until]
    BY DEF Counted, app, empty
  <1> QED
    BY <1>1, <1>2, <1>3 DEF Target

\* The types of the table.
TableType == Tracked \subseteq Keys /\ \A k \in Tracked : targets[k] \in Target

\* The table keeps its types and its bound, and what is open at the reading it is
\* folded in with stays there with its deadline.
LEMMA FoldKeepsTable ==
    ASSUME TableType, TableInv, NEW k \in Keys, NEW outcome, NEW now \in Times,
           FoldTarget(k, outcome, now)
    PROVE  /\ (TableType /\ TableInv)'
           /\ \A j \in Tracked : Open(targets[j], now) =>
                 j \in Tracked' /\ targets'[j].until = targets[j].until
  <1>1. CASE Room(k, now) = {}
    BY <1>1 DEF FoldTarget, TableType, TableInv, TableBounded, Tracked
  <1>2. CASE Room(k, now) # {}
    <2> DEFINE t == IF k \in Tracked THEN targets[k] ELSE NoTarget
               counted == Counted(t, outcome, now)
    <2>1. PICK kept \in Room(k, now) :
             targets' = [j \in kept \cup {k} |-> IF j # k THEN targets[j] ELSE counted]
      BY <1>2 DEF FoldTarget
    <2>2. /\ kept \subseteq Tracked
          /\ IsFiniteSet(kept \cup {k})
          /\ Cardinality(kept \cup {k}) <= MaxTargets
          /\ \A j \in Tracked \ kept : j # k /\ ~Open(targets[j], now)
      BY RoomFits
    <2>3. t \in Target
      BY ConfigAssumption DEF TableType, NoTarget, Target, Times, Deadlines
    <2>4. counted \in Target /\ (Open(t, now) => counted.until = t.until)
      BY <2>3, CountedHolds
    <2>5. k \in Tracked => t = targets[k]
      OBVIOUS
    <2> HIDE DEF t, counted
    <2>6. Tracked' = kept \cup {k}
      BY <2>1 DEF Tracked
    <2>7. TableType'
      BY <2>1, <2>2, <2>4, <2>6 DEF TableType
    <2>8. TableInv'
      BY <2>2, <2>6 DEF TableInv, TableBounded
    <2>9. ASSUME NEW j \in Tracked, Open(targets[j], now)
          PROVE  j \in Tracked' /\ targets'[j].until = targets[j].until
      <3>1. j \in kept \cup {k}
        BY <2>2, <2>9
      <3>2. CASE j = k
        BY <2>1, <2>4, <2>5, <2>6, <2>9, <3>1, <3>2
      <3>3. CASE j # k
        BY <2>1, <2>6, <3>1, <3>3
      <3> QED
        BY <3>2, <3>3
    <2> QED
      BY <2>7, <2>8, <2>9
  <1> QED
    BY <1>1, <1>2

\* Targets that are taken out leave a table of fewer.
LEMMA FewerKeepTable ==
    ASSUME TableType, TableInv, NEW S, S \subseteq Tracked,
           targets' = [j \in S |-> targets[j]]
    PROVE  (TableType /\ TableInv)'
  <1>1. Tracked' = S
    BY DEF Tracked
  <1>2. IsFiniteSet(S) /\ Cardinality(S) <= Cardinality(Tracked)
    BY FS_Subset DEF TableInv
  <1>3. Cardinality(S) \in Nat /\ Cardinality(Tracked) \in Nat /\ MaxTargets \in Nat
    BY <1>2, FS_CardinalityType, ConfigAssumption DEF TableInv
  <1> QED
    BY <1>1, <1>2, <1>3 DEF TableType, TableInv, TableBounded

--------------------------------------------------------------------------------
(* Every step keeps the invariant.                                             *)

\* The requests under way: their types, and no reading from before the clock ran.
FlightType == /\ flight \in [Requests -> [key : Keys, from : Times] \cup {NoFlight}]
              /\ FlightInv

\* The invariant's parts.
LEMMA BInvParts ==
    BInv <=> /\ clock \in 1..MaxTime
             /\ TableType /\ TableInv
             /\ SlateType /\ SlateInv
             /\ FlightType
  BY DEF BInv, TypeOK, TableType, SlateType, FlightType

\* The same of the next state.
LEMMA BInvNext ==
    ASSUME clock' \in 1..MaxTime, (TableType /\ TableInv)', (SlateType /\ SlateInv)', FlightType'
    PROVE  BInv'
  BY DEF BInv, TypeOK, TableType, SlateType, FlightType

\* A request that ends leaves the others as they are.
LEMMA EndKeepsFlight ==
    ASSUME FlightType, NEW r, flight' = [flight EXCEPT ![r] = NoFlight]
    PROVE  FlightType'
  BY DEF FlightType, FlightInv

\* A request that starts does so at the clock.
LEMMA CheckKeepsFlight ==
    ASSUME FlightType, clock \in 1..MaxTime, NEW r, NEW k \in Keys, Check(r, k)
    PROVE  FlightType'
  <1> DEFINE start == [key |-> k, from |-> clock]
  <1>1. start \in [key : Keys, from : Times] /\ start.from >= 1
    BY ConfigAssumption DEF Times
  <1>2. flight' = [flight EXCEPT ![r] = start]
    BY DEF Check
  <1> HIDE DEF start
  <1> QED
    BY <1>1, <1>2 DEF FlightType, FlightInv

\* What a step does not touch stays as it is.
LEMMA TableStays == ASSUME targets' = targets, TableType, TableInv PROVE (TableType /\ TableInv)'
  BY DEF TableType, TableInv, TableBounded, Tracked

LEMMA SlateStays ==
    ASSUME clock' = clock, SlateKept, SlateType, SlateInv PROVE (SlateType /\ SlateInv)'
  BY DEF SlateKept, SlateType, SlateInv, RecentBacked, RejectedFinite, RejectedRemembered

LEMMA FlightStays == ASSUME flight' = flight, FlightType PROVE FlightType'
  BY DEF FlightType, FlightInv

\* Time that passes only takes rejections further out of the window.
LEMMA TickKeepsBInv == ASSUME BInv, Tick PROVE BInv'
  <1>1. clock' = clock + 1 /\ clock' \in 1..MaxTime /\ clock \in Nat
    BY ConfigAssumption DEF Tick, BInv, TypeOK
  <1>2. sessions' = sessions /\ rejected' = rejected
    BY DEF Tick
  <1>3. SlateType /\ SlateType'
    BY <1>2, BInvParts DEF SlateType
  <1>4. RejectedFinite'
    <2>1. \A a \in Accounts : IsFiniteSet({b \in Apps : rejected'[a][b] # 0})
      BY <1>2 DEF BInv, SlateInv, RejectedFinite
    <2>2. \A a \in Accounts : \A b \in Apps : rejected[a][b] \in Int
      BY <1>3 DEF SlateType, Times
    <2>3. \A a \in Accounts : \A b \in Apps : rejected[a][b] <= clock
      BY DEF BInv, SlateInv, RejectedFinite
    <2>4. \A a \in Accounts : \A b \in Apps : rejected'[a][b] <= clock'
      BY <1>1, <1>2, <2>2, <2>3
    <2> QED
      BY <2>1, <2>4 DEF RejectedFinite
  <1>5. RecentBacked' /\ RejectedRemembered'
    BY <1>1, <1>2, <1>3, ConfigAssumption
    DEF BInv, SlateInv, RecentBacked, RejectedRemembered, SlateType, Times
  <1> QED
    BY <1>1, <1>3, <1>4, <1>5, BInvParts, BInvNext, TableStays, FlightStays DEF Tick, SlateInv

\* A refusal keeps all of it.
LEMMA RefusedKeepsBInv ==
    ASSUME BInv, NEW r \in Requests, NEW outcome, Refused(r, outcome)
    PROVE  BInv'
  <1> DEFINE k == flight[r].key
  <1>1. /\ k \in Keys /\ k.account \in Accounts /\ k.app \in Apps
        /\ flight' = [flight EXCEPT ![r] = NoFlight]
        /\ clock' = clock
    BY RefusedFolds
  <1>2. PICK now \in 1..clock :
            /\ clock - now <= MaxLag
            /\ FoldTarget(k, outcome, now)
            /\ SlateKept \/ SlateAdded(k, now) \/ SlateWiped(k, now)
    BY RefusedFolds
  <1>3. clock \in 1..MaxTime /\ now \in Times
    BY ConfigAssumption DEF BInv, TypeOK, Times
  <1> HIDE DEF k
  <1>4. (TableType /\ TableInv)'
    BY <1>1, <1>2, <1>3, BInvParts, FoldKeepsTable
  <1>5. FlightType'
    BY <1>1, BInvParts, EndKeepsFlight
  <1>6. (SlateType /\ SlateInv)'
    <2>1. CASE SlateKept
      BY <1>1, <2>1, BInvParts, SlateStays
    <2>2. CASE SlateAdded(k, now)
      BY <1>1, <1>2, <2>2, AddKeepsSlate
    <2>3. CASE SlateWiped(k, now)
      <3>1. now + SessionCooldown \in Deadlines(SessionCooldown)
        BY <1>3, ConfigAssumption DEF Deadlines, Times
      <3> QED
        BY <1>1, <2>3, <3>1, WipeKeepsSlate DEF SlateWiped
    <2> QED
      BY <1>2, <2>1, <2>2, <2>3
  <1> QED
    BY <1>1, <1>3, <1>4, <1>5, <1>6, BInvNext

\* So does every other step.
LEMMA NextKeepsBInv == BInv /\ [Next]_vars => BInv'
  <1> SUFFICES ASSUME BInv, [Next]_vars PROVE BInv'
    OBVIOUS
  <1>1. /\ clock \in 1..MaxTime /\ TableType /\ TableInv
        /\ SlateType /\ SlateInv /\ FlightType
    BY BInvParts
  <1>2. 0 \in Deadlines(SessionCooldown)
    BY ConfigAssumption DEF Deadlines
  <1>3. ASSUME NEW r \in Requests, NEW k \in Keys, Check(r, k) PROVE BInv'
    BY <1>1, <1>3, BInvNext, CheckKeepsFlight, TableStays, SlateStays DEF Check, SlateKept
  <1>4. ASSUME NEW r \in Requests, NEW outcome \in {"appReject", "emptyCode"}, Refused(r, outcome)
        PROVE  BInv'
    BY <1>4, RefusedKeepsBInv
  <1>5. ASSUME NEW r \in Requests, Succeed(r) PROVE BInv'
    <2>1. (TableType /\ TableInv)'
      BY <1>1, <1>5, FewerKeepTable DEF Succeed
    <2>2. (SlateType /\ SlateInv)'
      BY <1>2, <1>5, WipeKeepsSlate DEF Succeed, NoSession
    <2>3. FlightType' /\ clock' = clock
      BY <1>1, <1>5, EndKeepsFlight DEF Succeed
    <2> QED
      BY <1>1, <2>1, <2>2, <2>3, BInvNext
  <1>6. ASSUME NEW r \in Requests, Drop(r) PROVE BInv'
    BY <1>1, <1>6, BInvNext, EndKeepsFlight, TableStays, SlateStays DEF Drop, SlateKept
  <1>7. ASSUME NEW a \in Accounts, Forget(a) PROVE BInv'
    <2>1. (TableType /\ TableInv)'
      BY <1>1, <1>7, FewerKeepTable DEF Forget
    <2>2. (SlateType /\ SlateInv)'
      BY <1>2, <1>7, WipeKeepsSlate DEF Forget, NoSession
    <2>3. FlightType' /\ clock' = clock
      BY <1>1, <1>7, FlightStays DEF Forget
    <2> QED
      BY <1>1, <2>1, <2>2, <2>3, BInvNext
  <1>8. CASE UNCHANGED vars
    BY <1>1, <1>8, BInvNext, FlightStays, TableStays, SlateStays DEF vars, SlateKept
  <1> QED
    BY <1>3, <1>4, <1>5, <1>6, <1>7, <1>8, TickKeepsBInv DEF Next

\* The inductive invariant holds in every state.
THEOREM BreakerInvariant == Spec => []BInv
  BY InitBInv, NextKeepsBInv, PTL DEF Spec

\* The variables keep their types.
THEOREM TypesCorrect == Spec => []TypeOK
  BY BreakerInvariant, PTL DEF BInv

\* The table never outgrows maxBreakerTargets: every new target finds room first.
THEOREM BreakerTableBounded == Spec => []TableBounded
  <1>1. BInv => TableBounded
    BY DEF BInv, TableInv
  <1> QED
    BY <1>1, BreakerInvariant, PTL

--------------------------------------------------------------------------------
(* What a step may never do.                                                   *)

\* A lookup of an open target's key, of another key, or of any key while the
\* table is full leaves the target where it is.
LEMMA OpenTargetStays ==
    ASSUME BInv, [Next]_vars, NEW k \in Tracked, Open(targets[k], clock)
    PROVE  \/ k \in Tracked' /\ targets'[k].until >= targets[k].until
           \/ Forget(k.account)
           \/ \E r \in Requests : Ends(r) /\ flight[r].key = k /\ Succeed(r)
  <1>1. targets[k].until \in Nat /\ clock \in Nat
    BY ConfigAssumption DEF BInv, TypeOK, Target, Deadlines
  <1>2. CASE targets' = targets
    BY <1>1, <1>2 DEF Tracked
  <1>3. ASSUME NEW r \in Requests, NEW outcome, Refused(r, outcome)
        PROVE  k \in Tracked' /\ targets'[k].until >= targets[k].until
    <2> DEFINE key == flight[r].key
    <2>1. key \in Keys
      BY <1>3, RefusedFolds
    <2>2. PICK now \in 1..clock : FoldTarget(key, outcome, now)
      BY <1>3, RefusedFolds
    <2>3. now \in Times
      BY ConfigAssumption DEF BInv, TypeOK, Times
    <2>4. Open(targets[k], now)
      BY <1>1 DEF Open
    <2> HIDE DEF key
    <2>5. k \in Tracked' /\ targets'[k].until = targets[k].until
      BY <2>1, <2>2, <2>3, <2>4, BInvParts, FoldKeepsTable
    <2> QED
      BY <1>1, <2>5
  <1>4. ASSUME NEW r \in Requests, Succeed(r)
        PROVE  \/ k \in Tracked' /\ targets'[k].until >= targets[k].until
               \/ Ends(r) /\ flight[r].key = k
    <2>1. flight[r] # NoFlight /\ flight'[r] = NoFlight
      BY <1>4 DEF Succeed, BInv, TypeOK
    <2>2. targets' = [j \in Tracked \ {flight[r].key} |-> targets[j]]
      BY <1>4 DEF Succeed
    <2> QED
      BY <1>1, <2>1, <2>2 DEF Ends, Tracked
  <1>5. ASSUME NEW a \in Accounts, Forget(a)
        PROVE  (k \in Tracked' /\ targets'[k].until >= targets[k].until) \/ Forget(k.account)
    <2>1. targets' = [j \in {i \in Tracked : i.account # a} |-> targets[j]]
      BY <1>5 DEF Forget
    <2> QED
      BY <1>1, <1>5, <2>1 DEF Tracked
  <1> QED
    BY <1>2, <1>3, <1>4, <1>5 DEF Next, Check, Drop, Tick, vars

\* TargetHolds for every set of targets, size of the table and setting.
THEOREM TargetsHold == Spec => TargetHolds
  <1>1. BInv /\ [Next]_vars =>
           [\A k \in Tracked :
              Open(targets[k], clock) =>
                  \/ k \in Tracked' /\ targets'[k].until >= targets[k].until
                  \/ Forget(k.account)
                  \/ \E r \in Requests : Ends(r) /\ flight[r].key = k /\ Succeed(r)]_vars
    BY OpenTargetStays
  <1> QED
    BY <1>1, BreakerInvariant, PTL DEF Spec, TargetHolds

\* What any step but a refusal does to an account's session entry.
LEMMA SessionUnderOthers ==
    ASSUME BInv, [Next]_vars, NEW a \in Accounts,
           \A r \in Requests : \A outcome \in {"appReject", "emptyCode"} : ~Refused(r, outcome)
    PROVE  \/ sessions'[a] = sessions[a]
           \/ sessions'[a] = NoSession /\ Forget(a)
           \/ /\ sessions'[a] = NoSession
              /\ \E r \in Requests : Ends(r) /\ flight[r].key.account = a /\ Succeed(r)
  <1>1. sessions = [b \in Accounts |-> sessions[b]]
    BY DEF BInv, TypeOK
  <1>2. ASSUME NEW r \in Requests, Succeed(r)
        PROVE  sessions'[a] = sessions[a] \/ (sessions'[a] = NoSession /\ Ends(r) /\ flight[r].key.account = a)
    <2>1. flight[r] # NoFlight /\ flight'[r] = NoFlight
      BY <1>2 DEF Succeed, BInv, TypeOK
    <2> QED
      BY <1>1, <1>2, <2>1 DEF Succeed, Ends
  <1>3. ASSUME NEW b \in Accounts, Forget(b)
        PROVE  sessions'[a] = sessions[a] \/ (sessions'[a] = NoSession /\ Forget(a))
    BY <1>1, <1>3 DEF Forget
  <1> QED
    BY <1>2, <1>3 DEF Next, Check, Drop, Tick, vars

\* What a refusal does to it: nothing, one more rejection remembered, or a lockout
\* that starts where none was in force.
LEMMA SessionUnderRefusal ==
    ASSUME BInv, NEW r \in Requests, NEW outcome, Refused(r, outcome), NEW a \in Accounts
    PROVE  LET k == flight[r].key
               s == sessions[a]
           IN \/ sessions'[a] = s
              \/ /\ k.account = a /\ k.op \in CodeClasses /\ k.app \in Apps
                 /\ \E now \in 1..clock :
                       LET recent == Recent(s, k.app, now)
                       IN /\ clock - now <= MaxLag
                          /\ \/ /\ Open(s, now) \/ ~SessionOpens(s, recent, now)
                                /\ sessions'[a] = [recent |-> recent, until |-> s.until]
                             \/ /\ SessionOpens(s, recent, now)
                                /\ sessions'[a] = [recent |-> Quiet, until |-> now + SessionCooldown]
  <1>1. sessions = [b \in Accounts |-> sessions[b]]
    BY DEF BInv, TypeOK
  <1>2. flight[r].key.app \in Apps /\ flight[r].key.account \in Accounts
    BY RefusedFolds
  <1>3. PICK now \in 1..clock :
            /\ clock - now <= MaxLag
            /\ \/ SlateKept
               \/ SlateAdded(flight[r].key, now)
               \/ SlateWiped(flight[r].key, now)
    BY RefusedFolds
  <1>4. CASE flight[r].key.account # a \/ SlateKept
    BY <1>1, <1>3, <1>4 DEF SlateKept, SlateAdded, SlateWiped
  <1>5. CASE flight[r].key.account = a /\ SlateAdded(flight[r].key, now)
    BY <1>1, <1>2, <1>3, <1>5 DEF SlateAdded
  <1>6. CASE flight[r].key.account = a /\ SlateWiped(flight[r].key, now)
    BY <1>1, <1>2, <1>3, <1>6 DEF SlateWiped
  <1> QED
    BY <1>3, <1>4, <1>5, <1>6

\* No step brings an account's lockout forward.
LEMMA OpenSessionStays ==
    ASSUME BInv, [Next]_vars, NEW a \in Accounts, Open(sessions[a], clock)
    PROVE  \/ sessions'[a].until >= sessions[a].until
           \/ Forget(a)
           \/ \E r \in Requests : Ends(r) /\ flight[r].key.account = a /\ Succeed(r)
  <1>1. sessions[a].until \in Nat /\ clock \in Nat
    BY ConfigAssumption DEF BInv, TypeOK, Deadlines
  <1>2. ASSUME NEW r \in Requests, NEW outcome, Refused(r, outcome)
        PROVE  sessions'[a].until >= sessions[a].until
    <2>1. \A now \in 1..clock : Open(sessions[a], now)
      BY <1>1 DEF Open
    <2>2. CASE sessions'[a] = sessions[a]
      BY <1>1, <2>2
    <2>3. CASE sessions'[a] # sessions[a]
      <3> DEFINE s == sessions[a]
                 app == flight[r].key.app
      <3>1. PICK now \in 1..clock :
               \/ sessions'[a] = [recent |-> Recent(s, app, now), until |-> s.until]
               \/ SessionOpens(s, Recent(s, app, now), now)
        BY <1>2, <2>3, SessionUnderRefusal
      <3>2. ~SessionOpens(s, Recent(s, app, now), now)
        BY <2>1, <3>1 DEF SessionOpens
      <3>3. sessions'[a].until = s.until
        BY <3>1, <3>2
      <3> QED
        BY <1>1, <3>3
    <2> QED
      BY <2>2, <2>3
  <1> QED
    BY <1>1, <1>2, SessionUnderOthers

\* SessionHolds for every set of requests and setting.
THEOREM SessionsHold == Spec => SessionHolds
  <1>1. BInv /\ [Next]_vars =>
           [\A a \in Accounts :
              Open(sessions[a], clock) =>
                  \/ sessions'[a].until >= sessions[a].until
                  \/ Forget(a)
                  \/ \E r \in Requests : Ends(r) /\ flight[r].key.account = a /\ Succeed(r)]_vars
    BY OpenSessionStays
  <1> QED
    BY <1>1, BreakerInvariant, PTL DEF Spec, SessionHolds

\* The AppIDs the session layer counts were rejected within its window.
LEMMA CountedAreRejected ==
    ASSUME BInv, NEW a \in Accounts, NEW app \in Apps, NEW now \in 1..clock
    PROVE  LET counted == {b \in Apps : Recent(sessions[a], app, now)[b] # 0}
               backed == {app} \cup {b \in Apps : rejected[a][b] # 0 /\ rejected[a][b] >= now - SessionWindow}
           IN Cardinality(counted) \in Nat /\ Cardinality(backed) \in Nat
              /\ Cardinality(counted) <= Cardinality(backed)
  <1> DEFINE counted == {b \in Apps : Recent(sessions[a], app, now)[b] # 0}
             fresh == {b \in Apps : rejected[a][b] # 0 /\ rejected[a][b] >= now - SessionWindow}
             all == {b \in Apps : rejected[a][b] # 0}
  <1>1. IsFiniteSet(all)
    BY DEF BInv, SlateInv, RejectedFinite
  <1>2. fresh \subseteq all
    OBVIOUS
  <1>3. counted \subseteq fresh \cup {app}
    <2>1. clock \in Nat /\ SessionWindow \in Nat
      BY ConfigAssumption DEF BInv, TypeOK
    <2>2. \A b \in Apps : /\ sessions[a].recent[b] \in Nat
                          /\ rejected[a][b] \in Nat
                          /\ sessions[a].recent[b] <= rejected[a][b]
      BY ConfigAssumption DEF BInv, TypeOK, SlateInv, RecentBacked, Times
    <2> QED
      BY <2>1, <2>2 DEF Recent
  <1> HIDE DEF counted, fresh, all
  <1>4. IsFiniteSet(fresh \cup {app})
    BY <1>1, <1>2, FS_Subset, FS_AddElement
  <1>5. IsFiniteSet(counted) /\ Cardinality(counted) <= Cardinality(fresh \cup {app})
    BY <1>3, <1>4, FS_Subset
  <1>6. fresh \cup {app} = {app} \cup fresh
    OBVIOUS
  <1> QED
    BY <1>4, <1>5, <1>6, FS_CardinalityType DEF counted, fresh

\* A lockout starts only with a request that brings the evidence to the threshold.
LEMMA LockoutHasEvidence ==
    ASSUME BInv, [Next]_vars, NEW r \in Requests, NEW a \in Accounts,
           Ends(r), sessions'[a].until > sessions[a].until
    PROVE  LET k == flight[r].key
               now == sessions'[a].until - SessionCooldown
           IN /\ k.account = a /\ k.op \in CodeClasses
              /\ Cardinality({k.app} \cup {b \in Apps : rejected[a][b] # 0 /\ rejected[a][b] >= now - SessionWindow})
                    >= SessionDistinct
  <1>1. sessions[a].until \in Nat /\ SessionDistinct \in Nat /\ SessionCooldown \in Nat /\ clock \in Nat
    BY ConfigAssumption DEF BInv, TypeOK, Deadlines
  <1>2. PICK q \in Requests, outcome \in {"appReject", "emptyCode"} : Refused(q, outcome)
    <2>1. SUFFICES ASSUME \A q \in Requests : \A outcome \in {"appReject", "emptyCode"} : ~Refused(q, outcome)
                   PROVE  FALSE
      OBVIOUS
    <2>2. sessions'[a] = sessions[a] \/ sessions'[a].until = 0
      BY <2>1, SessionUnderOthers DEF NoSession
    <2> QED
      BY <1>1, <2>2
  <1>3. q = r
    BY <1>2, RefusedFolds DEF Ends, BInv, TypeOK
  <1> DEFINE k == flight[r].key
             s == sessions[a]
  <1>4. /\ k.account = a /\ k.op \in CodeClasses /\ k.app \in Apps
        /\ \E now \in 1..clock : /\ SessionOpens(s, Recent(s, k.app, now), now)
                                 /\ sessions'[a].until = now + SessionCooldown
    <2>1. sessions'[a] # s
      BY <1>1
    <2>2. k.account = a /\ k.op \in CodeClasses /\ k.app \in Apps
      BY <1>2, <1>3, <2>1, SessionUnderRefusal
    <2>3. PICK now \in 1..clock :
             \/ sessions'[a] = [recent |-> Recent(s, k.app, now), until |-> s.until]
             \/ /\ SessionOpens(s, Recent(s, k.app, now), now)
                /\ sessions'[a] = [recent |-> Quiet, until |-> now + SessionCooldown]
      BY <1>2, <1>3, <2>1, SessionUnderRefusal
    <2>4. sessions'[a].until # s.until
      BY <1>1
    <2> QED
      BY <2>2, <2>3, <2>4
  <1>5. PICK now \in 1..clock : /\ SessionOpens(s, Recent(s, k.app, now), now)
                                /\ sessions'[a].until = now + SessionCooldown
    BY <1>4
  <1>6. now = sessions'[a].until - SessionCooldown
    BY <1>1, <1>5
  <1> DEFINE counted == {b \in Apps : Recent(s, k.app, now)[b] # 0}
             backed == {k.app} \cup {b \in Apps : rejected[a][b] # 0 /\ rejected[a][b] >= now - SessionWindow}
  <1>7. Cardinality(counted) >= SessionDistinct
    BY <1>5 DEF SessionOpens
  <1>8. Cardinality(counted) \in Nat /\ Cardinality(backed) \in Nat /\ Cardinality(counted) <= Cardinality(backed)
    BY <1>4, CountedAreRejected
  <1>9. Cardinality(backed) >= SessionDistinct
    <2> HIDE DEF counted, backed
    <2> QED
      BY <1>1, <1>7, <1>8
  <1> QED
    BY <1>4, <1>6, <1>9

\* LockoutJustified for every set of accounts, AppIDs and requests, and every setting.
THEOREM LockoutsJustified == Spec => LockoutJustified
  <1>1. BInv /\ [Next]_vars =>
           [\A r \in Requests : \A a \in Accounts :
              Ends(r) /\ sessions'[a].until > sessions[a].until =>
                  LET k == flight[r].key
                      now == sessions'[a].until - SessionCooldown
                  IN /\ k.account = a /\ k.op \in CodeClasses
                     /\ Cardinality({k.app} \cup {b \in Apps : rejected[a][b] # 0 /\ rejected[a][b] >= now - SessionWindow})
                           >= SessionDistinct]_vars
    BY LockoutHasEvidence
  <1> QED
    BY <1>1, BreakerInvariant, PTL DEF Spec, LockoutJustified

\* In the state after a rejection, the layer remembers every AppID that the slate
\* has inside the window by twice MaxLag.
LEMMA EvidenceIsRemembered ==
    ASSUME BInv', clock' = clock, NEW a \in Accounts, NEW now \in 1..clock, clock - now <= MaxLag,
           Cardinality({b \in Apps : sessions'[a].recent[b] # 0}) < SessionDistinct
    PROVE  Cardinality({b \in Apps : rejected'[a][b] # 0
                            /\ rejected'[a][b] >= now - SessionWindow + 2 * MaxLag}) < SessionDistinct
  <1> DEFINE known == {b \in Apps : sessions'[a].recent[b] # 0}
             fresh == {b \in Apps : rejected'[a][b] # 0
                            /\ rejected'[a][b] >= now - SessionWindow + 2 * MaxLag}
             all == {b \in Apps : rejected'[a][b] # 0}
  <1>1. /\ clock \in Nat /\ SessionWindow \in Nat /\ MaxLag \in Nat /\ SessionDistinct \in Nat
        /\ \A b \in Apps : sessions'[a].recent[b] \in Nat /\ rejected'[a][b] \in Nat
    BY ConfigAssumption DEF BInv, TypeOK, Times
  <1>2. fresh \subseteq known
    <2>1. SUFFICES ASSUME NEW b \in fresh PROVE b \in known
      OBVIOUS
    <2>2. \/ sessions'[a].recent[b] # 0
          \/ rejected'[a][b] < clock - SessionWindow + MaxLag
      BY <2>1 DEF BInv, SlateInv, RejectedRemembered
    <2> QED
      BY <1>1, <2>2
  <1>3. known \subseteq all
    <2>1. \A b \in Apps : sessions'[a].recent[b] <= rejected'[a][b]
      BY DEF BInv, SlateInv, RecentBacked
    <2> QED
      BY <1>1, <2>1
  <1>4. IsFiniteSet(all)
    BY DEF BInv, SlateInv, RejectedFinite
  <1>5. Cardinality(known) < SessionDistinct
    OBVIOUS
  <1> HIDE DEF known, fresh, all
  <1>6. IsFiniteSet(known)
    BY <1>3, <1>4, FS_Subset
  <1>7. IsFiniteSet(fresh) /\ Cardinality(fresh) <= Cardinality(known)
    BY <1>2, <1>6, FS_Subset
  <1>8. Cardinality(fresh) < SessionDistinct
    BY <1>1, <1>5, <1>6, <1>7, FS_CardinalityType
  <1> QED
    BY <1>8 DEF fresh

\* A rejection that is only remembered met a lockout in force or too few AppIDs.
LEMMA NoEvidenceMissed ==
    ASSUME BInv, [Next]_vars, NEW r \in Requests, NEW a \in Accounts,
           Ends(r), flight[r].key.account = a,
           sessions'[a].recent # sessions[a].recent,
           sessions'[a].recent[flight[r].key.app] # 0
    PROVE  LET now == sessions'[a].recent[flight[r].key.app]
           IN \/ now < sessions[a].until
              \/ Cardinality({b \in Apps : rejected'[a][b] # 0
                                 /\ rejected'[a][b] >= now - SessionWindow + 2 * MaxLag}) < SessionDistinct
  <1> DEFINE app == flight[r].key.app
             s == sessions[a]
  <1>1. /\ app \in Apps /\ sessions \in [Accounts -> [recent : [Apps -> Times], until : Deadlines(SessionCooldown)]]
        /\ s.until \in Nat /\ SessionDistinct \in Nat /\ clock \in Nat
    <2>1. flight[r] \in [key : Keys, from : Times]
      BY DEF BInv, TypeOK, Ends
    <2>2. app \in Apps
      BY <2>1 DEF Apps
    <2>3. sessions \in [Accounts -> [recent : [Apps -> Times], until : Deadlines(SessionCooldown)]]
      BY DEF BInv, TypeOK
    <2> QED
      BY <2>2, <2>3, ConfigAssumption DEF BInv, TypeOK, Deadlines
  <1>2. PICK q \in Requests, outcome \in {"appReject", "emptyCode"} : Refused(q, outcome)
    <2>1. SUFFICES ASSUME \A q \in Requests : \A outcome \in {"appReject", "emptyCode"} : ~Refused(q, outcome)
                   PROVE  FALSE
      OBVIOUS
    <2>2. sessions'[a] = sessions[a] \/ sessions'[a].recent = Quiet
      BY <2>1, SessionUnderOthers DEF NoSession
    <2> QED
      BY <1>1, <2>2 DEF Quiet
  <1>3. q = r /\ clock' = clock
    BY <1>2, RefusedFolds DEF Ends, BInv, TypeOK
  <1>4. sessions'[a] # s
    OBVIOUS
  <1>5. PICK now \in 1..clock :
           /\ clock - now <= MaxLag
           /\ \/ /\ Open(s, now) \/ ~SessionOpens(s, Recent(s, app, now), now)
                 /\ sessions'[a] = [recent |-> Recent(s, app, now), until |-> s.until]
              \/ sessions'[a] = [recent |-> Quiet, until |-> now + SessionCooldown]
    <2>1. \E now \in 1..clock :
             LET recent == Recent(s, app, now)
             IN /\ clock - now <= MaxLag
                /\ \/ /\ Open(s, now) \/ ~SessionOpens(s, recent, now)
                      /\ sessions'[a] = [recent |-> recent, until |-> s.until]
                   \/ /\ SessionOpens(s, recent, now)
                      /\ sessions'[a] = [recent |-> Quiet, until |-> now + SessionCooldown]
      BY <1>2, <1>3, <1>4, SessionUnderRefusal
    <2> HIDE DEF app, s
    <2> QED
      BY <2>1
  <1>6. sessions'[a].recent # Quiet
    BY <1>1 DEF Quiet
  <1>7. /\ Open(s, now) \/ ~SessionOpens(s, Recent(s, app, now), now)
        /\ sessions'[a] = [recent |-> Recent(s, app, now), until |-> s.until]
    BY <1>5, <1>6
  <1>8. sessions'[a].recent[app] = now
    BY <1>1, <1>7 DEF Recent
  <1>9. CASE Open(s, now)
    BY <1>8, <1>9 DEF Open
  <1>10. CASE ~Open(s, now)
    <2> DEFINE known == {b \in Apps : sessions'[a].recent[b] # 0}
    <2>1. BInv'
      BY NextKeepsBInv
    <2>2. IsFiniteSet(known)
      <3>1. known \subseteq {b \in Apps : rejected'[a][b] # 0}
        <4>1. \A b \in Apps : /\ sessions'[a].recent[b] \in Nat
                              /\ rejected'[a][b] \in Nat
                              /\ sessions'[a].recent[b] <= rejected'[a][b]
          BY <2>1, ConfigAssumption DEF BInv, TypeOK, SlateInv, RecentBacked, Times
        <4> QED
          BY <4>1
      <3>2. IsFiniteSet({b \in Apps : rejected'[a][b] # 0})
        BY <2>1 DEF BInv, SlateInv, RejectedFinite
      <3> HIDE DEF known
      <3> QED
        BY <3>1, <3>2, FS_Subset
    <2>3. ~ (Cardinality(known) >= SessionDistinct)
      BY <1>7, <1>10 DEF SessionOpens
    <2>4. Cardinality(known) \in Nat
      BY <2>2, FS_CardinalityType
    <2>5. Cardinality(known) < SessionDistinct
      <3> HIDE DEF known
      <3> QED
        BY <1>1, <2>3, <2>4
    <2> QED
      BY <1>3, <1>5, <1>8, <2>1, <2>5, EvidenceIsRemembered
  <1> QED
    BY <1>9, <1>10

\* LockoutNotMissed for every set of accounts, AppIDs and requests, and every setting.
THEOREM LockoutsNotMissed == Spec => LockoutNotMissed
  <1>1. BInv /\ [Next]_vars =>
           [\A r \in Requests : \A a \in Accounts :
              LET app == flight[r].key.app
                  now == sessions'[a].recent[app]
              IN Ends(r) /\ flight[r].key.account = a
                 /\ sessions'[a].recent # sessions[a].recent /\ now # 0
                 => \/ now < sessions[a].until
                    \/ Cardinality({b \in Apps : rejected'[a][b] # 0
                                       /\ rejected'[a][b] >= now - SessionWindow + 2 * MaxLag}) < SessionDistinct]_vars
    BY NoEvidenceMissed
  <1> QED
    BY <1>1, BreakerInvariant, PTL DEF Spec, LockoutNotMissed

\* A refused target is left out only when every slot of the table holds off requests
\* at the reading, and so at any earlier one.
LEMMA RefusedFindsRoom ==
    ASSUME BInv, [Next]_vars, NEW r \in Requests, Ends(r), flight[r].key \notin Tracked',
           NEW outcome, Refused(r, outcome)
    PROVE  \A k \in Tracked : Open(targets[k], clock - MaxLag)
  <1> DEFINE key == flight[r].key
  <1>1. PICK now \in 1..clock : clock - now <= MaxLag /\ FoldTarget(key, outcome, now)
    BY RefusedFolds
  <1>2. /\ clock \in Nat /\ MaxLag \in Nat /\ MaxTime \in Nat
        /\ \A k \in Tracked : targets[k].until \in Nat /\ targets[k].last \in Nat
    BY ConfigAssumption DEF BInv, TypeOK, Target, Times, Deadlines
  <1>3. Room(key, now) = {}
    <2>1. SUFFICES ASSUME Room(key, now) # {} PROVE key \in Tracked'
      OBVIOUS
    <2>2. PICK kept \in Room(key, now) : Tracked' = kept \cup {key}
      BY <1>1, <2>1 DEF FoldTarget, Tracked
    <2> QED
      BY <2>2
  <1>4. \A k \in Tracked : Open(targets[k], now)
    BY <1>2, <1>3, NoRoomAllOpen DEF BInv
  <1> QED
    BY <1>1, <1>2, <1>4 DEF Open

\* RefusedIsTracked for every size of the table and every setting.
THEOREM RefusedAreTracked == Spec => RefusedIsTracked
  <1>1. BInv /\ [Next]_vars =>
           [\A r \in Requests :
              Ends(r) /\ flight[r].key \notin Tracked' =>
                  \/ \A k \in Tracked : Open(targets[k], clock - MaxLag)
                  \/ ~\E outcome \in {"appReject", "emptyCode"} : Refused(r, outcome)]_vars
    BY RefusedFindsRoom
  <1> QED
    BY <1>1, BreakerInvariant, PTL DEF Spec, RefusedIsTracked

================================================================================
