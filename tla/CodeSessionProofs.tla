-------------------------- MODULE CodeSessionProofs --------------------------
(* Proofs about CodeSession, for any calls, limits and windows.                *)
EXTENDS CodeSession, TLAPS

--------------------------------------------------------------------------------
(* The login budget                                                            *)

\* A use stays recorded until its call has left the window, and its reading is at
\* most MaxLag older than the call.
Forgotten == Len(grants) - Len(uses)
BudgetInv == /\ now \in Nat /\ uses \in Seq(Nat) /\ grants \in Seq(Nat)
             /\ Len(uses) <= Len(grants)
             /\ \A i \in 1..Len(uses) : /\ uses[i] <= grants[Forgotten + i]
                                        /\ grants[Forgotten + i] <= uses[i] + MaxLag
             /\ \A i \in 1..Forgotten : grants[i] <= now - BudgetWindow + MaxLag
             /\ \A i \in 1..Len(grants) : grants[i] <= now
             /\ \A i, j \in 1..Len(grants) : i <= j => grants[i] <= grants[j]
             /\ WithinBudget

\* What dropping the stale uses leaves.
LEMMA KeptFacts ==
    ASSUME BudgetInv, NEW reading \in Readings, NEW k \in Stale(reading)
    PROVE  /\ k \in 0..Len(uses)
           /\ Kept(k) \in Seq(Nat) /\ Len(Kept(k)) = Len(uses) - k
           /\ \A i \in 1..(Len(uses) - k) : Kept(k)[i] = uses[k + i]
           /\ \A i \in 1..(Forgotten + k) : grants[i] <= now - BudgetWindow + MaxLag
  <1> USE BudgetAssumption
  <1>1. /\ k \in 0..Len(uses) /\ Len(uses) \in Nat /\ Len(grants) \in Nat
        /\ \A i \in 1..Len(uses) : uses[i] \in Nat
        /\ \A i \in 1..Len(grants) : grants[i] \in Nat
    <2>1. uses \in Seq(Nat) /\ grants \in Seq(Nat)
      BY DEF BudgetInv
    <2>2. k \in 0..Len(uses)
      BY DEF Stale
    <2> QED
      BY <2>1, <2>2
  <1>2. Kept(k) \in Seq(Nat) /\ Len(Kept(k)) = Len(uses) - k
        /\ \A i \in 1..(Len(uses) - k) : Kept(k)[i] = uses[k + i]
    BY <1>1 DEF Kept, BudgetInv
  <1>3. reading \in Nat /\ reading <= now /\ now \in Nat
    BY DEF Readings, BudgetInv
  <1>4. ASSUME NEW i \in 1..(Forgotten + k) PROVE grants[i] <= now - BudgetWindow + MaxLag
    <2>1. CASE i \in 1..Forgotten
      BY <2>1 DEF BudgetInv
    <2>2. CASE i \notin 1..Forgotten
      <3> DEFINE n == i - Forgotten
      <3>1. n \in 1..k /\ n \in 1..Len(uses) /\ Forgotten + n = i /\ i \in 1..Len(grants)
        BY <1>1, <1>4, <2>2 DEF BudgetInv, Forgotten
      <3>2. uses[n] <= reading - BudgetWindow
        BY <1>1, <1>3, <3>1 DEF Stale, Recent
      <3>3. grants[Forgotten + n] <= uses[n] + MaxLag
        BY <3>1 DEF BudgetInv
      <3> HIDE DEF n
      <3> QED
        BY <1>1, <1>3, <3>1, <3>2, <3>3
    <2> QED
      BY <2>1, <2>2
  <1> QED
    BY <1>1, <1>2, <1>4

\* A call let through keeps the bookkeeping, and the window's bound with it.
LEMMA BudgetGrant == ASSUME BudgetInv, Grant, now' = now PROVE BudgetInv'
  <1> USE BudgetAssumption
  <1>0. PICK reading \in Readings : \E k \in Stale(reading) :
              /\ Len(Kept(k)) < Limit
              /\ uses' = Append(Kept(k), reading)
              /\ grants' = Append(grants, now)
    BY DEF Grant
  <1>1. PICK k \in Stale(reading) :
              /\ Len(Kept(k)) < Limit
              /\ uses' = Append(Kept(k), reading)
              /\ grants' = Append(grants, now)
    BY <1>0
  <1>2. /\ k \in 0..Len(uses)
        /\ Kept(k) \in Seq(Nat) /\ Len(Kept(k)) = Len(uses) - k
        /\ \A i \in 1..(Len(uses) - k) : Kept(k)[i] = uses[k + i]
        /\ \A i \in 1..(Forgotten + k) : grants[i] <= now - BudgetWindow + MaxLag
    BY KeptFacts
  <1>3. /\ now \in Nat /\ uses \in Seq(Nat) /\ grants \in Seq(Nat) /\ Len(uses) <= Len(grants)
        /\ Len(uses) \in Nat /\ Len(grants) \in Nat
        /\ \A i \in 1..Len(grants) : grants[i] \in Nat /\ grants[i] <= now
        /\ \A i \in 1..Len(uses) : uses[i] \in Nat
    <2>1. now \in Nat /\ uses \in Seq(Nat) /\ grants \in Seq(Nat) /\ Len(uses) <= Len(grants)
          /\ \A i \in 1..Len(grants) : grants[i] <= now
      BY DEF BudgetInv
    <2> QED
      BY <2>1
  <1>4. reading \in Nat /\ reading <= now /\ now <= reading + MaxLag
    BY <1>3 DEF Readings
  <1>5. /\ uses' \in Seq(Nat) /\ Len(uses') = Len(uses) - k + 1
        /\ \A i \in 1..(Len(uses) - k) : uses'[i] = uses[k + i]
        /\ uses'[Len(uses) - k + 1] = reading
    BY <1>1, <1>2, <1>3, <1>4
  <1>6. /\ grants' \in Seq(Nat) /\ Len(grants') = Len(grants) + 1
        /\ \A i \in 1..Len(grants) : grants'[i] = grants[i]
        /\ grants'[Len(grants) + 1] = now
    BY <1>1, <1>3
  <1>7. /\ Forgotten' = Forgotten + k /\ Forgotten \in Nat
        /\ Forgotten = Len(grants) - Len(uses)
        /\ Forgotten' = Len(grants') - Len(uses')
    BY <1>2, <1>3, <1>5, <1>6 DEF Forgotten
  <1>a. Len(uses) \in Nat /\ Len(grants) \in Nat /\ k \in Nat /\ k <= Len(uses) /\ Forgotten \in Nat
        /\ Forgotten + Len(uses) = Len(grants) /\ Forgotten' = Forgotten + k
    BY <1>2, <1>3, <1>7
  <1>8. \A i \in 1..Len(uses') : /\ uses'[i] <= grants'[Forgotten' + i]
                                 /\ grants'[Forgotten' + i] <= uses'[i] + MaxLag
    <2> SUFFICES ASSUME NEW i \in 1..Len(uses')
                 PROVE  uses'[i] <= grants'[Forgotten' + i] /\ grants'[Forgotten' + i] <= uses'[i] + MaxLag
      OBVIOUS
    <2>0. i \in 1..(Len(uses) - k + 1) /\ i \in Nat /\ k \in Nat
      BY <1>2, <1>3, <1>5
    <2>1. CASE i = Len(uses) - k + 1
      <3>1. Forgotten' + i = Len(grants) + 1
        BY <1>3, <1>7, <2>0, <2>1
      <3> QED
        BY <1>3, <1>4, <1>5, <1>6, <2>1, <3>1
    <2>2. CASE i \in 1..(Len(uses) - k)
      <3>1. k + i \in 1..Len(uses) /\ Forgotten' + i = Forgotten + (k + i) /\ Forgotten' + i \in 1..Len(grants)
        BY <1>a, <2>2
      <3>2. uses[k + i] <= grants[Forgotten + (k + i)] /\ grants[Forgotten + (k + i)] <= uses[k + i] + MaxLag
        BY <3>1 DEF BudgetInv
      <3>3. grants'[Forgotten' + i] = grants[Forgotten + (k + i)] /\ uses'[i] = uses[k + i]
        BY <1>5, <1>6, <2>2, <3>1
      <3> QED
        BY <3>2, <3>3
    <2> QED
      BY <1>a, <2>0, <2>1, <2>2
  <1>9. \A i \in 1..Forgotten' : grants'[i] <= now' - BudgetWindow + MaxLag
    <2>1. \A i \in 1..Forgotten' : i \in 1..Len(grants)
      BY <1>2, <1>3, <1>7 DEF Forgotten
    <2> QED
      BY <1>2, <1>6, <1>7, <2>1
  <1>10. \A i \in 1..Len(grants') : i \in 1..Len(grants) \/ i = Len(grants) + 1
    BY <1>3, <1>6
  <1>11. \A i \in 1..Len(grants') : grants'[i] <= now' /\ grants'[i] \in Nat
    <2> SUFFICES ASSUME NEW i \in 1..Len(grants') PROVE grants'[i] <= now' /\ grants'[i] \in Nat
      OBVIOUS
    <2>1. CASE i \in 1..Len(grants)
      BY <1>3, <1>6, <2>1
    <2>2. CASE i = Len(grants) + 1
      BY <1>3, <1>6, <2>2
    <2> QED
      BY <1>10, <2>1, <2>2
  <1>12. ASSUME NEW i \in 1..Len(grants'), NEW j \in 1..Len(grants'), i <= j
         PROVE  grants'[i] <= grants'[j]
    <2>1. CASE j = Len(grants) + 1
      BY <1>6, <1>11, <2>1
    <2>2. CASE j \in 1..Len(grants)
      <3>1. i \in 1..Len(grants)
        BY <1>3, <1>12, <2>2
      <3>2. grants[i] <= grants[j]
        BY <1>12, <2>2, <3>1 DEF BudgetInv
      <3> QED
        BY <1>6, <2>2, <3>1, <3>2
    <2> QED
      BY <1>10, <2>1, <2>2
  <1>13. WithinBudget'
    <2> SUFFICES ASSUME NEW i \in 1..Len(grants'), i + Limit <= Len(grants')
                 PROVE  grants'[i + Limit] - grants'[i] >= BudgetWindow - MaxLag
      BY <1>6 DEF WithinBudget
    <2>0. i + Limit \in 1..Len(grants') /\ i \in 1..Len(grants) /\ i + Limit \in Nat
      BY <1>3, <1>6
    <2>1. CASE i + Limit \in 1..Len(grants)
      <3>1. i \in DOMAIN grants /\ i + Limit <= Len(grants)
        BY <1>3, <2>0, <2>1
      <3>2. grants[i + Limit] - grants[i] >= BudgetWindow - MaxLag
        BY <3>1 DEF BudgetInv, WithinBudget
      <3>3. grants'[i + Limit] = grants[i + Limit] /\ grants'[i] = grants[i]
        BY <1>6, <2>0, <2>1
      <3> QED
        BY <3>2, <3>3
    <2>2. CASE i + Limit = Len(grants) + 1
      <3>1. i \in 1..(Forgotten + k)
        BY <1>1, <1>2, <1>3, <1>7, <2>0, <2>2
      <3>2. grants[i] <= now - BudgetWindow + MaxLag /\ grants[i] \in Nat
        BY <1>2, <1>3, <2>0, <3>1
      <3>3. grants'[i + Limit] = now /\ grants'[i] = grants[i]
        BY <1>6, <2>0, <2>2
      <3> QED
        BY <1>3, <3>2, <3>3
    <2> QED
      BY <1>10, <2>0, <2>1, <2>2
  <1>14. now' \in Nat /\ Len(uses') <= Len(grants')
    BY <1>2, <1>3, <1>5, <1>6
  <1> QED
    BY <1>5, <1>6, <1>8, <1>9, <1>11, <1>12, <1>13, <1>14 DEF BudgetInv

\* A refusal only drops what has left the window.
LEMMA BudgetRefuse == ASSUME BudgetInv, Refuse, now' = now PROVE BudgetInv'
  <1> USE BudgetAssumption
  <1>1. PICK reading \in Readings : \E k \in Stale(reading) : uses' = Kept(k)
    BY DEF Refuse
  <1>2. PICK k \in Stale(reading) : uses' = Kept(k)
    BY <1>1
  <1>3. /\ k \in 0..Len(uses)
        /\ Kept(k) \in Seq(Nat) /\ Len(Kept(k)) = Len(uses) - k
        /\ \A i \in 1..(Len(uses) - k) : Kept(k)[i] = uses[k + i]
        /\ \A i \in 1..(Forgotten + k) : grants[i] <= now - BudgetWindow + MaxLag
    BY KeptFacts
  <1>4. /\ now \in Nat /\ uses \in Seq(Nat) /\ grants \in Seq(Nat)
        /\ Len(uses) \in Nat /\ Len(grants) \in Nat /\ Len(uses) <= Len(grants)
    BY DEF BudgetInv
  <1>5. grants' = grants
    BY DEF Refuse
  <1>6. /\ Forgotten' = Forgotten + k /\ Len(uses') = Len(uses) - k /\ uses' \in Seq(Nat)
        /\ Forgotten = Len(grants) - Len(uses)
    BY <1>2, <1>3, <1>4, <1>5 DEF Forgotten
  <1>7. ASSUME NEW i \in 1..Len(uses')
        PROVE  uses'[i] <= grants'[Forgotten' + i] /\ grants'[Forgotten' + i] <= uses'[i] + MaxLag
    <2>1. k + i \in 1..Len(uses) /\ Forgotten' + i = Forgotten + (k + i) /\ i \in 1..(Len(uses) - k)
      <3>1. Len(uses) \in Nat /\ Len(grants) \in Nat /\ k \in Nat /\ k <= Len(uses) /\ Forgotten \in Nat
            /\ Len(uses') = Len(uses) - k /\ Forgotten' = Forgotten + k
        BY <1>3, <1>4, <1>6
      <3>2. i \in 1..(Len(uses) - k)
        BY <1>7, <3>1
      <3> QED
        BY <3>1, <3>2
    <2>2. uses[k + i] <= grants[Forgotten + (k + i)] /\ grants[Forgotten + (k + i)] <= uses[k + i] + MaxLag
      BY <2>1 DEF BudgetInv
    <2>3. uses'[i] = uses[k + i]
      BY <1>2, <1>3, <2>1
    <2> QED
      BY <1>5, <2>1, <2>2, <2>3
  <1>8. \A i \in 1..Forgotten' : grants'[i] <= now' - BudgetWindow + MaxLag
    BY <1>3, <1>5, <1>6
  <1>9. WithinBudget'
    BY <1>5 DEF BudgetInv, WithinBudget
  <1>10. /\ \A i \in 1..Len(grants') : grants'[i] <= now'
         /\ \A i, j \in 1..Len(grants') : i <= j => grants'[i] <= grants'[j]
    BY <1>5 DEF BudgetInv
  <1>11. Len(uses') <= Len(grants') /\ now' \in Nat /\ grants' \in Seq(Nat)
    BY <1>3, <1>4, <1>5, <1>6
  <1> QED
    BY <1>6, <1>7, <1>8, <1>9, <1>10, <1>11 DEF BudgetInv

\* A full table forgets the account by its last recorded use: that use is late by
\* at most MaxLag, and every call before it was let through no later.
LEMMA BudgetPrune == ASSUME BudgetInv, PruneAccount, now' = now PROVE BudgetInv'
  <1> USE BudgetAssumption
  <1>1. PICK reading \in Readings : ~Recent(uses[Len(uses)], reading)
    BY DEF PruneAccount
  <1>2. uses # <<>> /\ uses' = <<>> /\ grants' = grants
    BY DEF PruneAccount
  <1>3. /\ now \in Nat /\ uses \in Seq(Nat) /\ grants \in Seq(Nat)
        /\ Len(uses) \in Nat /\ Len(grants) \in Nat /\ Len(uses) <= Len(grants) /\ Len(uses) >= 1
        /\ uses[Len(uses)] \in Nat
    <2>1. now \in Nat /\ uses \in Seq(Nat) /\ grants \in Seq(Nat) /\ Len(uses) <= Len(grants)
      BY DEF BudgetInv
    <2>2. Len(uses) \in Nat /\ Len(grants) \in Nat /\ Len(uses) >= 1
      BY <1>2, <2>1
    <2> QED
      BY <2>1, <2>2
  <1>4. Forgotten + Len(uses) = Len(grants) /\ Forgotten' = Len(grants)
    BY <1>2, <1>3 DEF Forgotten
  <1>5. grants[Len(grants)] <= uses[Len(uses)] + MaxLag
    <2>1. Len(uses) \in 1..Len(uses)
      BY <1>3
    <2>2. grants[Forgotten + Len(uses)] <= uses[Len(uses)] + MaxLag
      BY <2>1 DEF BudgetInv
    <2> QED
      BY <1>4, <2>2
  <1>6. uses[Len(uses)] <= now - BudgetWindow
    BY <1>1, <1>3 DEF Readings, Recent
  <1>7. Len(grants) \in 1..Len(grants) /\ \A i \in 1..Len(grants) : grants[i] \in Nat
    BY <1>3
  <1>8. \A i \in 1..Len(grants) : grants[i] <= grants[Len(grants)]
    BY <1>7 DEF BudgetInv
  <1>9. \A i \in 1..Len(grants) : grants[i] <= now - BudgetWindow + MaxLag
    BY <1>3, <1>5, <1>6, <1>7, <1>8
  <1>10. \A i \in 1..Forgotten' : grants'[i] <= now' - BudgetWindow + MaxLag
    BY <1>2, <1>4, <1>9
  <1>11. /\ \A i \in 1..Len(grants') : grants'[i] <= now'
         /\ \A i, j \in 1..Len(grants') : i <= j => grants'[i] <= grants'[j]
         /\ WithinBudget'
    BY <1>2 DEF BudgetInv, WithinBudget
  <1>12. /\ uses' \in Seq(Nat) /\ grants' \in Seq(Nat) /\ Len(uses') = 0 /\ Len(uses') <= Len(grants')
         /\ now' \in Nat
    BY <1>2, <1>3
  <1> QED
    BY <1>10, <1>11, <1>12 DEF BudgetInv

\* Time only moves the calls further out of the window.
LEMMA BudgetTick ==
    ASSUME BudgetInv, UNCHANGED budgetVars, now' \in Nat, now' >= now PROVE BudgetInv'
  <1> USE BudgetAssumption
  <1>1. uses' = uses /\ grants' = grants /\ Forgotten' = Forgotten
    BY DEF budgetVars, Forgotten
  <1>2. /\ now \in Nat /\ uses \in Seq(Nat) /\ grants \in Seq(Nat)
        /\ Len(uses) \in Nat /\ Len(grants) \in Nat /\ Len(uses) <= Len(grants)
    BY DEF BudgetInv
  <1>3. (\A i \in 1..Len(grants) : grants[i] \in Nat) /\ Forgotten \in Nat
    BY <1>2 DEF Forgotten
  <1>4. \A i \in 1..Forgotten : i \in 1..Len(grants)
    BY <1>2 DEF Forgotten
  <1>5. \A i \in 1..Forgotten' : grants'[i] <= now' - BudgetWindow + MaxLag
    <2>1. \A i \in 1..Forgotten : grants[i] <= now - BudgetWindow + MaxLag
      BY DEF BudgetInv
    <2> QED
      BY <1>1, <1>2, <1>3, <1>4, <2>1
  <1>6. \A i \in 1..Len(grants') : grants'[i] <= now'
    <2>1. \A i \in 1..Len(grants) : grants[i] <= now
      BY DEF BudgetInv
    <2> QED
      BY <1>1, <1>2, <1>3, <2>1
  <1>7. WithinBudget'
    BY <1>1 DEF BudgetInv, WithinBudget
  <1>8. /\ \A i \in 1..Len(uses') : /\ uses'[i] <= grants'[Forgotten' + i]
                                    /\ grants'[Forgotten' + i] <= uses'[i] + MaxLag
        /\ \A i, j \in 1..Len(grants') : i <= j => grants'[i] <= grants'[j]
        /\ uses' \in Seq(Nat) /\ grants' \in Seq(Nat) /\ Len(uses') <= Len(grants')
    BY <1>1 DEF BudgetInv
  <1> QED
    BY <1>5, <1>6, <1>7, <1>8 DEF BudgetInv

\* An empty account, at the start and after a restart.
LEMMA BudgetEmpty == ASSUME uses = <<>>, grants = <<>>, now \in Nat PROVE BudgetInv
  BY DEF BudgetInv, Forgotten, WithinBudget
LEMMA BudgetEmptied == ASSUME uses' = <<>>, grants' = <<>>, now' \in Nat PROVE BudgetInv'
  BY DEF BudgetInv, Forgotten, WithinBudget

--------------------------------------------------------------------------------
(* What the actions do to the clock and to the budget                          *)

\* The steps of a call that neither ask the budget nor touch a repair attempt.
QuietStep(c) == \/ Begin(c) \/ TakeCodeLock(c) \/ Check(c) \/ Lookup(c) \/ TakeStateLock(c) \/ Recheck(c)
                \/ Login(c) \/ Put(c) \/ UseOK(c) \/ UseFails(c)
                \/ DropRead(c) \/ Drop(c) \/ DropMissed(c)
                \/ Consume(c) \/ SendKey(c) \/ KeyReply(c) \/ SaveKey(c)
                \/ TakeRecoveryLock(c) \/ RecoveryCheck(c) \/ SkipRecovery(c) \/ NeedRecovery(c)
                \/ Probe(c) \/ FetchTicket(c) \/ ProbeCode(c)
                \/ Triage(c) \/ FetchBuffer(c) \/ Discard(c) \/ ForcedRefresh(c) \/ Replay(c) \/ Expire(c)

LEMMA QuietFirst ==
    ASSUME NEW c \in Calls,
           \/ Begin(c) \/ TakeCodeLock(c) \/ Check(c) \/ Lookup(c) \/ TakeStateLock(c) \/ Recheck(c)
           \/ Login(c) \/ Put(c) \/ UseOK(c) \/ UseFails(c)
    PROVE  repairs' = repairs /\ now' = now /\ UNCHANGED budgetVars
  BY DEF Begin, TakeCodeLock, Check, Lookup, TakeStateLock, Recheck, Login, Put, UseOK, UseFails, memory
LEMMA QuietKeys ==
    ASSUME NEW c \in Calls,
           \/ DropRead(c) \/ Drop(c) \/ DropMissed(c) \/ Consume(c) \/ SendKey(c) \/ KeyReply(c)
           \/ SaveKey(c) \/ TakeRecoveryLock(c) \/ RecoveryCheck(c) \/ SkipRecovery(c) \/ NeedRecovery(c)
    PROVE  repairs' = repairs /\ now' = now /\ UNCHANGED budgetVars
  BY DEF DropRead, Drop, DropMissed, Consume, SendKey, KeyReply, SaveKey, TakeRecoveryLock, RecoveryCheck,
         SkipRecovery, NeedRecovery, memory
LEMMA QuietLast ==
    ASSUME NEW c \in Calls,
           \/ Probe(c) \/ FetchTicket(c) \/ ProbeCode(c) \/ Triage(c) \/ FetchBuffer(c) \/ Discard(c)
           \/ ForcedRefresh(c) \/ Replay(c) \/ Expire(c)
    PROVE  repairs' = repairs /\ now' = now /\ UNCHANGED budgetVars
  BY DEF Probe, FetchTicket, ProbeCode, Triage, FetchBuffer, Discard, ForcedRefresh, Replay, Expire, memory
LEMMA QuietSteps ==
    ASSUME NEW c \in Calls, QuietStep(c) PROVE repairs' = repairs /\ now' = now /\ UNCHANGED budgetVars
  BY QuietFirst, QuietKeys, QuietLast DEF QuietStep

\* Every step of the specification, seen from the budget and the attempts.
LEMMA StepKinds ==
    ASSUME [Next]_vars
    PROVE  \/ repairs' = repairs /\ now' = now /\ UNCHANGED budgetVars
           \/ \E c \in Calls : \/ Register(c) \/ Deferred(c) \/ SaveCandidate(c) \/ AskBudget(c)
           \/ Tick \/ Prune \/ Crash
  <1>1. CASE \E c \in Calls : Begin(c) \/ Step(c)
    <2>1. PICK c \in Calls : Begin(c) \/ Step(c)
      BY <1>1
    <2>2. QuietStep(c) \/ Register(c) \/ Deferred(c) \/ SaveCandidate(c) \/ AskBudget(c)
      BY <2>1 DEF Step, QuietStep
    <2> QED
      BY <2>2, QuietSteps
  <1>2. CASE Reauthorize \/ BackgroundRefresh
    BY <1>2 DEF Reauthorize, BackgroundRefresh, memory
  <1>3. CASE UNCHANGED vars
    BY <1>3 DEF vars, memory
  <1> QED
    BY <1>1, <1>2, <1>3 DEF Next

LEMMA BudgetStart == Init => BudgetInv
  BY BudgetEmpty DEF Init, BudgetInit

LEMMA BudgetNext == ASSUME BudgetInv, [Next]_vars PROVE BudgetInv'
  <1>0. now \in Nat
    BY DEF BudgetInv
  <1>1. CASE now' = now /\ UNCHANGED budgetVars
    BY <1>0, <1>1, BudgetTick
  <1>2. ASSUME NEW c \in Calls, Register(c) \/ Deferred(c) \/ SaveCandidate(c) \/ AskBudget(c)
        PROVE  BudgetInv'
    <2>1. now' = now /\ (Grant \/ Refuse \/ UNCHANGED budgetVars)
      BY <1>2 DEF Register, Deferred, SaveCandidate, AskBudget
    <2> QED
      BY <1>0, <2>1, BudgetGrant, BudgetRefuse, BudgetTick
  <1>3. CASE Tick
    BY <1>0, <1>3, BudgetTick DEF Tick
  <1>4. CASE Prune
    BY <1>4, BudgetPrune DEF Prune
  <1>5. CASE Crash
    BY <1>0, <1>5, BudgetEmptied DEF Crash, BudgetReset
  <1> QED
    BY <1>1, <1>2, <1>3, <1>4, <1>5, StepKinds

\* However late the callers' clock readings are recorded, whatever a full table
\* forgets and however often the process restarts, no more than Limit OAuth-layer
\* calls of the account are let through in a window (login_budget.go:86, :129).
THEOREM BudgetHolds == Spec => []WithinBudget
  <1>1. BudgetInv => WithinBudget
    BY DEF BudgetInv
  <1> QED
    BY <1>1, BudgetStart, BudgetNext, PTL DEF Spec

--------------------------------------------------------------------------------
(* Repair attempts                                                             *)

AttemptsInv == /\ \A a \in AppIDs : repairs[a] # NoRepair => \E i \in DOMAIN grants : grants[i] = repairs[a].at
               /\ repairs = [a \in AppIDs |-> repairs[a]]

LEMMA AttemptsNext == ASSUME BudgetInv, AttemptsInv, [Next]_vars PROVE AttemptsInv'
  <1>1. CASE repairs' = repairs /\ grants' = grants
    BY <1>1 DEF AttemptsInv
  <1>2. grants \in Seq(Nat) /\ now \in Nat
    BY DEF BudgetInv
  <1>3. ASSUME Grant PROVE /\ grants' = Append(grants, now)
                           /\ \A i \in DOMAIN grants : i \in DOMAIN grants' /\ grants'[i] = grants[i]
                           /\ \E i \in DOMAIN grants' : grants'[i] = now
    <2>1. grants' = Append(grants, now)
      BY <1>3 DEF Grant
    <2>2. Len(grants) + 1 \in DOMAIN grants' /\ grants'[Len(grants) + 1] = now
      BY <1>2, <2>1
    <2>3. \A i \in DOMAIN grants : i \in DOMAIN grants' /\ grants'[i] = grants[i]
      BY <1>2, <2>1
    <2> QED
      BY <2>1, <2>2, <2>3
  <1>4. \A a \in AppIDs : Swept[a] = NoRepair \/ Swept[a] = repairs[a]
    BY DEF Swept
  <1>5. ASSUME NEW c \in Calls, Register(c) PROVE AttemptsInv'
    <2>1. CASE Grant /\ repairs' = Attempt(c)
      <3>1. /\ repairs' = [Swept EXCEPT ![AppOf[c]] = [by |-> snap[c], at |-> now]]
            /\ repairs' = [a \in AppIDs |-> repairs'[a]]
        BY <2>1 DEF Attempt, Swept
      <3>2. ASSUME NEW a \in AppIDs, repairs'[a] # NoRepair
            PROVE  \E i \in DOMAIN grants' : grants'[i] = repairs'[a].at
        <4>1. CASE repairs'[a] = [by |-> snap[c], at |-> now]
          BY <1>3, <2>1, <4>1
        <4>2. CASE repairs'[a] = Swept[a]
          BY <1>3, <1>4, <2>1, <3>2, <4>2 DEF AttemptsInv
        <4> QED
          BY <3>1, <4>1, <4>2 DEF Swept
      <3> QED
        BY <3>1, <3>2 DEF AttemptsInv
    <2>2. CASE repairs' = Swept /\ grants' = grants
      BY <1>4, <2>2 DEF AttemptsInv, Swept
    <2> QED
      BY <1>5, <2>1, <2>2 DEF Register, Refuse
  <1>6. ASSUME NEW c \in Calls, Deferred(c) PROVE AttemptsInv'
    <2>1. repairs' = Swept /\ grants' = grants
      BY <1>6 DEF Deferred, budgetVars
    <2> QED
      BY <1>4, <2>1 DEF AttemptsInv, Swept
  <1>7. ASSUME NEW c \in Calls, SaveCandidate(c) PROVE AttemptsInv'
    <2>1. grants' = grants /\ (repairs' = repairs \/ repairs' = [repairs EXCEPT ![AppOf[c]] = NoRepair])
      BY <1>7 DEF SaveCandidate, budgetVars
    <2> QED
      BY <2>1 DEF AttemptsInv
  <1>8. ASSUME NEW c \in Calls, AskBudget(c) PROVE AttemptsInv'
    <2>1. repairs' = repairs
      BY <1>8 DEF AskBudget
    <2>2. CASE Grant
      BY <1>3, <2>1, <2>2 DEF AttemptsInv
    <2>3. CASE Refuse
      BY <2>1, <2>3 DEF AttemptsInv, Refuse
    <2> QED
      BY <1>8, <2>2, <2>3 DEF AskBudget
  <1>9. CASE Tick \/ Prune
    BY <1>1, <1>9 DEF Tick, Prune, PruneAccount, memory, budgetVars
  <1>10. CASE Crash
    BY <1>10 DEF Crash, AttemptsInv
  <1>11. CASE repairs' = repairs /\ UNCHANGED budgetVars
    BY <1>1, <1>11 DEF budgetVars
  <1> QED
    BY <1>5, <1>6, <1>7, <1>8, <1>9, <1>10, <1>11, StepKinds

\* A backoff stands only for a login the budget let through: a request that was
\* refused, cancelled before it asked, or of an earlier process leaves none.
THEOREM BackoffHolds == Spec => []BackoffWasGranted
  <1>1. Init => AttemptsInv
    BY DEF Init, AttemptsInv
  <1>2. AttemptsInv => BackoffWasGranted
    BY DEF AttemptsInv, BackoffWasGranted
  <1> QED
    BY <1>1, <1>2, BudgetStart, BudgetNext, AttemptsNext, PTL DEF Spec

--------------------------------------------------------------------------------
(* Types                                                                       *)

Holdable == Session \cup {NoSession}
CallType == /\ codeLock \in CodeCalls \cup {None} /\ stateLock \in Calls \cup {None}
            /\ pc \in [Calls -> Pcs] /\ mode \in [Calls -> {"call", "recover"}]
            /\ round \in [Calls -> 1..2] /\ again \in [Calls -> BOOLEAN]
            /\ snap \in [Calls -> Account]
            /\ hand \in [Calls -> Holdable] /\ base \in [Calls -> Holdable]
RestType == /\ acc \in Account /\ row \in Holdable
            /\ issued \in 0..MaxSessions
            /\ verified \in [id : 0..MaxSessions, by : Account \cup {NoAccount}, at : 0..MaxTime]
            /\ repairs \in [AppIDs -> [by : Account \cup {NoAccount}, at : 0..MaxTime]]
            /\ sent \in [1..MaxSessions -> Nat] /\ served \in [1..MaxSessions -> -1..MaxTime]
            /\ now \in 0..MaxTime /\ crashes \in 0..MaxCrashes

\* The key exchange works on a session, and only code requests take the code lock.
InPlace == \A c \in Calls : /\ pc[c] \in {"rotate", "sendkey", "keyreply"} => hand[c] \in Session
                            /\ pc[c] \in {"codelock", "rcodelock"} => c \in CodeCalls
TInv == CallType /\ RestType /\ InPlace

LEMMA TypeSplit == TypeOK <=> CallType /\ RestType
  BY DEF TypeOK, CallType, RestType, Holdable

LEMMA LeaveType ==
    ASSUME CallType, InPlace, NEW c \in Calls, NEW label \in Pcs \ {"rotate", "sendkey", "keyreply", "codelock"},
           label = "rcodelock" => c \in CodeCalls,
           Leave(c, label)
    PROVE  CallType' /\ InPlace'
  <1>1. NoSession \in Holdable /\ None \in CodeCalls \cup {None} /\ None \in Calls \cup {None}
    BY DEF Holdable
  <1>2. CallType'
    BY <1>1 DEF CallType, Leave, Goto, FreeCode, FreeState
  <1>3. InPlace'
    BY DEF CallType, InPlace, Leave, Goto
  <1> QED
    BY <1>2, <1>3
LEMMA StayType ==
    ASSUME CallType, InPlace, NEW c \in Calls, NEW label \in Pcs,
           label \in {"codelock", "rcodelock"} => c \in CodeCalls,
           label \in {"rotate", "sendkey", "keyreply"} => hand'[c] \in Session,
           Goto(c, label), 
           mode' \in [Calls -> {"call", "recover"}], round' \in [Calls -> 1..2], again' \in [Calls -> BOOLEAN],
           snap' \in [Calls -> Account],
           hand' = hand \/ \E h \in Holdable : Hold(c, h),
           base' = base \/ \E b \in Holdable : base' = [base EXCEPT ![c] = b],
           codeLock' \in {None, codeLock} \cup ({c} \cap CodeCalls), stateLock' \in {None, c, stateLock}
    PROVE  CallType' /\ InPlace'
  <1>1. hand' \in [Calls -> Holdable] /\ base' \in [Calls -> Holdable]
    BY DEF CallType, Hold
  <1>2. CallType'
    BY <1>1 DEF CallType, Goto
  <1>3. \A d \in Calls : d # c => pc'[d] = pc[d] /\ hand'[d] = hand[d]
    BY DEF CallType, Goto, Hold
  <1>4. pc'[c] = label
    BY DEF CallType, Goto
  <1>5. InPlace'
    BY <1>3, <1>4 DEF InPlace
  <1> QED
    BY <1>2, <1>5

\* What a step leaves of the shared state when it changes neither account nor row.
LEMMA RestSame ==
    ASSUME RestType, UNCHANGED <<store, verified, repairs, ghosts, issued, crashes, now>> PROVE RestType'
  BY DEF RestType, store, ghosts

\* The steps that change neither account nor row, ghosts nor attempts.
LookStep(c) == \/ Begin(c) \/ Check(c) \/ Lookup(c) \/ TakeStateLock(c) \/ UseFails(c) \/ DropRead(c)
               \/ DropMissed(c) \/ RecoveryCheck(c) \/ SkipRecovery(c) \/ NeedRecovery(c)
               \/ FetchTicket(c) \/ ProbeCode(c) \/ Triage(c) \/ FetchBuffer(c) \/ Replay(c)
               \/ TakeCodeLock(c) \/ Recheck(c) \/ TakeRecoveryLock(c) \/ Probe(c)

LEMMA LookRest ==
    ASSUME NEW c \in Calls, LookStep(c)
    PROVE  UNCHANGED <<store, verified, repairs, ghosts, issued, crashes, now>>
  <1>1. CASE Begin(c) \/ Check(c) \/ Lookup(c) \/ TakeStateLock(c) \/ UseFails(c) \/ DropRead(c) \/ DropMissed(c)
    BY <1>1 DEF Begin, Check, Lookup, TakeStateLock, UseFails, DropRead, DropMissed, memory
  <1>2. CASE \/ RecoveryCheck(c) \/ SkipRecovery(c) \/ NeedRecovery(c) \/ FetchTicket(c) \/ ProbeCode(c)
             \/ Triage(c) \/ FetchBuffer(c) \/ Replay(c)
    BY <1>2 DEF RecoveryCheck, SkipRecovery, NeedRecovery, FetchTicket, ProbeCode, Triage, FetchBuffer,
                Replay, memory
  <1>3. CASE TakeCodeLock(c) \/ Recheck(c) \/ TakeRecoveryLock(c) \/ Probe(c)
    BY <1>3 DEF TakeCodeLock, Recheck, TakeRecoveryLock, Probe
  <1> QED
    BY <1>1, <1>2, <1>3 DEF LookStep

LEMMA LookType == ASSUME TInv, NEW c \in Calls, LookStep(c) PROVE TInv'
  <1>1. RestType'
    BY LookRest, RestSame DEF TInv
  <1>2. /\ row \in Holdable /\ acc \in Account /\ CallType /\ InPlace
        /\ HasNative => row \in Session
    BY DEF TInv, RestType, Holdable, HasNative
  <1>3. CASE Begin(c)
    BY <1>1, <1>2, <1>3, LeaveType, StayType
       DEF TInv, Pcs, Stay, CallType, memory, Finish, FreeState, Begin, Enter
  <1>4. CASE Check(c)
    BY <1>1, <1>2, <1>4, LeaveType, StayType
       DEF TInv, Pcs, Stay, CallType, memory, Finish, FreeState, Check
  <1>5. CASE Lookup(c)
    BY <1>1, <1>2, <1>5, LeaveType, StayType
       DEF TInv, Pcs, Stay, CallType, memory, Finish, FreeState, Lookup, Unusable
  <1>6. CASE TakeStateLock(c)
    BY <1>1, <1>2, <1>6, LeaveType, StayType
       DEF TInv, Pcs, Stay, CallType, memory, Finish, FreeState, TakeStateLock, Behind
  <1>7. CASE UseFails(c)
    BY <1>1, <1>2, <1>7, LeaveType, StayType
       DEF TInv, Pcs, Stay, CallType, memory, Finish, FreeState, UseFails, Unclassified
  <1>8. CASE DropRead(c)
    BY <1>1, <1>2, <1>8, LeaveType, StayType
       DEF TInv, Pcs, Stay, CallType, memory, Finish, FreeState, DropRead, Unusable
  <1>9. CASE DropMissed(c)
    BY <1>1, <1>2, <1>9, LeaveType, StayType
       DEF TInv, Pcs, Stay, CallType, memory, Finish, FreeState, DropMissed, Finish
  <1>10. CASE RecoveryCheck(c)
    BY <1>1, <1>2, <1>10, LeaveType, StayType
       DEF TInv, Pcs, Stay, CallType, memory, Finish, FreeState, RecoveryCheck
  <1>11. CASE SkipRecovery(c)
    BY <1>1, <1>2, <1>11, LeaveType, StayType
       DEF TInv, Pcs, Stay, CallType, memory, Finish, FreeState, SkipRecovery
  <1>12. CASE NeedRecovery(c)
    BY <1>1, <1>2, <1>12, LeaveType, StayType
       DEF TInv, Pcs, Stay, CallType, memory, Finish, FreeState, NeedRecovery
  <1>13. CASE FetchTicket(c)
    BY <1>1, <1>2, <1>13, LeaveType, StayType
       DEF TInv, Pcs, Stay, CallType, memory, Finish, FreeState, FetchTicket
  <1>14. CASE ProbeCode(c)
    BY <1>1, <1>2, <1>14, LeaveType, StayType
       DEF TInv, Pcs, Stay, CallType, memory, Finish, FreeState, ProbeCode
  <1>15. CASE Triage(c)
    BY <1>1, <1>2, <1>15, LeaveType, StayType
       DEF TInv, Pcs, Stay, CallType, memory, Finish, FreeState, Triage, AfterTriage
  <1>16. CASE FetchBuffer(c)
    <2>1. CASE /\ Goto(c, Enter(c)) /\ round' = [round EXCEPT ![c] = 2]
               /\ UNCHANGED <<codeLock, stateLock, hand, base, mode, again, snap>>
      <3>1. Enter(c) \in Pcs /\ Enter(c) \in {"codelock", "check"} /\ (Enter(c) = "codelock" => c \in CodeCalls)
        BY DEF Enter, Pcs
      <3>2. round' \in [Calls -> 1..2]
        BY <1>2, <2>1 DEF CallType
      <3> QED
        BY <1>1, <1>2, <2>1, <3>1, <3>2, StayType DEF TInv, CallType
    <2>2. CASE Goto(c, "gate") /\ Stay /\ UNCHANGED <<codeLock, stateLock, hand, base>>
      BY <1>1, <1>2, <2>2, StayType DEF TInv, Pcs, Stay, CallType
    <2>3. CASE Finish(c)
      BY <1>1, <1>2, <2>3, LeaveType DEF TInv, Pcs, Finish
    <2> QED
      BY <1>16, <2>1, <2>2, <2>3 DEF FetchBuffer
  <1>17. CASE Replay(c)
    BY <1>1, <1>2, <1>17, LeaveType, StayType
       DEF TInv, Pcs, Stay, CallType, memory, Finish, FreeState, Replay, Enter
  <1>18. CASE TakeCodeLock(c)
    <2>1. c \in CodeCalls
      BY <1>2, <1>18 DEF TakeCodeLock, InPlace
    <2>2. again' \in [Calls -> BOOLEAN] /\ codeLock' \in {None, codeLock} \cup ({c} \cap CodeCalls)
      BY <1>2, <1>18, <2>1 DEF TakeCodeLock, CallType, SessionOnly, HasNative
    <2> QED
      BY <1>1, <1>2, <1>18, <2>1, <2>2, StayType DEF TInv, Pcs, CallType, TakeCodeLock
  <1>19. CASE Recheck(c)
    <2>1. CASE Finish(c)
      BY <1>1, <1>2, <2>1, LeaveType DEF TInv, Pcs, Finish
    <2>2. CASE Unusable(c)
      BY <1>1, <1>2, <2>2, LeaveType DEF TInv, Pcs, Unusable
    <2>3. CASE Hold(c, row) /\ Goto(c, "use") /\ FreeState(c) /\ Stay /\ UNCHANGED <<codeLock, base>>
      BY <1>1, <1>2, <2>3, StayType DEF TInv, Pcs, Stay, CallType, FreeState
    <2>4. CASE /\ HasNative /\ Hold(c, row) /\ Goto(c, "rotate") /\ Stay
               /\ UNCHANGED <<codeLock, stateLock, base>>
      <3>1. hand'[c] \in Session
        BY <1>2, <2>4 DEF Hold, CallType
      <3> QED
        BY <1>1, <1>2, <2>4, <3>1, StayType DEF TInv, Pcs, Stay, CallType
    <2>5. CASE Goto(c, "login") /\ Stay /\ UNCHANGED <<codeLock, stateLock, hand, base>>
      BY <1>1, <1>2, <2>5, StayType DEF TInv, Pcs, Stay, CallType
    <2> QED
      BY <1>19, <2>1, <2>2, <2>3, <2>4, <2>5 DEF Recheck
  <1>20. CASE TakeRecoveryLock(c)
    <2>1. CASE Finish(c)
      BY <1>1, <1>2, <2>1, LeaveType DEF TInv, Pcs, Finish
    <2>2. CASE /\ codeLock' = c /\ mode' = [mode EXCEPT ![c] = "recover"] /\ Goto(c, "rstatelock")
               /\ UNCHANGED <<stateLock, hand, base, round, again, snap>>
      <3>1. c \in CodeCalls
        BY <1>2, <1>20 DEF TakeRecoveryLock, InPlace
      <3>2. mode' \in [Calls -> {"call", "recover"}]
        BY <1>2, <2>2 DEF CallType
      <3> QED
        BY <1>1, <1>2, <2>2, <3>1, <3>2, StayType DEF TInv, Pcs, CallType
    <2> QED
      BY <1>20, <2>1, <2>2 DEF TakeRecoveryLock
  <1>21. CASE Probe(c)
    <2>1. CASE Goto(c, "login") /\ Stay /\ UNCHANGED <<codeLock, stateLock, hand, base>>
      BY <1>1, <1>2, <2>1, StayType DEF TInv, Pcs, Stay, CallType
    <2>2. CASE Unusable(c)
      BY <1>1, <1>2, <2>2, LeaveType DEF TInv, Pcs, Unusable
    <2>3. CASE /\ HasNative /\ Hold(c, row) /\ Goto(c, "rotate") /\ Stay
               /\ UNCHANGED <<codeLock, stateLock, base>>
      <3>1. hand'[c] \in Session
        BY <1>2, <2>3 DEF Hold, CallType
      <3> QED
        BY <1>1, <1>2, <2>3, <3>1, StayType DEF TInv, Pcs, Stay, CallType
    <2> QED
      BY <1>21, <2>1, <2>2, <2>3 DEF Probe
  <1> QED
    BY <1>3, <1>4, <1>5, <1>6, <1>7, <1>8, <1>9, <1>10, <1>11, <1>12, <1>13, <1>14, <1>15, <1>16, <1>17, <1>18, <1>19, <1>20, <1>21 DEF LookStep

LEMMA TypeLogin == ASSUME TInv, NEW c \in Calls, Login(c) PROVE TInv'
  <1>1. CallType /\ InPlace /\ RestType /\ MaxSessions \in Nat /\ MaxAuth \in Nat
    BY SessionBounds DEF TInv
  <1>2. issued' \in 0..MaxSessions
    BY <1>1 DEF Login, Leave, Finish, RestType
  <1>3. RestType'
    BY <1>1, <1>2 DEF Login, RestType, store, ghosts
  <1>4. CASE Leave(c, "buffer") \/ Unclassified(c) \/ Finish(c)
    BY <1>1, <1>3, <1>4, LeaveType DEF TInv, Pcs, Unclassified, Finish
  <1>5. CASE Goto(c, "rfetch") /\ Stay /\ UNCHANGED <<codeLock, stateLock, hand, base>>
    BY <1>1, <1>3, <1>5, StayType DEF TInv, Pcs, Stay, CallType
  <1>6. ASSUME NEW spent \in BOOLEAN, issued < MaxSessions,
               Hold(c, [id |-> issued + 1, owner |-> snap[c].auth, live |-> TRUE, spent |-> spent]),
               Goto(c, IF mode[c] = "call" THEN "put" ELSE "rsend"),
               Stay, UNCHANGED <<codeLock, stateLock, base>>
        PROVE  TInv'
    <2>1. [id |-> issued + 1, owner |-> snap[c].auth, live |-> TRUE, spent |-> spent] \in Holdable
      BY <1>1, <1>6 DEF RestType, CallType, Account, Session, Holdable
    <2>2. PICK label \in {"put", "rsend"} : Goto(c, label)
      BY <1>6
    <2> QED
      BY <1>1, <1>3, <1>6, <2>1, <2>2, StayType DEF TInv, Pcs, Stay, CallType
  <1> QED
    BY <1>4, <1>5, <1>6 DEF Login

LEMMA TypePut == ASSUME TInv, NEW c \in Calls, Put(c) PROVE TInv'
  <1>1. CallType /\ InPlace /\ RestType
    BY DEF TInv
  <1>2. RestType'
    BY <1>1 DEF Put, RestType, CallType, ghosts
  <1>3. CASE Finish(c)
    BY <1>1, <1>2, <1>3, LeaveType DEF TInv, Pcs, Finish
  <1>4. CASE Goto(c, "use") /\ FreeState(c) /\ Stay /\ UNCHANGED <<codeLock, hand, base>>
    BY <1>1, <1>2, <1>4, StayType DEF TInv, Pcs, Stay, CallType, FreeState
  <1> QED
    BY <1>3, <1>4 DEF Put

\* A code that was returned marks its session.
LEMMA ServedType ==
    ASSUME CallType, RestType, NEW c \in Calls, Served(c)
    PROVE  /\ verified' \in [id : 0..MaxSessions, by : Account \cup {NoAccount}, at : 0..MaxTime]
           /\ served' \in [1..MaxSessions -> -1..MaxTime]
  <1>1. hand[c].id \in 0..MaxSessions /\ snap[c] \in Account /\ now \in 0..MaxTime /\ now \in -1..MaxTime
    BY SessionBounds DEF CallType, RestType, Holdable, Session, NoSession
  <1> QED
    BY <1>1 DEF Served, RestType

LEMMA TypeUseOK == ASSUME TInv, NEW c \in Calls, UseOK(c) PROVE TInv'
  <1>1. CallType /\ InPlace /\ RestType
    BY DEF TInv
  <1>2. RestType'
    BY <1>1, ServedType DEF UseOK, RestType, store
  <1> QED
    BY <1>1, <1>2, LeaveType DEF TInv, UseOK, Pcs, Finish

LEMMA TypeDrop == ASSUME TInv, NEW c \in Calls, Drop(c) PROVE TInv'
  <1>1. CallType /\ InPlace /\ RestType
    BY DEF TInv
  <1>2. row' \in Holdable
    <2>1. CASE base[c] # NoSession /\ Replaceable(c) /\ row' = [row EXCEPT !.live = FALSE]
      <3>1. row \in Session
        BY <1>1, <2>1 DEF CallType, Holdable, Replaceable
      <3>2. row' \in Session
        BY <2>1, <3>1 DEF Session
      <3> QED
        BY <3>2 DEF Holdable
    <2>2. CASE row' \in {row, NoSession}
      BY <1>1, <2>2 DEF RestType, Holdable
    <2> QED
      BY <2>1, <2>2 DEF Drop
  <1>3. RestType'
    BY <1>1, <1>2 DEF Drop, RestType, ghosts
  <1>4. again' \in [Calls -> BOOLEAN]
    BY <1>1 DEF Drop, CallType
  <1>5. NoSession \in Holdable
    BY DEF Holdable
  <1> QED
    BY <1>1, <1>3, <1>4, <1>5, StayType DEF TInv, Drop, Pcs, CallType, FreeState

LEMMA TypeConsume == ASSUME TInv, NEW c \in Calls, Consume(c) PROVE TInv'
  <1>1. CallType /\ InPlace /\ RestType
    BY DEF TInv
  <1>2. CASE Finish(c) /\ UNCHANGED row
    <2>1. RestType'
      BY <1>1, <1>2 DEF Consume, RestType, ghosts
    <2> QED
      BY <1>1, <1>2, <2>1, LeaveType DEF TInv, Pcs, Finish
  <1>3. CASE /\ row = hand[c] /\ row' = [row EXCEPT !.spent = TRUE]
             /\ base' = [base EXCEPT ![c] = row'] /\ Goto(c, "sendkey") /\ Stay
             /\ UNCHANGED <<codeLock, stateLock, hand>>
    <2>0. row \in Session
      BY <1>1, <1>3 DEF Consume, InPlace
    <2>1. row' \in Session /\ row' \in Holdable
      BY <1>3, <2>0 DEF Session, Holdable
    <2>2. hand'[c] \in Session
      BY <1>1, <1>3 DEF Consume, InPlace
    <2>3. RestType'
      BY <1>1, <2>1 DEF Consume, RestType, ghosts
    <2> QED
      BY <1>1, <1>3, <2>1, <2>2, <2>3, StayType DEF TInv, Pcs, Stay, CallType
  <1> QED
    BY <1>2, <1>3 DEF Consume

LEMMA TypeSendKey == ASSUME TInv, NEW c \in Calls, SendKey(c) PROVE TInv'
  <1>1. CallType /\ InPlace /\ RestType
    BY DEF TInv
  <1>2. sent' \in [1..MaxSessions -> Nat]
    <2>1. hand[c].id \in 1..MaxSessions /\ sent \in [1..MaxSessions -> Nat]
      BY <1>1 DEF SendKey, InPlace, Session, RestType
    <2> DEFINE k == hand[c].id
    <2>2. sent' = [sent EXCEPT ![k] = sent[k] + 1] /\ sent[k] + 1 \in Nat
      BY <2>1 DEF SendKey
    <2> HIDE DEF k
    <2> QED
      BY <2>1, <2>2
  <1>3. RestType'
    BY <1>1, <1>2 DEF SendKey, RestType, store, memory
  <1>4. hand'[c] \in Session
    BY <1>1 DEF SendKey, InPlace
  <1> QED
    BY <1>1, <1>3, <1>4, StayType DEF TInv, SendKey, memory, Pcs, Stay, CallType

LEMMA TypeKeyReply == ASSUME TInv, NEW c \in Calls, KeyReply(c) PROVE TInv'
  <1>1. CallType /\ InPlace /\ RestType /\ MaxSessions \in Nat
    BY SessionBounds DEF TInv
  <1>2. issued' \in 0..MaxSessions
    BY <1>1 DEF KeyReply, RestType
  <1>3. RestType'
    BY <1>1, <1>2 DEF KeyReply, RestType, store, ghosts
  <1>4. CASE Finish(c)
    BY <1>1, <1>3, <1>4, LeaveType DEF TInv, Pcs, Finish
  <1>5. ASSUME NEW live \in BOOLEAN, issued < MaxSessions,
               Hold(c, [id |-> issued + 1, owner |-> hand[c].owner, live |-> live, spent |-> FALSE]),
               Goto(c, "savekey"), Stay, UNCHANGED <<codeLock, stateLock, base>>
        PROVE  TInv'
    <2>1. hand[c] \in Session
      BY <1>1 DEF KeyReply, InPlace
    <2>2. [id |-> issued + 1, owner |-> hand[c].owner, live |-> live, spent |-> FALSE] \in Holdable
      BY <1>1, <1>5, <2>1 DEF RestType, Session, Holdable
    <2> QED
      BY <1>1, <1>3, <1>5, <2>2, StayType DEF TInv, Pcs, Stay, CallType
  <1> QED
    BY <1>4, <1>5 DEF KeyReply

LEMMA TypeSaveKey == ASSUME TInv, NEW c \in Calls, SaveKey(c) PROVE TInv'
  <1>1. CallType /\ InPlace /\ RestType /\ NoSession \in Holdable
    BY DEF TInv, Holdable
  <1>2. RestType'
    BY <1>1 DEF SaveKey, RestType, CallType, ghosts
  <1>3. CASE Finish(c)
    BY <1>1, <1>2, <1>3, LeaveType DEF TInv, Pcs, Finish
  <1>4. CASE Goto(c, "use") /\ FreeState(c) /\ Stay /\ base' = [base EXCEPT ![c] = NoSession] /\ UNCHANGED <<codeLock, hand>>
    BY <1>1, <1>2, <1>4, StayType DEF TInv, Pcs, Stay, CallType, FreeState
  <1>5. CASE Goto(c, "rsend") /\ Stay /\ base' = [base EXCEPT ![c] = NoSession]
              /\ UNCHANGED <<codeLock, stateLock, hand>>
    BY <1>1, <1>2, <1>5, StayType DEF TInv, Pcs, Stay, CallType
  <1> QED
    BY <1>3, <1>4, <1>5 DEF SaveKey

\* The attempts that outlive their backoff are dropped, the others stay as they were.
LEMMA SweptType ==
    ASSUME RestType PROVE Swept \in [AppIDs -> [by : Account \cup {NoAccount}, at : 0..MaxTime]]
  <1>1. NoRepair \in [by : Account \cup {NoAccount}, at : 0..MaxTime]
    BY SessionBounds DEF NoRepair
  <1> QED
    BY <1>1 DEF RestType, Swept

LEMMA TypeRegister == ASSUME TInv, NEW c \in Calls, Register(c) \/ Deferred(c) PROVE TInv'
  <1>1. CallType /\ InPlace /\ RestType
    BY DEF TInv
  <1>2. Attempt(c) \in [AppIDs -> [by : Account \cup {NoAccount}, at : 0..MaxTime]]
    <2>1. [by |-> snap[c], at |-> now] \in [by : Account \cup {NoAccount}, at : 0..MaxTime]
      BY <1>1 DEF CallType, RestType
    <2> QED
      BY <1>1, <2>1, SweptType DEF Attempt
  <1>3. RestType'
    <2>1. repairs' = Attempt(c) \/ repairs' = Swept
      BY DEF Register, Deferred
    <2> QED
      BY <1>1, <1>2, <2>1, SweptType DEF Register, Deferred, RestType, store, ghosts
  <1>4. CASE Finish(c)
    BY <1>1, <1>3, <1>4, LeaveType DEF TInv, Pcs, Finish
  <1>5. CASE Goto(c, "probe") /\ Stay /\ UNCHANGED <<codeLock, stateLock, hand, base>>
    BY <1>1, <1>3, <1>5, StayType DEF TInv, Pcs, Stay, CallType
  <1> QED
    BY <1>4, <1>5 DEF Register, Deferred

LEMMA TypeSaveCandidate == ASSUME TInv, NEW c \in Calls, SaveCandidate(c) PROVE TInv'
  <1>1. CallType /\ InPlace /\ RestType
    BY DEF TInv
  <1>2. row' \in {row, hand[c]} /\ row' \in Holdable
    BY <1>1 DEF SaveCandidate, CallType, RestType
  <1>3. /\ verified' \in [id : 0..MaxSessions, by : Account \cup {NoAccount}, at : 0..MaxTime]
        /\ served' \in [1..MaxSessions -> -1..MaxTime]
    BY <1>1, ServedType DEF SaveCandidate, RestType
  <1>4. repairs' \in [AppIDs -> [by : Account \cup {NoAccount}, at : 0..MaxTime]]
    <2>1. NoRepair \in [by : Account \cup {NoAccount}, at : 0..MaxTime]
      BY SessionBounds DEF NoRepair
    <2>2. repairs' = repairs \/ repairs' = [repairs EXCEPT ![AppOf[c]] = NoRepair]
      BY DEF SaveCandidate
    <2> QED
      BY <1>1, <2>1, <2>2 DEF RestType
  <1>5. RestType'
    BY <1>1, <1>2, <1>3, <1>4 DEF SaveCandidate, RestType
  <1> QED
    BY <1>1, <1>5, LeaveType DEF TInv, SaveCandidate, Pcs, Finish

LEMMA TypeAskBudget == ASSUME TInv, NEW c \in Calls, AskBudget(c) PROVE TInv'
  <1>1. CallType /\ InPlace /\ RestType
    BY DEF TInv
  <1>2. RestType'
    BY <1>1, RestSame DEF AskBudget
  <1>3. CASE Finish(c)
    BY <1>1, <1>2, <1>3, LeaveType DEF TInv, Pcs, Finish
  <1>4. CASE Goto(c, Permitted(pc[c])) /\ Stay /\ UNCHANGED <<codeLock, stateLock, hand, base>>
    <2>1. Permitted(pc[c]) \in {"fetch", "discard", "refresh"}
      BY DEF AskBudget, Permitted
    <2> QED
      BY <1>1, <1>2, <1>4, <2>1, StayType DEF TInv, Pcs, Stay, CallType
  <1> QED
    BY <1>3, <1>4 DEF AskBudget

LEMMA TypeDiscard == ASSUME TInv, NEW c \in Calls, Discard(c) PROVE TInv'
  <1>1. CallType /\ InPlace /\ RestType
    BY DEF TInv
  <1>2. row' \in Holdable
    BY <1>1 DEF Discard, RestType, Holdable
  <1>3. RestType'
    BY <1>1, <1>2 DEF Discard, RestType, memory, ghosts
  <1> QED
    BY <1>1, <1>3, StayType DEF TInv, Discard, memory, Pcs, Stay, CallType

\* What a refresh writes.
LEMMA RefreshType == ASSUME RestType, Renewed \/ Rejected PROVE acc' \in Account /\ row' \in Holdable
  <1>1. acc \in Account /\ row \in Holdable /\ MaxAuth \in Nat
    BY SessionBounds DEF RestType
  <1>2. CASE Renewed
    <2>1. acc' = [acc EXCEPT !.auth = acc.auth + 1] /\ acc.auth \in 1..MaxAuth /\ acc.auth < MaxAuth
      BY <1>1, <1>2 DEF Renewed, Account
    <2>2. acc.auth + 1 \in 1..MaxAuth
      BY <1>1, <2>1
    <2> QED
      BY <1>1, <1>2, <2>1, <2>2 DEF Renewed, Account
  <1>3. CASE Rejected
    BY <1>1, <1>3 DEF Rejected, Account, Statuses, Holdable
  <1> QED
    BY <1>2, <1>3

LEMMA TypeForcedRefresh == ASSUME TInv, NEW c \in Calls, ForcedRefresh(c) PROVE TInv'
  <1>1. CallType /\ InPlace /\ RestType
    BY DEF TInv
  <1>2. acc' \in Account /\ row' \in Holdable
    BY <1>1, RefreshType DEF ForcedRefresh, RestType, store
  <1>3. RestType'
    BY <1>1, <1>2 DEF ForcedRefresh, RestType, ghosts
  <1>4. CASE Finish(c)
    BY <1>1, <1>3, <1>4, LeaveType DEF TInv, Pcs, Finish
  <1>5. CASE Goto(c, "replay") /\ Stay /\ UNCHANGED <<codeLock, stateLock, hand, base>>
    BY <1>1, <1>3, <1>5, StayType DEF TInv, Pcs, Stay, CallType
  <1> QED
    BY <1>4, <1>5 DEF ForcedRefresh

LEMMA TypeExpire == ASSUME TInv, NEW c \in Calls, Expire(c) PROVE TInv'
  <1>1. CallType /\ InPlace /\ RestType
    BY DEF TInv
  <1>2. acc' \in Account /\ row' \in Holdable
    BY <1>1 DEF Expire, RestType, Account, Statuses, Holdable, store
  <1>3. RestType'
    BY <1>1, <1>2 DEF Expire, RestType, ghosts
  <1> QED
    BY <1>1, <1>3, LeaveType DEF TInv, Expire, Pcs, Finish

LEMMA TypeAccount == ASSUME TInv, Reauthorize \/ BackgroundRefresh \/ Tick \/ Prune PROVE TInv'
  <1>1. CallType /\ InPlace /\ RestType /\ MaxAuth \in Nat /\ MaxTime \in Nat
    BY SessionBounds DEF TInv
  <1>2. CallType' /\ InPlace'
    BY <1>1 DEF CallType, InPlace, Reauthorize, BackgroundRefresh, Tick, Prune, memory, call
  <1>3. CASE Reauthorize
    <2>1. acc' \in Account /\ row' \in Holdable
      BY <1>1, <1>3 DEF Reauthorize, RestType, Account, Statuses, Holdable
    <2> QED
      BY <1>1, <1>2, <1>3, <2>1 DEF TInv, Reauthorize, RestType, memory, ghosts
  <1>4. CASE BackgroundRefresh
    <2>1. acc' \in Account /\ row' \in Holdable
      BY <1>1, <1>4, RefreshType DEF BackgroundRefresh
    <2> QED
      BY <1>1, <1>2, <1>4, <2>1 DEF TInv, BackgroundRefresh, RestType, memory, ghosts
  <1>5. CASE Tick
    BY <1>1, <1>2, <1>5 DEF TInv, Tick, RestType, memory, ghosts, store
  <1>6. CASE Prune
    BY <1>1, <1>2, <1>6 DEF TInv, Prune, RestType, memory, ghosts, store
  <1> QED
    BY <1>3, <1>4, <1>5, <1>6

LEMMA TypeCrash == ASSUME TInv, Crash PROVE TInv'
  <1>1. CallType /\ InPlace /\ RestType
    BY DEF TInv
  <1>2. CallType' /\ InPlace'
    BY <1>1 DEF CallType, InPlace, Crash, Holdable, Pcs
  <1>3. NotVerified \in [id : 0..MaxSessions, by : Account \cup {NoAccount}, at : 0..MaxTime]
        /\ NoRepair \in [by : Account \cup {NoAccount}, at : 0..MaxTime]
    BY SessionBounds DEF NotVerified, NoRepair
  <1>4. RestType'
    BY <1>1, <1>3, SessionBounds DEF RestType, Crash, store, ghosts
  <1> QED
    BY <1>2, <1>4 DEF TInv

LEMMA TypeNext == ASSUME TInv, [Next]_vars PROVE TInv'
  <1>1. ASSUME NEW c \in Calls, Begin(c) \/ Step(c) PROVE TInv'
    <2>1. CASE LookStep(c)
      BY <2>1, LookType
    <2> QED
      BY <1>1, <2>1, TypeLogin, TypePut, TypeUseOK, TypeDrop, TypeConsume, TypeSendKey, TypeKeyReply,
         TypeSaveKey, TypeRegister, TypeSaveCandidate, TypeAskBudget, TypeDiscard, TypeForcedRefresh,
         TypeExpire
         DEF Step, LookStep
  <1>2. CASE UNCHANGED vars
    BY <1>2 DEF vars, store, memory, call, ghosts, TInv, CallType, RestType, InPlace
  <1> QED
    BY <1>1, <1>2, TypeAccount, TypeCrash DEF Next

LEMMA TypeStart == Init => TInv
  <1> SUFFICES ASSUME Init PROVE TInv
    OBVIOUS
  <1>1. acc \in Account /\ row \in Holdable /\ issued \in 0..MaxSessions
    <2>1. acc \in Account
      BY SessionBounds DEF Init, Account, Statuses
    <2>2. row \in Holdable /\ row.id \in 0..MaxSessions
      BY SessionBounds DEF Init, Holdable, Session, NoSession
    <2> QED
      BY <2>1, <2>2 DEF Init
  <1>2. CallType
    BY <1>1 DEF Init, CallType, Holdable, Pcs
  <1>3. RestType
    <2>1. NotVerified \in [id : 0..MaxSessions, by : Account \cup {NoAccount}, at : 0..MaxTime]
          /\ NoRepair \in [by : Account \cup {NoAccount}, at : 0..MaxTime]
      BY SessionBounds DEF NotVerified, NoRepair
    <2> QED
      BY <1>1, <2>1, SessionBounds DEF Init, RestType
  <1> QED
    BY <1>2, <1>3 DEF Init, TInv, InPlace

\* Every variable has its type, for any calls, AppIDs and bounds.
THEOREM TypeCorrect == Spec => []TypeOK
  <1>1. TInv => TypeOK
    BY TypeSplit DEF TInv
  <1> QED
    BY <1>1, TypeStart, TypeNext, PTL DEF Spec

--------------------------------------------------------------------------------
(* The one-shot key                                                            *)

RecoveryPcs == {"rstatelock", "rcheck", "rverified", "register", "probe", "rfetch", "login",
                "rotate", "sendkey", "keyreply", "savekey", "rsend", "rsave"}

Issued == /\ row.id <= issued /\ \A c \in Calls : hand[c].id <= issued
          /\ \A k \in 1..MaxSessions : k > issued => sent[k] = 0
\* A key that was sent is marked in the row that still holds it.
Marked == row # NoSession /\ sent[row.id] # 0 => row.spent
\* Before the mark the key is unspent; behind it nobody sends it a second time.
Unspent == \A c \in Calls : pc[c] = "rotate" => ~hand[c].spent
Sending == \A c \in Calls : pc[c] = "sendkey" =>
             /\ sent[hand[c].id] = 0
             /\ row.id = hand[c].id => row.spent
             /\ \A d \in Calls \ {c} : pc[d] = "sendkey" => hand[d].id # hand[c].id
Fresh(c) == /\ hand[c] \in Session /\ sent[hand[c].id] = 0 /\ row.id # hand[c].id
            /\ \A d \in Calls \ {c} : hand[d].id # hand[c].id
Secret == \A c \in Calls : Unstored(c) => Fresh(c)
\* Only a restricted account recovers by spending its key.
Recovering == \A c \in Calls :
                 mode[c] = "recover" => /\ pc[c] \in RecoveryPcs
                                        /\ pc[c] \in {"rotate", "sendkey", "keyreply", "savekey"} => SessionOnly(snap[c])
KeyInv == Issued /\ Marked /\ Unspent /\ Sending /\ Secret /\ Recovering /\ KeySentOnce

Others(c) == \A d \in Calls \ {c} : pc'[d] = pc[d] /\ mode'[d] = mode[d] /\ snap'[d] = snap[d] /\ hand'[d] = hand[d]
SameRow == \/ row' = row \/ row' = NoSession
           \/ row \in Session /\ row' \in Session /\ row'.id = row.id /\ (row.spent => row'.spent)

\* What a step must be to need no argument about keys: the call goes to a place of
\* no consequence with the session it had, with none, or with the stored one.
Harmless(c) == /\ sent' = sent /\ issued' = issued /\ SameRow
               /\ Others(c)
               /\ hand'[c] \in {hand[c], NoSession, row}
               /\ pc'[c] \notin {"rotate", "sendkey", "savekey", "put"}
               /\ mode'[c] = "recover" => pc'[c] \in RecoveryPcs /\ pc'[c] # "keyreply"
               /\ pc'[c] \in {"rsend", "rsave"} => Unstored(c)' = Unstored(c) /\ hand'[c] = hand[c]

LEMMA HarmlessKeys == ASSUME TInv, TInv', KeyInv, NEW c \in Calls, Harmless(c) PROVE KeyInv'
  <1>1. /\ row \in Holdable /\ row' \in Holdable /\ issued \in Nat
        /\ \A d \in Calls : hand[d] \in Holdable /\ hand'[d] \in Holdable
        /\ sent' = sent /\ issued' = issued /\ SameRow
        /\ \A d \in Calls : sent[hand[d].id] \in Nat \/ hand[d] = NoSession
    BY DEF TInv, RestType, CallType, Harmless, Holdable, Session
  <1>2. \A s \in Session : s.id \in 1..MaxSessions /\ s.id \in Nat /\ s.id # 0
    BY DEF Session
  <1>3. NoSession.id = 0 /\ NoSession.spent /\ NoSession \notin Session
    BY <1>2 DEF NoSession
  <1>4. row'.id \in {row.id, 0} /\ row'.id \in Nat /\ row.id \in Nat
    BY <1>1, <1>2, <1>3 DEF SameRow, Holdable
  <1>5. \A d \in Calls : hand'[d].id \in {hand[d].id, 0, row.id}
    BY <1>3 DEF Harmless, Others
  <1>6. Issued'
    BY <1>1, <1>4, <1>5 DEF Issued, KeyInv
  <1>7. Marked'
    BY <1>1, <1>2, <1>3 DEF Marked, KeyInv, SameRow
  <1>8. Unspent'
    BY DEF Unspent, KeyInv, Harmless, Others
  <1>9. ASSUME NEW d \in Calls, pc'[d] = "sendkey"
        PROVE  /\ sent'[hand'[d].id] = 0
               /\ row'.id = hand'[d].id => row'.spent
               /\ \A e \in Calls \ {d} : pc'[e] = "sendkey" => hand'[e].id # hand'[d].id
    <2>1. d # c /\ pc[d] = "sendkey" /\ hand'[d] = hand[d] /\ hand[d] \in Session
      BY <1>9 DEF Harmless, Others, TInv, InPlace
    <2>2. sent'[hand'[d].id] = 0
      BY <1>1, <2>1 DEF KeyInv, Sending
    <2>3. row'.id = hand'[d].id => row'.spent
      BY <1>1, <1>2, <1>3, <2>1 DEF KeyInv, Sending, SameRow
    <2>4. ASSUME NEW e \in Calls \ {d}, pc'[e] = "sendkey" PROVE hand'[e].id # hand'[d].id
      <3>1. e # c /\ pc[e] = "sendkey" /\ hand'[e] = hand[e]
        BY <2>4 DEF Harmless, Others
      <3> QED
        BY <2>1, <3>1 DEF KeyInv, Sending
    <2> QED
      BY <2>2, <2>3, <2>4
  <1>10. ASSUME NEW d \in Calls, Unstored(d)' PROVE Fresh(d)'
    <2>1. Unstored(d) /\ hand'[d] = hand[d]
      <3>1. CASE d = c
        BY <1>10, <3>1 DEF Harmless, Unstored
      <3>2. CASE d # c
        BY <1>10, <3>2 DEF Harmless, Others, Unstored, SessionOnly
      <3> QED
        BY <3>1, <3>2
    <2>2. Fresh(d)
      BY <2>1 DEF KeyInv, Secret
    <2>3. hand[d].id # 0
      BY <1>2, <2>2 DEF Fresh
    <2>4. \A e \in Calls \ {d} : hand'[e].id # hand[d].id
      BY <1>5, <2>2, <2>3 DEF Fresh
    <2> QED
      BY <1>1, <1>4, <2>1, <2>2, <2>3, <2>4 DEF Fresh
  <1>11. Recovering'
    <2> SUFFICES ASSUME NEW d \in Calls, mode'[d] = "recover"
                 PROVE  /\ pc'[d] \in RecoveryPcs
                        /\ pc'[d] \in {"rotate", "sendkey", "keyreply", "savekey"} => SessionOnly(snap'[d])
      BY DEF Recovering
    <2> QED
      BY DEF Harmless, Others, KeyInv, Recovering
  <1>12. KeySentOnce'
    BY <1>1 DEF KeyInv, KeySentOnce
  <1> QED
    BY <1>6, <1>7, <1>8, <1>9, <1>10, <1>11, <1>12 DEF KeyInv, Sending, Secret

LEMMA LeaveHarmless ==
    ASSUME TInv, NEW c \in Calls, NEW label \in Pcs \ {"rotate", "sendkey", "savekey", "put", "rsend", "rsave"},
           Leave(c, label), sent' = sent, issued' = issued, SameRow
    PROVE  Harmless(c)
  <1>1. Others(c)
    BY DEF TInv, CallType, Leave, Goto, Others
  <1>2. pc'[c] = label /\ hand'[c] = NoSession /\ mode'[c] = "call"
    BY DEF TInv, CallType, Leave, Goto
  <1> QED
    BY <1>1, <1>2 DEF Harmless
LEMMA StayHarmless ==
    ASSUME TInv, KeyInv, NEW c \in Calls, NEW label \in Pcs \ {"rotate", "sendkey", "savekey", "put", "rsend", "rsave", "keyreply"},
           Goto(c, label), mode' = mode, snap' = snap,
           label \in RecoveryPcs \/ mode[c] = "call",
           hand' = hand \/ Hold(c, row) \/ Hold(c, NoSession),
           sent' = sent, issued' = issued, SameRow
    PROVE  Harmless(c)
  <1>1. Others(c)
    BY DEF TInv, CallType, Goto, Hold, Others
  <1>2. pc'[c] = label /\ hand'[c] \in {hand[c], NoSession, row}
    BY DEF TInv, CallType, Goto, Hold
  <1>3. mode'[c] = mode[c]
    OBVIOUS
  <1>4. mode[c] \in {"call", "recover"}
    BY DEF TInv, CallType
  <1> QED
    BY <1>1, <1>2, <1>3, <1>4 DEF Harmless

LEMMA LookKeys ==
    ASSUME TInv, KeyInv, NEW c \in Calls,
           \/ Begin(c) \/ Check(c) \/ Lookup(c) \/ TakeStateLock(c) \/ UseFails(c) \/ DropRead(c)
           \/ DropMissed(c) \/ RecoveryCheck(c) \/ SkipRecovery(c) \/ NeedRecovery(c)
           \/ FetchTicket(c) \/ ProbeCode(c) \/ Triage(c) \/ FetchBuffer(c) \/ Replay(c)
           \/ TakeCodeLock(c) \/ TakeRecoveryLock(c)
    PROVE  Harmless(c)
  <1>1. sent' = sent /\ issued' = issued /\ SameRow
    BY LookRest DEF LookStep, SameRow, store, ghosts
  <1>2. mode[c] = "recover" => pc[c] \in RecoveryPcs
    BY DEF KeyInv, Recovering
  <1>3. mode[c] \in {"call", "recover"}
    BY DEF TInv, CallType
  <1>4. CASE Begin(c)
    BY <1>1, <1>2, <1>3, <1>4 DEF TInv, CallType, Begin, Harmless, Others, Goto, Enter, RecoveryPcs, memory
  <1>5. CASE Check(c)
    BY <1>1, <1>2, <1>3, <1>5, LeaveHarmless, StayHarmless DEF Check, Finish, Stay, Pcs, RecoveryPcs
  <1>6. CASE Lookup(c)
    BY <1>1, <1>2, <1>3, <1>6, LeaveHarmless, StayHarmless DEF Lookup, Unusable, Stay, Pcs, RecoveryPcs
  <1>7. CASE TakeStateLock(c)
    BY <1>1, <1>2, <1>3, <1>7, StayHarmless DEF TakeStateLock, Behind, Stay, Pcs, RecoveryPcs
  <1>8. CASE UseFails(c)
    BY <1>1, <1>2, <1>3, <1>8, LeaveHarmless, StayHarmless DEF UseFails, Unclassified, Finish, Stay, Pcs, RecoveryPcs
  <1>9. CASE DropRead(c)
    BY <1>1, <1>2, <1>3, <1>9, LeaveHarmless, StayHarmless DEF DropRead, Unusable, Finish, Stay, Pcs, RecoveryPcs
  <1>10. CASE DropMissed(c)
    BY <1>1, <1>10, LeaveHarmless DEF DropMissed, Finish, Pcs
  <1>11. CASE RecoveryCheck(c)
    BY <1>1, <1>11, LeaveHarmless, StayHarmless DEF RecoveryCheck, Finish, Stay, Pcs, RecoveryPcs
  <1>12. CASE SkipRecovery(c)
    BY <1>1, <1>12, LeaveHarmless DEF SkipRecovery, Finish, Pcs
  <1>13. CASE NeedRecovery(c)
    BY <1>1, <1>13, StayHarmless DEF NeedRecovery, Stay, Pcs, RecoveryPcs
  <1>14. CASE FetchTicket(c)
    <2>1. CASE Leave(c, IF round[c] = 1 THEN "refused" ELSE "done") \/ Finish(c)
      BY <1>1, <2>1, LeaveHarmless DEF Finish, Pcs
    <2>2. CASE Goto(c, "login") /\ UNCHANGED <<hand, mode, snap>>
      BY <1>1, <2>2, StayHarmless DEF Pcs, RecoveryPcs
    <2> QED
      BY <1>14, <2>1, <2>2 DEF FetchTicket
  <1>15. CASE ProbeCode(c)
    <2>1. CASE Finish(c)
      BY <1>1, <2>1, LeaveHarmless DEF Finish, Pcs
    <2>2. CASE Goto(c, "rsave") /\ Stay /\ UNCHANGED hand
      <3>1. Others(c) /\ pc'[c] = "rsave" /\ hand'[c] = hand[c]
        BY <2>2 DEF TInv, CallType, Goto, Stay, Others
      <3>2. pc[c] = "rsend" /\ snap' = snap /\ mode' = mode
        BY <1>15, <2>2 DEF ProbeCode, Stay
      <3>3. Unstored(c)' = Unstored(c)
        BY <3>1, <3>2 DEF Unstored, SessionOnly
      <3> QED
        BY <1>1, <3>1, <3>2, <3>3 DEF Harmless, RecoveryPcs
    <2> QED
      BY <1>15, <2>1, <2>2 DEF ProbeCode
  <1>16. CASE Triage(c)
    BY <1>1, <1>2, <1>3, <1>16, LeaveHarmless, StayHarmless DEF Triage, AfterTriage, Finish, Stay, Pcs, RecoveryPcs
  <1>17. CASE FetchBuffer(c)
    <2>1. CASE Finish(c)
      BY <1>1, <2>1, LeaveHarmless DEF Finish, Pcs
    <2>2. CASE (Goto(c, Enter(c)) \/ Goto(c, "gate")) /\ UNCHANGED <<hand, mode, snap>>
      <3>1. mode[c] = "call"
        BY <1>2, <1>3, <1>17 DEF FetchBuffer, RecoveryPcs
      <3> QED
        BY <1>1, <2>2, <3>1, StayHarmless DEF Enter, Pcs
    <2> QED
      BY <1>17, <2>1, <2>2 DEF FetchBuffer, Stay
  <1>18. CASE Replay(c)
    BY <1>1, <1>2, <1>3, <1>18 DEF TInv, CallType, Replay, Harmless, Others, Goto, Enter, RecoveryPcs, memory
  <1>19. CASE TakeCodeLock(c)
    BY <1>1, <1>2, <1>3, <1>19, StayHarmless DEF TakeCodeLock, Pcs, RecoveryPcs
  <1>20. CASE TakeRecoveryLock(c)
    <2>1. CASE Finish(c)
      BY <1>1, <2>1, LeaveHarmless DEF Finish, Pcs
    <2>2. CASE mode' = [mode EXCEPT ![c] = "recover"] /\ Goto(c, "rstatelock") /\ UNCHANGED <<hand, snap>>
      BY <1>1, <2>2 DEF TInv, CallType, Harmless, Others, Goto, RecoveryPcs
    <2> QED
      BY <1>20, <2>1, <2>2 DEF TakeRecoveryLock
  <1> QED
    BY <1>4, <1>5, <1>6, <1>7, <1>8, <1>9, <1>10, <1>11, <1>12, <1>13, <1>14, <1>15, <1>16, <1>17, <1>18, <1>19, <1>20

\* The writers whose row keeps its key, loses it or stays.
LEMMA WriteKeys ==
    ASSUME TInv, KeyInv, NEW c \in Calls,
           UseOK(c) \/ Drop(c) \/ Register(c) \/ Deferred(c) \/ AskBudget(c) \/ Discard(c) \/ ForcedRefresh(c) \/ Expire(c)
    PROVE  Harmless(c)
  <1>2. mode[c] = "recover" => pc[c] \in RecoveryPcs
    BY DEF KeyInv, Recovering
  <1>3. mode[c] \in {"call", "recover"} /\ base \in [Calls -> Holdable]
    BY DEF TInv, CallType
  <1>4. CASE UseOK(c)
    BY <1>4, LeaveHarmless DEF UseOK, Finish, Pcs, SameRow, store
  <1>5. CASE Drop(c)
    <2>1. SameRow
      <3>1. CASE base[c] # NoSession /\ Replaceable(c) /\ row' = [row EXCEPT !.live = FALSE]
        <4>1. row \in Session
          BY <1>3, <3>1 DEF Holdable, Replaceable
        <4>2. row' \in Session /\ row'.id = row.id /\ row'.spent = row.spent
          BY <3>1, <4>1 DEF Session
        <4> QED
          BY <4>1, <4>2 DEF SameRow
      <3> QED
        BY <1>5, <3>1 DEF Drop, SameRow
    <2> QED
      BY <1>2, <1>3, <1>5, <2>1, StayHarmless DEF Drop, ghosts, Pcs, RecoveryPcs
  <1>6. CASE Register(c) \/ Deferred(c)
    BY <1>6, LeaveHarmless, StayHarmless DEF Register, Deferred, Finish, Stay, ghosts, Pcs, RecoveryPcs, SameRow, store
  <1>7. CASE AskBudget(c)
    BY <1>2, <1>3, <1>7, LeaveHarmless, StayHarmless
       DEF AskBudget, Permitted, Finish, Stay, ghosts, Pcs, RecoveryPcs, SameRow, store
  <1>8. CASE Discard(c)
    BY <1>2, <1>3, <1>8, StayHarmless DEF Discard, Stay, ghosts, Pcs, RecoveryPcs, SameRow
  <1>9. CASE ForcedRefresh(c)
    <2>1. SameRow
      BY <1>9 DEF ForcedRefresh, Renewed, Rejected, SameRow, store
    <2> QED
      BY <1>2, <1>3, <1>9, <2>1, LeaveHarmless, StayHarmless DEF ForcedRefresh, Finish, Stay, ghosts, Pcs, RecoveryPcs
  <1>10. CASE Expire(c)
    BY <1>10, LeaveHarmless DEF Expire, Finish, ghosts, Pcs, SameRow, store
  <1> QED
    BY <1>4, <1>5, <1>6, <1>7, <1>8, <1>9, <1>10

\* A call takes the stored key, which nobody has sent.
LEMMA TakenKeys ==
    ASSUME TInv, TInv', KeyInv, NEW c \in Calls, HasNative,
           pc'[c] = "rotate", hand'[c] = row, mode'[c] = mode[c], snap'[c] = snap[c], Others(c),
           mode[c] = "recover" => SessionOnly(snap[c]),
           row' = row, sent' = sent, issued' = issued
    PROVE  KeyInv'
  <1>1. row \in Session /\ ~row.spent /\ row.id <= issued /\ row.id # 0
    BY DEF TInv, RestType, Holdable, HasNative, Session, KeyInv, Issued
  <1>2. \A d \in Calls : hand'[d] = hand[d] \/ d = c
    BY DEF Others
  <1>3. Issued'
    BY <1>1, <1>2 DEF KeyInv, Issued
  <1>4. Marked' /\ KeySentOnce'
    BY DEF KeyInv, Marked, KeySentOnce
  <1>5. Unspent'
    BY <1>1 DEF KeyInv, Unspent, Others
  <1>6. Sending'
    BY DEF KeyInv, Sending, Others
  <1>7. ASSUME NEW d \in Calls, Unstored(d)' PROVE Fresh(d)'
    <2>1. d # c /\ Unstored(d) /\ hand'[d] = hand[d]
      BY <1>7 DEF Unstored, Others, SessionOnly
    <2>2. Fresh(d)
      BY <2>1 DEF KeyInv, Secret
    <2> QED
      BY <1>2, <2>1, <2>2 DEF Fresh
  <1>8. Recovering'
    BY DEF KeyInv, Recovering, Others, RecoveryPcs, SessionOnly
  <1> QED
    BY <1>3, <1>4, <1>5, <1>6, <1>7, <1>8 DEF KeyInv, Secret

\* A session nobody else has seen arrives, from a login or for a key.
LEMMA ArrivedKeys ==
    ASSUME TInv, TInv', KeyInv, NEW c \in Calls,
           hand'[c].id = issued + 1, issued' = issued + 1, pc'[c] \in {"put", "savekey", "rsend"}, Others(c),
           mode'[c] = "recover" => pc'[c] = "rsend" \/ (pc'[c] = "savekey" /\ SessionOnly(snap'[c])),
           row' = row, sent' = sent
    PROVE  KeyInv'
  <1>1. /\ issued \in Nat /\ issued' \in 0..MaxSessions /\ row.id <= issued
        /\ \A d \in Calls : hand[d].id <= issued
        /\ \A k \in 1..MaxSessions : k > issued => sent[k] = 0
    BY DEF TInv, RestType, KeyInv, Issued
  <1>2. /\ row.id \in Nat
        /\ \A d \in Calls : hand[d].id \in Nat
    <2>1. \A s \in Holdable : s.id \in Nat
      BY DEF Holdable, Session, NoSession
    <2> QED
      BY <2>1 DEF TInv, RestType, CallType
  <1>3. hand'[c] \in Session
    <2>1. hand'[c] \in Holdable /\ hand'[c].id # 0
      BY <1>1 DEF TInv, CallType
    <2> QED
      BY <2>1 DEF Holdable, NoSession
  <1>4. issued + 1 \in 1..MaxSessions /\ sent[issued + 1] = 0
    BY <1>1
  <1>5. \A d \in Calls : d # c => hand'[d] = hand[d] /\ pc'[d] = pc[d] /\ mode'[d] = mode[d] /\ snap'[d] = snap[d]
    BY DEF Others
  <1>6. Issued'
    <2>1. \A d \in Calls : hand'[d].id <= issued'
      BY <1>1, <1>2, <1>5
    <2> QED
      BY <1>1, <1>2, <2>1 DEF Issued
  <1>7. Marked' /\ KeySentOnce'
    BY DEF KeyInv, Marked, KeySentOnce
  <1>8. Unspent' /\ Sending'
    BY <1>5 DEF KeyInv, Unspent, Sending
  <1>9. ASSUME NEW d \in Calls, Unstored(d)' PROVE Fresh(d)'
    <2>1. CASE d = c
      <3>1. row'.id # hand'[c].id
        BY <1>1, <1>2
      <3>2. \A e \in Calls \ {c} : hand'[e].id # hand'[c].id
        BY <1>1, <1>2, <1>5
      <3> QED
        BY <1>3, <1>4, <2>1, <3>1, <3>2 DEF Fresh
    <2>2. CASE d # c
      <3>1. Unstored(d) /\ hand'[d] = hand[d]
        BY <1>5, <1>9, <2>2 DEF Unstored, SessionOnly
      <3>2. Fresh(d)
        BY <3>1 DEF KeyInv, Secret
      <3>3. hand'[c].id # hand[d].id
        BY <1>1, <1>2
      <3> QED
        BY <1>5, <3>1, <3>2, <3>3 DEF Fresh
    <2> QED
      BY <2>1, <2>2
  <1>10. Recovering'
    <2> SUFFICES ASSUME NEW d \in Calls, mode'[d] = "recover"
                 PROVE  /\ pc'[d] \in RecoveryPcs
                        /\ pc'[d] \in {"rotate", "sendkey", "keyreply", "savekey"} => SessionOnly(snap'[d])
      BY DEF Recovering
    <2> QED
      BY <1>5 DEF KeyInv, Recovering, RecoveryPcs
  <1> QED
    BY <1>6, <1>7, <1>8, <1>9, <1>10 DEF KeyInv, Secret

\* A call stores the session only it has seen.
LEMMA StoredKeys ==
    ASSUME TInv, TInv', KeyInv, NEW c \in Calls, Unstored(c),
           row' = hand[c], sent' = sent, issued' = issued, Others(c),
           hand'[c] \in {hand[c], NoSession}, pc'[c] \in {"use", "done", "rsend"},
           pc'[c] = "rsend" => SessionOnly(snap'[c]),
           mode'[c] = "recover" => pc'[c] = "rsend"
    PROVE  KeyInv'
  <1>1. Fresh(c)
    BY DEF KeyInv, Secret
  <1>2. \A d \in Calls : d # c => hand'[d] = hand[d] /\ pc'[d] = pc[d] /\ mode'[d] = mode[d] /\ snap'[d] = snap[d]
    BY DEF Others
  <1>3. NoSession.id = 0 /\ hand[c].id \in Nat /\ hand[c].id # 0 /\ issued \in Nat
    BY <1>1 DEF Fresh, Session, NoSession, TInv, RestType
  <1>4. Issued'
    BY <1>2, <1>3 DEF KeyInv, Issued
  <1>5. Marked' /\ KeySentOnce'
    BY <1>1 DEF KeyInv, Marked, KeySentOnce, Fresh
  <1>6. Unspent'
    BY <1>2 DEF KeyInv, Unspent
  <1>7. ASSUME NEW d \in Calls, pc'[d] = "sendkey"
        PROVE  /\ sent'[hand'[d].id] = 0
               /\ row'.id = hand'[d].id => row'.spent
               /\ \A e \in Calls \ {d} : pc'[e] = "sendkey" => hand'[e].id # hand'[d].id
    <2>1. d # c /\ pc[d] = "sendkey" /\ hand'[d] = hand[d]
      BY <1>2, <1>7
    <2>2. row'.id # hand'[d].id
      BY <1>1, <2>1 DEF Fresh
    <2> QED
      BY <1>2, <2>1, <2>2 DEF KeyInv, Sending
  <1>8. ASSUME NEW d \in Calls, Unstored(d)' PROVE Fresh(d)'
    <2>1. d # c /\ Unstored(d) /\ hand'[d] = hand[d]
      BY <1>2, <1>8 DEF Unstored, SessionOnly
    <2>2. Fresh(d) /\ hand[d].id # 0
      BY <2>1 DEF KeyInv, Secret, Fresh, Session
    <2>3. row'.id # hand'[d].id
      BY <1>1, <2>1 DEF Fresh
    <2>4. \A e \in Calls \ {d} : hand'[e].id # hand[d].id
      BY <1>2, <1>3, <2>1, <2>2 DEF Fresh
    <2> QED
      BY <2>1, <2>2, <2>3, <2>4 DEF Fresh
  <1>9. Recovering'
    <2> SUFFICES ASSUME NEW d \in Calls, mode'[d] = "recover"
                 PROVE  /\ pc'[d] \in RecoveryPcs
                        /\ pc'[d] \in {"rotate", "sendkey", "keyreply", "savekey"} => SessionOnly(snap'[d])
      BY DEF Recovering
    <2> QED
      BY <1>2 DEF KeyInv, Recovering, RecoveryPcs
  <1> QED
    BY <1>4, <1>5, <1>6, <1>7, <1>8, <1>9 DEF KeyInv, Sending, Secret

\* The key of the row in hand is marked; no other call can be about to send it.
LEMMA MarkedKeys ==
    ASSUME TInv, TInv', KeyInv, NEW c \in Calls, pc[c] = "rotate", row = hand[c],
           row' = [row EXCEPT !.spent = TRUE], pc'[c] = "sendkey", hand'[c] = hand[c], Others(c),
           mode'[c] = mode[c], snap'[c] = snap[c], sent' = sent, issued' = issued
    PROVE  KeyInv'
  <1>1. row \in Session /\ ~row.spent
    BY DEF TInv, InPlace, KeyInv, Unspent
  <1>2. row' \in Session /\ row'.id = row.id /\ row'.spent /\ row # NoSession
    <2>1. row' \in Session /\ row'.id = row.id /\ row'.spent
      BY <1>1 DEF Session
    <2>2. row # NoSession
      BY <1>1 DEF NoSession
    <2> QED
      BY <2>1, <2>2
  <1>3. sent[row.id] = 0
    BY <1>1, <1>2 DEF KeyInv, Marked
  <1>4. \A d \in Calls : d # c => hand'[d] = hand[d] /\ pc'[d] = pc[d] /\ mode'[d] = mode[d] /\ snap'[d] = snap[d]
    BY DEF Others
  <1>5. Issued'
    BY <1>2, <1>4 DEF KeyInv, Issued
  <1>6. Marked' /\ KeySentOnce'
    BY <1>2 DEF KeyInv, Marked, KeySentOnce
  <1>7. Unspent'
    BY <1>4 DEF KeyInv, Unspent
  <1>8. \A d \in Calls \ {c} : pc[d] = "sendkey" => hand[d].id # row.id
    BY <1>1 DEF KeyInv, Sending
  <1>9. Sending'
    BY <1>2, <1>3, <1>4, <1>8 DEF KeyInv, Sending
  <1>10. ASSUME NEW d \in Calls, Unstored(d)' PROVE Fresh(d)'
    <2>1. d # c /\ Unstored(d) /\ hand'[d] = hand[d]
      BY <1>4, <1>10 DEF Unstored, SessionOnly
    <2>2. Fresh(d)
      BY <2>1 DEF KeyInv, Secret
    <2> QED
      BY <1>2, <1>4, <2>1, <2>2 DEF Fresh
  <1>11. Recovering'
    BY <1>4 DEF KeyInv, Recovering, RecoveryPcs, SessionOnly
  <1> QED
    BY <1>5, <1>6, <1>7, <1>9, <1>10, <1>11 DEF KeyInv, Secret

\* The marked key goes upstream, for the first time.
LEMMA SentKeys ==
    ASSUME TInv, TInv', KeyInv, NEW c \in Calls, SendKey(c) PROVE KeyInv'
  <1>1. /\ pc[c] = "sendkey" /\ hand[c] \in Session /\ hand[c].id \in 1..MaxSessions /\ sent[hand[c].id] = 0
        /\ row.id = hand[c].id => row.spent
    BY DEF SendKey, TInv, InPlace, Session, KeyInv, Sending
  <1>2. /\ row' = row /\ hand' = hand /\ mode' = mode /\ snap' = snap /\ issued' = issued
        /\ pc'[c] = "keyreply" /\ \A d \in Calls : d # c => pc'[d] = pc[d]
    BY DEF SendKey, TInv, CallType, Goto, Stay, store
  <1>3. sent \in [1..MaxSessions -> Nat] /\ hand[c].id <= issued /\ issued \in Nat
    BY DEF TInv, RestType, KeyInv, Issued
  <1>4. sent'[hand[c].id] = 1 /\ \A k \in 1..MaxSessions : k # hand[c].id => sent'[k] = sent[k]
    <2> DEFINE n == hand[c].id
    <2>1. sent' = [sent EXCEPT ![n] = sent[n] + 1]
      BY DEF SendKey
    <2>2. n \in 1..MaxSessions /\ sent[n] = 0
      BY <1>1
    <2> HIDE DEF n
    <2>3. sent'[n] = 1 /\ \A k \in 1..MaxSessions : k # n => sent'[k] = sent[k]
      BY <1>3, <2>1, <2>2
    <2> QED
      BY <2>3 DEF n
  <1>5. Issued'
    BY <1>1, <1>2, <1>3, <1>4 DEF KeyInv, Issued
  <1>6. Marked'
    <2>1. row # NoSession => row.id \in 1..MaxSessions
      BY DEF TInv, RestType, Holdable, Session
    <2> QED
      BY <1>1, <1>2, <1>4, <2>1 DEF KeyInv, Marked
  <1>7. KeySentOnce'
    BY <1>3, <1>4 DEF KeyInv, KeySentOnce
  <1>8. Unspent'
    BY <1>2 DEF KeyInv, Unspent
  <1>9. ASSUME NEW d \in Calls, pc'[d] = "sendkey"
        PROVE  /\ sent'[hand'[d].id] = 0
               /\ row'.id = hand'[d].id => row'.spent
               /\ \A e \in Calls \ {d} : pc'[e] = "sendkey" => hand'[e].id # hand'[d].id
    <2>1. d # c /\ pc[d] = "sendkey"
      BY <1>2, <1>9
    <2>2. hand[d].id # hand[c].id /\ hand[d].id \in 1..MaxSessions
      BY <1>1, <2>1 DEF KeyInv, Sending, TInv, InPlace, Session
    <2>3. sent'[hand[d].id] = 0 /\ (row.id = hand[d].id => row.spent)
      BY <1>4, <2>1, <2>2 DEF KeyInv, Sending
    <2>4. \A e \in Calls \ {d} : pc'[e] = "sendkey" => pc[e] = "sendkey"
      BY <1>2
    <2> QED
      BY <1>2, <2>1, <2>3, <2>4 DEF KeyInv, Sending
  <1>10. ASSUME NEW d \in Calls, Unstored(d)' PROVE Fresh(d)'
    <2>1. d # c /\ Unstored(d)
      BY <1>2, <1>10 DEF Unstored, SessionOnly
    <2>2. Fresh(d) /\ hand[d].id # hand[c].id /\ hand[d].id \in 1..MaxSessions
      BY <2>1 DEF KeyInv, Secret, Fresh, Session
    <2> QED
      BY <1>2, <1>4, <2>2 DEF Fresh
  <1>11. Recovering'
    BY <1>1, <1>2 DEF KeyInv, Recovering, RecoveryPcs, SessionOnly
  <1> QED
    BY <1>5, <1>6, <1>7, <1>8, <1>9, <1>10, <1>11 DEF KeyInv, Sending, Secret

LEMMA KeysOfStay ==
    ASSUME TInv, NEW c \in Calls, NEW label \in Pcs, Goto(c, label), Stay, hand' = hand \/ \E h : Hold(c, h)
    PROVE  pc'[c] = label /\ Others(c) /\ mode'[c] = mode[c] /\ snap'[c] = snap[c]
  BY DEF TInv, CallType, Goto, Stay, Hold, Others
LEMMA KeysOfLeave ==
    ASSUME TInv, NEW c \in Calls, NEW label \in Pcs, Leave(c, label)
    PROVE  pc'[c] = label /\ Others(c) /\ mode'[c] = "call" /\ snap'[c] = snap[c] /\ hand'[c] = NoSession
  BY DEF TInv, CallType, Goto, Leave, Others

LEMMA RecheckKeys == ASSUME TInv, TInv', KeyInv, NEW c \in Calls, Recheck(c) \/ Probe(c) PROVE KeyInv'
  <1>1. /\ row' = row /\ sent' = sent /\ issued' = issued /\ SameRow
        /\ mode[c] = "recover" => pc[c] \in RecoveryPcs
        /\ mode[c] \in {"call", "recover"}
    BY DEF Recheck, Probe, store, ghosts, SameRow, KeyInv, Recovering, TInv, CallType
  <1>2. CASE Finish(c) \/ Unusable(c)
    BY <1>1, <1>2, LeaveHarmless, HarmlessKeys DEF Finish, Unusable, Pcs
  <1>3. CASE pc[c] = "recheck" /\ Goto(c, "use") /\ Hold(c, row) /\ Stay
    <2>1. mode[c] = "call"
      BY <1>1, <1>3 DEF RecoveryPcs
    <2> QED
      BY <1>1, <1>3, <2>1, StayHarmless, HarmlessKeys DEF Stay, Pcs
  <1>4. CASE Goto(c, "login") /\ hand' = hand /\ Stay
    BY <1>1, <1>4, StayHarmless, HarmlessKeys DEF Stay, Pcs, RecoveryPcs
  <1>5. CASE HasNative /\ Goto(c, "rotate") /\ Hold(c, row) /\ Stay
    <2>1. hand'[c] = row /\ pc'[c] = "rotate" /\ Others(c) /\ mode'[c] = mode[c] /\ snap'[c] = snap[c]
      BY <1>5, KeysOfStay DEF TInv, CallType, Hold, Pcs
    <2>2. mode[c] = "recover" => SessionOnly(snap[c])
      BY <1>1, <1>5 DEF Recheck, Probe, RecoveryPcs, TInv, CallType, Goto
    <2> QED
      BY <1>1, <1>5, <2>1, <2>2, TakenKeys
  <1> QED
    BY <1>2, <1>3, <1>4, <1>5 DEF Recheck, Probe

LEMMA LoginKeys == ASSUME TInv, TInv', KeyInv, NEW c \in Calls, Login(c) PROVE KeyInv'
  <1>1. row' = row /\ sent' = sent /\ SameRow /\ mode[c] \in {"call", "recover"}
    BY DEF Login, store, ghosts, SameRow, TInv, CallType
  <1>2. CASE (Leave(c, "buffer") \/ Finish(c) \/ Unclassified(c)) /\ issued' = issued
    BY <1>1, <1>2, LeaveHarmless, HarmlessKeys DEF Unclassified, Finish, Pcs
  <1>3. CASE Goto(c, "rfetch") /\ Stay /\ hand' = hand /\ issued' = issued
    BY <1>1, <1>3, StayHarmless, HarmlessKeys DEF Stay, Pcs, RecoveryPcs
  <1>4. ASSUME NEW spent \in BOOLEAN, issued' = issued + 1, Stay,
               Hold(c, [id |-> issued + 1, owner |-> snap[c].auth, live |-> TRUE, spent |-> spent]),
               Goto(c, IF mode[c] = "call" THEN "put" ELSE "rsend")
        PROVE  KeyInv'
    <2>1. hand'[c].id = issued + 1
      BY <1>4 DEF TInv, CallType, Hold
    <2>2. CASE mode[c] = "call"
      <3>1. pc'[c] = "put" /\ Others(c) /\ mode'[c] = "call"
        BY <1>4, <2>2, KeysOfStay DEF Pcs
      <3> QED
        BY <1>1, <1>4, <2>1, <3>1, ArrivedKeys
    <2>3. CASE mode[c] # "call"
      <3>1. pc'[c] = "rsend" /\ Others(c)
        BY <1>4, <2>3, KeysOfStay DEF Pcs
      <3> QED
        BY <1>1, <1>4, <2>1, <3>1, ArrivedKeys
    <2> QED
      BY <2>2, <2>3
  <1> QED
    BY <1>2, <1>3, <1>4 DEF Login

LEMMA KeyReplyKeys == ASSUME TInv, TInv', KeyInv, NEW c \in Calls, KeyReply(c) PROVE KeyInv'
  <1>1. row' = row /\ sent' = sent /\ SameRow
    BY DEF KeyReply, store, ghosts, SameRow
  <1>2. CASE Finish(c) /\ issued' = issued
    BY <1>1, <1>2, LeaveHarmless, HarmlessKeys DEF Finish, Pcs
  <1>3. ASSUME NEW live \in BOOLEAN, issued' = issued + 1, Stay, Goto(c, "savekey"),
               Hold(c, [id |-> issued + 1, owner |-> hand[c].owner, live |-> live, spent |-> FALSE])
        PROVE  KeyInv'
    <2>1. hand'[c].id = issued + 1
      BY <1>3 DEF TInv, CallType, Hold
    <2>2. pc'[c] = "savekey" /\ Others(c) /\ mode'[c] = mode[c] /\ snap'[c] = snap[c]
      BY <1>3, KeysOfStay DEF Pcs
    <2>3. mode[c] = "recover" => SessionOnly(snap'[c])
      BY <2>2 DEF KeyReply, KeyInv, Recovering, SessionOnly
    <2> QED
      BY <1>1, <1>3, <2>1, <2>2, <2>3, ArrivedKeys
  <1> QED
    BY <1>2, <1>3 DEF KeyReply

LEMMA ConsumeKeys == ASSUME TInv, TInv', KeyInv, NEW c \in Calls, Consume(c) PROVE KeyInv'
  <1>1. sent' = sent /\ issued' = issued /\ pc[c] = "rotate"
    BY DEF Consume, ghosts
  <1>2. CASE Finish(c) /\ UNCHANGED row
    BY <1>1, <1>2, LeaveHarmless, HarmlessKeys DEF Finish, Pcs, SameRow
  <1>3. CASE row = hand[c] /\ row' = [row EXCEPT !.spent = TRUE] /\ Goto(c, "sendkey") /\ Stay /\ UNCHANGED hand
    <2>1. pc'[c] = "sendkey" /\ Others(c) /\ mode'[c] = mode[c] /\ snap'[c] = snap[c] /\ hand'[c] = hand[c]
      BY <1>3, KeysOfStay DEF Pcs
    <2> QED
      BY <1>1, <1>3, <2>1, MarkedKeys
  <1> QED
    BY <1>2, <1>3 DEF Consume

LEMMA StoreKeys == ASSUME TInv, TInv', KeyInv, NEW c \in Calls, Put(c) \/ SaveKey(c) \/ SaveCandidate(c) PROVE KeyInv'
  <1>1. sent' = sent /\ issued' = issued
    BY DEF Put, SaveKey, SaveCandidate, ghosts
  <1>2. mode[c] \in {"call", "recover"}
    BY DEF TInv, CallType
  <1>3. CASE Finish(c) /\ row' = row
    BY <1>1, <1>3, LeaveHarmless, HarmlessKeys DEF Finish, Pcs, SameRow
  <1>4. CASE Finish(c) /\ row' = hand[c] /\ Unstored(c)
    BY <1>1, <1>4, KeysOfLeave, StoredKeys DEF Finish, Pcs
  <1>5. CASE row' = hand[c] /\ pc[c] \in {"put", "savekey"} /\ Goto(c, "use") /\ Stay /\ UNCHANGED hand
             /\ (pc[c] = "savekey" => mode[c] = "call")
    <2>1. Unstored(c) /\ (mode[c] = "recover" => pc[c] # "put")
      BY <1>5 DEF Unstored, KeyInv, Recovering, RecoveryPcs
    <2>2. pc'[c] = "use" /\ Others(c) /\ mode'[c] = mode[c] /\ snap'[c] = snap[c] /\ hand'[c] = hand[c]
      BY <1>5, KeysOfStay DEF Pcs
    <2> QED
      BY <1>1, <1>2, <1>5, <2>1, <2>2, StoredKeys
  <1>6. CASE row' = hand[c] /\ pc[c] = "savekey" /\ mode[c] = "recover" /\ Goto(c, "rsend") /\ Stay /\ UNCHANGED hand
    <2>1. Unstored(c) /\ SessionOnly(snap[c])
      BY <1>6 DEF Unstored, KeyInv, Recovering
    <2>2. pc'[c] = "rsend" /\ Others(c) /\ mode'[c] = mode[c] /\ snap'[c] = snap[c] /\ hand'[c] = hand[c]
      BY <1>6, KeysOfStay DEF Pcs
    <2>3. SessionOnly(snap'[c])
      BY <2>1, <2>2 DEF SessionOnly
    <2> QED
      BY <1>1, <1>6, <2>1, <2>2, <2>3, StoredKeys
  <1>7. CASE Put(c)
    BY <1>3, <1>5, <1>7 DEF Put
  <1>8. CASE SaveKey(c)
    <2>1. Unstored(c)
      BY <1>8 DEF SaveKey, Unstored
    <2> QED
      BY <1>3, <1>4, <1>5, <1>6, <1>8, <2>1 DEF SaveKey
  <1>9. CASE SaveCandidate(c)
    <2>1. Finish(c) /\ pc[c] = "rsave"
      BY <1>9 DEF SaveCandidate
    <2>2. CASE UNCHANGED row
      BY <1>3, <2>1, <2>2
    <2>3. CASE row' = IF SessionOnly(snap[c]) THEN row ELSE hand[c]
      BY <1>3, <1>4, <2>1, <2>3 DEF Unstored
    <2>4. UNCHANGED row \/ row' = IF SessionOnly(snap[c]) THEN row ELSE hand[c]
      BY <1>9 DEF SaveCandidate
    <2> QED
      BY <2>2, <2>3, <2>4
  <1> QED
    BY <1>7, <1>8, <1>9

\* The account changes hands, time passes, or the process restarts.
LEMMA AccountKeys ==
    ASSUME TInv, TInv', KeyInv, Reauthorize \/ BackgroundRefresh \/ Tick \/ Prune \/ UNCHANGED vars \/ Crash
    PROVE  KeyInv'
  <1>1. /\ sent' = sent /\ issued' = issued /\ row' \in {row, NoSession}
        /\ \A d \in Calls : \/ pc'[d] = pc[d] /\ hand'[d] = hand[d] /\ mode'[d] = mode[d] /\ snap'[d] = snap[d]
                            \/ pc'[d] \in {"idle", "done"} /\ hand'[d] = NoSession /\ mode'[d] = "call"
    BY DEF Reauthorize, BackgroundRefresh, Tick, Prune, Crash, Renewed, Rejected, vars, call, store, ghosts
  <1>2. NoSession.id = 0 /\ NoSession.spent /\ issued \in Nat
    BY DEF NoSession, TInv, RestType
  <1>3. row'.id \in {row.id, 0} /\ \A d \in Calls : hand'[d].id \in {hand[d].id, 0}
    BY <1>1, <1>2
  <1>4. Issued'
    BY <1>1, <1>2, <1>3 DEF KeyInv, Issued
  <1>5. Marked' /\ KeySentOnce'
    BY <1>1 DEF KeyInv, Marked, KeySentOnce
  <1>6. Unspent'
    BY <1>1 DEF KeyInv, Unspent
  <1>7. ASSUME NEW d \in Calls, pc'[d] = "sendkey"
        PROVE  /\ sent'[hand'[d].id] = 0
               /\ row'.id = hand'[d].id => row'.spent
               /\ \A e \in Calls \ {d} : pc'[e] = "sendkey" => hand'[e].id # hand'[d].id
    <2>1. pc[d] = "sendkey" /\ hand'[d] = hand[d]
      BY <1>1, <1>7
    <2>2. \A e \in Calls : pc'[e] = "sendkey" => pc[e] = "sendkey" /\ hand'[e] = hand[e]
      BY <1>1
    <2> QED
      BY <1>1, <1>2, <2>1, <2>2 DEF KeyInv, Sending
  <1>8. ASSUME NEW d \in Calls, Unstored(d)' PROVE Fresh(d)'
    <2>1. Unstored(d) /\ hand'[d] = hand[d]
      BY <1>1, <1>8 DEF Unstored, SessionOnly
    <2>2. Fresh(d) /\ hand[d].id # 0
      BY <2>1 DEF KeyInv, Secret, Fresh, Session
    <2> QED
      BY <1>1, <1>3, <2>1, <2>2 DEF Fresh
  <1>9. Recovering'
    BY <1>1 DEF KeyInv, Recovering, SessionOnly
  <1> QED
    BY <1>4, <1>5, <1>6, <1>7, <1>8, <1>9 DEF KeyInv, Sending, Secret

LEMMA KeyNext == ASSUME TInv, KeyInv, [Next]_vars PROVE KeyInv'
  <1>1. TInv'
    BY TypeNext
  <1>2. ASSUME NEW c \in Calls, Begin(c) \/ Step(c) PROVE KeyInv'
    <2>1. \/ Harmless(c) \/ Recheck(c) \/ Probe(c) \/ Login(c) \/ KeyReply(c) \/ Consume(c) \/ SendKey(c)
          \/ Put(c) \/ SaveKey(c) \/ SaveCandidate(c)
      BY <1>2, LookKeys, WriteKeys DEF Step
    <2> QED
      BY <1>1, <2>1, HarmlessKeys, RecheckKeys, LoginKeys, KeyReplyKeys, ConsumeKeys, SentKeys, StoreKeys
  <1> QED
    BY <1>1, <1>2, AccountKeys DEF Next

LEMMA KeyStart == Init => KeyInv
  <1> SUFFICES ASSUME Init PROVE KeyInv
    OBVIOUS
  <1>1. \A c \in Calls : pc[c] = "idle" /\ mode[c] = "call" /\ hand[c] = NoSession
    BY DEF Init
  <1>2. issued = row.id /\ issued \in Nat /\ \A k \in 1..MaxSessions : sent[k] = 0
    BY DEF Init, NoSession
  <1>3. row # NoSession => row.id \in 1..MaxSessions
    BY SessionBounds DEF Init
  <1>4. Issued
    BY <1>1, <1>2 DEF Issued, NoSession
  <1> QED
    BY <1>1, <1>2, <1>3, <1>4
       DEF KeyInv, Marked, Unspent, Sending, Secret, Unstored, Recovering, KeySentOnce

\* For any number of requests, sessions, authorizations and restarts, a one-shot
\* AutoAuth key goes upstream at most once.
THEOREM KeyHolds == Spec => []KeySentOnce
  <1>1. KeyInv => KeySentOnce
    BY DEF KeyInv
  <1> QED
    BY <1>1, TypeStart, TypeNext, KeyStart, KeyNext, PTL DEF Spec

--------------------------------------------------------------------------------
(* Whose session is stored                                                     *)

\* A login's session belongs to the authorization of the call that opened it, a
\* key's successor to the owner of the row it is to replace.
Opening(c) == \/ pc[c] = "put"
              \/ pc[c] \in {"rsend", "rsave"} /\ ~SessionOnly(snap[c])
Exchanging(c) == pc[c] \in {"sendkey", "keyreply", "savekey"}
OwnInv == \A c \in Calls : /\ Opening(c) => hand[c].owner = snap[c].auth
                           /\ Exchanging(c) => hand[c].owner = base[c].owner

Apart(c) == Others(c) /\ \A d \in Calls \ {c} : base'[d] = base[d]
Elsewhere(c) == pc'[c] \notin {"put", "rsend", "rsave", "sendkey", "keyreply", "savekey"}

LEMMA LeaveApart ==
    ASSUME TInv, NEW c \in Calls, NEW label \in Pcs, Leave(c, label)
    PROVE  Apart(c) /\ pc'[c] = label
  BY DEF TInv, CallType, Leave, Goto, Apart, Others
LEMMA StayApart ==
    ASSUME TInv, NEW c \in Calls, NEW label \in Pcs, Goto(c, label), Stay,
           hand' = hand \/ \E h : Hold(c, h), base' = base \/ \E b : base' = [base EXCEPT ![c] = b]
    PROVE  Apart(c) /\ pc'[c] = label /\ snap'[c] = snap[c] /\ mode'[c] = mode[c]
  BY DEF TInv, CallType, Stay, Hold, Goto, Apart, Others

LEMMA ElsewhereFirst ==
    ASSUME TInv, NEW c \in Calls,
           \/ Begin(c) \/ Check(c) \/ Lookup(c) \/ TakeStateLock(c) \/ UseFails(c) \/ DropRead(c)
           \/ DropMissed(c) \/ RecoveryCheck(c) \/ SkipRecovery(c) \/ NeedRecovery(c)
    PROVE  Apart(c) /\ Elsewhere(c)
  <1>1. CASE Begin(c)
    BY <1>1 DEF TInv, CallType, Begin, Goto, Enter, Apart, Others, Elsewhere, memory
  <1>2. CASE Check(c)
    BY <1>2, LeaveApart, StayApart DEF Check, Finish, Pcs, Elsewhere
  <1>3. CASE Lookup(c)
    BY <1>3, LeaveApart, StayApart DEF Lookup, Unusable, Pcs, Elsewhere
  <1>4. CASE TakeStateLock(c)
    BY <1>4, StayApart DEF TakeStateLock, Behind, Pcs, Elsewhere
  <1>5. CASE UseFails(c)
    BY <1>5, LeaveApart, StayApart DEF UseFails, Unclassified, Finish, Pcs, Elsewhere
  <1>6. CASE DropRead(c)
    BY <1>6, LeaveApart, StayApart DEF DropRead, Unusable, Finish, Pcs, Elsewhere
  <1>7. CASE DropMissed(c) \/ SkipRecovery(c)
    BY <1>7, LeaveApart DEF DropMissed, SkipRecovery, Finish, Pcs, Elsewhere
  <1>8. CASE RecoveryCheck(c)
    BY <1>8, LeaveApart, StayApart DEF RecoveryCheck, Finish, Pcs, Elsewhere
  <1>9. CASE NeedRecovery(c)
    BY <1>9, StayApart DEF NeedRecovery, Pcs, Elsewhere
  <1> QED
    BY <1>1, <1>2, <1>3, <1>4, <1>5, <1>6, <1>7, <1>8, <1>9

LEMMA ElsewhereNext ==
    ASSUME TInv, NEW c \in Calls,
           \/ FetchTicket(c) \/ Triage(c) \/ FetchBuffer(c) \/ Replay(c)
           \/ TakeCodeLock(c) \/ TakeRecoveryLock(c) \/ Recheck(c) \/ Probe(c) \/ UseOK(c) \/ Drop(c)
    PROVE  Apart(c) /\ Elsewhere(c)
  <1>1. CASE FetchTicket(c)
    <2>1. CASE Goto(c, "login") /\ UNCHANGED <<hand, base, mode, snap>>
      BY <2>1 DEF TInv, CallType, Goto, Apart, Others, Elsewhere
    <2>2. CASE Leave(c, IF round[c] = 1 THEN "refused" ELSE "done") \/ Finish(c)
      BY <2>2, LeaveApart DEF Finish, Pcs, Elsewhere
    <2> QED
      BY <1>1, <2>1, <2>2 DEF FetchTicket
  <1>2. CASE Triage(c)
    BY <1>2, LeaveApart, StayApart DEF Triage, AfterTriage, Finish, Pcs, Elsewhere
  <1>3. CASE FetchBuffer(c)
    <2>1. CASE Goto(c, Enter(c)) /\ UNCHANGED <<hand, base, mode, snap>>
      BY <2>1 DEF TInv, CallType, Goto, Enter, Apart, Others, Elsewhere
    <2>2. CASE Finish(c)
      BY <2>2, LeaveApart DEF Finish, Pcs, Elsewhere
    <2>3. CASE Goto(c, "gate") /\ Stay /\ UNCHANGED <<hand, base>>
      BY <2>3, StayApart DEF Pcs, Elsewhere
    <2> QED
      BY <1>3, <2>1, <2>2, <2>3 DEF FetchBuffer
  <1>4. CASE Replay(c)
    BY <1>4 DEF TInv, CallType, Replay, Goto, Enter, Apart, Others, Elsewhere
  <1>5. CASE TakeCodeLock(c)
    BY <1>5 DEF TInv, CallType, TakeCodeLock, Goto, Apart, Others, Elsewhere
  <1>6. CASE TakeRecoveryLock(c)
    <2>1. CASE Finish(c)
      BY <2>1, LeaveApart DEF Finish, Pcs, Elsewhere
    <2>2. CASE mode' = [mode EXCEPT ![c] = "recover"] /\ Goto(c, "rstatelock") /\ UNCHANGED <<hand, base, snap>>
      BY <2>2 DEF TInv, CallType, Goto, Apart, Others, Elsewhere
    <2> QED
      BY <1>6, <2>1, <2>2 DEF TakeRecoveryLock
  <1>7. CASE Recheck(c)
    BY <1>7, LeaveApart, StayApart DEF Recheck, Finish, Unusable, Pcs, Elsewhere
  <1>8. CASE Probe(c)
    BY <1>8, LeaveApart, StayApart DEF Probe, Unusable, Pcs, Elsewhere
  <1>9. CASE UseOK(c)
    BY <1>9, LeaveApart DEF UseOK, Finish, Pcs, Elsewhere
  <1>10. CASE Drop(c)
    BY <1>10 DEF TInv, CallType, Drop, Goto, Hold, Apart, Others, Elsewhere
  <1> QED
    BY <1>1, <1>2, <1>3, <1>4, <1>5, <1>6, <1>7, <1>8, <1>9, <1>10

LEMMA ElsewhereLast ==
    ASSUME TInv, NEW c \in Calls,
           \/ Register(c) \/ Deferred(c) \/ AskBudget(c) \/ Discard(c) \/ ForcedRefresh(c) \/ Expire(c)
           \/ Put(c) \/ SaveCandidate(c)
    PROVE  Apart(c) /\ Elsewhere(c)
  <1>1. CASE Register(c) \/ Deferred(c)
    BY <1>1, LeaveApart, StayApart DEF Register, Deferred, Finish, Pcs, Elsewhere
  <1>2. CASE AskBudget(c)
    BY <1>2, LeaveApart, StayApart DEF AskBudget, Permitted, Finish, Pcs, Elsewhere
  <1>3. CASE Discard(c)
    BY <1>3, StayApart DEF Discard, Pcs, Elsewhere
  <1>4. CASE ForcedRefresh(c)
    BY <1>4, LeaveApart, StayApart DEF ForcedRefresh, Finish, Pcs, Elsewhere
  <1>5. CASE Expire(c)
    BY <1>5, LeaveApart DEF Expire, Finish, Pcs, Elsewhere
  <1>6. CASE Put(c)
    BY <1>6, LeaveApart, StayApart DEF Put, Finish, Pcs, Elsewhere
  <1>7. CASE SaveCandidate(c)
    BY <1>7, LeaveApart DEF SaveCandidate, Finish, Pcs, Elsewhere
  <1> QED
    BY <1>1, <1>2, <1>3, <1>4, <1>5, <1>6, <1>7

\* A step of one call leaves what the invariant says of the others.
LEMMA OwnOthers ==
    ASSUME OwnInv, NEW c \in Calls, Apart(c),
           Opening(c)' => hand'[c].owner = snap'[c].auth,
           Exchanging(c)' => hand'[c].owner = base'[c].owner
    PROVE  OwnInv'
  <1> SUFFICES ASSUME NEW d \in Calls
               PROVE  /\ Opening(d)' => hand'[d].owner = snap'[d].auth
                      /\ Exchanging(d)' => hand'[d].owner = base'[d].owner
    BY DEF OwnInv
  <1> QED
    BY DEF OwnInv, Apart, Others, Opening, Exchanging, SessionOnly

LEMMA OwnNext == ASSUME TInv, KeyInv, OwnInv, [Next]_vars PROVE OwnInv'
  <1>1. ASSUME NEW c \in Calls, Apart(c), Elsewhere(c) PROVE OwnInv'
    BY <1>1, OwnOthers DEF Elsewhere, Opening, Exchanging
  <1>2. ASSUME NEW c \in Calls, Login(c) PROVE OwnInv'
    <2>1. CASE Leave(c, "buffer") \/ Unclassified(c) \/ Finish(c)
      BY <1>1, <2>1, LeaveApart DEF Unclassified, Finish, Pcs, Elsewhere
    <2>2. CASE Goto(c, "rfetch") /\ Stay /\ UNCHANGED <<hand, base>>
      BY <1>1, <2>2, StayApart DEF Pcs, Elsewhere
    <2>3. ASSUME NEW spent \in BOOLEAN, Stay, base' = base,
                 Hold(c, [id |-> issued + 1, owner |-> snap[c].auth, live |-> TRUE, spent |-> spent]),
                 Goto(c, IF mode[c] = "call" THEN "put" ELSE "rsend")
          PROVE  OwnInv'
      <3>1. hand'[c].owner = snap[c].auth
        BY <2>3 DEF TInv, CallType, Hold
      <3>2. Apart(c) /\ snap'[c] = snap[c] /\ pc'[c] \in {"put", "rsend"}
        BY <2>3, StayApart DEF Pcs
      <3> QED
        BY <3>1, <3>2, OwnOthers DEF Exchanging
    <2> QED
      BY <1>2, <2>1, <2>2, <2>3 DEF Login
  <1>3. ASSUME NEW c \in Calls, Consume(c) PROVE OwnInv'
    <2>1. CASE Finish(c)
      BY <1>1, <2>1, LeaveApart DEF Finish, Pcs, Elsewhere
    <2>2. CASE /\ row = hand[c] /\ row' = [row EXCEPT !.spent = TRUE]
               /\ base' = [base EXCEPT ![c] = row'] /\ Goto(c, "sendkey") /\ Stay /\ UNCHANGED hand
      <3>1. Apart(c) /\ pc'[c] = "sendkey"
        BY <2>2, StayApart DEF Pcs
      <3>2. row \in Session
        BY <1>3, <2>2 DEF Consume, TInv, InPlace
      <3>3. row'.owner = row.owner
        BY <2>2, <3>2 DEF Session
      <3>4. base'[c].owner = hand'[c].owner
        BY <2>2, <3>3 DEF TInv, CallType
      <3> QED
        BY <3>1, <3>4, OwnOthers DEF Opening
    <2> QED
      BY <1>3, <2>1, <2>2 DEF Consume
  <1>4. ASSUME NEW c \in Calls, SendKey(c) PROVE OwnInv'
    <2>1. Apart(c) /\ pc'[c] = "keyreply" /\ hand' = hand /\ base' = base /\ pc[c] = "sendkey"
      BY <1>4, StayApart DEF SendKey, Pcs
    <2> QED
      BY <2>1, OwnOthers DEF Opening, Exchanging, OwnInv
  <1>5. ASSUME NEW c \in Calls, KeyReply(c) PROVE OwnInv'
    <2>1. CASE Finish(c)
      BY <1>1, <2>1, LeaveApart DEF Finish, Pcs, Elsewhere
    <2>2. ASSUME NEW live \in BOOLEAN, Goto(c, "savekey"), Stay, base' = base,
                 Hold(c, [id |-> issued + 1, owner |-> hand[c].owner, live |-> live, spent |-> FALSE])
          PROVE  OwnInv'
      <3>1. hand'[c].owner = hand[c].owner
        BY <2>2 DEF TInv, CallType, Hold
      <3>2. Apart(c) /\ pc'[c] = "savekey"
        BY <2>2, StayApart DEF Pcs
      <3>3. hand[c].owner = base[c].owner
        BY <1>5 DEF KeyReply, OwnInv, Exchanging
      <3> QED
        BY <2>2, <3>1, <3>2, <3>3, OwnOthers DEF Opening
    <2> QED
      BY <1>5, <2>1, <2>2 DEF KeyReply
  <1>6. ASSUME NEW c \in Calls, SaveKey(c) PROVE OwnInv'
    <2>1. CASE Finish(c)
      BY <1>1, <2>1, LeaveApart DEF Finish, Pcs, Elsewhere
    <2>2. CASE Goto(c, "use") /\ Stay /\ base' = [base EXCEPT ![c] = NoSession] /\ UNCHANGED hand
      BY <1>1, <2>2, StayApart DEF Pcs, Elsewhere
    <2>3. CASE mode[c] = "recover" /\ Goto(c, "rsend") /\ Stay /\ base' = [base EXCEPT ![c] = NoSession]
              /\ UNCHANGED hand
      <3>1. Apart(c) /\ pc'[c] = "rsend" /\ snap'[c] = snap[c]
        BY <2>3, StayApart DEF Pcs
      <3>2. SessionOnly(snap[c])
        BY <1>6, <2>3 DEF SaveKey, KeyInv, Recovering
      <3> QED
        BY <3>1, <3>2, OwnOthers DEF Opening, Exchanging, SessionOnly
    <2> QED
      BY <1>6, <2>1, <2>2, <2>3 DEF SaveKey
  <1>7. ASSUME NEW c \in Calls, ProbeCode(c) PROVE OwnInv'
    <2>1. CASE Finish(c)
      BY <1>1, <2>1, LeaveApart DEF Finish, Pcs, Elsewhere
    <2>2. CASE Goto(c, "rsave") /\ Stay /\ UNCHANGED <<hand, base>>
      <3>1. Apart(c) /\ pc'[c] = "rsave" /\ snap'[c] = snap[c] /\ hand' = hand /\ pc[c] = "rsend"
        BY <1>7, <2>2, StayApart DEF ProbeCode, Pcs
      <3> QED
        BY <3>1, OwnOthers DEF Opening, Exchanging, OwnInv, SessionOnly
    <2> QED
      BY <1>7, <2>1, <2>2 DEF ProbeCode
  <1>8. ASSUME NEW c \in Calls, Begin(c) \/ Step(c) PROVE OwnInv'
    <2>1. \/ Apart(c) /\ Elsewhere(c)
          \/ Login(c) \/ Consume(c) \/ SendKey(c) \/ KeyReply(c) \/ SaveKey(c) \/ ProbeCode(c)
      BY <1>8, ElsewhereFirst, ElsewhereNext, ElsewhereLast DEF Step
    <2> QED
      BY <1>1, <1>2, <1>3, <1>4, <1>5, <1>6, <1>7, <2>1
  <1>9. CASE Reauthorize \/ BackgroundRefresh \/ Tick \/ Prune \/ UNCHANGED vars
    BY <1>9 DEF Reauthorize, BackgroundRefresh, Tick, Prune, vars, call, OwnInv, Opening, Exchanging, SessionOnly
  <1>10. CASE Crash
    BY <1>10 DEF Crash, OwnInv, Opening, Exchanging
  <1> QED
    BY <1>8, <1>9, <1>10 DEF Next

\* The three writes that put another session into the row.
LEMMA StoredByOwner ==
    ASSUME TInv, KeyInv, OwnInv, NEW c \in Calls, Put(c) \/ SaveKey(c) \/ SaveCandidate(c), row' # row
    PROVE  acc.status # "expired" /\ row'.owner \in {acc.auth, row.owner}
  <1>0. acc \in Account /\ snap[c] \in Account
    BY DEF TInv, CallType, RestType
  <1>1. CASE row' = hand[c] /\ Opening(c) /\ Writable(c)
    <2>1. acc.status = "alive"
      BY <1>0, <1>1 DEF Writable, Account, Statuses
    <2>2. Credentials(snap[c]) = <<"tokens", acc.auth>>
      BY <1>1, <2>1 DEF Writable, SameAuthorization, SameAs, Credentials
    <2>3. snap[c].auth = acc.auth
      BY <2>2 DEF Credentials
    <2> QED
      BY <1>1, <2>1, <2>3 DEF OwnInv
  <1>2. CASE row' = hand[c] /\ pc[c] = "savekey" /\ Replaceable(c)
    BY <1>2 DEF Replaceable, OwnInv, Exchanging
  <1>3. CASE Put(c)
    BY <1>1, <1>3 DEF Put, Opening
  <1>4. CASE SaveKey(c)
    BY <1>2, <1>4 DEF SaveKey
  <1>5. CASE SaveCandidate(c)
    <2>1. row' = hand[c] /\ ~SessionOnly(snap[c]) /\ Writable(c)
      BY <1>5 DEF SaveCandidate
    <2> QED
      BY <1>1, <1>5, <2>1 DEF SaveCandidate, Opening
  <1> QED
    BY <1>3, <1>4, <1>5

\* For any calls and authorizations, another session enters the store only for
\* the authorization that opened it, or in place of the one it was exchanged for.
THEOREM OwnerHolds == Spec => StoredForItsAuthorization
  <1>1. ASSUME TInv, KeyInv, OwnInv, [Next]_vars, row'.id # row.id, row' # NoSession
        PROVE  acc.status # "expired" /\ row'.owner \in {acc.auth, row.owner}
    <2>1. ~SameRow
      BY <1>1 DEF SameRow
    <2>2. ASSUME NEW c \in Calls, Begin(c) \/ Step(c) PROVE Put(c) \/ SaveKey(c) \/ SaveCandidate(c)
      <3>1. ~Harmless(c)
        BY <2>1 DEF Harmless
      <3>2. row' # row
        BY <1>1
      <3>3. Recheck(c) \/ Probe(c) \/ Login(c) \/ KeyReply(c) \/ SendKey(c) => row' = row
        BY DEF Recheck, Probe, Login, KeyReply, SendKey, store
      <3>4. Consume(c) => row'.id = row.id
        <4>1. ASSUME Consume(c), row' = [row EXCEPT !.spent = TRUE], row = hand[c] PROVE row'.id = row.id
          <5>1. row \in Session
            BY <1>1, <4>1 DEF Consume, TInv, InPlace
          <5> QED
            BY <4>1, <5>1 DEF Session
        <4> QED
          BY <1>1, <4>1 DEF Consume
      <3> QED
        BY <1>1, <2>2, <3>1, <3>2, <3>3, <3>4, LookKeys, WriteKeys DEF Step
    <2>3. Reauthorize \/ BackgroundRefresh \/ Tick \/ Prune \/ Crash \/ UNCHANGED vars => row' \in {row, NoSession}
      BY DEF Reauthorize, BackgroundRefresh, Renewed, Rejected, Tick, Prune, Crash, vars, store
    <2> QED
      BY <1>1, <2>2, <2>3, StoredByOwner DEF Next
  <1>2. TInv /\ KeyInv /\ OwnInv /\ [Next]_vars =>
          [row'.id # row.id /\ row' # NoSession => acc.status # "expired" /\ row'.owner \in {acc.auth, row.owner}]_vars
    BY <1>1
  <1>3. Init => OwnInv
    BY DEF Init, OwnInv, Opening, Exchanging
  <1> QED
    BY <1>2, <1>3, TypeStart, TypeNext, KeyStart, KeyNext, OwnNext, PTL DEF Spec, StoredForItsAuthorization
================================================================================
