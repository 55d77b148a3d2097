--------------------------- MODULE SuccessorProofs ---------------------------
(* Proofs about CodeSession, continued: the state lock is held by one call, the *)
(* row a spent key belongs to stays for its successor, and only a session that *)
(* served a code excuses a refusal.                                            *)
EXTENDS CodeSessionProofs

--------------------------------------------------------------------------------
(* The state lock                                                              *)

\* Where a call works under the state lock of the account and route.
Locked == {"recheck", "login", "put", "dropread", "drop", "rotate", "sendkey", "keyreply", "savekey",
           "rcheck", "rverified", "register", "probe", "rfetch", "rsend", "rsave"}
LockInv == \A c \in Calls : pc[c] \in Locked => stateLock = c

\* What a step may do with the lock: leave its section and release, go on inside,
\* or enter when the lock is free.
Frees(c) == pc'[c] \notin Locked /\ stateLock' \in {stateLock, IF stateLock = c THEN None ELSE stateLock}
GoesOn(c) == pc[c] \in Locked /\ stateLock' = stateLock
Enters(c) == stateLock = None /\ stateLock' = c
Elsewise(c) == \A d \in Calls \ {c} : pc'[d] = pc[d]
LockMove(c) == Elsewise(c) /\ (Frees(c) \/ GoesOn(c) \/ Enters(c))

LEMMA LeaveFrees ==
    ASSUME TInv, NEW c \in Calls, NEW label \in Pcs \ Locked, Leave(c, label)
    PROVE  LockMove(c)
  BY DEF TInv, CallType, Leave, Goto, FreeState, LockMove, Elsewise, Frees
LEMMA GotoMoves ==
    ASSUME TInv, NEW c \in Calls, NEW label \in Pcs, Goto(c, label),
           \/ label \notin Locked /\ (stateLock' = stateLock \/ FreeState(c))
           \/ pc[c] \in Locked /\ stateLock' = stateLock
           \/ stateLock = None /\ stateLock' = c
    PROVE  LockMove(c)
  BY DEF TInv, CallType, Goto, FreeState, LockMove, Elsewise, Frees, GoesOn, Enters

LEMMA LooksMove == ASSUME TInv, NEW c \in Calls, LookStep(c) PROVE LockMove(c)
  <1>1. CASE Begin(c) \/ Replay(c) \/ TakeCodeLock(c)
    BY <1>1, GotoMoves DEF Begin, Replay, TakeCodeLock, Enter, memory, Locked, Pcs
  <1>2. CASE Check(c) \/ Lookup(c)
    BY <1>2, LeaveFrees, GotoMoves DEF Check, Lookup, Unusable, Finish, Locked, Pcs
  <1>3. CASE TakeStateLock(c)
    BY <1>3, GotoMoves DEF TakeStateLock, Behind, Locked, Pcs
  <1>4. CASE UseFails(c)
    BY <1>4, LeaveFrees, GotoMoves DEF UseFails, Unclassified, Finish, Locked, Pcs
  <1>5. CASE DropRead(c) \/ DropMissed(c)
    BY <1>5, LeaveFrees, GotoMoves DEF DropRead, DropMissed, Unusable, Finish, Locked, Pcs
  <1>6. CASE RecoveryCheck(c) \/ SkipRecovery(c) \/ NeedRecovery(c)
    BY <1>6, LeaveFrees, GotoMoves DEF RecoveryCheck, SkipRecovery, NeedRecovery, Finish, memory, Locked, Pcs
  <1>7. CASE FetchTicket(c)
    BY <1>7, LeaveFrees, GotoMoves DEF FetchTicket, Finish, Locked, Pcs
  <1>8. CASE ProbeCode(c)
    BY <1>8, LeaveFrees, GotoMoves DEF ProbeCode, Finish, Locked, Pcs
  <1>9. CASE Triage(c) \/ FetchBuffer(c)
    BY <1>9, LeaveFrees, GotoMoves DEF Triage, AfterTriage, FetchBuffer, Enter, Finish, Locked, Pcs
  <1>10. CASE Recheck(c)
    BY <1>10, LeaveFrees, GotoMoves DEF Recheck, Unusable, Finish, Locked, Pcs
  <1>11. CASE TakeRecoveryLock(c)
    BY <1>11, LeaveFrees, GotoMoves DEF TakeRecoveryLock, Finish, Locked, Pcs
  <1>12. CASE Probe(c)
    BY <1>12, LeaveFrees, GotoMoves DEF Probe, Unusable, Finish, Locked, Pcs
  <1> QED
    BY <1>1, <1>2, <1>3, <1>4, <1>5, <1>6, <1>7, <1>8, <1>9, <1>10, <1>11, <1>12 DEF LookStep

LEMMA WritesMove == ASSUME TInv, NEW c \in Calls, Begin(c) \/ Step(c), ~LookStep(c) PROVE LockMove(c)
  <1>1. CASE Login(c)
    BY <1>1, LeaveFrees, GotoMoves DEF Login, Unclassified, Finish, Locked, Pcs
  <1>2. CASE Put(c) \/ UseOK(c)
    BY <1>2, LeaveFrees, GotoMoves DEF Put, UseOK, Finish, Locked, Pcs
  <1>3. CASE Drop(c)
    BY <1>3, GotoMoves DEF Drop, Locked, Pcs
  <1>4. CASE Consume(c) \/ SendKey(c)
    BY <1>4, LeaveFrees, GotoMoves DEF Consume, SendKey, Finish, memory, Locked, Pcs
  <1>5. CASE KeyReply(c) \/ SaveKey(c)
    BY <1>5, LeaveFrees, GotoMoves DEF KeyReply, SaveKey, Finish, Locked, Pcs
  <1>6. CASE Register(c) \/ Deferred(c)
    BY <1>6, LeaveFrees, GotoMoves DEF Register, Deferred, Finish, Locked, Pcs
  <1>7. CASE SaveCandidate(c) \/ Expire(c)
    BY <1>7, LeaveFrees DEF SaveCandidate, Expire, Finish, Locked, Pcs
  <1>8. CASE AskBudget(c) \/ Discard(c)
    BY <1>8, LeaveFrees, GotoMoves DEF AskBudget, Permitted, Discard, Finish, memory, Locked, Pcs
  <1>9. CASE ForcedRefresh(c)
    BY <1>9, LeaveFrees, GotoMoves DEF ForcedRefresh, Finish, Locked, Pcs
  <1> QED
    BY <1>1, <1>2, <1>3, <1>4, <1>5, <1>6, <1>7, <1>8, <1>9 DEF Step, LookStep

LEMMA LockNext == ASSUME TInv, LockInv, [Next]_vars PROVE LockInv'
  <1>1. ASSUME NEW c \in Calls, Begin(c) \/ Step(c) PROVE LockInv'
    <2>1. LockMove(c)
      BY <1>1, LooksMove, WritesMove
    <2> SUFFICES ASSUME NEW d \in Calls, pc'[d] \in Locked PROVE stateLock' = d
      BY DEF LockInv
    <2>2. CASE d = c
      BY <2>1, <2>2 DEF LockMove, Frees, GoesOn, Enters, LockInv
    <2>3. CASE d # c
      BY <2>1, <2>3, CallsAssumption DEF LockMove, Elsewise, Frees, GoesOn, Enters, LockInv
    <2> QED
      BY <2>2, <2>3
  <1>2. CASE Reauthorize \/ BackgroundRefresh \/ Tick \/ Prune \/ UNCHANGED vars
    BY <1>2 DEF Reauthorize, BackgroundRefresh, Tick, Prune, vars, call, memory, LockInv
  <1>3. CASE Crash
    BY <1>3 DEF Crash, LockInv, Locked
  <1> QED
    BY <1>1, <1>2, <1>3 DEF Next
LEMMA LockStart == Init => LockInv
  BY DEF Init, LockInv, Locked

--------------------------------------------------------------------------------
(* What a call may rely on about the account it was called with                *)

\* The account only moves on: a newer authorization, or the same one refused.
Onward == \/ acc' = acc
          \/ acc'.auth > acc.auth
          \/ acc'.auth = acc.auth /\ acc'.status = "expired"
          \/ acc'.auth = acc.auth /\ acc.status = "alive"
Behindhand(a) == /\ a.auth <= acc.auth
                 /\ a.auth = acc.auth => /\ acc.status = "alive" => a.status = "alive"
                                         /\ a.status = "expired" => acc.status = "expired"
\* Only a replay may work on an account that expired meanwhile.
SnapInv == \A c \in Calls : Behindhand(snap[c]) /\ (round[c] = 1 => snap[c].status # "expired")

\* Where a call is on its way to discard the stored session.
Discarding == {"buffer", "unclassified", "ask", "fetch", "gate", "discard"}
DiscardInv == \A c \in Calls : pc[c] \in Discarding => snap[c].status = "alive"

\* Where a call spends a key: the account of the call is restricted, or was
\* replaced since.
Spending == {"rotate", "sendkey", "keyreply", "savekey"}
Outrun(a) == \/ acc.auth > a.auth
             \/ acc.status = "expired" /\ a.status = "session_only"
PlaceInv == \A c \in Calls :
              /\ pc[c] \in Spending => snap[c].status = "session_only" \/ acc.auth > snap[c].auth
              /\ pc[c] \in Spending \ {"rotate"} => row = base[c] \/ Outrun(snap[c])

LEMMA Moves == ASSUME TInv, Renewed \/ Rejected PROVE Onward /\ acc.status = "alive" /\ acc'.auth \in Nat
  <1>1. acc \in Account /\ acc.auth \in Nat
    BY SessionBounds DEF TInv, RestType, Account
  <1>2. CASE Renewed
    <2>1. acc'.auth = acc.auth + 1
      BY <1>1, <1>2 DEF Renewed, Account
    <2> QED
      BY <1>1, <1>2, <2>1 DEF Onward, Renewed
  <1>3. CASE Rejected
    <2>1. acc'.auth = acc.auth
      BY <1>1, <1>3 DEF Rejected, Account
    <2> QED
      BY <1>1, <1>3, <2>1 DEF Onward, Rejected
  <1> QED
    BY <1>2, <1>3

\* The steps that read the account, and those that keep call and account.
Snapshots(c) == /\ acc' = acc
                /\ snap' = [snap EXCEPT ![c] = acc]
                /\ \/ round' = round /\ acc.status # "expired"
                   \/ round' = [round EXCEPT ![c] = 2]
Keeps(c) == snap' = snap /\ (round' = round \/ round' = [round EXCEPT ![c] = 2])

LEMMA LooksKeep == ASSUME NEW c \in Calls, LookStep(c) PROVE acc' = acc /\ (Snapshots(c) \/ Keeps(c))
  <1>1. acc' = acc
    BY LookRest DEF store
  <1>2. CASE Begin(c) \/ Replay(c)
    BY <1>1, <1>2 DEF Begin, Replay, Snapshots
  <1>3. CASE FetchBuffer(c)
    BY <1>1, <1>3 DEF FetchBuffer, Keeps, Stay, Finish, Leave
  <1>4. CASE Check(c) \/ Lookup(c) \/ TakeStateLock(c) \/ UseFails(c) \/ DropRead(c) \/ DropMissed(c)
    BY <1>1, <1>4 DEF Check, Lookup, TakeStateLock, UseFails, DropRead, DropMissed, Unusable, Unclassified,
                      Keeps, Stay, Finish, Leave
  <1>5. CASE RecoveryCheck(c) \/ SkipRecovery(c) \/ NeedRecovery(c) \/ FetchTicket(c) \/ ProbeCode(c) \/ Triage(c)
    BY <1>1, <1>5 DEF RecoveryCheck, SkipRecovery, NeedRecovery, FetchTicket, ProbeCode, Triage,
                      Keeps, Stay, Finish, Leave
  <1>6. CASE TakeCodeLock(c) \/ Recheck(c) \/ TakeRecoveryLock(c) \/ Probe(c)
    BY <1>1, <1>6 DEF TakeCodeLock, Recheck, TakeRecoveryLock, Probe, Unusable, Keeps, Stay, Finish, Leave
  <1> QED
    BY <1>1, <1>2, <1>3, <1>4, <1>5, <1>6 DEF LookStep

LEMMA WritesKeep ==
    ASSUME TInv, NEW c \in Calls, Begin(c) \/ Step(c), ~LookStep(c)
    PROVE  Onward /\ Keeps(c) /\ round' = round
  <1>1. CASE Login(c) \/ Put(c) \/ UseOK(c) \/ Drop(c) \/ Consume(c) \/ SendKey(c) \/ KeyReply(c) \/ SaveKey(c)
    BY <1>1 DEF Login, Put, UseOK, Drop, Consume, SendKey, KeyReply, SaveKey, Unclassified, Onward, Keeps, Stay,
                Finish, Leave, store
  <1>2. CASE Register(c) \/ Deferred(c) \/ SaveCandidate(c) \/ AskBudget(c) \/ Discard(c)
    BY <1>2 DEF Register, Deferred, SaveCandidate, AskBudget, Discard, Onward, Keeps, Stay, Finish, Leave, store
  <1>3. CASE ForcedRefresh(c)
    <2>1. Onward
      BY <1>3, Moves DEF ForcedRefresh, Onward, store
    <2> QED
      BY <1>3, <2>1 DEF ForcedRefresh, Keeps, Stay, Finish, Leave
  <1>4. CASE Expire(c)
    <2>1. Onward
      <3>1. acc \in Account
        BY DEF TInv, RestType
      <3>2. CASE acc' = [acc EXCEPT !.status = "expired"]
        BY <3>1, <3>2 DEF Account, Onward
      <3> QED
        BY <1>4, <3>2 DEF Expire, Onward, store
    <2> QED
      BY <1>4, <2>1 DEF Expire, Keeps, Finish, Leave
  <1> QED
    BY <1>1, <1>2, <1>3, <1>4 DEF Step, LookStep

\* An account that moves on leaves every snapshot behind it.
LEMMA StillBehind ==
    ASSUME TInv, TInv', Onward, NEW a \in Account, Behindhand(a)
    PROVE  Behindhand(a)'
  <1>1. acc \in Account /\ acc' \in Account
    BY DEF TInv, RestType
  <1>2. /\ acc.auth \in Nat /\ acc'.auth \in Nat /\ a.auth \in Nat
        /\ acc.status \in Statuses /\ acc'.status \in Statuses /\ a.status \in Statuses
    BY <1>1, SessionBounds DEF Account
  <1> QED
    BY <1>2 DEF Onward, Behindhand, Statuses

LEMMA SnapNext == ASSUME TInv, TInv', SnapInv, [Next]_vars PROVE SnapInv'
  <1>0. acc \in Account /\ \A d \in Calls : snap[d] \in Account
    BY DEF TInv, CallType, RestType
  <1>1. (\A d \in Calls : snap[d] \in Account) /\ acc.auth \in Nat
    BY <1>0, SessionBounds DEF Account
  <1>2. ASSUME Onward, snap' = snap,
               round' = round \/ \E c \in Calls : round' = [round EXCEPT ![c] = 2]
        PROVE  SnapInv'
    <2> SUFFICES ASSUME NEW d \in Calls
                 PROVE  Behindhand(snap[d])' /\ (round'[d] = 1 => snap'[d].status # "expired")
      BY DEF SnapInv
    <2>1. Behindhand(snap[d])'
      BY <1>1, <1>2, StillBehind DEF SnapInv
    <2>2. round'[d] = 1 => round[d] = 1
      BY <1>2 DEF TInv, CallType
    <2> QED
      BY <1>2, <2>1, <2>2 DEF SnapInv
  <1>3. ASSUME NEW c \in Calls, Snapshots(c) PROVE SnapInv'
    <2> SUFFICES ASSUME NEW d \in Calls
                 PROVE  Behindhand(snap[d])' /\ (round'[d] = 1 => snap'[d].status # "expired")
      BY DEF SnapInv
    <2>1. CASE d = c
      <3>1. snap'[c] = acc /\ acc' = acc /\ (round'[c] = 1 => acc.status # "expired")
        BY <1>3 DEF Snapshots, TInv, CallType
      <3> QED
        BY <1>1, <2>1, <3>1 DEF Behindhand
    <2>2. CASE d # c
      <3>1. snap'[d] = snap[d] /\ round'[d] = round[d] /\ acc' = acc
        BY <1>3, <2>2 DEF Snapshots, TInv, CallType
      <3> QED
        BY <3>1 DEF SnapInv, Behindhand
    <2> QED
      BY <2>1, <2>2
  <1>4. ASSUME NEW c \in Calls, Begin(c) \/ Step(c) PROVE SnapInv'
    BY <1>2, <1>3, <1>4, LooksKeep, WritesKeep DEF Keeps, Onward
  <1>5. CASE Reauthorize
    <2>1. acc'.auth = acc.auth + 1
      BY <1>1, <1>5 DEF Reauthorize
    <2>2. Onward
      BY <1>1, <2>1 DEF Onward
    <2> QED
      BY <1>2, <1>5, <2>2 DEF Reauthorize, call
  <1>6. CASE BackgroundRefresh
    BY <1>2, <1>6, Moves DEF BackgroundRefresh, call
  <1>7. CASE Tick \/ Prune \/ Crash \/ UNCHANGED vars
    BY <1>2, <1>7 DEF Tick, Prune, Crash, vars, call, store, Onward
  <1> QED
    BY <1>4, <1>5, <1>6, <1>7 DEF Next

--------------------------------------------------------------------------------
(* Who discards                                                                *)

\* A step takes its call to one place; on the way to a discard it comes from there
\* already, or fails for the first time with an account that is not restricted.
Aside(c) == \A d \in Calls \ {c} : pc'[d] = pc[d] /\ snap'[d] = snap[d]
DiscardMove(c) == /\ Aside(c)
                  /\ pc'[c] \in Discarding => /\ snap'[c] = snap[c]
                                              /\ pc[c] \in Discarding \/ (round[c] = 1 /\ ~SessionOnly(snap[c]))

LEMMA LeaveDiscards ==
    ASSUME TInv, NEW c \in Calls, NEW label \in Pcs, Leave(c, label),
           label \in Discarding => round[c] = 1 /\ ~SessionOnly(snap[c])
    PROVE  DiscardMove(c)
  BY DEF TInv, CallType, Leave, Goto, DiscardMove, Aside
LEMMA GotoDiscards ==
    ASSUME TInv, NEW c \in Calls, NEW label \in Pcs, Goto(c, label), snap' = snap,
           label \in Discarding => pc[c] \in Discarding
    PROVE  DiscardMove(c)
  BY DEF TInv, CallType, Goto, DiscardMove, Aside

LEMMA LooksDiscard == ASSUME TInv, NEW c \in Calls, LookStep(c) PROVE DiscardMove(c)
  <1>1. CASE Begin(c) \/ Replay(c)
    BY <1>1 DEF TInv, CallType, Begin, Replay, Goto, Enter, Discarding, DiscardMove, Aside
  <1>2. CASE Check(c) \/ Lookup(c) \/ TakeCodeLock(c)
    BY <1>2, LeaveDiscards, GotoDiscards DEF Check, Lookup, TakeCodeLock, Unusable, Finish, Stay, Discarding, Pcs
  <1>3. CASE TakeStateLock(c)
    BY <1>3, GotoDiscards DEF TakeStateLock, Behind, Stay, Discarding, Pcs
  <1>4. CASE UseFails(c)
    <2>1. CASE Unclassified(c)
      BY <2>1, LeaveDiscards DEF Unclassified, Discarding, Pcs
    <2> QED
      BY <1>4, <2>1, LeaveDiscards, GotoDiscards DEF UseFails, Finish, Stay, Discarding, Pcs
  <1>5. CASE DropRead(c) \/ DropMissed(c)
    BY <1>5, LeaveDiscards, GotoDiscards DEF DropRead, DropMissed, Unusable, Finish, Stay, Discarding, Pcs
  <1>6. CASE RecoveryCheck(c) \/ SkipRecovery(c) \/ NeedRecovery(c)
    BY <1>6, LeaveDiscards, GotoDiscards DEF RecoveryCheck, SkipRecovery, NeedRecovery, Finish, Stay, Discarding, Pcs
  <1>7. CASE FetchTicket(c) \/ ProbeCode(c)
    BY <1>7, LeaveDiscards, GotoDiscards DEF FetchTicket, ProbeCode, Finish, Stay, Discarding, Pcs
  <1>8. CASE Triage(c) \/ FetchBuffer(c)
    BY <1>8, LeaveDiscards, GotoDiscards DEF Triage, AfterTriage, FetchBuffer, Enter, Finish, Stay, Discarding, Pcs
  <1>9. CASE Recheck(c) \/ TakeRecoveryLock(c)
    BY <1>9, LeaveDiscards, GotoDiscards DEF Recheck, TakeRecoveryLock, Unusable, Finish, Stay, Discarding, Pcs
  <1>10. CASE Probe(c)
    BY <1>10, LeaveDiscards, GotoDiscards DEF Probe, Unusable, Finish, Stay, Discarding, Pcs
  <1> QED
    BY <1>1, <1>2, <1>3, <1>4, <1>5, <1>6, <1>7, <1>8, <1>9, <1>10 DEF LookStep

LEMMA WritesDiscard == ASSUME TInv, NEW c \in Calls, Begin(c) \/ Step(c), ~LookStep(c) PROVE DiscardMove(c)
  <1>1. CASE Login(c)
    <2>1. CASE round[c] = 1 /\ ~SessionOnly(snap[c]) /\ Leave(c, "buffer")
      BY <2>1, LeaveDiscards DEF Pcs
    <2>2. CASE Unclassified(c)
      BY <2>2, LeaveDiscards DEF Unclassified, Discarding, Pcs
    <2> QED
      BY <1>1, <2>1, <2>2, LeaveDiscards, GotoDiscards DEF Login, Finish, Stay, Discarding, Pcs
  <1>2. CASE Put(c) \/ UseOK(c) \/ Drop(c)
    BY <1>2, LeaveDiscards, GotoDiscards DEF Put, UseOK, Drop, Finish, Stay, Discarding, Pcs
  <1>3. CASE Consume(c) \/ SendKey(c) \/ KeyReply(c) \/ SaveKey(c)
    BY <1>3, LeaveDiscards, GotoDiscards DEF Consume, SendKey, KeyReply, SaveKey, Finish, Stay, Discarding, Pcs
  <1>4. CASE Register(c) \/ Deferred(c) \/ SaveCandidate(c) \/ Expire(c)
    BY <1>4, LeaveDiscards, GotoDiscards DEF Register, Deferred, SaveCandidate, Expire, Finish, Stay, Discarding, Pcs
  <1>5. CASE AskBudget(c) \/ Discard(c)
    BY <1>5, LeaveDiscards, GotoDiscards DEF AskBudget, Permitted, Discard, Finish, Stay, Discarding, Pcs
  <1>6. CASE ForcedRefresh(c)
    BY <1>6, LeaveDiscards, GotoDiscards DEF ForcedRefresh, Finish, Stay, Discarding, Pcs
  <1> QED
    BY <1>1, <1>2, <1>3, <1>4, <1>5, <1>6 DEF Step, LookStep

LEMMA DiscardNext == ASSUME TInv, SnapInv, DiscardInv, [Next]_vars PROVE DiscardInv'
  <1>1. ASSUME NEW c \in Calls, Begin(c) \/ Step(c) PROVE DiscardInv'
    <2>1. DiscardMove(c)
      BY <1>1, LooksDiscard, WritesDiscard
    <2>2. pc'[c] \in Discarding => snap'[c].status = "alive"
      <3>1. snap[c].status \in Statuses
        BY DEF TInv, CallType, Account
      <3> QED
        BY <2>1, <3>1 DEF DiscardMove, DiscardInv, SnapInv, SessionOnly, Statuses
    <2> QED
      BY <2>1, <2>2 DEF DiscardMove, Aside, DiscardInv
  <1>2. CASE Reauthorize \/ BackgroundRefresh \/ Tick \/ Prune \/ UNCHANGED vars
    BY <1>2 DEF Reauthorize, BackgroundRefresh, Tick, Prune, vars, call, DiscardInv
  <1>3. CASE Crash
    BY <1>3 DEF Crash, DiscardInv, Discarding
  <1> QED
    BY <1>1, <1>2, <1>3 DEF Next

LEMMA SnapStart == Init => SnapInv /\ DiscardInv
  <1>1. ASSUME Init PROVE SnapInv
    <2>1. \A c \in Calls : snap[c] = acc /\ round[c] = 1
      BY <1>1 DEF Init
    <2>2. acc.status # "expired" /\ acc.auth = 1
      BY <1>1 DEF Init
    <2> QED
      BY <2>1, <2>2 DEF SnapInv, Behindhand
  <1>2. Init => DiscardInv
    BY DEF Init, DiscardInv, Discarding
  <1> QED
    BY <1>1, <1>2

--------------------------------------------------------------------------------
(* The place of the successor                                                  *)

\* Only these steps bring a call to the exchange of a key or further into it.
LEMMA Spenders ==
    ASSUME TInv, KeyInv, NEW c \in Calls, Begin(c) \/ Step(c), pc'[c] \in Spending
    PROVE  \/ pc'[c] = "rotate" /\ (Recheck(c) \/ Probe(c))
           \/ pc'[c] = "sendkey" /\ Consume(c)
           \/ pc'[c] = "keyreply" /\ SendKey(c)
           \/ pc'[c] = "savekey" /\ KeyReply(c)
  <1>1. CASE Elsewhere(c) /\ Harmless(c)
    BY <1>1 DEF Elsewhere, Harmless, Spending
  <1>2. CASE Login(c)
    BY <1>2, LeaveApart, StayApart DEF Login, Unclassified, Finish, Pcs, Spending
  <1>3. CASE ProbeCode(c) \/ Put(c) \/ SaveKey(c) \/ SaveCandidate(c)
    BY <1>3, LeaveApart, StayApart DEF ProbeCode, Put, SaveKey, SaveCandidate, Finish, Pcs, Spending
  <1>4. CASE Recheck(c) \/ Probe(c)
    BY <1>4, ElsewhereNext DEF Elsewhere, Spending
  <1>5. CASE Consume(c)
    BY <1>5, LeaveApart, StayApart DEF Consume, Finish, Pcs, Spending
  <1>6. CASE SendKey(c)
    BY <1>6, StayApart DEF SendKey, Pcs, Spending
  <1>7. CASE KeyReply(c)
    BY <1>7, LeaveApart, StayApart DEF KeyReply, Finish, Pcs, Spending
  <1> QED
    BY <1>1, <1>2, <1>3, <1>4, <1>5, <1>6, <1>7, ElsewhereFirst, ElsewhereNext, ElsewhereLast, LookKeys, WriteKeys
       DEF Step

\* A step of one call leaves the others where they are.
LEMMA StepApart == ASSUME TInv, NEW c \in Calls, Begin(c) \/ Step(c) PROVE Apart(c)
  <1>1. CASE Login(c)
    BY <1>1, LeaveApart, StayApart DEF Login, Unclassified, Finish, Pcs
  <1>2. CASE ProbeCode(c)
    BY <1>2, LeaveApart, StayApart DEF ProbeCode, Finish, Pcs
  <1>3. CASE SaveKey(c)
    BY <1>3, LeaveApart, StayApart DEF SaveKey, Finish, Pcs
  <1>4. CASE Consume(c)
    BY <1>4, LeaveApart, StayApart DEF Consume, Finish, Pcs
  <1>5. CASE SendKey(c)
    BY <1>5, StayApart DEF SendKey, Pcs
  <1>6. CASE KeyReply(c)
    BY <1>6, LeaveApart, StayApart DEF KeyReply, Finish, Pcs
  <1> QED
    BY <1>1, <1>2, <1>3, <1>4, <1>5, <1>6, ElsewhereFirst, ElsewhereNext, ElsewhereLast DEF Step

\* Outside the state lock a request changes the row only by discarding it, by
\* expiring its account or by a refresh.
LEMMA RowMoves ==
    ASSUME NEW c \in Calls, Begin(c) \/ Step(c), pc[c] \notin Locked
    PROVE  row' = row \/ Discard(c) \/ Expire(c) \/ ForcedRefresh(c)
  <1>1. CASE LookStep(c)
    BY <1>1, LookRest DEF store
  <1>2. CASE Login(c) \/ UseOK(c) \/ SendKey(c) \/ KeyReply(c) \/ Register(c) \/ Deferred(c) \/ AskBudget(c)
    BY <1>2 DEF Login, UseOK, SendKey, KeyReply, Register, Deferred, AskBudget, store
  <1>3. ~(Put(c) \/ Drop(c) \/ Consume(c) \/ SaveKey(c) \/ SaveCandidate(c))
    BY DEF Put, Drop, Consume, SaveKey, SaveCandidate, Locked
  <1> QED
    BY <1>1, <1>2, <1>3 DEF Step, LookStep

\* A call waiting for its successor, and a change of account or row by another.
LEMMA PlaceKept ==
    ASSUME TInv, TInv', SnapInv, PlaceInv, NEW c \in Calls, pc[c] \in Spending, Onward,
           pc'[c] = pc[c], snap'[c] = snap[c], base'[c] = base[c],
           \/ row' = row
           \/ acc.status = "alive"
           \/ acc'.status = "expired"
           \/ acc'.auth > acc.auth
    PROVE  /\ snap'[c].status = "session_only" \/ acc'.auth > snap'[c].auth
           /\ pc'[c] # "rotate" => row' = base'[c] \/ Outrun(snap[c])'
  <1>1. acc \in Account /\ acc' \in Account /\ snap[c] \in Account
    BY DEF TInv, CallType, RestType
  <1>2. /\ acc.auth \in Nat /\ acc'.auth \in Nat /\ snap[c].auth \in Nat
        /\ acc.status \in Statuses /\ acc'.status \in Statuses /\ snap[c].status \in Statuses
    BY <1>1, SessionBounds DEF Account
  <1>3. /\ snap[c].status = "session_only" \/ acc.auth > snap[c].auth
        /\ pc[c] # "rotate" => row = base[c] \/ Outrun(snap[c])
        /\ Behindhand(snap[c])
    BY DEF PlaceInv, SnapInv, Spending
  <1> QED
    BY <1>2, <1>3 DEF Onward, Behindhand, Outrun, Statuses

LEMMA PlaceOthers ==
    ASSUME TInv, TInv', SnapInv, DiscardInv, LockInv, PlaceInv, NEW d \in Calls, Begin(d) \/ Step(d),
           NEW c \in Calls \ {d}, pc'[c] \in Spending
    PROVE  /\ snap'[c].status = "session_only" \/ acc'.auth > snap'[c].auth
           /\ pc'[c] # "rotate" => row' = base'[c] \/ Outrun(snap[c])'
  <1>1. pc'[c] = pc[c] /\ snap'[c] = snap[c] /\ base'[c] = base[c]
    BY StepApart DEF Apart, Others
  <1>2. Onward
    BY LooksKeep, WritesKeep DEF Onward
  <1>3. pc[d] \notin Locked
    BY <1>1 DEF LockInv, Locked, Spending
  <1>4. acc \in Account /\ acc' \in Account
    BY DEF TInv, RestType
  <1>5. CASE Discard(d)
    <2>1. snap[d].status = "alive"
      BY <1>5 DEF Discard, DiscardInv, Discarding
    <2>2. row' = row \/ acc.status = "alive"
      <3>1. SameAuthorization(snap[d]) => Credentials(acc) = <<"tokens", snap[d].auth>>
        BY <2>1 DEF SameAuthorization, SameAs, Credentials
      <3>2. acc.status # "alive" => Credentials(acc) # <<"tokens", snap[d].auth>>
        BY DEF Credentials
      <3> QED
        BY <1>5, <3>1, <3>2 DEF Discard
    <2> QED
      BY <1>1, <1>2, <2>2, PlaceKept
  <1>6. CASE Expire(d)
    <2>1. row' = row \/ acc'.status = "expired"
      BY <1>4, <1>6 DEF Expire, Account, store
    <2> QED
      BY <1>1, <1>2, <2>1, PlaceKept
  <1>7. CASE ForcedRefresh(d)
    <2>1. row' = row \/ acc.status = "alive"
      BY <1>7 DEF ForcedRefresh, Renewed, Rejected, store
    <2> QED
      BY <1>1, <1>2, <2>1, PlaceKept
  <1>8. CASE row' = row
    BY <1>1, <1>2, <1>8, PlaceKept
  <1> QED
    BY <1>3, <1>5, <1>6, <1>7, <1>8, RowMoves

LEMMA PlaceSelf ==
    ASSUME TInv, TInv', KeyInv, SnapInv, PlaceInv, NEW c \in Calls, Begin(c) \/ Step(c), pc'[c] \in Spending
    PROVE  /\ snap'[c].status = "session_only" \/ acc'.auth > snap'[c].auth
           /\ pc'[c] # "rotate" => row' = base'[c] \/ Outrun(snap[c])'
  <1>1. acc \in Account /\ snap[c] \in Account
    BY DEF TInv, CallType, RestType
  <1>2. /\ acc.auth \in Nat /\ snap[c].auth \in Nat
        /\ acc.status \in Statuses /\ snap[c].status \in Statuses
    BY <1>1, SessionBounds DEF Account
  <1>3. CASE pc'[c] = "rotate" /\ (Recheck(c) \/ Probe(c))
    <2>1. acc' = acc /\ snap' = snap
      BY <1>3 DEF Recheck, Probe, store, Stay, Finish, Unusable, Leave
    <2>2. CASE SessionOnly(acc) /\ SameAuthorization(snap[c])
      <3>1. snap[c].status # "alive"
        BY <2>2 DEF SessionOnly, SameAuthorization, SameAs, Credentials
      <3> QED
        BY <1>2, <1>3, <2>1, <2>2, <3>1 DEF SessionOnly, SnapInv, Behindhand, Statuses
    <2>3. CASE SessionOnly(snap[c])
      BY <1>3, <2>1, <2>3 DEF SessionOnly
    <2>4. ASSUME Recheck(c) PROVE SessionOnly(acc) /\ SameAuthorization(snap[c])
      <3>1. /\ Goto(c, "use") => pc'[c] = "use"
            /\ Goto(c, "login") => pc'[c] = "login"
        BY DEF Goto, TInv, CallType
      <3>2. ~Finish(c) /\ ~Unusable(c)
        BY <1>3, LeaveApart DEF Finish, Unusable, Pcs
      <3> QED
        BY <1>3, <2>4, <3>1, <3>2 DEF Recheck
    <2>5. ASSUME Probe(c) PROVE SessionOnly(snap[c])
      <3>1. Goto(c, "login") => pc'[c] = "login"
        BY DEF Goto, TInv, CallType
      <3> QED
        BY <1>3, <2>5, <3>1 DEF Probe
    <2> QED
      BY <1>3, <2>2, <2>3, <2>4, <2>5
  <1>4. CASE pc'[c] = "sendkey" /\ Consume(c)
    <2>1. ~Finish(c)
      BY <1>4, LeaveApart DEF Finish, Pcs
    <2>2. row' = base'[c] /\ snap' = snap /\ acc' = acc /\ pc[c] = "rotate"
      BY <1>4, <2>1 DEF Consume, Stay, TInv, CallType
    <2> QED
      BY <2>2 DEF PlaceInv, Spending
  <1>5. CASE pc'[c] = "keyreply" /\ SendKey(c)
    <2>1. row' = row /\ base' = base /\ snap' = snap /\ acc' = acc /\ pc[c] = "sendkey"
      BY <1>5 DEF SendKey, Stay, store
    <2> QED
      BY <2>1 DEF PlaceInv, Spending, Outrun
  <1>6. CASE pc'[c] = "savekey" /\ KeyReply(c)
    <2>1. ~Finish(c)
      BY <1>6, LeaveApart DEF Finish, Pcs
    <2>2. row' = row /\ base' = base /\ snap' = snap /\ acc' = acc /\ pc[c] = "keyreply"
      BY <1>6, <2>1 DEF KeyReply, Stay, store
    <2> QED
      BY <2>2 DEF PlaceInv, Spending, Outrun
  <1> QED
    BY <1>3, <1>4, <1>5, <1>6, Spenders

LEMMA PlaceNext ==
    ASSUME TInv, TInv', KeyInv, LockInv, SnapInv, DiscardInv, PlaceInv, [Next]_vars PROVE PlaceInv'
  <1> SUFFICES ASSUME NEW c \in Calls, pc'[c] \in Spending
               PROVE  /\ snap'[c].status = "session_only" \/ acc'.auth > snap'[c].auth
                      /\ pc'[c] # "rotate" => row' = base'[c] \/ Outrun(snap[c])'
    BY DEF PlaceInv
  <1>1. ASSUME NEW d \in Calls, Begin(d) \/ Step(d)
        PROVE  /\ snap'[c].status = "session_only" \/ acc'.auth > snap'[c].auth
               /\ pc'[c] # "rotate" => row' = base'[c] \/ Outrun(snap[c])'
    <2>1. CASE d = c
      BY <1>1, <2>1, PlaceSelf
    <2>2. CASE d # c
      BY <1>1, <2>2, PlaceOthers
    <2> QED
      BY <2>1, <2>2
  <1>2. CASE Reauthorize
    <2>1. pc' = pc /\ snap' = snap /\ base' = base
      BY <1>2 DEF Reauthorize, call
    <2>2. acc.auth \in Nat
      BY SessionBounds DEF TInv, RestType, Account
    <2>3. acc'.auth = acc.auth + 1
      BY <1>2 DEF Reauthorize
    <2>4. acc'.auth > acc.auth
      BY <2>2, <2>3
    <2> QED
      BY <2>1, <2>4, PlaceKept DEF Onward
  <1>3. CASE BackgroundRefresh
    <2>1. pc' = pc /\ snap' = snap /\ base' = base
      BY <1>3 DEF BackgroundRefresh, call
    <2> QED
      BY <1>3, <2>1, Moves, PlaceKept DEF BackgroundRefresh
  <1>4. CASE Tick \/ Prune \/ UNCHANGED vars
    <2>1. pc' = pc /\ snap' = snap /\ base' = base /\ acc' = acc /\ row' = row
      BY <1>4 DEF Tick, Prune, vars, call, store
    <2> QED
      BY <2>1, PlaceKept DEF Onward
  <1>5. CASE Crash
    BY <1>5 DEF Crash, Spending
  <1> QED
    BY <1>1, <1>2, <1>3, <1>4, <1>5 DEF Next

\* For any calls and authorizations, the reply to a spent key finds the row it is
\* to replace, or the account of the request is gone (autoauth.go:260, pool.go:261,
\* app.go:1604).
THEOREM PlaceHolds == Spec => []SuccessorHasAPlace
  <1>1. Init => PlaceInv
    BY DEF Init, PlaceInv, Spending
  <1>2. TInv /\ PlaceInv => SuccessorHasAPlace
    <2> SUFFICES ASSUME TInv, PlaceInv, NEW c \in Calls, pc[c] \in {"keyreply", "savekey"}
                 PROVE  row = base[c] \/ acc # snap[c]
      BY DEF SuccessorHasAPlace
    <2>1. acc.auth \in Nat
      BY SessionBounds DEF TInv, RestType, Account
    <2>2. row = base[c] \/ Outrun(snap[c])
      BY DEF PlaceInv, Spending
    <2> QED
      BY <2>1, <2>2 DEF Outrun
  <1> QED
    BY <1>1, <1>2, TypeStart, TypeNext, KeyStart, KeyNext, LockStart, LockNext, SnapStart, SnapNext, DiscardNext,
       PlaceNext,
       PTL DEF Spec

--------------------------------------------------------------------------------
(* Which session excuses a refusal                                             *)

\* The session recorded as verified returned its last code when the record says.
VerifiedInv == verified.id # 0 => served[verified.id] = verified.at

LEMMA ServedVerified == ASSUME TInv, NEW c \in Calls, Served(c) PROVE VerifiedInv'
  <1>1. hand[c] \in Holdable /\ served \in [1..MaxSessions -> -1..MaxTime]
    BY DEF TInv, CallType, RestType
  <1>2. verified'.id = hand[c].id /\ verified'.at = now
    BY DEF Served
  <1>3. hand[c].id # 0 => hand[c].id \in 1..MaxSessions
    BY <1>1 DEF Holdable, Session, NoSession
  <1> QED
    BY <1>1, <1>2, <1>3 DEF Served, VerifiedInv

LEMMA VerifiedNext == ASSUME TInv, VerifiedInv, [Next]_vars PROVE VerifiedInv'
  <1>1. CASE verified' = verified /\ served' = served
    BY <1>1 DEF VerifiedInv
  <1>2. ASSUME NEW c \in Calls, Begin(c) \/ Step(c) PROVE VerifiedInv'
    <2>1. CASE LookStep(c)
      BY <1>1, <2>1, LookRest DEF ghosts
    <2>2. CASE UseOK(c) \/ SaveCandidate(c)
      BY <1>1, <2>2, ServedVerified DEF UseOK, SaveCandidate
    <2>3. CASE Login(c) \/ Put(c) \/ Drop(c) \/ Consume(c) \/ SendKey(c) \/ KeyReply(c) \/ SaveKey(c)
      BY <1>1, <2>3 DEF Login, Put, Drop, Consume, SendKey, KeyReply, SaveKey, memory, ghosts
    <2>4. CASE \/ Register(c) \/ Deferred(c) \/ AskBudget(c) \/ Discard(c) \/ ForcedRefresh(c) \/ Expire(c)
      BY <1>1, <2>4 DEF Register, Deferred, AskBudget, Discard, ForcedRefresh, Expire, memory, ghosts
    <2> QED
      BY <1>2, <2>1, <2>2, <2>3, <2>4 DEF Step, LookStep
  <1>3. CASE Reauthorize \/ BackgroundRefresh \/ Tick \/ Prune \/ UNCHANGED vars
    BY <1>1, <1>3 DEF Reauthorize, BackgroundRefresh, Tick, Prune, vars, memory, ghosts
  <1>4. CASE Crash
    BY <1>4 DEF Crash, NotVerified, VerifiedInv
  <1> QED
    BY <1>2, <1>3, <1>4 DEF Next

\* For any calls and windows, a refusal is taken for the AppID's own only when the
\* stored session itself returned a code within the fresh-session window
\* (code_recovery.go:136).
THEOREM SkipHolds == Spec => SkipsOnlyWhatServed
  <1>1. ASSUME TInv, VerifiedInv, [Next]_vars, NEW c \in Calls,
               pc[c] = "rverified", pc'[c] = "done", crashes' = crashes
        PROVE  Cached /\ served[row.id] >= 0 /\ now - served[row.id] < FreshWindow
    <2>1. ASSUME NEW d \in Calls, Begin(d) \/ Step(d) PROVE RecentlyVerified(c)
      <3>1. d = c
        BY <1>1, <2>1, StepApart DEF Apart, Others
      <3>2. SkipRecovery(c) \/ NeedRecovery(c)
        BY <1>1, <2>1, <3>1
           DEF Step, Begin, TakeCodeLock, Check, Lookup, TakeStateLock, Recheck, Login, Put, UseOK, UseFails,
               DropRead, Drop, DropMissed, Consume, SendKey, KeyReply, SaveKey, TakeRecoveryLock, RecoveryCheck,
               Register, Deferred, Probe, FetchTicket, ProbeCode, SaveCandidate, Triage, AskBudget, FetchBuffer,
               Discard, ForcedRefresh, Replay, Expire
      <3>3. ~NeedRecovery(c)
        BY <1>1 DEF NeedRecovery, Goto, TInv, CallType
      <3> QED
        BY <3>2, <3>3 DEF SkipRecovery
    <2>2. ~Crash
      BY <1>1 DEF Crash, TInv, RestType
    <2>3. ~(Reauthorize \/ BackgroundRefresh \/ Tick \/ Prune \/ UNCHANGED vars)
      BY <1>1 DEF Reauthorize, BackgroundRefresh, Tick, Prune, vars, call
    <2>4. RecentlyVerified(c)
      BY <1>1, <2>1, <2>2, <2>3 DEF Next
    <2>5. row \in Session
      BY <1>1, <2>4 DEF RecentlyVerified, Cached, TInv, RestType, Holdable, NoSession
    <2>6. row.id \in 1..MaxSessions /\ row.id # 0
      BY <2>5 DEF Session
    <2>7. verified.at \in 0..MaxTime
      BY <1>1 DEF TInv, RestType
    <2>8. served[row.id] = verified.at
      BY <1>1, <2>4, <2>6 DEF RecentlyVerified, VerifiedInv
    <2> QED
      BY <2>4, <2>7, <2>8 DEF RecentlyVerified
  <1>2. TInv /\ VerifiedInv /\ [Next]_vars =>
          [\A c \in Calls : pc[c] = "rverified" /\ pc'[c] = "done" /\ crashes' = crashes =>
             /\ Cached /\ served[row.id] >= 0 /\ now - served[row.id] < FreshWindow]_vars
    BY <1>1
  <1>3. Init => VerifiedInv
    BY DEF Init, NotVerified, VerifiedInv
  <1> QED
    BY <1>2, <1>3, TypeStart, TypeNext, VerifiedNext, PTL DEF Spec, SkipsOnlyWhatServed
================================================================================
