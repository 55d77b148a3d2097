------------------------------ MODULE CellProofs ------------------------------
(* Proofs about CodeSession, continued: the stored session behaves as the cell  *)
(* of SessionCell, requests retry a bounded number of times, and no request     *)
(* waits for one that waits for it.                                            *)
EXTENDS SuccessorProofs

--------------------------------------------------------------------------------
(* What the row is while a call is about to write it                           *)

\* An expired account has no session.
EmptyWhenExpired == acc.status = "expired" => row = NoSession
\* Only a restricted account is expired for want of a session.
Expiring == \A c \in Calls : pc[c] = "expire" => snap[c].status = "session_only"
\* What is about to be dropped has a key left, or its account can log in again.
Dropping == \A c \in Calls : pc[c] = "drop" =>
              IF base[c] # NoSession THEN ~base[c].spent ELSE snap[c].status = "alive" \/ row = NoSession
\* A call keeps a row in mind only from its read to its write.
Based == \A c \in Calls : base[c] # NoSession => pc[c] \in {"drop", "sendkey", "keyreply", "savekey"}
\* What is about to be replaced has been spent.
Replacing == \A c \in Calls : pc[c] \in {"sendkey", "keyreply", "savekey"} => base[c] # NoSession /\ base[c].spent

--------------------------------------------------------------------------------
(* The session on its way to the store                                         *)

LEMMA HolderFlies ==
    ASSUME LockInv, NEW c \in Calls, Unstored(c) PROVE stateLock = c /\ InFlight = hand[c]
  BY DEF Unstored, LockInv, Locked, InFlight

\* A step after which its call has no session of its own, or still the same one.
LEMMA FlightKept ==
    ASSUME TInv, LockInv, NEW c \in Calls, Apart(c), Unstored(c)' => Unstored(c) /\ hand'[c] = hand[c]
    PROVE  InFlight' \in {InFlight, NoSession}
  <1> SUFFICES ASSUME stateLock' \in Calls, Unstored(stateLock)' PROVE InFlight' = InFlight
    BY DEF InFlight
  <1> DEFINE d == stateLock'
  <1>1. InFlight' = hand'[d]
    BY DEF InFlight
  <1>2. CASE d = c
    <2>1. Unstored(c) /\ hand'[c] = hand[c]
      BY <1>2
    <2> QED
      BY <1>1, <1>2, <2>1, HolderFlies
  <1>3. CASE d # c
    <2>1. pc'[d] = pc[d] /\ snap'[d] = snap[d] /\ hand'[d] = hand[d]
      BY <1>3 DEF Apart, Others
    <2>2. Unstored(d)
      BY <2>1 DEF Unstored, SessionOnly
    <2> QED
      BY <1>1, <2>1, <2>2, HolderFlies
  <1> QED
    BY <1>2, <1>3

\* A step of a call that has none and gets none.
LEMMA FlightApart ==
    ASSUME TInv, LockInv, NEW c \in Calls, Apart(c), ~Unstored(c), ~Unstored(c)',
           stateLock' = stateLock \/ FreeState(c)
    PROVE  InFlight' = InFlight
  <1>1. CASE stateLock = c
    BY <1>1, CallsAssumption DEF FreeState, InFlight
  <1>2. CASE stateLock # c
    <2>1. stateLock' = stateLock
      BY <1>2 DEF FreeState
    <2>2. CASE stateLock \in Calls
      <3>1. /\ pc'[stateLock] = pc[stateLock] /\ snap'[stateLock] = snap[stateLock]
            /\ hand'[stateLock] = hand[stateLock]
        BY <1>2, <2>2 DEF Apart, Others
      <3>2. Unstored(stateLock)' = Unstored(stateLock)
        BY <2>1, <3>1 DEF Unstored, SessionOnly
      <3> QED
        BY <2>1, <3>1, <3>2 DEF InFlight
    <2>3. CASE stateLock \notin Calls
      BY <2>1, <2>3 DEF InFlight
    <2> QED
      BY <2>2, <2>3
  <1> QED
    BY <1>1, <1>2

\* A step by which the holder of the lock parts with what it had.
LEMMA FlightEnds ==
    ASSUME TInv, LockInv, NEW c \in Calls, pc[c] \in Locked, Apart(c), ~Unstored(c)',
           stateLock' = stateLock \/ FreeState(c)
    PROVE  InFlight' = NoSession
  <1>1. stateLock = c
    BY DEF LockInv
  <1> QED
    BY <1>1, CallsAssumption DEF FreeState, InFlight

\* A step that concerns neither account, nor row, nor what is issued.
LEMMA CellKept ==
    ASSUME InFlight' \in {InFlight, NoSession}, acc' = acc, row' = row, issued' = issued
    PROVE  [Cell!Next]_Cell!vars
  BY DEF Cell!Next, Cell!Lose, Cell!NoSession, NoSession, Cell!vars

LEMMA IssuedToCell ==
    ASSUME TInv, LockInv, NEW c \in Calls, Login(c) \/ KeyReply(c)
    PROVE  [Cell!Next]_Cell!vars
  <1>1. Apart(c) /\ acc' = acc /\ row' = row
    BY StepApart DEF Login, KeyReply, Step, store
  <1>2. CASE issued' = issued /\ ~Unstored(c)'
    BY <1>1, <1>2, CellKept, FlightKept
  <1>3. ASSUME NEW s \in Session, s.id = issued + 1, issued < MaxSessions, issued' = issued + 1,
               Hold(c, s), stateLock' = stateLock, Unstored(c)'
        PROVE  Cell!Issue
    <2>1. stateLock = c /\ ~Unstored(c)
      BY DEF LockInv, Locked, Login, KeyReply, Unstored
    <2>2. InFlight = NoSession
      BY <2>1 DEF InFlight
    <2>3. InFlight' = s
      BY <1>3, <2>1 DEF InFlight, Hold, TInv, CallType
    <2> QED
      BY <1>1, <1>3, <2>2, <2>3 DEF Cell!Issue, Cell!Session, Session, Cell!NoSession, NoSession
  <1>4. CASE Login(c)
    <2>1. CASE (Leave(c, "buffer") \/ Finish(c) \/ Unclassified(c)) /\ UNCHANGED issued
      BY <1>2, <2>1, LeaveApart DEF Unclassified, Finish, Pcs, Unstored
    <2>2. CASE Goto(c, "rfetch") /\ Stay /\ UNCHANGED <<hand, base, issued>>
      BY <1>2, <2>2, StayApart DEF Pcs, Unstored
    <2>3. ASSUME NEW spent \in BOOLEAN, Stay, issued < MaxSessions, issued' = issued + 1, snap[c].status = "alive",
                 Hold(c, [id |-> issued + 1, owner |-> snap[c].auth, live |-> TRUE, spent |-> spent]),
                 Goto(c, IF mode[c] = "call" THEN "put" ELSE "rsend"), UNCHANGED <<stateLock, base>>
          PROVE  Cell!Issue
      <3> DEFINE s == [id |-> issued + 1, owner |-> snap[c].auth, live |-> TRUE, spent |-> spent]
      <3>1. s \in Session /\ s.id = issued + 1
        BY <2>3, SessionBounds DEF TInv, CallType, RestType, Session, Account
      <3>2. pc'[c] \in {"put", "rsend"} /\ snap'[c] = snap[c]
        BY <2>3, StayApart DEF Pcs
      <3>3. Unstored(c)'
        BY <2>3, <3>2 DEF Unstored, SessionOnly
      <3> HIDE DEF s
      <3>4. Hold(c, s)
        BY <2>3 DEF s
      <3> QED
        BY <1>3, <2>3, <3>1, <3>3, <3>4
    <2> QED
      BY <1>4, <2>1, <2>2, <2>3 DEF Login, Cell!Next
  <1>5. CASE KeyReply(c)
    <2>1. CASE Finish(c) /\ UNCHANGED issued
      BY <1>2, <2>1, LeaveApart DEF Finish, Pcs, Unstored
    <2>2. ASSUME NEW live \in BOOLEAN, Stay, issued < MaxSessions, issued' = issued + 1,
                 Hold(c, [id |-> issued + 1, owner |-> hand[c].owner, live |-> live, spent |-> FALSE]),
                 Goto(c, "savekey"), UNCHANGED <<stateLock, base>>
          PROVE  Cell!Issue
      <3> DEFINE s == [id |-> issued + 1, owner |-> hand[c].owner, live |-> live, spent |-> FALSE]
      <3>1. hand[c] \in Session
        BY <1>5 DEF KeyReply, TInv, InPlace
      <3>2. s \in Session /\ s.id = issued + 1
        BY <2>2, <3>1, SessionBounds DEF TInv, RestType, Session
      <3>3. Unstored(c)'
        BY <2>2, StayApart DEF Pcs, Unstored
      <3> HIDE DEF s
      <3>4. Hold(c, s)
        BY <2>2 DEF s
      <3> QED
        BY <1>3, <2>2, <3>2, <3>3, <3>4
    <2> QED
      BY <1>5, <2>1, <2>2 DEF KeyReply, Cell!Next
  <1> QED
    BY <1>4, <1>5

\* The three writes that store what the holder of the lock has, in the cell's terms.
LEMMA StoredToCell ==
    ASSUME TInv, KeyInv, OwnInv, LockInv, Replacing, NEW c \in Calls, Put(c) \/ SaveKey(c) \/ SaveCandidate(c)
    PROVE  [Cell!Next]_Cell!vars
  <1>1. Apart(c) /\ acc' = acc /\ issued' = issued /\ pc[c] \in Locked
    BY StepApart DEF Put, SaveKey, SaveCandidate, Step, Locked
  <1>2. stateLock' = stateLock \/ FreeState(c)
    BY DEF Put, SaveKey, SaveCandidate, Finish, Leave
  <1>3. ~Unstored(c)'
    <2>1. CASE /\ SaveKey(c) /\ mode[c] = "recover" /\ Goto(c, "rsend") /\ Stay
               /\ base' = [base EXCEPT ![c] = NoSession] /\ UNCHANGED hand
      <3>1. SessionOnly(snap[c])
        BY <2>1 DEF SaveKey, KeyInv, Recovering
      <3>2. pc'[c] = "rsend" /\ snap'[c] = snap[c]
        BY <2>1, StayApart DEF Pcs
      <3> QED
        BY <3>1, <3>2 DEF Unstored, SessionOnly
    <2>2. CASE \/ Finish(c)
               \/ /\ Goto(c, "use") /\ Stay /\ UNCHANGED hand
                  /\ base' = [base EXCEPT ![c] = NoSession] \/ UNCHANGED base
      BY <2>2, LeaveApart, StayApart DEF Finish, Pcs, Unstored
    <2> QED
      BY <2>1, <2>2 DEF Put, SaveKey, SaveCandidate
  <1>4. InFlight' = NoSession
    BY <1>1, <1>2, <1>3, FlightEnds
  <1>5. CASE row' = row
    BY <1>1, <1>4, <1>5, CellKept
  <1>6. ASSUME Unstored(c), row' = hand[c], acc.status # "expired",
               \/ acc.status = "alive" /\ hand[c].owner = acc.auth
               \/ row # NoSession /\ row.spent /\ hand[c].owner = row.owner
        PROVE  Cell!Store
    <2>1. InFlight = hand[c] /\ hand[c] \in Session
      BY <1>6, HolderFlies DEF KeyInv, Secret, Fresh
    <2>2. hand[c] # NoSession
      BY <2>1 DEF Session, NoSession
    <2> QED
      BY <1>1, <1>4, <1>6, <2>1, <2>2 DEF Cell!Store, Cell!Opened, Cell!Succeeds, Cell!NoSession, NoSession
  <1>7. ASSUME Opening(c), row' = hand[c], Writable(c) PROVE Cell!Store
    <2>1. acc.status = "alive"
      BY <1>7 DEF Writable, TInv, RestType, Account, Statuses
    <2>2. Credentials(snap[c]) = <<"tokens", acc.auth>>
      BY <1>7, <2>1 DEF Writable, SameAuthorization, SameAs, Credentials
    <2>3. snap[c].auth = acc.auth
      BY <2>2 DEF Credentials
    <2>4. Unstored(c)
      BY <1>7 DEF Opening, Unstored
    <2> QED
      BY <1>6, <1>7, <2>1, <2>3, <2>4 DEF OwnInv
  <1>8. CASE Put(c)
    BY <1>5, <1>7, <1>8 DEF Put, Opening, Cell!Next
  <1>9. CASE SaveKey(c)
    <2>1. CASE Replaceable(c) /\ row' = hand[c]
      <3>1. row = base[c] /\ acc.status # "expired" /\ Unstored(c)
        BY <1>9, <2>1 DEF SaveKey, Replaceable, Unstored
      <3>2. base[c] # NoSession /\ base[c].spent /\ hand[c].owner = base[c].owner
        BY <1>9 DEF SaveKey, Replacing, OwnInv, Exchanging
      <3> QED
        BY <1>6, <2>1, <3>1, <3>2 DEF Cell!Next
    <2> QED
      BY <1>5, <1>9, <2>1 DEF SaveKey
  <1>10. CASE SaveCandidate(c)
    <2>1. CASE ~SessionOnly(snap[c]) /\ Writable(c) /\ row' = hand[c]
      BY <1>7, <1>10, <2>1 DEF SaveCandidate, Opening, Cell!Next
    <2> QED
      BY <1>5, <1>10, <2>1 DEF SaveCandidate
  <1> QED
    BY <1>8, <1>9, <1>10

LEMMA DropToCell ==
    ASSUME TInv, LockInv, Dropping, NEW c \in Calls, Drop(c)
    PROVE  [Cell!Next]_Cell!vars
  <1>1. Apart(c) /\ acc' = acc /\ issued' = issued /\ pc[c] = "drop" /\ pc[c] \in Locked
    BY StepApart DEF Drop, Step, Locked
  <1>2. ~Unstored(c) /\ ~Unstored(c)' /\ FreeState(c)
    BY <1>1 DEF Drop, Goto, Unstored, TInv, CallType
  <1>3. InFlight' = InFlight
    BY <1>1, <1>2, FlightApart
  <1>4. CASE row' = row
    BY <1>1, <1>3, <1>4, CellKept
  <1>5. CASE base[c] # NoSession /\ Replaceable(c) /\ row' = [row EXCEPT !.live = FALSE]
    BY <1>1, <1>3, <1>5 DEF Replaceable, Dropping, Cell!Retire, Cell!Next, Cell!NoSession, NoSession
  <1>6. CASE base[c] = NoSession /\ row' = NoSession /\ SameAuthorization(snap[c]) /\ row # NoSession
    <2>1. snap[c].status = "alive"
      BY <1>1, <1>6 DEF Dropping
    <2>2. Credentials(acc) = <<"tokens", snap[c].auth>>
      BY <1>6, <2>1 DEF SameAuthorization, SameAs, Credentials
    <2>3. acc.status = "alive"
      BY <2>2 DEF Credentials
    <2> QED
      BY <1>1, <1>3, <1>6, <2>3 DEF Cell!Clear, Cell!Next, Cell!NoSession, NoSession
  <1> QED
    BY <1>4, <1>5, <1>6 DEF Drop

LEMMA ConsumeToCell ==
    ASSUME TInv, KeyInv, LockInv, NEW c \in Calls, Consume(c) PROVE [Cell!Next]_Cell!vars
  <1>1. Apart(c) /\ acc' = acc /\ issued' = issued /\ pc[c] = "rotate" /\ ~Unstored(c)
    BY StepApart DEF Consume, Step, Unstored
  <1>2. ~Unstored(c)'
    BY LeaveApart, StayApart DEF Consume, Finish, Pcs, Unstored
  <1>3. InFlight' = InFlight
    BY <1>1, <1>2, FlightApart DEF Consume, Finish, Leave
  <1>4. CASE row' = row
    BY <1>1, <1>3, <1>4, CellKept
  <1>5. CASE row = hand[c] /\ acc.status # "expired" /\ row' = [row EXCEPT !.spent = TRUE]
    <2>1. row \in Session /\ ~row.spent
      BY <1>1, <1>5 DEF TInv, InPlace, KeyInv, Unspent
    <2>2. row # NoSession
      BY <2>1 DEF NoSession
    <2> QED
      BY <1>1, <1>3, <1>5, <2>1, <2>2 DEF Cell!Spend, Cell!Next, Cell!NoSession, NoSession
  <1> QED
    BY <1>4, <1>5 DEF Consume

\* The outcomes of a refresh are the cell's, the session on its way left alone.
LEMMA RefreshToCell ==
    ASSUME TInv, InFlight' = InFlight, issued' = issued, Renewed \/ Rejected
    PROVE  Cell!Next
  <1>1. acc \in Account
    BY DEF TInv, RestType
  <1>2. CASE Renewed
    <2>1. acc'.auth = acc.auth + 1 /\ acc'.status = acc.status
      BY <1>1, <1>2 DEF Renewed, Account
    <2> QED
      BY <1>2, <2>1 DEF Renewed, Cell!Renew, Cell!Next
  <1>3. CASE Rejected /\ Reusable
    <2>1. acc'.auth = acc.auth /\ acc'.status = "session_only" /\ row' = row
      BY <1>1, <1>3 DEF Rejected, Account
    <2>2. row.live \/ ~row.spent
      BY <1>3 DEF Reusable, Cached, HasNative
    <2> QED
      BY <1>3, <2>1, <2>2 DEF Rejected, Cell!Restrict, Cell!Usable, Cell!Next
  <1>4. CASE Rejected /\ ~Reusable
    <2>1. acc'.auth = acc.auth /\ acc'.status = "expired" /\ row' = NoSession
      BY <1>1, <1>4 DEF Rejected, Account
    <2>2. ~(row.live \/ ~row.spent)
      BY <1>4 DEF Reusable, Cached, HasNative, NoSession
    <2> QED
      BY <1>4, <2>1, <2>2 DEF Rejected, Cell!GiveUp, Cell!Usable, Cell!Next, Cell!NoSession, NoSession
  <1> QED
    BY <1>2, <1>3, <1>4

\* The writes of requests that hold no lock.
LEMMA UnlockedToCell ==
    ASSUME TInv, LockInv, DiscardInv, Expiring, NEW c \in Calls, Discard(c) \/ ForcedRefresh(c) \/ Expire(c)
    PROVE  [Cell!Next]_Cell!vars
  <1>1. Apart(c) /\ issued' = issued /\ ~Unstored(c)
    BY StepApart DEF Discard, ForcedRefresh, Expire, Step, Unstored
  <1>2. ~Unstored(c)'
    BY LeaveApart, StayApart DEF Discard, ForcedRefresh, Expire, Finish, Pcs, Unstored
  <1>3. InFlight' = InFlight
    BY <1>1, <1>2, FlightApart DEF Discard, ForcedRefresh, Expire, Finish, Leave, memory
  <1>4. CASE acc' = acc /\ row' = row
    BY <1>1, <1>3, <1>4, CellKept
  <1>5. CASE Discard(c) /\ SameAuthorization(snap[c])
    <2>1. snap[c].status = "alive"
      BY <1>5 DEF Discard, DiscardInv, Discarding
    <2>2. Credentials(acc) = <<"tokens", snap[c].auth>>
      BY <1>5, <2>1 DEF SameAuthorization, SameAs, Credentials
    <2>3. acc.status = "alive"
      BY <2>2 DEF Credentials
    <2> QED
      BY <1>1, <1>3, <1>5, <2>3 DEF Discard, Cell!Clear, Cell!Next, Cell!NoSession, NoSession
  <1>6. CASE ForcedRefresh(c)
    BY <1>1, <1>3, <1>4, <1>6, RefreshToCell DEF ForcedRefresh, store
  <1>7. CASE Expire(c) /\ acc.status = snap[c].status /\ acc' = [acc EXCEPT !.status = "expired"] /\ row' = NoSession
    <2>1. acc.status = "session_only"
      BY <1>7 DEF Expire, Expiring
    <2>2. acc'.auth = acc.auth /\ acc'.status = "expired"
      BY <1>7 DEF TInv, RestType, Account
    <2> QED
      BY <1>1, <1>3, <1>7, <2>1, <2>2 DEF Cell!GiveUp, Cell!Next, Cell!NoSession, NoSession
  <1> QED
    BY <1>4, <1>5, <1>6, <1>7 DEF Discard, Expire, store

\* Every step of a request is a step of the cell, or none.
LEMMA RequestToCell ==
    ASSUME TInv, KeyInv, OwnInv, LockInv, DiscardInv, Expiring, Dropping, Replacing,
           NEW c \in Calls, Begin(c) \/ Step(c)
    PROVE  [Cell!Next]_Cell!vars
  <1>1. Apart(c)
    BY StepApart
  <1>2. CASE Elsewhere(c) /\ UNCHANGED <<store, issued>>
    <2>1. ~Unstored(c)'
      BY <1>2 DEF Elsewhere, Unstored
    <2> QED
      BY <1>1, <1>2, <2>1, FlightKept, CellKept DEF store
  <1>3. CASE LookStep(c) /\ ~ProbeCode(c)
    <2>1. Elsewhere(c)
      BY <1>3, ElsewhereFirst, ElsewhereNext DEF LookStep
    <2> QED
      BY <1>2, <1>3, <2>1, LookRest
  <1>4. CASE ProbeCode(c)
    <2>1. UNCHANGED <<store, issued>>
      BY <1>4 DEF ProbeCode
    <2>2. Unstored(c)' => Unstored(c) /\ hand'[c] = hand[c]
      BY <1>4, LeaveApart, StayApart DEF ProbeCode, Finish, Pcs, Unstored, SessionOnly
    <2> QED
      BY <1>1, <2>1, <2>2, FlightKept, CellKept DEF store
  <1>5. CASE UseOK(c) \/ Register(c) \/ Deferred(c) \/ AskBudget(c)
    <2>1. Elsewhere(c)
      BY <1>5, ElsewhereNext, ElsewhereLast
    <2> QED
      BY <1>2, <1>5, <2>1 DEF UseOK, Register, Deferred, AskBudget
  <1>6. CASE SendKey(c)
    <2>1. UNCHANGED <<store, issued>> /\ ~Unstored(c)'
      BY <1>6, StayApart DEF SendKey, Pcs, Unstored
    <2> QED
      BY <1>1, <2>1, FlightKept, CellKept DEF store
  <1>7. CASE Login(c) \/ KeyReply(c)
    BY <1>7, IssuedToCell
  <1>8. CASE Put(c) \/ SaveKey(c) \/ SaveCandidate(c)
    BY <1>8, StoredToCell
  <1>9. CASE Drop(c) \/ Consume(c)
    BY <1>9, DropToCell, ConsumeToCell
  <1>10. CASE Discard(c) \/ ForcedRefresh(c) \/ Expire(c)
    BY <1>10, UnlockedToCell
  <1> QED
    BY <1>3, <1>4, <1>5, <1>6, <1>7, <1>8, <1>9, <1>10 DEF Step, LookStep

\* And so is every step around the requests.
LEMMA AroundToCell ==
    ASSUME TInv, Reauthorize \/ BackgroundRefresh \/ Tick \/ Prune \/ Crash \/ UNCHANGED vars
    PROVE  [Cell!Next]_Cell!vars
  <1>1. CASE Crash
    <2>1. stateLock' \notin Calls
      BY <1>1, CallsAssumption DEF Crash
    <2>2. InFlight' = NoSession
      BY <2>1 DEF InFlight
    <2> QED
      BY <1>1, <2>2, CellKept DEF Crash, store
  <1>2. CASE ~Crash
    <2>1. UNCHANGED <<memory, call, issued>>
      BY <1>2 DEF Reauthorize, BackgroundRefresh, Tick, Prune, vars
    <2>2. InFlight' = InFlight
      BY <2>1 DEF memory, call, InFlight, Unstored, SessionOnly
    <2>3. CASE Tick \/ Prune \/ UNCHANGED vars
      BY <2>1, <2>2, <2>3, CellKept DEF Tick, Prune, vars, store
    <2>4. CASE Reauthorize
      BY <2>1, <2>2, <2>4 DEF Reauthorize, Cell!Scan, Cell!Next, Cell!NoSession, NoSession
    <2>5. CASE BackgroundRefresh
      BY <2>1, <2>2, <2>5, RefreshToCell DEF BackgroundRefresh
    <2> QED
      BY <1>2, <2>3, <2>4, <2>5
  <1> QED
    BY <1>1, <1>2

LEMMA StartToCell == Init => Cell!Init
  <1> SUFFICES ASSUME Init PROVE Cell!Init
    OBVIOUS
  <1>1. InFlight = NoSession
    BY CallsAssumption DEF Init, InFlight
  <1>2. acc.auth = 1 /\ acc.status \in {"alive", "session_only"}
    BY DEF Init
  <1>3. issued = row.id /\ \E live, spent \in BOOLEAN :
              row \in {NoSession, [id |-> 1, owner |-> 1, live |-> live, spent |-> spent]}
    BY DEF Init
  <1> QED
    BY <1>1, <1>2, <1>3 DEF Cell!Init, Cell!NoSession, NoSession

--------------------------------------------------------------------------------
(* Those facts last                                                            *)

\* Only these steps put a row into a call's mind.
LEMMA BaseMoves ==
    ASSUME TInv, Based, NEW c \in Calls, Begin(c) \/ Step(c)
    PROVE  base'[c] = NoSession \/ DropRead(c) \/ Consume(c) \/ SendKey(c) \/ KeyReply(c)
  <1>0. base \in [Calls -> Holdable]
    BY DEF TInv, CallType
  <1>1. ASSUME NEW label, Leave(c, label) PROVE base'[c] = NoSession
    BY <1>0, <1>1 DEF Leave
  <1>2. ASSUME base' = base, pc[c] \notin {"drop", "sendkey", "keyreply", "savekey"} PROVE base'[c] = NoSession
    BY <1>2 DEF Based
  <1>3. CASE Begin(c) \/ TakeCodeLock(c) \/ TakeStateLock(c) \/ NeedRecovery(c) \/ Discard(c) \/ Replay(c)
    BY <1>2, <1>3 DEF Begin, TakeCodeLock, TakeStateLock, NeedRecovery, Discard, Replay
  <1>4. CASE Check(c) \/ Lookup(c) \/ Recheck(c) \/ Login(c) \/ Put(c)
    BY <1>1, <1>2, <1>4 DEF Check, Lookup, Recheck, Login, Put, Unclassified, Finish, Unusable
  <1>5. CASE UseOK(c) \/ UseFails(c) \/ DropMissed(c) \/ SkipRecovery(c) \/ Deferred(c) \/ SaveCandidate(c) \/ Expire(c)
    BY <1>1, <1>2, <1>5 DEF UseOK, UseFails, DropMissed, SkipRecovery, Deferred, SaveCandidate, Expire, Finish,
                            Unclassified
  <1>6. CASE Drop(c) \/ SaveKey(c)
    BY <1>0, <1>1, <1>6 DEF Drop, SaveKey, Finish
  <1>7. CASE TakeRecoveryLock(c) \/ RecoveryCheck(c) \/ Register(c) \/ Probe(c) \/ FetchTicket(c) \/ ProbeCode(c)
    BY <1>1, <1>2, <1>7 DEF TakeRecoveryLock, RecoveryCheck, Register, Probe, FetchTicket, ProbeCode, Finish, Unusable
  <1>8. CASE Triage(c) \/ AskBudget(c) \/ FetchBuffer(c) \/ ForcedRefresh(c)
    BY <1>1, <1>2, <1>8 DEF Triage, AskBudget, FetchBuffer, ForcedRefresh, Finish
  <1> QED
    BY <1>3, <1>4, <1>5, <1>6, <1>7, <1>8 DEF Step

\* Only these steps find a session that cannot be used, or one to drop.
LEMMA Verdicts ==
    ASSUME TInv, NEW c \in Calls, Begin(c) \/ Step(c)
    PROVE  /\ pc'[c] = "expire" => Lookup(c) \/ Recheck(c) \/ DropRead(c) \/ Probe(c)
           /\ pc'[c] = "drop" => DropRead(c)
  <1>1. CASE Begin(c) \/ Replay(c) \/ TakeCodeLock(c) \/ Drop(c)
    BY <1>1 DEF TInv, CallType, Begin, Replay, TakeCodeLock, Drop, Goto, Enter
  <1>2. CASE Check(c) \/ TakeStateLock(c) \/ Login(c) \/ Put(c)
    BY <1>2, LeaveApart, StayApart DEF Check, TakeStateLock, Behind, Login, Put, Unclassified, Finish, Pcs
  <1>3. CASE UseOK(c) \/ UseFails(c) \/ DropMissed(c) \/ Consume(c) \/ SendKey(c)
    BY <1>3, LeaveApart, StayApart DEF UseOK, UseFails, DropMissed, Consume, SendKey, Unclassified, Finish, Pcs
  <1>4. CASE KeyReply(c) \/ SaveKey(c)
    BY <1>4, LeaveApart, StayApart DEF KeyReply, SaveKey, Finish, Pcs
  <1>5. CASE TakeRecoveryLock(c)
    <2>1. Goto(c, "rstatelock") => pc'[c] = "rstatelock"
      BY DEF TInv, CallType, Goto
    <2> QED
      BY <1>5, <2>1, LeaveApart DEF TakeRecoveryLock, Finish, Pcs
  <1>6. CASE RecoveryCheck(c) \/ SkipRecovery(c) \/ NeedRecovery(c)
    BY <1>6, LeaveApart, StayApart DEF RecoveryCheck, SkipRecovery, NeedRecovery, memory, Finish, Pcs
  <1>7. CASE FetchTicket(c) \/ FetchBuffer(c)
    <2>1. \A label \in Pcs : Goto(c, label) => pc'[c] = label
      BY DEF TInv, CallType, Goto
    <2>2. \A label \in Pcs : Leave(c, label) => pc'[c] = label
      BY LeaveApart
    <2>3. CASE FetchTicket(c)
      BY <2>1, <2>2, <2>3 DEF FetchTicket, Finish, Pcs
    <2>4. CASE FetchBuffer(c)
      BY <2>1, <2>2, <2>4 DEF FetchBuffer, Enter, Finish, Pcs
    <2> QED
      BY <1>7, <2>3, <2>4
  <1>8. CASE Register(c) \/ Deferred(c) \/ ProbeCode(c) \/ SaveCandidate(c)
    BY <1>8, LeaveApart, StayApart DEF Register, Deferred, ProbeCode, SaveCandidate, Finish, Pcs
  <1>9. CASE Triage(c) \/ AskBudget(c)
    BY <1>9, LeaveApart, StayApart DEF Triage, AfterTriage, AskBudget, Permitted, Finish, Pcs
  <1>10. CASE Discard(c) \/ ForcedRefresh(c) \/ Expire(c)
    BY <1>10, LeaveApart, StayApart DEF Discard, ForcedRefresh, Expire, Finish, Pcs
  <1>11. CASE Lookup(c) \/ Recheck(c) \/ Probe(c)
    BY <1>11, LeaveApart, StayApart DEF Lookup, Recheck, Probe, Unusable, Finish, Pcs
  <1> QED
    BY <1>1, <1>2, <1>3, <1>4, <1>5, <1>6, <1>7, <1>8, <1>9, <1>10, <1>11 DEF Step

LEMMA BasedNext == ASSUME TInv, KeyInv, Based, [Next]_vars PROVE Based'
  <1>1. ASSUME NEW c \in Calls, Begin(c) \/ Step(c) PROVE Based'
    <2> SUFFICES ASSUME NEW d \in Calls, base'[d] # NoSession
                 PROVE  pc'[d] \in {"drop", "sendkey", "keyreply", "savekey"}
      BY DEF Based
    <2>1. CASE d # c
      BY <1>1, <2>1, StepApart DEF Apart, Others, Based
    <2>2. CASE d = c
      <3>0. base \in [Calls -> Holdable]
        BY DEF TInv, CallType
      <3>1. \A label : Leave(c, label) => base'[c] = NoSession
        BY <3>0 DEF Leave
      <3>2. CASE DropRead(c)
        <4>1. Goto(c, "drop")
          BY <2>2, <3>1, <3>2, BaseMoves DEF DropRead, Finish, Unusable
        <4> QED
          BY <2>2, <4>1 DEF Goto, TInv, CallType
      <3>3. CASE Consume(c) \/ SendKey(c) \/ KeyReply(c)
        <4>1. Goto(c, "sendkey") \/ Goto(c, "keyreply") \/ Goto(c, "savekey") \/ base'[c] = base[c]
          BY <3>1, <3>3, <2>2 DEF Consume, SendKey, KeyReply, Finish
        <4>2. ~Finish(c)
          BY <2>2, <3>1 DEF Finish
        <4> QED
          BY <2>2, <3>3, <4>2 DEF Consume, SendKey, KeyReply, Goto, TInv, CallType
      <3> QED
        BY <1>1, <2>2, <3>2, <3>3, BaseMoves
    <2> QED
      BY <2>1, <2>2
  <1>2. CASE Reauthorize \/ BackgroundRefresh \/ Tick \/ Prune \/ UNCHANGED vars
    BY <1>2 DEF Reauthorize, BackgroundRefresh, Tick, Prune, vars, call, Based
  <1>3. CASE Crash
    BY <1>3 DEF Crash, Based
  <1> QED
    BY <1>1, <1>2, <1>3 DEF Next

LEMMA ReplacingNext == ASSUME TInv, KeyInv, Replacing, [Next]_vars PROVE Replacing'
  <1>1. ASSUME NEW c \in Calls, Begin(c) \/ Step(c) PROVE Replacing'
    <2> SUFFICES ASSUME NEW d \in Calls, pc'[d] \in {"sendkey", "keyreply", "savekey"}
                 PROVE  base'[d] # NoSession /\ base'[d].spent
      BY DEF Replacing
    <2>1. CASE d # c
      BY <1>1, <2>1, StepApart DEF Apart, Others, Replacing
    <2>2. CASE d = c
      <3>1. CASE Consume(c)
        <4>1. ~Finish(c)
          BY <2>2, LeaveApart DEF Finish, Pcs
        <4>2. row \in Session /\ row' = [row EXCEPT !.spent = TRUE] /\ base'[c] = row'
          BY <3>1, <4>1 DEF Consume, TInv, CallType, InPlace
        <4>3. row' \in Session /\ row'.spent
          BY <4>2 DEF Session
        <4> QED
          BY <2>2, <4>2, <4>3 DEF Session, NoSession
      <3>2. CASE SendKey(c) \/ KeyReply(c)
        <4>1. ~Finish(c)
          BY <2>2, LeaveApart DEF Finish, Pcs
        <4> QED
          BY <2>2, <3>2, <4>1 DEF SendKey, KeyReply, Replacing
      <3> QED
        BY <1>1, <2>2, <3>1, <3>2, Spenders DEF Spending
    <2> QED
      BY <2>1, <2>2
  <1>2. CASE Reauthorize \/ BackgroundRefresh \/ Tick \/ Prune \/ UNCHANGED vars
    BY <1>2 DEF Reauthorize, BackgroundRefresh, Tick, Prune, vars, call, Replacing
  <1>3. CASE Crash
    BY <1>3 DEF Crash, Replacing
  <1> QED
    BY <1>1, <1>2, <1>3 DEF Next

\* The account a call finds restricted is the one it was called with.
LEMMA RestrictedSame ==
    ASSUME TInv, SnapInv, NEW c \in Calls, round[c] = 1, SessionOnly(acc), SameAuthorization(snap[c])
    PROVE  snap[c].status = "session_only"
  <1>1. snap[c].status \in Statuses
    BY DEF TInv, CallType, Account
  <1>2. snap[c].status # "alive"
    BY DEF SessionOnly, SameAuthorization, SameAs, Credentials
  <1> QED
    BY <1>1, <1>2 DEF SnapInv, Statuses

LEMMA ExpiringNext == ASSUME TInv, SnapInv, Expiring, [Next]_vars PROVE Expiring'
  <1>1. ASSUME NEW c \in Calls, Begin(c) \/ Step(c) PROVE Expiring'
    <2> SUFFICES ASSUME NEW d \in Calls, pc'[d] = "expire" PROVE snap'[d].status = "session_only"
      BY DEF Expiring
    <2>1. CASE d # c
      BY <1>1, <2>1, StepApart DEF Apart, Others, Expiring
    <2>2. CASE d = c
      <3>1. \A label \in Pcs : Goto(c, label) => pc'[c] = label
        BY DEF TInv, CallType, Goto
      <3>2. Unusable(c) => snap' = snap /\ round[c] = 1
        BY <2>2, LeaveApart DEF Unusable, Leave, Pcs
      <3>3. ~Finish(c)
        BY <2>2, LeaveApart DEF Finish, Pcs
      <3>4. CASE Lookup(c)
        <4>1. SessionOnly(snap[c]) /\ Unusable(c)
          BY <2>2, <3>1, <3>4 DEF Lookup, Pcs
        <4> QED
          BY <2>2, <3>2, <4>1 DEF SessionOnly
      <3>5. CASE Probe(c)
        <4>1. SessionOnly(snap[c]) /\ Unusable(c)
          BY <2>2, <3>1, <3>5 DEF Probe, Pcs
        <4> QED
          BY <2>2, <3>2, <4>1 DEF SessionOnly
      <3>6. CASE Recheck(c) \/ DropRead(c)
        <4>1. SameAuthorization(snap[c]) /\ SessionOnly(acc) /\ Unusable(c)
          BY <2>2, <3>1, <3>3, <3>6 DEF Recheck, DropRead, Pcs
        <4> QED
          BY <2>2, <3>2, <4>1, RestrictedSame
      <3> QED
        BY <1>1, <2>2, <3>4, <3>5, <3>6, Verdicts
    <2> QED
      BY <2>1, <2>2
  <1>2. CASE Reauthorize \/ BackgroundRefresh \/ Tick \/ Prune \/ UNCHANGED vars
    BY <1>2 DEF Reauthorize, BackgroundRefresh, Tick, Prune, vars, call, Expiring
  <1>3. CASE Crash
    BY <1>3 DEF Crash, Expiring
  <1> QED
    BY <1>1, <1>2, <1>3 DEF Next

LEMMA DroppingNext ==
    ASSUME TInv, LockInv, EmptyWhenExpired, Based, Dropping, [Next]_vars
    PROVE  Dropping'
  <1> SUFFICES ASSUME NEW d \in Calls, pc'[d] = "drop"
               PROVE  IF base'[d] # NoSession THEN ~base'[d].spent
                                              ELSE snap'[d].status = "alive" \/ row' = NoSession
    BY DEF Dropping
  <1>1. ASSUME pc'[d] = pc[d], base'[d] = base[d], snap'[d] = snap[d], row' \in {row, NoSession}
        PROVE  IF base'[d] # NoSession THEN ~base'[d].spent
                                       ELSE snap'[d].status = "alive" \/ row' = NoSession
    BY <1>1 DEF Dropping
  <1>2. ASSUME NEW c \in Calls, Begin(c) \/ Step(c)
        PROVE  IF base'[d] # NoSession THEN ~base'[d].spent
                                       ELSE snap'[d].status = "alive" \/ row' = NoSession
    <2>1. CASE d # c
      <3>1. pc'[d] = pc[d] /\ base'[d] = base[d] /\ snap'[d] = snap[d]
        BY <1>2, <2>1, StepApart DEF Apart, Others
      <3>2. pc[c] \notin Locked
        BY <2>1, <3>1 DEF LockInv, Locked
      <3>3. row' \in {row, NoSession}
        BY <1>2, <3>2, RowMoves DEF Discard, Expire, ForcedRefresh, Renewed, Rejected, store
      <3> QED
        BY <1>1, <3>1, <3>3
    <2>2. CASE d = c
      <3>1. DropRead(c)
        BY <1>2, <2>2, Verdicts
      <3>2. ~Finish(c) /\ ~Unusable(c)
        BY <2>2, LeaveApart DEF Finish, Unusable, Pcs
      <3>3. row' = row /\ snap' = snap /\ SameAuthorization(snap[c])
        BY <3>1, <3>2 DEF DropRead, Stay, store
      <3>4. CASE HasNative /\ base' = [base EXCEPT ![c] = row]
        BY <2>2, <3>4 DEF HasNative, TInv, CallType
      <3>5. CASE ~HasNative /\ ~SessionOnly(acc) /\ base' = base
        <4>1. base'[c] = NoSession
          BY <3>1, <3>5 DEF DropRead, Based
        <4>2. acc.status = "expired" => row = NoSession
          BY DEF EmptyWhenExpired
        <4>3. ASSUME acc.status = "alive" PROVE snap[c].status = "alive"
          <5>1. Credentials(snap[c]) = <<"tokens", acc.auth>>
            BY <3>3, <4>3 DEF SameAuthorization, SameAs, Credentials
          <5> QED
            BY <5>1 DEF Credentials
        <4>4. acc.status \in {"alive", "expired"}
          BY <3>5 DEF SessionOnly, TInv, RestType, Account, Statuses
        <4> QED
          BY <2>2, <3>3, <4>1, <4>2, <4>3, <4>4
      <3> QED
        BY <3>1, <3>2, <3>4, <3>5 DEF DropRead
    <2> QED
      BY <2>1, <2>2
  <1>3. CASE Reauthorize \/ BackgroundRefresh
    BY <1>1, <1>3 DEF Reauthorize, BackgroundRefresh, Renewed, Rejected, call
  <1>4. CASE Tick \/ Prune \/ UNCHANGED vars
    BY <1>1, <1>4 DEF Tick, Prune, vars, call, store
  <1>5. CASE Crash
    BY <1>5 DEF Crash
  <1> QED
    BY <1>2, <1>3, <1>4, <1>5 DEF Next

\* What the steps of a request and those around them have in common.
LEMMA NextToCell ==
    ASSUME TInv, KeyInv, OwnInv, LockInv, DiscardInv, Expiring, Dropping, Replacing, [Next]_vars
    PROVE  [Cell!Next]_Cell!vars
  BY RequestToCell, AroundToCell DEF Next

LEMMA EmptyNext == ASSUME EmptyWhenExpired, [Cell!Next]_Cell!vars PROVE EmptyWhenExpired'
  <1>1. CASE Cell!Scan \/ Cell!Renew \/ Cell!Restrict \/ Cell!GiveUp
    BY <1>1 DEF Cell!Scan, Cell!Renew, Cell!Restrict, Cell!GiveUp, EmptyWhenExpired, Cell!NoSession, NoSession
  <1>2. CASE Cell!Issue \/ Cell!Lose \/ Cell!Store \/ UNCHANGED Cell!vars
    BY <1>2 DEF Cell!Issue, Cell!Lose, Cell!Store, Cell!vars, EmptyWhenExpired
  <1>3. CASE Cell!Spend \/ Cell!Retire \/ Cell!Clear
    BY <1>3 DEF Cell!Spend, Cell!Retire, Cell!Clear, EmptyWhenExpired, Cell!NoSession, NoSession
  <1> QED
    BY <1>1, <1>2, <1>3 DEF Cell!Next

\* For any calls, authorizations and restarts, the store is a cell that takes a
\* session once, the newest one, from its own authorization or its spent
\* predecessor, and a restricted account loses it only as a whole
\* (account_rebind.go:138, native_session.go:12, pool.go:260, app.go:1604).
THEOREM CellHolds == Spec => CellSpec
  <1> DEFINE CellStep == EmptyWhenExpired /\ Expiring /\ Dropping /\ Based /\ Replacing
  <1>1. Init => CellStep
    BY DEF Init, EmptyWhenExpired, Expiring, Dropping, Based, Replacing
  <1>2. TInv /\ KeyInv /\ OwnInv /\ LockInv /\ SnapInv /\ DiscardInv /\ CellStep /\ [Next]_vars
          => CellStep' /\ [Cell!Next]_Cell!vars
    BY NextToCell, EmptyNext, ExpiringNext, DroppingNext, BasedNext, ReplacingNext
  <1>3. Init => OwnInv /\ SnapInv /\ DiscardInv
    BY SnapStart DEF Init, OwnInv, Opening, Exchanging
  <1> HIDE DEF CellStep
  <1> QED
    BY <1>1, <1>2, <1>3, TypeStart, TypeNext, KeyStart, KeyNext, OwnNext, LockStart, LockNext, SnapNext, DiscardNext,
       StartToCell, PTL DEF Spec, CellSpec, Cell!Spec

--------------------------------------------------------------------------------
(* How often a request tries again                                             *)

\* Where a call is inside one try, counted down; the places a try may pass more
\* than once count from where it passes them.
Tries == {"check", "lookup", "statelock", "recheck", "login", "rotate", "sendkey", "keyreply", "savekey", "put", "use"}
Place(p) == CASE p = "idle" -> 200 [] p = "codelock" -> 70
              [] p = "check" -> 9 [] p = "lookup" -> 8 [] p = "statelock" -> 7 [] p = "recheck" -> 6
              [] p = "login" -> 5 [] p = "rotate" -> 4 [] p = "sendkey" -> 3 [] p = "keyreply" -> 2
              [] p \in {"savekey", "put"} -> 1 [] p = "use" -> 0
              [] p = "droplock" -> 49 [] p = "dropread" -> 48 [] p = "drop" -> 47
              [] p = "rcodelock" -> 24 [] p = "rstatelock" -> 23 [] p = "rcheck" -> 22 [] p = "rverified" -> 21
              [] p = "register" -> 20 [] p = "probe" -> 19 [] p = "rfetch" -> 17
              [] p = "rsend" -> 11 [] p = "rsave" -> 10
              [] p = "buffer" -> 8 [] p = "ask" -> 7 [] p \in {"fetch", "unclassified"} -> 6
              [] p \in {"gate", "refused"} -> 5 [] p \in {"discard", "ticketgate"} -> 4
              [] p = "refresh" -> 3 [] p = "replay" -> 2 [] p = "expire" -> 1 [] p = "done" -> 0
Stage(p, m, a) == Place(p) + (IF p \notin Tries THEN 0
                              ELSE IF m = "recover" THEN (IF a THEN 11 ELSE 13)
                              ELSE IF a THEN 30 ELSE 50)
Rank(c) == Stage(pc[c], mode[c], again[c]) + (IF round[c] = 1 THEN 100 ELSE 0)

\* Every step of a request brings it nearer its end, and nothing throws it back:
\* one rebuild after a refused session, one fresh ticket, one replay
\* (pool.go:307, code_recovery.go:205, app.go:1543).
RetriesBounded == [][\A c \in Calls : Rank(c)' <= Rank(c) /\ (Step(c) => Rank(c)' < Rank(c))]_vars

Repairing == {"buffer", "unclassified", "refused", "ask", "fetch", "gate", "ticketgate", "discard", "refresh", "replay"}
RecoveryOnly == {"rstatelock", "rcheck", "rverified", "register", "probe", "rfetch"}
\* Only the first try is repaired, and only a recovery is where a recovery works.
TryInv == \A c \in Calls : /\ pc[c] \in Repairing => round[c] = 1
                           /\ pc[c] \in RecoveryOnly => mode[c] = "recover"

LEMMA StageBounds ==
    ASSUME NEW p \in Pcs, NEW m, NEW a
    PROVE  Place(p) \in 0..200 /\ Stage(p, m, a) \in 0..200
  <1>1. Place(p) \in 0..200
    BY DEF Place, Pcs
  <1>2. p \in Tries => Place(p) \in 0..9
    BY DEF Place, Tries
  <1> QED
    BY <1>1, <1>2 DEF Stage

\* What a step of one call leaves of the others' tries.
Alone(c) == \A d \in Calls \ {c} : again'[d] = again[d] /\ round'[d] = round[d]
LEMMA StepAlone == ASSUME TInv, NEW c \in Calls, Begin(c) \/ Step(c) PROVE Alone(c)
  <1>0. again \in [Calls -> BOOLEAN] /\ round \in [Calls -> 1..2]
    BY DEF TInv, CallType
  <1>1. ASSUME NEW label, Leave(c, label) PROVE Alone(c)
    BY <1>0, <1>1 DEF Leave, Alone
  <1>2. CASE Stay \/ UNCHANGED <<again, round>>
    BY <1>2 DEF Stay, Alone
  <1>3. CASE Begin(c) \/ TakeStateLock(c) \/ NeedRecovery(c) \/ Discard(c) \/ SendKey(c)
    BY <1>2, <1>3 DEF Begin, TakeStateLock, NeedRecovery, Discard, SendKey
  <1>4. CASE TakeCodeLock(c) \/ Replay(c) \/ Drop(c)
    BY <1>0, <1>4 DEF TakeCodeLock, Replay, Drop, Alone
  <1>5. CASE Check(c) \/ Lookup(c) \/ Recheck(c) \/ Login(c) \/ Put(c)
    BY <1>1, <1>2, <1>5 DEF Check, Lookup, Recheck, Login, Put, Unclassified, Finish, Unusable
  <1>6. CASE UseOK(c) \/ UseFails(c) \/ DropMissed(c) \/ SkipRecovery(c) \/ Deferred(c) \/ SaveCandidate(c) \/ Expire(c)
    BY <1>1, <1>2, <1>6 DEF UseOK, UseFails, DropMissed, SkipRecovery, Deferred, SaveCandidate, Expire, Finish,
                            Unclassified
  <1>7. CASE DropRead(c) \/ Consume(c) \/ KeyReply(c) \/ SaveKey(c)
    BY <1>1, <1>2, <1>7 DEF DropRead, Consume, KeyReply, SaveKey, Finish, Unusable
  <1>8. CASE TakeRecoveryLock(c) \/ RecoveryCheck(c) \/ Register(c) \/ Probe(c) \/ ProbeCode(c)
    BY <1>1, <1>2, <1>8 DEF TakeRecoveryLock, RecoveryCheck, Register, Probe, ProbeCode, Finish, Unusable
  <1>9. CASE FetchTicket(c) \/ FetchBuffer(c)
    BY <1>0, <1>1, <1>2, <1>9 DEF FetchTicket, FetchBuffer, Finish, Alone
  <1>10. CASE Triage(c) \/ AskBudget(c) \/ ForcedRefresh(c)
    BY <1>1, <1>2, <1>10 DEF Triage, AskBudget, ForcedRefresh, Finish
  <1> QED
    BY <1>3, <1>4, <1>5, <1>6, <1>7, <1>8, <1>9, <1>10 DEF Step

\* What the two ways on make of a call's try.
LEMMA LeaveTry ==
    ASSUME TInv, NEW c \in Calls, NEW label \in Pcs, Leave(c, label)
    PROVE  pc'[c] = label /\ mode'[c] = "call" /\ round'[c] = round[c]
  BY DEF TInv, CallType, Leave, Goto
LEMMA StayTry ==
    ASSUME TInv, NEW c \in Calls, NEW label \in Pcs, Goto(c, label), Stay
    PROVE  pc'[c] = label /\ mode'[c] = mode[c] /\ again'[c] = again[c] /\ round'[c] = round[c]
  BY DEF TInv, CallType, Goto, Stay

\* The conditions of TryInv, for one call after its step.
Trying(c) == /\ pc[c] \in Repairing => round[c] = 1
             /\ pc[c] \in RecoveryOnly => mode[c] = "recover"
LEMMA TryStep ==
    ASSUME TInv, TryInv, NEW c \in Calls, Begin(c) \/ Step(c) PROVE Trying(c)'
  <1>0. Trying(c)
    BY DEF TryInv, Trying
  <1>1. ASSUME NEW label \in Pcs \ RecoveryOnly, Leave(c, label), label \in Repairing => round[c] = 1
        PROVE  Trying(c)'
    BY <1>1, LeaveTry DEF Trying
  <1>2. Finish(c) \/ Unusable(c) => Trying(c)'
    BY <1>1 DEF Finish, Unusable, Pcs, Repairing, RecoveryOnly
  <1>3. ASSUME NEW label \in Pcs, Goto(c, label), Stay,
               label \in Repairing => pc[c] \in Repairing,
               label \in RecoveryOnly => pc[c] \in RecoveryOnly \/ mode[c] = "recover"
        PROVE  Trying(c)'
    BY <1>0, <1>3, StayTry DEF Trying
  <1>4. ASSUME NEW label \in Pcs \ (Repairing \cup RecoveryOnly), Goto(c, label) PROVE Trying(c)'
    BY <1>4 DEF TInv, CallType, Goto, Trying
  <1>5. CASE Begin(c) \/ TakeCodeLock(c) \/ Replay(c) \/ Drop(c)
    BY <1>4, <1>5 DEF Begin, TakeCodeLock, Replay, Drop, Enter, Pcs, Repairing, RecoveryOnly
  <1>6. CASE Check(c) \/ Lookup(c) \/ Recheck(c) \/ Put(c) \/ UseOK(c)
    BY <1>2, <1>4, <1>6 DEF Check, Lookup, Recheck, Put, UseOK, Pcs, Repairing, RecoveryOnly
  <1>7. CASE TakeStateLock(c)
    <2>1. ASSUME pc[c] = "rstatelock" PROVE mode[c] = "recover"
      BY <1>0, <2>1 DEF Trying, RecoveryOnly
    <2> QED
      BY <1>3, <1>4, <1>7, <2>1 DEF TakeStateLock, Behind, Pcs, Repairing, RecoveryOnly
  <1>8. CASE Login(c)
    BY <1>1, <1>2, <1>3, <1>4, <1>8 DEF Login, Unclassified, Pcs, Repairing, RecoveryOnly
  <1>9. CASE UseFails(c)
    BY <1>1, <1>2, <1>4, <1>9 DEF UseFails, Unclassified, Pcs, Repairing, RecoveryOnly
  <1>10. CASE DropRead(c) \/ DropMissed(c) \/ Consume(c) \/ SendKey(c) \/ KeyReply(c) \/ SaveKey(c)
    BY <1>2, <1>4, <1>10 DEF DropRead, DropMissed, Consume, SendKey, KeyReply, SaveKey, Pcs, Repairing, RecoveryOnly
  <1>11. CASE TakeRecoveryLock(c)
    <2>1. CASE mode' = [mode EXCEPT ![c] = "recover"] /\ Goto(c, "rstatelock")
      BY <2>1 DEF TInv, CallType, Goto, Trying, Repairing
    <2> QED
      BY <1>2, <1>11, <2>1 DEF TakeRecoveryLock
  <1>12. CASE RecoveryCheck(c) \/ SkipRecovery(c) \/ NeedRecovery(c) \/ Register(c) \/ Deferred(c)
    BY <1>2, <1>3, <1>12 DEF RecoveryCheck, SkipRecovery, NeedRecovery, Register, Deferred, Pcs, Repairing, RecoveryOnly
  <1>13. CASE Probe(c) \/ ProbeCode(c) \/ SaveCandidate(c) \/ Expire(c)
    BY <1>2, <1>4, <1>13 DEF Probe, ProbeCode, SaveCandidate, Expire, Pcs, Repairing, RecoveryOnly
  <1>14. CASE FetchTicket(c)
    BY <1>1, <1>2, <1>4, <1>14 DEF FetchTicket, Pcs, Repairing, RecoveryOnly
  <1>15. CASE Triage(c) \/ AskBudget(c)
    BY <1>2, <1>3, <1>15 DEF Triage, AfterTriage, AskBudget, Permitted, Pcs, Repairing, RecoveryOnly
  <1>16. CASE FetchBuffer(c) \/ Discard(c) \/ ForcedRefresh(c)
    BY <1>2, <1>3, <1>4, <1>16 DEF FetchBuffer, Enter, Discard, ForcedRefresh, Pcs, Repairing, RecoveryOnly
  <1> QED
    BY <1>5, <1>6, <1>7, <1>8, <1>9, <1>10, <1>11, <1>12, <1>13, <1>14, <1>15, <1>16 DEF Step

LEMMA TryNext == ASSUME TInv, TryInv, [Next]_vars PROVE TryInv'
  <1>1. ASSUME NEW c \in Calls, Begin(c) \/ Step(c) PROVE TryInv'
    BY <1>1, TryStep, StepApart, StepAlone DEF TryInv, Trying, Apart, Others, Alone
  <1>2. CASE Reauthorize \/ BackgroundRefresh \/ Tick \/ Prune \/ UNCHANGED vars
    BY <1>2 DEF Reauthorize, BackgroundRefresh, Tick, Prune, vars, call, TryInv
  <1>3. CASE Crash
    BY <1>3 DEF Crash, TryInv, Repairing, RecoveryOnly
  <1> QED
    BY <1>1, <1>2, <1>3 DEF Next

\* A step lowers the rank when it lowers the stage.
LEMMA StageRank ==
    ASSUME NEW c \in Calls, round'[c] = round[c],
           NEW m \in 0..200, NEW n \in 0..200, m < n,
           Stage(pc'[c], mode'[c], again'[c]) = m, Stage(pc[c], mode[c], again[c]) = n
    PROVE  Rank(c)' < Rank(c)
  <1>1. Rank(c) = n + (IF round[c] = 1 THEN 100 ELSE 0)
    BY DEF Rank
  <1>2. Rank(c)' = m + (IF round[c] = 1 THEN 100 ELSE 0)
    BY DEF Rank
  <1>3. m + 100 < n + 100 /\ m + 0 < n + 0
    OBVIOUS
  <1> QED
    BY <1>1, <1>2, <1>3
LEMMA LeaveRank ==
    ASSUME TInv, NEW c \in Calls, NEW label \in Pcs \ Tries, Leave(c, label),
           Place(label) < Stage(pc[c], mode[c], again[c])
    PROVE  Rank(c)' < Rank(c)
  <1>1. pc'[c] = label /\ round'[c] = round[c]
    BY LeaveTry
  <1>2. Place(label) \in 0..200
    BY StageBounds
  <1>3. Stage(pc'[c], mode'[c], again'[c]) = Place(label)
    BY <1>1, <1>2 DEF Stage
  <1>4. Stage(pc[c], mode[c], again[c]) \in 0..200
    BY StageBounds DEF TInv, CallType
  <1> QED
    BY <1>1, <1>2, <1>3, <1>4, StageRank
LEMMA StayRank ==
    ASSUME TInv, NEW c \in Calls, NEW label \in Pcs, Goto(c, label), Stay,
           Stage(label, mode[c], again[c]) < Stage(pc[c], mode[c], again[c])
    PROVE  Rank(c)' < Rank(c)
  <1>1. pc'[c] = label /\ mode'[c] = mode[c] /\ again'[c] = again[c] /\ round'[c] = round[c]
    BY StayTry
  <1>2. Stage(label, mode[c], again[c]) \in 0..200 /\ Stage(pc[c], mode[c], again[c]) \in 0..200
    BY StageBounds DEF TInv, CallType
  <1>3. Stage(pc'[c], mode'[c], again'[c]) = Stage(label, mode[c], again[c])
    BY <1>1
  <1> QED
    BY <1>1, <1>2, <1>3, StageRank

LEMMA FinishRank ==
    ASSUME TInv, NEW c \in Calls, pc[c] # "done", Finish(c)
    PROVE  Rank(c)' < Rank(c)
  <1>1. Place(pc[c]) > 0 \/ pc[c] = "use"
    BY DEF Place, Pcs, TInv, CallType
  <1>2. Place(pc[c]) \in 0..200
    BY StageBounds DEF TInv, CallType
  <1>3. Stage(pc[c], mode[c], again[c]) > 0
    BY <1>1, <1>2 DEF Stage, Tries
  <1>4. Place("done") < Stage(pc[c], mode[c], again[c])
    BY <1>3 DEF Place
  <1> QED
    BY <1>4, LeaveRank DEF Finish, Pcs, Tries

\* Where a try starts.
LEMMA EnterStage ==
    ASSUME NEW p \in {"codelock", "check"}, NEW m, m # "recover", NEW a
    PROVE  Stage(p, m, a) \in 0..70
  <1>1. CASE p = "codelock"
    BY <1>1 DEF Stage, Place, Tries
  <1>2. CASE p = "check"
    BY <1>2 DEF Stage, Place, Tries
  <1> QED
    BY <1>1, <1>2

\* The steps that start a try, and those that end its first part.
LEMMA AnewRank ==
    ASSUME TInv, KeyInv, TryInv, NEW c \in Calls,
           Begin(c) \/ TakeCodeLock(c) \/ Drop(c) \/ TakeRecoveryLock(c) \/ FetchTicket(c) \/ FetchBuffer(c) \/ Replay(c)
    PROVE  Rank(c)' < Rank(c)
  <1>0. \A label : Goto(c, label) => pc'[c] = label
    BY DEF TInv, CallType, Goto
  <1>1. /\ Stage(pc'[c], mode'[c], again'[c]) \in Nat => Rank(c)' \in Nat
        /\ Stage(pc[c], mode[c], again[c]) \in 0..200 /\ round[c] \in 1..2
    BY StageBounds DEF Rank, TInv, CallType
  <1>2. mode[c] = "recover" => pc[c] \in RecoveryPcs
    BY DEF KeyInv, Recovering
  <1>3. CASE Begin(c)
    <2>1. pc[c] = "idle" /\ pc'[c] \in {"codelock", "check"} /\ mode'[c] = mode[c] /\ mode[c] # "recover" /\ round' = round
      BY <1>0, <1>2, <1>3 DEF Begin, Enter, RecoveryPcs
    <2>2. Stage(pc'[c], mode'[c], again'[c]) \in 0..70
      BY <2>1, EnterStage
    <2>3. Stage(pc[c], mode[c], again[c]) = 200
      BY <2>1 DEF Stage, Place, Tries
    <2> QED
      BY <2>1, <2>2, <2>3 DEF Rank
  <1>4. CASE TakeCodeLock(c)
    <2>1. pc[c] = "codelock" /\ pc'[c] = "check" /\ mode'[c] = mode[c] /\ mode[c] # "recover" /\ round' = round
      BY <1>0, <1>2, <1>4 DEF TakeCodeLock, RecoveryPcs
    <2>2. Stage(pc'[c], mode'[c], again'[c]) \in 0..69 /\ Stage(pc[c], mode[c], again[c]) = 70
      BY <2>1 DEF Stage, Place, Tries
    <2> QED
      BY <2>1, <2>2 DEF Rank
  <1>5. CASE Drop(c)
    <2>1. /\ pc[c] = "drop" /\ pc'[c] = "check" /\ again'[c] = TRUE
          /\ mode'[c] = mode[c] /\ mode[c] # "recover" /\ round' = round
      BY <1>0, <1>2, <1>5 DEF Drop, RecoveryPcs, TInv, CallType
    <2>2. Stage(pc'[c], mode'[c], again'[c]) = 39 /\ Stage(pc[c], mode[c], again[c]) = 47
      BY <2>1 DEF Stage, Place, Tries
    <2> QED
      BY <2>1, <2>2 DEF Rank
  <1>6. CASE TakeRecoveryLock(c)
    <2>1. CASE Goto(c, "rstatelock") /\ round' = round
      <3>1. Stage(pc'[c], mode'[c], again'[c]) = 23 /\ Stage(pc[c], mode[c], again[c]) = 24
        BY <1>0, <1>6, <2>1 DEF TakeRecoveryLock, Stage, Place, Tries
      <3> QED
        BY <2>1, <3>1 DEF Rank
    <2> QED
      BY <1>6, <2>1, FinishRank DEF TakeRecoveryLock
  <1>7. CASE FetchTicket(c)
    <2>1. CASE again' = [again EXCEPT ![c] = TRUE] /\ Goto(c, "login") /\ mode' = mode /\ round' = round
      <3>1. mode'[c] = "recover" /\ again'[c] = TRUE /\ pc'[c] = "login" /\ pc[c] = "rfetch"
        BY <1>0, <1>7, <2>1 DEF FetchTicket, TryInv, RecoveryOnly, TInv, CallType
      <3>2. Stage(pc'[c], mode'[c], again'[c]) = 16 /\ Stage(pc[c], mode[c], again[c]) = 17
        BY <3>1 DEF Stage, Place, Tries
      <3>3. round'[c] = round[c]
        BY <2>1
      <3> QED
        BY <3>2, <3>3 DEF Rank
    <2>2. CASE Leave(c, IF round[c] = 1 THEN "refused" ELSE "done")
      <3>1. Place("refused") = 5 /\ Place("done") = 0 /\ Stage(pc[c], mode[c], again[c]) = 17
        BY <1>7 DEF FetchTicket, Stage, Place, Tries
      <3> QED
        BY <2>2, <3>1, LeaveRank DEF Pcs, Tries
    <2> QED
      BY <1>7, <2>1, <2>2, FinishRank DEF FetchTicket
  <1>8. ASSUME pc[c] \in {"fetch", "replay"}, Goto(c, Enter(c)), round' = [round EXCEPT ![c] = 2], mode' = mode
        PROVE  Rank(c)' < Rank(c)
    <2>1. /\ pc'[c] \in {"codelock", "check"} /\ mode'[c] = mode[c] /\ mode[c] # "recover"
          /\ round[c] = 1 /\ round'[c] = 2
      BY <1>0, <1>2, <1>8 DEF Enter, RecoveryPcs, TryInv, Repairing, TInv, CallType
    <2>2. Stage(pc'[c], mode'[c], again'[c]) \in 0..70
      BY <2>1, EnterStage
    <2>3. Rank(c)' \in 0..70
      <3>1. Rank(c)' = Stage(pc'[c], mode'[c], again'[c]) + 0
        BY <2>1 DEF Rank
      <3> QED
        BY <2>2, <3>1
    <2>4. Rank(c) \in 100..300
      <3>1. Rank(c) = Stage(pc[c], mode[c], again[c]) + 100
        BY <2>1 DEF Rank
      <3> QED
        BY <1>1, <3>1
    <2> QED
      BY <2>3, <2>4
  <1>9. CASE FetchBuffer(c)
    <2>1. CASE Goto(c, "gate") /\ Stay
      <3>1. Stage("gate", mode[c], again[c]) = 5 /\ Stage(pc[c], mode[c], again[c]) = 6
        BY <1>9 DEF FetchBuffer, Stage, Place, Tries
      <3> QED
        BY <2>1, <3>1, StayRank DEF Pcs
    <2> QED
      BY <1>8, <1>9, <2>1, FinishRank DEF FetchBuffer
  <1> QED
    BY <1>3, <1>4, <1>5, <1>6, <1>7, <1>8, <1>9 DEF Replay

\* All other steps.
LEMMA OnwardRank ==
    ASSUME TInv, KeyInv, TryInv, NEW c \in Calls, Step(c),
           ~(TakeCodeLock(c) \/ Drop(c) \/ TakeRecoveryLock(c) \/ FetchTicket(c) \/ FetchBuffer(c) \/ Replay(c))
    PROVE  Rank(c)' < Rank(c)
  <1>1. pc[c] # "done" /\ Finish(c) => Rank(c)' < Rank(c)
    BY FinishRank
  <1>2. ASSUME pc[c] \in {"lookup", "recheck", "dropread", "probe"}, Unusable(c) PROVE Rank(c)' < Rank(c)
    <2>1. Place("expire") = 1 /\ Place("done") = 0 /\ Place(pc[c]) \in {8, 6, 48, 19}
      BY <1>2 DEF Place
    <2>2. Stage(pc[c], mode[c], again[c]) \in 2..200
      BY <2>1 DEF Stage
    <2>3. CASE round[c] = 1
      BY <1>2, <2>1, <2>2, <2>3, LeaveRank DEF Unusable, Pcs, Tries
    <2>4. CASE round[c] # 1
      BY <1>2, <2>1, <2>2, <2>4, LeaveRank DEF Unusable, Pcs, Tries
    <2> QED
      BY <2>3, <2>4
  <1>3. ASSUME NEW p \in Pcs, NEW label \in Pcs, pc[c] = p, Goto(c, label), Stay,
               Stage(label, mode[c], again[c]) < Stage(p, mode[c], again[c])
        PROVE  Rank(c)' < Rank(c)
    BY <1>3, StayRank
  <1>4. mode[c] = "recover" => pc[c] \in RecoveryPcs
    BY DEF KeyInv, Recovering
  <1>5. CASE Check(c) \/ Lookup(c) \/ Recheck(c) \/ Put(c)
    <2>1. /\ Stage("lookup", mode[c], again[c]) < Stage("check", mode[c], again[c])
          /\ Stage("use", mode[c], again[c]) < Stage("lookup", mode[c], again[c])
          /\ Stage("statelock", mode[c], again[c]) < Stage("lookup", mode[c], again[c])
          /\ Stage("use", mode[c], again[c]) < Stage("recheck", mode[c], again[c])
          /\ Stage("rotate", mode[c], again[c]) < Stage("recheck", mode[c], again[c])
          /\ Stage("login", mode[c], again[c]) < Stage("recheck", mode[c], again[c])
          /\ Stage("use", mode[c], again[c]) < Stage("put", mode[c], again[c])
      BY DEF Stage, Place, Tries
    <2> QED
      BY <1>1, <1>2, <1>3, <1>5, <2>1 DEF Check, Lookup, Recheck, Put, Pcs
  <1>6. CASE TakeStateLock(c)
    <2>1. /\ Stage("recheck", mode[c], again[c]) < Stage("statelock", mode[c], again[c])
          /\ Stage("dropread", mode[c], again[c]) < Stage("droplock", mode[c], again[c])
          /\ Stage("rcheck", mode[c], again[c]) < Stage("rstatelock", mode[c], again[c])
      BY DEF Stage, Place, Tries
    <2> QED
      BY <1>3, <1>6, <2>1 DEF TakeStateLock, Behind, Pcs
  <1>7. CASE Login(c)
    <2>1. /\ Stage("put", mode[c], again[c]) < Stage("login", mode[c], again[c])
          /\ Stage("rsend", mode[c], again[c]) < Stage("login", mode[c], again[c])
          /\ mode[c] = "recover" /\ ~again[c] => Stage("rfetch", mode[c], again[c]) < Stage("login", mode[c], again[c])
          /\ Place("buffer") < Stage("login", mode[c], again[c])
          /\ Place("unclassified") < Stage("login", mode[c], again[c])
          /\ Place("done") < Stage("login", mode[c], again[c])
      BY DEF Stage, Place, Tries
    <2> QED
      BY <1>1, <1>3, <1>7, <2>1, LeaveRank DEF Login, Unclassified, Pcs, Tries
  <1>8. CASE UseFails(c)
    <2>1. mode[c] # "recover"
      BY <1>4, <1>8 DEF UseFails, RecoveryPcs
    <2>2. /\ Place("rcodelock") < Stage("use", mode[c], again[c])
          /\ Place("unclassified") < Stage("use", mode[c], again[c])
          /\ Place("done") < Stage("use", mode[c], again[c])
          /\ ~again[c] => Stage("droplock", mode[c], again[c]) < Stage("use", mode[c], again[c])
      BY <2>1 DEF Stage, Place, Tries
    <2> QED
      BY <1>1, <1>3, <1>8, <2>2, LeaveRank DEF UseFails, Unclassified, Pcs, Tries
  <1>9. CASE UseOK(c) \/ DropMissed(c) \/ SkipRecovery(c) \/ Deferred(c) \/ SaveCandidate(c) \/ Expire(c)
    BY <1>1, <1>9 DEF UseOK, DropMissed, SkipRecovery, Deferred, SaveCandidate, Expire
  <1>10. CASE DropRead(c)
    <2>1. Stage("drop", mode[c], again[c]) < Stage("dropread", mode[c], again[c])
      BY DEF Stage, Place, Tries
    <2> QED
      BY <1>1, <1>2, <1>3, <1>10, <2>1 DEF DropRead, Pcs
  <1>11. CASE Consume(c) \/ SendKey(c) \/ KeyReply(c) \/ SaveKey(c)
    <2>1. /\ Stage("sendkey", mode[c], again[c]) < Stage("rotate", mode[c], again[c])
          /\ Stage("keyreply", mode[c], again[c]) < Stage("sendkey", mode[c], again[c])
          /\ Stage("savekey", mode[c], again[c]) < Stage("keyreply", mode[c], again[c])
          /\ Stage("use", mode[c], again[c]) < Stage("savekey", mode[c], again[c])
          /\ Stage("rsend", mode[c], again[c]) < Stage("savekey", mode[c], again[c])
      BY DEF Stage, Place, Tries
    <2> QED
      BY <1>1, <1>3, <1>11, <2>1 DEF Consume, SendKey, KeyReply, SaveKey, Pcs
  <1>12. CASE RecoveryCheck(c) \/ NeedRecovery(c) \/ Register(c) \/ ProbeCode(c)
    <2>1. /\ Stage("rverified", mode[c], again[c]) < Stage("rcheck", mode[c], again[c])
          /\ Stage("register", mode[c], again[c]) < Stage("rverified", mode[c], again[c])
          /\ Stage("probe", mode[c], again[c]) < Stage("register", mode[c], again[c])
          /\ Stage("rsave", mode[c], again[c]) < Stage("rsend", mode[c], again[c])
      BY DEF Stage, Place, Tries
    <2> QED
      BY <1>1, <1>3, <1>12, <2>1 DEF RecoveryCheck, NeedRecovery, Register, ProbeCode, Pcs
  <1>13. CASE Probe(c)
    <2>1. mode[c] = "recover"
      BY <1>13 DEF Probe, TryInv, RecoveryOnly
    <2>2. /\ Stage("login", mode[c], again[c]) < Stage("probe", mode[c], again[c])
          /\ Stage("rotate", mode[c], again[c]) < Stage("probe", mode[c], again[c])
      BY <2>1 DEF Stage, Place, Tries
    <2> QED
      BY <1>1, <1>2, <1>3, <1>13, <2>2 DEF Probe, Pcs
  <1>14. CASE Triage(c) \/ AskBudget(c)
    <2>1. /\ Stage("ask", mode[c], again[c]) < Stage("buffer", mode[c], again[c])
          /\ Stage("gate", mode[c], again[c]) < Stage("unclassified", mode[c], again[c])
          /\ Stage("ticketgate", mode[c], again[c]) < Stage("refused", mode[c], again[c])
          /\ Stage("fetch", mode[c], again[c]) < Stage("ask", mode[c], again[c])
          /\ Stage("discard", mode[c], again[c]) < Stage("gate", mode[c], again[c])
          /\ Stage("refresh", mode[c], again[c]) < Stage("ticketgate", mode[c], again[c])
      BY DEF Stage, Place, Tries
    <2> QED
      BY <1>1, <1>3, <1>14, <2>1 DEF Triage, AfterTriage, AskBudget, Permitted, Pcs
  <1>15. CASE Discard(c) \/ ForcedRefresh(c)
    <2>1. /\ Stage("refresh", mode[c], again[c]) < Stage("discard", mode[c], again[c])
          /\ Stage("replay", mode[c], again[c]) < Stage("refresh", mode[c], again[c])
      BY DEF Stage, Place, Tries
    <2> QED
      BY <1>1, <1>3, <1>15, <2>1 DEF Discard, ForcedRefresh, Pcs
  <1> QED
    BY <1>5, <1>6, <1>7, <1>8, <1>9, <1>10, <1>11, <1>12, <1>13, <1>14, <1>15 DEF Step

LEMMA RankBounds == ASSUME TInv, NEW c \in Calls PROVE Rank(c) \in 0..300
  BY StageBounds DEF Rank, TInv, CallType

\* A restart ends every request that had begun.
LEMMA CrashRank ==
    ASSUME TInv, NEW c \in Calls, Crash PROVE Rank(c)' <= Rank(c)
  <1>1. round'[c] = round[c] /\ Stage(pc[c], mode[c], again[c]) \in 0..200
    BY StageBounds DEF Crash, TInv, CallType
  <1>2. CASE pc[c] = "idle"
    <2>1. Stage(pc[c], mode[c], again[c]) = 200
      BY <1>2 DEF Stage, Place, Tries
    <2>2. pc'[c] = "idle"
      BY <1>2 DEF Crash
    <2>3. Stage(pc'[c], mode'[c], again'[c]) = 200
      BY <2>2 DEF Stage, Place, Tries
    <2> QED
      BY <1>1, <2>1, <2>3 DEF Rank
  <1>3. CASE pc[c] # "idle"
    <2>1. pc'[c] = "done"
      BY <1>3 DEF Crash
    <2>2. Stage(pc'[c], mode'[c], again'[c]) = 0
      BY <2>1 DEF Stage, Place, Tries
    <2> QED
      BY <1>1, <2>2 DEF Rank
  <1> QED
    BY <1>2, <1>3

\* For any calls, limits and windows, a request takes at most 300 steps: each one
\* lowers its rank, and no step of another request, of the account or of the
\* process raises it (pool.go:307, code_recovery.go:205, app.go:1543).
THEOREM RetriesHold == Spec => RetriesBounded /\ [](\A c \in Calls : Rank(c) \in 0..300)
  <1>1. ASSUME TInv, KeyInv, TryInv, [Next]_vars, NEW c \in Calls
        PROVE  Rank(c)' <= Rank(c) /\ (Step(c) => Rank(c)' < Rank(c))
    <2>1. Rank(c) \in 0..300
      BY <1>1, RankBounds
    <2>2. ASSUME NEW d \in Calls, Begin(d) \/ Step(d), d # c PROVE Rank(c)' = Rank(c)
      BY <1>1, <2>2, StepApart, StepAlone DEF Apart, Others, Alone, Rank
    <2>3. ASSUME Begin(c) \/ Step(c) PROVE Rank(c)' < Rank(c)
      BY <1>1, <2>3, AnewRank, OnwardRank
    <2>4. Rank(c)' < Rank(c) => Rank(c)' <= Rank(c)
      <3>1. pc'[c] \in Pcs
        BY <1>1, TypeNext DEF TInv, CallType
      <3>2. Stage(pc'[c], mode'[c], again'[c]) \in 0..200
        BY <3>1, StageBounds
      <3>3. Rank(c)' \in 0..300
        BY <3>2 DEF Rank
      <3>4. \A m, n \in 0..300 : m < n => m <= n
        OBVIOUS
      <3> QED
        BY <2>1, <3>3, <3>4, Zenon
    <2>5. CASE Reauthorize \/ BackgroundRefresh \/ Tick \/ Prune \/ UNCHANGED vars
      <3>1. Rank(c)' = Rank(c)
        BY <2>5 DEF Reauthorize, BackgroundRefresh, Tick, Prune, vars, call, Rank
      <3> QED
        BY <2>1, <2>3, <2>4, <3>1
    <2>6. CASE Crash
      BY <1>1, <2>3, <2>6, CrashRank
    <2>7. CASE \E d \in Calls : Begin(d) \/ Step(d)
      BY <2>1, <2>2, <2>3, <2>4, <2>7
    <2> QED
      BY <1>1, <2>5, <2>6, <2>7 DEF Next
  <1>2. TInv /\ KeyInv /\ TryInv /\ [Next]_vars =>
          [\A c \in Calls : Rank(c)' <= Rank(c) /\ (Step(c) => Rank(c)' < Rank(c))]_vars
    BY <1>1
  <1>3. Init => TryInv
    BY DEF Init, TryInv, Repairing, RecoveryOnly
  <1>4. TInv => \A c \in Calls : Rank(c) \in 0..300
    BY RankBounds
  <1> QED
    BY <1>2, <1>3, <1>4, TypeStart, TypeNext, KeyStart, KeyNext, TryNext, PTL DEF Spec, RetriesBounded

--------------------------------------------------------------------------------
(* Who waits for whom                                                          *)

\* Where a code request holds its account's code lock.
Pooled == Locked \cup {"check", "lookup", "statelock", "use", "droplock", "rstatelock"}
\* Each lock is held by the request that is inside its section, and by no other.
LocksExact == \A c \in Calls : /\ stateLock = c <=> pc[c] \in Locked
                               /\ c \in CodeCalls => (codeLock = c <=> pc[c] \in Pooled)

Waits(c) == \/ pc[c] \in {"codelock", "rcodelock"} /\ codeLock # None
            \/ pc[c] \in {"statelock", "droplock", "rstatelock"} /\ stateLock # None
Active(c) == pc[c] \notin {"idle", "done"}
\* Requests never all wait: the locks are taken in one order and given back on
\* every way out (pool.go:301, pool.go:333, code_recovery.go:59).
NoDeadlock == (\E c \in Calls : Active(c)) => \E c \in Calls : Active(c) /\ ~Waits(c)

\* What a step may do with a lock and its section: leave and release, stay on its
\* side, or enter when the lock is free.
Section(places, lock, after, c) ==
    \/ pc'[c] \notin places /\ after = (IF lock = c THEN None ELSE lock)
    \/ (pc'[c] \in places <=> pc[c] \in places) /\ after = lock
    \/ pc'[c] \in places /\ lock = None /\ after = c

LEMMA LeaveSection ==
    ASSUME TInv, NEW c \in Calls, NEW label \in Pcs \ Pooled, Leave(c, label)
    PROVE  Section(Locked, stateLock, stateLock', c) /\ Section(Pooled, codeLock, codeLock', c)
  BY DEF TInv, CallType, Leave, Goto, FreeState, FreeCode, Section, Pooled

\* The steps that take a lock or give one back on their way.
LEMMA TurnSection ==
    ASSUME TInv, NEW c \in Calls, Begin(c) \/ TakeCodeLock(c) \/ TakeStateLock(c) \/ Recheck(c) \/ Put(c) \/ Drop(c)
                                  \/ SaveKey(c) \/ TakeRecoveryLock(c) \/ FetchBuffer(c) \/ Replay(c)
    PROVE  Section(Locked, stateLock, stateLock', c) /\ (c \in CodeCalls => Section(Pooled, codeLock, codeLock', c))
  <1>0. \A label : Goto(c, label) => pc'[c] = label
    BY DEF TInv, CallType, Goto
  <1>1. Finish(c) \/ Unusable(c) =>
          Section(Locked, stateLock, stateLock', c) /\ Section(Pooled, codeLock, codeLock', c)
    BY LeaveSection DEF Finish, Unusable, Pcs, Pooled, Locked
  <1>2. CASE Begin(c) \/ Replay(c)
    BY <1>0, <1>2 DEF Begin, Replay, Enter, memory, Section, Pooled, Locked
  <1>3. CASE TakeCodeLock(c) \/ TakeStateLock(c)
    BY <1>0, <1>3 DEF TakeCodeLock, TakeStateLock, Behind, Section, Pooled, Locked
  <1>4. CASE Recheck(c)
    BY <1>0, <1>1, <1>4 DEF Recheck, FreeState, Section, Pooled, Locked
  <1>5. CASE Put(c) \/ Drop(c)
    BY <1>0, <1>1, <1>5 DEF Put, Drop, FreeState, Section, Pooled, Locked
  <1>6. CASE SaveKey(c)
    BY <1>0, <1>1, <1>6 DEF SaveKey, FreeState, Section, Pooled, Locked
  <1>7. CASE TakeRecoveryLock(c) \/ FetchBuffer(c)
    BY <1>0, <1>1, <1>7 DEF TakeRecoveryLock, FetchBuffer, Enter, Section, Pooled, Locked
  <1> QED
    BY <1>2, <1>3, <1>4, <1>5, <1>6, <1>7

\* All other steps leave, or stay on their side of both locks.
LEMMA SideSection ==
    ASSUME TInv, NEW c \in Calls, Step(c),
           ~(TakeCodeLock(c) \/ TakeStateLock(c) \/ Recheck(c) \/ Put(c) \/ Drop(c)
             \/ SaveKey(c) \/ TakeRecoveryLock(c) \/ FetchBuffer(c) \/ Replay(c))
    PROVE  Section(Locked, stateLock, stateLock', c) /\ Section(Pooled, codeLock, codeLock', c)
  <1>0. \A label : Goto(c, label) => pc'[c] = label
    BY DEF TInv, CallType, Goto
  <1>1. ASSUME NEW label \in {"done", "expire", "buffer", "unclassified", "refused", "rcodelock"}, Leave(c, label)
        PROVE  Section(Locked, stateLock, stateLock', c) /\ Section(Pooled, codeLock, codeLock', c)
    BY <1>1, LeaveSection DEF Pcs, Pooled, Locked
  <1>2. CASE Check(c) \/ Lookup(c) \/ Login(c)
    BY <1>0, <1>1, <1>2 DEF Check, Lookup, Login, Unclassified, Finish, Unusable, Section, Pooled, Locked
  <1>3. CASE UseOK(c) \/ UseFails(c) \/ DropRead(c) \/ DropMissed(c)
    BY <1>0, <1>1, <1>3 DEF UseOK, UseFails, DropRead, DropMissed, Finish, Unusable, Unclassified, Section, Pooled, Locked
  <1>4. CASE Consume(c) \/ SendKey(c) \/ KeyReply(c)
    BY <1>0, <1>1, <1>4 DEF Consume, SendKey, KeyReply, memory, Finish, Section, Pooled, Locked
  <1>5. CASE RecoveryCheck(c) \/ SkipRecovery(c) \/ NeedRecovery(c) \/ Register(c) \/ Deferred(c)
    BY <1>0, <1>1, <1>5 DEF RecoveryCheck, SkipRecovery, NeedRecovery, Register, Deferred, memory, Finish,
                            Section, Pooled, Locked
  <1>6. CASE Probe(c) \/ FetchTicket(c) \/ ProbeCode(c) \/ SaveCandidate(c)
    BY <1>0, <1>1, <1>6 DEF Probe, FetchTicket, ProbeCode, SaveCandidate, Finish, Unusable, Section, Pooled, Locked
  <1>7. CASE Triage(c) \/ AskBudget(c)
    BY <1>0, <1>1, <1>7 DEF Triage, AfterTriage, AskBudget, Permitted, Finish, Section, Pooled, Locked
  <1>8. CASE Discard(c) \/ ForcedRefresh(c) \/ Expire(c)
    BY <1>0, <1>1, <1>8 DEF Discard, ForcedRefresh, Expire, memory, Finish, Section, Pooled, Locked
  <1> QED
    BY <1>2, <1>3, <1>4, <1>5, <1>6, <1>7, <1>8 DEF Step

\* A data request leaves the code lock alone.
LEMMA DataAloof ==
    ASSUME TInv, NEW c \in Calls, c \notin CodeCalls, Begin(c) \/ Step(c) PROVE codeLock' = codeLock
  <1>1. codeLock # c /\ pc[c] \notin {"codelock", "rcodelock"}
    BY CallsAssumption DEF TInv, CallType, InPlace
  <1>2. \A label : Leave(c, label) => codeLock' = codeLock
    BY <1>1 DEF Leave, FreeCode
  <1>3. CASE Begin(c) \/ TakeStateLock(c) \/ NeedRecovery(c) \/ Discard(c) \/ SendKey(c) \/ Replay(c) \/ Drop(c)
    BY <1>3 DEF Begin, TakeStateLock, NeedRecovery, Discard, SendKey, Replay, Drop, memory
  <1>4. CASE TakeCodeLock(c) \/ TakeRecoveryLock(c)
    BY <1>1, <1>4 DEF TakeCodeLock, TakeRecoveryLock
  <1>5. CASE Check(c) \/ Lookup(c) \/ Recheck(c) \/ Login(c) \/ Put(c)
    BY <1>2, <1>5 DEF Check, Lookup, Recheck, Login, Put, Unclassified, Finish, Unusable
  <1>6. CASE UseOK(c) \/ UseFails(c) \/ DropMissed(c) \/ SkipRecovery(c) \/ Deferred(c) \/ SaveCandidate(c) \/ Expire(c)
    BY <1>2, <1>6 DEF UseOK, UseFails, DropMissed, SkipRecovery, Deferred, SaveCandidate, Expire, Finish, Unclassified
  <1>7. CASE DropRead(c) \/ Consume(c) \/ KeyReply(c) \/ SaveKey(c)
    BY <1>2, <1>7 DEF DropRead, Consume, KeyReply, SaveKey, Finish, Unusable
  <1>8. CASE RecoveryCheck(c) \/ Register(c) \/ Probe(c) \/ ProbeCode(c) \/ FetchTicket(c)
    BY <1>2, <1>8 DEF RecoveryCheck, Register, Probe, ProbeCode, FetchTicket, Finish, Unusable
  <1>9. CASE Triage(c) \/ AskBudget(c) \/ ForcedRefresh(c) \/ FetchBuffer(c)
    BY <1>2, <1>9 DEF Triage, AskBudget, ForcedRefresh, FetchBuffer, Finish
  <1> QED
    BY <1>3, <1>4, <1>5, <1>6, <1>7, <1>8, <1>9 DEF Step

LEMMA ExactNext == ASSUME TInv, LocksExact, [Next]_vars PROVE LocksExact'
  <1>1. ASSUME NEW c \in Calls, Begin(c) \/ Step(c) PROVE LocksExact'
    <2>1. Section(Locked, stateLock, stateLock', c) /\ (c \in CodeCalls => Section(Pooled, codeLock, codeLock', c))
      BY <1>1, TurnSection, SideSection
    <2>2. \A d \in Calls \ {c} : pc'[d] = pc[d]
      BY <1>1, StepApart DEF Apart, Others
    <2>3. c \notin CodeCalls => codeLock' = codeLock
      BY <1>1, DataAloof
    <2> SUFFICES ASSUME NEW d \in Calls
                 PROVE  /\ stateLock' = d <=> pc'[d] \in Locked
                        /\ d \in CodeCalls => (codeLock' = d <=> pc'[d] \in Pooled)
      BY DEF LocksExact
    <2>4. stateLock = d <=> pc[d] \in Locked
      BY DEF LocksExact
    <2>5. d \in CodeCalls => (codeLock = d <=> pc[d] \in Pooled)
      BY DEF LocksExact
    <2>6. stateLock = c <=> pc[c] \in Locked
      BY DEF LocksExact
    <2>7. c \in CodeCalls => (codeLock = c <=> pc[c] \in Pooled)
      BY DEF LocksExact
    <2>8. stateLock' = d <=> pc'[d] \in Locked
      BY <2>1, <2>2, <2>4, <2>6, CallsAssumption DEF Section
    <2>9. d \in CodeCalls => (codeLock' = d <=> pc'[d] \in Pooled)
      BY <2>1, <2>2, <2>3, <2>5, <2>7, CallsAssumption DEF Section
    <2> QED
      BY <2>8, <2>9
  <1>2. CASE Reauthorize \/ BackgroundRefresh \/ Tick \/ Prune \/ UNCHANGED vars
    BY <1>2 DEF Reauthorize, BackgroundRefresh, Tick, Prune, vars, call, memory, LocksExact
  <1>3. CASE Crash
    BY <1>3, CallsAssumption DEF Crash, LocksExact, Pooled, Locked, Calls
  <1> QED
    BY <1>1, <1>2, <1>3 DEF Next

\* For any calls, each lock belongs to exactly the request inside its section, on
\* every way out and after every failure (pool.go:301, pool.go:333).
THEOREM LocksHold == Spec => []LocksExact
  <1>1. Init => LocksExact
    BY CallsAssumption DEF Init, LocksExact, Pooled, Locked, Calls
  <1> QED
    BY <1>1, TypeStart, TypeNext, ExactNext, PTL DEF Spec

\* For any calls, there is always a request under way that waits for no lock.
THEOREM NeverAllWait == Spec => []NoDeadlock
  <1>1. ASSUME TInv, LocksExact, NEW c \in Calls, Active(c) PROVE \E d \in Calls : Active(d) /\ ~Waits(d)
    <2>1. CASE stateLock # None
      <3>1. stateLock \in Calls /\ pc[stateLock] \in Locked
        BY <1>1, <2>1 DEF LocksExact, TInv, CallType
      <3> QED
        BY <3>1 DEF Active, Waits, Locked
    <2>2. CASE stateLock = None /\ codeLock # None
      <3>1. codeLock \in CodeCalls /\ codeLock \in Calls
        BY <1>1, <2>2 DEF TInv, CallType, Calls
      <3>2. pc[codeLock] \in Pooled
        BY <1>1, <3>1 DEF LocksExact
      <3> QED
        BY <2>2, <3>1, <3>2 DEF Active, Waits, Pooled, Locked
    <2>3. CASE stateLock = None /\ codeLock = None
      BY <1>1, <2>3 DEF Waits
    <2> QED
      BY <2>1, <2>2, <2>3
  <1>2. TInv /\ LocksExact => NoDeadlock
    BY <1>1 DEF NoDeadlock
  <1> QED
    BY <1>2, LocksHold, TypeStart, TypeNext, PTL DEF Spec
================================================================================
