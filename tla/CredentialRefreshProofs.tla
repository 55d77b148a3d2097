------------------------ MODULE CredentialRefreshProofs ------------------------
(* Proofs about CredentialRefresh, for every set of identities, workers,       *)
(* clients and routes and every bound.                                         *)
EXTENDS CredentialRefresh, TLAPS

--------------------------------------------------------------------------------
(* The inductive invariant.                                                    *)

\* A token belongs to a scan that has happened.
Granted(cred) == HasToken(cred) => cred.scan \in 1..scans

\* An absent row is blank, a present one has an identity; its token is granted.
RowInv == /\ row.status = "absent" => row = NoRow
          /\ row.status # "absent" => row.openid \in OpenIDs
          /\ Granted(row.cred)

\* The lock is held by the one worker that is inside refreshAccountOnce.
LockInv == \A w \in Workers : pc[w] # "idle" <=> lock = w

\* What a worker knows about the row it read, at each place.
WorkerInv ==
    \A w \in Workers :
        /\ Granted(snap[w].cred)
        /\ pc[w] # "idle" => snap[w].status # "absent"
        /\ pc[w] \in {"exchange", "mark", "save"} => snap[w].status \in {"alive", "unknown"}
        /\ pc[w] \in {"save", "reread"} => HasToken(snap[w].cred) /\ snap[w].cred.seq < MaxSeq
        /\ pc[w] = "save" => server[snap[w].cred.scan] \in {0, snap[w].cred.seq + 1}
        /\ pc[w] = "mark" /\ verdict[w] \in {"expired", "session_only"} => ~Accepted(snap[w].cred)

\* A client that is to expire the account was called with a session_only one.
ClientInv == \A c \in Clients : cpc[c] = "expire" => csnap[c].status = "session_only"

\* While a refresh is under way only the operator changes the row and leaves its
\* token in place.
TouchedInv ==
    \A w \in Workers :
        pc[w] \in {"exchange", "save"} /\ HasToken(snap[w].cred)
        /\ row.cred = snap[w].cred /\ row # snap[w] => row.cred \in touched

\* A stored session has an identity.
SessionInv == \A r \in Routes : sessions[r] # NoSession => sessions[r].openid # None

IInv == /\ TypeOK /\ RowInv /\ LockInv /\ WorkerInv /\ ClientInv /\ TouchedInv /\ SessionInv
        /\ SessionIdentity /\ RejectedHoldsNoToken /\ TokenAccountedFor

--------------------------------------------------------------------------------
(* Lemmas about the row contents.                                              *)

\* What a refresh, a scan or an expiry writes is a row.
LEMMA RowContents ==
    /\ NoRow \in Row /\ NoCred \in Cred /\ NoSession \in Session
    /\ \A r \in Row : Expired(r) \in Row /\ SessionOnly(r) \in Row
    /\ \A r \in Row : r.cred.seq < MaxSeq => Renewed(r) \in Row /\ Rotated(r.cred) \in Cred
    /\ \A r \in Row : \A s \in Statuses : [r EXCEPT !.status = s] \in Row
    /\ \A r \in Row : Buffered(r) \in Row
    /\ \A o \in OpenIDs : \A n \in 1..MaxScan : Scanned(o, n) \in Row
<1> USE BoundsAssumption DEF Row, Cred, Statuses
<1>1. NoRow \in Row /\ NoCred \in Cred /\ NoSession \in Session
  BY DEF NoRow, NoCred, NoSession, Session
<1>2. ASSUME NEW r \in Row PROVE Expired(r) \in Row /\ SessionOnly(r) \in Row
  BY DEF Expired, SessionOnly, Residue, NoCred
<1>3. ASSUME NEW r \in Row, r.cred.seq < MaxSeq PROVE Renewed(r) \in Row /\ Rotated(r.cred) \in Cred
  BY <1>3 DEF Renewed, Rotated
<1>4. ASSUME NEW r \in Row, NEW s \in Statuses PROVE [r EXCEPT !.status = s] \in Row
  OBVIOUS
<1>5. ASSUME NEW r \in Row PROVE Buffered(r) \in Row
  BY DEF Buffered
<1>6. ASSUME NEW o \in OpenIDs, NEW n \in 1..MaxScan PROVE Scanned(o, n) \in Row
  BY DEF Scanned
<1> QED BY <1>1, <1>2, <1>3, <1>4, <1>5, <1>6

\* The fields of a row and of a credential.
LEMMA RowFields ==
    /\ \A r \in Row : /\ r.cred \in Cred /\ r.buffer \in 0..MaxSeq /\ r.openid \in OpenIDs \cup {None}
                      /\ r.status \in Statuses \cup {"absent"}
    /\ \A c \in Cred : c.scan \in 0..MaxScan /\ c.seq \in 0..MaxSeq
BY DEF Row, Cred

\* A credential is its scan and its rotation.
LEMMA CredEqual ==
    ASSUME NEW a \in Cred, NEW b \in Cred, a.scan = b.scan, a.seq = b.seq PROVE a = b
<1>1. a = [scan |-> a.scan, seq |-> a.seq] /\ b = [scan |-> b.scan, seq |-> b.seq]
  BY DEF Cred
<1> QED BY <1>1

\* The invariant holds of an empty slot.
THEOREM InitIInv == Init => IInv
<1> SUFFICES ASSUME Init PROVE IInv
  OBVIOUS
<1> USE BoundsAssumption, NoneAssumption, RowContents DEF Init
<1>1. TypeOK
  BY DEF TypeOK, NoSessions, Statuses
<1>2. ~HasToken(row.cred) /\ row.status = "absent" /\ row.openid = None
  BY DEF NoRow, NoCred, HasToken
<1>3. RowInv /\ RejectedHoldsNoToken /\ TokenAccountedFor
  BY <1>2 DEF RowInv, Granted, RejectedHoldsNoToken, TokenAccountedFor
<1>4. LockInv /\ WorkerInv /\ ClientInv /\ TouchedInv
  BY <1>2 DEF LockInv, WorkerInv, ClientInv, TouchedInv, Granted, HasToken
<1>5. SessionInv /\ SessionIdentity
  BY DEF SessionInv, SessionIdentity, NoSessions
<1> QED BY <1>1, <1>3, <1>4, <1>5 DEF IInv

\* Every step keeps the types.
LEMMA TypeStep == TypeOK /\ WorkerInv /\ [Next]_vars => TypeOK'
<1> SUFFICES ASSUME TypeOK, WorkerInv, [Next]_vars PROVE TypeOK'
  OBVIOUS
<1> USE BoundsAssumption, RowContents, RowFields DEF TypeOK, workerVars, clientVars, operatorVars
<1>1. ASSUME NEW w \in Workers, RefreshStep(w) PROVE TypeOK'
  <2>1. CASE BeginRefresh(w) BY <2>1 DEF BeginRefresh
  <2>2. CASE MarkUnknown(w) BY <2>2 DEF MarkUnknown, Release, Statuses
  <2>3. CASE ExchangeAccepted(w)
    <3>1. snap[w].cred \in Cred /\ server[snap[w].cred.scan] = snap[w].cred.seq
      BY <2>3 DEF ExchangeAccepted, Accepted
    <3>a. server[snap[w].cred.scan] + 1 \in 0..MaxSeq
      BY <2>3, <3>1 DEF ExchangeAccepted
    <3>b. server' = [server EXCEPT ![snap[w].cred.scan] = server[snap[w].cred.scan] + 1]
      BY <2>3 DEF ExchangeAccepted
    <3>2. server' \in [1..MaxScan -> 0..MaxSeq]
      BY <2>3, <3>1, <3>a, <3>b DEF ExchangeAccepted
    <3> QED BY <2>3, <3>2 DEF ExchangeAccepted, Goto
  <2>4. CASE ExchangeReplyLost(w)
    <3>1. /\ snap[w].cred \in Cred /\ server[snap[w].cred.scan] = snap[w].cred.seq
          /\ snap[w].status \in {"alive", "unknown"}
      BY <2>4 DEF ExchangeReplyLost, Accepted, WorkerInv
    <3>a. server[snap[w].cred.scan] + 1 \in 0..MaxSeq
      BY <2>4, <3>1 DEF ExchangeReplyLost
    <3>b. server' = [server EXCEPT ![snap[w].cred.scan] = server[snap[w].cred.scan] + 1]
      BY <2>4 DEF ExchangeReplyLost
    <3>2. server' \in [1..MaxScan -> 0..MaxSeq] /\ lost' \subseteq Cred
      BY <2>4, <3>1, <3>a, <3>b DEF ExchangeReplyLost
    <3>3. verdict' \in [Workers -> Statuses]
      BY <2>4, <3>1 DEF ExchangeReplyLost, Inconclusive, Statuses
    <3> QED BY <2>4, <3>2, <3>3 DEF ExchangeReplyLost, Goto
  <2>5. CASE ExchangeFails(w)
    <3>1. snap[w].status \in {"alive", "unknown"}
      BY <2>5 DEF ExchangeFails, WorkerInv
    <3>2. verdict' \in [Workers -> Statuses]
      BY <2>5, <3>1 DEF ExchangeFails, Inconclusive, Statuses
    <3> QED BY <2>5, <3>2 DEF ExchangeFails, Goto
  <2>6. CASE ExchangeRejected(w)
    BY <2>6 DEF ExchangeRejected, Goto, Statuses
  <2>7. CASE ApplyFailure(w)
    <3>1. row' \in Row /\ sessions' \in [Routes -> Session]
      BY <2>7 DEF ApplyFailure, NoSessions
    <3> QED BY <2>7, <3>1 DEF ApplyFailure, Release, Statuses
  <2>8. CASE SaveRotated(w)
    <3>1. row' \in Row
      BY <2>8 DEF SaveRotated, WorkerInv
    <3>2. CASE Release(w) BY <2>8, <3>1, <3>2 DEF SaveRotated, Release, Statuses
    <3>3. CASE Goto(w, "reread") /\ UNCHANGED <<snap, verdict>>
      BY <2>8, <3>1, <3>3 DEF SaveRotated, Goto
    <3> QED BY <2>8, <3>2, <3>3 DEF SaveRotated
  <2>9. CASE DiscardRotated(w) BY <2>9 DEF DiscardRotated, Release, Statuses
  <2>10. CASE SaveFails(w) BY <2>10 DEF SaveFails, Release, Statuses
  <2>11. CASE Reread(w) BY <2>11 DEF Reread, Release, Goto, Statuses
  <2>12. CASE FetchBuffer(w)
    <3>1. CASE Release(w) BY <2>12, <3>1 DEF FetchBuffer, Release, Statuses
    <3>2. CASE Goto(w, "store") /\ UNCHANGED <<snap, verdict>>
      BY <2>12, <3>2 DEF FetchBuffer, Goto
    <3> QED BY <2>12, <3>1, <3>2 DEF FetchBuffer
  <2>13. CASE StoreBuffer(w) BY <2>13 DEF StoreBuffer, Release, Statuses
  <2>14. CASE MarkFails(w) BY <2>14 DEF MarkFails, Release, Statuses
  <2> QED
    BY <1>1, <2>1, <2>2, <2>3, <2>4, <2>5, <2>6, <2>7, <2>8, <2>9, <2>10, <2>11, <2>12, <2>13, <2>14
       DEF RefreshStep
<1>2. ASSUME NEW c \in Clients, CallStep(c) PROVE TypeOK'
  <2>1. CASE BeginCall(c) BY <2>1 DEF BeginCall
  <2>2. CASE ExpireSessionOnly(c) BY <2>2 DEF ExpireSessionOnly, Return, NoSessions
  <2>3. CASE EndCall(c) \/ LookAgain(c) BY <2>3 DEF EndCall, LookAgain, Return
  <2>4. ASSUME NEW r \in Routes, StoreSession(c, r) PROVE TypeOK'
    <3>1. [openid |-> csnap[c].openid, scan |-> csnap[c].cred.scan] \in Session
      BY DEF Session
    <3> QED BY <2>4, <3>1 DEF StoreSession, Return
  <2>5. ASSUME NEW r \in Routes, DropSession(c, r) PROVE TypeOK'
    BY <2>5 DEF DropSession, Return
  <2>6. ASSUME NEW r \in Routes, FindNoSession(c, r) PROVE TypeOK'
    BY <2>6 DEF FindNoSession
  <2> QED BY <1>2, <2>1, <2>2, <2>3, <2>4, <2>5, <2>6 DEF CallStep
<1>3. ASSUME NEW o \in OpenIDs, Scan(o) PROVE TypeOK'
  BY <1>3 DEF Scan, Issue
<1>4. ASSUME NEW o \in OpenIDs, UpdateFromLink(o) PROVE TypeOK'
  BY <1>4 DEF UpdateFromLink, Issue, NoSessions
<1>5. ASSUME NEW s \in {"alive", "expired"}, ResolveStatusChange(s) PROVE TypeOK'
  BY <1>5 DEF ResolveStatusChange
<1>6. ASSUME NEW r \in Routes, SessionLapses(r) PROVE TypeOK'
  BY <1>6 DEF SessionLapses
<1>7. ASSUME NEW n \in 1..MaxScan, Revoke(n) PROVE TypeOK'
  BY <1>7 DEF Revoke
<1>8. CASE SetAccountStatus BY <1>8 DEF SetAccountStatus, Statuses
<1>9. CASE PurgeSessions \/ OperatorFails BY <1>9 DEF PurgeSessions, OperatorFails, NoSessions
<1>10. CASE Delete BY <1>10 DEF Delete, NoSessions
<1>11. CASE Crash BY <1>11 DEF Crash, Statuses
<1>12. CASE UNCHANGED vars BY <1>12 DEF vars
<1> QED
  BY <1>1, <1>2, <1>3, <1>4, <1>5, <1>6, <1>7, <1>8, <1>9, <1>10, <1>11, <1>12 DEF Next, Running

--------------------------------------------------------------------------------
(* What a step may do to the row, the only ways the account can change.        *)

Kept == row' = row /\ scans' = scans

\* The worker holding the lock saves the successor of the token in the row.
RenewedBy(w) == /\ pc[w] = "save" /\ row = snap[w] /\ row' = Renewed(row)
                /\ scans' = scans /\ server' = server /\ sessions' = sessions

\* A scan lands here: in place on the same identity, in an empty slot, or
\* through a link that drops the sessions and needs the refresh lock.
GrantedTo(o) == /\ scans' = scans + 1 /\ scans + 1 \in 1..MaxScan
                /\ row' = Scanned(o, scans + 1)
                /\ server' = [server EXCEPT ![scans + 1] = 1]
                /\ \/ sessions' = sessions /\ row.status = "absent"
                   \/ sessions' = sessions /\ row.openid = o
                   \/ sessions' = NoSessions
                /\ UNCHANGED <<pc, snap, verdict, lock, lost, touched>>

\* The token goes, and with the row every session goes too.
Wiped == /\ scans' = scans /\ server' = server /\ row.status # "absent"
         /\ \/ row' = NoRow /\ sessions' = NoSessions
            \/ row' = Expired(row) /\ sessions' \in {sessions, NoSessions}
            \/ row' = SessionOnly(row) /\ sessions' = sessions

\* Same identity and token, new status or buffer; the row is not rejected then.
Marked == /\ row.status # "absent" /\ row' \in Row
          /\ row'.status \in {"alive", "unknown"}
          /\ row'.openid = row.openid /\ row'.cred = row.cred
          /\ scans' = scans /\ server' = server /\ sessions' = sessions

\* No step does anything else to the row.  A step that marks or wipes it comes
\* from the lock holder, or leaves the workers alone.
LEMMA RowEffect ==
    ASSUME TypeOK, RowInv, LockInv, WorkerInv, ClientInv, [Next]_vars
    PROVE  \/ Kept
           \/ \E w \in Workers : RenewedBy(w)
           \/ \E o \in OpenIDs : GrantedTo(o)
           \/ Wiped
           \/ Marked
<1> USE RowContents, RowFields DEF TypeOK, workerVars, clientVars, operatorVars
<1>1. ASSUME NEW w \in Workers, RefreshStep(w) PROVE Kept \/ RenewedBy(w) \/ Wiped \/ Marked
  <2>1. CASE MarkUnknown(w)
    <3>1. CASE row.status = "absent" \/ row' = row BY <2>1, <3>1 DEF MarkUnknown, Kept
    <3>2. CASE row.status # "absent" /\ row' # row
      <4>1. row' = [row EXCEPT !.status = "unknown"] /\ row' \in Row
        BY <2>1, <3>2 DEF MarkUnknown, Statuses
      <4> QED BY <2>1, <3>2, <4>1 DEF MarkUnknown, Marked, Row
    <3> QED BY <3>1, <3>2
  <2>2. CASE ApplyFailure(w)
    <3>1. CASE row # snap[w] BY <2>2, <3>1 DEF ApplyFailure, Unchanged, Kept
    <3>2. CASE row = snap[w]
      <4>1. row.status \in {"alive", "unknown"}
        BY <2>2, <3>2 DEF ApplyFailure, WorkerInv
      <4>2. CASE verdict[w] = "expired" \/ verdict[w] = "session_only"
        BY <2>2, <3>2, <4>1, <4>2 DEF ApplyFailure, Unchanged, Wiped
      <4>3. CASE verdict[w] \in {"alive", "unknown"}
        <5>1. row' = [row EXCEPT !.status = verdict[w]] /\ row' \in Row /\ sessions' = sessions
          BY <2>2, <3>2, <4>3 DEF ApplyFailure, Unchanged, Statuses
        <5> QED BY <2>2, <4>1, <4>3, <5>1 DEF ApplyFailure, Marked, Row
      <4> QED BY <4>2, <4>3 DEF Statuses
    <3> QED BY <3>1, <3>2
  <2>3. CASE SaveRotated(w)
    BY <2>3 DEF SaveRotated, Unchanged, RenewedBy
  <2>4. CASE StoreBuffer(w)
    <3>1. CASE row # snap[w] BY <2>4, <3>1 DEF StoreBuffer, Unchanged, Kept
    <3>2. CASE row = snap[w] /\ row.status = "absent"
      BY <2>4, <3>2 DEF StoreBuffer, WorkerInv
    <3>3. CASE row = snap[w] /\ row.status # "absent"
      <4>1. row' = Buffered(row) /\ row' \in Row
        BY <2>4, <3>3 DEF StoreBuffer, Unchanged
      <4> QED BY <2>4, <3>3, <4>1 DEF StoreBuffer, Marked, Buffered
    <3> QED BY <3>1, <3>2, <3>3
  <2>5. CASE row' = row /\ scans' = scans BY <2>5 DEF Kept
  <2> QED
    BY <1>1, <2>1, <2>2, <2>3, <2>4, <2>5
       DEF RefreshStep, BeginRefresh, ExchangeAccepted, ExchangeReplyLost, ExchangeFails,
           ExchangeRejected, MarkFails, DiscardRotated, SaveFails, Reread, FetchBuffer
<1>2. ASSUME NEW c \in Clients, CallStep(c) PROVE Kept \/ Wiped
  <2>1. CASE ExpireSessionOnly(c)
    BY <2>1 DEF ExpireSessionOnly, ClientInv, Unchanged, Kept, Wiped
  <2>2. CASE row' = row /\ scans' = scans BY <2>2 DEF Kept
  <2> QED
    BY <1>2, <2>1, <2>2 DEF CallStep, BeginCall, LookAgain, EndCall, StoreSession, DropSession, FindNoSession
<1>3. ASSUME NEW o \in OpenIDs, Scan(o) \/ UpdateFromLink(o) PROVE GrantedTo(o)
  BY <1>3, BoundsAssumption DEF Scan, UpdateFromLink, Issue, GrantedTo
<1>4. CASE SetAccountStatus
  <2>1. CASE row.status = "absent" BY <1>4, <2>1 DEF SetAccountStatus, Kept
  <2>2. CASE row.status # "absent" /\ operator = "expired"
    BY <1>4, <2>2 DEF SetAccountStatus, Wiped
  <2>3. CASE row.status # "absent" /\ operator = "alive"
    <3>1. row' = [row EXCEPT !.status = "alive"] /\ row' \in Row
      BY <1>4, <2>3 DEF SetAccountStatus, Statuses
    <3> QED BY <1>4, <2>3, <3>1 DEF SetAccountStatus, Marked, Row
  <2> QED BY <1>4, <2>1, <2>2, <2>3 DEF SetAccountStatus
<1>5. CASE Delete BY <1>5 DEF Delete, Wiped
<1>6. CASE row' = row /\ scans' = scans BY <1>6 DEF Kept
<1> QED
  BY <1>1, <1>2, <1>3, <1>4, <1>5, <1>6
     DEF Next, Running, ResolveStatusChange, PurgeSessions, OperatorFails, SessionLapses, Revoke, Crash, vars

--------------------------------------------------------------------------------
(* The invariant is inductive, one part at a time.                             *)

\* Mutual exclusion on the refresh lock.
LEMMA LockStep ==
    ASSUME TypeOK, LockInv, [Next]_vars PROVE LockInv'
<1> USE NoneAssumption DEF TypeOK, LockInv, workerVars
<1>1. ASSUME NEW w \in Workers, RefreshStep(w) PROVE LockInv'
  <2>1. CASE BeginRefresh(w)
    BY <2>1 DEF BeginRefresh
  <2>2. CASE MarkUnknown(w)
    BY <2>2 DEF MarkUnknown, Release
  <2>3. CASE ExchangeAccepted(w)
    BY <2>3 DEF ExchangeAccepted, Goto
  <2>4. CASE ExchangeReplyLost(w)
    BY <2>4 DEF ExchangeReplyLost, Goto
  <2>5. CASE ExchangeFails(w)
    BY <2>5 DEF ExchangeFails, Goto
  <2>6. CASE ExchangeRejected(w)
    BY <2>6 DEF ExchangeRejected, Goto
  <2>7. CASE ApplyFailure(w)
    BY <2>7 DEF ApplyFailure, Release
  <2>8. CASE SaveRotated(w)
    BY <2>8 DEF SaveRotated, Release, Goto
  <2>9. CASE DiscardRotated(w)
    BY <2>9 DEF DiscardRotated, Release
  <2>10. CASE SaveFails(w)
    BY <2>10 DEF SaveFails, Release
  <2>11. CASE Reread(w)
    BY <2>11 DEF Reread, Release, Goto
  <2>12. CASE FetchBuffer(w)
    BY <2>12 DEF FetchBuffer, Release, Goto
  <2>13. CASE StoreBuffer(w)
    BY <2>13 DEF StoreBuffer, Release
  <2>14. CASE MarkFails(w)
    BY <2>14 DEF MarkFails, Release
  <2> QED
    BY <1>1, <2>1, <2>2, <2>3, <2>4, <2>5, <2>6, <2>7, <2>8, <2>9, <2>10, <2>11, <2>12, <2>13, <2>14
       DEF RefreshStep
<1>2. CASE Crash BY <1>2 DEF Crash
<1>3. CASE UNCHANGED <<lock, pc>> BY <1>3
<1> QED
  BY <1>1, <1>2, <1>3
     DEF Next, Running, CallStep, BeginCall, LookAgain, ExpireSessionOnly, EndCall, StoreSession, DropSession,
         FindNoSession, Scan, UpdateFromLink, ResolveStatusChange, SessionLapses, Revoke,
         SetAccountStatus, PurgeSessions, OperatorFails, Delete, vars

\* What each worker and client remembers stays true whatever the others do: the
\* other workers are outside the lock, and a scan issues a token of its own.
LEMMA WorkerStep ==
    ASSUME TypeOK, RowInv, LockInv, WorkerInv, [Next]_vars PROVE WorkerInv'
<1> USE BoundsAssumption, NoneAssumption, RowFields, RowContents DEF TypeOK, LockInv, WorkerInv, Granted, HasToken, Accepted, workerVars
<1>1. ASSUME NEW w \in Workers, RefreshStep(w) PROVE WorkerInv'
  <2>1. CASE BeginRefresh(w)
    BY <2>1 DEF BeginRefresh, RowInv
  <2>2. CASE MarkUnknown(w)
    BY <2>2 DEF MarkUnknown, Release, NoRow, NoCred
  <2>3. CASE ExchangeAccepted(w)
    BY <2>3 DEF ExchangeAccepted, Goto
  <2>4. CASE ExchangeReplyLost(w)
    BY <2>4 DEF ExchangeReplyLost, Goto, Inconclusive
  <2>5. CASE ExchangeFails(w)
    BY <2>5 DEF ExchangeFails, Goto, Inconclusive
  <2>6. CASE ExchangeRejected(w)
    BY <2>6 DEF ExchangeRejected, Goto
  <2>7. CASE ApplyFailure(w)
    BY <2>7 DEF ApplyFailure, Release, NoRow, NoCred
  <2>8. CASE SaveRotated(w)
    <3>1. CASE Release(w) BY <2>8, <3>1 DEF SaveRotated, Release, NoRow, NoCred
    <3>2. CASE Goto(w, "reread") /\ UNCHANGED <<snap, verdict>>
      BY <2>8, <3>2 DEF SaveRotated, Goto
    <3> QED BY <2>8, <3>1, <3>2 DEF SaveRotated
  <2>9. CASE DiscardRotated(w)
    BY <2>9 DEF DiscardRotated, Release, NoRow, NoCred
  <2>10. CASE SaveFails(w)
    BY <2>10 DEF SaveFails, Release, NoRow, NoCred
  <2>11. CASE Reread(w)
    <3>1. CASE Release(w) BY <2>11, <3>1 DEF Reread, Release, NoRow, NoCred
    <3>2. CASE ~Release(w)
      <4>1. /\ snap' = [snap EXCEPT ![w] = row] /\ pc' = [pc EXCEPT ![w] = "fetch"] /\ pc[w] = "reread"
            /\ row.openid = snap[w].openid /\ row.cred = Rotated(snap[w].cred)
            /\ UNCHANGED <<scans, server, verdict>>
        BY <2>11, <3>2 DEF Reread, Goto
      <4>2. row.status # "absent" /\ (row.cred.seq > 0 => row.cred.scan \in 1..scans)
        <5>1. row.cred.seq = snap[w].cred.seq + 1 /\ snap[w].cred.seq \in Nat
          BY <4>1 DEF Rotated
        <5> QED BY <5>1 DEF RowInv, NoRow, NoCred
      <4> QED BY <4>1, <4>2
    <3> QED BY <3>1, <3>2
  <2>12. CASE FetchBuffer(w)
    BY <2>12 DEF FetchBuffer, Release, NoRow, NoCred, Goto
  <2>13. CASE StoreBuffer(w)
    BY <2>13 DEF StoreBuffer, Release, NoRow, NoCred
  <2>14. CASE MarkFails(w)
    BY <2>14 DEF MarkFails, Release, NoRow, NoCred
  <2> QED
    BY <1>1, <2>1, <2>2, <2>3, <2>4, <2>5, <2>6, <2>7, <2>8, <2>9, <2>10, <2>11, <2>12, <2>13, <2>14
       DEF RefreshStep
<1>2. ASSUME NEW o \in OpenIDs, Scan(o) \/ UpdateFromLink(o) PROVE WorkerInv'
  <2>1. /\ scans' = scans + 1 /\ scans + 1 \in 1..MaxScan
        /\ server' = [server EXCEPT ![scans + 1] = 1]
        /\ UNCHANGED <<pc, snap, verdict>>
    BY <1>2 DEF Scan, UpdateFromLink, Issue
  <2>2. ASSUME NEW v \in Workers, snap[v].cred.seq > 0
        PROVE  server'[snap[v].cred.scan] = server[snap[v].cred.scan] /\ snap[v].cred.scan \in 1..scans'
    BY <2>1, <2>2
  <2> QED BY <2>1, <2>2
<1>3. ASSUME NEW n \in 1..MaxScan, Revoke(n) PROVE WorkerInv'
  BY <1>3 DEF Revoke
<1>4. CASE Crash BY <1>4 DEF Crash, NoRow, NoCred
<1>5. CASE UNCHANGED <<scans, server, pc, snap, verdict>> BY <1>5
<1> QED
  BY <1>1, <1>2, <1>3, <1>4, <1>5
     DEF Next, Running, CallStep, BeginCall, LookAgain, ExpireSessionOnly, EndCall, StoreSession, DropSession,
         FindNoSession, ResolveStatusChange, SessionLapses, SetAccountStatus, PurgeSessions, OperatorFails, Delete, vars

\* Only a call of a session_only account gets to expire it.
LEMMA ClientStep ==
    ASSUME TypeOK, ClientInv, [Next]_vars PROVE ClientInv'
<1> USE DEF TypeOK, ClientInv, clientVars
<1>1. ASSUME NEW c \in Clients, CallStep(c) PROVE ClientInv'
  BY <1>1 DEF CallStep, BeginCall, LookAgain, ExpireSessionOnly, EndCall, StoreSession, DropSession, FindNoSession, Return
<1>2. CASE Crash BY <1>2 DEF Crash
<1>3. CASE UNCHANGED <<cpc, csnap>> BY <1>3
<1> QED
  BY <1>1, <1>2, <1>3
     DEF Next, Running, RefreshStep, BeginRefresh, MarkUnknown, ExchangeAccepted, ExchangeReplyLost,
         ExchangeFails, ExchangeRejected, ApplyFailure, MarkFails, SaveRotated, DiscardRotated, SaveFails, Reread,
         FetchBuffer, StoreBuffer, Scan, UpdateFromLink, ResolveStatusChange, SessionLapses, Revoke,
         SetAccountStatus, PurgeSessions, OperatorFails, Delete, vars

\* The row stays well formed and keeps no token once rejected.
LEMMA RowStep ==
    ASSUME TypeOK, TypeOK', RowInv, LockInv, WorkerInv, ClientInv, RejectedHoldsNoToken, [Next]_vars
    PROVE  RowInv' /\ RejectedHoldsNoToken'
<1> USE BoundsAssumption, RowFields DEF TypeOK, RowInv, RejectedHoldsNoToken, Granted, HasToken
<1>1. CASE Kept BY <1>1 DEF Kept
<1>2. ASSUME NEW w \in Workers, RenewedBy(w) PROVE RowInv' /\ RejectedHoldsNoToken'
  BY <1>2 DEF RenewedBy, Renewed, Rotated, WorkerInv
<1>3. ASSUME NEW o \in OpenIDs, GrantedTo(o) PROVE RowInv' /\ RejectedHoldsNoToken'
  BY <1>3 DEF GrantedTo, Scanned
<1>4. CASE Wiped
  BY <1>4 DEF Wiped, Expired, SessionOnly, Residue, NoRow, NoCred
<1>5. CASE Marked BY <1>5 DEF Marked
<1> QED BY <1>1, <1>2, <1>3, <1>4, <1>5, RowEffect

\* Sessions are only ever added for the identity in the row, and a row changes its
\* identity only when no session is left.
LEMMA SessionStep ==
    ASSUME TypeOK, RowInv, LockInv, WorkerInv, ClientInv, SessionInv, SessionIdentity, [Next]_vars
    PROVE  SessionInv' /\ SessionIdentity'
<1> USE NoneAssumption DEF TypeOK, SessionInv, SessionIdentity
<1>1. ASSUME NEW c \in Clients, NEW r \in Routes, StoreSession(c, r)
      PROVE SessionInv' /\ SessionIdentity'
  <2>1. row' = row /\ \A q \in Routes : sessions'[q] # sessions[q] =>
            sessions'[q].openid = row.openid /\ row.status # "absent"
    BY <1>1 DEF StoreSession
  <2> QED BY <2>1 DEF RowInv
<1>2. ASSUME \A r \in Routes : sessions'[r] \in {sessions[r], NoSession}
      PROVE SessionInv' /\ SessionIdentity'
  <2>1. CASE row'.openid = row.openid BY <1>2, <2>1
  <2>2. CASE sessions' = NoSessions BY <2>2 DEF NoSessions
  <2>3. CASE row.status = "absent"
    BY <1>2, <2>3 DEF RowInv, NoRow
  <2> QED
    BY <2>1, <2>2, <2>3, RowEffect
       DEF Kept, RenewedBy, Renewed, GrantedTo, Scanned, Wiped, Expired, SessionOnly, Marked
<1>3. ASSUME ~ \E c \in Clients, r \in Routes : StoreSession(c, r)
      PROVE \A r \in Routes : sessions'[r] \in {sessions[r], NoSession}
  <2>1. ASSUME NEW w \in Workers, RefreshStep(w), NEW r \in Routes
        PROVE sessions'[r] \in {sessions[r], NoSession}
    BY <2>1 DEF RefreshStep, BeginRefresh, MarkUnknown, ExchangeAccepted, ExchangeReplyLost, ExchangeFails,
                ExchangeRejected, ApplyFailure, MarkFails, SaveRotated, DiscardRotated, SaveFails, Reread,
                FetchBuffer, StoreBuffer, NoSessions
  <2>2. ASSUME NEW c \in Clients, CallStep(c), NEW r \in Routes
        PROVE sessions'[r] \in {sessions[r], NoSession}
    BY <1>3, <2>2 DEF CallStep, BeginCall, LookAgain, ExpireSessionOnly, EndCall, DropSession, FindNoSession, NoSessions
  <2>3. ASSUME NEW q \in Routes, SessionLapses(q), NEW r \in Routes
        PROVE sessions'[r] \in {sessions[r], NoSession}
    BY <2>3 DEF SessionLapses
  <2>4. CASE sessions' \in {sessions, NoSessions}
    BY <2>4 DEF NoSessions
  <2> QED
    BY <2>1, <2>2, <2>3, <2>4
       DEF Next, Running, Scan, UpdateFromLink, ResolveStatusChange, Revoke, SetAccountStatus,
           PurgeSessions, OperatorFails, Delete, Crash, vars
<1> QED BY <1>1, <1>2, <1>3

\* Nobody but the operator disturbs the row under a refresh and keeps its token.
LEMMA TouchedStep ==
    ASSUME TypeOK, RowInv, LockInv, WorkerInv, ClientInv, TouchedInv, [Next]_vars
    PROVE  TouchedInv'
<1> USE NoneAssumption, RowFields DEF TypeOK, TouchedInv, HasToken, workerVars, operatorVars
<1>1. ASSUME NEW w \in Workers, RefreshStep(w) PROVE TouchedInv'
  <2>1. ASSUME NEW v \in Workers, pc'[v] \in {"exchange", "save"}
        PROVE v = w /\ (BeginRefresh(w) \/ ExchangeAccepted(w))
    BY <1>1, <2>1 DEF LockInv, RefreshStep, BeginRefresh, MarkUnknown, ExchangeAccepted, ExchangeReplyLost,
       ExchangeFails, ExchangeRejected, ApplyFailure, MarkFails, SaveRotated, DiscardRotated, SaveFails, Reread,
       FetchBuffer, StoreBuffer, Release, Goto
  <2>2. CASE BeginRefresh(w) BY <2>1, <2>2 DEF BeginRefresh
  <2>3. CASE ExchangeAccepted(w) BY <2>1, <2>3 DEF ExchangeAccepted, Goto
  <2> QED BY <2>1, <2>2, <2>3
<1>2. ASSUME NEW c \in Clients, CallStep(c) PROVE TouchedInv'
  <2>1. row' = row \/ row'.cred.seq = 0
    BY <1>2 DEF CallStep, BeginCall, LookAgain, ExpireSessionOnly, EndCall, StoreSession, DropSession, FindNoSession,
                Expired, NoCred
  <2>2. UNCHANGED <<pc, snap, touched>>
    BY <1>2 DEF CallStep, BeginCall, LookAgain, ExpireSessionOnly, EndCall, StoreSession, DropSession, FindNoSession
  <2> QED BY <2>1, <2>2
<1>3. ASSUME NEW o \in OpenIDs, Scan(o) \/ UpdateFromLink(o) PROVE TouchedInv'
  <2>1. UNCHANGED <<pc, snap, touched>> /\ row'.cred.scan = scans + 1 /\ scans + 1 \in 1..MaxScan
    BY <1>3, BoundsAssumption DEF Scan, UpdateFromLink, Issue, Scanned
  <2>2. ASSUME NEW w \in Workers, snap[w].cred.seq > 0 PROVE snap[w].cred.scan # scans + 1
    BY <2>2, BoundsAssumption DEF WorkerInv, Granted
  <2> QED BY <2>1, <2>2
<1>4. CASE SetAccountStatus
  <2>1. UNCHANGED <<pc, snap>> /\ touched' = touched \cup {row.cred}
    BY <1>4 DEF SetAccountStatus
  <2>2. row'.cred = row.cred \/ row'.cred.seq = 0
    BY <1>4 DEF SetAccountStatus, Expired, NoCred, Row
  <2> QED BY <2>1, <2>2
<1>5. CASE Delete BY <1>5 DEF Delete, NoRow, NoCred
<1>6. CASE Crash BY <1>6 DEF Crash
<1>7. CASE UNCHANGED <<row, pc, snap, touched>> BY <1>7
<1> QED
  BY <1>1, <1>2, <1>3, <1>4, <1>5, <1>6, <1>7
     DEF Next, Running, ResolveStatusChange, SessionLapses, Revoke, PurgeSessions, OperatorFails, vars

\* The newest token is in the row, is about to be saved there, or is excused.
LEMMA TokenStep ==
    ASSUME IInv, TypeOK', [Next]_vars PROVE TokenAccountedFor'
<1> USE NoneAssumption, BoundsAssumption, RowFields DEF IInv, TypeOK, TokenAccountedFor, HasToken, Accepted, workerVars, operatorVars
<1> DEFINE Excused == row.cred \in lost \cup touched
           InHand(w) == pc[w] = "save" /\ snap[w].cred = row.cred
<1>1. ASSUME NEW w \in Workers, RefreshStep(w) PROVE TokenAccountedFor'
  <2> DEFINE n == snap[w].cred.scan
  <2>a. \A v \in Workers : pc[v] = "save" => v = w \/ (BeginRefresh(w) /\ lock = v)
    BY <1>1 DEF LockInv, RefreshStep, BeginRefresh, MarkUnknown, ExchangeAccepted, ExchangeReplyLost,
       ExchangeFails, ExchangeRejected, ApplyFailure, MarkFails, SaveRotated, DiscardRotated, SaveFails, Reread,
       FetchBuffer, StoreBuffer
  <2>1. CASE BeginRefresh(w)
    <3>1. \A v \in Workers : pc[v] # "save"
      BY <2>1 DEF BeginRefresh, LockInv
    <3> QED BY <2>1, <3>1 DEF BeginRefresh
  \* The exchange moves the accepted token on; the one in the row is in hand now.
  <2>2. CASE ExchangeAccepted(w)
    <3>1. /\ row' = row /\ lost' = lost /\ touched' = touched /\ snap' = snap
          /\ pc'[w] = "save" /\ server[n] = snap[w].cred.seq /\ server[n] > 0
          /\ \A m \in 1..MaxScan : m # n => server'[m] = server[m]
      BY <2>2 DEF ExchangeAccepted, Goto
    <3>2. \A v \in Workers : pc[v] # "save"
      BY <2>2, <2>a DEF ExchangeAccepted, BeginRefresh
    <3>3. CASE HasToken(row.cred) /\ row.cred.scan = n
      <4>1. CASE row.cred.seq = snap[w].cred.seq
        <5>1. row.cred = snap[w].cred
          BY <3>3, <4>1, CredEqual
        <5> QED BY <3>1, <5>1
      <4>2. CASE row.cred.seq # snap[w].cred.seq
        BY <3>1, <3>2, <3>3, <4>2
      <4> QED BY <4>1, <4>2
    <3>4. CASE HasToken(row.cred) /\ row.cred.scan # n
      <4>1. row.cred.scan \in 1..MaxScan
        BY <3>4 DEF RowInv, Granted
      <4> QED BY <3>1, <3>2, <3>4, <4>1
    <3> QED BY <3>1, <3>3, <3>4
  <2>3. CASE ExchangeReplyLost(w)
    <3>1. /\ row' = row /\ lost' = lost \cup {snap[w].cred} /\ touched' = touched
          /\ server[n] = snap[w].cred.seq /\ server[n] > 0
          /\ \A m \in 1..MaxScan : m # n => server'[m] = server[m]
      BY <2>3 DEF ExchangeReplyLost
    <3>2. \A v \in Workers : pc[v] # "save"
      BY <2>3, <2>a DEF ExchangeReplyLost, BeginRefresh
    <3>3. CASE HasToken(row.cred) /\ row.cred.scan = n
      <4>1. CASE row.cred.seq = snap[w].cred.seq
        <5>1. row.cred = snap[w].cred
          BY <3>3, <4>1, CredEqual
        <5> QED BY <3>1, <5>1
      <4>2. CASE row.cred.seq # snap[w].cred.seq
        BY <3>1, <3>2, <3>3, <4>2
      <4> QED BY <4>1, <4>2
    <3>4. CASE HasToken(row.cred) /\ row.cred.scan # n
      <4>1. row.cred.scan \in 1..MaxScan
        BY <3>4 DEF RowInv, Granted
      <4> QED BY <3>1, <3>2, <3>4, <4>1
    <3> QED BY <3>1, <3>3, <3>4
  <2>4. CASE SaveRotated(w)
    BY <2>4 DEF SaveRotated, Unchanged, Renewed, Rotated, WorkerInv
  \* A discarded successor means the operator touched the row, or the token is gone.
  <2>5. CASE DiscardRotated(w)
    <3>1. ~Unchanged(snap[w]) /\ pc[w] = "save" /\ UNCHANGED <<row, server, lost, touched>>
      BY <2>5 DEF DiscardRotated
    <3>2. \A v \in Workers : InHand(v) => Excused
      BY <3>1, <2>5, <2>a DEF TouchedInv, WorkerInv, Unchanged, DiscardRotated, BeginRefresh
    <3> QED BY <3>1, <3>2
  <2>6. CASE SaveFails(w)
    <3>1. pc[w] = "save" /\ UNCHANGED <<row, server, touched>> /\ lost' = lost \cup {snap[w].cred}
      BY <2>6 DEF SaveFails
    <3>2. \A v \in Workers : pc[v] = "save" => v = w
      BY <2>6, <2>a DEF SaveFails, BeginRefresh
    <3> QED BY <3>1, <3>2
  \* The other places are not "save": nothing is in hand, the token stays or goes.
  <2>7. CASE /\ pc[w] # "save" /\ ~BeginRefresh(w) /\ UNCHANGED <<server, lost, touched>>
             /\ row'.cred = row.cred \/ ~HasToken(row'.cred)
    <3>1. \A v \in Workers : pc[v] # "save"
      BY <2>7, <2>a
    <3> QED BY <2>7, <3>1
  <2>8. CASE MarkUnknown(w)
    BY <2>7, <2>8 DEF MarkUnknown, BeginRefresh, Row
  <2>9. CASE ApplyFailure(w)
    <3>1. row'.cred = row.cred \/ ~HasToken(row'.cred)
      BY <2>9 DEF ApplyFailure, Unchanged, Expired, SessionOnly, Residue, NoCred, Row
    <3> QED BY <2>7, <2>9, <3>1 DEF ApplyFailure, BeginRefresh
  <2>10. CASE StoreBuffer(w)
    BY <2>7, <2>10 DEF StoreBuffer, Unchanged, Buffered, BeginRefresh
  <2> QED
    BY <1>1, <2>1, <2>2, <2>3, <2>4, <2>5, <2>6, <2>7, <2>8, <2>9, <2>10
       DEF RefreshStep, ExchangeFails, ExchangeRejected, MarkFails, Reread, FetchBuffer, BeginRefresh
<1>2. ASSUME NEW c \in Clients, CallStep(c) PROVE TokenAccountedFor'
  <2>1. row' = row \/ row'.cred.seq = 0
    BY <1>2 DEF CallStep, BeginCall, LookAgain, ExpireSessionOnly, EndCall, StoreSession, DropSession, FindNoSession,
                Expired, NoCred
  <2>2. UNCHANGED <<pc, snap, server, lost, touched>>
    BY <1>2 DEF CallStep, BeginCall, LookAgain, ExpireSessionOnly, EndCall, StoreSession, DropSession, FindNoSession
  <2> QED BY <2>1, <2>2
<1>3. ASSUME NEW o \in OpenIDs, Scan(o) \/ UpdateFromLink(o) PROVE TokenAccountedFor'
  BY <1>3 DEF Scan, UpdateFromLink, Issue, Scanned
<1>4. ASSUME NEW n \in 1..MaxScan, Revoke(n) PROVE TokenAccountedFor'
  <2>1. \A m \in 1..MaxScan : server'[m] = server[m] \/ server'[m] = 0
    BY <1>4 DEF Revoke
  <2> QED BY <1>4, <2>1 DEF Revoke, RowInv, Granted
<1>5. CASE SetAccountStatus
  <2>1. UNCHANGED <<pc, snap, server, lost>> /\ touched' = touched \cup {row.cred}
    BY <1>5 DEF SetAccountStatus
  <2>2. row'.cred = row.cred \/ row'.cred.seq = 0
    BY <1>5 DEF SetAccountStatus, Expired, NoCred, Row
  <2> QED BY <2>1, <2>2
<1>6. CASE Delete BY <1>6 DEF Delete, NoRow, NoCred
<1>7. CASE Crash
  <2>1. /\ UNCHANGED <<row, server, touched>>
        /\ \A w \in Workers : pc[w] = "save" => snap[w].cred \in lost'
        /\ lost \subseteq lost'
    BY <1>7 DEF Crash
  <2> QED BY <2>1
<1>8. CASE UNCHANGED <<row, server, pc, snap, lost, touched>> BY <1>8
<1> QED
  BY <1>1, <1>2, <1>3, <1>4, <1>5, <1>6, <1>7, <1>8
     DEF Next, Running, ResolveStatusChange, SessionLapses, PurgeSessions, OperatorFails, vars

\* The invariant is inductive.
THEOREM NextIInv == IInv /\ [Next]_vars => IInv'
<1> SUFFICES ASSUME IInv, [Next]_vars PROVE IInv'
  OBVIOUS
<1>1. TypeOK' BY TypeStep DEF IInv
<1>2. RowInv' /\ RejectedHoldsNoToken' BY <1>1, RowStep DEF IInv
<1>3. LockInv' BY LockStep DEF IInv
<1>4. WorkerInv' BY WorkerStep DEF IInv
<1>5. ClientInv' BY ClientStep DEF IInv
<1>6. TouchedInv' BY TouchedStep DEF IInv
<1>7. SessionInv' /\ SessionIdentity' BY SessionStep DEF IInv
<1>8. TokenAccountedFor' BY <1>1, TokenStep
<1> QED BY <1>1, <1>2, <1>3, <1>4, <1>5, <1>6, <1>7, <1>8 DEF IInv

\* The invariant holds in every reachable state.
THEOREM Invariance == Spec => []IInv
BY InitIInv, NextIInv, PTL DEF Spec

\* The variables keep their types in every reachable state.
THEOREM TypeCorrect == Spec => []TypeOK
<1>1. IInv => TypeOK BY DEF IInv
<1> QED BY <1>1, Invariance, PTL

\* No identity is ever handed the session of the one that held the slot before.
THEOREM SessionsKeepIdentity == Spec => []SessionIdentity
<1>1. IInv => SessionIdentity BY DEF IInv
<1> QED BY <1>1, Invariance, PTL

\* A rejected row holds no token and no buffer, whoever rejected it.
THEOREM RejectedIsWiped == Spec => []RejectedHoldsNoToken
<1>1. IInv => RejectedHoldsNoToken BY DEF IInv
<1> QED BY <1>1, Invariance, PTL

\* The newest token is never mislaid, except for the excuses it names.
THEOREM NewestTokenKept == Spec => []TokenAccountedFor
<1>1. IInv => TokenAccountedFor BY DEF IInv
<1> QED BY <1>1, Invariance, PTL

--------------------------------------------------------------------------------
(* What no step may do.                                                        *)

\* A refresh never withdraws a good authorization: the CAS of its verdict succeeds
\* only on the row it read, whose token was rejected and has no successor in hand.
THEOREM WithdrawalJustified == Spec => WithdrawsOnlyDead
<1> DEFINE Justified == \A w \in Workers :
          pc[w] = "mark" /\ pc'[w] = "idle" /\ HasToken(row.cred) /\ row'.status \in {"expired", "session_only"}
          /\ row' # row
          => \/ server[row.cred.scan] = 0
             \/ row.cred \in lost \cup touched
<1>1. ASSUME IInv, [Next]_vars PROVE Justified
  <2> SUFFICES ASSUME NEW w \in Workers, pc[w] = "mark", pc'[w] = "idle", HasToken(row.cred),
                      row'.status \in {"expired", "session_only"}, row' # row
               PROVE  server[row.cred.scan] = 0 \/ row.cred \in lost \cup touched
    OBVIOUS
  <2> USE <1>1, NoneAssumption DEF IInv, TypeOK
  <2>1. lock = w /\ \A v \in Workers : pc[v] = "save" => FALSE
    BY DEF LockInv
  <2>2. ApplyFailure(w)
    <3>1. ASSUME NEW v \in Workers, RefreshStep(v) PROVE ApplyFailure(w)
      BY <3>1, <2>1 DEF LockInv, RefreshStep, BeginRefresh, MarkUnknown, ExchangeAccepted, ExchangeReplyLost,
         ExchangeFails, ExchangeRejected, ApplyFailure, MarkFails, SaveRotated, DiscardRotated, SaveFails, Reread,
         FetchBuffer, StoreBuffer, Release, Goto
    <3>2. ~UNCHANGED pc /\ ~UNCHANGED row
      OBVIOUS
    <3> QED
      BY <3>1, <3>2 DEF Next, Running, CallStep, BeginCall, LookAgain, ExpireSessionOnly, EndCall, StoreSession, DropSession,
         FindNoSession, Scan, UpdateFromLink, ResolveStatusChange, SessionLapses, Revoke,
         SetAccountStatus, PurgeSessions, OperatorFails, Delete, Crash, vars, workerVars
  <2>3. row = snap[w] /\ verdict[w] \in {"expired", "session_only"}
    <3>1. row = snap[w] /\ row.status \in {"alive", "unknown"}
      BY <2>2 DEF ApplyFailure, Unchanged, WorkerInv
    <3>2. CASE verdict[w] \in {"alive", "unknown"}
      <4>1. row' = [row EXCEPT !.status = verdict[w]]
        BY <2>2, <3>1, <3>2 DEF ApplyFailure, Unchanged
      <4> QED BY <3>1, <3>2, <4>1 DEF Row
    <3> QED BY <3>1, <3>2 DEF Statuses
  <2>4. ~Accepted(row.cred)
    BY <2>3 DEF WorkerInv
  <2> QED BY <2>1, <2>4 DEF TokenAccountedFor
<1>2. IInv /\ [Next]_vars => [Justified]_vars
  BY <1>1
<1> QED BY <1>2, Invariance, PTL DEF Spec, WithdrawsOnlyDead

\* The token of a row comes back only with a scan: every other write keeps it,
\* renews the one that is there, or removes it.
THEOREM NoRevival == Spec => NoRevivalWithoutScan
<1>1. ASSUME IInv, [Next]_vars, ~HasToken(row.cred), HasToken(row'.cred) PROVE scans' # scans
  <2> USE <1>1, RowFields DEF IInv, TypeOK, HasToken
  <2>1. ~Kept BY DEF Kept
  <2>2. ~ \E w \in Workers : RenewedBy(w) BY DEF RenewedBy, WorkerInv
  <2>3. ~Wiped BY DEF Wiped, Expired, SessionOnly, Residue, NoRow, NoCred
  <2>4. ~Marked BY DEF Marked
  <2>5. \A o \in OpenIDs : GrantedTo(o) => scans' # scans BY DEF GrantedTo
  <2> QED BY <2>1, <2>2, <2>3, <2>4, <2>5, RowEffect
<1>2. IInv /\ [Next]_vars => [~HasToken(row.cred) /\ HasToken(row'.cred) => scans' # scans]_vars
  BY <1>1
<1> QED BY <1>2, Invariance, PTL DEF Spec, NoRevivalWithoutScan

--------------------------------------------------------------------------------
(* Refinement.                                                                 *)

\* The slot implements the register: each step grants the next scan, renews the
\* token by exactly one rotation, withdraws it, or leaves it alone.
THEOREM Refinement == Spec => RegisterSpec
<1> DEFINE A == IF HasToken(row.cred) THEN row.cred ELSE NoCred
<1>1. Init => Register!Init
  BY DEF Init, Register!Init, Register!NoAuthorization, HasToken, NoRow, NoCred
<1>2. ASSUME IInv, [Next]_vars PROVE [Register!Next]_<<A, scans>>
  <2> USE <1>2, RowFields, RowContents, BoundsAssumption DEF IInv, TypeOK, HasToken
  <2>1. CASE Kept BY <2>1 DEF Kept
  <2>2. ASSUME NEW w \in Workers, RenewedBy(w) PROVE Register!Renew
    BY <2>2 DEF RenewedBy, Renewed, Rotated, WorkerInv, Register!Renew, Register!NoAuthorization, NoCred, Cred
  <2>3. ASSUME NEW o \in OpenIDs, GrantedTo(o) PROVE Register!Grant
    BY <2>3 DEF GrantedTo, Scanned, Register!Grant
  <2>4. CASE Wiped
    <3>1. row'.cred.seq = 0 /\ scans' = scans
      BY <2>4 DEF Wiped, Expired, SessionOnly, Residue, NoRow, NoCred
    <3> QED BY <3>1 DEF Register!Withdraw, Register!NoAuthorization, NoCred, Register!Next
  <2>5. CASE Marked BY <2>5 DEF Marked
  <2> QED BY <2>1, <2>2, <2>3, <2>4, <2>5, RowEffect DEF Register!Next
<1> QED BY <1>1, <1>2, Invariance, PTL DEF Spec, RegisterSpec, Register!Spec

--------------------------------------------------------------------------------
(* How far a refresh is from its end: the part of DeadTokenIsNoticed that a    *)
(* step can be held to.                                                        *)

\* How many steps of the worker may still follow, the longest way.
Distance(place) == IF place = "exchange" THEN 5 ELSE IF place = "save" THEN 4
                   ELSE IF place = "reread" THEN 3 ELSE IF place = "fetch" THEN 2
                   ELSE IF place \in {"missing", "mark", "store"} THEN 1 ELSE 0

\* Nobody takes a refresh back, every step of its worker takes it on, and the lock
\* is handed back by the last one: it is free just when all the workers are done.
RefreshAdvances ==
    [][\A w \in Workers : pc[w] # "idle" =>
          /\ Distance(pc'[w]) <= Distance(pc[w])
          /\ RefreshStep(w) => Distance(pc'[w]) < Distance(pc[w])
          /\ lock' = IF pc'[w] = "idle" THEN None ELSE w]_vars

\* A step of a worker that holds the lock leads to a later place.
LEMMA WorkerAdvances ==
    ASSUME TypeOK, NEW w \in Workers, RefreshStep(w), pc[w] # "idle"
    PROVE  Distance(pc'[w]) < Distance(pc[w])
<1> USE DEF TypeOK, Release, Goto
<1>1. \/ pc[w] = "missing" /\ pc'[w] = "idle"
      \/ pc[w] = "exchange" /\ pc'[w] \in {"save", "mark"}
      \/ pc[w] = "mark" /\ pc'[w] = "idle"
      \/ pc[w] = "save" /\ pc'[w] \in {"idle", "reread"}
      \/ pc[w] = "reread" /\ pc'[w] \in {"idle", "fetch"}
      \/ pc[w] = "fetch" /\ pc'[w] \in {"idle", "store"}
      \/ pc[w] = "store" /\ pc'[w] = "idle"
  <2>1. CASE MarkUnknown(w) \/ ApplyFailure(w) \/ MarkFails(w) BY <2>1 DEF MarkUnknown, ApplyFailure, MarkFails
  <2>2. CASE ExchangeAccepted(w) \/ ExchangeReplyLost(w) \/ ExchangeFails(w) \/ ExchangeRejected(w)
    BY <2>2 DEF ExchangeAccepted, ExchangeReplyLost, ExchangeFails, ExchangeRejected
  <2>3. CASE SaveRotated(w) \/ DiscardRotated(w) \/ SaveFails(w)
    BY <2>3 DEF SaveRotated, DiscardRotated, SaveFails
  <2>4. CASE Reread(w) \/ FetchBuffer(w) \/ StoreBuffer(w)
    BY <2>4 DEF Reread, FetchBuffer, StoreBuffer
  <2> QED BY <2>1, <2>2, <2>3, <2>4 DEF RefreshStep, BeginRefresh
<1> QED BY <1>1 DEF Distance

\* Whatever WeChat answers and whoever writes the row, a refresh hands its lock
\* back after at most five steps of its own, or with the process that dies.
THEOREM RefreshesAdvance == Spec => RefreshAdvances
<1>1. ASSUME IInv, [Next]_vars, NEW w \in Workers, pc[w] # "idle"
      PROVE  /\ Distance(pc'[w]) <= Distance(pc[w])
             /\ RefreshStep(w) => Distance(pc'[w]) < Distance(pc[w])
             /\ lock' = IF pc'[w] = "idle" THEN None ELSE w
  <2>0. /\ TypeOK /\ LockInv /\ IInv'
        /\ Distance(pc[w]) \in 0..5 /\ Distance(pc'[w]) \in 0..5
    BY <1>1, NextIInv DEF IInv, Distance
  <2>1. RefreshStep(w) => Distance(pc'[w]) < Distance(pc[w])
    BY <1>1, <2>0, WorkerAdvances
  <2>2. \/ RefreshStep(w)
        \/ pc'[w] = "idle" /\ lock' = None
        \/ pc'[w] = pc[w] /\ lock' = lock
    <3>1. ASSUME NEW v \in Workers, RefreshStep(v) PROVE v = w
      BY <1>1, <2>0, <3>1, NoneAssumption
      DEF LockInv, RefreshStep, BeginRefresh, MarkUnknown, ExchangeAccepted, ExchangeReplyLost, ExchangeFails,
          ExchangeRejected, ApplyFailure, MarkFails, SaveRotated, DiscardRotated, SaveFails, Reread, FetchBuffer, StoreBuffer
    <3>2. CASE Crash BY <3>2 DEF Crash
    <3>3. CASE ~Crash /\ ~ \E v \in Workers : RefreshStep(v)
      <4>1. UNCHANGED workerVars
        BY <1>1, <3>3 DEF Next, Running, CallStep, BeginCall, LookAgain, ExpireSessionOnly, EndCall, StoreSession, DropSession,
           FindNoSession, Scan, UpdateFromLink, ResolveStatusChange, SessionLapses, Revoke,
           SetAccountStatus, PurgeSessions, OperatorFails, Delete, vars
      <4> QED BY <4>1 DEF workerVars
    <3> QED BY <3>1, <3>2, <3>3
  <2>3. CASE RefreshStep(w)
    <3>1. lock = w BY <1>1, <2>0 DEF LockInv
    <3>2. \/ pc'[w] = "idle" /\ lock' = None
          \/ pc'[w] # "idle" /\ lock' = lock
      BY <1>1, <2>0, <2>3
      DEF TypeOK, Release, Goto, RefreshStep, BeginRefresh, MarkUnknown, ExchangeAccepted, ExchangeReplyLost,
          ExchangeFails, ExchangeRejected, ApplyFailure, MarkFails, SaveRotated, DiscardRotated, SaveFails, Reread, FetchBuffer,
          StoreBuffer
    <3> QED BY <2>0, <2>1, <2>3, <3>1, <3>2
  <2>4. CASE pc'[w] = "idle" /\ lock' = None
    <3>1. Distance(pc'[w]) = 0 BY <2>4 DEF Distance
    <3> QED BY <2>0, <2>1, <2>4, <3>1
  <2>5. CASE pc'[w] = pc[w] /\ lock' = lock
    BY <1>1, <2>0, <2>1, <2>5 DEF LockInv
  <2> QED BY <2>2, <2>3, <2>4, <2>5
<1> DEFINE Advance == \A w \in Workers : pc[w] # "idle" =>
                          /\ Distance(pc'[w]) <= Distance(pc[w])
                          /\ RefreshStep(w) => Distance(pc'[w]) < Distance(pc[w])
                          /\ lock' = IF pc'[w] = "idle" THEN None ELSE w
<1>2. IInv /\ [Next]_vars => [Advance]_vars
  BY <1>1
<1> QED BY <1>2, Invariance, PTL DEF Spec, RefreshAdvances
================================================================================
