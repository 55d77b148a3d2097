------------------------------ MODULE SessionCell ------------------------------
(* What the store promises about the one protocol session it keeps for an      *)
(* account on one egress route, whoever asks and whatever stops: sessions       *)
(* enter it in the order they are issued, each once, and only for the           *)
(* authorization that opened them or in place of the session whose one-shot key *)
(* they were exchanged for; a key once spent stays spent; a restricted account  *)
(* keeps its session until it is given up as a whole.                           *)
EXTENDS Naturals

CONSTANTS MaxAuth,      \* bound on authorizations
          MaxSessions   \* bound on sessions issued

VARIABLES auth,         \* the authorization of the account
          status,       \* alive, session_only or expired
          cell,         \* the session kept, or NoSession
          issued,       \* how many sessions were issued
          inflight      \* the newest one, while it is not stored yet

vars == <<auth, status, cell, issued, inflight>>

Session == [id : 1..MaxSessions, owner : 1..MaxAuth, live : BOOLEAN, spent : BOOLEAN]
NoSession == [id |-> 0, owner |-> 0, live |-> FALSE, spent |-> TRUE]

\* A PSK whose deadline has not passed, or a key that is left.
Usable == cell.live \/ ~cell.spent

Init == /\ auth = 1 /\ status \in {"alive", "session_only"}
        /\ \E live, spent \in BOOLEAN :
              cell \in {NoSession, [id |-> 1, owner |-> 1, live |-> live, spent |-> spent]}
        /\ issued = cell.id /\ inflight = NoSession

--------------------------------------------------------------------------------
(* The account                                                                 *)

Scan == /\ auth < MaxAuth
        /\ auth' = auth + 1 /\ status' = "alive" /\ cell' \in {cell, NoSession}
        /\ UNCHANGED <<issued, inflight>>

Renew == /\ status = "alive" /\ auth < MaxAuth
         /\ auth' = auth + 1
         /\ UNCHANGED <<status, cell, issued, inflight>>

\* A refused authorization leaves what can still be used, and only that.
Restrict == /\ status = "alive" /\ Usable
            /\ status' = "session_only"
            /\ UNCHANGED <<auth, cell, issued, inflight>>

\* The account is given up, even while a successor is on its way to it.
GiveUp == /\ status = "session_only" \/ (status = "alive" /\ ~Usable)
          /\ status' = "expired" /\ cell' = NoSession
          /\ UNCHANGED <<auth, issued, inflight>>

--------------------------------------------------------------------------------
(* The session                                                                 *)

\* One exchange with the upstream at a time: a login, or a key for its successor.
Issue == /\ inflight = NoSession /\ issued < MaxSessions
         /\ issued' = issued + 1
         /\ inflight' \in {s \in Session : s.id = issued'}
         /\ UNCHANGED <<auth, status, cell>>

Lose == /\ inflight # NoSession /\ inflight' = NoSession
        /\ UNCHANGED <<auth, status, cell, issued>>

Opened == status = "alive" /\ inflight.owner = auth
Succeeds == cell # NoSession /\ cell.spent /\ inflight.owner = cell.owner

Store == /\ inflight # NoSession /\ status # "expired" /\ (Opened \/ Succeeds)
         /\ cell' = inflight /\ inflight' = NoSession
         /\ UNCHANGED <<auth, status, issued>>

\* The key is taken out, before it is sent.
Spend == /\ cell # NoSession /\ ~cell.spent /\ status # "expired"
         /\ cell' = [cell EXCEPT !.spent = TRUE]
         /\ UNCHANGED <<auth, status, issued, inflight>>

\* A session that was refused: its key is left, if it has one, and otherwise it
\* goes, which only an account that can log in again may afford.
Retire == /\ cell # NoSession /\ ~cell.spent
          /\ cell' = [cell EXCEPT !.live = FALSE]
          /\ UNCHANGED <<auth, status, issued, inflight>>

Clear == /\ status = "alive" /\ cell' = NoSession
         /\ UNCHANGED <<auth, status, issued, inflight>>

Next == Scan \/ Renew \/ Restrict \/ GiveUp \/ Issue \/ Lose \/ Store \/ Spend \/ Retire \/ Clear

Spec == Init /\ [][Next]_vars
================================================================================
