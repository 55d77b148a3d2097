----------------------------- MODULE MCCodeSession -----------------------------
(* Requests for a code of one AppID, and other requests.                       *)
EXTENDS CodeSession

MCAppOf == [c \in CodeCalls |-> CHOOSE a \in AppIDs : TRUE]

\* An account in order, with a session whose one-shot key was used before.
InOrder == Init /\ acc.status = "alive" /\ row.live /\ row.spent
LocksSpec == InOrder /\ [][Next]_vars /\ Fairness
================================================================================
