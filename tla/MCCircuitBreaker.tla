---------------------------- MODULE MCCircuitBreaker ---------------------------
(* Instances of CircuitBreaker for TLC.                                        *)
EXTENDS CircuitBreaker, TLC

CONSTANTS x, y, m1, m2, r1, r2

Key(account, app, op) == [account |-> account, app |-> app, op |-> op]

\* Two AppIDs of one account, one of them in two request classes.
CodeKeys == {Key(x, m1, "getCode"), Key(x, m2, "getCode"), Key(x, m2, "getPhone")}

\* Targets of two accounts whose refusals do not touch the session layer.
PhoneKeys == {Key(a, m, "getPhone") : a \in {x, y}, m \in {m1, m2}}

RequestSymmetry == Permutations(Requests)
TableSymmetry == Permutations(Requests) \cup Permutations({x, y}) \cup Permutations({m1, m2})
================================================================================
