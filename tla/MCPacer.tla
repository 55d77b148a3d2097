--------------------------------- MODULE MCPacer --------------------------------
(* Instances of Pacer for TLC.                                                 *)
EXTENDS Pacer, TLC

CONSTANTS a1, a2, p1, p2, p3

Tuned == {[gap |-> 2, wait |-> 4], [gap |-> 3, wait |-> 2], [gap |-> 0, wait |-> 0]}

PacerSymmetry == Permutations(Accounts) \cup Permutations(Callers)
================================================================================
