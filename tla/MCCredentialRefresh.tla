-------------------------- MODULE MCCredentialRefresh --------------------------
(* Instances of CredentialRefresh for TLC.                                     *)
EXTENDS CredentialRefresh, TLC

CONSTANTS o1, o2, w1, w2, c1, r1

\* Workers are interchangeable (no property or action names one of them).
RefreshSymmetry == Permutations(Workers) \cup Permutations(OpenIDs)
================================================================================
