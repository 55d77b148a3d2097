------------------------- MODULE AuthorizationRegister -------------------------
(* What one account slot promises about the WeChat authorization it holds: an  *)
(* authorization comes from a scan and from nothing else, is renewed one       *)
(* rotation at a time, and once withdrawn never comes back.                    *)
EXTENDS Naturals

CONSTANTS MaxScan,      \* how many scans a behaviour may contain
          MaxSeq        \* how many times one authorization is rotated

VARIABLES auth,         \* the authorization held: [scan, seq], or NoAuthorization
          issued        \* the number of scans completed so far

NoAuthorization == [scan |-> 0, seq |-> 0]

Init == auth = NoAuthorization /\ issued = 0

\* A scan completes; it may land in this slot or in another one.
Grant == /\ issued < MaxScan
         /\ issued' = issued + 1
         /\ auth' = [scan |-> issued', seq |-> 1]

\* The token is replaced by its successor, exactly one rotation later.
Renew == /\ auth # NoAuthorization
         /\ auth.seq < MaxSeq
         /\ auth' = [auth EXCEPT !.seq = @ + 1]
         /\ UNCHANGED issued

Withdraw == auth' = NoAuthorization /\ UNCHANGED issued

Next == Grant \/ Renew \/ Withdraw

Spec == Init /\ [][Next]_<<auth, issued>>
================================================================================
