------------------------------ MODULE LoginBudget ------------------------------
(* The login budget of one account: a sliding window over the OAuth-layer      *)
(* calls its traffic caused (login_budget.go).  A caller reads the clock and    *)
(* then waits for the table's mutex, so uses may be recorded late and out of    *)
(* order; MaxLag bounds that wait.                                             *)
EXTENDS Integers, Sequences, FiniteSets

CONSTANTS Limit,        \* calls allowed inside one window
          BudgetWindow, \* length of the window, in ticks
          MaxLag        \* bound: ticks between reading the clock and the mutex

ASSUME BudgetAssumption == Limit \in Nat \ {0} /\ MaxLag \in Nat /\ BudgetWindow \in Nat

VARIABLES now,          \* the clock
          uses,         \* budgetAccount.uses: clock readings of the claimed calls
          refusing,     \* budgetAccount.refused # 0
          grants        \* ghost: when each call was really allowed, this process

budgetVars == <<uses, refusing, grants>>

\* A clock reading a caller may hold when it gets the mutex.
Readings == {t \in (now - MaxLag)..now : t >= 0}

Recent(t, reading) == t > reading - BudgetWindow

\* Fault: the oldest use is dropped whether or not it left the window.
StaleEager(reading) == {IF uses = <<>> THEN 0 ELSE 1}
\* How many uses are dropped (there is one such number): they go from the front,
\* up to the first recent one.
Stale(reading) == {k \in 0..Len(uses) : /\ \A i \in 1..k : ~Recent(uses[i], reading)
                                        /\ k < Len(uses) => Recent(uses[k + 1], reading)}

Kept(k) == SubSeq(uses, k + 1, Len(uses))

\* take() says yes: the call is recorded under the caller's clock reading.
Grant == \E reading \in Readings : \E k \in Stale(reading) :
            /\ Len(Kept(k)) < Limit
            /\ uses' = Append(Kept(k), reading)
            /\ grants' = Append(grants, now)
            /\ UNCHANGED refusing

\* take() says no.  A long enough run of refusals is reported and forgotten.
Refuse == \E reading \in Readings : \E k \in Stale(reading) :
            /\ Len(Kept(k)) >= Limit
            /\ uses' = Kept(k)
            /\ \/ refusing' = TRUE
               \/ refusing /\ refusing' = FALSE
            /\ UNCHANGED grants

\* Another account finds the table full: this one goes if its last recorded use
\* has left the window and it has no refusals to report.
PruneAccount == \E reading \in Readings :
            /\ ~refusing /\ uses # <<>>
            /\ ~Recent(uses[Len(uses)], reading)
            /\ uses' = <<>>
            /\ UNCHANGED <<refusing, grants>>

BudgetInit == uses = <<>> /\ refusing = FALSE /\ grants = <<>>

\* A restart: newLoginBudget.
BudgetReset == uses' = <<>> /\ refusing' = FALSE /\ grants' = <<>>

--------------------------------------------------------------------------------
\* No more than Limit OAuth-layer calls are let through in any span of the
\* window's length, short of the longest wait for the mutex: whatever the order
\* in which late clock readings are recorded, and although a full table forgets
\* an account by its last recorded use only (login_budget.go:86, :129).
WithinBudget == \A i \in DOMAIN grants :
                   i + Limit <= Len(grants) => grants[i + Limit] - grants[i] >= BudgetWindow - MaxLag
================================================================================
