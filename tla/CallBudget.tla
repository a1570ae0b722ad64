----------------------------- MODULE CallBudget -----------------------------
(***************************************************************************)
(* What a user who authorises provider calls is promised: a run is granted  *)
(* a number of calls once, every call is paid before it is made, and nothing *)
(* is ever paid back, whatever becomes of the call.                         *)
(***************************************************************************)
EXTENDS Integers

CONSTANTS Runs, MaxBudget

VARIABLES
    granted,    \* the runs that have been authorised
    left,       \* calls a run may still make
    pending     \* calls made whose outcome is not known yet

budgetVars == <<granted, left, pending>>

BudgetInit ==
    /\ granted = {}
    /\ left = [r \in Runs |-> 0]
    /\ pending = [r \in Runs |-> 0]

Grant(r) ==
    /\ r \notin granted
    /\ granted' = granted \cup {r}
    /\ \E n \in 1 .. MaxBudget : left' = [left EXCEPT ![r] = n]
    /\ UNCHANGED pending

Spend(r) ==
    /\ left[r] > 0
    /\ left' = [left EXCEPT ![r] = @ - 1]
    /\ pending' = [pending EXCEPT ![r] = @ + 1]
    /\ UNCHANGED granted

Settle(r) ==
    /\ \E n \in 1 .. pending[r] : pending' = [pending EXCEPT ![r] = @ - n]
    /\ UNCHANGED <<granted, left>>

BudgetNext == \E r \in Runs : Grant(r) \/ Spend(r) \/ Settle(r)
BudgetSpec == BudgetInit /\ [][BudgetNext]_budgetVars
=============================================================================
