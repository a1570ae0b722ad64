--------------------------- MODULE ProviderLedger ---------------------------
(***************************************************************************)
(* The provider call ledger: provider_execution_runs and                    *)
(* provider_call_attempts with the transactions of backend/store.py on them *)
(* (backend/provider_call_ledger.py only forwards to those), under the most *)
(* general caller.                                                          *)
(*                                                                          *)
(* A run is named by its client_request_id, the key that makes its creation *)
(* idempotent; an attempt by its sequence number.  The token of an attempt  *)
(* is given to the caller that reserved it and to nobody else, so finishing *)
(* somebody else's attempt is not in the model.  Abstracted: routes, target *)
(* bindings, policies and their seals, which only refuse; a refusal changes *)
(* nothing.  So do replays: create, bind, finish and close return the row   *)
(* when they are repeated with the same arguments.                          *)
(***************************************************************************)
EXTENDS Integers, FiniteSets

CONSTANTS
    Runs,       \* client request ids
    Rounds,     \* ids of rounds rows
    Kinds,      \* kinds of provider calls
    MaxBudget,  \* the largest max_calls (1000 in the code)
    NoRound

ASSUME LedgerAssumption == MaxBudget \in Nat /\ NoRound \notin Rounds

VARIABLES
    ledger,     \* provider_execution_runs
    attempt     \* provider_call_attempts, by run and sequence_no

ledgerVars == <<ledger, attempt>>

Slots == 1 .. MaxBudget
Outcomes == {"RESPONDED", "FAILED", "INVALID", "CANCELLED", "ABANDONED"}
ClosedRun == {"COMPLETED", "CANCELLED", "ABANDONED"}

\* A kind that kind_call_limits does not name has the limit MaxBudget.
NoRun == [status |-> "NONE", max |-> 0, limit |-> [k \in Kinds |-> 0],
          reserved |-> 0, completed |-> 0, round |-> NoRound]
NoAttempt == [kind |-> "none", status |-> "NONE"]

Created(r) == ledger[r].status # "NONE"
Reserved(r) == {s \in Slots : attempt[r][s].status # "NONE"}
Started(r) == {s \in Slots : attempt[r][s].status = "STARTED"}
Settled(r) == {s \in Slots : attempt[r][s].status \in Outcomes}
OfKind(r, k) == {s \in Reserved(r) : attempt[r][s].kind = k}

LedgerTypeOK ==
    /\ ledger \in [Runs -> [status : {"NONE", "OPEN", "EXHAUSTED"} \cup ClosedRun,
                            max : 0 .. MaxBudget, limit : [Kinds -> 0 .. MaxBudget],
                            reserved : 0 .. MaxBudget, completed : 0 .. MaxBudget,
                            round : Rounds \cup {NoRound}]]
    /\ attempt \in [Runs -> [Slots -> [kind : Kinds \cup {"none"},
                                       status : {"NONE", "STARTED"} \cup Outcomes]]]

LedgerInit ==
    /\ ledger = [r \in Runs |-> NoRun]
    /\ attempt = [r \in Runs |-> [s \in Slots |-> NoAttempt]]

-----------------------------------------------------------------------------

CreateRun(r, max, limit) ==
    /\ ~ Created(r)
    /\ ledger' = [ledger EXCEPT ![r] = [NoRun EXCEPT !.status = "OPEN", !.max = max,
                                                      !.limit = limit]]
    /\ UNCHANGED attempt

\* A run is bound once, and a unique index admits one run per round.
BindRound(r, d) ==
    /\ Created(r) /\ ledger[r].round = NoRound
    /\ \A x \in Runs : ledger[x].round # d
    /\ ledger' = [ledger EXCEPT ![r].round = d]
    /\ UNCHANGED attempt

Reserve_OneMore(r, k) ==   \* mutant: the budget is compared after it is spent
    /\ ledger[r].status = "OPEN" /\ ledger[r].reserved <= ledger[r].max
    /\ Cardinality(OfKind(r, k)) < ledger[r].limit[k]
    /\ LET n == ledger[r].reserved + 1 IN
          /\ attempt' = [attempt EXCEPT ![r][n] = [kind |-> k, status |-> "STARTED"]]
          /\ ledger' = [ledger EXCEPT
                 ![r].reserved = n,
                 ![r].status = IF n > ledger[r].max THEN "EXHAUSTED" ELSE "OPEN"]

Reserve_CountStarted(r, k) ==   \* mutant: a settled call gives its kind back
    /\ ledger[r].status = "OPEN" /\ ledger[r].reserved < ledger[r].max
    /\ Cardinality(OfKind(r, k) \cap Started(r)) < ledger[r].limit[k]
    /\ LET n == ledger[r].reserved + 1 IN
          /\ attempt' = [attempt EXCEPT ![r][n] = [kind |-> k, status |-> "STARTED"]]
          /\ ledger' = [ledger EXCEPT
                 ![r].reserved = n,
                 ![r].status = IF n >= ledger[r].max THEN "EXHAUSTED" ELSE "OPEN"]

\* The budget of the run, then that of the kind; the attempt is inserted and
\* the slot spent in one transaction.
Reserve(r, k) ==
    /\ ledger[r].status = "OPEN" /\ ledger[r].reserved < ledger[r].max
    /\ Cardinality(OfKind(r, k)) < ledger[r].limit[k]
    /\ LET n == ledger[r].reserved + 1 IN
          /\ attempt' = [attempt EXCEPT ![r][n] = [kind |-> k, status |-> "STARTED"]]
          /\ ledger' = [ledger EXCEPT
                 ![r].reserved = n,
                 ![r].status = IF n >= ledger[r].max THEN "EXHAUSTED" ELSE "OPEN"]

\* The row of a run when n more of its calls have an outcome.
AfterSettling(l, n) ==
    [l EXCEPT !.completed = l.completed + n,
              !.status = IF l.status = "EXHAUSTED" /\ l.completed + n = l.reserved
                         THEN "COMPLETED" ELSE l.status]

FinishCall_Overwrite(r, s, o) ==   \* mutant: a second outcome is accepted
    /\ attempt[r][s].status # "NONE"
    /\ attempt' = [attempt EXCEPT ![r][s].status = o]
    /\ ledger' = [ledger EXCEPT ![r] = AfterSettling(ledger[r], 1)]

\* finish_provider_call, by the holder of the attempt's token.
FinishCall(r, s, o) ==
    /\ attempt[r][s].status = "STARTED"
    /\ attempt' = [attempt EXCEPT ![r][s].status = o]
    /\ ledger' = [ledger EXCEPT ![r] = AfterSettling(ledger[r], 1)]

AbandonStarted_Refund(r) ==   \* mutant: the slots of lost calls are given back
    /\ Created(r) /\ Started(r) # {}
    /\ attempt' = [attempt EXCEPT ![r] =
           [s \in Slots |-> IF s \in Started(r) THEN NoAttempt ELSE attempt[r][s]]]
    /\ ledger' = [ledger EXCEPT ![r].reserved = @ - Cardinality(Started(r)),
                                ![r].status = "OPEN"]

\* abandon_started_provider_calls: whatever was in flight has an outcome now,
\* and its slot stays spent.
AbandonStarted(r) ==
    /\ Created(r) /\ Started(r) # {}
    /\ attempt' = [attempt EXCEPT ![r] =
           [s \in Slots |-> IF s \in Started(r) THEN [attempt[r][s] EXCEPT !.status = "ABANDONED"]
                            ELSE attempt[r][s]]]
    /\ ledger' = [ledger EXCEPT ![r] = AfterSettling(ledger[r], Cardinality(Started(r)))]

\* finish_provider_execution_run.  Only tests call it.
CloseRun(r, o) ==
    /\ ledger[r].status \in {"OPEN", "EXHAUSTED"} /\ Started(r) = {}
    /\ ledger' = [ledger EXCEPT ![r].status = o]
    /\ UNCHANGED attempt

LedgerStep(r) ==
    \/ \E d \in Rounds : BindRound(r, d)
    \/ \E k \in Kinds : Reserve(r, k)
    \/ \E s \in Slots, o \in Outcomes : FinishCall(r, s, o)
    \/ AbandonStarted(r)
    \/ \E o \in ClosedRun : CloseRun(r, o)
    \/ ~ Created(r) /\ \E max \in 1 .. MaxBudget, limit \in [Kinds -> 0 .. MaxBudget] :
                           CreateRun(r, max, limit)

LedgerNext == \E r \in Runs : LedgerStep(r)
LedgerSpec == LedgerInit /\ [][LedgerNext]_ledgerVars

-----------------------------------------------------------------------------

\* The counters and the status of a run, which the store updates one by one,
\* agree with its attempts: slots are numbered without gaps and within the
\* budget, completed_calls counts the settled ones, a run is EXHAUSTED exactly
\* while its last calls are in flight, and a closed run has none in flight.
AccountsAgree ==
    \A r \in Runs :
       LET l == ledger[r] IN
       /\ Reserved(r) = 1 .. l.reserved /\ l.reserved <= l.max
       /\ l.completed = Cardinality(Settled(r))
       /\ l.status = "OPEN" => l.reserved < l.max
       /\ l.status = "EXHAUSTED" => l.reserved = l.max /\ Started(r) # {}
       /\ l.status \in ClosedRun => Started(r) = {}

\* However many calls of a kind failed, were abandoned or are in flight,
\* together they stay within the limit sealed for that kind.
KindLimitsKept ==
    \A r \in Runs, k \in Kinds : Cardinality(OfKind(r, k)) <= ledger[r].limit[k]

\* What has been authorised, bound, spent or settled stays so: no later
\* transaction changes a budget, moves a run to another round, or gives a call
\* a second outcome.
LedgerIsFinal ==
    [][\A r \in Runs :
          Created(r) =>
             /\ ledger'[r].max = ledger[r].max /\ ledger'[r].limit = ledger[r].limit
             /\ ledger[r].round # NoRound => ledger'[r].round = ledger[r].round
             /\ \A s \in Reserved(r) :
                   /\ attempt'[r][s].kind = attempt[r][s].kind
                   /\ s \in Settled(r) => attempt'[r][s] = attempt[r][s]]_ledgerVars

\* The ledger as the promise made to the user.
Budget == INSTANCE CallBudget WITH
    granted <- {r \in Runs : Created(r)},
    left <- [r \in Runs |-> ledger[r].max - ledger[r].reserved],
    pending <- [r \in Runs |-> ledger[r].reserved - ledger[r].completed]

\* Calls are paid before they are made and never paid back, whatever finish,
\* abandon, bind, close and replays do to the rows.
ImplementsCallBudget == Budget!BudgetSpec
=============================================================================
