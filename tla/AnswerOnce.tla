------------------------------ MODULE AnswerOnce ------------------------------
(***************************************************************************)
(* What chat routing promises, without claims, leases or attempts: every   *)
(* task is opened at most once and answered at most once, by one message,  *)
(* and an answer is never withdrawn.  ChatStore implements it.             *)
(***************************************************************************)
EXTENDS Naturals

CONSTANT Tasks

VARIABLES state,      \* of each task
          delivered   \* messages that answer it

AnswerVars == <<state, delivered>>

AnswerInit ==
    /\ state = [t \in Tasks |-> "absent"]
    /\ delivered = [t \in Tasks |-> 0]

Open(T) ==
    /\ \A t \in T : state[t] = "absent"
    /\ state' = [t \in Tasks |-> IF t \in T THEN "open" ELSE state[t]]
    /\ UNCHANGED delivered

Answer(t, s) ==
    /\ state[t] = "open"
    /\ state' = [state EXCEPT ![t] = s]
    /\ delivered' = [delivered EXCEPT ![t] = @ + 1]

AnswerNext ==
    \/ \E T \in SUBSET Tasks : Open(T)
    \/ \E t \in Tasks, s \in {"responded", "failed"} : Answer(t, s)

AnswerSpec == AnswerInit /\ [][AnswerNext]_AnswerVars
=============================================================================
