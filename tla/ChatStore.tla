------------------------------ MODULE ChatStore ------------------------------
(***************************************************************************)
(* The chat-routing tables of the SQLite store and the transactions that   *)
(* change them (backend/store.py).  A user message opens a request; every  *)
(* member it must be answered by is a target of that request; a runner     *)
(* claims a target under a lease, calls a model, and commits one message   *)
(* that terminates the target.  Every store method takes the store lock    *)
(* and runs in one SQLite transaction, so every operator below is a single *)
(* atomic step.                                                            *)
(*                                                                         *)
(* Next is the most general client: any caller, in any order, with any     *)
(* claim token.  The runners that really call the store (IdleRunner,       *)
(* RoundRunner) extend this module and take only some of these steps.      *)
(*                                                                         *)
(* A claim token is a fresh random id; the n-th claim of a target is       *)
(* modelled by the token n, which is fresh because attempt_count only      *)
(* grows.  The empty token is 0.                                           *)
(***************************************************************************)
EXTENDS Naturals, FiniteSets

CONSTANTS
    Requests,       \* chat_requests rows, one per client message that is routed
    Members,        \* AI members of the room
    MaxAttempts     \* bound on the claims of one target (the code has none)

ASSUME MaxAttemptsAssumption == MaxAttempts \in Nat \ {0}

Targets == Requests \X Members
Attempts == 1 .. MaxAttempts
NoToken == 0

TerminalTarget == {"RESPONDED", "FAILED"}
TargetStatus == {"NONE", "PENDING", "PROCESSING"} \cup TerminalTarget
OpenRequest == {"PENDING", "PROCESSING"}
TerminalRequest == {"COMPLETED", "PARTIAL", "FAILED", "CANCELLED"}
RequestStatus == {"NONE"} \cup OpenRequest \cup TerminalRequest
AttemptStatus == {"NONE", "STARTED", "ABANDONED"} \cup TerminalTarget

VARIABLES
    request,        \* chat_requests.status
    mode,           \* chat_requests.target_mode
    target,         \* chat_request_targets.status
    token,          \* chat_request_targets.claim_token
    lease,          \* is chat_request_targets.lease_until in the past?
    attemptCount,   \* chat_request_targets.attempt_count
    attempt,        \* chat_request_attempts.status, by claim
    replies         \* messages written as the answer of a target

chatVars == <<request, mode, target, token, lease, attemptCount, attempt, replies>>

ChatTypeOK ==
    /\ request \in [Requests -> RequestStatus]
    /\ mode \in [Requests -> {"explicit", "moderated"}]
    /\ target \in [Targets -> TargetStatus]
    /\ token \in [Targets -> 0 .. MaxAttempts]
    /\ lease \in [Targets -> {"none", "live", "expired"}]
    /\ attemptCount \in [Targets -> 0 .. MaxAttempts]
    /\ attempt \in [Targets -> [Attempts -> AttemptStatus]]
    /\ replies \in [Targets -> Nat]

ChatInit ==
    /\ request = [r \in Requests |-> "NONE"]
    /\ mode = [r \in Requests |-> "explicit"]
    /\ target = [t \in Targets |-> "NONE"]
    /\ token = [t \in Targets |-> NoToken]
    /\ lease = [t \in Targets |-> "none"]
    /\ attemptCount = [t \in Targets |-> 0]
    /\ attempt = [t \in Targets |-> [n \in Attempts |-> "NONE"]]
    /\ replies = [t \in Targets |-> 0]

-----------------------------------------------------------------------------
(* _refresh_chat_request_status: the request status derived from its rows.  *)

StatusesOf(r, tgt) == {tgt[<<r, m>>] : m \in Members} \ {"NONE"}

RefreshedStatus_Verbatim(r, tgt) ==   \* mutant: a unanimous status is stored as it is
    LET S == StatusesOf(r, tgt) IN
    IF Cardinality(S) = 1 THEN CHOOSE s \in S : TRUE
    ELSE IF S \cap OpenRequest = {} THEN "PARTIAL" ELSE "PROCESSING"

RefreshedStatus_IgnoreRunning(r, tgt) ==   \* mutant: a mixed request looks finished
    LET S == StatusesOf(r, tgt) IN
    IF S = {"PENDING"} THEN "PENDING"
    ELSE IF S = {} THEN "PROCESSING"
    ELSE IF S = {"RESPONDED"} THEN "COMPLETED"
    ELSE IF S = {"FAILED"} THEN "FAILED"
    ELSE "PARTIAL"

RefreshedStatus(r, tgt) ==
    LET S == StatusesOf(r, tgt) IN
    IF S = {"PENDING"} THEN "PENDING"
    ELSE IF S = {} \/ S \cap OpenRequest # {} THEN "PROCESSING"
    ELSE IF S = {"RESPONDED"} THEN "COMPLETED"
    ELSE IF S = {"FAILED"} THEN "FAILED"
    ELSE "PARTIAL"

HasTarget(r) == StatusesOf(r, target) # {}

-----------------------------------------------------------------------------
(* create_user_message_request, the branch that inserts a request: an       *)
(* explicit request has one PENDING row per mention, a moderated one either *)
(* none (round interjection) or the preselected member (idle auto-reply).   *)
(* A replay with the same client_message_id returns the stored request and  *)
(* changes no row.                                                          *)

CreateRequest(r, md, M) ==
    /\ request[r] = "NONE"
    /\ IF md = "explicit" THEN M # {} ELSE Cardinality(M) <= 1
    /\ request' = [request EXCEPT ![r] = "PENDING"]
    /\ mode' = [mode EXCEPT ![r] = md]
    /\ target' = [t \in Targets |->
                    IF t[1] = r /\ t[2] \in M THEN "PENDING" ELSE target[t]]
    /\ UNCHANGED <<token, lease, attemptCount, attempt, replies>>

Claimable(t) ==
    \/ target[t] = "PENDING"
    \/ target[t] = "PROCESSING" /\ lease[t] = "expired"

\* UPDATE chat_request_attempts SET status=s WHERE claim_token=k AND status='STARTED'
Ended(t, k, s) ==
    [n \in Attempts |-> IF n = k /\ attempt[t][n] = "STARTED" THEN s ELSE attempt[t][n]]

\* The rows a successful claim writes: the n-th attempt starts, the attempt
\* whose lease it takes over is abandoned.
StartAttempt(t) ==
    LET n == attemptCount[t] + 1 IN
    /\ n \in Attempts
    /\ target' = [target EXCEPT ![t] = "PROCESSING"]
    /\ token' = [token EXCEPT ![t] = n]
    /\ lease' = [lease EXCEPT ![t] = "live"]
    /\ attemptCount' = [attemptCount EXCEPT ![t] = n]
    /\ attempt' = [attempt EXCEPT ![t] =
                     [Ended(t, token[t], "ABANDONED") EXCEPT ![n] = "STARTED"]]
    /\ request' = [request EXCEPT ![t[1]] = "PROCESSING"]
    /\ UNCHANGED <<mode, replies>>

\* claim_chat_target; without Claimable it returns "" and changes nothing.
Claim(t) == Claimable(t) /\ StartAttempt(t)

\* assign_moderated_chat_target inserts the only row of a moderated request,
\* already PROCESSING.
AssignModerated(t) ==
    /\ mode[t[1]] = "moderated"
    /\ request[t[1]] \in OpenRequest
    /\ ~ HasTarget(t[1])
    /\ StartAttempt(t)

Reopen_NoRefresh(T) ==   \* mutant: the request is not refreshed
    /\ target' = [t \in Targets |-> IF t \in T THEN "PENDING" ELSE target[t]]
    /\ token' = [t \in Targets |-> IF t \in T THEN NoToken ELSE token[t]]
    /\ lease' = [t \in Targets |-> IF t \in T THEN "none" ELSE lease[t]]
    /\ attempt' = [t \in Targets |->
                     IF t \in T THEN Ended(t, token[t], "ABANDONED") ELSE attempt[t]]
    /\ UNCHANGED <<request, mode, attemptCount, replies>>

\* The rows of T go back to PENDING without a token, their running attempts
\* are abandoned and the requests they belong to are refreshed.
Reopen(T) ==
    /\ target' = [t \in Targets |-> IF t \in T THEN "PENDING" ELSE target[t]]
    /\ token' = [t \in Targets |-> IF t \in T THEN NoToken ELSE token[t]]
    /\ lease' = [t \in Targets |-> IF t \in T THEN "none" ELSE lease[t]]
    /\ attempt' = [t \in Targets |->
                     IF t \in T THEN Ended(t, token[t], "ABANDONED") ELSE attempt[t]]
    /\ request' = [r \in Requests |->
                     IF \E t \in T : t[1] = r THEN RefreshedStatus(r, target')
                     ELSE request[r]]
    /\ UNCHANGED <<mode, attemptCount, replies>>

Owned(t, k) == k # NoToken /\ target[t] = "PROCESSING" /\ token[t] = k

\* release_chat_target; a token that no longer owns the row changes nothing.
Release(t, k) == Owned(t, k) /\ Reopen({t})

\* recover_expired_chat_targets, filtered to the requests in R.
ExpiredTargets_LeaseOnly(R) ==   \* mutant: lease_until<=now alone, 0 when released
    {t \in Targets : t[1] \in R /\ target[t] # "NONE" /\ lease[t] # "live"}

ExpiredTargets(R) ==
    {t \in Targets : t[1] \in R /\ target[t] = "PROCESSING" /\ lease[t] = "expired"}
RecoverExpired(R) == Reopen(ExpiredTargets(R))

RecoverOrphanedTargets_Leases ==   \* mutant: live leases survive the restart
    Reopen(ExpiredTargets(Requests))

\* recover_orphaned_work, its chat part: every PROCESSING row, whatever its lease.
RecoverOrphanedTargets == Reopen({t \in Targets : target[t] = "PROCESSING"})

\* add_message with a chat target.  With a claim token the row must still be
\* owned by it; without one (a member found unavailable before any claim) the
\* row must be PENDING.  Otherwise it raises and the transaction rolls back.
CommitAllowed_AnyStatus(t, k) ==   \* mutant: a claimless commit only checks the token
    token[t] = k /\ target[t] # "NONE"

CommitAllowed(t, k) ==
    IF k = NoToken THEN target[t] = "PENDING" /\ token[t] = NoToken ELSE Owned(t, k)

Commit(t, k, s) ==
    /\ s \in TerminalTarget
    /\ CommitAllowed(t, k)
    /\ target' = [target EXCEPT ![t] = s]
    /\ token' = [token EXCEPT ![t] = NoToken]
    /\ lease' = [lease EXCEPT ![t] = "none"]
    /\ attempt' = [attempt EXCEPT ![t] = Ended(t, k, s)]
    /\ replies' = [replies EXCEPT ![t] = @ + 1]
    /\ request' = [request EXCEPT ![t[1]] = RefreshedStatus(t[1], target')]
    /\ UNCHANGED <<mode, attemptCount>>

\* cancel_empty_moderated_chat_request
CancelEmptyModerated(r) ==
    /\ mode[r] = "moderated"
    /\ request[r] \in OpenRequest
    /\ ~ HasTarget(r)
    /\ request' = [request EXCEPT ![r] = "CANCELLED"]
    /\ UNCHANGED <<mode, target, token, lease, attemptCount, attempt, replies>>

\* Time passes lease_until (CHAT_TARGET_LEASE_MS after the claim).
ExpireLease(t) ==
    /\ target[t] = "PROCESSING" /\ lease[t] = "live"
    /\ lease' = [lease EXCEPT ![t] = "expired"]
    /\ UNCHANGED <<request, mode, target, token, attemptCount, attempt, replies>>

-----------------------------------------------------------------------------
ChatNext ==
    \/ \E r \in Requests, M \in SUBSET Members :
          \E md \in {"explicit", "moderated"} : CreateRequest(r, md, M)
    \/ \E r \in Requests : CancelEmptyModerated(r)
    \/ \E R \in SUBSET Requests : RecoverExpired(R)
    \/ RecoverOrphanedTargets
    \/ \E t \in Targets :
          \/ Claim(t)
          \/ AssignModerated(t)
          \/ ExpireLease(t)
          \/ \E k \in Attempts : Release(t, k)
          \/ \E k \in 0 .. MaxAttempts, s \in TerminalTarget : Commit(t, k, s)

ChatSpec == ChatInit /\ [][ChatNext]_chatVars

-----------------------------------------------------------------------------
(* What the tables promise to every caller.                                 *)

\* A target is owned exactly while it is PROCESSING, its token names its newest
\* attempt, and that attempt is the only one of the target still STARTED: a
\* stale worker can never find its own attempt running.
TokenFencesAttempts ==
    \A t \in Targets :
        /\ target[t] = "PROCESSING" <=> token[t] # NoToken
        /\ token[t] # NoToken => token[t] = attemptCount[t]
        /\ \A n \in Attempts : attempt[t][n] = "STARTED" <=> n = token[t]
        /\ \A n \in Attempts : n > attemptCount[t] => attempt[t][n] = "NONE"

\* Exactly one message answers a terminal target and none an open one,
\* whatever the claims, recoveries and late commits (add_message writes the
\* message and the target row in one transaction).
AnsweredOnce ==
    \A t \in Targets : replies[t] = IF target[t] \in TerminalTarget THEN 1 ELSE 0

\* A terminal attempt is the one that terminated its target, so at most one
\* attempt of a target ever delivers an answer.
AttemptsExplainTargets ==
    \A t \in Targets : \A n \in Attempts :
        attempt[t][n] \in TerminalTarget =>
            target[t] = attempt[t][n] /\ n = attemptCount[t]

\* The stored request status is the one its target rows imply; a request
\* without rows is an unassigned moderated one, open or cancelled.
RequestAgreesWithTargets ==
    \A r \in Requests :
        IF HasTarget(r) THEN request[r] = RefreshedStatus(r, target)
        ELSE /\ request[r] \in {"NONE", "PENDING", "CANCELLED"}
             /\ request[r] # "NONE" => mode[r] = "moderated"

\* What is answered stays answered: a terminal target keeps its status and its
\* message, and a terminal request is never reopened, whoever recovers or
\* releases afterwards.
TerminalIsFinal ==
    [][ /\ \A t \in Targets : target[t] \in TerminalTarget =>
              target'[t] = target[t] /\ replies'[t] = replies[t]
        /\ \A r \in Requests : request[r] \in TerminalRequest =>
              request'[r] = request[r] ]_chatVars

\* Claims, leases, recoveries and attempts are invisible: to its users the
\* store is the abstract answer-once service.
Promised(s) ==
    IF s = "NONE" THEN "absent"
    ELSE IF s = "RESPONDED" THEN "responded"
    ELSE IF s = "FAILED" THEN "failed"
    ELSE "open"

Promise == INSTANCE AnswerOnce WITH
    Tasks <- Targets,
    state <- [t \in Targets |-> Promised(target[t])],
    delivered <- replies

ImplementsAnswerOnce == Promise!AnswerSpec
=============================================================================
