------------------------------ MODULE IdleRunner ------------------------------
(***************************************************************************)
(* Answering a message outside a round: the handlers _stream_user_message  *)
(* and _resume_chat_request (backend/http_server.py) and the generator     *)
(* run_idle_chat_request (backend/orchestrator.py), on the tables of       *)
(* ChatStore.  Each HTTP request is a thread of its own; its runner takes  *)
(* the room lock without waiting, walks the targets it loaded, and holds   *)
(* at most one claim.  Between two store calls anything can happen: other  *)
(* handlers, members switched off, leases running out, the client closing  *)
(* the stream at a yield, the process dying.                               *)
(*                                                                         *)
(* The resume handler recovers expired leases BEFORE it takes the room     *)
(* lock, so a slow runner can lose its target while its model call is out. *)
(***************************************************************************)
EXTENDS ChatStore

CONSTANTS
    Runners,            \* handler threads that may be active at once
    MaxDisruptions,     \* bound on crashes, disconnects and expired leases
    NoRunner, Round,    \* lock values: free, held by a discussion round
    NoMember            \* a runner that has not picked a target

ASSUME IdleAssumption ==
    /\ MaxDisruptions \in Nat /\ MaxAttempts = MaxDisruptions + 1
    /\ NoRunner \notin Runners /\ Round \notin Runners /\ NoRunner # Round
    /\ NoMember \notin Members

VARIABLES
    enabled,        \* members.enabled: the members that may be called
    lock,           \* _round_locks[room]: who holds it
    runner,         \* the local state of every handler thread
    up,             \* is the process running?
    disruptions     \* how many have happened (a history variable)

local == <<enabled, lock, runner, up, disruptions>>
idleVars == <<chatVars, local>>

Off == [pc |-> "off"]
At(w, s) == runner[w].pc = s
Running == {"recover", "load", "next", "unavailable", "claim", "calling", "finally"}
HasClaim(w) == ~ At(w, "off") /\ runner[w].claim # NoToken
ClaimOf(w) == <<runner[w].req, runner[w].member>>

IdleTypeOK ==
    /\ ChatTypeOK
    /\ enabled \in SUBSET Members
    /\ lock \in Runners \cup {NoRunner, Round}
    /\ up \in BOOLEAN
    /\ disruptions \in 0 .. MaxDisruptions
    /\ runner \in [Runners -> {Off} \cup
                    [pc: {"entering"} \cup Running, req: Requests, todo: SUBSET Members,
                     member: Members \cup {NoMember}, claim: 0 .. MaxAttempts]]

IdleInit ==
    /\ ChatInit
    /\ enabled = Members
    /\ lock = NoRunner
    /\ runner = [w \in Runners |-> Off]
    /\ up = TRUE
    /\ disruptions = 0

Disrupt == disruptions < MaxDisruptions /\ disruptions' = disruptions + 1
Goto(w, s) == runner' = [runner EXCEPT ![w].pc = s]

-----------------------------------------------------------------------------
(* The handlers, up to the room lock.                                       *)

Enter(w, r) ==
    runner' = [runner EXCEPT ![w] = [pc |-> "entering", req |-> r, todo |-> {},
                                     member |-> NoMember, claim |-> NoToken]]

\* POST of a new message: mentions must name enabled members, an idle auto
\* reply preselects one of them (with none it stores the message and no request).
PostMessage(w, r, md, M) ==
    /\ up /\ At(w, "off")
    /\ M \subseteq enabled
    /\ IF md = "explicit" THEN M # {} ELSE Cardinality(M) = 1
    /\ CreateRequest(r, md, M)
    /\ Enter(w, r)
    /\ UNCHANGED <<enabled, lock, up, disruptions>>

\* A retried POST with the same client_message_id finds the stored request,
\* whatever its status, and runs it again.
RepostMessage(w, r) ==
    /\ up /\ At(w, "off")
    /\ request[r] # "NONE"
    /\ Enter(w, r)
    /\ UNCHANGED <<chatVars, enabled, lock, up, disruptions>>

\* POST .../resume
ResumeRequest(w, r) ==
    /\ up /\ At(w, "off")
    /\ request[r] # "NONE"
    /\ RecoverExpired({r})
    /\ Enter(w, r)
    /\ UNCHANGED <<enabled, lock, up, disruptions>>

Acquire(w) ==
    /\ At(w, "entering") /\ lock = NoRunner
    /\ lock' = w
    /\ Goto(w, "recover")
    /\ UNCHANGED <<chatVars, enabled, up, disruptions>>

\* ROOM_BUSY: the request stays stored, nobody is queued on the lock.
Busy(w) ==
    /\ At(w, "entering") /\ lock # NoRunner
    /\ runner' = [runner EXCEPT ![w] = Off]
    /\ UNCHANGED <<chatVars, enabled, lock, up, disruptions>>

-----------------------------------------------------------------------------
(* run_idle_chat_request, holding the lock.                                 *)

RecoverLeases(w) ==
    /\ At(w, "recover")
    /\ RecoverExpired({runner[w].req})
    /\ Goto(w, "load")
    /\ UNCHANGED <<enabled, lock, up, disruptions>>

LoadTargets_FirstAttempt(w) ==   \* mutant: a target that was tried is not loaded
    /\ At(w, "load")
    /\ runner' = [runner EXCEPT ![w].pc = "next",
                     ![w].todo = {m \in Members : /\ target[<<runner[w].req, m>>] = "PENDING"
                                                  /\ attemptCount[<<runner[w].req, m>>] = 0}]
    /\ UNCHANGED <<chatVars, enabled, lock, up, disruptions>>

\* The targets and their status are read once, before the loop.
LoadTargets(w) ==
    /\ At(w, "load")
    /\ runner' = [runner EXCEPT ![w].pc = "next",
                     ![w].todo = {m \in Members : target[<<runner[w].req, m>>] = "PENDING"}]
    /\ UNCHANGED <<chatVars, enabled, lock, up, disruptions>>

\* One iteration begins: get_member is read now and acted on later.
PickTarget(w) ==
    /\ At(w, "next")
    /\ \E m \in runner[w].todo :
          runner' = [runner EXCEPT
                        ![w].pc = IF m \in enabled THEN "claim" ELSE "unavailable",
                        ![w].member = m,
                        ![w].todo = @ \ {m}]
    /\ UNCHANGED <<chatVars, enabled, lock, up, disruptions>>

\* member_unavailable: a failure message without any claim.
FailUnavailable(w) ==
    /\ At(w, "unavailable")
    /\ Commit(ClaimOf(w), NoToken, "FAILED")
    /\ Goto(w, "next")
    /\ UNCHANGED <<enabled, lock, up, disruptions>>

\* claim_chat_target.  It cannot come back empty here: the row was PENDING
\* when it was loaded and only the holder of the lock claims or commits.
ClaimTarget(w) ==
    /\ At(w, "claim")
    /\ Claim(ClaimOf(w))
    /\ runner' = [runner EXCEPT ![w].pc = "calling", ![w].claim = token'[ClaimOf(w)]]
    /\ UNCHANGED <<enabled, lock, up, disruptions>>

CommitAnswer_RetryFailures(w, s) ==   \* mutant: a failed call only gives its claim back
    /\ At(w, "calling")
    /\ IF s = "FAILED" THEN Release(ClaimOf(w), runner[w].claim)
       ELSE Commit(ClaimOf(w), runner[w].claim, s)
    /\ runner' = [runner EXCEPT ![w].pc = "next", ![w].claim = NoToken]
    /\ UNCHANGED <<enabled, lock, up, disruptions>>

\* The model has answered, failed, or was skipped: one add_message, and the
\* claim is dropped only once it has committed.
CommitAnswer(w, s) ==
    /\ At(w, "calling")
    /\ Commit(ClaimOf(w), runner[w].claim, s)
    /\ runner' = [runner EXCEPT ![w].pc = "next", ![w].claim = NoToken]
    /\ UNCHANGED <<enabled, lock, up, disruptions>>

\* add_message raises because the claim is gone; the failure message raises
\* too, and the exception leaves the generator through its finally block.
AnswerRejected(w) ==
    /\ At(w, "calling")
    /\ ~ CommitAllowed(ClaimOf(w), runner[w].claim)
    /\ Goto(w, "finally")
    /\ UNCHANGED <<chatVars, enabled, lock, up, disruptions>>

FinishLoop(w) ==
    /\ At(w, "next") /\ runner[w].todo = {}
    /\ Goto(w, "finally")
    /\ UNCHANGED <<chatVars, enabled, lock, up, disruptions>>

\* The client is gone: writing the event of the last yield raises, the
\* generator is closed and its finally block runs.  A runner is at a yield
\* while it is "calling" (speaker_started) or at the head of the loop, "next",
\* which the yield at the end of an iteration leads to.  Before the lock the
\* handler just returns.
Disconnect(w) ==
    /\ up /\ Disrupt
    /\ \/ At(w, "entering") /\ runner' = [runner EXCEPT ![w] = Off]
       \/ (At(w, "calling") \/ At(w, "next")) /\ Goto(w, "finally")
    /\ UNCHANGED <<chatVars, enabled, lock, up>>

\* finally: release_chat_target for a claim still held, which changes nothing
\* when the claim is no longer the row's ...
ReleaseClaim(w) ==
    /\ At(w, "finally") /\ runner[w].claim # NoToken
    /\ \/ Release(ClaimOf(w), runner[w].claim)
       \/ ~ Owned(ClaimOf(w), runner[w].claim) /\ UNCHANGED chatVars
    /\ runner' = [runner EXCEPT ![w].claim = NoToken]
    /\ UNCHANGED <<enabled, lock, up, disruptions>>

\* ... then room_lock.release().
Unlock(w) ==
    /\ At(w, "finally") /\ runner[w].claim = NoToken
    /\ lock' = NoRunner
    /\ runner' = [runner EXCEPT ![w] = Off]
    /\ UNCHANGED <<chatVars, enabled, up, disruptions>>

-----------------------------------------------------------------------------
(* The environment.                                                         *)

SetMemberEnabled(m) ==
    /\ up
    /\ enabled' = IF m \in enabled THEN enabled \ {m} ELSE enabled \cup {m}
    /\ UNCHANGED <<chatVars, lock, runner, up, disruptions>>

\* run_round takes and returns the same lock.
RoundLock ==
    /\ up /\ lock = NoRunner /\ lock' = Round
    /\ UNCHANGED <<chatVars, enabled, runner, up, disruptions>>
RoundUnlock ==
    /\ up /\ lock = Round /\ lock' = NoRunner
    /\ UNCHANGED <<chatVars, enabled, runner, up, disruptions>>

Expire(t) ==
    /\ Disrupt
    /\ ExpireLease(t)
    /\ UNCHANGED <<enabled, lock, runner, up>>

\* Threads and the lock live in the process.
Crash ==
    /\ up /\ Disrupt
    /\ up' = FALSE /\ lock' = NoRunner
    /\ runner' = [w \in Runners |-> Off]
    /\ UNCHANGED <<chatVars, enabled>>

\* run_server calls recover_orphaned_work before it serves.
Restart ==
    /\ ~ up /\ up' = TRUE
    /\ RecoverOrphanedTargets
    /\ UNCHANGED <<enabled, lock, runner, disruptions>>

RunnerStep(w) ==
    \/ RecoverLeases(w) \/ LoadTargets(w) \/ PickTarget(w) \/ FailUnavailable(w)
    \/ ClaimTarget(w) \/ \E s \in TerminalTarget : CommitAnswer(w, s)
    \/ AnswerRejected(w) \/ FinishLoop(w) \/ ReleaseClaim(w) \/ Unlock(w)

IdleNext ==
    \/ \E w \in Runners :
          \/ \E r \in Requests, md \in {"explicit", "moderated"}, M \in SUBSET Members :
                PostMessage(w, r, md, M)
          \/ \E r \in Requests : RepostMessage(w, r) \/ ResumeRequest(w, r)
          \/ Acquire(w) \/ Busy(w) \/ RunnerStep(w) \/ Disconnect(w)
    \/ \E m \in Members : SetMemberEnabled(m)
    \/ RoundLock \/ RoundUnlock
    \/ \E t \in Targets : Expire(t)
    \/ Crash \/ Restart

IdleSafetySpec == IdleInit /\ [][IdleNext]_idleVars

\* Threads run, provider calls time out, rounds end and a crashed process is
\* started again; and a user who sees an open request resumes it until one
\* resume finds the room free.
IdleFairness ==
    /\ \A w \in Runners : WF_idleVars(RunnerStep(w)) /\ WF_idleVars(Acquire(w) \/ Busy(w))
    /\ WF_idleVars(RoundUnlock) /\ WF_idleVars(Restart)
    /\ \A r \in Requests :
          /\ SF_idleVars(\E w \in Runners : lock = NoRunner /\ request[r] \in OpenRequest
                                            /\ ResumeRequest(w, r))
          /\ SF_idleVars(\E w \in Runners : At(w, "entering") /\ runner[w].req = r
                                            /\ Acquire(w))

IdleSpec == IdleSafetySpec /\ IdleFairness

-----------------------------------------------------------------------------
\* Every claim in the tables belongs to the one runner that holds the room
\* lock, for the very token that runner kept: no claim is orphaned while the
\* process is up, so nothing but an expired lease or a restart ever has to
\* take one back, and two models are never asked for one room at a time.
ClaimsAreHeld ==
    up => \A t \in Targets : target[t] = "PROCESSING" =>
             \E w \in Runners : /\ lock = w /\ HasClaim(w)
                                /\ ClaimOf(w) = t /\ runner[w].claim = token[t]

\* A model is asked again for the same answer only after something went
\* wrong: retries, replays and resumes alone never repeat a call.
CallsAreExplained ==
    \A t \in Targets : attemptCount[t] <= disruptions + 1

\* Every request the store accepts is eventually closed.
RequestsTerminate ==
    \A r \in Requests : request[r] \in OpenRequest ~> request[r] \in TerminalRequest
=============================================================================
