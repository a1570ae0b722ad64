----------------------------- MODULE ManualReview -----------------------------
(***************************************************************************)
(* The manual ChatGPT channel: one collaboration session of a room, from    *)
(* the frozen task bundle over the import of the user's answer and its      *)
(* independent API reviews to the frozen decision                           *)
(* (backend/manual_chatgpt.py), over the ledger of ProviderLedger.          *)
(*                                                                          *)
(* Every delivery of a review request is a thread of its own with a fresh   *)
(* review_run_id: the thread names the run.  A thread may be slow anywhere, *)
(* so that the five minutes after which a run counts as an orphan may have  *)
(* passed at any step.  A service call holds the store's lock, under which  *)
(* the room's context is compared; the provider is called without it.       *)
(*                                                                          *)
(* Abstracted: the texts and their hashes (an imported result is never      *)
(* replaced, so that its hash is always the expected one), the event chain  *)
(* (one event per transition), one provider route, which makes every plan   *)
(* of the session the same, and refusals, which change nothing.             *)
(***************************************************************************)
EXTENDS ProviderLedger

CONSTANTS
    Reviewers,      \* threads of run_api_review
    Expected,       \* independent_api_reviews of the bundle: 2, 3 or 4
    Nobody

Review == "manual_chatgpt_review"

ASSUME ReviewAssumption ==
    /\ Kinds = {Review}
    /\ Expected \in Nat \ {0} /\ Expected <= MaxBudget
    /\ Nobody \notin Reviewers /\ "none" \notin Runs

VARIABLES
    state,      \* manual_chatgpt_sessions.state
    drifted,    \* the room's compact context is not the bundle's
    run,        \* the session's row of manual_chatgpt_review_runs
    reviews,    \* manual_chatgpt_api_reviews
    card,       \* manual_chatgpt_decisions
    recovered,  \* manual_chatgpt_review_recoveries: the runs given up
    reviewer    \* the locals of each thread

session == <<state, run, reviews, card, recovered>>
reviewVars == <<ledgerVars, session, drifted, reviewer>>

NoReviewRun == [id |-> Nobody, request |-> "none", status |-> "NONE", completed |-> 0]
NoCard == [run |-> Nobody, reviews |-> {}, ready |-> FALSE, frozen |-> FALSE]
Idle == [pc |-> "idle", request |-> "none", slot |-> 0, recorded |-> 0]

HasRun == run.id # Nobody
Of(p) == {x \in reviews : x.run = p}

\* create: DRAFT and BUNDLE_READY are one transaction.
ReviewInit ==
    /\ LedgerInit
    /\ state = "BUNDLE_READY" /\ drifted = FALSE
    /\ run = NoReviewRun /\ reviews = {} /\ card = NoCard /\ recovered = {}
    /\ reviewer = [p \in Reviewers |-> Idle]

At(p, s) == reviewer[p].pc = s
Goto(p, s) == reviewer' = [reviewer EXCEPT ![p].pc = s]

\* Members, evidence, candidates or decisions of the room change, or change back.
ContextChanges == drifted' = ~drifted /\ UNCHANGED <<ledgerVars, session, reviewer>>

-----------------------------------------------------------------------------
(* The bundle and the import. *)

\* _transition_context_stale, on behalf of the run p or of none.
BecomeStale(p) ==
    /\ state' = "CONTEXT_STALE"
    /\ run' = IF run.id = p /\ run.status = "RUNNING" THEN [run EXCEPT !.status = "FAILED"]
              ELSE run
    /\ UNCHANGED <<ledgerVars, reviews, card, recovered, drifted>>

Dispatch ==
    /\ state = "BUNDLE_READY" /\ state' = "WAITING_FOR_CHATGPT"
    /\ UNCHANGED <<ledgerVars, run, reviews, card, recovered, drifted, reviewer>>

\* A result that passes goes through RESULT_IMPORTED and VALIDATING at once.
ImportResult ==
    /\ state \in {"WAITING_FOR_CHATGPT", "IMPORT_REJECTED"}
    /\ UNCHANGED reviewer
    /\ \/ drifted /\ BecomeStale(Nobody)
       \/ /\ ~drifted /\ state' \in {"IMPORT_REJECTED", "API_REVIEW"}
          /\ UNCHANGED <<ledgerVars, run, reviews, card, recovered, drifted>>

-----------------------------------------------------------------------------
(* run_api_review. *)

\* What it reads before it takes the lock: an authorization that exists is
\* answered, other states are refused.
Begin(p, c) ==
    /\ At(p, "idle") /\ state = "API_REVIEW" /\ ~HasRun
    /\ reviewer' = [reviewer EXCEPT ![p] = [Idle EXCEPT !.pc = "authorize", !.request = c]]
    /\ UNCHANGED <<ledgerVars, session, drifted>>

\* ProviderCallLedger.create: the plan is the same, so a run of that
\* client_request_id is returned whatever became of it.
OpenLedger(c) ==
    IF Created(c) THEN UNCHANGED ledgerVars
    ELSE CreateRun(c, Expected, [k \in Kinds |-> Expected])

\* The ledger is committed before the run, also when another request's run
\* turns out to be there.
Authorize(p) ==
    /\ At(p, "authorize")
    /\ \/ state # "API_REVIEW" /\ Goto(p, "done")
          /\ UNCHANGED <<ledgerVars, session, drifted>>
       \/ state = "API_REVIEW" /\ drifted /\ BecomeStale(Nobody) /\ Goto(p, "done")
       \/ /\ state = "API_REVIEW" /\ ~drifted
          /\ OpenLedger(reviewer[p].request)
          /\ \/ HasRun /\ Goto(p, "done") /\ UNCHANGED run
             \/ /\ ~HasRun /\ Goto(p, "next")
                /\ run' = [id |-> p, request |-> reviewer[p].request,
                           status |-> "RUNNING", completed |-> 0]
          /\ UNCHANGED <<state, reviews, card, recovered, drifted>>

\* _mark_review_run_failed: the row of this run, then the session's state.
MarkFailed(p, blocked) ==
    /\ run' = IF run.id # p THEN run
              ELSE [run EXCEPT !.status = IF blocked THEN "BUDGET_BLOCKED" ELSE "FAILED"]
    /\ state' = IF state # "API_REVIEW" THEN state
                ELSE IF blocked THEN "BUDGET_BLOCKED" ELSE "NEEDS_USER_ACTION"
    /\ Goto(p, "done")
    /\ UNCHANGED <<ledgerVars, reviews, card, recovered, drifted>>

\* Before each call: the context, and the slot that the call costs.  The
\* ledger refuses it, or the store fails.
NextCall(p) ==
    /\ At(p, "next") /\ reviewer[p].recorded < Expected
    /\ LET c == reviewer[p].request IN
       \/ drifted /\ state # "API_REVIEW" /\ Goto(p, "done")
          /\ UNCHANGED <<ledgerVars, session, drifted>>
       \/ drifted /\ state = "API_REVIEW" /\ BecomeStale(p) /\ Goto(p, "done")
       \/ /\ ~drifted /\ Reserve(c, Review)
          /\ reviewer' = [reviewer EXCEPT ![p].pc = "call",
                                          ![p].slot = ledger[c].reserved + 1]
          /\ UNCHANGED <<session, drifted>>
       \/ ~drifted /\ MarkFailed(p, ledger[c].reserved >= ledger[c].max)

\* The provider answered, or failed to, and ledger.finish recorded it ...
CallReturns(p) ==
    /\ At(p, "call")
    /\ \E o \in {"RESPONDED", "FAILED", "INVALID"} :
          /\ FinishCall(reviewer[p].request, reviewer[p].slot, o)
          /\ Goto(p, IF o = "RESPONDED" THEN "record" ELSE "failed")
    /\ UNCHANGED <<session, drifted>>

\* ... or could not.
FinishFails(p) ==
    /\ At(p, "call") /\ Goto(p, "failed")
    /\ UNCHANGED <<ledgerVars, session, drifted>>

Fail(p) == At(p, "failed") /\ MarkFailed(p, FALSE)

\* A review of that kind of the session, or a run that is gone, raises.
Record(p) ==
    /\ At(p, "record")
    /\ LET n == reviewer[p].recorded + 1
           row == [run |-> p, index |-> n, request |-> reviewer[p].request,
                   slot |-> reviewer[p].slot]
       IN IF run.id = p /\ \A x \in reviews : x.index # n
          THEN /\ reviews' = reviews \cup {row}
               /\ run' = IF run.status = "RUNNING" THEN [run EXCEPT !.completed = n] ELSE run
               /\ reviewer' = [reviewer EXCEPT ![p].pc = "next", ![p].recorded = n]
          ELSE Goto(p, "done") /\ UNCHANGED <<reviews, run>>
    /\ UNCHANGED <<ledgerVars, state, card, recovered, drifted>>

Publish_Early(p) ==   \* mutant: the last review is left out
    /\ At(p, "next") /\ reviewer[p].recorded = Expected - 1
    /\ Goto(p, "done")
    /\ state = "API_REVIEW" /\ ~drifted /\ run.id = p /\ card = NoCard
    /\ run' = [run EXCEPT !.status = "COMPLETED", !.completed = Expected]
    /\ card' = [run |-> p, reviews |-> Of(p), ready |-> TRUE, frozen |-> FALSE]
    /\ state' = "READY_FOR_DECISION"
    /\ UNCHANGED <<ledgerVars, reviews, recovered, drifted>>

\* The decision card of all reviews; a blocking finding keeps it from the user.
Publish(p) ==
    /\ At(p, "next") /\ reviewer[p].recorded = Expected
    /\ Goto(p, "done")
    /\ \/ state # "API_REVIEW" /\ UNCHANGED <<ledgerVars, session, drifted>>
       \/ state = "API_REVIEW" /\ drifted /\ BecomeStale(p)
       \/ /\ state = "API_REVIEW" /\ ~drifted /\ run.id = p /\ card = NoCard
          /\ run' = IF run.status # "RUNNING" THEN run
                    ELSE [run EXCEPT !.status = "COMPLETED", !.completed = Expected]
          /\ \E ready \in BOOLEAN :
                /\ card' = [run |-> p, reviews |-> Of(p), ready |-> ready, frozen |-> FALSE]
                /\ state' = IF ready THEN "READY_FOR_DECISION" ELSE "NEEDS_USER_ACTION"
          /\ UNCHANGED <<ledgerVars, reviews, recovered, drifted>>

-----------------------------------------------------------------------------
(* The user's decision, recovery, and the end of the process. *)

Freeze ==
    /\ state = "READY_FOR_DECISION"
    /\ UNCHANGED reviewer
    /\ \/ drifted /\ BecomeStale(Nobody)
       \/ /\ ~drifted /\ card.ready
          /\ card' = [card EXCEPT !.frozen = TRUE] /\ state' = "FROZEN"
          /\ UNCHANGED <<ledgerVars, run, reviews, recovered, drifted>>

\* The ledger of the run that is given up, in its own right.
Abandon(c) ==
    /\ ledger' = IF ledger[c].status \notin {"OPEN", "EXHAUSTED"} THEN ledger
                 ELSE [ledger EXCEPT ![c].status = "ABANDONED"]
    /\ UNCHANGED attempt

Recover_LedgerLeft ==   \* mutant: the orphan's ledger stays open
    /\ state = "API_REVIEW" /\ run.status = "RUNNING" /\ card = NoCard
    /\ run.completed = 0 /\ Of(run.id) = {} /\ Reserved(run.request) = {}
    /\ recovered' = recovered \cup {run}
    /\ run' = NoReviewRun
    /\ UNCHANGED <<ledgerVars, state, reviews, card, drifted, reviewer>>

\* recover_api_review: an orphan that cost nothing makes room for another run.
Recover ==
    /\ state = "API_REVIEW" /\ run.status = "RUNNING" /\ card = NoCard
    /\ run.completed = 0 /\ Of(run.id) = {}
    /\ Reserved(run.request) = {} /\ ledger[run.request].reserved = 0
    /\ ledger[run.request].completed = 0
    /\ recovered' = recovered \cup {run}
    /\ Abandon(run.request)
    /\ run' = NoReviewRun
    /\ UNCHANGED <<state, reviews, card, drifted, reviewer>>

\* The process ends and is started again: nothing resumes a review.  It may
\* end between the ledger's transaction and that of the run.
Crash ==
    /\ \E p \in Reviewers : ~At(p, "idle") /\ ~At(p, "done")
    /\ reviewer' = [p \in Reviewers |-> IF At(p, "idle") THEN Idle ELSE [Idle EXCEPT !.pc = "done"]]
    /\ \/ UNCHANGED ledgerVars
       \/ \E p \in Reviewers : /\ At(p, "authorize") /\ state = "API_REVIEW" /\ ~drifted
                               /\ OpenLedger(reviewer[p].request)
    /\ UNCHANGED <<session, drifted>>

ReviewStep(p) ==
    \/ \E c \in Runs : Begin(p, c)
    \/ Authorize(p) \/ NextCall(p) \/ CallReturns(p) \/ FinishFails(p) \/ Fail(p)
    \/ Record(p) \/ Publish(p)

ReviewNext ==
    \/ Dispatch \/ ImportResult \/ Freeze \/ Recover \/ Crash \/ ContextChanges
    \/ \E p \in Reviewers : ReviewStep(p)

ReviewSpec == ReviewInit /\ [][ReviewNext]_reviewVars

-----------------------------------------------------------------------------
(* Properties. *)

ReviewTypeOK ==
    /\ LedgerTypeOK
    /\ drifted \in BOOLEAN
    /\ state \in {"BUNDLE_READY", "WAITING_FOR_CHATGPT", "IMPORT_REJECTED", "API_REVIEW",
                  "READY_FOR_DECISION", "FROZEN", "CONTEXT_STALE", "BUDGET_BLOCKED",
                  "NEEDS_USER_ACTION"}
    /\ HasRun => run.id \in Reviewers /\ run.request \in Runs
    /\ \A p \in Reviewers : ~At(p, "idle") => At(p, "done") \/ reviewer[p].request \in Runs

\* The user authorizes one plan of calls per session.  Whatever is delivered
\* twice, recovered, reauthorized or interrupted, only one of the budgets that
\* were opened for it is ever drawn on, so that no review is paid for twice
\* (README.md:429, "no refund, no retry").
OneBudgetIsSpent ==
    \A c, d \in Runs : Reserved(c) # {} /\ Reserved(d) # {} => c = d

\* Readers hide a session whose records disagree and refuse to go on with it
\* (_public_session).  They never have to: every review stands on an answered
\* call of the present run, a completed run has all of them, and what the
\* user decides on and freezes is the card of exactly those.
SessionVerifies ==
    /\ \A x \in reviews :
          /\ HasRun /\ x.request = run.request
          /\ attempt[x.request][x.slot].status = "RESPONDED"
          /\ \A y \in reviews : y.slot = x.slot => y = x
    /\ run.status = "COMPLETED" =>
          {x.index : x \in reviews} = 1 .. Expected /\ run.completed = Expected
    /\ card # NoCard => card.reviews = reviews
    /\ state \in {"READY_FOR_DECISION", "FROZEN"} =>
          card.ready /\ run.id = card.run /\ run.status = "COMPLETED"
    /\ state = "FROZEN" => card.frozen

\* A review that cannot go on says so: the session does not leave API_REVIEW
\* while its run is RUNNING.  The code does not keep this.
LeftMeansSettled == state # "API_REVIEW" => run.status # "RUNNING"

\* docs/cross_project_collaboration_architecture.md:85 and the event of a
\* recovery: the next review has to use a new client_request_id.
NextRequestIsNew == \A x \in recovered : run.request # x.request
=============================================================================
