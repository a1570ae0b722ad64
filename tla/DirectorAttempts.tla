--------------------------- MODULE DirectorAttempts ---------------------------
(***************************************************************************)
(* The audit trail of a dynamic round: director_attempts,                   *)
(* director_decisions, round_turns and the calls of the ledger that pay for *)
(* them, as the loop of backend/orchestrator.py writes them through the     *)
(* transactions of backend/store.py.  One formal round with its run.        *)
(*                                                                          *)
(* Rows are numbered as the store numbers them: attempts and decisions by   *)
(* sequence_no, turns by turn_order.  A call names the row it is for        *)
(* (operation_target_id).                                                   *)
(*                                                                          *)
(* Abstracted: what makes the rules, the fallback or the director choose a  *)
(* member or the end of the round (any choice is possible), interjections,  *)
(* whose calls are for chat requests (RoundRunner has them), and what only  *)
(* refuses.  The moderator of a round is frozen, so all its attempts have   *)
(* one route.  Launching and locking are in FormalExecution.                *)
(***************************************************************************)
EXTENDS ProviderLedger, Sequences

CONSTANTS
    Run,            \* the round's execution run
    Round,
    Speakers,       \* member ids
    NoMember,
    MaxTurns,       \* max_turns of the round's workflow policy
    DirectorPlans,  \* confirmed plans: <<max_provider_calls, director calls>>
    MaxDisruptions  \* bound on faults, crashes, pause requests and resumptions

ASSUME DirectorAssumption ==
    /\ Run \in Runs /\ Round \in Rounds /\ NoMember \notin Speakers
    /\ {"round_director", "round_speaker"} \subseteq Kinds
    /\ MaxTurns \in Nat /\ MaxDisruptions \in Nat
    /\ DirectorPlans \subseteq (1 .. MaxBudget) \X (0 .. MaxBudget)

VARIABLES
    stage,            \* rounds.status; COMPLETED and PARTIAL are FINISHED
    pauseAsked,       \* rounds.pause_requested
    directorAttempt,  \* director_attempts
    directorDecision, \* director_decisions
    roundTurn,        \* round_turns
    target,           \* operation_target_id of the run's calls
    anchored,         \* the round has a row of round_trace_anchors
    worker,           \* the locals of the thread that runs the round
    disruptions       \* history: how many have happened

roundVars == <<stage, pauseAsked>>
trail == <<directorAttempt, directorDecision, roundTurn, target>>
directorVars == <<ledgerVars, roundVars, trail, anchored, worker, disruptions>>

Speak(m) == [action |-> "speak", member |-> m]
Finish == [action |-> "finish", member |-> NoMember]
Choices == {Speak(m) : m \in Speakers} \cup {Finish}
Failed == [action |-> "error", member |-> NoMember]  \* a selection that is an error
NoChoice == [action |-> "none", member |-> NoMember]

\* attempt is active_director_attempt, or the attempt a selection is about;
\* decision, the decision just recorded; 0 is none.
Off == [pc |-> "off", attempt |-> 0, slot |-> 0, decision |-> 0, choice |-> NoChoice]

\* Between two acquisitions of the choice; the attempt is not the loop's yet.
Selecting == {"reserve", "ask", "failed"}
Working == {"top", "select", "chosen", "decided", "turned", "speak", "listen", "heard",
            "lost", "refused", "settle"} \cup Selecting
Leaving == {"leave", "park", "seal", "parted"}
Resuming == {"recover", "reopen"}

AttemptStatus == {"STARTED", "RESPONDED", "FAILED", "INVALID", "CANCELLED"}

DirectorTypeOK ==
    /\ LedgerTypeOK
    /\ stage \in {"NONE", "RUNNING", "PAUSED", "FINISHED", "CANCELLED"}
    /\ pauseAsked \in BOOLEAN /\ anchored \in BOOLEAN
    /\ directorAttempt \in Seq([status : AttemptStatus, member : Speakers \cup {NoMember},
                                decision : Nat, order : Nat])
    /\ directorDecision \in Seq(Choices)
    /\ roundTurn \in Seq([member : Speakers, decision : Nat,
                          status : {"STARTED", "RESPONDED", "FAILED"}])
    /\ target \in [Slots -> Nat]
    /\ worker \in [pc : {"off"} \cup Working \cup Leaving \cup Resuming, attempt : Nat,
                   slot : Slots \cup {0}, decision : Nat,
                   choice : Choices \cup {Failed, NoChoice}]
    /\ disruptions \in 0 .. MaxDisruptions

DirectorInit ==
    /\ LedgerInit
    /\ stage = "NONE" /\ pauseAsked = FALSE /\ anchored = FALSE
    /\ directorAttempt = <<>> /\ directorDecision = <<>> /\ roundTurn = <<>>
    /\ target = [s \in Slots |-> 0]
    /\ worker = Off
    /\ disruptions = 0

At(s) == worker.pc = s
Goto(s) == worker' = [worker EXCEPT !.pc = s]
Restart(s) == worker' = [Off EXCEPT !.pc = s]   \* the loop keeps none of these locals
Exit(s, a) == worker' = [Off EXCEPT !.pc = s, !.attempt = a]
Disrupt == disruptions < MaxDisruptions /\ disruptions' = disruptions + 1

Remaining == ledger[Run].max - ledger[Run].reserved
DirectorRemaining == ledger[Run].limit["round_director"]
                       - Cardinality(OfKind(Run, "round_director"))
LastTurn == Len(roundTurn)
TurnStarted == LastTurn > 0 /\ roundTurn[LastTurn].status = "STARTED"
NoneStarted == \A a \in DOMAIN directorAttempt : directorAttempt[a].status # "STARTED"

-----------------------------------------------------------------------------
(* Transactions of the store.                                               *)

NewAttempt == [status |-> "STARTED", member |-> NoMember, decision |-> 0, order |-> 0]

\* finish_director_attempt, with the token of attempt a.
FinishAttempt(a, o, m, d, n) ==
    /\ directorAttempt[a].status = "STARTED"
    /\ directorAttempt' = [directorAttempt EXCEPT
           ![a] = [status |-> o, member |-> m, decision |-> d, order |-> n]]

ActiveStarted == worker.attempt # 0 /\ directorAttempt[worker.attempt].status = "STARTED"

\* cancel_active_director_attempt: there may be none, or it is terminal already.
CancelActive ==
    \/ ActiveStarted /\ FinishAttempt(worker.attempt, "CANCELLED", NoMember, 0, 0)
    \/ ~ ActiveStarted /\ UNCHANGED directorAttempt

\* What recovery and cancelling do to the attempts nobody will finish.
CancelStarted ==
    directorAttempt' = [a \in DOMAIN directorAttempt |->
        IF directorAttempt[a].status = "STARTED"
        THEN [directorAttempt[a] EXCEPT !.status = "CANCELLED"] ELSE directorAttempt[a]]

SetTurn(o) == roundTurn' = [roundTurn EXCEPT ![LastTurn].status = o]

\* Every way to PAUSED clears the pause request.
ToPaused == stage' = "PAUSED" /\ pauseAsked' = FALSE

-----------------------------------------------------------------------------
(* The head of the loop.                                                    *)

\* A confirmed plan creates the run; a round is created, bound to it and has
\* its first checkpoint (FormalExecution has these steps one by one).
Authorize ==
    /\ ~ Created(Run)
    /\ \E plan \in DirectorPlans :
          CreateRun(Run, plan[1], [[k \in Kinds |-> MaxBudget] EXCEPT !["round_director"] = plan[2]])
    /\ UNCHANGED <<roundVars, trail, anchored, worker, disruptions>>

Open ==
    /\ stage = "NONE" /\ BindRound(Run, Round)
    /\ stage' = "RUNNING" /\ Restart("top")
    /\ UNCHANGED <<pauseAsked, trail, anchored, disruptions>>

\* The turns are used up, and no interjection is waiting.
TurnsUsedUp ==
    /\ At("top") /\ LastTurn >= MaxTurns /\ ~ TurnStarted
    /\ Restart("settle")
    /\ UNCHANGED <<ledgerVars, roundVars, trail, anchored, disruptions>>

\* acknowledge_pause; also after a turn was refused.
AcknowledgePause ==
    /\ At("top") \/ At("refused")
    /\ stage = "RUNNING" /\ pauseAsked /\ ToPaused
    /\ worker' = Off
    /\ UNCHANGED <<ledgerVars, trail, anchored, disruptions>>

FailUnknownTurn_Retry ==   \* mutant: a turn found in flight is spoken again
    /\ At("top") /\ ~ pauseAsked /\ TurnStarted
    /\ Restart("speak")
    /\ UNCHANGED <<ledgerVars, roundVars, trail, anchored, disruptions>>

\* The turn was in flight when an earlier thread ended: it is not tried again.
FailUnknownTurn ==
    /\ At("top") /\ ~ pauseAsked /\ TurnStarted
    /\ SetTurn("FAILED")
    /\ UNCHANGED <<ledgerVars, roundVars, directorAttempt, directorDecision, target, anchored,
                   worker, disruptions>>

StartSelecting ==
    /\ At("top") /\ ~ pauseAsked /\ ~ TurnStarted
    /\ Goto("select")
    /\ UNCHANGED <<ledgerVars, roundVars, trail, anchored, disruptions>>

-----------------------------------------------------------------------------
(* _select_next_member.                                                     *)

Choose(c, a) == worker' = [Off EXCEPT !.pc = "chosen", !.choice = c, !.attempt = a]

\* The rules decide, or no call may be made: the breaker is open or a budget
\* is spent.  Without an eligible member the loop ends.
SelectWithoutCall ==
    /\ At("select")
    /\ Restart("settle") \/ \E c \in Choices : Choose(c, 0)
    /\ UNCHANGED <<ledgerVars, roundVars, trail, anchored, disruptions>>

BreakerOpen_FailedOnly ==   \* mutant: an answer that is not valid is asked for again
    \E a \in DOMAIN directorAttempt : directorAttempt[a].status = "FAILED"

\* One failure on the frozen route ends the director's calls for this round.
BreakerOpen == \E a \in DOMAIN directorAttempt : directorAttempt[a].status \in {"FAILED", "INVALID"}

BeginAttempt ==
    /\ At("select") /\ ~ BreakerOpen /\ Remaining > 0 /\ DirectorRemaining > 0
    /\ stage = "RUNNING" /\ NoneStarted
    /\ directorAttempt' = Append(directorAttempt, NewAttempt)
    /\ worker' = [worker EXCEPT !.pc = "reserve", !.attempt = Len(directorAttempt) + 1]
    /\ UNCHANGED <<ledgerVars, roundVars, directorDecision, roundTurn, target, anchored, disruptions>>

\* The next call of the run, for row n.
ReserveFor_Next(k, n, s) ==   \* mutant: the call names a row not written yet
    /\ Reserve(Run, k)
    /\ target' = [target EXCEPT ![ledger[Run].reserved + 1] = n + 1]
    /\ worker' = [worker EXCEPT !.pc = s, !.slot = ledger[Run].reserved + 1]

ReserveFor(k, n, s) ==
    /\ Reserve(Run, k)
    /\ target' = [target EXCEPT ![ledger[Run].reserved + 1] = n]
    /\ worker' = [worker EXCEPT !.pc = s, !.slot = ledger[Run].reserved + 1]

ReserveDirector ==
    /\ At("reserve") /\ ReserveFor("round_director", worker.attempt, "ask")
    /\ UNCHANGED <<roundVars, directorAttempt, directorDecision, roundTurn, anchored, disruptions>>

\* The ledger refuses: no call; the selection falls back or is an error.
ReserveDirectorFails ==
    /\ Disrupt /\ At("reserve")
    /\ FinishAttempt(worker.attempt, "CANCELLED", NoMember, 0, 0)
    /\ \E c \in Choices \cup {Failed} : Choose(c, 0)
    /\ UNCHANGED <<ledgerVars, roundVars, directorDecision, roundTurn, target, anchored>>

DirectorAnswers ==
    /\ At("ask") /\ FinishCall(Run, worker.slot, "RESPONDED")
    /\ \E c \in Choices : Choose(c, worker.attempt)
    /\ UNCHANGED <<roundVars, trail, anchored, disruptions>>

DirectorFails ==
    /\ At("ask") /\ \E o \in {"FAILED", "INVALID"} : FinishCall(Run, worker.slot, o)
    /\ Goto("failed")
    /\ UNCHANGED <<roundVars, trail, anchored, disruptions>>

\* The failed call is recorded in the attempt, then the fallback chooses.  When
\* the first record fails, the handler around it writes FAILED.
RecordFailure ==
    /\ At("failed")
    /\ \/ /\ FinishAttempt(worker.attempt, attempt[Run][worker.slot].status, NoMember, 0, 0)
          /\ UNCHANGED disruptions
       \/ Disrupt /\ FinishAttempt(worker.attempt, "FAILED", NoMember, 0, 0)
    /\ \E c \in Choices : Choose(c, 0)
    /\ UNCHANGED <<ledgerVars, roundVars, directorDecision, roundTurn, target, anchored>>

\* director_ledger_finalize_error: the call stays STARTED.
LedgerFails ==
    /\ Disrupt /\ At("ask")
    /\ FinishAttempt(worker.attempt, "INVALID", NoMember, 0, 0)
    /\ Choose(Failed, 0)
    /\ UNCHANGED <<ledgerVars, roundVars, directorDecision, roundTurn, target, anchored>>

-----------------------------------------------------------------------------
(* From the choice to the turn.                                             *)

\* The loop only went on for an interjection, and there is none any more.
NoTurnLeft ==
    /\ At("chosen") /\ worker.choice.action = "speak" /\ LastTurn >= MaxTurns
    /\ CancelActive
    /\ Restart("settle")
    /\ UNCHANGED <<ledgerVars, roundVars, directorDecision, roundTurn, target, anchored, disruptions>>

\* The pause is acknowledged first, then the attempt is cancelled (Part).
PauseChosen ==
    /\ At("chosen") /\ (worker.choice.action = "speak" => LastTurn < MaxTurns)
    /\ stage = "RUNNING" /\ pauseAsked /\ ToPaused
    /\ Exit("parted", worker.attempt)
    /\ UNCHANGED <<ledgerVars, trail, anchored, disruptions>>

Part ==
    /\ At("parted") /\ CancelActive /\ worker' = Off
    /\ UNCHANGED <<ledgerVars, roundVars, directorDecision, roundTurn, target, anchored, disruptions>>

SelectionFailed ==
    /\ At("chosen") /\ ~ pauseAsked /\ worker.choice = Failed
    /\ Exit("leave", worker.attempt)
    /\ UNCHANGED <<ledgerVars, roundVars, trail, anchored, disruptions>>

AddDecision ==
    /\ At("chosen") /\ ~ pauseAsked /\ worker.choice \in Choices
    /\ (worker.choice.action = "speak" => LastTurn < MaxTurns)
    /\ directorDecision' = Append(directorDecision, worker.choice)
    /\ worker' = [worker EXCEPT !.pc = "decided", !.decision = Len(directorDecision) + 1]
    /\ UNCHANGED <<ledgerVars, roundVars, directorAttempt, roundTurn, target, anchored, disruptions>>

\* A finish decision: its attempt, when there is one, has neither member nor turn.
AnswerFinish ==
    /\ At("decided") /\ worker.choice = Finish
    /\ \/ /\ worker.attempt # 0
          /\ FinishAttempt(worker.attempt, "RESPONDED", NoMember, worker.decision, 0)
       \/ worker.attempt = 0 /\ UNCHANGED directorAttempt
    /\ Restart("settle")
    /\ UNCHANGED <<ledgerVars, roundVars, directorDecision, roundTurn, target, anchored, disruptions>>

BudgetSpent ==
    /\ At("decided") /\ worker.choice # Finish /\ Remaining = 0
    /\ Exit("leave", worker.attempt)
    /\ UNCHANGED <<ledgerVars, roundVars, trail, anchored, disruptions>>

\* begin_round_turn, at the next order.
BeginTurn ==
    /\ At("decided") /\ worker.choice # Finish /\ Remaining > 0
    /\ stage = "RUNNING" /\ ~ pauseAsked
    /\ roundTurn' = Append(roundTurn, [member |-> worker.choice.member,
                                       decision |-> worker.decision, status |-> "STARTED"])
    /\ IF worker.attempt = 0 THEN Restart("speak") ELSE Goto("turned")
    /\ UNCHANGED <<ledgerVars, roundVars, directorAttempt, directorDecision, target, anchored,
                   disruptions>>

\* A pause came after the choice: the attempt first, then AcknowledgePause.
TurnRefused ==
    /\ At("decided") /\ worker.choice # Finish /\ Remaining > 0 /\ pauseAsked
    /\ CancelActive
    /\ Restart("refused")
    /\ UNCHANGED <<ledgerVars, roundVars, directorDecision, roundTurn, target, anchored, disruptions>>

\* The store compares member and decision of the attempt with the turn's.
AnswerSpeak ==
    /\ At("turned")
    /\ roundTurn[LastTurn].member = worker.choice.member
    /\ roundTurn[LastTurn].decision = worker.decision
    /\ FinishAttempt(worker.attempt, "RESPONDED", worker.choice.member, worker.decision, LastTurn)
    /\ Restart("speak")
    /\ UNCHANGED <<ledgerVars, roundVars, directorDecision, roundTurn, target, anchored, disruptions>>

-----------------------------------------------------------------------------
(* The speaker's call.                                                      *)

\* The member's provider cannot be used: the turn fails without a call.
FailBeforeCall ==
    /\ At("speak") /\ SetTurn("FAILED") /\ Restart("top")
    /\ UNCHANGED <<ledgerVars, roundVars, directorAttempt, directorDecision, target, anchored,
                   disruptions>>

ReserveSpeaker ==
    /\ At("speak") /\ ReserveFor("round_speaker", LastTurn, "listen")
    /\ UNCHANGED <<roundVars, directorAttempt, directorDecision, roundTurn, anchored, disruptions>>

\* A good answer becomes a message and ends the turn, then the call is settled.
SpeakerAnswers ==
    /\ At("listen") /\ SetTurn("RESPONDED") /\ Goto("heard")
    /\ UNCHANGED <<ledgerVars, roundVars, directorAttempt, directorDecision, target, anchored,
                   disruptions>>

SettleAnswer ==
    /\ At("heard") /\ FinishCall(Run, worker.slot, "RESPONDED") /\ Restart("top")
    /\ UNCHANGED <<roundVars, trail, anchored, disruptions>>

\* A failure settles the call first, then ends the turn.
SpeakerFails ==
    /\ At("listen") /\ \E o \in {"FAILED", "INVALID"} : FinishCall(Run, worker.slot, o)
    /\ Goto("lost")
    /\ UNCHANGED <<roundVars, trail, anchored, disruptions>>

\* An answer whose evidence does not verify also ends the loop.
FailTurn ==
    /\ At("lost") /\ SetTurn("FAILED") /\ (Restart("top") \/ Restart("leave"))
    /\ UNCHANGED <<ledgerVars, roundVars, directorAttempt, directorDecision, target, anchored,
                   disruptions>>

-----------------------------------------------------------------------------
(* The end of the thread.                                                   *)

\* complete_round_if_no_pending: a pause asked for meanwhile wins, and an
\* interjection that is waiting parks the round.
Settle ==
    /\ At("settle") /\ stage = "RUNNING"
    /\ \/ pauseAsked /\ ToPaused /\ worker' = Off
       \/ ~ pauseAsked /\ stage' = "FINISHED" /\ worker' = Off /\ UNCHANGED pauseAsked
       \/ ~ pauseAsked /\ Goto("park") /\ UNCHANGED roundVars
    /\ UNCHANGED <<ledgerVars, trail, anchored, disruptions>>

\* An exception, a refusal or a closed stream.  An attempt that a selection
\* had not handed over yet stays STARTED.
Interrupt ==
    /\ Disrupt /\ worker.pc \in Working
    /\ Exit("leave", IF worker.pc \in Selecting THEN 0 ELSE worker.attempt)
    /\ UNCHANGED <<ledgerVars, roundVars, trail, anchored>>

\* The finally block: the attempt, complete_round(PAUSED), and its seal.
Leave ==
    /\ At("leave") /\ CancelActive
    /\ Restart("park")
    /\ UNCHANGED <<ledgerVars, roundVars, directorDecision, roundTurn, target, anchored, disruptions>>

Park ==
    /\ At("park") /\ ToPaused /\ Goto("seal")
    /\ UNCHANGED <<ledgerVars, trail, anchored, disruptions>>

Seal ==
    /\ At("seal") /\ anchored' = TRUE /\ worker' = Off
    /\ UNCHANGED <<ledgerVars, roundVars, trail, disruptions>>

LeavingFails ==
    /\ Disrupt /\ worker.pc \in Leaving /\ worker' = Off
    /\ UNCHANGED <<ledgerVars, roundVars, trail, anchored>>

-----------------------------------------------------------------------------
(* Resuming, and what happens around the thread.                            *)

\* The calls first, then the attempts of an earlier thread; both before the
\* round runs again.  The room's lock admits one thread.
Resume ==
    /\ Disrupt /\ At("off") /\ stage = "PAUSED"
    /\ AbandonStarted(Run) \/ (Started(Run) = {} /\ UNCHANGED ledgerVars)
    /\ Goto("recover")
    /\ UNCHANGED <<roundVars, trail, anchored>>

RecoverAttempts ==
    /\ At("recover") /\ stage = "PAUSED" /\ CancelStarted
    /\ Goto("reopen")
    /\ UNCHANGED <<ledgerVars, roundVars, directorDecision, roundTurn, target, anchored, disruptions>>

Reopen ==
    /\ At("reopen") /\ stage = "PAUSED"
    /\ stage' = "RUNNING" /\ pauseAsked' = FALSE /\ Restart("top")
    /\ UNCHANGED <<ledgerVars, trail, anchored, disruptions>>

GiveUp ==
    /\ worker.pc \in Resuming /\ worker' = Off
    /\ UNCHANGED <<ledgerVars, roundVars, trail, anchored, disruptions>>

\* request_round_pause, from another thread.
RequestPause ==
    /\ Disrupt /\ stage = "RUNNING" /\ ~ pauseAsked /\ pauseAsked' = TRUE
    /\ UNCHANGED <<ledgerVars, stage, trail, anchored, worker>>

CancelPaused_KeepAttempts ==   \* mutant
    /\ stage = "PAUSED" /\ stage' = "CANCELLED" /\ pauseAsked' = FALSE
    /\ UNCHANGED <<ledgerVars, trail, anchored, worker, disruptions>>

\* cancel_paused_round takes no lock.
CancelPaused ==
    /\ stage = "PAUSED" /\ stage' = "CANCELLED" /\ pauseAsked' = FALSE
    /\ CancelStarted
    /\ UNCHANGED <<ledgerVars, directorDecision, roundTurn, target, anchored, worker, disruptions>>

\* recover_orphaned_work; the ledger is left alone.
CrashAndRestart ==
    /\ Disrupt /\ worker' = Off
    /\ \/ stage = "RUNNING" /\ ToPaused /\ CancelStarted
       \/ stage = "PAUSED" /\ CancelStarted /\ UNCHANGED roundVars
       \/ stage \notin {"RUNNING", "PAUSED"} /\ UNCHANGED <<roundVars, directorAttempt>>
    /\ UNCHANGED <<ledgerVars, directorDecision, roundTurn, target, anchored>>

Looping == Authorize \/ Open \/ TurnsUsedUp \/ AcknowledgePause \/ FailUnknownTurn \/ StartSelecting
Selection == \/ SelectWithoutCall \/ BeginAttempt \/ ReserveDirector \/ ReserveDirectorFails
             \/ DirectorAnswers \/ DirectorFails \/ RecordFailure \/ LedgerFails
Choosing == \/ NoTurnLeft \/ PauseChosen \/ Part \/ SelectionFailed \/ AddDecision \/ AnswerFinish
            \/ BudgetSpent \/ BeginTurn \/ TurnRefused \/ AnswerSpeak
Speaking == FailBeforeCall \/ ReserveSpeaker \/ SpeakerAnswers \/ SettleAnswer \/ SpeakerFails \/ FailTurn
Ending == Settle \/ Interrupt \/ Leave \/ Park \/ Seal \/ LeavingFails
Around == Resume \/ RecoverAttempts \/ Reopen \/ GiveUp \/ RequestPause \/ CancelPaused
            \/ CrashAndRestart

DirectorNext == Looping \/ Selection \/ Choosing \/ Speaking \/ Ending \/ Around
DirectorSpec == DirectorInit /\ [][DirectorNext]_directorVars

-----------------------------------------------------------------------------

\* The answer of a director names a recorded decision and, to speak, the turn
\* that was reserved for it.
AnswersVerify ==
    \A a \in DOMAIN directorAttempt :
       LET t == directorAttempt[a] IN
       t.status = "RESPONDED" =>
          /\ t.decision \in DOMAIN directorDecision
          /\ IF directorDecision[t.decision] = Finish
             THEN t.member = NoMember /\ t.order = 0
             ELSE /\ t.order \in DOMAIN roundTurn
                  /\ roundTurn[t.order].member = t.member
                  /\ roundTurn[t.order].decision = t.decision

\* A turn is spoken by the member of its decision, and no decision has two.
TurnsVerify ==
    \A n \in DOMAIN roundTurn :
       /\ roundTurn[n].decision \in DOMAIN directorDecision
       /\ directorDecision[roundTurn[n].decision] = Speak(roundTurn[n].member)
       /\ \A k \in DOMAIN roundTurn : roundTurn[k].decision = roundTurn[n].decision => k = n

\* Every call names a row that exists.
TargetsExist ==
    \A s \in Reserved(Run) :
       target[s] \in IF attempt[Run][s].kind = "round_director"
                     THEN DOMAIN directorAttempt ELSE DOMAIN roundTurn

\* The round's execution trace verifies at every moment, whatever crash, pause
\* or fault came between the rows it links.
TraceVerifies == AnswersVerify /\ TurnsVerify /\ TargetsExist

\* One recorded failure ends the director's calls of a round, over pauses,
\* restarts and resumptions: a failed or invalid attempt is its last one.
BreakerHolds ==
    \A a \in DOMAIN directorAttempt :
       directorAttempt[a].status \in {"FAILED", "INVALID"} => a = Len(directorAttempt)

\* No row is paid for twice: an attempt and a turn have one call each at most,
\* however often the round was interrupted and resumed; and no row claims an
\* answer whose call failed.
OneCallPerRow ==
    \A s \in Reserved(Run) :
       LET c == attempt[Run][s] IN
       /\ \A x \in Reserved(Run) :
             (attempt[Run][x].kind = c.kind /\ target[x] = target[s]) => x = s
       /\ c.status \in {"FAILED", "INVALID"} =>
             IF c.kind = "round_director"
             THEN directorAttempt[target[s]].status # "RESPONDED"
             ELSE roundTurn[target[s]].status # "RESPONDED"

\* A round that has ended keeps no director's attempt in flight.
NothingLeftStarted == stage \in {"FINISHED", "CANCELLED"} => NoneStarted

-----------------------------------------------------------------------------

\* README.md: entering PAUSED, COMPLETED, PARTIAL or CANCELLED seals the trace.
\* The code completes a round without it.
EndedIsAnchored == stage \in {"FINISHED", "CANCELLED"} => anchored

\* round_execution_trace reports a final round with a STARTED turn as broken.
FinalTurnsSettled == stage \in {"FINISHED", "CANCELLED"} => ~ TurnStarted
=============================================================================
