--------------------------- MODULE FormalExecution ---------------------------
(***************************************************************************)
(* The operations that spend a provider budget: the handlers of             *)
(* backend/http_server.py that launch a round, resume one and generate its  *)
(* minutes, down to the orchestrator and the artifact service, over the     *)
(* ledger of ProviderLedger.                                                *)
(*                                                                          *)
(* One room; its formal-execution lock is not waited for.  Cancelling a     *)
(* paused round does not take it, and a crash takes it away.  The ledger,   *)
(* the rounds and the minutes survive a crash.                              *)
(*                                                                          *)
(* Abstracted: what a round does between its calls (RoundRunner has that)   *)
(* and everything that only refuses: plans, routes, seals, market and       *)
(* workflow checks, the orchestrator's own room lock.  A refusal before a   *)
(* round is running is GiveUp, after that Park.  An interjection's call is  *)
(* a speaker's call: neither kind has a limit.                              *)
(***************************************************************************)
EXTENDS ProviderLedger

CONSTANTS
    Handlers,       \* HTTP threads
    Plans,          \* confirmed plans: <<max_provider_calls, director calls>>
    CallOutcomes,   \* the terminal statuses that callers report
    MaxDisruptions, \* bound on crashes and failing store calls
    Nobody

ASSUME FormalAssumption ==
    /\ Kinds = {"preflight_probe", "round_director", "round_speaker", "artifact_generation"}
    /\ "none" \notin Runs
    /\ Plans \subseteq (1 .. MaxBudget) \X (0 .. MaxBudget)
    /\ CallOutcomes \subseteq Outcomes /\ MaxDisruptions \in Nat /\ Nobody \notin Handlers

VARIABLES
    holder,      \* the entry of _formal_execution_locks
    handler,     \* the locals of each thread
    roundStatus, \* rounds.status; COMPLETED and PARTIAL are FINISHED
    saved,       \* the rounds with a checkpoint
    minutes,     \* the rounds with an artifact under their generation key
    sent,        \* history: requests sent to a provider, by run and slot
    disruptions  \* history: how many have happened

rounds == <<roundStatus, saved>>
formalVars == <<ledgerVars, holder, handler, rounds, minutes, sent, disruptions>>

Off == [pc |-> "off", run |-> "none", round |-> NoRound, slot |-> 0]
RunOf(d) == {r \in Runs : ledger[r].round = d}
InFlight(h) == handler[h].pc \in {"send_probe", "await_probe", "send_late", "await_late",
                                  "send_call", "await_call", "send_minutes", "await_minutes"}

FormalTypeOK ==
    /\ LedgerTypeOK
    /\ holder \in Handlers \cup {Nobody}
    /\ \A h \in Handlers : /\ handler[h].run \in Runs \cup {"none"}
                           /\ handler[h].round \in Rounds \cup {NoRound}
                           /\ InFlight(h) => handler[h].run \in Runs /\ handler[h].slot \in Slots
    /\ roundStatus \in [Rounds -> {"NONE", "RUNNING", "PAUSED", "FINISHED", "CANCELLED"}]
    /\ saved \subseteq Rounds /\ minutes \subseteq Rounds
    /\ sent \in [Runs -> [Slots -> Nat]]
    /\ disruptions \in 0 .. MaxDisruptions

FormalInit ==
    /\ LedgerInit
    /\ holder = Nobody
    /\ handler = [h \in Handlers |-> Off]
    /\ roundStatus = [d \in Rounds |-> "NONE"]
    /\ saved = {} /\ minutes = {}
    /\ sent = [r \in Runs |-> [s \in Slots |-> 0]]
    /\ disruptions = 0

At(h, s) == handler[h].pc = s
Goto(h, s) == handler' = [handler EXCEPT ![h].pc = s]
Disrupt == disruptions < MaxDisruptions /\ disruptions' = disruptions + 1
SetStatus(d, s) == roundStatus' = [roundStatus EXCEPT ![d] = s]

\* The finally block of the handlers: the thread ends, the lock is free.
Release(h) ==
    /\ handler' = [handler EXCEPT ![h] = Off]
    /\ holder' = Nobody

-----------------------------------------------------------------------------
(* Entering.                                                                *)

Enter_NoLock(h, s, r, d) ==   \* mutant: the room's lock is not taken
    /\ At(h, "off")
    /\ holder' = h
    /\ handler' = [handler EXCEPT ![h] = [pc |-> s, run |-> r, round |-> d, slot |-> 0]]
    /\ UNCHANGED <<ledgerVars, rounds, minutes, sent, disruptions>>

\* _acquire_formal_execution; when it is held the request is answered with
\* ROUND_EXECUTION_BUSY and changes nothing.
Enter(h, s, r, d) ==
    /\ At(h, "off") /\ holder = Nobody
    /\ holder' = h
    /\ handler' = [handler EXCEPT ![h] = [pc |-> s, run |-> r, round |-> d, slot |-> 0]]
    /\ UNCHANGED <<ledgerVars, rounds, minutes, sent, disruptions>>

Launch(h) == \E r \in Runs : Enter(h, "launch", r, NoRound)
Resume(h) == \E d \in Rounds : roundStatus[d] # "NONE" /\ Enter(h, "resume", "none", d)
Generate(h) == \E d \in Rounds : roundStatus[d] # "NONE" /\ Enter(h, "generate", "none", d)

\* Any check that refuses before a round runs: the handler answers and ends.
GiveUp(h) ==
    /\ \E s \in {"launch", "resume", "generate", "recover", "preflight", "blocked",
                 "open", "reopen", "draft"} : At(h, s)
    /\ Release(h)
    /\ UNCHANGED <<ledgerVars, rounds, minutes, sent, disruptions>>

\* ProviderCallLedger.create: a new run, or a replay of one not bound yet.
\* The budget and the director's share come from the confirmed plan.
OpenLedger(h) ==
    /\ At(h, "launch") /\ \A d \in Rounds : roundStatus[d] # "PAUSED"
    /\ LET r == handler[h].run IN
          \/ \E plan \in Plans :
                CreateRun(r, plan[1],
                          [[k \in Kinds |-> MaxBudget] EXCEPT !["round_director"] = plan[2]])
          \/ Created(r) /\ ledger[r].round = NoRound /\ UNCHANGED ledgerVars
    /\ Goto(h, "recover")
    /\ UNCHANGED <<holder, rounds, minutes, sent, disruptions>>

\* ProviderCallLedger.resume_for_round, and the check that the round is PAUSED.
FindLedger(h) ==
    /\ At(h, "resume") /\ roundStatus[handler[h].round] = "PAUSED"
    /\ \E r \in RunOf(handler[h].round) :
          handler' = [handler EXCEPT ![h].pc = "recover", ![h].run = r]
    /\ UNCHANGED <<ledgerVars, holder, rounds, minutes, sent, disruptions>>

Orphans_Refund(r) ==   \* mutant: lost calls are forgotten, their slots free again
    /\ Created(r)
    /\ attempt' = [attempt EXCEPT ![r] =
           [s \in Slots |-> IF s \in Started(r) THEN NoAttempt ELSE attempt[r][s]]]
    /\ ledger' = [ledger EXCEPT ![r].reserved = @ - Cardinality(Started(r)),
                                ![r].status = "OPEN"]

\* What an earlier process left in flight is lost.
Orphans(r) == AbandonStarted(r) \/ (Started(r) = {} /\ UNCHANGED ledgerVars)
RecoverCalls(h) ==
    /\ At(h, "recover") /\ Orphans(handler[h].run)
    /\ Goto(h, "preflight")
    /\ UNCHANGED <<holder, rounds, minutes, sent, disruptions>>

-----------------------------------------------------------------------------
(* A provider call: reserve, send, finish.                                  *)

\* The callers, and where each of them goes on.  A preflight checks the routes
\* that remain even when it has failed (blocked) already.
Probes == [kinds |-> {"preflight_probe"}, from |-> "preflight",
           send |-> "send_probe", await |-> "await_probe", then |-> "preflight"]
LateProbes == [kinds |-> {"preflight_probe"}, from |-> "blocked",
               send |-> "send_late", await |-> "await_late", then |-> "blocked"]
Calls == [kinds |-> {"round_director", "round_speaker"}, from |-> "discuss",
          send |-> "send_call", await |-> "await_call", then |-> "discuss"]
Drafts == [kinds |-> {"artifact_generation"}, from |-> "draft",
           send |-> "send_minutes", await |-> "await_minutes", then |-> "write"]
Callers == {Probes, LateProbes, Calls, Drafts}

ReserveCall(h) ==
    /\ \E c \in Callers :
          /\ At(h, c.from)
          /\ \E k \in c.kinds : Reserve(handler[h].run, k)
          /\ handler' = [handler EXCEPT ![h].pc = c.send,
                                        ![h].slot = ledger[handler[h].run].reserved + 1]
    /\ UNCHANGED <<holder, rounds, minutes, sent, disruptions>>

SendRequest(h) ==
    /\ \E c \in Callers : At(h, c.send) /\ Goto(h, c.await)
    /\ sent' = [sent EXCEPT ![handler[h].run][handler[h].slot] = @ + 1]
    /\ UNCHANGED <<ledgerVars, holder, rounds, minutes, disruptions>>

SettleCall(h) ==
    /\ \E c \in Callers : At(h, c.await) /\ Goto(h, c.then)
    /\ \E o \in CallOutcomes : FinishCall(handler[h].run, handler[h].slot, o)
    /\ UNCHANGED <<holder, rounds, minutes, sent, disruptions>>

SettleFails_Again(h) ==   \* mutant: the request is repeated on the same slot
    /\ Disrupt
    /\ \E c \in Callers : At(h, c.await) /\ Goto(h, c.send)
    /\ UNCHANGED <<ledgerVars, holder, rounds, minutes, sent>>

\* The outcome cannot be recorded.  The result is not used, the call stays
\* STARTED; a preflight is blocked, the minutes fail, a round pauses.
SettleFails(h) ==
    /\ Disrupt
    /\ \/ /\ At(h, "await_probe") \/ At(h, "await_late")
          /\ Goto(h, "blocked") /\ UNCHANGED <<holder, rounds>>
       \/ At(h, "await_minutes") /\ Release(h) /\ UNCHANGED rounds
       \/ /\ At(h, "await_call") /\ Release(h)
          /\ SetStatus(handler[h].round, "PAUSED") /\ UNCHANGED saved
    /\ UNCHANGED <<ledgerVars, minutes, sent>>

-----------------------------------------------------------------------------
(* A round, from the end of its preflight.                                  *)

ToOrchestrator(h) ==
    /\ At(h, "preflight") /\ Goto(h, IF handler[h].round = NoRound THEN "open" ELSE "reopen")
    /\ UNCHANGED <<ledgerVars, holder, rounds, minutes, sent, disruptions>>

\* create_round: refused while another round of the room is paused.
CreateRound(h) ==
    /\ At(h, "open") /\ \A d \in Rounds : roundStatus[d] # "PAUSED"
    /\ \E d \in Rounds :
          /\ roundStatus[d] = "NONE"
          /\ SetStatus(d, "RUNNING")
          /\ handler' = [handler EXCEPT ![h].pc = "bind", ![h].round = d]
    /\ UNCHANGED <<ledgerVars, holder, saved, minutes, sent, disruptions>>

Bind(h) ==
    /\ At(h, "bind") /\ BindRound(handler[h].run, handler[h].round)
    /\ Goto(h, "checkpoint")
    /\ UNCHANGED <<holder, rounds, minutes, sent, disruptions>>

BindFails(h) ==
    /\ Disrupt /\ At(h, "bind") /\ SetStatus(handler[h].round, "CANCELLED") /\ Release(h)
    /\ UNCHANGED <<ledgerVars, saved, minutes, sent>>

\* The orchestrator looks for orphaned calls once more, then resume_round.
ResumeRound(h) ==
    /\ At(h, "reopen") /\ Orphans(handler[h].run)
    /\ roundStatus[handler[h].round] = "PAUSED" /\ handler[h].round \in saved
    /\ SetStatus(handler[h].round, "RUNNING") /\ Goto(h, "checkpoint")
    /\ UNCHANGED <<holder, saved, minutes, sent, disruptions>>

SaveCheckpoint(h) ==
    /\ At(h, "checkpoint") /\ saved' = saved \cup {handler[h].round} /\ Goto(h, "discuss")
    /\ UNCHANGED <<ledgerVars, holder, roundStatus, minutes, sent, disruptions>>

\* A store call raises before the first checkpoint, where nothing handles it:
\* the row stays RUNNING, the lock is released.
OpeningFault(h) ==
    /\ Disrupt /\ At(h, "checkpoint") /\ Release(h)
    /\ UNCHANGED <<ledgerVars, rounds, minutes, sent>>

\* A pause, a closed stream, an exhausted budget or any error of the round.
Park(h) ==
    /\ At(h, "discuss") /\ SetStatus(handler[h].round, "PAUSED") /\ Release(h)
    /\ UNCHANGED <<ledgerVars, saved, minutes, sent, disruptions>>

Finish(h) ==
    /\ At(h, "discuss") /\ SetStatus(handler[h].round, "FINISHED") /\ Release(h)
    /\ UNCHANGED <<ledgerVars, saved, minutes, sent, disruptions>>

-----------------------------------------------------------------------------
(* Minutes.                                                                 *)

\* No artifact yet, an eligible round, its ledger, and nothing in flight on it.
CheckMinutes(h) ==
    /\ At(h, "generate")
    /\ LET d == handler[h].round IN
          /\ d \notin minutes /\ roundStatus[d] \notin {"RUNNING", "CANCELLED"} /\ d \in saved
          /\ \E r \in RunOf(d) :
                /\ Started(r) = {}
                /\ handler' = [handler EXCEPT ![h].pc = "draft", ![h].run = r]
    /\ UNCHANGED <<ledgerVars, holder, rounds, minutes, sent, disruptions>>

\* No provider is available, or the budget is spent: a template is written.
UseTemplate(h) ==
    /\ At(h, "draft") /\ Goto(h, "write")
    /\ UNCHANGED <<ledgerVars, holder, rounds, minutes, sent, disruptions>>

WriteMinutes(h) ==
    /\ At(h, "write") /\ minutes' = minutes \cup {handler[h].round} /\ Release(h)
    /\ UNCHANGED <<ledgerVars, rounds, sent, disruptions>>

-----------------------------------------------------------------------------
(* Around the handlers.                                                     *)

\* cancel_paused_round; no lock.
CancelPaused(d) ==
    /\ roundStatus[d] = "PAUSED" /\ SetStatus(d, "CANCELLED")
    /\ UNCHANGED <<ledgerVars, holder, handler, saved, minutes, sent, disruptions>>

CrashAndRestart_PauseAll ==   \* mutant: a round without a checkpoint is kept
    /\ Disrupt
    /\ holder' = Nobody /\ handler' = [h \in Handlers |-> Off]
    /\ roundStatus' = [d \in Rounds |->
           IF roundStatus[d] = "RUNNING" THEN "PAUSED" ELSE roundStatus[d]]
    /\ UNCHANGED <<ledgerVars, saved, minutes, sent>>

\* The process dies and is started again: recover_orphaned_work pauses the
\* rounds it can verify, cancels the others, and leaves the ledger alone.
CrashAndRestart ==
    /\ Disrupt
    /\ holder' = Nobody /\ handler' = [h \in Handlers |-> Off]
    /\ roundStatus' = [d \in Rounds |->
           IF roundStatus[d] \notin {"RUNNING", "PAUSED"} THEN roundStatus[d]
           ELSE IF d \in saved THEN "PAUSED" ELSE "CANCELLED"]
    /\ UNCHANGED <<ledgerVars, saved, minutes, sent>>

HandlerStep(h) ==
    \/ Launch(h) \/ Resume(h) \/ Generate(h) \/ GiveUp(h)
    \/ OpenLedger(h) \/ FindLedger(h) \/ RecoverCalls(h)
    \/ ReserveCall(h) \/ SendRequest(h) \/ SettleCall(h) \/ SettleFails(h)
    \/ ToOrchestrator(h) \/ CreateRound(h) \/ Bind(h) \/ BindFails(h) \/ ResumeRound(h)
    \/ SaveCheckpoint(h) \/ OpeningFault(h) \/ Park(h) \/ Finish(h)
    \/ CheckMinutes(h) \/ UseTemplate(h) \/ WriteMinutes(h)

FormalNext ==
    \/ \E h \in Handlers : HandlerStep(h)
    \/ \E d \in Rounds : CancelPaused(d)
    \/ CrashAndRestart

FormalSpec == FormalInit /\ [][FormalNext]_formalVars

-----------------------------------------------------------------------------

\* While a handler is between reserving a call and recording its outcome, no
\* other handler, resume or recovery takes the attempt away: it is STARTED,
\* and no second handler works on the same run.
LiveCallsStarted ==
    \A h \in Handlers :
       InFlight(h) =>
          /\ attempt[handler[h].run][handler[h].slot].status = "STARTED"
          /\ \A g \in Handlers \ {h} : handler[g].run # handler[h].run

\* A reservation pays for one request: none is sent without one, and none
\* twice on the same one, over failures, resumes and restarts.
RequestsArePaid ==
    \A r \in Runs, s \in Slots :
       /\ sent[r][s] <= 1
       /\ sent[r][s] = 1 => s \in Reserved(r)

\* A round that can be resumed or written up has the checkpoint and the one
\* authorisation that both need; a paused round without them would block the
\* room for ever.
KeptRoundsHaveLedger ==
    \A d \in Rounds :
       roundStatus[d] \in {"PAUSED", "FINISHED"} =>
          d \in saved /\ \E r \in Runs : RunOf(d) = {r}

\* Every step of the handlers is a step of the ledger, so what is proved of
\* ProviderLedger holds for the backend.
ImplementsLedger == LedgerSpec

\* The advice given with ARTIFACT_ROUND_LEDGER_BUSY can be followed: a call
\* that nobody is waiting for belongs to a round that can still be resumed.
LostCallsAreRecoverable ==
    \A d \in Rounds :
       \A r \in RunOf(d) :
          roundStatus[d] = "FINISHED" /\ holder = Nobody => Started(r) = {}
=============================================================================
