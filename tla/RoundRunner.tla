----------------------------- MODULE RoundRunner -----------------------------
(***************************************************************************)
(* A discussion round: _run_round_unlocked (backend/orchestrator.py) over   *)
(* the rounds, round_checkpoints and round_turns tables of the store, with  *)
(* the interjections that users post while it runs routed through the chat  *)
(* tables of ChatStore.                                                     *)
(*                                                                          *)
(* The room lock lets one round run at a time, so one record, run, is the   *)
(* local state of the generator.  It survives neither a crash nor a closed  *)
(* stream; what it has done since is in the checkpoint and in the turn      *)
(* ledger.  Pause, cancel and post come from other handlers, which take no  *)
(* room lock, between any two of its steps.                                 *)
(*                                                                          *)
(* Abstracted: prompts, evidence, citations, the provider-call and director *)
(* ledgers, and the convergence gates, of which only "does required formal  *)
(* work remain" is kept (WorkMayRemain).  Every error return and exception  *)
(* those parts can raise inside the try block is an Interrupt.  A provider  *)
(* on the skip list is a turn that fails before its call (FailBeforeCall).  *)
(* Which of several equally entitled members speaks, is assigned or answers *)
(* first is left open: the code ranks them by position and by the director's *)
(* advice.  Turn and checkpoint commit together, so a terminal turn at the  *)
(* order to be scheduled, which the code would restore, does not occur.     *)
(***************************************************************************)
EXTENDS ChatStore, Sequences

CONSTANTS
    Rounds,             \* rounds rows, numbered in order of creation
    MemberOrder,        \* the members by position
    Moderator,          \* the frozen moderator of a dynamic round
    Dynamic,            \* discussion_mode: "dynamic", or rule-based order
    MemberCap,          \* workflow_policy.max_turns_per_member
    FollowUps,          \* workflow_policy.follow_up_budget
    Required,           \* workflow_policy.minimum_successful_members
    MaxConsecutive,     \* MAX_CONSECUTIVE_INTERJECTIONS
    StoreFaults,        \* may a store call raise outside the try blocks?
    MaxDisruptions,     \* bound on interrupts, crashes, expiries, member edits
    NoRound, NoMember

ASSUME RoundAssumption ==
    /\ Rounds \subseteq Nat /\ Requests \subseteq Nat
    /\ MemberOrder \in Seq(Members) /\ Moderator \in Members
    /\ \A m \in Members : \E i \in DOMAIN MemberOrder : MemberOrder[i] = m
    /\ \A i, j \in DOMAIN MemberOrder : MemberOrder[i] = MemberOrder[j] => i = j
    /\ Dynamic \in BOOLEAN /\ StoreFaults \in BOOLEAN
    /\ MemberCap \in Nat \ {0} /\ FollowUps \in Nat /\ Required \in Nat
    /\ MaxConsecutive \in Nat \ {0} /\ MaxDisruptions \in Nat /\ MaxAttempts > MaxDisruptions
    /\ NoRound \notin Rounds /\ NoMember \notin Members

Orders == 1 .. (Len(MemberOrder) * MemberCap)
OpenRound == {"RUNNING", "PAUSED"}
FinishedRound == {"COMPLETED", "PARTIAL"}
RoundStatus == {"NONE", "CANCELLED"} \cup OpenRound \cup FinishedRound

VARIABLES
    roundStatus,    \* rounds.status
    pauseRequested, \* rounds.pause_requested
    roster,         \* checkpoint member_ids: the members frozen at creation
    checkpoint,     \* round_checkpoints.state: <<>> or <<[next, p]>>
    turn,           \* round_turns, by turn_order
    requestRound,   \* chat_requests.round_id
    run,            \* the generator that holds the room lock
    enabled,        \* members.enabled
    up,             \* is the process running?
    calls,          \* history: model calls made for a formal turn
    streak,         \* history: interjections closed since the last formal turn
    disruptions     \* history: how many have happened

roundTables == <<roundStatus, pauseRequested, roster, checkpoint, turn, requestRound>>
history == <<calls, streak>>
env == <<enabled, up, disruptions>>
roundVars == <<chatVars, roundTables, run, history, env>>

\* The counters a checkpoint carries (_checkpoint_state).
Fresh == [spoken |-> [m \in Members |-> 0], ok |-> {}, failed |-> {},
          completed |-> 0, failures |-> 0, skipped |-> 0, consecutive |-> 0]
Done(p) == p.completed + p.failures + p.skipped

NoTurn == [status |-> "NONE", member |-> NoMember]
NoChoice == [kind |-> "none", req |-> 0, member |-> NoMember]
Off == [pc |-> "off"]
At(s) == run.pc = s
Order == run.base + Done(run.p)     \* base: next_order less the counters loaded with it

HasCheckpoint(r) == checkpoint[r] # <<>>
RosterSet(r) == {roster[r][i] : i \in DOMAIN roster[r]}
MaxTurns(r) ==
    LET n == Len(roster[r]) IN
    IF ~ Dynamic \/ n = 1 THEN n
    ELSE IF n * MemberCap < n + FollowUps THEN n * MemberCap ELSE n + FollowUps
TurnsIn(r, s) == {o \in Orders : turn[r][o].status = s}

RoundTypeOK ==
    /\ ChatTypeOK
    /\ roundStatus \in [Rounds -> RoundStatus]
    /\ pauseRequested \in [Rounds -> BOOLEAN]
    /\ requestRound \in [Requests -> Rounds \cup {NoRound}]
    /\ enabled \in SUBSET Members /\ up \in BOOLEAN /\ disruptions \in Nat
    /\ \A r \in Rounds :
          /\ roster[r] \in Seq(Members)
          /\ HasCheckpoint(r) => checkpoint[r][1].next \in 1 .. (Len(roster[r]) * MemberCap + 1)
          /\ \A o \in Orders : /\ turn[r][o].status \in {"NONE", "STARTED", "RESPONDED", "FAILED"}
                               /\ turn[r][o].status # "NONE" => turn[r][o].member \in RosterSet(r)

RoundInit ==
    /\ ChatInit
    /\ roundStatus = [r \in Rounds |-> "NONE"]
    /\ pauseRequested = [r \in Rounds |-> FALSE]
    /\ roster = [r \in Rounds |-> <<>>]
    /\ checkpoint = [r \in Rounds |-> <<>>]
    /\ turn = [r \in Rounds |-> [o \in Orders |-> NoTurn]]
    /\ requestRound = [q \in Requests |-> NoRound]
    /\ run = Off
    /\ enabled = Members /\ up = TRUE
    /\ calls = [r \in Rounds |-> [o \in Orders |-> 0]]
    /\ streak = [r \in Rounds |-> 0]
    /\ disruptions = 0

Disrupt == disruptions < MaxDisruptions /\ disruptions' = disruptions + 1
Goto(s) == run' = [run EXCEPT !.pc = s]

-----------------------------------------------------------------------------
(* Store transactions of a round.                                           *)

\* save_round_checkpoint, and the same upsert inside add_message and
\* pause_round_at_checkpoint.
Save(r, next, p) == checkpoint' = [checkpoint EXCEPT ![r] = <<[next |-> next, p |-> p]>>]

\* complete_round: an unconditional UPDATE.
SetStatus(r, s) ==
    /\ roundStatus' = [roundStatus EXCEPT ![r] = s]
    /\ pauseRequested' = [pauseRequested EXCEPT ![r] = FALSE]

\* The pending interjections of the round, oldest first (created_at, id).
OpenInterjections(r) == {q \in Requests : requestRound[q] = r /\ request[q] \in OpenRequest}
RequestsOf(r) == {q \in Requests : requestRound[q] = r}
Oldest(Q) == CHOOSE q \in Q : \A x \in Q : q <= x

\* The members whose AI messages carry the round id: formal answers and
\* answered interjections alike.
RoundSpeakers(r) ==
    {turn[r][o].member : o \in TurnsIn(r, "RESPONDED")}
        \cup {m \in Members : \E q \in RequestsOf(r) : target[<<q, m>>] = "RESPONDED"}

-----------------------------------------------------------------------------
(* Opening: create or resume, first checkpoint, announcement.               *)

Begin(r, s, next, p) ==
    run' = [pc |-> s, r |-> r, base |-> next - Done(p), p |-> p, choice |-> NoChoice,
            claim |-> NoToken, work |-> TRUE, closed |-> FALSE]
Opening == At("created") \/ At("resumed")

\* The members of M by position.
Position(m) == CHOOSE i \in DOMAIN MemberOrder : MemberOrder[i] = m
RostersOf(M) ==
    {s \in UNION {[1 .. n -> M] : n \in DOMAIN MemberOrder} :
        /\ \A m \in M : \E i \in DOMAIN s : s[i] = m
        /\ \A i, j \in DOMAIN s : i < j => Position(s[i]) < Position(s[j])}

\* create_formal_round, for a selection of enabled members that includes the
\* moderator; a paused round of the room refuses it.
CreateRound(r, M) ==
    /\ up /\ At("off")
    /\ roundStatus[r] = "NONE" /\ \A x \in Rounds : x < r => roundStatus[x] # "NONE"
    /\ M \subseteq enabled /\ M # {} /\ (Dynamic => Moderator \in M)
    /\ \A x \in Rounds : roundStatus[x] # "PAUSED"
    /\ SetStatus(r, "RUNNING")
    /\ \E s \in RostersOf(M) : roster' = [roster EXCEPT ![r] = s]
    /\ Begin(r, "created", 1, Fresh)
    /\ UNCHANGED <<chatVars, checkpoint, turn, requestRound, history, env>>

\* resume_round.  A checkpoint without successes is completed from the AI
\* messages of the round.
ResumeRound(r) ==
    /\ up /\ At("off")
    /\ roundStatus[r] = "PAUSED" /\ HasCheckpoint(r)
    /\ SetStatus(r, "RUNNING")
    /\ LET c == checkpoint[r][1] IN
       Begin(r, "resumed", c.next,
             [c.p EXCEPT !.ok = IF c.p.ok = {} THEN RoundSpeakers(r) ELSE c.p.ok])
    /\ UNCHANGED <<chatVars, roster, checkpoint, turn, requestRound, history, env>>

SaveFirstCheckpoint ==
    /\ Opening
    /\ Save(run.r, Order, run.p)
    /\ Goto("announce")
    /\ UNCHANGED <<chatVars, roundStatus, pauseRequested, roster, turn, requestRound,
                   history, env>>

\* The ledger cannot be bound, the output protocol or the checkpoint is
\* refused: a new round is cancelled, a resumed one paused again.
RejectOpening_PauseAlways ==   \* mutant: paused although there is nothing to resume from
    /\ Opening /\ Disrupt
    /\ SetStatus(run.r, "PAUSED")
    /\ Goto("unlock")
    /\ UNCHANGED <<chatVars, roster, checkpoint, turn, requestRound, history, enabled, up>>

RejectOpening ==
    /\ Opening /\ Disrupt
    /\ SetStatus(run.r, IF At("resumed") THEN "PAUSED" ELSE "CANCELLED")
    /\ Goto("unlock")
    /\ UNCHANGED <<chatVars, roster, checkpoint, turn, requestRound, history, enabled, up>>

\* A store call raises anything else between the insert of the round and the
\* first checkpoint: no handler is there, only the room lock is released.
OpeningFault ==
    /\ StoreFaults /\ Opening /\ Disrupt
    /\ Goto("unlock")
    /\ UNCHANGED <<chatVars, roundTables, history, enabled, up>>

\* round_started / round_resumed and its companions reach the client, or the
\* stream is closed and the finally block parks the round.
Announce ==
    /\ At("announce") /\ Goto("top")
    /\ UNCHANGED <<chatVars, roundTables, history, env>>
AnnounceFails ==
    /\ At("announce") /\ Disrupt
    /\ SetStatus(run.r, "PAUSED")
    /\ Goto("unlock")
    /\ UNCHANGED <<chatVars, roster, checkpoint, turn, requestRound, history, enabled, up>>

-----------------------------------------------------------------------------
(* The top of the scheduling loop, in the order of its checks.              *)

BudgetSpent_FormalOnly == Order > MaxTurns(run.r)   \* mutant: the queue is forgotten

BudgetSpent ==
    Order > MaxTurns(run.r) /\ ~ (Dynamic /\ OpenInterjections(run.r) # {})

LeaveLoop ==
    /\ At("top") /\ BudgetSpent
    /\ Goto("settle")
    /\ UNCHANGED <<chatVars, roundTables, history, env>>

\* The moderator, or the member selected for a formal turn, was switched off
\* since the selection.
SelectionStale ==
    \/ Moderator \notin enabled
    \/ run.choice.kind = "speak" /\ run.choice.member \notin enabled

\* acknowledge_pause: checkpoint and status in one transaction, so the
\* generator is finished and its finally block writes nothing more.
AcknowledgePause ==
    /\ \/ At("top") /\ ~ BudgetSpent
       \/ At("chosen") /\ ~ SelectionStale
    /\ pauseRequested[run.r]
    /\ Save(run.r, Order, run.p)
    /\ SetStatus(run.r, "PAUSED")
    /\ Goto("unlock")
    /\ UNCHANGED <<chatVars, roster, turn, requestRound, history, env>>

Scheduling == At("top") /\ ~ BudgetSpent /\ ~ pauseRequested[run.r]
Unfinished == Order \in Orders /\ turn[run.r][Order].status = "STARTED"

Interjected(p) == [p EXCEPT !.consecutive = @ + 1]
Succeeded(p, m) == [p EXCEPT !.spoken[m] = @ + 1, !.ok = @ \cup {m},
                             !.completed = @ + 1, !.consecutive = 0]
Failed(p, m, F) == [p EXCEPT !.spoken[m] = @ + 1, !.failed = @ \cup F,
                             !.failures = @ + 1, !.consecutive = 0]

CommitTurn_NoCheckpoint(s, p) ==   \* mutant: the checkpoint is left to a later save
    /\ turn[run.r][Order].status = "STARTED"
    /\ turn' = [turn EXCEPT ![run.r][Order].status = s]
    /\ streak' = [streak EXCEPT ![run.r] = 0]
    /\ run' = [run EXCEPT !.pc = "top", !.p = p, !.choice = NoChoice, !.work = TRUE]
    /\ UNCHANGED <<roundStatus, pauseRequested, roster, checkpoint, requestRound, calls, env>>

\* add_message with a round turn: message, turn and checkpoint together.
\* (persist_checkpoint, which follows a success, writes the same counters.)
CommitTurn(s, p) ==
    /\ turn[run.r][Order].status = "STARTED"
    /\ turn' = [turn EXCEPT ![run.r][Order].status = s]
    /\ Save(run.r, Order + 1, p)
    /\ streak' = [streak EXCEPT ![run.r] = 0]
    /\ run' = [run EXCEPT !.pc = "top", !.p = p, !.choice = NoChoice, !.work = TRUE]
    /\ UNCHANGED <<roundStatus, pauseRequested, roster, requestRound, calls, env>>

FailUnknownTurn_Retry ==   \* mutant: an unfinished turn is called again
    /\ Scheduling /\ Unfinished
    /\ run' = [run EXCEPT !.pc = "reserved",
                  !.choice = [kind |-> "speak", req |-> 0, member |-> turn[run.r][Order].member]]
    /\ UNCHANGED <<chatVars, roundTables, history, env>>

\* A turn left STARTED by a crash or a closed stream is not called again: its
\* result is unknown and it counts as a failure.
FailUnknownTurn ==
    /\ Scheduling /\ Unfinished
    /\ LET m == turn[run.r][Order].member IN CommitTurn("FAILED", Failed(run.p, m, {m}))
    /\ UNCHANGED chatVars

Available(r) == RosterSet(r) \cap enabled

ModeratorGone ==
    /\ Scheduling /\ ~ Unfinished
    /\ Dynamic /\ Moderator \notin Available(run.r)
    /\ Goto("finally")
    /\ UNCHANGED <<chatVars, roundTables, history, env>>

-----------------------------------------------------------------------------
(* _select_next_member, dynamic mode.                                       *)

\* The convergence gate wants Required members with a qualified formal answer;
\* with them, the other gates may still hold it back.
WorkMayRemain ==
    LET formal == {turn[run.r][o].member : o \in TurnsIn(run.r, "RESPONDED")} IN
    IF Cardinality(run.p.ok \cap formal \cap enabled) < Required THEN {TRUE} ELSE BOOLEAN

Callable == {m \in Available(run.r) : m \notin run.p.failed /\ run.p.spoken[m] < MemberCap}
Unspoken == {m \in Available(run.r) : m \notin run.p.failed /\ run.p.spoken[m] = 0}
Eligible == IF Unspoken # {} THEN Unspoken ELSE Callable
Attempted == \E m \in Members : run.p.spoken[m] > 0

\* Who a moderated interjection may be assigned to.
Assignable ==
    IF ~ Attempted THEN Available(run.r)
    ELSE IF Eligible # {} THEN Eligible
    ELSE IF Available(run.r) \ run.p.failed # {} THEN Available(run.r) \ run.p.failed
    ELSE Available(run.r)

Interjection(q) ==   \* the choices a pending interjection leads to
    LET waiting == {m \in Members : target'[<<q, m>>] = "PENDING"} IN
    IF waiting # {}
    THEN {[kind |-> IF m \in Callable THEN "answer" ELSE "fail", req |-> q, member |-> m] :
             m \in waiting}
    ELSE IF mode[q] = "moderated" /\ ~ HasTarget(q)
    THEN {[kind |-> "assign", req |-> q, member |-> m] : m \in Assignable}
    ELSE {}

Formal(only, force, work) ==   \* without one: a formal speaker, or the end
    LET speakers == IF Attempted THEN Eligible ELSE Available(run.r)
        finish == [NoChoice EXCEPT !.kind = "finish"] IN
    IF only \/ speakers = {} THEN {finish}
    ELSE {[kind |-> "speak", req |-> 0, member |-> m] : m \in speakers}
             \cup (IF Attempted /\ ~ force /\ ~ work THEN {finish} ELSE {})

MustYield_Off(only, work) == FALSE   \* mutant: interjections never wait

\* force_formal_turn
MustYield(only, work) == ~ only /\ work /\ run.p.consecutive >= MaxConsecutive

Choose ==
    /\ Scheduling /\ ~ Unfinished
    /\ Dynamic /\ Moderator \in Available(run.r)
    /\ RecoverExpired(RequestsOf(run.r))
    /\ \E work \in WorkMayRemain :
          LET only == Order > MaxTurns(run.r)
              force == MustYield(only, work)
              waiting == IF force THEN {} ELSE OpenInterjections(run.r)
              answers == IF waiting = {} THEN {} ELSE Interjection(Oldest(waiting)) IN
          \E c \in IF answers # {} THEN answers ELSE Formal(only, force, work) :
             run' = [run EXCEPT !.pc = "chosen", !.choice = c, !.work = work]
    /\ UNCHANGED <<roundTables, history, env>>

\* The interjections are drained and nothing more is required: no optional
\* follow-up is bought.
Drained ==
    /\ Scheduling /\ ~ Unfinished
    /\ Dynamic /\ Moderator \in Available(run.r)
    /\ FALSE \in WorkMayRemain /\ run.p.consecutive > 0 /\ OpenInterjections(run.r) = {}
    /\ Goto("settle")
    /\ UNCHANGED <<chatVars, roundTables, history, env>>

-----------------------------------------------------------------------------
(* Rule-based order: the roster once, and no interjection unless nobody is   *)
(* left to speak.                                                           *)

ScheduleInOrder ==
    /\ Scheduling /\ ~ Unfinished
    /\ ~ Dynamic /\ Available(run.r) # {} /\ roster[run.r][Order] \in enabled
    /\ run' = [run EXCEPT !.pc = "act",
                  !.choice = [kind |-> "speak", req |-> 0, member |-> roster[run.r][Order]]]
    /\ UNCHANGED <<chatVars, roundTables, history, env>>

SkipMember ==
    /\ Scheduling /\ ~ Unfinished
    /\ ~ Dynamic /\ Available(run.r) # {} /\ roster[run.r][Order] \notin enabled
    /\ LET p == [run.p EXCEPT !.skipped = @ + 1, !.consecutive = 0] IN
          /\ Save(run.r, Order + 1, p)
          /\ run' = [run EXCEPT !.p = p]
    /\ streak' = [streak EXCEPT ![run.r] = 0]
    /\ UNCHANGED <<chatVars, roundStatus, pauseRequested, roster, turn, requestRound,
                   calls, env>>

NobodyLeft ==
    /\ Scheduling /\ ~ Unfinished
    /\ ~ Dynamic /\ Available(run.r) = {}
    /\ RecoverExpired(RequestsOf(run.r))
    /\ Goto(IF OpenInterjections(run.r) = {} THEN "settle" ELSE "drain")
    /\ UNCHANGED <<roundTables, history, env>>

CloseInterjection_NoCheckpoint(t, k, s) ==   \* mutant: the counter is only in memory
    /\ Commit(t, k, s)
    /\ streak' = [streak EXCEPT ![run.r] = @ + 1]
    /\ run' = [run EXCEPT !.pc = "top", !.p = Interjected(@), !.choice = NoChoice,
                           !.claim = NoToken, !.work = TRUE]
    /\ UNCHANGED <<roundStatus, pauseRequested, roster, checkpoint, turn, requestRound,
                   calls, env>>

\* add_message with a chat target and a checkpoint: the message, the target
\* and the counter of consecutive interjections in one transaction.
CloseInterjection(t, k, s) ==
    /\ Commit(t, k, s)
    /\ Save(run.r, Order, Interjected(run.p))
    /\ streak' = [streak EXCEPT ![run.r] = @ + 1]
    /\ run' = [run EXCEPT !.pc = "top", !.p = Interjected(@), !.choice = NoChoice,
                           !.claim = NoToken, !.work = TRUE]
    /\ UNCHANGED <<roundStatus, pauseRequested, roster, turn, requestRound, calls, env>>

DrainTarget ==
    /\ At("drain")
    /\ \E m \in Members : CloseInterjection(<<Oldest(OpenInterjections(run.r)), m>>,
                                             NoToken, "FAILED")

DrainEmpty ==
    /\ At("drain")
    /\ CancelEmptyModerated(Oldest(OpenInterjections(run.r)))
    /\ Goto("drained")
    /\ UNCHANGED <<roundTables, history, env>>

DrainCheckpoint ==
    /\ At("drained")
    /\ Save(run.r, Order, Interjected(run.p))
    /\ streak' = [streak EXCEPT ![run.r] = @ + 1]
    /\ run' = [run EXCEPT !.pc = "settle", !.p = Interjected(@)]
    /\ UNCHANGED <<chatVars, roundStatus, pauseRequested, roster, turn, requestRound,
                   calls, env>>

-----------------------------------------------------------------------------
(* Acting on the choice.                                                    *)

\* Members and the pause request are read again before anything is written.
Recheck ==
    /\ At("chosen") /\ (SelectionStale \/ ~ pauseRequested[run.r])
    /\ Goto(IF SelectionStale THEN "finally" ELSE "act")
    /\ UNCHANGED <<chatVars, roundTables, history, env>>

Chosen(k) == At("act") /\ run.choice.kind = k
ChosenTarget == <<run.choice.req, run.choice.member>>

FailTarget_Skip ==   \* mutant: a target that cannot be called is passed over
    /\ Chosen("fail")
    /\ run' = [run EXCEPT !.pc = "top", !.choice = NoChoice, !.work = TRUE]
    /\ UNCHANGED <<chatVars, roundTables, history, env>>

FailTarget ==
    /\ Chosen("fail")
    /\ CloseInterjection(ChosenTarget, NoToken, "FAILED")

TakeTarget ==
    /\ \/ Chosen("answer") /\ Claim(ChosenTarget)
       \/ Chosen("assign") /\ AssignModerated(ChosenTarget)
    /\ run' = [run EXCEPT !.pc = "claimed", !.claim = token'[ChosenTarget]]
    /\ UNCHANGED <<roundTables, history, env>>

\* The member is read once more after the claim ...
TargetGone ==
    /\ At("claimed") /\ run.choice.member \notin enabled
    /\ CloseInterjection(ChosenTarget, run.claim, "FAILED")

AskTarget ==
    /\ At("claimed") /\ run.choice.member \in enabled
    /\ Goto("asked")
    /\ UNCHANGED <<chatVars, roundTables, history, env>>

\* ... then the model is called, and whatever it says closes the target.
TargetAnswered(s) == At("asked") /\ CloseInterjection(ChosenTarget, run.claim, s)

\* The claim was taken back while the model was out (a resume of this request
\* is refused with 409, but only after it has recovered expired leases):
\* add_message raises, the failure message raises again.
AnswerRejected ==
    /\ At("claimed") \/ At("asked")
    /\ ~ CommitAllowed(ChosenTarget, run.claim)
    /\ At("claimed") => run.choice.member \notin enabled
    /\ Goto("finally")
    /\ UNCHANGED <<chatVars, roundTables, history, env>>

FinishDiscussion ==
    /\ Chosen("finish")
    /\ Goto("settle")
    /\ UNCHANGED <<chatVars, roundTables, history, env>>

\* begin_round_turn: the durable fence before the provider call.
BeginTurn ==
    /\ Chosen("speak")
    /\ roundStatus[run.r] = "RUNNING" /\ ~ pauseRequested[run.r]
    /\ run.choice.member \in enabled
    /\ turn[run.r][Order].status = "NONE"
    /\ turn' = [turn EXCEPT ![run.r][Order] =
                   [status |-> "STARTED", member |-> run.choice.member]]
    /\ Goto("reserved")
    /\ UNCHANGED <<chatVars, roundStatus, pauseRequested, roster, checkpoint, requestRound,
                   history, env>>

BeginRefused ==
    /\ Chosen("speak") /\ ~ pauseRequested[run.r] /\ run.choice.member \notin enabled
    /\ Goto("finally")
    /\ UNCHANGED <<chatVars, roundTables, history, env>>
BeginPaused ==
    /\ Chosen("speak") /\ pauseRequested[run.r]
    /\ Save(run.r, Order, run.p)
    /\ SetStatus(run.r, "PAUSED")
    /\ Goto("unlock")
    /\ UNCHANGED <<chatVars, roster, turn, requestRound, history, env>>

\* The member was edited or switched off after the reservation, or its
\* provider is skipped: the turn fails without a call.
FailBeforeCall ==
    /\ At("reserved")
    /\ LET m == run.choice.member IN
       \E F \in {{}, {m}} : /\ m \notin enabled => F = {m}
                            /\ CommitTurn("FAILED", Failed(run.p, m, F))
    /\ UNCHANGED chatVars

CallSpeaker ==
    /\ At("reserved") /\ run.choice.member \in enabled
    /\ calls' = [calls EXCEPT ![run.r][Order] = @ + 1]
    /\ Goto("speaking")
    /\ UNCHANGED <<chatVars, roundTables, streak, env>>

SpeakerAnswered ==
    /\ At("speaking")
    /\ CommitTurn("RESPONDED", Succeeded(run.p, run.choice.member))
    /\ UNCHANGED chatVars

SpeakerFailed ==
    /\ At("speaking")
    /\ CommitTurn("FAILED", Failed(run.p, run.choice.member, {run.choice.member}))
    /\ UNCHANGED chatVars

-----------------------------------------------------------------------------
(* Leaving the loop.                                                        *)

Settle_StaleQueue ==   \* mutant: pending interjections are not looked up again
    /\ At("settle")
    /\ \E work \in WorkMayRemain :
          LET final == IF run.p.failures > 0 \/ run.p.skipped > 0 \/ work
                       THEN "PARTIAL" ELSE "COMPLETED"
              closes == ~ pauseRequested[run.r] IN
          /\ SetStatus(run.r, IF closes THEN final ELSE "PAUSED")
          /\ run' = [run EXCEPT !.pc = "read", !.closed = closes]
    /\ UNCHANGED <<chatVars, roster, checkpoint, turn, requestRound, history, env>>

Settle_IgnoreFailures ==   \* mutant: the gates alone decide the final status
    /\ At("settle")
    /\ \E work \in WorkMayRemain :
          LET final == IF work THEN "PARTIAL" ELSE "COMPLETED"
              closes == ~ pauseRequested[run.r] /\ OpenInterjections(run.r) = {} IN
          /\ IF pauseRequested[run.r] THEN SetStatus(run.r, "PAUSED")
             ELSE IF closes THEN SetStatus(run.r, final)
             ELSE UNCHANGED <<roundStatus, pauseRequested>>
          /\ run' = [run EXCEPT !.pc = "read", !.closed = closes]
    /\ UNCHANGED <<chatVars, roster, checkpoint, turn, requestRound, history, env>>

\* complete_round_if_no_pending: one transaction decides between a requested
\* pause, pending interjections and the final status.
Settle ==
    /\ At("settle")
    /\ \E work \in WorkMayRemain :
          LET final == IF run.p.failures > 0 \/ run.p.skipped > 0 \/ work
                       THEN "PARTIAL" ELSE "COMPLETED"
              closes == ~ pauseRequested[run.r] /\ OpenInterjections(run.r) = {} IN
          /\ IF pauseRequested[run.r] THEN SetStatus(run.r, "PAUSED")
             ELSE IF closes THEN SetStatus(run.r, final)
             ELSE UNCHANGED <<roundStatus, pauseRequested>>
          /\ run' = [run EXCEPT !.pc = "read", !.closed = closes]
    /\ UNCHANGED <<chatVars, roster, checkpoint, turn, requestRound, history, env>>

\* get_round, a later read: not completed and not PAUSED is taken to mean that
\* interjections are pending ...
ReadOutcome ==
    /\ At("read")
    /\ Goto(IF run.closed \/ roundStatus[run.r] = "PAUSED" THEN "unlock" ELSE "park")
    /\ UNCHANGED <<chatVars, roundTables, history, env>>

\* ... and complete_round parks the round.
Park ==
    /\ At("park")
    /\ SetStatus(run.r, "PAUSED")
    /\ Goto("unlock")
    /\ UNCHANGED <<chatVars, roster, checkpoint, turn, requestRound, history, env>>

\* finally: release the claim, if one is held and still ours ...
ReleaseClaim ==
    /\ At("finally") /\ run.claim # NoToken
    /\ \/ Release(ChosenTarget, run.claim)
       \/ ~ Owned(ChosenTarget, run.claim) /\ UNCHANGED chatVars
    /\ run' = [run EXCEPT !.claim = NoToken]
    /\ UNCHANGED <<roundTables, history, env>>

ParkUnfinalized_Not ==   \* mutant: the exception leaves the status alone
    /\ At("finally") /\ run.claim = NoToken
    /\ Goto("unlock")
    /\ UNCHANGED <<chatVars, roundTables, history, env>>

\* ... and park a round that is not finalized.
ParkUnfinalized ==
    /\ At("finally") /\ run.claim = NoToken
    /\ SetStatus(run.r, "PAUSED")
    /\ Goto("unlock")
    /\ UNCHANGED <<chatVars, roster, checkpoint, turn, requestRound, history, env>>

Unlock ==
    /\ At("unlock") /\ run' = Off
    /\ UNCHANGED <<chatVars, roundTables, history, env>>

\* An error return, an exception or a closed stream anywhere in the try block.
Interrupt ==
    /\ run.pc \in {"top", "chosen", "act", "drain", "drained", "claimed", "asked",
                   "reserved", "speaking", "settle"}
    /\ Disrupt
    /\ Goto("finally")
    /\ UNCHANGED <<chatVars, roundTables, history, enabled, up>>

-----------------------------------------------------------------------------
(* The other handlers and the environment.                                  *)

\* A message while a round is RUNNING becomes its interjection; mentions are
\* of enabled members and, once there is a checkpoint, of the roster.
PostInterjection(q, r, md, M) ==
    /\ up /\ roundStatus[r] = "RUNNING"
    /\ \A x \in Requests : x < q => request[x] # "NONE"
    /\ M \subseteq enabled /\ (HasCheckpoint(r) => M \subseteq RosterSet(r))
    /\ md = "moderated" => M = {}
    /\ CreateRequest(q, md, M)
    /\ requestRound' = [requestRound EXCEPT ![q] = r]
    /\ UNCHANGED <<roundStatus, pauseRequested, roster, checkpoint, turn, run, history, env>>

RequestPause(r) ==
    /\ up /\ roundStatus[r] = "RUNNING" /\ ~ pauseRequested[r]
    /\ pauseRequested' = [pauseRequested EXCEPT ![r] = TRUE]
    /\ UNCHANGED <<chatVars, roundStatus, roster, checkpoint, turn, requestRound, run,
                   history, env>>

CancelRound_AnyStatus(r) ==   \* mutant: the status is not compared
    /\ up /\ roundStatus[r] # "NONE"
    /\ SetStatus(r, "CANCELLED")
    /\ UNCHANGED <<chatVars, roster, checkpoint, turn, requestRound, run, history, env>>

CancelRound(r) ==   \* cancel_paused_round
    /\ up /\ roundStatus[r] = "PAUSED"
    /\ SetStatus(r, "CANCELLED")
    /\ UNCHANGED <<chatVars, roster, checkpoint, turn, requestRound, run, history, env>>

\* POST .../resume of an interjection: recovered first, then refused.
RefusedResume(q) ==
    /\ up /\ requestRound[q] # NoRound
    /\ RecoverExpired({q})
    /\ UNCHANGED <<roundTables, run, history, env>>

SetMemberEnabled(m) ==
    /\ up /\ Disrupt
    /\ enabled' = IF m \in enabled THEN enabled \ {m} ELSE enabled \cup {m}
    /\ UNCHANGED <<chatVars, roundTables, run, history, up>>

Expire(t) ==
    /\ Disrupt /\ ExpireLease(t)
    /\ UNCHANGED <<roundTables, run, history, enabled, up>>

Crash ==
    /\ up /\ Disrupt
    /\ up' = FALSE /\ run' = Off
    /\ UNCHANGED <<chatVars, roundTables, history, enabled>>

\* recover_orphaned_work: targets first, then every open round is paused if it
\* has a checkpoint to resume from and cancelled otherwise.
Restart ==
    /\ ~ up /\ up' = TRUE
    /\ RecoverOrphanedTargets
    /\ LET open == {r \in Rounds : roundStatus[r] \in OpenRound} IN
       /\ roundStatus' = [r \in Rounds |->
                            IF r \notin open THEN roundStatus[r]
                            ELSE IF HasCheckpoint(r) THEN "PAUSED" ELSE "CANCELLED"]
       /\ pauseRequested' = [r \in Rounds |-> r \notin open /\ pauseRequested[r]]
    /\ UNCHANGED <<roster, checkpoint, turn, requestRound, run, history, enabled, disruptions>>

RunStep ==
    \/ SaveFirstCheckpoint \/ Announce
    \/ LeaveLoop \/ AcknowledgePause \/ FailUnknownTurn \/ ModeratorGone
    \/ Choose \/ Drained
    \/ ScheduleInOrder \/ SkipMember \/ NobodyLeft
    \/ DrainTarget \/ DrainEmpty \/ DrainCheckpoint
    \/ Recheck \/ FailTarget \/ TakeTarget \/ TargetGone \/ AskTarget
    \/ \E s \in TerminalTarget : TargetAnswered(s)
    \/ AnswerRejected \/ FinishDiscussion
    \/ BeginTurn \/ BeginRefused \/ BeginPaused \/ FailBeforeCall \/ CallSpeaker
    \/ SpeakerAnswered \/ SpeakerFailed
    \/ Settle \/ ReadOutcome \/ Park \/ ReleaseClaim \/ ParkUnfinalized \/ Unlock

RoundNext ==
    \/ RunStep \/ RejectOpening \/ OpeningFault \/ AnnounceFails \/ Interrupt
    \/ \E r \in Rounds :
          \/ \E M \in SUBSET Members : CreateRound(r, M)
          \/ ResumeRound(r) \/ RequestPause(r) \/ CancelRound(r)
          \/ \E q \in Requests, md \in {"explicit", "moderated"}, M \in SUBSET Members :
                PostInterjection(q, r, md, M)
    \/ \E q \in Requests : RefusedResume(q)
    \/ \E m \in Members : SetMemberEnabled(m)
    \/ \E t \in Targets : Expire(t)
    \/ Crash \/ Restart

RoundSafetySpec == RoundInit /\ [][RoundNext]_roundVars

\* The generator is driven to its end by the HTTP stream, provider calls time
\* out, a crashed process is started again, and a user resumes a paused round.
RoundFairness ==
    /\ WF_roundVars(RunStep) /\ WF_roundVars(Restart)
    /\ \A r \in Rounds : SF_roundVars(ResumeRound(r))

RoundSpec == RoundSafetySpec /\ RoundFairness

-----------------------------------------------------------------------------
(* Safety.                                                                  *)

\* A RUNNING round is the one the generator is driving, and the room never has
\* two open rounds (docs/checkpoint_resume.md: "RUNNING: a stream is executing
\* it").  A RUNNING round without a generator could be neither resumed nor
\* cancelled, and its interjections would wait for the next restart.
RunningIsDriven ==
    /\ up => \A r \in Rounds : roundStatus[r] = "RUNNING" => ~ At("off") /\ run.r = r
    /\ Cardinality({r \in Rounds : roundStatus[r] \in OpenRound}) <= 1

\* The checkpoint and the turn ledger, which are different tables, never
\* disagree: the counters of the checkpoint count exactly the terminal turns
\* and the skipped slots before next, and the only turn at or after next is
\* one whose call was started and whose outcome is not known yet.
CheckpointMatchesLedger ==
    \A r \in Rounds : HasCheckpoint(r) =>
        LET next == checkpoint[r][1].next  p == checkpoint[r][1].p IN
        /\ next = 1 + Done(p)
        /\ Cardinality(TurnsIn(r, "RESPONDED")) = p.completed
        /\ Cardinality(TurnsIn(r, "FAILED")) = p.failures
        /\ \A o \in TurnsIn(r, "RESPONDED") \cup TurnsIn(r, "FAILED") : o < next
        /\ \A o \in TurnsIn(r, "STARTED") : o = next
        /\ \A o \in TurnsIn(r, "RESPONDED") : turn[r][o].member \in p.ok

\* No crash, resume, retry or late pause asks a model twice for one formal
\* turn, and a turn that responded was asked exactly once.
NoReplay ==
    \A r \in Rounds : \A o \in Orders :
        /\ calls[r][o] <= 1
        /\ turn[r][o].status = "RESPONDED" => calls[r][o] = 1

\* Pausing, crashing and resuming cannot reset the count of consecutive
\* interjections, so they cannot be used to evade the fairness rule (README.md:
\* the counter is part of the checkpoint).  The rule is dynamic mode's.
StreakRemembered ==
    Dynamic => \A r \in Rounds : HasCheckpoint(r) =>
        checkpoint[r][1].p.consecutive = streak[r]

\* A PAUSED round can be resumed: the restart and every error path pause only
\* what has a checkpoint, and cancel the rest.
PausedIsResumable ==
    \A r \in Rounds : roundStatus[r] = "PAUSED" => HasCheckpoint(r)

\* A round does not finish over an interjection: however late it was posted,
\* complete_round_if_no_pending or the status guard of the post sees it.
FinishedRoundsAnswered ==
    \A r \in Rounds : roundStatus[r] \in FinishedRound => OpenInterjections(r) = {}

\* COMPLETED is what it says (docs/checkpoint_resume.md: all necessary members
\* finished): no turn of the round failed or is still open, no slot before the
\* checkpoint was skipped, and at least the required members gave a formal answer.
CompletedIsClean ==
    \A r \in Rounds : roundStatus[r] = "COMPLETED" =>
        /\ TurnsIn(r, "FAILED") = {} /\ TurnsIn(r, "STARTED") = {}
        /\ HasCheckpoint(r)
        /\ \A o \in 1 .. (checkpoint[r][1].next - 1) : turn[r][o].status = "RESPONDED"
        /\ Cardinality({turn[r][o].member : o \in TurnsIn(r, "RESPONDED")}) >= Required

\* Interjections cannot starve the discussion: with MaxConsecutive of them
\* closed since the last formal turn, counted over crashes and resumes, the
\* next one is taken up only when the formal turns are used up or no formal
\* work remains.
InterjectionsYield ==
    [][ \A t \in Targets :
           At("act") /\ target'[t] \in {"PROCESSING"} \cup TerminalTarget /\ target'[t] # target[t]
           => \/ streak[run.r] < MaxConsecutive
              \/ Order > MaxTurns(run.r)
              \/ ~ run.work ]_roundVars

\* The history of a round is append-only: a terminal turn never changes, the
\* checkpoint never moves back, and a finished round stays finished.
HistoryIsFinal ==
    [][ \A r \in Rounds :
           /\ \A o \in TurnsIn(r, "RESPONDED") \cup TurnsIn(r, "FAILED") : turn'[r][o] = turn[r][o]
           /\ HasCheckpoint(r) => checkpoint'[r] # <<>> /\ checkpoint'[r][1].next >= checkpoint[r][1].next
           /\ roundStatus[r] \in FinishedRound => roundStatus'[r] = roundStatus[r] ]_roundVars

-----------------------------------------------------------------------------
(* Liveness.                                                                *)

\* The generator ends, and with it the room lock, the HTTP stream and the
\* RUNNING status, however often it is started: the scheduling loop cannot run
\* for ever.
RunEnds == []<>(run = Off)

\* The formal turn that is due can be taken by nobody: the queue has had its
\* consecutive interjections, turns are left, and every member of the round has
\* failed or has spoken as often as it may.
Starved(r) ==
    /\ HasCheckpoint(r)
    /\ LET c == checkpoint[r][1] IN
       /\ c.p.consecutive >= MaxConsecutive /\ c.next <= MaxTurns(r)
       /\ \A m \in RosterSet(r) : m \in c.p.failed \/ c.p.spoken[m] >= MemberCap

\* A request of the round is open, and neither its members nor its user keep it so.
Waiting(r, q) ==
    /\ requestRound[q] = r /\ request[q] \notin TerminalRequest
    /\ enabled = Members /\ ~ pauseRequested[r] /\ roundStatus[r] # "CANCELLED"

\* Being starved is the only way a moderated round forgets its queue: an
\* interjection that it has accepted is answered, failed or cancelled in the end,
\* over pauses, crashes and resumes, unless its queue is starved, members are
\* switched off or the user keeps pausing or cancels.
AnsweredUnlessStarved ==
    Dynamic => \A r \in Rounds, q \in Requests : []<>~(Waiting(r, q) /\ ~ Starved(r))

-----------------------------------------------------------------------------
(* What the documentation says and the code does not do.                    *)

\* README.md: after the forced formal turn "the original queue continues", and
\* an interjection is resumed with its round: none waits for ever.
InterjectionsAnswered ==
    \A r \in Rounds, q \in Requests : []<>~ Waiting(r, q)


\* docs/checkpoint_resume.md: CANCELLED is for rounds "explicitly abandoned and
\* never resumed".
CancelledIsFinal ==
    [][ \A r \in Rounds : roundStatus[r] = "CANCELLED" => roundStatus'[r] = "CANCELLED" ]_roundVars

\* README.md: an interjection's reply "does not change ... role coverage, failed
\* members or completion": whoever the checkpoint counts as successful has
\* answered a formal turn.
SuccessesAreFormal ==
    \A r \in Rounds : HasCheckpoint(r) =>
        checkpoint[r][1].p.ok \subseteq {turn[r][o].member : o \in TurnsIn(r, "RESPONDED")}
=============================================================================
