-------------------------- MODULE RoomRecordsProofs --------------------------
(***************************************************************************)
(* Proofs about the records a room keeps for its user, for every value of   *)
(* the constants: the sessions of the manual ChatGPT channel                *)
(* (ManualReview), the work on the actions of a confirmed artifact          *)
(* (ActionDesk), and the decisions about it with what follows from them     *)
(* (ArtifactDecisions).  None reads what another writes, so each part has   *)
(* an invariant of its own.                                                 *)
(*                                                                          *)
(* The manual channel: that a second budget is never drawn on rests on who  *)
(* may still draw: the thread of the session's present run, at the place in *)
(* the plan that the ledger shows, and threads of runs that were given up,  *)
(* which have not made a call and whose ledger is closed (ThreadOK).  A     *)
(* spent ledger is therefore the present run's (SpentOK), and a run with a  *)
(* call is never given up.  The records that readers verify follow the same *)
(* thread (RowsOK, CardOK).                                                 *)
(*                                                                          *)
(* The desk: a recorded answer names an event that only its own request can *)
(* have made (IdsAreSpent), and every write was made by a request that had  *)
(* seen the revision before it (SeenIsRecorded).                            *)
(*                                                                          *)
(* The decisions: a resource with events in a chain is bound to that        *)
(* decision and to no other, and its row is what its last event says        *)
(* (RowsMatchLineage); so a step that appends finds the rows it must keep   *)
(* by the chain alone (BoundHasEvents, EventsFit).                          *)
(***************************************************************************)
EXTENDS ManualReview, ActionDesk, ArtifactDecisions, ProviderLedgerProofs

-----------------------------------------------------------------------------
(* The manual ChatGPT channel.                                              *)


Pcs == {"idle", "authorize", "next", "call", "record", "failed", "done"}
States == {"BUNDLE_READY", "WAITING_FOR_CHATGPT", "IMPORT_REJECTED", "API_REVIEW",
           "READY_FOR_DECISION", "FROZEN", "CONTEXT_STALE", "BUDGET_BLOCKED",
           "NEEDS_USER_ACTION"}
RunRows == [id : Reviewers \cup {Nobody}, request : Runs \cup {"none"},
            status : {"NONE", "RUNNING", "COMPLETED", "FAILED", "BUDGET_BLOCKED"},
            completed : 0 .. Expected]
ReviewRows == [run : Reviewers, index : Slots, request : Runs, slot : Slots]
CardRows == [run : Reviewers \cup {Nobody}, reviews : SUBSET ReviewRows,
             ready : BOOLEAN, frozen : BOOLEAN]
ThreadRows == [pc : Pcs, request : Runs \cup {"none"}, slot : 0 .. MaxBudget,
               recorded : 0 .. Expected]

ReviewTypes ==
    /\ drifted \in BOOLEAN /\ state \in States /\ run \in RunRows /\ card \in CardRows
    /\ reviews \subseteq ReviewRows /\ reviewer \in [Reviewers -> ThreadRows]

RunOK ==
    /\ ~HasRun => run = NoReviewRun
    /\ HasRun => run.request \in Runs /\ Created(run.request) /\ run.status # "NONE"

\* A ledger with a call in it is that of the present run.
SpentOK == \A c \in Runs : ledger[c].reserved > 0 => HasRun /\ run.request = c

RowsOK ==
    \A x \in reviews :
       /\ HasRun /\ x.run = run.id /\ x.request = run.request /\ x.slot = x.index
       /\ attempt[x.request][x.slot].status = "RESPONDED"

Complete == {x.index : x \in reviews} = 1 .. Expected /\ run.completed = Expected

CardOK ==
    /\ run.status = "COMPLETED" => Complete
    /\ card # NoCard => run.status = "COMPLETED" /\ card.run = run.id /\ card.reviews = reviews
    /\ state \in {"READY_FOR_DECISION", "FROZEN"} => card.ready
    /\ state = "FROZEN" => card.frozen

Busy(p) == reviewer[p].pc \in {"next", "call", "record", "failed"}

\* The thread of the present run stands where the ledger and the reviews are.
InPlace(p) ==
    LET v == reviewer[p] l == ledger[v.request] IN
    /\ v.pc = "next" => l.reserved = v.recorded
    /\ v.pc \in {"call", "record"} => v.recorded < Expected /\ l.reserved = v.recorded + 1
                                      /\ v.slot = v.recorded + 1
    /\ v.pc = "record" => attempt[v.request][v.slot].status = "RESPONDED"
    /\ v.pc = "failed" => l.reserved > 0
    /\ v.pc # "failed" => {x.index : x \in reviews} = 1 .. v.recorded

ThreadOK(p) ==
    LET v == reviewer[p] IN
    /\ v.pc \in {"idle", "authorize"} => run.id # p /\ v.recorded = 0
    /\ v.pc = "authorize" => v.request \in Runs
    /\ Busy(p) => v.request \in Runs /\ Created(v.request)
    /\ Busy(p) /\ run.id # p =>
          v.pc = "next" /\ v.recorded = 0 /\ ledger[v.request].status \in ClosedRun
    /\ Busy(p) /\ run.id = p =>
          run.request = v.request /\ run.status = "RUNNING" /\ InPlace(p)

ReviewInv ==
    /\ LedgerInv /\ ReviewTypes
    /\ RunOK /\ SpentOK /\ RowsOK /\ CardOK
    /\ \A p \in Reviewers : ThreadOK(p)

\* What a transaction of the ledger leaves standing for the others.
LedgerKept ==
    \A c \in Runs :
       /\ Created(c) => Created(c)'
       /\ ledger[c].status \in ClosedRun => ledger'[c].status \in ClosedRun
       /\ \A s \in Slots : attempt[c][s].status = "RESPONDED" =>
                              attempt'[c][s].status = "RESPONDED"

LEMMA SlotsReserved ==
    ASSUME LedgerInv, NEW c \in Runs
    PROVE  /\ ledger[c].reserved \in 0 .. MaxBudget
           /\ \A s \in Slots : attempt[c][s].status # "NONE" <=> s \in 1 .. ledger[c].reserved
           /\ Reserved(c) = {} <=> ledger[c].reserved = 0
<1>1. ledger[c].reserved \in 0 .. MaxBudget
  BY RunFacts DEF LedgerRows
<1>2. Reserved(c) = 1 .. ledger[c].reserved
  BY DEF LedgerInv, AccountsOf
<1>3. \A s \in Slots : attempt[c][s].status # "NONE" <=> s \in 1 .. ledger[c].reserved
  BY <1>2 DEF Reserved
<1>4. 1 .. ledger[c].reserved = {} <=> ledger[c].reserved = 0
  BY <1>1
<1> QED
  BY <1>1, <1>2, <1>3, <1>4

LEMMA SameLedger ==
    ASSUME LedgerInv, UNCHANGED ledgerVars
    PROVE  LedgerInv' /\ ledger' = ledger /\ attempt' = attempt /\ LedgerKept
<1>1. ledger' = ledger /\ attempt' = attempt
  BY DEF ledgerVars
<1> QED
  BY <1>1, StepLedgerInv DEF LedgerKept, Created

LEMMA OpenKeeps ==
    ASSUME LedgerInv, NEW c \in Runs, OpenLedger(c)
    PROVE  /\ LedgerInv' /\ LedgerKept /\ (LedgerNext \/ UNCHANGED ledgerVars)
           /\ attempt' = attempt /\ Created(c)'
           /\ \A d \in Runs : ledger'[d].reserved = ledger[d].reserved
<1>1. CASE Created(c)
  BY <1>1, SameLedger DEF OpenLedger, LedgerKept
<1>2. CASE ~Created(c)
  <2> DEFINE limit == [k \in Kinds |-> Expected]
  <2>1. CreateRun(c, Expected, limit)
    BY <1>2 DEF OpenLedger
  <2>2. Expected \in 1 .. MaxBudget /\ limit \in [Kinds -> 0 .. MaxBudget]
    BY ReviewAssumption, LedgerAssumption
  <2>3. LedgerInv'
    BY <2>1, <2>2, CreateLedgerInv
  <2>4. LedgerNext
    BY <1>2, <2>1, <2>2 DEF LedgerNext, LedgerStep
  <2>5. ledger \in [Runs -> LedgerRows] /\ ledger[c] = NoRun
    BY <1>2, RunFacts DEF LedgerInv, AbsentOf, Created
  <2>6. attempt' = attempt
        /\ ledger' = [ledger EXCEPT ![c] = [NoRun EXCEPT !.status = "OPEN", !.max = Expected,
                                                          !.limit = limit]]
    BY <2>1 DEF CreateRun
  <2>7. ledger'[c].status = "OPEN" /\ ledger'[c].reserved = 0
        /\ \A d \in Runs \ {c} : ledger'[d] = ledger[d]
    BY <2>5, <2>6 DEF NoRun
  <2>8. LedgerKept
    BY <2>5, <2>6, <2>7 DEF LedgerKept, Created, NoRun, ClosedRun
  <2>9. Created(c)' /\ \A d \in Runs : ledger'[d].reserved = ledger[d].reserved
    BY <2>5, <2>7 DEF Created, NoRun
  <2> QED
    BY <2>3, <2>4, <2>6, <2>8, <2>9
<1> QED
  BY <1>1, <1>2

LEMMA ReserveKeeps ==
    ASSUME LedgerInv, NEW c \in Runs, NEW k \in Kinds, Reserve(c, k)
    PROVE  /\ LedgerInv' /\ LedgerKept /\ LedgerNext
           /\ ledger[c].status = "OPEN" /\ ledger'[c].reserved = ledger[c].reserved + 1
           /\ ledger[c].reserved + 1 \in 1 .. MaxBudget
           /\ \A d \in Runs \ {c} : ledger'[d] = ledger[d]
<1> DEFINE n == ledger[c].reserved + 1
<1>1. LedgerInv'
  BY ReserveLedgerInv
<1>2. LedgerNext
  BY DEF LedgerNext, LedgerStep
<1>3. /\ ledger \in [Runs -> LedgerRows] /\ attempt \in [Runs -> [Slots -> AttemptRows]]
      /\ ledger[c].reserved \in Nat /\ ledger[c].max \in Nat /\ ledger[c].max <= MaxBudget
  BY RunFacts
<1>4. ledger[c].status = "OPEN" /\ ledger[c].reserved < ledger[c].max
  BY DEF Reserve
<1>5. n \in Slots /\ attempt[c][n].status = "NONE"
  BY <1>3, <1>4, LedgerAssumption, SlotsReserved DEF Slots
<1>6. /\ attempt' = [attempt EXCEPT ![c][n] = [kind |-> k, status |-> "STARTED"]]
      /\ ledger' = [ledger EXCEPT ![c].reserved = n,
                       ![c].status = IF n >= ledger[c].max THEN "EXHAUSTED" ELSE "OPEN"]
  BY DEF Reserve
<1>7. /\ ledger'[c].reserved = n /\ ledger'[c].status # "NONE"
      /\ \A d \in Runs \ {c} : ledger'[d] = ledger[d]
  BY <1>3, <1>6 DEF LedgerRows
<1>8. LedgerKept
  <2> SUFFICES ASSUME NEW d \in Runs
               PROVE  /\ Created(d) => Created(d)'
                      /\ ledger[d].status \in ClosedRun => ledger'[d].status \in ClosedRun
                      /\ \A s \in Slots : attempt[d][s].status = "RESPONDED" =>
                                             attempt'[d][s].status = "RESPONDED"
    BY DEF LedgerKept
  <2>1. CASE d = c
    BY <2>1, <1>3, <1>4, <1>5, <1>6, <1>7 DEF Created, ClosedRun
  <2>2. CASE d # c
    BY <2>2, <1>3, <1>6, <1>7 DEF Created
  <2> QED
    BY <2>1, <2>2
<1>9. ledger[c].reserved + 1 \in 1 .. MaxBudget
  BY <1>5 DEF Slots
<1> QED
  BY <1>1, <1>2, <1>4, <1>7, <1>8, <1>9

LEMMA FinishKeeps ==
    ASSUME LedgerInv, NEW c \in Runs, NEW s \in Slots, NEW o \in Outcomes, FinishCall(c, s, o)
    PROVE  /\ LedgerInv' /\ LedgerKept /\ LedgerNext
           /\ attempt'[c][s].status = o
           /\ \A d \in Runs : ledger'[d].reserved = ledger[d].reserved
<1>1. LedgerInv'
  BY FinishSettles, SettleLedgerInv
<1>2. LedgerNext
  BY DEF LedgerNext, LedgerStep
<1>3. ledger \in [Runs -> LedgerRows] /\ attempt \in [Runs -> [Slots -> AttemptRows]]
  BY RunFacts
<1>4. /\ attempt[c][s].status = "STARTED"
      /\ attempt' = [attempt EXCEPT ![c][s].status = o]
      /\ ledger' = [ledger EXCEPT ![c] = AfterSettling(ledger[c], 1)]
  BY DEF FinishCall
<1>5. attempt'[c][s].status = o
  BY <1>3, <1>4 DEF AttemptRows
<1>6. \A d \in Runs, t \in Slots : attempt[d][t].status = "RESPONDED" =>
                                      attempt'[d][t].status = "RESPONDED"
  BY <1>3, <1>4 DEF AttemptRows
<1>7. \A d \in Runs : /\ ledger'[d].reserved = ledger[d].reserved
                      /\ ledger[d].status # "NONE" => ledger'[d].status # "NONE"
                      /\ ledger[d].status \in ClosedRun => ledger'[d].status \in ClosedRun
  BY <1>3, <1>4 DEF AfterSettling, LedgerRows, ClosedRun
<1> QED
  BY <1>1, <1>2, <1>5, <1>6, <1>7 DEF LedgerKept, Created

\* Giving up a run that made no call closes its ledger.
LEMMA AbandonKeeps ==
    ASSUME LedgerInv, NEW c \in Runs, Created(c), ledger[c].reserved = 0, Abandon(c)
    PROVE  /\ LedgerInv' /\ LedgerKept /\ (LedgerNext \/ UNCHANGED ledgerVars)
           /\ ledger'[c].status \in ClosedRun /\ attempt' = attempt
           /\ \A d \in Runs : ledger'[d].reserved = ledger[d].reserved
<1>1. ledger \in [Runs -> LedgerRows]
  BY RunFacts
<1>2. attempt' = attempt
  BY DEF Abandon
<1>3. ledger' = IF ledger[c].status \notin {"OPEN", "EXHAUSTED"} THEN ledger
                ELSE [ledger EXCEPT ![c].status = "ABANDONED"]
  BY DEF Abandon
<1>4. /\ ledger'[c].status \in ClosedRun
      /\ \A d \in Runs : /\ ledger'[d].reserved = ledger[d].reserved
                         /\ ledger[d].status # "NONE" => ledger'[d].status # "NONE"
                         /\ ledger[d].status \in ClosedRun => ledger'[d].status \in ClosedRun
  BY <1>1, <1>3 DEF LedgerRows, ClosedRun, Created
<1>5. LedgerNext \/ UNCHANGED ledgerVars
  <2>1. CASE ledger[c].status \in {"OPEN", "EXHAUSTED"}
    <3>1. Reserved(c) = {}
      BY SlotsReserved
    <3>2. Started(c) = {}
      BY <3>1 DEF Started, Reserved
    <3>3. ledger' = [ledger EXCEPT ![c].status = "ABANDONED"]
      BY <1>1, <1>3, <2>1
    <3>4. CloseRun(c, "ABANDONED")
      BY <1>2, <2>1, <3>2, <3>3 DEF CloseRun
    <3> QED
      BY <3>4 DEF LedgerNext, LedgerStep, ClosedRun
  <2>2. CASE ledger[c].status \notin {"OPEN", "EXHAUSTED"}
    <3>1. ledger' = ledger
      BY <1>1, <1>3, <2>2 DEF LedgerRows
    <3> QED
      BY <1>2, <3>1 DEF ledgerVars
  <2> QED
    BY <2>1, <2>2
<1>6. LedgerInv'
  BY <1>5, StepLedgerInv
<1> QED
  BY <1>2, <1>4, <1>5, <1>6 DEF LedgerKept, Created

-----------------------------------------------------------------------------
(* Frames.                                                                  *)

LEMMA RowsKept ==
    ASSUME ReviewInv, LedgerKept, reviews' = reviews, run'.id = run.id,
           run'.request = run.request
    PROVE  RowsOK'
<1>1. /\ reviews \subseteq ReviewRows /\ RowsOK
  BY DEF ReviewInv, ReviewTypes
<1> SUFFICES ASSUME NEW x \in reviews
             PROVE  /\ HasRun' /\ x.run = run'.id /\ x.request = run'.request
                    /\ x.slot = x.index /\ attempt'[x.request][x.slot].status = "RESPONDED"
  BY DEF RowsOK
<1>2. x.request \in Runs /\ x.slot \in Slots
  BY <1>1 DEF ReviewRows
<1> QED
  BY <1>1, <1>2 DEF RowsOK, HasRun, LedgerKept

\* A thread that is not the present run's, before and after.
LEMMA Bystander ==
    ASSUME ReviewInv, LedgerKept, NEW q \in Reviewers, reviewer'[q] = reviewer[q],
           run.id # q, run'.id # q
    PROVE  ThreadOK(q)'
<1>1. ThreadOK(q)
  BY DEF ReviewInv
<1> QED
  BY <1>1 DEF ThreadOK, Busy, LedgerKept

\* A thread that sleeps while nothing it stands on moves.
LEMMA Sleeper ==
    ASSUME ReviewInv, LedgerKept, NEW q \in Reviewers, reviewer'[q] = reviewer[q],
           \A c \in Runs : ledger'[c].reserved = ledger[c].reserved,
           run'.id = run.id, run'.request = run.request, reviews' = reviews,
           run'.status = run.status \/ run.id # q
    PROVE  ThreadOK(q)'
<1>1. ThreadOK(q) /\ LedgerInv
  BY DEF ReviewInv
<1>2. CASE run.id # q
  BY <1>2, Bystander
<1>3. CASE run.id = q /\ ~Busy(q)
  BY <1>1, <1>3 DEF ThreadOK, Busy
<1>4. CASE run.id = q /\ Busy(q)
  <2>1. InPlace(q) /\ reviewer[q].request \in Runs /\ run.status = "RUNNING"
        /\ run.request = reviewer[q].request /\ Created(reviewer[q].request)
    BY <1>1, <1>4 DEF ThreadOK
  <2>2. reviewer[q] \in ThreadRows
    BY DEF ReviewInv, ReviewTypes
  <2>3. reviewer[q].pc = "record" => reviewer[q].slot \in Slots
    BY <2>1, <2>2, SlotsReserved, ReviewAssumption, LedgerAssumption
    DEF InPlace, ThreadRows, Slots, ReviewInv
  <2>4. InPlace(q)'
    BY <2>1, <2>3 DEF InPlace, LedgerKept
  <2> QED
    BY <1>4, <2>1, <2>4 DEF ThreadOK, Busy, LedgerKept
<1> QED
  BY <1>2, <1>3, <1>4

LEMMA SpentKept ==
    ASSUME ReviewInv, \A c \in Runs : ledger'[c].reserved = ledger[c].reserved,
           run'.id = run.id, run'.request = run.request
    PROVE  SpentOK'
  BY DEF ReviewInv, SpentOK, HasRun

\* Steps that touch neither the run nor its reviews nor a thread.
LEMMA SessionMoves ==
    ASSUME ReviewInv, UNCHANGED <<ledgerVars, run, reviews, reviewer>>,
           state' \in States, drifted' \in BOOLEAN, card' \in CardRows, CardOK'
    PROVE  ReviewInv'
<1>1. LedgerInv' /\ ledger' = ledger /\ attempt' = attempt /\ LedgerKept
  BY SameLedger DEF ReviewInv
<1>2. \A q \in Reviewers : ThreadOK(q)'
  BY <1>1, Sleeper
<1>3. RowsOK' /\ SpentOK'
  BY <1>1, RowsKept, SpentKept
<1>4. RunOK' /\ ReviewTypes'
  BY <1>1 DEF ReviewInv, RunOK, ReviewTypes, HasRun, Created
<1> QED
  BY <1>1, <1>2, <1>3, <1>4 DEF ReviewInv

LEMMA NobodyIsStale == ASSUME ReviewInv, BecomeStale(Nobody) PROVE run' = run
<1>1. run.id = Nobody => run.status = "NONE"
  BY DEF ReviewInv, RunOK, HasRun, NoReviewRun
<1> QED
  BY <1>1 DEF BecomeStale

LEMMA CardStale ==
    ASSUME ReviewInv, run' = run, reviews' = reviews, card' = card,
           state' \notin {"READY_FOR_DECISION", "FROZEN"} \/ state' = state
    PROVE  CardOK'
  BY DEF ReviewInv, CardOK, Complete

LEMMA SessionInv ==
    ASSUME ReviewInv, Dispatch \/ ImportResult \/ Freeze \/ ContextChanges
    PROVE  ReviewInv' /\ UNCHANGED ledgerVars
<1>1. CASE Dispatch
  BY <1>1, CardStale, SessionMoves DEF Dispatch, States, ReviewInv, ReviewTypes
<1>2. CASE ContextChanges
  BY <1>2, CardStale, SessionMoves DEF ContextChanges, session, ReviewInv, ReviewTypes
<1>3. CASE UNCHANGED reviewer /\ BecomeStale(Nobody)
  <2>1. run' = run
    BY <1>3, NobodyIsStale
  <2> QED
    BY <1>3, <2>1, CardStale, SessionMoves DEF BecomeStale, States, ReviewInv, ReviewTypes
<1>4. CASE /\ ~drifted /\ state' \in {"IMPORT_REJECTED", "API_REVIEW"}
           /\ UNCHANGED <<ledgerVars, run, reviews, card, recovered, drifted, reviewer>>
  BY <1>4, CardStale, SessionMoves DEF States, ReviewInv, ReviewTypes
<1>5. CASE /\ ~drifted /\ card.ready /\ card' = [card EXCEPT !.frozen = TRUE]
           /\ state' = "FROZEN" /\ state = "READY_FOR_DECISION"
           /\ UNCHANGED <<ledgerVars, run, reviews, recovered, drifted, reviewer>>
  <2>1. card # NoCard /\ CardOK
    BY <1>5 DEF NoCard, ReviewInv
  <2>2. /\ card \in CardRows /\ card' \in CardRows
        /\ card'.run = card.run /\ card'.reviews = card.reviews /\ card'.ready /\ card'.frozen
    BY <1>5 DEF ReviewInv, ReviewTypes, CardRows
  <2>3. CardOK'
    BY <1>5, <2>1, <2>2 DEF CardOK, Complete
  <2> QED
    BY <1>5, <2>2, <2>3, SessionMoves DEF States, ReviewInv, ReviewTypes
<1> QED
  BY <1>1, <1>2, <1>3, <1>4, <1>5 DEF ImportResult, Freeze, session, ContextChanges, Dispatch,
     BecomeStale

-----------------------------------------------------------------------------
(* Steps of a thread.                                                       *)

\* Only the locals of p change.
Alone(p) == /\ reviewer' \in [Reviewers -> ThreadRows]
            /\ \A q \in Reviewers \ {p} : reviewer'[q] = reviewer[q]

SessionTyped == /\ drifted' \in BOOLEAN /\ state' \in States
                /\ run' \in RunRows /\ card' \in CardRows

LEMMA GotoFacts ==
    ASSUME ReviewInv, NEW p \in Reviewers, NEW s \in Pcs, Goto(p, s)
    PROVE  /\ Alone(p) /\ reviewer'[p].pc = s /\ reviewer'[p].request = reviewer[p].request
           /\ reviewer'[p].slot = reviewer[p].slot
           /\ reviewer'[p].recorded = reviewer[p].recorded
<1>1. reviewer \in [Reviewers -> ThreadRows]
  BY DEF ReviewInv, ReviewTypes
<1>2. reviewer[p] \in ThreadRows /\ [reviewer[p] EXCEPT !.pc = s] \in ThreadRows
  BY <1>1 DEF ThreadRows
<1>3. reviewer' = [reviewer EXCEPT ![p] = [reviewer[p] EXCEPT !.pc = s]]
  BY DEF Goto
<1> QED
  BY <1>1, <1>2, <1>3 DEF Alone, ThreadRows

\* A thread goes on; no call is reserved and no review is recorded.
LEMMA ThreadMoves ==
    ASSUME ReviewInv, NEW p \in Reviewers, Alone(p), LedgerInv', LedgerKept,
           \A c \in Runs : ledger'[c].reserved = ledger[c].reserved,
           reviews' = reviews, SessionTyped, CardOK',
           run'.id = run.id, run'.request = run.request,
           run' = run \/ (run.id = p /\ run'.status # "NONE"), ThreadOK(p)'
    PROVE  ReviewInv'
<1>1. \A q \in Reviewers \ {p} : run'.status = run.status \/ run.id # q
  OBVIOUS
<1>2. \A q \in Reviewers : ThreadOK(q)'
  BY <1>1, Sleeper DEF Alone
<1>3. RowsOK' /\ SpentOK'
  BY RowsKept, SpentKept
<1>4. ReviewTypes'
  BY DEF ReviewInv, ReviewTypes, Alone, SessionTyped
<1>5. Nobody \notin Reviewers /\ RunOK
  BY ReviewAssumption DEF ReviewInv
<1>6. RunOK'
  BY <1>5 DEF RunOK, HasRun, LedgerKept
<1> QED
  BY <1>2, <1>3, <1>4, <1>6 DEF ReviewInv

\* A thread ends.
LEMMA ThreadEnds ==
    ASSUME ReviewInv, NEW p \in Reviewers, Goto(p, "done"), LedgerInv', LedgerKept,
           \A c \in Runs : ledger'[c].reserved = ledger[c].reserved,
           reviews' = reviews, SessionTyped, CardOK',
           run'.id = run.id, run'.request = run.request,
           run' = run \/ (run.id = p /\ run'.status # "NONE")
    PROVE  ReviewInv'
<1>1. Alone(p) /\ reviewer'[p].pc = "done"
  BY GotoFacts DEF Pcs
<1>2. ThreadOK(p)'
  BY <1>1 DEF ThreadOK, Busy
<1> QED
  BY <1>1, <1>2, ThreadMoves

LEMMA SameSession ==
    ASSUME ReviewInv, UNCHANGED <<session, drifted>>
    PROVE  /\ run' = run /\ reviews' = reviews /\ SessionTyped /\ CardOK'
<1>1. /\ state' = state /\ run' = run /\ reviews' = reviews /\ card' = card
      /\ drifted' = drifted
  BY DEF session
<1>2. CardOK'
  BY <1>1 DEF ReviewInv, CardOK, Complete
<1> QED
  BY <1>1, <1>2 DEF ReviewInv, ReviewTypes, SessionTyped

\* The thread gives up and changes nothing.
LEMMA Withdraws ==
    ASSUME ReviewInv, NEW p \in Reviewers, Goto(p, "done"),
           UNCHANGED <<ledgerVars, session, drifted>>
    PROVE  ReviewInv' /\ UNCHANGED ledgerVars
<1>1. UNCHANGED ledgerVars
  OBVIOUS
<1>2. LedgerInv' /\ ledger' = ledger /\ LedgerKept
  BY <1>1, SameLedger DEF ReviewInv
<1> QED
  BY <1>1, <1>2, SameSession, ThreadEnds

\* A card needs a completed run, which a stale or failed one is not.
LEMMA NotTheRun ==
    ASSUME ReviewInv, NEW p \in Reviewers, Busy(p) \/ run.status = "RUNNING", run.id = p
    PROVE  run.status = "RUNNING" /\ card = NoCard
<1>1. run.status = "RUNNING"
  BY DEF ReviewInv, ThreadOK
<1> QED
  BY <1>1 DEF ReviewInv, CardOK

LEMMA StaleEnds ==
    ASSUME ReviewInv, NEW p \in Reviewers, NEW q \in {p, Nobody}, BecomeStale(q),
           Goto(p, "done")
    PROVE  ReviewInv' /\ UNCHANGED ledgerVars
<1>1. /\ UNCHANGED ledgerVars /\ reviews' = reviews /\ card' = card /\ drifted' = drifted
      /\ state' = "CONTEXT_STALE"
  BY DEF BecomeStale
<1>2. LedgerInv' /\ ledger' = ledger /\ LedgerKept
  BY <1>1, SameLedger DEF ReviewInv
<1>3. CASE run' = run
  <2>1. CardOK' /\ SessionTyped
    BY <1>1, <1>3, CardStale DEF SessionTyped, States, ReviewInv, ReviewTypes
  <2> QED
    BY <1>1, <1>2, <1>3, <2>1, ThreadEnds
<1>4. CASE run' # run
  <2>1. run.id = p /\ run.status = "RUNNING" /\ run' = [run EXCEPT !.status = "FAILED"]
    BY <1>4, NobodyIsStale DEF BecomeStale
  <2>2. run \in RunRows /\ card = NoCard
    BY <2>1, NotTheRun DEF ReviewInv, ReviewTypes
  <2>3. run' \in RunRows /\ run'.id = run.id /\ run'.request = run.request
        /\ run'.status = "FAILED"
    BY <2>1, <2>2 DEF RunRows
  <2>4. CardOK' /\ SessionTyped
    BY <1>1, <2>2, <2>3 DEF CardOK, SessionTyped, States, ReviewInv, ReviewTypes
  <2> QED
    BY <1>1, <1>2, <2>1, <2>3, <2>4, ThreadEnds
<1> QED
  BY <1>3, <1>4

LEMMA MarkFailedInv ==
    ASSUME ReviewInv, NEW p \in Reviewers, Busy(p), NEW blocked \in BOOLEAN,
           MarkFailed(p, blocked)
    PROVE  ReviewInv' /\ UNCHANGED ledgerVars
<1>1. /\ UNCHANGED ledgerVars /\ reviews' = reviews /\ card' = card /\ drifted' = drifted
      /\ Goto(p, "done")
      /\ state' = state \/ state' \in {"BUDGET_BLOCKED", "NEEDS_USER_ACTION"}
  BY DEF MarkFailed
<1>2. LedgerInv' /\ ledger' = ledger /\ LedgerKept
  BY <1>1, SameLedger DEF ReviewInv
<1>3. CASE run.id # p
  <2>1. run' = run
    BY <1>3 DEF MarkFailed
  <2>2. CardOK' /\ SessionTyped
    BY <1>1, <2>1, CardStale DEF SessionTyped, States, ReviewInv, ReviewTypes
  <2> QED
    BY <1>1, <1>2, <2>1, <2>2, ThreadEnds
<1>4. CASE run.id = p
  <2>1. run \in RunRows /\ card = NoCard
    BY <1>4, NotTheRun DEF ReviewInv, ReviewTypes
  <2>2. run' \in RunRows /\ run'.id = run.id /\ run'.request = run.request
        /\ run'.status \in {"FAILED", "BUDGET_BLOCKED"}
    BY <1>4, <2>1 DEF MarkFailed, RunRows
  <2>3. CardOK' /\ SessionTyped
    BY <1>1, <2>1, <2>2 DEF CardOK, SessionTyped, States, ReviewInv, ReviewTypes, NoCard
  <2> QED
    BY <1>1, <1>2, <1>4, <2>2, <2>3, ThreadEnds
<1> QED
  BY <1>3, <1>4

LEMMA BeginInv ==
    ASSUME ReviewInv, NEW p \in Reviewers, NEW c \in Runs, Begin(p, c)
    PROVE  ReviewInv' /\ UNCHANGED ledgerVars
<1> DEFINE row == [Idle EXCEPT !.pc = "authorize", !.request = c]
<1>1. /\ UNCHANGED ledgerVars /\ UNCHANGED <<session, drifted>> /\ reviewer[p].pc = "idle"
      /\ reviewer' = [reviewer EXCEPT ![p] = row]
  BY DEF Begin, At
<1>2. row \in ThreadRows
  <2>1. 0 \in 0 .. MaxBudget /\ 0 \in 0 .. Expected
    BY LedgerAssumption, ReviewAssumption
  <2> QED
    BY <2>1 DEF Idle, ThreadRows, Pcs
<1>3. Alone(p) /\ reviewer'[p] = row
  BY <1>1, <1>2 DEF Alone, ReviewInv, ReviewTypes
<1>4. LedgerInv' /\ ledger' = ledger /\ LedgerKept
  BY <1>1, SameLedger DEF ReviewInv
<1>5. run' = run /\ reviews' = reviews /\ SessionTyped /\ CardOK'
  BY <1>1, SameSession
<1>6. ThreadOK(p)
  BY DEF ReviewInv
<1>7. ThreadOK(p)'
  BY <1>1, <1>3, <1>5, <1>6 DEF ThreadOK, Busy, Idle
<1> QED
  BY <1>1, <1>3, <1>4, <1>5, <1>7, ThreadMoves

\* The run of p is inserted: no ledger has been drawn on before.
LEMMA InsertInv ==
    ASSUME ReviewInv, NEW p \in Reviewers, At(p, "authorize"), ~HasRun,
           OpenLedger(reviewer[p].request), Goto(p, "next"),
           run' = [id |-> p, request |-> reviewer[p].request, status |-> "RUNNING",
                   completed |-> 0],
           UNCHANGED <<state, reviews, card, recovered, drifted>>
    PROVE  ReviewInv' /\ (LedgerNext \/ UNCHANGED ledgerVars)
<1>a. ThreadOK(p) /\ reviewer[p].request \in Runs /\ reviewer[p].recorded = 0 /\ LedgerInv
  BY DEF ReviewInv, ThreadOK, At
<1>b. PICK c \in Runs : c = reviewer[p].request
  BY <1>a
<1>1. ThreadOK(p) /\ reviewer[p].recorded = 0 /\ LedgerInv /\ OpenLedger(c)
  BY <1>a, <1>b
<1>2. /\ LedgerInv' /\ LedgerKept /\ (LedgerNext \/ UNCHANGED ledgerVars) /\ Created(c)'
      /\ \A d \in Runs : ledger'[d].reserved = ledger[d].reserved
  BY <1>1, OpenKeeps
<1>3. /\ Alone(p) /\ reviewer'[p].pc = "next" /\ reviewer'[p].request = c
      /\ reviewer'[p].recorded = 0
  BY <1>1, <1>b, GotoFacts DEF Pcs
<1>4. run.id = Nobody /\ reviews = {} /\ card = NoCard
  BY DEF ReviewInv, RowsOK, RunOK, HasRun, CardOK, NoReviewRun
<1>5. run' \in RunRows /\ run'.id = p /\ run'.request = c /\ run'.status = "RUNNING"
  BY <1>b, ReviewAssumption DEF RunRows
<1>6. p # Nobody
  BY ReviewAssumption
<1>7. ReviewTypes'
  BY <1>3, <1>5 DEF ReviewInv, ReviewTypes, Alone
<1>8. \A d \in Runs : ledger[d].reserved = 0
  <2>1. \A d \in Runs : ledger[d].reserved \in Nat
    BY <1>1, SlotsReserved
  <2> QED
    BY <2>1 DEF ReviewInv, SpentOK
<1>9. RunOK' /\ SpentOK' /\ RowsOK'
  BY <1>1, <1>2, <1>4, <1>5, <1>6, <1>8 DEF RunOK, SpentOK, RowsOK, HasRun
<1>10. CardOK'
  BY <1>4, <1>5 DEF CardOK, ReviewInv
<1>11. ThreadOK(p)'
  BY <1>1, <1>2, <1>3, <1>4, <1>5, <1>8 DEF ThreadOK, Busy, InPlace
<1>12. \A q \in Reviewers \ {p} : ThreadOK(q)'
  <2> SUFFICES ASSUME NEW q \in Reviewers \ {p} PROVE ThreadOK(q)'
    OBVIOUS
  <2>1. run.id # q
    BY <1>4, ReviewAssumption
  <2> QED
    BY <1>2, <1>3, <1>5, <2>1, Bystander DEF Alone
<1> QED
  BY <1>2, <1>7, <1>9, <1>10, <1>11, <1>12 DEF ReviewInv

LEMMA AuthorizeInv ==
    ASSUME ReviewInv, NEW p \in Reviewers, Authorize(p)
    PROVE  ReviewInv' /\ (LedgerNext \/ UNCHANGED ledgerVars)
<1>1. CASE Goto(p, "done") /\ UNCHANGED <<ledgerVars, session, drifted>>
  BY <1>1, Withdraws
<1>2. CASE BecomeStale(Nobody) /\ Goto(p, "done")
  BY <1>2, StaleEnds
<1>3. CASE /\ OpenLedger(reviewer[p].request) /\ HasRun /\ Goto(p, "done") /\ UNCHANGED run
           /\ UNCHANGED <<state, reviews, card, recovered, drifted>>
  <2>1. reviewer[p].request \in Runs /\ LedgerInv
    BY DEF ReviewInv, ThreadOK, Authorize, At
  <2>2. /\ LedgerInv' /\ LedgerKept /\ (LedgerNext \/ UNCHANGED ledgerVars)
        /\ \A d \in Runs : ledger'[d].reserved = ledger[d].reserved
    BY <1>3, <2>1, OpenKeeps
  <2>3. run' = run /\ reviews' = reviews /\ SessionTyped /\ CardOK'
    BY <1>3, SameSession DEF session
  <2> QED
    BY <1>3, <2>2, <2>3, ThreadEnds
<1>4. CASE /\ OpenLedger(reviewer[p].request) /\ ~HasRun /\ Goto(p, "next")
           /\ run' = [id |-> p, request |-> reviewer[p].request,
                      status |-> "RUNNING", completed |-> 0]
           /\ UNCHANGED <<state, reviews, card, recovered, drifted>>
  BY <1>4, InsertInv DEF Authorize
<1> QED
  BY <1>1, <1>2, <1>3, <1>4 DEF Authorize

\* Only the thread of the present run finds its ledger open.
LEMMA ReserveInv ==
    ASSUME ReviewInv, NEW p \in Reviewers, At(p, "next"), reviewer[p].recorded < Expected,
           Reserve(reviewer[p].request, Review),
           reviewer' = [reviewer EXCEPT ![p].pc = "call",
                            ![p].slot = ledger[reviewer[p].request].reserved + 1],
           UNCHANGED <<session, drifted>>
    PROVE  ReviewInv' /\ LedgerNext
<1>a. ThreadOK(p) /\ LedgerInv /\ Busy(p) /\ reviewer[p].pc = "next" /\ Review \in Kinds
  BY ReviewAssumption DEF ReviewInv, ThreadOK, At, Busy
<1>b. PICK c \in Runs : c = reviewer[p].request
  BY <1>a DEF ThreadOK
<1>c. ledger[c].reserved \in 0 .. MaxBudget
  BY <1>a, SlotsReserved
<1>d. PICK n \in Nat : n = ledger[c].reserved + 1
  BY <1>c
<1> DEFINE row == [reviewer[p] EXCEPT !.pc = "call", !.slot = n]
<1>1. ThreadOK(p) /\ LedgerInv /\ Busy(p) /\ reviewer[p].pc = "next"
      /\ Reserve(c, Review) /\ c = reviewer[p].request /\ n = ledger[c].reserved + 1
  BY <1>a, <1>b, <1>d
<1>2. /\ LedgerInv' /\ LedgerKept /\ LedgerNext
      /\ ledger[c].status = "OPEN" /\ ledger'[c].reserved = n /\ n \in 1 .. MaxBudget
      /\ \A d \in Runs \ {c} : ledger'[d] = ledger[d]
  BY <1>a, <1>1, ReserveKeeps
<1>3. run.id = p /\ run.request = c /\ run.status = "RUNNING" /\ InPlace(p)
  BY <1>1, <1>2 DEF ThreadOK, ClosedRun
<1>4. reviewer \in [Reviewers -> ThreadRows] /\ reviewer[p] \in ThreadRows
  BY DEF ReviewInv, ReviewTypes
<1>5. row \in ThreadRows
  <2>1. n \in 0 .. MaxBudget
    BY <1>2, LedgerAssumption
  <2> QED
    BY <1>4, <2>1 DEF ThreadRows, Pcs
<1>6. reviewer' = [reviewer EXCEPT ![p] = row]
  BY <1>1, <1>4
<1>7. /\ Alone(p) /\ reviewer'[p].pc = "call" /\ reviewer'[p].slot = n
      /\ reviewer'[p].request = c /\ reviewer'[p].recorded = reviewer[p].recorded
  BY <1>1, <1>4, <1>5, <1>6 DEF Alone, ThreadRows
<1>8. run' = run /\ reviews' = reviews /\ SessionTyped /\ CardOK'
  BY SameSession
<1>9. RowsOK' /\ RunOK' /\ ReviewTypes'
  BY <1>2, <1>7, <1>8, RowsKept
  DEF ReviewInv, RunOK, HasRun, ReviewTypes, Alone, SessionTyped, LedgerKept
<1>10. SpentOK'
  <2>1. HasRun
    BY <1>3, ReviewAssumption DEF HasRun
  <2>2. ASSUME NEW d \in Runs, ledger'[d].reserved > 0 PROVE run.request = d
    <3>1. CASE d = c
      BY <1>3, <3>1
    <3>2. CASE d # c
      BY <1>2, <2>2, <3>2 DEF ReviewInv, SpentOK
    <3> QED
      BY <3>1, <3>2
  <2> QED
    BY <1>8, <2>1, <2>2 DEF SpentOK, HasRun
<1>11. reviewer[p].recorded = ledger[c].reserved
       /\ {x.index : x \in reviews} = 1 .. reviewer[p].recorded
       /\ reviewer[p].recorded \in Nat
  BY <1>1, <1>3, <1>4 DEF InPlace, ThreadRows
<1>12. ThreadOK(p)'
  <2>1. Created(c)'
    BY <1>2, <1>1 DEF LedgerKept, ThreadOK
  <2>2. ledger'[c].status # "NONE"
    BY <2>1 DEF Created
  <2>3. InPlace(p)'
    BY <1>1, <1>2, <1>7, <1>8, <1>11 DEF InPlace
  <2>4. ledger'[reviewer'[p].request].status # "NONE"
    BY <2>2, <1>7
  <2> QED
    BY <1>3, <1>7, <1>8, <2>4, <2>3 DEF ThreadOK, Busy, Created
<1>13. \A q \in Reviewers \ {p} : ThreadOK(q)'
  BY <1>2, <1>3, <1>7, <1>8, Bystander DEF Alone
<1> QED
  BY <1>2, <1>8, <1>9, <1>10, <1>12, <1>13 DEF ReviewInv

LEMMA NextCallInv ==
    ASSUME ReviewInv, NEW p \in Reviewers, NextCall(p)
    PROVE  ReviewInv' /\ (LedgerNext \/ UNCHANGED ledgerVars)
<1> DEFINE c == reviewer[p].request
<1>1. CASE Goto(p, "done") /\ UNCHANGED <<ledgerVars, session, drifted>>
  BY <1>1, Withdraws
<1>2. CASE BecomeStale(p) /\ Goto(p, "done")
  BY <1>2, StaleEnds
<1>3. CASE /\ Reserve(c, Review)
           /\ reviewer' = [reviewer EXCEPT ![p].pc = "call", ![p].slot = ledger[c].reserved + 1]
           /\ UNCHANGED <<session, drifted>>
  BY <1>3, ReserveInv DEF NextCall
<1>4. CASE MarkFailed(p, ledger[c].reserved >= ledger[c].max)
  <2>1. Busy(p)
    BY DEF NextCall, At, Busy
  <2>2. (ledger[c].reserved >= ledger[c].max) \in BOOLEAN
    OBVIOUS
  <2> QED
    BY <1>4, <2>1, <2>2, MarkFailedInv
<1> QED
  BY <1>1, <1>2, <1>3, <1>4 DEF NextCall

\* A thread with a call is that of the present run.
LEMMA Caller ==
    ASSUME ReviewInv, NEW p \in Reviewers, reviewer[p].pc \in {"call", "record", "failed"}
    PROVE  /\ LedgerInv /\ ThreadOK(p) /\ Busy(p) /\ run.id = p /\ run.status = "RUNNING"
           /\ run.request = reviewer[p].request /\ InPlace(p) /\ card = NoCard
           /\ reviewer[p].request \in Runs /\ Created(reviewer[p].request)
           /\ reviewer[p].recorded \in Nat /\ Expected \in Nat /\ Expected <= MaxBudget
<1>1. LedgerInv /\ ThreadOK(p) /\ Busy(p) /\ reviewer[p] \in ThreadRows
  BY DEF ReviewInv, ReviewTypes, Busy
<1>2. run.id = p
  BY <1>1 DEF ThreadOK
<1> QED
  BY <1>1, <1>2, NotTheRun, ReviewAssumption DEF ThreadOK, ThreadRows

LEMMA CallReturnsInv ==
    ASSUME ReviewInv, NEW p \in Reviewers, CallReturns(p)
    PROVE  ReviewInv' /\ LedgerNext
<1>1. reviewer[p].pc = "call" /\ UNCHANGED <<session, drifted>>
  BY DEF CallReturns, At
<1>2. PICK o \in {"RESPONDED", "FAILED", "INVALID"} :
          /\ FinishCall(reviewer[p].request, reviewer[p].slot, o)
          /\ Goto(p, IF o = "RESPONDED" THEN "record" ELSE "failed")
  BY DEF CallReturns
<1>3. /\ LedgerInv /\ run.id = p /\ run.status = "RUNNING" /\ InPlace(p)
      /\ run.request = reviewer[p].request /\ Created(reviewer[p].request)
      /\ reviewer[p].recorded \in Nat /\ Expected \in Nat /\ Expected <= MaxBudget
  BY <1>1, Caller
<1>4. PICK c \in Runs : c = reviewer[p].request
  BY <1>1, Caller
<1>5. PICK s \in Slots : s = reviewer[p].slot
  BY <1>1, <1>3, LedgerAssumption DEF InPlace, Slots
<1>6. FinishCall(c, s, o) /\ o \in Outcomes
  BY <1>2, <1>4, <1>5 DEF Outcomes
<1>7. /\ LedgerInv' /\ LedgerKept /\ LedgerNext /\ attempt'[c][s].status = o
      /\ \A d \in Runs : ledger'[d].reserved = ledger[d].reserved
  BY <1>3, <1>6, FinishKeeps
<1>8. /\ Alone(p) /\ reviewer'[p].request = c /\ reviewer'[p].slot = s
      /\ reviewer'[p].pc = IF o = "RESPONDED" THEN "record" ELSE "failed"
      /\ reviewer'[p].recorded = reviewer[p].recorded
  BY <1>2, <1>4, <1>5, GotoFacts DEF Pcs
<1>9. run' = run /\ reviews' = reviews /\ SessionTyped /\ CardOK'
  BY <1>1, SameSession
<1>10. /\ reviewer[p].recorded < Expected /\ ledger[c].reserved = reviewer[p].recorded + 1
       /\ s = reviewer[p].recorded + 1
       /\ {x.index : x \in reviews} = 1 .. reviewer[p].recorded
  BY <1>1, <1>3, <1>4, <1>5 DEF InPlace
<1>11. InPlace(p)'
  BY <1>3, <1>7, <1>8, <1>9, <1>10 DEF InPlace
<1>12. ledger'[c].status # "NONE"
  BY <1>3, <1>4, <1>7 DEF LedgerKept, Created
<1>13. ThreadOK(p)'
  BY <1>3, <1>4, <1>8, <1>9, <1>11, <1>12 DEF ThreadOK, Busy, Created
<1> QED
  BY <1>7, <1>8, <1>9, <1>13, ThreadMoves

LEMMA FinishFailsInv ==
    ASSUME ReviewInv, NEW p \in Reviewers, FinishFails(p)
    PROVE  ReviewInv' /\ UNCHANGED ledgerVars
<1>1. /\ reviewer[p].pc = "call" /\ Goto(p, "failed")
      /\ UNCHANGED ledgerVars /\ UNCHANGED <<session, drifted>>
  BY DEF FinishFails, At
<1>2. /\ run.id = p /\ run.status = "RUNNING" /\ InPlace(p)
      /\ run.request = reviewer[p].request /\ Created(reviewer[p].request)
      /\ reviewer[p].request \in Runs /\ reviewer[p].recorded \in Nat
  BY <1>1, Caller
<1>3. LedgerInv' /\ ledger' = ledger /\ LedgerKept
  BY <1>1, SameLedger DEF ReviewInv
<1>4. /\ Alone(p) /\ reviewer'[p].request = reviewer[p].request
      /\ reviewer'[p].pc = "failed" /\ reviewer'[p].recorded = reviewer[p].recorded
  BY <1>1, GotoFacts DEF Pcs
<1>5. run' = run /\ reviews' = reviews /\ SessionTyped /\ CardOK'
  BY <1>1, SameSession
<1>6. ledger[reviewer[p].request].reserved > 0
  BY <1>1, <1>2 DEF InPlace
<1>7. InPlace(p)'
  BY <1>3, <1>4, <1>6 DEF InPlace
<1>8. ThreadOK(p)'
  BY <1>2, <1>3, <1>4, <1>5, <1>7 DEF ThreadOK, Busy, Created
<1> QED
  BY <1>1, <1>3, <1>4, <1>5, <1>8, ThreadMoves

LEMMA RecordInv ==
    ASSUME ReviewInv, NEW p \in Reviewers, Record(p)
    PROVE  ReviewInv' /\ UNCHANGED ledgerVars
<1> DEFINE n == reviewer[p].recorded + 1
           row == [run |-> p, index |-> n, request |-> reviewer[p].request,
                   slot |-> reviewer[p].slot]
<1>1. /\ reviewer[p].pc = "record" /\ UNCHANGED ledgerVars
      /\ state' = state /\ card' = card /\ drifted' = drifted
  BY DEF Record, At
<1>2. /\ LedgerInv /\ run.id = p /\ run.status = "RUNNING" /\ InPlace(p) /\ card = NoCard
      /\ run.request = reviewer[p].request /\ Created(reviewer[p].request)
      /\ reviewer[p].request \in Runs /\ reviewer[p].recorded \in Nat
      /\ Expected \in Nat /\ Expected <= MaxBudget
  BY <1>1, Caller
<1>3. LedgerInv' /\ ledger' = ledger /\ attempt' = attempt /\ LedgerKept
  BY <1>1, SameLedger DEF ReviewInv
<1>4. /\ reviewer[p].recorded < Expected /\ ledger[reviewer[p].request].reserved = n
      /\ reviewer[p].slot = n /\ attempt[reviewer[p].request][reviewer[p].slot].status = "RESPONDED"
      /\ {x.index : x \in reviews} = 1 .. reviewer[p].recorded
  BY <1>1, <1>2 DEF InPlace
<1>5. \A x \in reviews : x.index # n
  <2> SUFFICES ASSUME NEW x \in reviews PROVE x.index # n
    OBVIOUS
  <2>1. x.index \in 1 .. reviewer[p].recorded
    BY <1>4
  <2> QED
    BY <1>2, <2>1
<1>6. /\ reviews' = reviews \cup {row} /\ run' = [run EXCEPT !.completed = n]
      /\ reviewer' = [reviewer EXCEPT ![p].pc = "next", ![p].recorded = n]
  BY <1>2, <1>5 DEF Record
<1>7. n \in Slots /\ n \in 1 .. Expected /\ n \in Nat
  BY <1>2, <1>4, LedgerAssumption DEF Slots
<1>8. row \in ReviewRows
  BY <1>2, <1>4, <1>7 DEF ReviewRows
<1>9. reviewer \in [Reviewers -> ThreadRows] /\ reviewer[p] \in ThreadRows
      /\ run \in RunRows /\ reviews \subseteq ReviewRows /\ card \in CardRows
      /\ drifted \in BOOLEAN /\ state \in States /\ RowsOK /\ CardOK
  BY DEF ReviewInv, ReviewTypes
<1>10. /\ run' \in RunRows /\ run'.id = p /\ run'.request = run.request
       /\ run'.status = "RUNNING"
  BY <1>2, <1>6, <1>7, <1>9 DEF RunRows
<1>11. /\ Alone(p) /\ reviewer'[p].pc = "next" /\ reviewer'[p].recorded = n
       /\ reviewer'[p].request = reviewer[p].request
  <2>1. [reviewer[p] EXCEPT !.pc = "next", !.recorded = n] \in ThreadRows
    <3>1. n \in 0 .. Expected
      BY <1>2, <1>4
    <3> HIDE DEF n
    <3> QED
      BY <1>9, <3>1 DEF ThreadRows, Pcs
  <2> QED
    BY <1>6, <1>9, <2>1 DEF Alone, ThreadRows
<1>12. ReviewTypes'
  BY <1>1, <1>6, <1>8, <1>9, <1>10, <1>11 DEF ReviewTypes, Alone
<1>13. HasRun /\ HasRun'
  BY <1>2, <1>10, ReviewAssumption DEF HasRun
<1>14. RunOK' /\ SpentOK'
  <2>1. RunOK /\ SpentOK
    BY DEF ReviewInv
  <2> QED
    BY <1>2, <1>3, <1>10, <1>13, <2>1 DEF RunOK, SpentOK, Created
<1>15. RowsOK'
  <2> SUFFICES ASSUME NEW x \in reviews'
               PROVE  /\ x.run = run'.id /\ x.request = run'.request /\ x.slot = x.index
                      /\ attempt'[x.request][x.slot].status = "RESPONDED"
    BY <1>13 DEF RowsOK
  <2>1. CASE x \in reviews
    BY <1>2, <1>3, <1>9, <1>10, <2>1 DEF RowsOK
  <2>2. CASE x = row
    BY <1>2, <1>3, <1>4, <1>10, <2>2
  <2> QED
    BY <1>6, <2>1, <2>2
<1>16. CardOK'
  BY <1>1, <1>2, <1>9, <1>10 DEF CardOK
<1>17. {x.index : x \in reviews'} = 1 .. n
  <2>1. {x.index : x \in reviews'} = {x.index : x \in reviews} \cup {n}
    <3>1. row.index = n
      OBVIOUS
    <3> HIDE DEF n, row
    <3> QED
      BY <1>6, <3>1
  <2>2. 1 .. n = 1 .. reviewer[p].recorded \cup {n}
    BY <1>2
  <2> QED
    BY <1>4, <2>1, <2>2
<1>18. ThreadOK(p)'
  <2>1. ledger'[reviewer'[p].request].reserved = n
    BY <1>3, <1>4, <1>11
  <2>2. InPlace(p)'
    BY <1>11, <1>17, <2>1 DEF InPlace
  <2> QED
    BY <1>2, <1>3, <1>10, <1>11, <2>2 DEF ThreadOK, Busy, Created
<1>19. \A q \in Reviewers \ {p} : ThreadOK(q)'
  BY <1>2, <1>3, <1>10, <1>11, Bystander DEF Alone
<1> QED
  BY <1>1, <1>3, <1>12, <1>14, <1>15, <1>16, <1>18, <1>19 DEF ReviewInv

LEMMA PublishInv ==
    ASSUME ReviewInv, NEW p \in Reviewers, Publish(p)
    PROVE  ReviewInv' /\ UNCHANGED ledgerVars
<1>1. reviewer[p].pc = "next" /\ reviewer[p].recorded = Expected /\ Goto(p, "done")
  BY DEF Publish, At
<1>2. CASE UNCHANGED <<ledgerVars, session, drifted>>
  BY <1>1, <1>2, Withdraws
<1>3. CASE BecomeStale(p)
  BY <1>1, <1>3, StaleEnds
<1>4. ASSUME run.id = p, card = NoCard,
             run' = IF run.status # "RUNNING" THEN run
                    ELSE [run EXCEPT !.status = "COMPLETED", !.completed = Expected],
             NEW ready \in BOOLEAN,
             card' = [run |-> p, reviews |-> Of(p), ready |-> ready, frozen |-> FALSE],
             state' = IF ready THEN "READY_FOR_DECISION" ELSE "NEEDS_USER_ACTION",
             UNCHANGED <<ledgerVars, reviews, recovered, drifted>>
      PROVE  ReviewInv' /\ UNCHANGED ledgerVars
  <2>1. UNCHANGED ledgerVars
    BY <1>4
  <2>2. LedgerInv' /\ ledger' = ledger /\ LedgerKept
    BY <2>1, SameLedger DEF ReviewInv
  <2>3. run.status = "RUNNING" /\ ThreadOK(p) /\ Busy(p)
    BY <1>1, <1>4 DEF ReviewInv, ThreadOK, Busy
  <2>4. {x.index : x \in reviews} = 1 .. Expected
    BY <1>1, <1>4, <2>3 DEF ThreadOK, InPlace
  <2>5. run \in RunRows /\ RowsOK /\ reviews \subseteq ReviewRows /\ drifted \in BOOLEAN
    BY DEF ReviewInv, ReviewTypes
  <2>6. Of(p) = reviews
    BY <1>4, <2>5 DEF Of, RowsOK
  <2>7. Expected \in 0 .. Expected
    BY ReviewAssumption
  <2>8. /\ run' \in RunRows /\ run'.id = run.id /\ run'.request = run.request
        /\ run'.status = "COMPLETED" /\ run'.completed = Expected
    BY <1>4, <2>3, <2>5, <2>7 DEF RunRows
  <2>9. card' \in CardRows /\ card'.run = p /\ card'.reviews = reviews /\ card'.ready = ready
    BY <1>4, <2>5, <2>6 DEF CardRows
  <2>10. CardOK'
    BY <1>4, <2>4, <2>8, <2>9 DEF CardOK, Complete
  <2>11. SessionTyped
    BY <1>4, <2>5, <2>8, <2>9 DEF SessionTyped, States
  <2> QED
    BY <1>1, <1>4, <2>1, <2>2, <2>8, <2>10, <2>11, ThreadEnds
<1> QED
  BY <1>2, <1>3, <1>4 DEF Publish

-----------------------------------------------------------------------------
(* Recovery and the end of the process.                                     *)

\* The thread of a run that is given up has not made a call, and cannot make
\* one any more.
LEMMA RecoverInv ==
    ASSUME ReviewInv, Recover
    PROVE  ReviewInv' /\ (LedgerNext \/ UNCHANGED ledgerVars)
<1>1. /\ run.status = "RUNNING" /\ card = NoCard /\ Of(run.id) = {}
      /\ ledger[run.request].reserved = 0 /\ Abandon(run.request)
      /\ run' = NoReviewRun /\ UNCHANGED <<state, reviews, card, drifted, reviewer>>
      /\ state = "API_REVIEW"
  BY DEF Recover
<1>2. LedgerInv /\ RunOK /\ SpentOK /\ RowsOK /\ CardOK /\ ReviewTypes
  BY DEF ReviewInv
<1>3. HasRun /\ run.request \in Runs /\ Created(run.request)
  BY <1>1, <1>2 DEF RunOK, NoReviewRun
<1>4. PICK c \in Runs : c = run.request
  BY <1>3
<1>5. /\ LedgerInv' /\ LedgerKept /\ (LedgerNext \/ UNCHANGED ledgerVars)
      /\ ledger'[c].status \in ClosedRun /\ attempt' = attempt
      /\ \A d \in Runs : ledger'[d].reserved = ledger[d].reserved
  <2>1. Created(c) /\ ledger[c].reserved = 0 /\ Abandon(c)
    BY <1>1, <1>3, <1>4
  <2> QED
    BY <1>2, <2>1, AbandonKeeps
<1>6. reviews = {}
  BY <1>1, <1>2 DEF RowsOK, Of
<1>7. /\ run'.id = Nobody /\ run'.status = "NONE" /\ run'.request = "none"
      /\ run'.completed = 0 /\ run' \in RunRows
  <2>1. 0 \in 0 .. Expected
    BY ReviewAssumption
  <2> QED
    BY <1>1, <2>1 DEF NoReviewRun, RunRows
<1>8. ReviewTypes'
  BY <1>1, <1>2, <1>7 DEF ReviewTypes
<1>9. RunOK' /\ RowsOK'
  BY <1>1, <1>6, <1>7 DEF RunOK, RowsOK, HasRun
<1>10. SpentOK'
  BY <1>1, <1>2, <1>4, <1>5 DEF SpentOK
<1>11. CardOK'
  BY <1>1, <1>2, <1>7 DEF CardOK
<1>12. \A q \in Reviewers : ThreadOK(q)'
  <2> SUFFICES ASSUME NEW q \in Reviewers PROVE ThreadOK(q)'
    OBVIOUS
  <2>1. q # Nobody /\ ThreadOK(q) /\ reviewer'[q] = reviewer[q] /\ reviewer[q] \in ThreadRows
    BY <1>1, <1>2, ReviewAssumption DEF ReviewInv, ReviewTypes
  <2>2. CASE run.id # q
    BY <1>5, <1>7, <2>1, <2>2, Bystander
  <2>3. CASE run.id = q /\ ~Busy(q)
    BY <1>7, <2>1, <2>3 DEF ThreadOK, Busy
  <2>4. CASE run.id = q /\ Busy(q)
    <3>1. InPlace(q) /\ reviewer[q].request = c /\ reviewer[q].recorded \in Nat
      BY <1>4, <2>1, <2>4 DEF ThreadOK, ThreadRows
    <3>2. ledger[reviewer[q].request].reserved = 0
      BY <1>1, <1>4, <3>1
    <3>3. reviewer[q].pc = "next" /\ reviewer[q].recorded = 0
      BY <2>4, <3>1, <3>2 DEF InPlace, Busy
    <3>4. ledger'[c].status # "NONE"
      BY <1>5 DEF ClosedRun
    <3> QED
      BY <1>5, <1>7, <2>1, <3>1, <3>3, <3>4 DEF ThreadOK, Busy, Created
  <2> QED
    BY <2>2, <2>3, <2>4
<1> QED
  BY <1>5, <1>8, <1>9, <1>10, <1>11, <1>12 DEF ReviewInv

LEMMA CrashInv ==
    ASSUME ReviewInv, Crash
    PROVE  ReviewInv' /\ (LedgerNext \/ UNCHANGED ledgerVars)
<1>1. /\ UNCHANGED <<session, drifted>>
      /\ reviewer' = [p \in Reviewers |-> IF At(p, "idle") THEN Idle
                                          ELSE [Idle EXCEPT !.pc = "done"]]
  BY DEF Crash
<1>2. /\ LedgerInv' /\ LedgerKept /\ (LedgerNext \/ UNCHANGED ledgerVars)
      /\ \A d \in Runs : ledger'[d].reserved = ledger[d].reserved
  <2>1. CASE UNCHANGED ledgerVars
    BY <2>1, SameLedger DEF ReviewInv
  <2>2. ASSUME NEW p \in Reviewers, At(p, "authorize"), OpenLedger(reviewer[p].request)
        PROVE  /\ LedgerInv' /\ LedgerKept /\ (LedgerNext \/ UNCHANGED ledgerVars)
               /\ \A d \in Runs : ledger'[d].reserved = ledger[d].reserved
    <3>1. reviewer[p].request \in Runs /\ LedgerInv
      BY <2>2 DEF ReviewInv, ThreadOK, At
    <3> QED
      BY <2>2, <3>1, OpenKeeps
  <2> QED
    BY <2>1, <2>2 DEF Crash
<1>3. run' = run /\ reviews' = reviews /\ SessionTyped /\ CardOK'
  BY <1>1, SameSession
<1>4. reviewer' \in [Reviewers -> ThreadRows]
  <2>1. 0 \in 0 .. MaxBudget /\ 0 \in 0 .. Expected
    BY LedgerAssumption, ReviewAssumption
  <2>2. Idle \in ThreadRows /\ [Idle EXCEPT !.pc = "done"] \in ThreadRows
    BY <2>1 DEF Idle, ThreadRows, Pcs
  <2> QED
    BY <1>1, <2>2
<1>5. RowsOK' /\ SpentOK'
  BY <1>2, <1>3, RowsKept, SpentKept
<1>6. RunOK' /\ ReviewTypes'
  BY <1>2, <1>3, <1>4 DEF ReviewInv, RunOK, HasRun, LedgerKept, ReviewTypes, SessionTyped
<1>7. \A q \in Reviewers : ThreadOK(q)'
  <2> SUFFICES ASSUME NEW q \in Reviewers PROVE ThreadOK(q)'
    OBVIOUS
  <2>1. ThreadOK(q)
    BY DEF ReviewInv
  <2>2. \/ reviewer[q].pc = "idle" /\ reviewer'[q].pc = "idle" /\ reviewer'[q].recorded = 0
        \/ reviewer'[q].pc = "done"
    BY <1>1 DEF At, Idle
  <2> QED
    BY <1>3, <2>1, <2>2 DEF ThreadOK, Busy
<1> QED
  BY <1>2, <1>3, <1>5, <1>6, <1>7 DEF ReviewInv

-----------------------------------------------------------------------------

LEMMA InitReviewInv == ReviewInit => ReviewInv
<1> SUFFICES ASSUME ReviewInit PROVE ReviewInv
  OBVIOUS
<1>1. LedgerInv /\ ledger = [r \in Runs |-> NoRun]
  BY InitLedgerInv DEF ReviewInit, LedgerInit
<1>2. /\ run = NoReviewRun /\ reviews = {} /\ card = NoCard /\ drifted = FALSE
      /\ state = "BUNDLE_READY" /\ reviewer = [p \in Reviewers |-> Idle]
  BY DEF ReviewInit
<1>3. 0 \in 0 .. MaxBudget /\ 0 \in 0 .. Expected
  BY LedgerAssumption, ReviewAssumption
<1>4. Idle \in ThreadRows /\ run \in RunRows /\ card \in CardRows
  BY <1>2, <1>3 DEF Idle, ThreadRows, Pcs, NoReviewRun, RunRows, NoCard, CardRows
<1>5. ReviewTypes
  BY <1>2, <1>4 DEF ReviewTypes, States
<1>6. RunOK /\ RowsOK /\ CardOK
  BY <1>2 DEF RunOK, RowsOK, CardOK, HasRun, NoReviewRun
<1>7. SpentOK
  BY <1>1 DEF SpentOK, NoRun
<1>8. \A p \in Reviewers : ThreadOK(p)
  BY <1>2, ReviewAssumption DEF ThreadOK, Busy, Idle, NoReviewRun
<1> QED
  BY <1>1, <1>5, <1>6, <1>7, <1>8 DEF ReviewInv

LEMMA StepReviewInv ==
    ReviewInv /\ [ReviewNext]_reviewVars => ReviewInv' /\ [LedgerNext]_ledgerVars
<1> SUFFICES ASSUME ReviewInv, [ReviewNext]_reviewVars
             PROVE  ReviewInv' /\ (LedgerNext \/ UNCHANGED ledgerVars)
  OBVIOUS
<1>1. CASE Dispatch \/ ImportResult \/ Freeze \/ ContextChanges
  BY <1>1, SessionInv
<1>2. CASE Recover
  BY <1>2, RecoverInv
<1>3. CASE Crash
  BY <1>3, CrashInv
<1>4. ASSUME NEW p \in Reviewers, ReviewStep(p)
      PROVE  ReviewInv' /\ (LedgerNext \/ UNCHANGED ledgerVars)
  <2>1. CASE \E c \in Runs : Begin(p, c)
    BY <2>1, BeginInv
  <2>2. CASE Authorize(p)
    BY <2>2, AuthorizeInv
  <2>3. CASE NextCall(p)
    BY <2>3, NextCallInv
  <2>4. CASE CallReturns(p)
    BY <2>4, CallReturnsInv
  <2>5. CASE FinishFails(p)
    BY <2>5, FinishFailsInv
  <2>6. CASE Fail(p)
    <3>1. Busy(p) /\ MarkFailed(p, FALSE) /\ FALSE \in BOOLEAN
      BY <2>6 DEF Fail, At, Busy
    <3> QED
      BY <3>1, MarkFailedInv
  <2>7. CASE Record(p)
    BY <2>7, RecordInv
  <2>8. CASE Publish(p)
    BY <2>8, PublishInv
  <2> QED
    BY <1>4, <2>1, <2>2, <2>3, <2>4, <2>5, <2>6, <2>7, <2>8 DEF ReviewStep
<1>5. CASE UNCHANGED reviewVars
  <2>1. /\ UNCHANGED ledgerVars /\ run' = run /\ reviews' = reviews /\ reviewer' = reviewer
        /\ card' = card /\ state' = state /\ drifted' = drifted
    BY <1>5 DEF reviewVars, session
  <2> QED
    BY <2>1, CardStale, SessionMoves DEF ReviewInv, ReviewTypes
<1> QED
  BY <1>1, <1>2, <1>3, <1>4, <1>5 DEF ReviewNext

\* The invariant that the properties of a session rest on: the thread of the
\* present run stands where its ledger and its reviews are, and nobody else
\* can draw on a ledger.
THEOREM ReviewInvHolds == ReviewSpec => []ReviewInv
<1>1. ReviewInv /\ [ReviewNext]_reviewVars => ReviewInv'
  BY StepReviewInv
<1> QED
  BY InitReviewInv, <1>1, PTL DEF ReviewSpec

\* The records of a session have their types, whatever is delivered twice,
\* recovered or interrupted (schema of manual_chatgpt_sessions and its tables).
THEOREM ReviewTypeCorrect == ReviewSpec => []ReviewTypeOK
<1>1. ReviewInv => ReviewTypeOK
  <2> SUFFICES ASSUME ReviewInv PROVE ReviewTypeOK
    OBVIOUS
  <2>1. LedgerTypeOK /\ drifted \in BOOLEAN /\ state \in States
    BY DEF ReviewInv, ReviewTypes, LedgerInv
  <2>2. HasRun => run.id \in Reviewers /\ run.request \in Runs
    BY DEF ReviewInv, ReviewTypes, RunOK, RunRows, HasRun
  <2>3. ASSUME NEW p \in Reviewers, ~At(p, "idle")
        PROVE  At(p, "done") \/ reviewer[p].request \in Runs
    <3>1. reviewer[p].pc \in Pcs /\ ThreadOK(p)
      BY DEF ReviewInv, ReviewTypes, ThreadRows
    <3> QED
      BY <2>3, <3>1 DEF ThreadOK, At, Busy, Pcs
  <2> QED
    BY <2>1, <2>2, <2>3 DEF ReviewTypeOK, States
<1> QED
  BY ReviewInvHolds, <1>1, PTL

\* A session is a client of the ledger like any other: run_api_review,
\* recovery and crashes only make transactions of provider_call_ledger, so
\* that what is proved of the ledger holds of every session.
THEOREM ReviewImplementsLedger == ReviewSpec => LedgerSpec
<1>1. ReviewInit => LedgerInit
  BY DEF ReviewInit
<1>2. ReviewInv /\ [ReviewNext]_reviewVars => [LedgerNext]_ledgerVars
  BY StepReviewInv
<1> QED
  BY ReviewInvHolds, <1>1, <1>2, PTL DEF ReviewSpec, LedgerSpec

\* Only one of the budgets opened for a session is ever drawn on: a run is
\* given up only before its first call (recover_api_review), and its thread
\* finds the ledger closed.
THEOREM OneBudgetHolds == ReviewSpec => []OneBudgetIsSpent
<1>1. ReviewInv => OneBudgetIsSpent
  <2> SUFFICES ASSUME ReviewInv, NEW c \in Runs, NEW d \in Runs,
                      Reserved(c) # {}, Reserved(d) # {}
               PROVE  c = d
    BY DEF OneBudgetIsSpent
  <2>1. ledger[c].reserved > 0 /\ ledger[d].reserved > 0
    BY SlotsReserved DEF ReviewInv
  <2> QED
    BY <2>1 DEF ReviewInv, SpentOK
<1> QED
  BY ReviewInvHolds, <1>1, PTL

\* The checks of _public_session never fail on what the operations write:
\* reviews stand on answered calls of the present run, and the card that is
\* decided on is of all of them.
THEOREM SessionVerifiesHolds == ReviewSpec => []SessionVerifies
<1>1. ReviewInv => SessionVerifies
  <2> SUFFICES ASSUME ReviewInv PROVE SessionVerifies
    OBVIOUS
  <2>1. RowsOK /\ CardOK /\ reviews \subseteq ReviewRows
    BY DEF ReviewInv, ReviewTypes
  <2>2. ASSUME NEW x \in reviews
        PROVE  /\ HasRun /\ x.request = run.request
               /\ attempt[x.request][x.slot].status = "RESPONDED"
               /\ \A y \in reviews : y.slot = x.slot => y = x
    BY <2>1 DEF RowsOK, ReviewRows
  <2>3. card # NoCard => card.reviews = reviews
    BY <2>1 DEF CardOK
  <2>4. run.status = "COMPLETED" =>
           {x.index : x \in reviews} = 1 .. Expected /\ run.completed = Expected
    BY <2>1 DEF CardOK, Complete
  <2>5. state \in {"READY_FOR_DECISION", "FROZEN"} =>
           card.ready /\ run.id = card.run /\ run.status = "COMPLETED"
    BY <2>1 DEF CardOK, NoCard
  <2>6. state = "FROZEN" => card.frozen
    BY <2>1 DEF CardOK
  <2> QED
    BY <2>2, <2>3, <2>4, <2>5, <2>6 DEF SessionVerifies
<1> QED
  BY ReviewInvHolds, <1>1, PTL


-----------------------------------------------------------------------------
(* Artifacts.                                                               *)

ArtifactTypes == versions \in Seq({"DRAFT", "CONFIRMED"}) /\ evidence \in BOOLEAN

\* Versions are only added: what was confirmed stays confirmed.
LEMMA ArtifactGrows ==
    ASSUME ArtifactTypes, ArtifactNext
    PROVE  /\ ArtifactTypes'
           /\ Version' \in Nat /\ Version \in Nat /\ Version' >= Version
           /\ \A v \in 1 .. Version : versions'[v] = versions[v]
           /\ \A v : IsConfirmed(v) => IsConfirmed(v)'
<1> USE DEF ArtifactTypes, IsConfirmed, Version
<1>1. CASE CreateArtifact
  BY <1>1 DEF CreateArtifact
<1>2. CASE UpdateArtifact
  BY <1>2 DEF UpdateArtifact
<1>3. CASE ConfirmArtifact
  BY <1>3 DEF ConfirmArtifact
<1>4. CASE EvidenceChanges
  BY <1>4 DEF EvidenceChanges
<1> QED
  BY <1>1, <1>2, <1>3, <1>4 DEF ArtifactNext

-----------------------------------------------------------------------------
(* The action desk.                                                         *)

DeskStates == ItemStates \cup {CandidateState}
ItemAsks == [id : RequestIds, kind : {"item"}, on : Items, expected : Nat,
             seen : DeskStates, state : ItemStates]
LinkAsks == [id : RequestIds, kind : {"link"}, on : Items, expected : Nat, target : Items]
ItemEvents == [request : RequestIds, seen : DeskStates, state : ItemStates]
LinkRows == [source : Items, revision : Nat, target : Items, request : RequestIds]

DeskTypes ==
    /\ ArtifactTypes
    /\ sent \subseteq ItemAsks \cup LinkAsks
    /\ item \in [Items -> Seq(ItemEvents)]
    /\ links \subseteq LinkRows
    /\ answered \subseteq sent \X Nat

\* A client_request_id stands on one event and on one continuation at most.
IdsAreSpent ==
    \A q \in RequestIds : /\ \A p, s \in EventsWith(q) : p = s
                          /\ \A l, k \in LinksWith(q) : l = k

\* A request saw what is still recorded at the revision it names.
SeenIsRecorded ==
    \A m \in sent : m.kind = "item" =>
        /\ m.expected <= Revision(m.on)
        /\ m.seen = IF m.expected = 0 THEN CandidateState ELSE item[m.on][m.expected].state

DeskInv ==
    /\ DeskTypes
    /\ IdsAreSpent
    /\ SeenIsRecorded
    /\ AnswersStand
    /\ NoUpdateIsLost
    /\ DeskVerifies

\* An event of a request is at an item and a revision of it.
LEMMA EventsAre ==
    ASSUME NEW q
    PROVE  /\ \A p \in EventsWith(q) : /\ p = <<p[1], p[2]>> /\ p[1] \in Items
                                       /\ p[2] \in 1 .. Revision(p[1])
                                       /\ item[p[1]][p[2]].request = q
           /\ \A i \in Items : \A k \in 1 .. Revision(i) :
                 item[i][k].request = q => <<i, k>> \in EventsWith(q)
BY DEF EventsWith

\* The kinds of request.
LEMMA AskKinds ==
    ASSUME DeskTypes, NEW m \in sent
    PROVE  /\ m.kind = "item" => m \in ItemAsks
           /\ m.kind = "link" => m \in LinkAsks
           /\ m.on \in Items /\ m.id \in RequestIds /\ m.expected \in Nat
BY DEF DeskTypes, ItemAsks, LinkAsks

\* The last event of an item.
LEMMA StateIsTyped ==
    ASSUME DeskTypes, NEW i \in Items
    PROVE  /\ Revision(i) \in Nat /\ item[i] \in Seq(ItemEvents)
           /\ Revision(i) = 0 <=> item[i] = <<>>
           /\ StateOf(i) \in DeskStates
           /\ StateOf(i) = IF Revision(i) = 0 THEN CandidateState ELSE item[i][Revision(i)].state
<1>1. item[i] \in Seq(ItemEvents)
  BY DEF DeskTypes
<1>2. Revision(i) \in Nat /\ (Revision(i) = 0 <=> item[i] = <<>>)
  BY <1>1 DEF Revision
<1>3. StateOf(i) = IF Revision(i) = 0 THEN CandidateState ELSE item[i][Revision(i)].state
  BY <1>2 DEF StateOf
<1>4. Revision(i) # 0 => item[i][Revision(i)] \in ItemEvents
  BY <1>1, <1>2 DEF Revision
<1>5. StateOf(i) \in DeskStates
  BY <1>3, <1>4 DEF DeskStates, ItemEvents
<1> QED
  BY <1>1, <1>2, <1>3, <1>5

\* The artifact moves, the desk does not.
LEMMA DeskArtifactInv ==
    ASSUME DeskInv, ArtifactNext, UNCHANGED <<sent, item, links, answered>>
    PROVE  DeskInv'
<1>1. /\ ArtifactTypes' /\ \A v : IsConfirmed(v) => IsConfirmed(v)'
  BY ArtifactGrows DEF DeskInv, DeskTypes
<1>2. /\ \A i : Revision(i)' = Revision(i) /\ \A q : EventsWith(q)' = EventsWith(q)
      /\ \A q : LinksWith(q)' = LinksWith(q)
  BY DEF Revision, EventsWith, LinksWith
<1>3. DeskTypes'
  BY <1>1 DEF DeskInv, DeskTypes
<1>4. IdsAreSpent' /\ SeenIsRecorded' /\ AnswersStand' /\ NoUpdateIsLost'
  BY <1>2 DEF DeskInv, IdsAreSpent, SeenIsRecorded, AnswersStand, NoUpdateIsLost
<1>5. DeskVerifies'
  BY <1>1, <1>2 DEF DeskInv, DeskVerifies, IsSource, Adopted
<1> QED
  BY <1>3, <1>4, <1>5 DEF DeskInv

\* A client composes a request on what it sees.
LEMMA AskInv ==
    ASSUME DeskInv, NEW q \in RequestIds, NEW i \in Items,
           \/ \E s \in ItemStates : AskTransition(q, i, s)
           \/ \E j \in Items : AskContinuation(q, i, j)
    PROVE  DeskInv'
<1>1. /\ UNCHANGED <<versions, evidence, item, links, answered>> /\ sent \subseteq sent'
  BY DEF AskTransition, AskContinuation, artifactVars
<1>2. ASSUME NEW m \in sent' \ sent
      PROVE  /\ m \in ItemAsks \cup LinkAsks
             /\ m.kind = "item" => m.expected = Revision(i) /\ m.seen = StateOf(i) /\ m.on = i
  <2>1. CASE \E s \in ItemStates : AskTransition(q, i, s)
    <3>1. PICK s \in ItemStates :
             m = [id |-> q, kind |-> "item", on |-> i, expected |-> Revision(i),
                  seen |-> StateOf(i), state |-> s]
      BY <1>2, <2>1 DEF AskTransition
    <3> QED
      BY <3>1, StateIsTyped DEF ItemAsks, DeskInv
  <2>2. CASE \E j \in Items : AskContinuation(q, i, j)
    <3>1. PICK j \in Items :
             m = [id |-> q, kind |-> "link", on |-> i, expected |-> Revision(i), target |-> j]
      BY <1>2, <2>2 DEF AskContinuation
    <3> QED
      BY <3>1, StateIsTyped DEF LinkAsks, DeskInv
  <2> QED
    BY <2>1, <2>2
<1>3. DeskTypes'
  BY <1>1, <1>2 DEF DeskInv, DeskTypes, ArtifactTypes
<1>4. /\ \A j : Revision(j)' = Revision(j) /\ \A r : EventsWith(r)' = EventsWith(r)
      /\ \A r : LinksWith(r)' = LinksWith(r) /\ \A v : IsConfirmed(v)' = IsConfirmed(v)
  BY <1>1 DEF Revision, EventsWith, LinksWith, IsConfirmed, Version
<1>5. IdsAreSpent' /\ AnswersStand' /\ NoUpdateIsLost'
  BY <1>1, <1>4 DEF DeskInv, IdsAreSpent, AnswersStand, NoUpdateIsLost
<1>6. DeskVerifies'
  BY <1>1, <1>4 DEF DeskInv, DeskVerifies, IsSource, Adopted
<1>7. SeenIsRecorded'
  <2> SUFFICES ASSUME NEW m \in sent', m.kind = "item"
               PROVE  /\ m.expected <= Revision(m.on)
                      /\ m.seen = IF m.expected = 0 THEN CandidateState
                                  ELSE item[m.on][m.expected].state
    BY <1>1, <1>4 DEF SeenIsRecorded
  <2>1. CASE m \in sent
    BY <2>1 DEF DeskInv, SeenIsRecorded
  <2>2. CASE m \notin sent
    BY <1>2, <2>2, StateIsTyped DEF DeskInv
  <2> QED
    BY <2>1, <2>2
<1> QED
  BY <1>3, <1>5, <1>6, <1>7 DEF DeskInv

Recorded(i, e) == item' = [item EXCEPT ![i] = Append(@, e)]

\* Recording an event adds it after those that were there.
LEMMA AppendsEvent ==
    ASSUME DeskInv, NEW i \in Items, NEW e \in ItemEvents,
           Recorded(i, e)
    PROVE  /\ item' \in [Items -> Seq(ItemEvents)]
           /\ Revision(i)' = Revision(i) + 1 /\ item'[i][Revision(i) + 1] = e
           /\ \A j \in Items : j # i => item'[j] = item[j] /\ Revision(j)' = Revision(j)
           /\ \A j \in Items : \A k \in 1 .. Revision(j) : item'[j][k] = item[j][k]
           /\ \A q : EventsWith(q)' = EventsWith(q) \cup
                        (IF q = e.request THEN {<<i, Revision(i) + 1>>} ELSE {})
<1> DEFINE n == Revision(i) + 1
<1>0. DeskTypes
  BY DEF DeskInv
<1>1. item[i] \in Seq(ItemEvents) /\ Revision(i) \in Nat
  BY <1>0, StateIsTyped
<1>2. item'[i] = Append(item[i], e) /\ \A j \in Items : j # i => item'[j] = item[j]
  BY <1>0 DEF DeskTypes, Recorded
<1>3. item' \in [Items -> Seq(ItemEvents)]
  BY <1>0, <1>1 DEF DeskTypes, Recorded
<1>4. Revision(i)' = n /\ item'[i][n] = e /\ \A k \in 1 .. Revision(i) : item'[i][k] = item[i][k]
  BY <1>1, <1>2 DEF Revision
<1>5. \A j \in Items : j # i => item'[j] = item[j] /\ Revision(j)' = Revision(j)
  BY <1>2 DEF Revision
<1>6. \A j \in Items : \A k \in 1 .. Revision(j) : item'[j][k] = item[j][k]
  BY <1>4, <1>5
<1>7. \A j \in Items : Revision(j) \in Nat
  BY <1>0, StateIsTyped
<1> HIDE DEF n
<1>8. ASSUME NEW q
      PROVE  EventsWith(q)' = EventsWith(q) \cup (IF q = e.request THEN {<<i, n>>} ELSE {})
  <2>1. ASSUME NEW j \in Items
        PROVE  {k \in 1 .. Revision(j)' : item'[j][k].request = q}
                  = {k \in 1 .. Revision(j) : item[j][k].request = q}
                       \cup (IF j = i /\ q = e.request THEN {n} ELSE {})
    <3>1. CASE j # i
      BY <1>5, <2>1, <3>1
    <3>2. CASE j = i
      <4>1. \A k : k \in 1 .. Revision(i)' <=> k \in 1 .. Revision(i) \/ k = n
        BY <1>1, <1>4 DEF n
      <4> QED
        BY <1>4, <3>2, <4>1
    <3> QED
      BY <3>1, <3>2
  <2> DEFINE K(j) == {k \in 1 .. Revision(j) : item[j][k].request = q}
             L(j) == {k \in 1 .. Revision(j)' : item'[j][k].request = q}
  <2>2. EventsWith(q) = UNION {{j} \X K(j) : j \in Items}
    BY DEF EventsWith
  <2>3. EventsWith(q)' = UNION {{j} \X L(j) : j \in Items}
    BY DEF EventsWith
  <2>4. \A j \in Items : L(j) = K(j) \cup (IF j = i /\ q = e.request THEN {n} ELSE {})
    BY <2>1
  <2> HIDE DEF K, L
  <2>5. \A p : p \in EventsWith(q) <=> \E j \in Items : \E k \in K(j) : p = <<j, k>>
    BY <2>2
  <2>6. \A p : p \in EventsWith(q)' <=> \E j \in Items : \E k \in L(j) : p = <<j, k>>
    BY <2>3
  <2>7. \A p : p \in EventsWith(q)' <=> p \in EventsWith(q) \/ (q = e.request /\ p = <<i, n>>)
    BY <2>4, <2>5, <2>6
  <2> QED
    BY <2>7
<1> QED
  BY <1>3, <1>4, <1>5, <1>6, <1>8 DEF n

\* A request for a new event is recorded once, or found and answered again.
LEMMA TransitionInv ==
    ASSUME DeskInv, NEW m \in sent, HandleTransition(m)
    PROVE  DeskInv'
<1>0. /\ DeskTypes /\ m \in ItemAsks /\ m.on \in Items /\ m.id \in RequestIds
      /\ m.kind = "item" /\ UNCHANGED <<versions, evidence, sent, links>>
  BY AskKinds DEF DeskInv, HandleTransition, artifactVars
<1>1. ASSUME NEW p \in EventsWith(m.id), SameRequest(m, p),
             answered' = answered \cup {<<m, p[2]>>}, UNCHANGED item
      PROVE  DeskInv'
  <2>1. /\ p = <<m.on, p[2]>> /\ p[2] \in 1 .. Revision(m.on)
        /\ item[m.on][p[2]].state = m.state
    BY <1>1, EventsAre DEF SameRequest
  <2>2. EventsWith(m.id) = {<<m.on, p[2]>>}
    BY <1>0, <1>1, <2>1 DEF DeskInv, IdsAreSpent
  <2>3. Revision(m.on) \in Nat
    BY <1>0, StateIsTyped
  <2>4. /\ \A j : Revision(j)' = Revision(j) /\ \A r : EventsWith(r)' = EventsWith(r)
        /\ \A r : LinksWith(r)' = LinksWith(r) /\ \A v : IsConfirmed(v)' = IsConfirmed(v)
    BY <1>0, <1>1 DEF Revision, EventsWith, LinksWith, IsConfirmed, Version
  <2>5. DeskTypes'
    BY <1>0, <1>1, <2>1, <2>3 DEF DeskTypes, ArtifactTypes
  <2>6. IdsAreSpent' /\ NoUpdateIsLost' /\ SeenIsRecorded' /\ DeskVerifies'
    BY <1>0, <1>1, <2>4
    DEF DeskInv, IdsAreSpent, NoUpdateIsLost, SeenIsRecorded, DeskVerifies, IsSource, Adopted
  <2>7. AnswersStand'
    <3> SUFFICES ASSUME NEW a \in answered'
                 PROVE  IF a[1].kind = "item"
                        THEN /\ a[2] \in 1 .. Revision(a[1].on)
                             /\ item[a[1].on][a[2]].state = a[1].state
                             /\ EventsWith(a[1].id) = {<<a[1].on, a[2]>>}
                        ELSE \E l \in links :
                                /\ l.source = a[1].on /\ l.target = a[1].target
                                /\ l.revision = a[2] /\ LinksWith(a[1].id) = {l}
      BY <1>0, <1>1, <2>4 DEF AnswersStand
    <3>1. CASE a \in answered
      BY <3>1 DEF DeskInv, AnswersStand
    <3>2. CASE a = <<m, p[2]>>
      BY <1>0, <2>1, <2>2, <3>2
    <3> QED
      BY <1>1, <3>1, <3>2
  <2> QED
    BY <2>5, <2>6, <2>7 DEF DeskInv
<1>2. ASSUME EventsWith(m.id) = {}, IsSource(m.on), m.expected = Revision(m.on),
             item' = [item EXCEPT ![m.on] = Append(@,
                 [request |-> m.id, seen |-> m.seen, state |-> m.state])],
             answered' = answered \cup {<<m, Revision(m.on) + 1>>}
      PROVE  DeskInv'
  <2> DEFINE e == [request |-> m.id, seen |-> m.seen, state |-> m.state]
             n == Revision(m.on) + 1
  <2>1. e \in ItemEvents /\ e.request = m.id /\ e.seen = m.seen /\ e.state = m.state
    BY <1>0 DEF ItemAsks, ItemEvents
  <2>2. Recorded(m.on, e)
    BY <1>2 DEF Recorded
  <2>3. Revision(m.on) \in Nat /\ n \in Nat
    BY <1>0, StateIsTyped
  <2> HIDE DEF e
  <2>4. /\ item' \in [Items -> Seq(ItemEvents)]
        /\ Revision(m.on)' = n /\ item'[m.on][n] = e
        /\ \A j \in Items : j # m.on => item'[j] = item[j] /\ Revision(j)' = Revision(j)
        /\ \A j \in Items : \A k \in 1 .. Revision(j) : item'[j][k] = item[j][k]
        /\ \A q : q # m.id => EventsWith(q)' = EventsWith(q)
        /\ EventsWith(m.id)' = {<<m.on, n>>}
    <3>1. /\ item' \in [Items -> Seq(ItemEvents)]
          /\ Revision(m.on)' = n /\ item'[m.on][n] = e
          /\ \A j \in Items : j # m.on => item'[j] = item[j] /\ Revision(j)' = Revision(j)
          /\ \A j \in Items : \A k \in 1 .. Revision(j) : item'[j][k] = item[j][k]
          /\ \A q : EventsWith(q)' = EventsWith(q) \cup
                       (IF q = e.request THEN {<<m.on, Revision(m.on) + 1>>} ELSE {})
      BY <1>0, <2>1, <2>2, AppendsEvent
    <3>2. \A q : EventsWith(q)' = EventsWith(q) \cup (IF q = m.id THEN {<<m.on, n>>} ELSE {})
      BY <2>1, <3>1
    <3>3. ASSUME NEW q, q # m.id
          PROVE  EventsWith(q)' = EventsWith(q)
      BY <3>2, <3>3
    <3>4. EventsWith(m.id)' = {<<m.on, n>>}
      <4>1. EventsWith(m.id)' = EventsWith(m.id) \cup (IF m.id = m.id THEN {<<m.on, n>>} ELSE {})
        BY <3>2
      <4> QED
        BY <1>2, <4>1
    <3> QED
      BY <3>1, <3>3, <3>4
  <2>5. \A r : LinksWith(r)' = LinksWith(r)
    BY <1>0 DEF LinksWith
  <2>6. \A v : IsConfirmed(v)' = IsConfirmed(v)
    BY <1>0 DEF IsConfirmed, Version
  <2>7. \A j \in Items : Revision(j) \in Nat /\ Revision(j)' \in Nat /\ Revision(j)' >= Revision(j)
    BY <1>0, <2>3, <2>4, StateIsTyped DEF n
  <2>8. DeskTypes'
    <3>1. answered' \subseteq sent' \X Nat
      BY <1>0, <1>2, <2>3 DEF DeskTypes
    <3> QED
      BY <1>0, <2>4, <3>1 DEF DeskTypes, ArtifactTypes
  <2>9. IdsAreSpent'
    <3> SUFFICES ASSUME NEW q \in RequestIds
                 PROVE  /\ \A p, s \in EventsWith(q)' : p = s
                        /\ \A l, k \in LinksWith(q) : l = k
      BY <2>5 DEF IdsAreSpent
    <3>1. CASE q = m.id
      BY <2>4, <3>1 DEF DeskInv, IdsAreSpent
    <3>2. CASE q # m.id
      BY <2>4, <3>2 DEF DeskInv, IdsAreSpent
    <3> QED
      BY <3>1, <3>2
  <2>10. SeenIsRecorded'
    <3> SUFFICES ASSUME NEW x \in sent, x.kind = "item"
                 PROVE  /\ x.expected <= Revision(x.on)'
                        /\ x.seen = IF x.expected = 0 THEN CandidateState
                                    ELSE item'[x.on][x.expected].state
      BY <1>0 DEF SeenIsRecorded
    <3>1. /\ x.on \in Items /\ x.expected \in Nat /\ x.expected <= Revision(x.on)
          /\ x.seen = IF x.expected = 0 THEN CandidateState ELSE item[x.on][x.expected].state
      BY <1>0, AskKinds DEF DeskInv, SeenIsRecorded
    <3>2. x.expected # 0 => x.expected \in 1 .. Revision(x.on)
      BY <2>7, <3>1
    <3> QED
      BY <2>4, <2>7, <3>1, <3>2
  <2>11. NoUpdateIsLost'
    <3> SUFFICES ASSUME NEW i \in Items, NEW k \in 1 .. Revision(i)'
                 PROVE  item'[i][k].seen = IF k = 1 THEN CandidateState ELSE item'[i][k - 1].state
      BY DEF NoUpdateIsLost
    <3>1. CASE k \in 1 .. Revision(i)
      <4>1. k # 1 => k - 1 \in 1 .. Revision(i)
        BY <2>7, <3>1
      <4>2. item[i][k].seen = IF k = 1 THEN CandidateState ELSE item[i][k - 1].state
        BY <3>1 DEF DeskInv, NoUpdateIsLost
      <4> QED
        BY <2>4, <3>1, <4>1, <4>2
    <3>2. CASE k \notin 1 .. Revision(i)
      <4>1. i = m.on /\ k = n
        BY <2>3, <2>4, <2>7, <3>2 DEF n
      <4>2. m.seen = IF Revision(m.on) = 0 THEN CandidateState ELSE item[m.on][Revision(m.on)].state
        BY <1>0, <1>2 DEF DeskInv, SeenIsRecorded
      <4>3. Revision(m.on) # 0 => /\ Revision(m.on) \in 1 .. Revision(m.on) /\ n # 1
                                  /\ n - 1 = Revision(m.on)
        BY <2>3 DEF n
      <4>4. Revision(m.on) = 0 => n = 1
        BY DEF n
      <4> QED
        BY <2>1, <2>4, <4>1, <4>2, <4>3, <4>4
    <3> QED
      BY <3>1, <3>2
  <2>12. DeskVerifies'
    <3>1. \A i \in Items : Adopted(i)' => Adopted(i) \/ i = m.on
      BY <2>4 DEF Adopted
    <3>2. \A l \in links : l.revision \in 1 .. Revision(l.source) => l.revision \in 1 .. Revision(l.source)'
      BY <1>0, <2>7 DEF DeskTypes, LinkRows
    <3> QED
      BY <1>0, <1>2, <2>6, <3>1, <3>2 DEF DeskInv, DeskVerifies, IsSource
  <2>13. AnswersStand'
    <3> SUFFICES ASSUME NEW a \in answered'
                 PROVE  IF a[1].kind = "item"
                        THEN /\ a[2] \in 1 .. Revision(a[1].on)'
                             /\ item'[a[1].on][a[2]].state = a[1].state
                             /\ EventsWith(a[1].id)' = {<<a[1].on, a[2]>>}
                        ELSE \E l \in links :
                                /\ l.source = a[1].on /\ l.target = a[1].target
                                /\ l.revision = a[2] /\ LinksWith(a[1].id) = {l}
      BY <1>0, <2>5 DEF AnswersStand
    <3>1. CASE a \in answered
      <4>1. a[1].on \in Items
        BY <1>0, <3>1, AskKinds DEF DeskTypes
      <4>2. a[1].kind = "item" => a[1].id # m.id
        BY <1>2, <3>1 DEF DeskInv, AnswersStand
      <4>3. CASE a[1].kind = "item"
        <5>1. /\ a[2] \in 1 .. Revision(a[1].on)
              /\ item[a[1].on][a[2]].state = a[1].state
              /\ EventsWith(a[1].id) = {<<a[1].on, a[2]>>}
          BY <3>1, <4>3 DEF DeskInv, AnswersStand
        <5>2. EventsWith(a[1].id)' = EventsWith(a[1].id)
          BY <2>4, <4>2, <4>3
        <5>3. a[2] \in 1 .. Revision(a[1].on)'
          BY <2>7, <4>1, <5>1
        <5>4. item'[a[1].on][a[2]] = item[a[1].on][a[2]]
          BY <2>4, <4>1, <5>1
        <5> QED
          BY <4>3, <5>1, <5>2, <5>3, <5>4
      <4>4. CASE a[1].kind # "item"
        BY <3>1, <4>4 DEF DeskInv, AnswersStand
      <4> QED
        BY <4>3, <4>4
    <3>2. CASE a = <<m, n>>
      <4>1. n \in 1 .. n
        BY <2>3 DEF n
      <4> QED
        BY <1>0, <2>1, <2>4, <3>2, <4>1
    <3> QED
      BY <1>2, <3>1, <3>2 DEF n
  <2> QED
    BY <2>8, <2>9, <2>10, <2>11, <2>12, <2>13 DEF DeskInv
<1> QED
  BY <1>1, <1>2 DEF HandleTransition

\* A continuation is recorded once, or found and answered again.
LEMMA ContinuationInv ==
    ASSUME DeskInv, NEW m \in sent, HandleContinuation(m)
    PROVE  DeskInv'
<1> DEFINE row == [source |-> m.on, revision |-> m.expected, target |-> m.target, request |-> m.id]
<1>0. /\ DeskTypes /\ m \in LinkAsks /\ m.on \in Items /\ m.id \in RequestIds
      /\ m.kind = "link" /\ m.expected \in Nat /\ m.target \in Items
      /\ UNCHANGED <<versions, evidence, sent, item>>
      /\ answered' = answered \cup {<<m, m.expected>>}
  BY AskKinds DEF DeskInv, HandleContinuation, artifactVars, LinkAsks
<1>1. /\ \A i : Revision(i)' = Revision(i) /\ \A q : EventsWith(q)' = EventsWith(q)
      /\ \A v : IsConfirmed(v)' = IsConfirmed(v)
  BY <1>0 DEF Revision, EventsWith, IsConfirmed, Version
<1>2. /\ row \in LinkRows /\ row.source = m.on /\ row.revision = m.expected
      /\ row.target = m.target /\ row.request = m.id
  BY <1>0 DEF LinkRows
<1>3. /\ links' = links \cup {row}
      /\ \A l \in LinksWith(m.id) : l = row
      /\ row \notin links =>
            /\ LinksWith(m.id) = {}
            /\ IsSource(m.on) /\ IsSource(m.target) /\ VersionOf(m.on) < VersionOf(m.target)
            /\ Adopted(m.on) /\ m.expected = Revision(m.on)
            /\ \A l \in links : l.source # m.on /\ l.target # m.target
  <2>1. ASSUME NEW l \in LinksWith(m.id), l = row, UNCHANGED links
        PROVE  row \in links /\ links' = links \cup {row} /\ \A k \in LinksWith(m.id) : k = row
    <3>1. row \in links
      BY <2>1 DEF LinksWith
    <3>2. \A k \in LinksWith(m.id) : k = row
      BY <1>0, <2>1 DEF DeskInv, IdsAreSpent
    <3> HIDE DEF row
    <3> QED
      BY <2>1, <3>1, <3>2
  <2>2. \/ \E l \in LinksWith(m.id) : l = row /\ UNCHANGED links
        \/ /\ LinksWith(m.id) = {} /\ links' = links \cup {row}
           /\ IsSource(m.on) /\ IsSource(m.target) /\ VersionOf(m.on) < VersionOf(m.target)
           /\ Adopted(m.on) /\ m.expected = Revision(m.on)
           /\ \A l \in links : l.source # m.on /\ l.target # m.target
    BY DEF HandleContinuation
  <2> HIDE DEF row
  <2> QED
    BY <2>1, <2>2
<1> HIDE DEF row
<1>4. /\ LinksWith(m.id)' = {row}
      /\ \A q : q # m.id => LinksWith(q)' = LinksWith(q)
  BY <1>2, <1>3 DEF LinksWith
<1>5. DeskTypes'
  BY <1>0, <1>2, <1>3 DEF DeskTypes, ArtifactTypes
<1>6. SeenIsRecorded' /\ NoUpdateIsLost'
  BY <1>0, <1>1 DEF DeskInv, SeenIsRecorded, NoUpdateIsLost
<1>7. IdsAreSpent'
  <2> SUFFICES ASSUME NEW q \in RequestIds
               PROVE  /\ \A p, s \in EventsWith(q) : p = s
                      /\ \A l, k \in LinksWith(q)' : l = k
    BY <1>1 DEF IdsAreSpent
  <2>1. CASE q = m.id
    BY <1>4, <2>1 DEF DeskInv, IdsAreSpent
  <2>2. CASE q # m.id
    BY <1>4, <2>2 DEF DeskInv, IdsAreSpent
  <2> QED
    BY <2>1, <2>2
<1>8. AnswersStand'
  <2> SUFFICES ASSUME NEW a \in answered'
               PROVE  IF a[1].kind = "item"
                      THEN /\ a[2] \in 1 .. Revision(a[1].on)
                           /\ item[a[1].on][a[2]].state = a[1].state
                           /\ EventsWith(a[1].id) = {<<a[1].on, a[2]>>}
                      ELSE \E l \in links' :
                              /\ l.source = a[1].on /\ l.target = a[1].target
                              /\ l.revision = a[2] /\ LinksWith(a[1].id)' = {l}
    BY <1>0, <1>1 DEF AnswersStand
  <2>1. ASSUME a \in answered, a[1].kind # "item"
        PROVE  \E l \in links' :
                  /\ l.source = a[1].on /\ l.target = a[1].target
                  /\ l.revision = a[2] /\ LinksWith(a[1].id)' = {l}
    <3>1. PICK l \in links : /\ l.source = a[1].on /\ l.target = a[1].target
                             /\ l.revision = a[2] /\ LinksWith(a[1].id) = {l}
      BY <2>1 DEF DeskInv, AnswersStand
    <3>2. LinksWith(a[1].id)' = {l}
      <4>1. CASE a[1].id = m.id
        BY <1>3, <1>4, <3>1, <4>1
      <4>2. CASE a[1].id # m.id
        BY <1>4, <3>1, <4>2
      <4> QED
        BY <4>1, <4>2
    <3> QED
      BY <1>3, <3>1, <3>2
  <2>2. CASE a \in answered /\ a[1].kind = "item"
    BY <2>2 DEF DeskInv, AnswersStand
  <2>3. CASE a = <<m, m.expected>>
    BY <1>0, <1>2, <1>3, <1>4, <2>3
  <2> QED
    BY <1>0, <2>1, <2>2, <2>3
<1>9. DeskVerifies'
  <2>1. CASE row \in links
    <3>1. links' = links
      BY <1>3, <2>1
    <3> QED
      BY <1>0, <1>1, <3>1 DEF DeskInv, DeskVerifies, IsSource, Adopted
  <2>2. CASE row \notin links
    <3>1. m.expected \in 1 .. Revision(m.on)
      BY <1>0, <1>3, <2>2, StateIsTyped DEF Adopted
    <3>2. \A i \in Items : Adopted(i)' => IsSource(i)'
      BY <1>0, <1>1 DEF DeskInv, DeskVerifies, IsSource, Adopted
    <3> SUFFICES ASSUME NEW l \in links'
                 PROVE  /\ l.revision \in 1 .. Revision(l.source)
                        /\ IsSource(l.source) /\ IsSource(l.target)
                        /\ VersionOf(l.source) < VersionOf(l.target)
                        /\ \A k \in links' : k.source = l.source \/ k.target = l.target => k = l
      BY <1>1, <3>2 DEF DeskVerifies, IsSource
    <3>3. CASE l = row
      BY <1>2, <1>3, <2>2, <3>1, <3>3
    <3>4. CASE l \in links
      <4>1. l.source # m.on /\ l.target # m.target
        BY <1>3, <2>2, <3>4
      <4> QED
        BY <1>2, <1>3, <3>4, <4>1 DEF DeskInv, DeskVerifies
    <3> QED
      BY <1>3, <3>3, <3>4
  <2> QED
    BY <2>1, <2>2
<1> QED
  BY <1>5, <1>6, <1>7, <1>8, <1>9 DEF DeskInv

\* A desk with nothing on it.
LEMMA DeskInitInv == DeskInit => DeskInv
<1> SUFFICES ASSUME DeskInit PROVE DeskInv
  OBVIOUS
<1>1. \A i \in Items : item[i] = <<>> /\ Revision(i) = 0
  BY DEF DeskInit, Revision
<1>2. \A q : EventsWith(q) = {} /\ LinksWith(q) = {}
  <2>1. ASSUME NEW q PROVE EventsWith(q) = {}
    BY <1>1, EventsAre
  <2> QED
    BY <2>1 DEF LinksWith, DeskInit
<1>3. DeskTypes
  <2>1. item \in [Items -> Seq(ItemEvents)]
    <3>1. <<>> \in Seq(ItemEvents)
      OBVIOUS
    <3> QED
      BY <3>1 DEF DeskInit
  <2>2. versions \in Seq({"DRAFT", "CONFIRMED"}) /\ evidence \in BOOLEAN
    <3>1. versions = <<>> /\ evidence = FALSE
      BY DEF DeskInit, ArtifactInit
    <3>2. <<>> \in Seq({"DRAFT", "CONFIRMED"})
      OBVIOUS
    <3> QED
      BY <3>1, <3>2
  <2>3. sent = {} /\ links = {} /\ answered = {}
    BY DEF DeskInit
  <2> QED
    BY <2>1, <2>2, <2>3 DEF DeskTypes, ArtifactTypes
<1>4. IdsAreSpent /\ SeenIsRecorded /\ AnswersStand
  BY <1>2 DEF DeskInit, IdsAreSpent, SeenIsRecorded, AnswersStand
<1>5. NoUpdateIsLost /\ DeskVerifies
  BY <1>1 DEF DeskInit, NoUpdateIsLost, DeskVerifies, Adopted
<1> QED
  BY <1>3, <1>4, <1>5 DEF DeskInv

\* Every request, delivery and edit of the artifact keeps it.
LEMMA DeskNextInv == DeskInv /\ [DeskNext]_deskVars => DeskInv'
<1> SUFFICES ASSUME DeskInv, [DeskNext]_deskVars PROVE DeskInv'
  OBVIOUS
<1>1. CASE UNCHANGED deskVars
  <2>1. /\ \A j : Revision(j)' = Revision(j) /\ \A r : EventsWith(r)' = EventsWith(r)
        /\ \A r : LinksWith(r)' = LinksWith(r) /\ \A v : IsConfirmed(v)' = IsConfirmed(v)
    BY <1>1 DEF deskVars, Revision, EventsWith, LinksWith, IsConfirmed, Version
  <2>2. DeskTypes' /\ IdsAreSpent' /\ SeenIsRecorded'
    BY <1>1, <2>1 DEF deskVars, DeskInv, DeskTypes, ArtifactTypes, IdsAreSpent, SeenIsRecorded
  <2>3. AnswersStand' /\ NoUpdateIsLost'
    BY <1>1, <2>1 DEF deskVars, DeskInv, AnswersStand, NoUpdateIsLost
  <2>4. DeskVerifies'
    BY <1>1, <2>1 DEF deskVars, DeskInv, DeskVerifies, IsSource, Adopted
  <2> QED
    BY <2>2, <2>3, <2>4 DEF DeskInv
<1>2. CASE DeskNext
  BY <1>2, DeskArtifactInv, AskInv, TransitionInv, ContinuationInv DEF DeskNext
<1> QED
  BY <1>1, <1>2

\* The desk, its requests and its answers.
THEOREM DeskInvHolds == DeskSpec => []DeskInv
BY DeskInitInv, DeskNextInv, PTL DEF DeskSpec

\* What a client was told is recorded stands at that revision for ever, for
\* any number of clients, requests and repeated or late deliveries.
THEOREM AnswersStandForEver == DeskSpec => []AnswersStand
<1>1. DeskInv => AnswersStand
  BY DEF DeskInv
<1> QED
  BY <1>1, DeskInvHolds, PTL

\* Every event was decided on the state that the event before it left.
THEOREM NoDeskUpdateIsLost == DeskSpec => []NoUpdateIsLost
<1>1. DeskInv => NoUpdateIsLost
  BY DEF DeskInv
<1> QED
  BY <1>1, DeskInvHolds, PTL

\* What readers verify before they show the desk never fails.
THEOREM DeskAlwaysVerifies == DeskSpec => []DeskVerifies
<1>1. DeskInv => DeskVerifies
  BY DEF DeskInv
<1> QED
  BY <1>1, DeskInvHolds, PTL

-----------------------------------------------------------------------------
(* Decisions and lineage.                                                   *)

DecisionRows == [version : Nat, action : Actions, rationale : Rationales]
EventStates == ObservationStates \cup {"DRAFT", "CONFIRMED", "STRATEGY", "COMPLETED"}
LineageEvents == [relation : Relations, resource : Resources, state : EventStates,
                  of : Resources, plan : Nat]
PortfolioRows == [version : Nat, status : {"none", "DRAFT", "CONFIRMED"}]
ObservationRows == [status : ObservationStates \cup {"none"}, by : {"ai", "user", "none"},
                    artifact : Nat]
ReplayRows == [decision : Nat, plan : PortfolioRows, of : Portfolios, head : Nat,
               strategy : BOOLEAN]

DecisionTypes ==
    /\ ArtifactTypes
    /\ decisions \in Seq(DecisionRows) /\ Len(decisions) <= MaxDecisions
    /\ chain \in [1 .. MaxDecisions -> Seq(LineageEvents)]
    /\ bound \in [Resources -> 0 .. Len(decisions)]
    /\ portfolio \in [Portfolios -> PortfolioRows]
    /\ observation \in [Observations -> ObservationRows]
    /\ replay \in [Replays -> ReplayRows \cup {NoReplay}]

\* Every event is of a kind its resource can have, and the last one exists.
EventsFit ==
    \A d \in 1 .. MaxDecisions : \A r \in Resources :
        /\ \A i \in EventsOf(r, d) :
              /\ r \in Portfolios => chain[d][i].state \in {"DRAFT", "CONFIRMED"}
              /\ r \in Observations => chain[d][i].state \in ObservationStates
        /\ EventsOf(r, d) # {} =>
              \E i \in EventsOf(r, d) : \A j \in EventsOf(r, d) : j <= i

\* A resource is bound by its first event.
BoundHasEvents == \A r \in Resources : bound[r] # 0 => EventsOf(r, bound[r]) # {}

DecisionInv ==
    /\ DecisionTypes
    /\ EventsFit
    /\ BoundHasEvents
    /\ RowsMatchLineage
    /\ ValidationsFollowConfirmation

LineageGrows(d, e) ==
    /\ chain' = [chain EXCEPT ![d] = Append(@, e)]
    /\ bound' = [bound EXCEPT ![e.resource] = d]

LastOf(r, d, i) == i \in EventsOf(r, d) /\ \A j \in EventsOf(r, d) : j <= i

\* The places of the events of a resource in a chain.
LEMMA EventPlaces ==
    ASSUME DecisionTypes, NEW d \in 1 .. MaxDecisions, NEW r
    PROVE  /\ chain[d] \in Seq(LineageEvents) /\ Len(chain[d]) \in Nat
           /\ EventsOf(r, d) \subseteq 1 .. Len(chain[d])
           /\ \A i : i \in EventsOf(r, d) <=> i \in 1 .. Len(chain[d]) /\ chain[d][i].resource = r
BY DEF DecisionTypes, EventsOf

\* The last event is the one after which there is no other.
LEMMA LastIs ==
    ASSUME DecisionTypes, NEW d \in 1 .. MaxDecisions, NEW r, NEW i, LastOf(r, d, i)
    PROVE  LastEventOf(r, d) = i
<1>1. \A j \in EventsOf(r, d) : j \in Nat
  BY EventPlaces
<1>2. \A j : j \in EventsOf(r, d) /\ (\A k \in EventsOf(r, d) : k <= j) => j = i
  BY <1>1 DEF LastOf
<1>3. \E j : j \in EventsOf(r, d) /\ \A k \in EventsOf(r, d) : k <= j
  BY DEF LastOf
<1> QED
  BY <1>2, <1>3 DEF LastEventOf

\* A resource that has events in a chain has a last one there, and is bound to
\* that decision and no other.
LEMMA LastExists ==
    ASSUME DecisionInv, NEW d \in 1 .. MaxDecisions, NEW r \in Resources, EventsOf(r, d) # {}
    PROVE  LastOf(r, d, LastEventOf(r, d)) /\ bound[r] = d
<1>1. PICK i \in EventsOf(r, d) : \A j \in EventsOf(r, d) : j <= i
  BY DEF DecisionInv, EventsFit
<1>2. LastOf(r, d, i) /\ LastEventOf(r, d) = i
  BY <1>1, LastIs DEF LastOf, DecisionInv
<1>3. bound[r] = d
  <2>1. d \in DOMAIN chain
    BY DEF DecisionInv, DecisionTypes
  <2> QED
    BY <2>1 DEF DecisionInv, RowsMatchLineage
<1> QED
  BY <1>2, <1>3

\* A decision that something is bound to was taken.
LEMMA BoundIsTaken ==
    ASSUME DecisionInv, NEW r \in Resources
    PROVE  /\ bound[r] \in 0 .. Len(decisions) /\ Len(decisions) \in Nat
           /\ bound[r] # 0 => /\ bound[r] \in DOMAIN decisions /\ bound[r] \in 1 .. MaxDecisions
                              /\ EventsOf(r, bound[r]) # {}
<1>1. /\ bound[r] \in 0 .. Len(decisions) /\ decisions \in Seq(DecisionRows)
      /\ Len(decisions) <= MaxDecisions /\ MaxDecisions \in Nat
  BY DecisionAssumption DEF DecisionInv, DecisionTypes
<1>2. bound[r] # 0 => EventsOf(r, bound[r]) # {}
  BY DEF DecisionInv, BoundHasEvents
<1> QED
  BY <1>1, <1>2

\* What recording an event leaves of the chains.
LEMMA GrownChains ==
    ASSUME DecisionInv, NEW d \in DOMAIN decisions, NEW e \in LineageEvents,
           bound[e.resource] \in {0, d}, LineageGrows(d, e)
    PROVE  /\ d \in 1 .. MaxDecisions /\ e.resource \in Resources
           /\ chain' \in [1 .. MaxDecisions -> Seq(LineageEvents)]
           /\ bound' \in [Resources -> 0 .. Len(decisions)]
           /\ bound'[e.resource] = d
           /\ \A r \in Resources : r # e.resource => bound'[r] = bound[r]
           /\ Len(chain[d]) \in Nat /\ Len(chain'[d]) = Len(chain[d]) + 1
           /\ chain'[d][Len(chain[d]) + 1] = e
           /\ \A k \in 1 .. Len(chain[d]) : chain'[d][k] = chain[d][k]
           /\ \A c \in 1 .. MaxDecisions : c # d => chain'[c] = chain[c]
<1>1. decisions \in Seq(DecisionRows) /\ Len(decisions) <= MaxDecisions /\ MaxDecisions \in Nat
  BY DecisionAssumption DEF DecisionInv, DecisionTypes
<1>2. d \in 1 .. MaxDecisions /\ d \in 0 .. Len(decisions)
  BY <1>1
<1>3. e.resource \in Resources
  BY DEF LineageEvents
<1>4. chain[d] \in Seq(LineageEvents) /\ Len(chain[d]) \in Nat
  BY <1>2, EventPlaces DEF DecisionInv
<1>5. chain \in [1 .. MaxDecisions -> Seq(LineageEvents)] /\ bound \in [Resources -> 0 .. Len(decisions)]
  BY DEF DecisionInv, DecisionTypes
<1>6. chain'[d] = Append(chain[d], e) /\ \A c \in 1 .. MaxDecisions : c # d => chain'[c] = chain[c]
  BY <1>2, <1>5 DEF LineageGrows
<1>7. chain' \in [1 .. MaxDecisions -> Seq(LineageEvents)]
  BY <1>2, <1>4, <1>5 DEF LineageGrows
<1>8. /\ bound' \in [Resources -> 0 .. Len(decisions)] /\ bound'[e.resource] = d
      /\ \A r \in Resources : r # e.resource => bound'[r] = bound[r]
  BY <1>2, <1>3, <1>5 DEF LineageGrows
<1> QED
  BY <1>2, <1>3, <1>4, <1>6, <1>7, <1>8

\* Where the events of each resource are after that.
LEMMA GrownEvents ==
    ASSUME DecisionInv, NEW d \in DOMAIN decisions, NEW e \in LineageEvents,
           bound[e.resource] \in {0, d}, LineageGrows(d, e),
           NEW r \in Resources, NEW c \in 1 .. MaxDecisions
    PROVE  /\ r # e.resource => EventsOf(r, c)' = EventsOf(r, c)
           /\ r = e.resource /\ c # d => EventsOf(r, c) = {} /\ EventsOf(r, c)' = {}
           /\ r = e.resource /\ c = d =>
                 /\ EventsOf(r, c)' = EventsOf(r, c) \cup {Len(chain[d]) + 1}
                 /\ \A j \in EventsOf(r, c)' : j <= Len(chain[d]) + 1
<1> DEFINE n == Len(chain[d]) + 1
<1>1. /\ d \in 1 .. MaxDecisions /\ e.resource \in Resources
      /\ chain' \in [1 .. MaxDecisions -> Seq(LineageEvents)]
      /\ Len(chain[d]) \in Nat /\ Len(chain'[d]) = n /\ chain'[d][n] = e
      /\ \A k \in 1 .. Len(chain[d]) : chain'[d][k] = chain[d][k]
      /\ \A k \in 1 .. MaxDecisions : k # d => chain'[k] = chain[k]
  BY GrownChains
<1>2. \A i : i \in EventsOf(r, c) <=> i \in 1 .. Len(chain[c]) /\ chain[c][i].resource = r
  BY EventPlaces DEF DecisionInv
<1>3. \A i : i \in EventsOf(r, c)' <=> i \in 1 .. Len(chain'[c]) /\ chain'[c][i].resource = r
  BY <1>1 DEF EventsOf
<1>4. CASE c # d
  <2>1. EventsOf(r, c)' = EventsOf(r, c)
    BY <1>1, <1>4 DEF EventsOf
  <2>2. r = e.resource => EventsOf(r, c) = {}
    <3>1. 0 \notin 1 .. MaxDecisions
      OBVIOUS
    <3> QED
      BY <1>1, <1>4, <3>1, LastExists
  <2> QED
    BY <1>4, <2>1, <2>2
<1>5. CASE c = d
  <2>1. \A i : i \in 1 .. n <=> i \in 1 .. Len(chain[d]) \/ i = n
    BY <1>1
  <2>2. \A i : i \in EventsOf(r, c)' <=> i \in EventsOf(r, c) \/ (i = n /\ r = e.resource)
    <3> HIDE DEF n
    <3>1. ASSUME NEW i, i \in 1 .. Len(chain[d])
          PROVE  i \in EventsOf(r, c)' <=> i \in EventsOf(r, c)
      BY <1>1, <1>2, <1>3, <1>5, <2>1, <3>1
    <3>2. n \in EventsOf(r, c)' <=> r = e.resource
      BY <1>1, <1>3, <1>5, <2>1
    <3>3. \A i : i \in EventsOf(r, c)' => i \in 1 .. Len(chain[d]) \/ i = n
      BY <1>1, <1>3, <1>5, <2>1
    <3>4. \A i : i \in EventsOf(r, c) => i \in 1 .. Len(chain[d])
      BY <1>2, <1>5
    <3> QED
      BY <3>1, <3>2, <3>3, <3>4
  <2>3. \A j \in EventsOf(r, c)' : j <= n
    BY <1>1, <1>3, <1>5
  <2>4. r # e.resource => EventsOf(r, c)' = EventsOf(r, c)
    BY <2>2
  <2>5. r = e.resource => EventsOf(r, c)' = EventsOf(r, c) \cup {n}
    BY <2>2
  <2> QED
    BY <1>5, <2>3, <2>4, <2>5
<1> QED
  BY <1>4, <1>5

\* The last events after that.
LEMMA GrownLast ==
    ASSUME DecisionInv, NEW d \in DOMAIN decisions, NEW e \in LineageEvents,
           bound[e.resource] \in {0, d}, LineageGrows(d, e), DecisionTypes',
           NEW r \in Resources, NEW c \in 1 .. MaxDecisions, EventsOf(r, c)' # {}
    PROVE  /\ \E i \in EventsOf(r, c)' : \A j \in EventsOf(r, c)' : j <= i
           /\ r = e.resource => c = d /\ chain'[c][LastEventOf(r, c)'] = e
           /\ r # e.resource => /\ EventsOf(r, c) # {} /\ LastEventOf(r, c)' = LastEventOf(r, c)
                                /\ chain'[c][LastEventOf(r, c)'] = chain[c][LastEventOf(r, c)]
<1> DEFINE n == Len(chain[d]) + 1
<1>1. /\ d \in 1 .. MaxDecisions /\ Len(chain[d]) \in Nat /\ chain'[d][n] = e
      /\ \A k \in 1 .. Len(chain[d]) : chain'[d][k] = chain[d][k]
      /\ \A k \in 1 .. MaxDecisions : k # d => chain'[k] = chain[k]
  BY GrownChains
<1>2. /\ r # e.resource => EventsOf(r, c)' = EventsOf(r, c)
      /\ r = e.resource /\ c # d => EventsOf(r, c)' = {}
      /\ r = e.resource /\ c = d =>
            /\ EventsOf(r, c)' = EventsOf(r, c) \cup {n}
            /\ \A j \in EventsOf(r, c)' : j <= n
  BY GrownEvents
<1>3. \A i : LastOf(r, c, i)' => LastEventOf(r, c)' = i
  <2>1. \A j \in EventsOf(r, c)' : j \in Nat
    <3>1. chain'[c] \in Seq(LineageEvents)
      BY DEF DecisionTypes
    <3> QED
      BY <3>1 DEF EventsOf
  <2> SUFFICES ASSUME NEW i, LastOf(r, c, i)' PROVE LastEventOf(r, c)' = i
    OBVIOUS
  <2>2. \A j : j \in EventsOf(r, c)' /\ (\A k \in EventsOf(r, c)' : k <= j) => j = i
    BY <2>1 DEF LastOf
  <2>3. \E j : j \in EventsOf(r, c)' /\ \A k \in EventsOf(r, c)' : k <= j
    BY DEF LastOf
  <2> QED
    BY <2>2, <2>3 DEF LastEventOf
<1> HIDE DEF n
<1>4. CASE r = e.resource
  <2>1. c = d /\ n \in EventsOf(r, c)' /\ \A j \in EventsOf(r, c)' : j <= n
    BY <1>2, <1>4
  <2>2. LastEventOf(r, c)' = n
    BY <1>3, <2>1 DEF LastOf
  <2>3. chain'[c][LastEventOf(r, c)'] = e
    BY <1>1, <2>1, <2>2
  <2> QED
    BY <1>4, <2>1, <2>3
<1>5. CASE r # e.resource
  <2>1. EventsOf(r, c)' = EventsOf(r, c) /\ EventsOf(r, c) # {}
    BY <1>2, <1>5
  <2>2. LastOf(r, c, LastEventOf(r, c))
    BY <2>1, LastExists
  <2>3. LastEventOf(r, c)' = LastEventOf(r, c)
    BY <1>3, <2>1, <2>2 DEF LastOf
  <2>4. LastEventOf(r, c) \in 1 .. Len(chain[c])
    BY <2>2, EventPlaces DEF LastOf, DecisionInv
  <2>5. chain'[c][LastEventOf(r, c)] = chain[c][LastEventOf(r, c)]
    BY <1>1, <2>4
  <2> QED
    BY <1>5, <2>1, <2>2, <2>3, <2>5 DEF LastOf
<1> QED
  BY <1>4, <1>5

RowIs(r, d, e) ==
    /\ r \in Portfolios => portfolio[r] = [version |-> e.plan, status |-> e.state]
    /\ r \in Observations => /\ observation[r].status = e.state
                             /\ observation[r].artifact = decisions[d].version

FitsItsKind(e) ==
    /\ e.resource \in Portfolios => e.state \in {"DRAFT", "CONFIRMED"}
    /\ e.resource \in Observations => e.state \in ObservationStates

\* The portfolio that a validation names is confirmed by its last event.
IsTested(d, e) ==
    e.relation \in {"tests", "evaluates"} =>
        LET last == chain[d][LastEventOf(e.of, d)] IN
        bound[e.of] = d /\ last.relation = "confirms" /\ last.plan = e.plan

SameRows(r) ==
    /\ r \in Portfolios => portfolio'[r] = portfolio[r]
    /\ r \in Observations => observation'[r] = observation[r]

\* An event that fits, recorded with the row it is about, keeps everything.
LEMMA AppendInv ==
    ASSUME DecisionInv, NEW d \in DOMAIN decisions, NEW e \in LineageEvents,
           bound[e.resource] \in {0, d}, LineageGrows(d, e), DecisionTypes',
           decisions' = decisions, FitsItsKind(e), IsTested(d, e), RowIs(e.resource, d, e)',
           \A r \in Resources : r # e.resource => SameRows(r)
    PROVE  DecisionInv'
<1> DEFINE n == Len(chain[d]) + 1
<1>1. /\ d \in 1 .. MaxDecisions /\ e.resource \in Resources
      /\ chain' \in [1 .. MaxDecisions -> Seq(LineageEvents)]
      /\ Len(chain[d]) \in Nat /\ Len(chain'[d]) = n /\ chain'[d][n] = e
      /\ \A k \in 1 .. Len(chain[d]) : chain'[d][k] = chain[d][k]
      /\ \A k \in 1 .. MaxDecisions : k # d => chain'[k] = chain[k]
      /\ bound'[e.resource] = d
      /\ \A r \in Resources : r # e.resource => bound'[r] = bound[r]
  BY GrownChains
<1>2. EventsFit'
  <2> SUFFICES ASSUME NEW c \in 1 .. MaxDecisions, NEW r \in Resources
               PROVE  /\ \A i \in EventsOf(r, c)' :
                            /\ r \in Portfolios => chain'[c][i].state \in {"DRAFT", "CONFIRMED"}
                            /\ r \in Observations => chain'[c][i].state \in ObservationStates
                      /\ EventsOf(r, c)' # {} =>
                            \E i \in EventsOf(r, c)' : \A j \in EventsOf(r, c)' : j <= i
    BY DEF EventsFit
  <2>1. EventsOf(r, c)' # {} => \E i \in EventsOf(r, c)' : \A j \in EventsOf(r, c)' : j <= i
    BY GrownLast
  <2>2. ASSUME NEW i \in EventsOf(r, c)'
        PROVE  \/ i \in EventsOf(r, c) /\ chain'[c][i] = chain[c][i]
               \/ r = e.resource /\ chain'[c][i] = e
    <3>1. i \in EventsOf(r, c) \/ (r = e.resource /\ c = d /\ i = n)
      BY <2>2, GrownEvents
    <3>2. i \in EventsOf(r, c) => i \in 1 .. Len(chain[c])
      BY EventPlaces DEF DecisionInv
    <3> QED
      BY <1>1, <3>1, <3>2
  <2>3. \A i \in EventsOf(r, c) :
           /\ r \in Portfolios => chain[c][i].state \in {"DRAFT", "CONFIRMED"}
           /\ r \in Observations => chain[c][i].state \in ObservationStates
    BY DEF DecisionInv, EventsFit
  <2> QED
    BY <2>1, <2>2, <2>3 DEF FitsItsKind
<1>3. BoundHasEvents'
  <2> SUFFICES ASSUME NEW r \in Resources, NEW c, c = bound'[r], c # 0
               PROVE  EventsOf(r, c)' # {}
    <3>1. (\A r \in Resources : \A c : c = bound'[r] /\ c # 0 => EventsOf(r, c)' # {})
             => BoundHasEvents'
      BY DEF BoundHasEvents, EventsOf
    <3> QED
      BY <3>1
  <2>1. CASE r = e.resource
    <3>1. c = d /\ c \in 1 .. MaxDecisions
      BY <1>1, <2>1
    <3>2. n \in EventsOf(r, c)'
      BY <1>1, <2>1, <3>1, GrownEvents
    <3> QED
      BY <3>2
  <2>2. CASE r # e.resource
    <3>1. c \in 1 .. MaxDecisions /\ EventsOf(r, c) # {}
      <4>1. bound[r] = c
        BY <1>1, <2>2
      <4> QED
        BY <4>1, BoundIsTaken
    <3>2. EventsOf(r, c)' = EventsOf(r, c)
      BY <2>2, <3>1, GrownEvents
    <3> QED
      BY <3>1, <3>2
  <2> QED
    BY <2>1, <2>2
<1>4. RowsMatchLineage'
  <2> SUFFICES ASSUME NEW c \in 1 .. MaxDecisions, NEW r \in Resources, EventsOf(r, c)' # {},
                      NEW x, x = chain'[c][LastEventOf(r, c)']
               PROVE  bound'[r] = c /\ RowIs(r, c, x)'
    <3>1. DOMAIN chain' = 1 .. MaxDecisions
      BY <1>1
    <3> QED
      BY <3>1 DEF RowsMatchLineage, RowIs
  <2>1. CASE r = e.resource
    <3>1. c = d /\ x = e
      BY <2>1, GrownLast
    <3> QED
      BY <1>1, <2>1, <3>1
  <2>2. CASE r # e.resource
    <3>1. /\ EventsOf(r, c) # {}
          /\ x = chain[c][LastEventOf(r, c)]
      BY <2>2, GrownLast
    <3>2. bound[r] = c /\ RowIs(r, c, x)
      <4>1. c \in DOMAIN chain
        BY DEF DecisionInv, DecisionTypes
      <4> QED
        BY <3>1, <4>1 DEF DecisionInv, RowsMatchLineage, RowIs
    <3> QED
      BY <1>1, <2>2, <3>1, <3>2 DEF RowIs, SameRows
  <2> QED
    BY <2>1, <2>2
<1>5. ValidationsFollowConfirmation'
  <2> SUFFICES ASSUME NEW c \in 1 .. MaxDecisions, NEW i \in 1 .. Len(chain'[c]),
                      chain'[c][i].relation \in {"tests", "evaluates"}
               PROVE  \E j \in 1 .. i - 1 :
                         /\ chain'[c][j].relation = "confirms"
                         /\ chain'[c][j].resource = chain'[c][i].of
                         /\ chain'[c][j].plan = chain'[c][i].plan
                         /\ \A k \in j + 1 .. i - 1 : chain'[c][k].resource # chain'[c][i].of
    <3>1. DOMAIN chain' = 1 .. MaxDecisions /\ \A c \in 1 .. MaxDecisions : DOMAIN chain'[c] = 1 .. Len(chain'[c])
      BY <1>1
    <3> QED
      BY <3>1 DEF ValidationsFollowConfirmation
  <2>1. Len(chain[c]) \in Nat
    BY EventPlaces DEF DecisionInv
  <2>2. CASE i \in 1 .. Len(chain[c])
    <3>1. \A k \in 1 .. Len(chain[c]) : chain'[c][k] = chain[c][k]
      BY <1>1
    <3>2. c \in DOMAIN chain /\ i \in DOMAIN chain[c]
      BY <2>2, EventPlaces DEF DecisionInv, DecisionTypes
    <3>3. PICK j \in 1 .. i - 1 :
             /\ chain[c][j].relation = "confirms" /\ chain[c][j].resource = chain[c][i].of
             /\ chain[c][j].plan = chain[c][i].plan
             /\ \A k \in j + 1 .. i - 1 : chain[c][k].resource # chain[c][i].of
      BY <2>2, <3>1, <3>2 DEF DecisionInv, ValidationsFollowConfirmation
    <3>4. /\ j \in 1 .. Len(chain[c])
          /\ \A k \in j + 1 .. i - 1 : k \in 1 .. Len(chain[c])
      BY <2>1, <2>2, <3>3
    <3> QED
      BY <2>2, <3>1, <3>3, <3>4
  <2>3. CASE i \notin 1 .. Len(chain[c])
    <3>1. c = d /\ i = n
      BY <1>1, <2>1, <2>3
    <3>2. chain'[c][i] = e
      BY <1>1, <3>1
    <3> DEFINE j == LastEventOf(e.of, d)
    <3>3. bound[e.of] = d /\ chain[d][j].relation = "confirms" /\ chain[d][j].plan = e.plan
      BY <3>2 DEF IsTested
    <3>4. e.of \in Resources
      BY DEF LineageEvents
    <3>5. LastOf(e.of, d, j)
      <4>1. EventsOf(e.of, d) # {}
        <5>1. d # 0
          BY <1>1
        <5> QED
          BY <3>3, <3>4, <5>1, BoundIsTaken
      <4> QED
        BY <1>1, <3>4, <4>1, LastExists
    <3> HIDE DEF j
    <3>6. j \in 1 .. Len(chain[d]) /\ chain[d][j].resource = e.of
      BY <1>1, <3>5, EventPlaces DEF LastOf, DecisionInv
    <3>7. \A k \in 1 .. Len(chain[d]) : k > j => chain[d][k].resource # e.of
      <4>1. \A k : k \in EventsOf(e.of, d) <=> k \in 1 .. Len(chain[d]) /\ chain[d][k].resource = e.of
        BY <1>1, EventPlaces DEF DecisionInv
      <4>2. \A k \in EventsOf(e.of, d) : k <= j
        BY <3>5 DEF LastOf
      <4>3. j \in Nat /\ \A k \in 1 .. Len(chain[d]) : k \in Nat
        BY <1>1, <3>6
      <4> QED
        BY <4>1, <4>2, <4>3
    <3>8. /\ n - 1 = Len(chain[d]) /\ j \in 1 .. n - 1
          /\ \A k \in j + 1 .. n - 1 : k \in 1 .. Len(chain[d]) /\ k > j
      BY <1>1, <3>6
    <3> HIDE DEF n
    <3>9. /\ chain'[d][j].relation = "confirms" /\ chain'[d][j].resource = e.of
          /\ chain'[d][j].plan = e.plan
      BY <1>1, <3>3, <3>6
    <3>10. \A k \in j + 1 .. n - 1 : chain'[d][k].resource # e.of
      BY <1>1, <3>7, <3>8
    <3> QED
      BY <3>1, <3>2, <3>8, <3>9, <3>10
  <2> QED
    BY <2>2, <2>3
<1> QED
  BY <1>2, <1>3, <1>4, <1>5 DEF DecisionInv

\* A resource without a row has no event anywhere, so nothing is bound to it.
LEMMA NoRowNoEvents ==
    ASSUME DecisionInv, NEW r \in Resources,
           \/ r \in Portfolios /\ portfolio[r].status = "none"
           \/ r \in Observations /\ observation[r].status = "none"
    PROVE  bound[r] = 0
<1> SUFFICES ASSUME bound[r] # 0 PROVE FALSE
  OBVIOUS
<1> DEFINE d == bound[r]
<1>1. d \in 1 .. MaxDecisions /\ EventsOf(r, d) # {} /\ d \in DOMAIN chain
  BY BoundIsTaken DEF DecisionInv, DecisionTypes
<1> DEFINE i == LastEventOf(r, d)
<1>2. i \in EventsOf(r, d)
  BY <1>1, LastExists DEF LastOf
<1>3. /\ r \in Portfolios => chain[d][i].state # "none"
      /\ r \in Observations => chain[d][i].state # "none"
  BY <1>1, <1>2 DEF DecisionInv, EventsFit, ObservationStates
<1>4. /\ r \in Portfolios => portfolio[r] = [version |-> chain[d][i].plan, status |-> chain[d][i].state]
      /\ r \in Observations => observation[r].status = chain[d][i].state
  BY <1>1 DEF DecisionInv, RowsMatchLineage
<1> QED
  BY <1>3, <1>4

\* What touches no chain and no row that is bound keeps everything.
LEMMA KeepInv ==
    ASSUME DecisionInv, DecisionTypes', UNCHANGED lineageVars,
           \A k \in DOMAIN decisions : decisions'[k] = decisions[k],
           \A r \in Resources : bound[r] # 0 => SameRows(r)
    PROVE  DecisionInv'
<1>1. chain' = chain /\ bound' = bound
  BY DEF lineageVars
<1>2. \A r, d : EventsOf(r, d)' = EventsOf(r, d) /\ LastEventOf(r, d)' = LastEventOf(r, d)
  BY <1>1 DEF EventsOf, LastEventOf
<1>3. EventsFit'
  BY <1>1, <1>2 DEF DecisionInv, EventsFit
<1>4. BoundHasEvents'
  <2>1. \A r \in Resources : bound[r] # 0 => EventsOf(r, bound[r]) # {}
    BY DEF DecisionInv, BoundHasEvents
  <2>2. \A r, d : d = bound'[r] => EventsOf(r, d)' = EventsOf(r, bound[r])
    BY <1>1, <1>2
  <2>3. (\A r \in Resources : \A c : c = bound'[r] /\ c # 0 => EventsOf(r, c)' # {})
           => BoundHasEvents'
    BY DEF BoundHasEvents, EventsOf
  <2> QED
    BY <1>1, <2>1, <2>2, <2>3
<1>5. RowsMatchLineage'
  <2> SUFFICES ASSUME NEW c \in 1 .. MaxDecisions, NEW r \in Resources, EventsOf(r, c)' # {},
                      NEW x, x = chain'[c][LastEventOf(r, c)']
               PROVE  bound'[r] = c /\ RowIs(r, c, x)'
    <3>1. DOMAIN chain' = 1 .. MaxDecisions
      BY DEF DecisionTypes
    <3> QED
      BY <3>1 DEF RowsMatchLineage, RowIs
  <2>1. c \in DOMAIN chain /\ EventsOf(r, c) # {} /\ x = chain[c][LastEventOf(r, c)] /\ c # 0
    BY <1>1, <1>2 DEF DecisionInv, DecisionTypes
  <2>2. bound[r] = c /\ RowIs(r, c, x)
    BY <2>1 DEF DecisionInv, RowsMatchLineage, RowIs
  <2>3. c \in DOMAIN decisions
    BY <2>1, <2>2, BoundIsTaken
  <2> QED
    BY <1>1, <2>1, <2>2, <2>3 DEF RowIs, SameRows
<1>6. ValidationsFollowConfirmation'
  BY <1>1 DEF DecisionInv, ValidationsFollowConfirmation
<1> QED
  BY <1>3, <1>4, <1>5, <1>6 DEF DecisionInv

EventOf(relation, r, mark, of, plan) ==
    [relation |-> relation, resource |-> r, state |-> mark, of |-> of, plan |-> plan]

\* Recording an event, for short.
LEMMA Appended ==
    ASSUME NEW d, NEW relation \in Relations, NEW r \in Resources, NEW mark \in EventStates,
           NEW of \in Resources, NEW plan \in Nat, AppendEvent(d, relation, r, mark, of, plan),
           NEW e, e = EventOf(relation, r, mark, of, plan)
    PROVE  /\ e \in LineageEvents
           /\ e.relation = relation /\ e.resource = r /\ e.state = mark /\ e.of = of
           /\ e.plan = plan
           /\ LineageGrows(d, e) /\ bound[e.resource] \in {0, d}
           /\ CanAppendEvent(d, relation, r)
<1>1. /\ e \in LineageEvents
      /\ e.relation = relation /\ e.resource = r /\ e.state = mark /\ e.of = of
      /\ e.plan = plan
  BY DEF EventOf, LineageEvents
<1>2. CanAppendEvent(d, relation, r) /\ LineageGrows(d, e)
  BY <1>1 DEF AppendEvent, LineageGrows, EventOf
<1> QED
  BY <1>1, <1>2 DEF CanAppendEvent

\* The types after a step that takes no decision.
LEMMA TypesKept ==
    ASSUME DecisionInv, UNCHANGED <<artifactVars, decisions>>,
           \/ UNCHANGED lineageVars
           \/ \E d \in DOMAIN decisions, e \in LineageEvents :
                 bound[e.resource] \in {0, d} /\ LineageGrows(d, e),
           portfolio' \in [Portfolios -> PortfolioRows],
           observation' \in [Observations -> ObservationRows],
           replay' \in [Replays -> ReplayRows \cup {NoReplay}]
    PROVE  DecisionTypes'
<1>1. ArtifactTypes'
  BY DEF DecisionInv, DecisionTypes, ArtifactTypes, artifactVars
<1>2. decisions' = decisions
  OBVIOUS
<1>3. /\ chain' \in [1 .. MaxDecisions -> Seq(LineageEvents)]
      /\ bound' \in [Resources -> 0 .. Len(decisions)]
  <2>1. CASE UNCHANGED lineageVars
    BY <2>1 DEF lineageVars, DecisionInv, DecisionTypes
  <2>2. CASE ~UNCHANGED lineageVars
    BY <2>2, GrownChains
  <2> QED
    BY <2>1, <2>2
<1> QED
  BY <1>1, <1>2, <1>3 DEF DecisionInv, DecisionTypes

\* The artifact moves.
LEMMA ArtifactInv ==
    ASSUME DecisionInv, ArtifactMoves
    PROVE  DecisionInv'
<1>1. ArtifactTypes'
  BY ArtifactGrows DEF ArtifactMoves, DecisionInv, DecisionTypes
<1>2. UNCHANGED <<lineageVars, decisions, portfolio, observation, replay>>
  BY DEF ArtifactMoves
<1>3. DecisionTypes'
  BY <1>1, <1>2 DEF DecisionInv, DecisionTypes, lineageVars
<1> QED
  BY <1>2, <1>3, KeepInv DEF SameRows

\* A decision is taken, or is found to be there.
LEMMA DecideInv ==
    ASSUME DecisionInv, NEW a \in Actions, NEW t \in Rationales, Decide(a, t)
    PROVE  DecisionInv'
<1>1. UNCHANGED <<artifactVars, lineageVars, portfolio, observation, replay>>
  BY DEF Decide
<1>2. decisions \in Seq(DecisionRows) /\ Len(decisions) <= MaxDecisions /\ Len(decisions) \in Nat
  BY DEF DecisionInv, DecisionTypes
<1>3. MaxDecisions \in Nat /\ Version \in Nat
  BY DecisionAssumption DEF DecisionInv, DecisionTypes, ArtifactTypes, Version
<1> DEFINE row == [version |-> Version, action |-> a, rationale |-> t]
<1>4. \/ decisions' = decisions
      \/ Len(decisions) < MaxDecisions /\ decisions' = Append(decisions, row)
  BY DEF Decide
<1>5. row \in DecisionRows
  BY <1>3 DEF DecisionRows
<1> HIDE DEF row
<1>6. /\ decisions' \in Seq(DecisionRows) /\ Len(decisions') <= MaxDecisions
      /\ Len(decisions') \in Nat /\ Len(decisions) <= Len(decisions')
      /\ \A k \in DOMAIN decisions : decisions'[k] = decisions[k]
  <2>1. CASE decisions' = decisions
    BY <1>2, <2>1
  <2>2. CASE Len(decisions) < MaxDecisions /\ decisions' = Append(decisions, row)
    BY <1>2, <1>3, <1>5, <2>2
  <2> QED
    BY <1>4, <2>1, <2>2
<1>7. DecisionTypes'
  <2>1. ArtifactTypes'
    BY <1>1 DEF artifactVars, DecisionInv, DecisionTypes, ArtifactTypes
  <2>2. bound' \in [Resources -> 0 .. Len(decisions')]
    <3>1. bound \in [Resources -> 0 .. Len(decisions)] /\ bound' = bound
      BY <1>1 DEF lineageVars, DecisionInv, DecisionTypes
    <3> QED
      BY <1>2, <1>6, <3>1
  <2> QED
    BY <1>1, <1>6, <2>1, <2>2 DEF lineageVars, DecisionInv, DecisionTypes
<1> QED
  BY <1>1, <1>6, <1>7, KeepInv DEF SameRows

\* An operation that records what it does to its row, when the row is linked.
LEMMA LinkedInv ==
    ASSUME DecisionInv, UNCHANGED <<artifactVars, decisions>>,
           NEW relation \in {"revises", "confirms", "records_outcome"}, NEW r \in Resources,
           NEW mark \in EventStates, NEW plan \in Nat,
           RecordIfLinked(relation, r, mark, r, plan),
           portfolio' \in [Portfolios -> PortfolioRows],
           observation' \in [Observations -> ObservationRows],
           replay' \in [Replays -> ReplayRows \cup {NoReplay}],
           NEW d, d = bound[r], NEW e, e = EventOf(relation, r, mark, r, plan),
           d # 0 => FitsItsKind(e) /\ RowIs(r, d, e)',
           \A q \in Resources : q # r => SameRows(q)
    PROVE  DecisionInv'
<1>1. CASE d = 0
  <2>1. UNCHANGED lineageVars
    BY <1>1 DEF RecordIfLinked
  <2>2. DecisionTypes'
    BY <2>1, TypesKept
  <2> QED
    BY <1>1, <2>1, <2>2, KeepInv
<1>2. CASE d # 0
  <2>1. d \in DOMAIN decisions
    BY <1>2, BoundIsTaken
  <2>2. AppendEvent(d, relation, r, mark, r, plan) /\ relation \in Relations
    BY <1>2 DEF RecordIfLinked, Relations
  <2>3. /\ e \in LineageEvents /\ e.resource = r /\ e.relation = relation
        /\ LineageGrows(d, e) /\ bound[e.resource] \in {0, d}
    BY <2>2, Appended
  <2>4. DecisionTypes'
    BY <2>1, <2>3, TypesKept
  <2>5. IsTested(d, e)
    BY <2>3 DEF IsTested
  <2>6. RowIs(e.resource, d, e)'
    BY <1>2, <2>3
  <2> QED
    BY <1>2, <2>1, <2>3, <2>4, <2>5, <2>6, AppendInv
<1> QED
  BY <1>1, <1>2

\* A portfolio's row and the rows that stay.
LEMMA OnePortfolio ==
    ASSUME DecisionInv, NEW f \in Portfolios, NEW row \in PortfolioRows,
           portfolio' = [portfolio EXCEPT ![f] = row], UNCHANGED <<observation, replay>>
    PROVE  /\ portfolio' \in [Portfolios -> PortfolioRows] /\ portfolio'[f] = row
           /\ observation' \in [Observations -> ObservationRows]
           /\ replay' \in [Replays -> ReplayRows \cup {NoReplay}]
           /\ f \in Resources /\ f \notin Observations
           /\ \A q \in Resources : q # f => SameRows(q)
BY DecisionAssumption DEF DecisionInv, DecisionTypes, SameRows, Resources

\* An observation's row and the rows that stay.
LEMMA OneObservation ==
    ASSUME DecisionInv, NEW o \in Observations, NEW row \in ObservationRows,
           observation' = [observation EXCEPT ![o] = row], UNCHANGED <<portfolio, replay>>
    PROVE  /\ portfolio' \in [Portfolios -> PortfolioRows] /\ observation'[o] = row
           /\ observation' \in [Observations -> ObservationRows]
           /\ replay' \in [Replays -> ReplayRows \cup {NoReplay}]
           /\ o \in Resources /\ o \notin Portfolios
           /\ \A q \in Resources : q # o => SameRows(q)
BY DecisionAssumption DEF DecisionInv, DecisionTypes, SameRows, Resources

\* An operation that derives something from a decision: a new row, or the row
\* of a replay, which nothing keeps.
LEMMA DeriveInv ==
    ASSUME DecisionInv, UNCHANGED <<artifactVars, decisions>>,
           NEW relation \in Relations, NEW r \in Resources,
           NEW mark \in EventStates, NEW of \in Resources, NEW plan \in Nat,
           NEW d \in DOMAIN decisions, AppendEvent(d, relation, r, mark, of, plan),
           portfolio' \in [Portfolios -> PortfolioRows],
           observation' \in [Observations -> ObservationRows],
           replay' \in [Replays -> ReplayRows \cup {NoReplay}],
           NEW e, e = EventOf(relation, r, mark, of, plan),
           FitsItsKind(e), RowIs(r, d, e)', IsTested(d, e),
           \A q \in Resources : q # r => SameRows(q)
    PROVE  DecisionInv'
<1>1. /\ e \in LineageEvents /\ e.resource = r
      /\ LineageGrows(d, e) /\ bound[e.resource] \in {0, d}
  BY Appended
<1>2. DecisionTypes'
  BY <1>1, TypesKept
<1>3. RowIs(e.resource, d, e)'
  BY <1>1
<1> QED
  BY <1>1, <1>2, <1>3, AppendInv

\* Portfolios.
LEMMA PortfolioInv ==
    ASSUME DecisionInv, NEW f \in Portfolios,
           \/ \E d \in 0 .. Len(decisions) : CreatePortfolio(f, d)
           \/ UpdatePortfolio(f) \/ ConfirmPortfolio(f)
    PROVE  DecisionInv'
<1>1. f \in Resources /\ f \notin Observations /\ portfolio[f] \in PortfolioRows
  BY DecisionAssumption DEF Resources, DecisionInv, DecisionTypes
<1>2. ASSUME NEW d \in 0 .. Len(decisions), CreatePortfolio(f, d) PROVE DecisionInv'
  <2> DEFINE row == [version |-> 1, status |-> "DRAFT"]
  <2>1. row \in PortfolioRows /\ row.version = 1 /\ row.status = "DRAFT"
    BY DEF PortfolioRows
  <2>2. /\ portfolio' = [portfolio EXCEPT ![f] = row] /\ UNCHANGED <<observation, replay>>
        /\ UNCHANGED <<artifactVars, decisions>> /\ portfolio[f].status = "none"
    BY <1>2 DEF CreatePortfolio, NoPortfolio
  <2> HIDE DEF row
  <2>3. /\ portfolio' \in [Portfolios -> PortfolioRows] /\ portfolio'[f] = row
        /\ observation' \in [Observations -> ObservationRows]
        /\ replay' \in [Replays -> ReplayRows \cup {NoReplay}]
        /\ \A q \in Resources : q # f => SameRows(q)
    BY <2>1, <2>2, OnePortfolio
  <2>4. CASE d = 0
    <3>1. UNCHANGED lineageVars
      BY <1>2, <2>4 DEF CreatePortfolio
    <3>2. bound[f] = 0
      BY <1>1, <2>2, NoRowNoEvents
    <3>3. DecisionTypes'
      BY <2>2, <2>3, <3>1, TypesKept
    <3> QED
      BY <2>2, <2>3, <3>1, <3>2, <3>3, KeepInv
  <2>5. CASE d # 0
    <3>1. d \in DOMAIN decisions
      BY <2>5 DEF DecisionInv, DecisionTypes
    <3>2. AppendEvent(d, "implements", f, "DRAFT", f, 1)
      BY <1>2, <2>5 DEF CreatePortfolio
    <3>3. "implements" \in Relations /\ "DRAFT" \in EventStates /\ 1 \in Nat
      BY DEF Relations, EventStates
    <3>4. PICK e : e = EventOf("implements", f, "DRAFT", f, 1)
      OBVIOUS
    <3>5. FitsItsKind(e) /\ IsTested(d, e)
      BY <1>1, <3>4 DEF FitsItsKind, IsTested, EventOf
    <3>6. RowIs(f, d, e)'
      <4>1. e.plan = 1 /\ e.state = "DRAFT"
        BY <3>4 DEF EventOf
      <4> QED
        BY <1>1, <2>3, <4>1 DEF RowIs, row
    <3> QED
      BY <1>1, <2>2, <2>3, <3>1, <3>2, <3>3, <3>4, <3>5, <3>6, DeriveInv
  <2> QED
    BY <2>4, <2>5
<1>3. CASE UpdatePortfolio(f)
  <2>1. PICK p : p = portfolio[f].version + 1
    OBVIOUS
  <2> DEFINE row == [version |-> p, status |-> "DRAFT"]
  <2>2. p \in Nat /\ row \in PortfolioRows /\ row.version = p /\ row.status = "DRAFT"
    BY <1>1, <2>1 DEF PortfolioRows
  <2>3. /\ portfolio' = [portfolio EXCEPT ![f] = row] /\ UNCHANGED <<observation, replay>>
        /\ UNCHANGED <<artifactVars, decisions>>
        /\ RecordIfLinked("revises", f, "DRAFT", f, p)
    BY <1>3, <2>1 DEF UpdatePortfolio
  <2>4. /\ portfolio' \in [Portfolios -> PortfolioRows] /\ portfolio'[f] = row
        /\ observation' \in [Observations -> ObservationRows]
        /\ replay' \in [Replays -> ReplayRows \cup {NoReplay}]
        /\ \A q \in Resources : q # f => SameRows(q)
    <3> HIDE DEF row
    <3> QED
      BY <2>2, <2>3, OnePortfolio
  <2>5. PICK e, d : d = bound[f] /\ e = EventOf("revises", f, "DRAFT", f, p)
    OBVIOUS
  <2>6. e.plan = p /\ e.state = "DRAFT" /\ e.resource = f
    BY <2>5 DEF EventOf
  <2>7. FitsItsKind(e) /\ RowIs(f, d, e)'
    BY <1>1, <2>4, <2>6 DEF FitsItsKind, RowIs
  <2>8. "DRAFT" \in EventStates /\ "revises" \in {"revises", "confirms", "records_outcome"}
    BY DEF EventStates
  <2> HIDE DEF row
  <2> QED
    BY <1>1, <2>2, <2>3, <2>4, <2>5, <2>7, <2>8, LinkedInv
<1>4. CASE ConfirmPortfolio(f)
  <2>1. PICK p : p = portfolio[f].version
    OBVIOUS
  <2> DEFINE row == [version |-> p, status |-> "CONFIRMED"]
  <2>2. p \in Nat /\ row \in PortfolioRows /\ row.version = p /\ row.status = "CONFIRMED"
    BY <1>1, <2>1 DEF PortfolioRows
  <2>3. /\ UNCHANGED <<observation, replay>>
        /\ UNCHANGED <<artifactVars, decisions>>
        /\ RecordIfLinked("confirms", f, "CONFIRMED", f, p)
    BY <1>4, <2>1 DEF ConfirmPortfolio
  <2>4. portfolio' = [portfolio EXCEPT ![f] = row]
    <3>1. [portfolio[f] EXCEPT !.status = "CONFIRMED"] = row
      BY <1>1, <2>1 DEF PortfolioRows
    <3>2. portfolio' = [portfolio EXCEPT ![f] = [portfolio[f] EXCEPT !.status = "CONFIRMED"]]
      BY <1>4 DEF ConfirmPortfolio
    <3> QED
      BY <3>1, <3>2
  <2>5. /\ portfolio' \in [Portfolios -> PortfolioRows] /\ portfolio'[f] = row
        /\ observation' \in [Observations -> ObservationRows]
        /\ replay' \in [Replays -> ReplayRows \cup {NoReplay}]
        /\ \A q \in Resources : q # f => SameRows(q)
    <3> HIDE DEF row
    <3> QED
      BY <2>2, <2>3, <2>4, OnePortfolio
  <2>6. PICK e, d : d = bound[f] /\ e = EventOf("confirms", f, "CONFIRMED", f, p)
    OBVIOUS
  <2>7. e.plan = p /\ e.state = "CONFIRMED" /\ e.resource = f
    BY <2>6 DEF EventOf
  <2>8. FitsItsKind(e) /\ RowIs(f, d, e)'
    BY <1>1, <2>5, <2>7 DEF FitsItsKind, RowIs
  <2>9. "CONFIRMED" \in EventStates /\ "confirms" \in {"revises", "confirms", "records_outcome"}
    BY DEF EventStates
  <2> HIDE DEF row
  <2> QED
    BY <1>1, <2>2, <2>3, <2>5, <2>6, <2>8, <2>9, LinkedInv
<1> QED
  BY <1>2, <1>3, <1>4

\* A portfolio that the guard of a validation accepts is what the validation
\* says it tests.
LEMMA ConfirmedIsTested ==
    ASSUME DecisionInv, NEW f \in Portfolios, NEW d, ConfirmedBy(f, d), NEW e,
           e.of = f, e.plan = portfolio[f].version
    PROVE  IsTested(d, e) /\ portfolio[f].version \in Nat /\ f \in Resources
BY DEF ConfirmedBy, IsTested, DecisionInv, DecisionTypes, PortfolioRows, Resources

\* What an observation keeps of its artifact, while it is linked.
LEMMA LinkedArtifact ==
    ASSUME DecisionInv, NEW o \in Observations, bound[o] # 0
    PROVE  observation[o].artifact = decisions[bound[o]].version
<1>1. o \in Resources
  BY DEF Resources
<1>2. bound[o] \in DOMAIN chain /\ EventsOf(o, bound[o]) # {}
  BY <1>1, BoundIsTaken DEF DecisionInv, DecisionTypes
<1> QED
  BY <1>1, <1>2 DEF DecisionInv, RowsMatchLineage

\* An observation that tests a confirmed portfolio.
LEMMA TestInv ==
    ASSUME DecisionInv, NEW o \in Observations, NEW f \in Portfolios, NEW d \in DOMAIN decisions,
           ConfirmedBy(f, d), AppendEvent(d, "tests", o, "PROPOSED", f, portfolio[f].version),
           NEW row \in ObservationRows, row.status = "PROPOSED",
           row.artifact = decisions[d].version,
           observation' = [observation EXCEPT ![o] = row],
           UNCHANGED <<artifactVars, decisions, portfolio, replay>>
    PROVE  DecisionInv'
<1>1. PICK p : p = portfolio[f].version
  OBVIOUS
<1>2. PICK e : e = EventOf("tests", o, "PROPOSED", f, p)
  OBVIOUS
<1>3. e.plan = p /\ e.state = "PROPOSED" /\ e.resource = o /\ e.of = f
  BY <1>2 DEF EventOf
<1>4. IsTested(d, e) /\ p \in Nat /\ f \in Resources
  BY <1>1, <1>3, ConfirmedIsTested
<1>5. /\ portfolio' \in [Portfolios -> PortfolioRows] /\ observation'[o] = row
      /\ observation' \in [Observations -> ObservationRows]
      /\ replay' \in [Replays -> ReplayRows \cup {NoReplay}]
      /\ o \in Resources /\ o \notin Portfolios
      /\ \A q \in Resources : q # o => SameRows(q)
  BY OneObservation
<1>6. FitsItsKind(e) /\ RowIs(o, d, e)'
  BY <1>3, <1>5 DEF FitsItsKind, RowIs, ObservationStates
<1>7. "tests" \in Relations /\ "PROPOSED" \in EventStates
  BY DEF Relations, EventStates, ObservationStates
<1>8. AppendEvent(d, "tests", o, "PROPOSED", f, p)
  BY <1>1
<1> QED
  BY <1>2, <1>4, <1>5, <1>6, <1>7, <1>8, DeriveInv

\* An observation moves on.
LEMMA MoveInv ==
    ASSUME DecisionInv, NEW o \in Observations, NEW from,
           NEW relation \in {"revises", "confirms", "records_outcome"},
           NEW to \in {"OPEN", "PENDING_BASELINE", "RESOLVED"},
           MoveObservation(o, from, relation, to)
    PROVE  DecisionInv'
<1>1. /\ UNCHANGED <<artifactVars, decisions, portfolio, replay>>
      /\ RecordIfLinked(relation, o, to, o, 0)
      /\ observation' = [observation EXCEPT ![o].status = to]
  BY DEF MoveObservation
<1>2. observation[o] \in ObservationRows /\ to \in ObservationStates /\ to \in EventStates
  BY DEF DecisionInv, DecisionTypes, ObservationStates, EventStates
<1>3. PICK row : row = [observation[o] EXCEPT !.status = to]
  OBVIOUS
<1>4. row \in ObservationRows /\ row.status = to /\ row.artifact = observation[o].artifact
  BY <1>2, <1>3 DEF ObservationRows
<1>5. observation' = [observation EXCEPT ![o] = row]
  BY <1>1, <1>3
<1>6. /\ portfolio' \in [Portfolios -> PortfolioRows] /\ observation'[o] = row
      /\ observation' \in [Observations -> ObservationRows]
      /\ replay' \in [Replays -> ReplayRows \cup {NoReplay}]
      /\ o \in Resources /\ o \notin Portfolios
      /\ \A q \in Resources : q # o => SameRows(q)
  BY <1>1, <1>4, <1>5, OneObservation
<1>7. PICK e, d : d = bound[o] /\ e = EventOf(relation, o, to, o, 0)
  OBVIOUS
<1>8. e.plan = 0 /\ e.state = to /\ e.resource = o
  BY <1>7 DEF EventOf
<1>9. d # 0 => FitsItsKind(e) /\ RowIs(o, d, e)'
  <2>1. d # 0 => row.artifact = decisions[d].version
    BY <1>4, <1>7, LinkedArtifact
  <2>2. decisions' = decisions
    BY <1>1
  <2> QED
    BY <1>2, <1>4, <1>6, <1>8, <2>1, <2>2 DEF FitsItsKind, RowIs
<1> QED
  BY <1>1, <1>2, <1>6, <1>7, <1>9, LinkedInv

\* A decision is about a version.
LEMMA DecisionHasVersion ==
    ASSUME DecisionInv, NEW d \in DOMAIN decisions
    PROVE  decisions[d].version \in Nat
<1>1. decisions \in Seq(DecisionRows)
  BY DEF DecisionInv, DecisionTypes
<1>2. decisions[d] \in DecisionRows
  BY <1>1
<1> QED
  BY <1>2 DEF DecisionRows

\* Observations.
LEMMA ObservationInv ==
    ASSUME DecisionInv, NEW o \in Observations,
           \/ \E by \in {"ai", "user"}, v \in {0, Version} : ProposeObservation(o, by, v)
           \/ \E f \in Portfolios, d \in DOMAIN decisions :
                 CreateObservation(o, f, d) \/ BindObservation(o, f, d)
           \/ ConfirmObservation(o) \/ SetBaseline(o) \/ ResolveObservation(o)
    PROVE  DecisionInv'
<1>1. ASSUME NEW by \in {"ai", "user"}, NEW v \in {0, Version}, ProposeObservation(o, by, v)
      PROVE  DecisionInv'
  <2>1. PICK row : row = [status |-> "PROPOSED", by |-> by, artifact |-> v]
    OBVIOUS
  <2>2. row \in ObservationRows
    BY <2>1 DEF ObservationRows, ObservationStates, DecisionInv, DecisionTypes, ArtifactTypes, Version
  <2>3. /\ observation' = [observation EXCEPT ![o] = row] /\ observation[o].status = "none"
        /\ UNCHANGED <<artifactVars, lineageVars, decisions, portfolio, replay>>
    BY <1>1, <2>1 DEF ProposeObservation, NoObservation
  <2>4. /\ portfolio' \in [Portfolios -> PortfolioRows]
        /\ observation' \in [Observations -> ObservationRows]
        /\ replay' \in [Replays -> ReplayRows \cup {NoReplay}]
        /\ o \in Resources
        /\ \A q \in Resources : q # o => SameRows(q)
    BY <2>2, <2>3, OneObservation
  <2>5. DecisionTypes'
    BY <2>3, <2>4, TypesKept
  <2>6. bound[o] = 0
    BY <2>3, <2>4, NoRowNoEvents
  <2> QED
    BY <2>3, <2>4, <2>5, <2>6, KeepInv
<1>2. ASSUME NEW f \in Portfolios, NEW d \in DOMAIN decisions, CreateObservation(o, f, d)
      PROVE  DecisionInv'
  <2>1. PICK row : row = [status |-> "PROPOSED", by |-> "user", artifact |-> decisions[d].version]
    OBVIOUS
  <2>2. row \in ObservationRows /\ row.status = "PROPOSED" /\ row.artifact = decisions[d].version
    BY <2>1, DecisionHasVersion DEF ObservationRows, ObservationStates
  <2>3. /\ observation' = [observation EXCEPT ![o] = row] /\ ConfirmedBy(f, d)
        /\ AppendEvent(d, "tests", o, "PROPOSED", f, portfolio[f].version)
        /\ UNCHANGED <<artifactVars, decisions, portfolio, replay>>
    BY <1>2, <2>1 DEF CreateObservation
  <2> QED
    BY <2>2, <2>3, TestInv
<1>3. ASSUME NEW f \in Portfolios, NEW d \in DOMAIN decisions, BindObservation(o, f, d)
      PROVE  DecisionInv'
  <2>1. PICK row : row = [observation[o] EXCEPT !.artifact = decisions[d].version]
    OBVIOUS
  <2>2. observation[o] \in ObservationRows /\ observation[o].status = "PROPOSED"
        /\ decisions[d].version \in Nat
    BY <1>3, DecisionHasVersion DEF BindObservation, DecisionInv, DecisionTypes
  <2>3. row \in ObservationRows /\ row.status = "PROPOSED" /\ row.artifact = decisions[d].version
    BY <2>1, <2>2 DEF ObservationRows
  <2>4. /\ observation' = [observation EXCEPT ![o] = row] /\ ConfirmedBy(f, d)
        /\ AppendEvent(d, "tests", o, "PROPOSED", f, portfolio[f].version)
        /\ UNCHANGED <<artifactVars, decisions, portfolio, replay>>
    BY <1>3, <2>1 DEF BindObservation
  <2> QED
    BY <2>3, <2>4, TestInv
<1>4. CASE ConfirmObservation(o)
  BY <1>4, MoveInv DEF ConfirmObservation
<1>5. CASE SetBaseline(o)
  BY <1>5, MoveInv DEF SetBaseline
<1>6. CASE ResolveObservation(o)
  BY <1>6, MoveInv DEF ResolveObservation
<1> QED
  BY <1>1, <1>2, <1>3, <1>4, <1>5, <1>6

\* Replays.
LEMMA ReplayInv ==
    ASSUME DecisionInv, NEW w \in Replays,
           \/ \E f \in Portfolios, d \in DOMAIN decisions, strategy \in BOOLEAN :
                 StartReplay(w, f, d, strategy)
           \/ CommitReplay(w) \/ DropReplay(w)
    PROVE  DecisionInv'
<1>1. /\ w \in Resources /\ w \notin Portfolios /\ w \notin Observations
      /\ portfolio \in [Portfolios -> PortfolioRows]
      /\ observation \in [Observations -> ObservationRows]
      /\ replay \in [Replays -> ReplayRows \cup {NoReplay}]
  BY DecisionAssumption DEF Resources, DecisionInv, DecisionTypes
<1>2. ASSUME NEW f \in Portfolios, NEW d \in DOMAIN decisions, NEW strategy \in BOOLEAN,
             StartReplay(w, f, d, strategy)
      PROVE  DecisionInv'
  <2>1. PICK row : row = [decision |-> d, plan |-> portfolio[f], of |-> f,
                          head |-> Len(chain[d]), strategy |-> strategy]
    OBVIOUS
  <2>2. d \in 1 .. MaxDecisions /\ Len(chain[d]) \in Nat
    <3>1. decisions \in Seq(DecisionRows) /\ Len(decisions) <= MaxDecisions /\ MaxDecisions \in Nat
      BY DecisionAssumption DEF DecisionInv, DecisionTypes
    <3>2. d \in 1 .. MaxDecisions
      BY <3>1
    <3> QED
      BY <3>2, EventPlaces DEF DecisionInv
  <2>3. row \in ReplayRows
    BY <1>1, <2>1, <2>2 DEF ReplayRows
  <2>4. /\ replay' = [replay EXCEPT ![w] = row]
        /\ UNCHANGED <<artifactVars, lineageVars, decisions, portfolio, observation>>
    BY <1>2, <2>1 DEF StartReplay
  <2>5. replay' \in [Replays -> ReplayRows \cup {NoReplay}]
    BY <1>1, <2>3, <2>4
  <2>6. DecisionTypes'
    BY <1>1, <2>4, <2>5, TypesKept
  <2> QED
    BY <2>4, <2>6, KeepInv DEF SameRows
<1>3. CASE CommitReplay(w)
  <2>1. replay[w] \in ReplayRows
    BY <1>1, <1>3 DEF CommitReplay
  <2>2. PICK r, f, d, p, s : /\ r = replay[w] /\ f = r.of /\ d = bound[f] /\ p = r.plan.version
                             /\ s = IF r.strategy THEN "STRATEGY" ELSE "COMPLETED"
    OBVIOUS
  <2>3. f \in Portfolios /\ s \in EventStates /\ "evaluates" \in Relations /\ p \in Nat
    BY <2>1, <2>2 DEF ReplayRows, PortfolioRows, EventStates, Relations
  <2>4. /\ portfolio[f].version = p /\ ConfirmedBy(f, d)
        /\ AppendEvent(d, "evaluates", w, s, f, p)
        /\ replay' = [replay EXCEPT ![w] = NoReplay]
        /\ UNCHANGED <<artifactVars, decisions, portfolio, observation>>
    BY <1>3, <2>2 DEF CommitReplay
  <2>5. f \in Resources /\ d \in DOMAIN decisions
    <3>1. d # 0 /\ f \in Resources
      BY <2>3, <2>4 DEF ConfirmedBy, Resources
    <3> QED
      BY <2>2, <3>1, BoundIsTaken
  <2>6. PICK e : e = EventOf("evaluates", w, s, f, p)
    OBVIOUS
  <2>7. e.of = f /\ e.plan = p /\ e.resource = w
    BY <2>6 DEF EventOf
  <2>8. IsTested(d, e)
    BY <2>3, <2>4, <2>7, ConfirmedIsTested
  <2>9. FitsItsKind(e) /\ RowIs(w, d, e)'
    BY <1>1, <2>7 DEF FitsItsKind, RowIs
  <2>10. /\ replay' \in [Replays -> ReplayRows \cup {NoReplay}]
         /\ portfolio' \in [Portfolios -> PortfolioRows]
         /\ observation' \in [Observations -> ObservationRows]
    BY <1>1, <2>4
  <2>11. \A q \in Resources : q # w => SameRows(q)
    BY <2>4 DEF SameRows
  <2> QED
    BY <1>1, <2>3, <2>4, <2>5, <2>6, <2>8, <2>9, <2>10, <2>11, DeriveInv
<1>4. CASE DropReplay(w)
  <2>1. /\ replay' = [replay EXCEPT ![w] = NoReplay]
        /\ UNCHANGED <<artifactVars, lineageVars, decisions, portfolio, observation>>
    BY <1>4 DEF DropReplay
  <2>2. replay' \in [Replays -> ReplayRows \cup {NoReplay}]
    BY <1>1, <2>1
  <2>3. DecisionTypes'
    BY <1>1, <2>1, <2>2, TypesKept
  <2> QED
    BY <2>1, <2>3, KeepInv DEF SameRows
<1> QED
  BY <1>2, <1>3, <1>4

\* Nothing is bound, nothing is recorded.
LEMMA DecisionInitInv ==
    ASSUME DecisionInit
    PROVE  DecisionInv
<1>1. /\ versions = <<>> /\ evidence = FALSE /\ decisions = <<>>
      /\ chain = [d \in 1 .. MaxDecisions |-> <<>>] /\ bound = [r \in Resources |-> 0]
      /\ portfolio = [f \in Portfolios |-> NoPortfolio]
      /\ observation = [o \in Observations |-> NoObservation]
      /\ replay = [w \in Replays |-> NoReplay]
  BY DEF DecisionInit, ArtifactInit
<1>2. /\ <<>> \in Seq({"DRAFT", "CONFIRMED"}) /\ <<>> \in Seq(DecisionRows)
      /\ <<>> \in Seq(LineageEvents) /\ Len(<<>>) = 0 /\ MaxDecisions \in Nat
  BY DecisionAssumption
<1>3. DecisionTypes
  <2>1. ArtifactTypes
    BY <1>1, <1>2 DEF ArtifactTypes
  <2>2. /\ NoPortfolio \in PortfolioRows /\ NoObservation \in ObservationRows
    BY DEF NoPortfolio, NoObservation, PortfolioRows, ObservationRows
  <2>3. chain \in [1 .. MaxDecisions -> Seq(LineageEvents)] /\ bound \in [Resources -> 0 .. Len(decisions)]
    BY <1>1, <1>2
  <2>4. decisions \in Seq(DecisionRows) /\ Len(decisions) <= MaxDecisions
    BY <1>1, <1>2
  <2>5. /\ portfolio \in [Portfolios -> PortfolioRows]
        /\ observation \in [Observations -> ObservationRows]
        /\ replay \in [Replays -> ReplayRows \cup {NoReplay}]
    BY <1>1, <2>2
  <2> QED
    BY <2>1, <2>3, <2>4, <2>5 DEF DecisionTypes
<1>4. \A r, d : d \in 1 .. MaxDecisions => EventsOf(r, d) = {}
  BY <1>1 DEF EventsOf
<1>5. EventsFit
  BY <1>4 DEF EventsFit
<1>6. BoundHasEvents
  BY <1>1 DEF BoundHasEvents
<1>7. RowsMatchLineage
  BY <1>1, <1>4 DEF RowsMatchLineage
<1>8. ValidationsFollowConfirmation
  BY <1>1 DEF ValidationsFollowConfirmation
<1> QED
  BY <1>3, <1>5, <1>6, <1>7, <1>8 DEF DecisionInv

\* Every step keeps the invariant.
LEMMA DecisionNextInv ==
    ASSUME DecisionInv, [DecisionNext]_decisionVars
    PROVE  DecisionInv'
<1>1. CASE ArtifactMoves
  BY <1>1, ArtifactInv
<1>2. CASE \E a \in Actions, t \in Rationales : Decide(a, t)
  BY <1>2, DecideInv
<1>3. CASE \E f \in Portfolios :
              \/ \E d \in 0 .. Len(decisions) : CreatePortfolio(f, d)
              \/ UpdatePortfolio(f) \/ ConfirmPortfolio(f)
  BY <1>3, PortfolioInv
<1>4. CASE \E o \in Observations :
              \/ \E by \in {"ai", "user"}, v \in {0, Version} : ProposeObservation(o, by, v)
              \/ \E f \in Portfolios, d \in DOMAIN decisions :
                    CreateObservation(o, f, d) \/ BindObservation(o, f, d)
              \/ ConfirmObservation(o) \/ SetBaseline(o) \/ ResolveObservation(o)
  BY <1>4, ObservationInv
<1>5. CASE \E w \in Replays :
              \/ \E f \in Portfolios, d \in DOMAIN decisions, strategy \in BOOLEAN :
                    StartReplay(w, f, d, strategy)
              \/ CommitReplay(w) \/ DropReplay(w)
  BY <1>5, ReplayInv
<1>6. CASE UNCHANGED decisionVars
  <2>1. UNCHANGED <<artifactVars, lineageVars, decisions, portfolio, observation, replay>>
    BY <1>6 DEF decisionVars, artifactVars, lineageVars
  <2>2. DecisionTypes'
    BY <2>1, TypesKept DEF DecisionInv, DecisionTypes
  <2> QED
    BY <2>1, <2>2, KeepInv DEF SameRows
<1> QED
  BY <1>1, <1>2, <1>3, <1>4, <1>5, <1>6 DEF DecisionNext

\* The invariant of decisions and their lineage.
THEOREM DecisionsHold == DecisionSpec => []DecisionInv
  BY DecisionInitInv, DecisionNextInv, PTL DEF DecisionSpec

\* What is true of a portfolio's or an observation's row is what the chain of
\* its decision says last (store.py:10067-11329).
THEOREM RowsFollowTheChain == DecisionSpec => []RowsMatchLineage
<1>1. DecisionInv => RowsMatchLineage
  BY DEF DecisionInv
<1> QED
  BY <1>1, DecisionsHold, PTL

\* Every validation in a chain tests a portfolio version that the user had
\* confirmed and not revised since.
THEOREM ValidationsAreOfConfirmedPlans == DecisionSpec => []ValidationsFollowConfirmation
<1>1. DecisionInv => ValidationsFollowConfirmation
  BY DEF DecisionInv
<1> QED
  BY <1>1, DecisionsHold, PTL

\* Chains grow by events that may be appended, and by nothing else.
LEMMA ChainsGrowByEvents ==
    ASSUME DecisionInv, DecisionNext
    PROVE  \/ chain' = chain
           \/ \E d \in DOMAIN decisions, relation \in Relations, r \in Resources :
                 \E mark, of, plan : AppendEvent(d, relation, r, mark, of, plan)
<1> DEFINE Grows == \E d \in DOMAIN decisions, relation \in Relations, r \in Resources :
                       \E mark, of, plan : AppendEvent(d, relation, r, mark, of, plan)
<1>1. ASSUME NEW relation \in {"revises", "confirms", "records_outcome"}, NEW r \in Resources,
             NEW mark, NEW plan, RecordIfLinked(relation, r, mark, r, plan)
      PROVE  chain' = chain \/ Grows
  <2>1. CASE bound[r] = 0
    BY <1>1, <2>1 DEF RecordIfLinked, lineageVars
  <2>2. CASE bound[r] # 0
    <3>1. bound[r] \in DOMAIN decisions /\ relation \in Relations
      BY <2>2, BoundIsTaken DEF Relations
    <3>2. AppendEvent(bound[r], relation, r, mark, r, plan)
      BY <1>1, <2>2 DEF RecordIfLinked
    <3> QED
      BY <3>1, <3>2
  <2> QED
    BY <2>1, <2>2
<1>2. /\ Portfolios \subseteq Resources /\ Observations \subseteq Resources
      /\ Replays \subseteq Resources
      /\ {"implements", "tests", "evaluates"} \subseteq Relations
  BY DEF Resources, Relations
<1>3. ASSUME ArtifactMoves \/ \E a \in Actions, t \in Rationales : Decide(a, t)
      PROVE  chain' = chain
  BY <1>3 DEF ArtifactMoves, Decide, lineageVars
<1>4. ASSUME NEW f \in Portfolios, NEW d \in 0 .. Len(decisions), CreatePortfolio(f, d)
      PROVE  chain' = chain \/ Grows
  <2>1. CASE d = 0
    BY <1>4, <2>1 DEF CreatePortfolio, lineageVars
  <2>2. CASE d # 0
    <3>1. AppendEvent(d, "implements", f, "DRAFT", f, 1)
      BY <1>4, <2>2 DEF CreatePortfolio
    <3>2. d \in DOMAIN decisions
      BY <2>2 DEF DecisionInv, DecisionTypes
    <3> QED
      BY <1>2, <3>1, <3>2
  <2> QED
    BY <2>1, <2>2
<1>5. ASSUME NEW f \in Portfolios, UpdatePortfolio(f) \/ ConfirmPortfolio(f)
      PROVE  chain' = chain \/ Grows
  <2> HIDE DEF Grows
  <2> QED
    BY <1>1, <1>2, <1>5 DEF UpdatePortfolio, ConfirmPortfolio
<1>6. ASSUME NEW o \in Observations, NEW by, NEW v, ProposeObservation(o, by, v)
      PROVE  chain' = chain
  BY <1>6 DEF ProposeObservation, lineageVars
<1>7. ASSUME NEW o \in Observations, NEW f \in Portfolios, NEW d \in DOMAIN decisions,
             CreateObservation(o, f, d) \/ BindObservation(o, f, d)
      PROVE  Grows
  <2>1. AppendEvent(d, "tests", o, "PROPOSED", f, portfolio[f].version)
    BY <1>7 DEF CreateObservation, BindObservation
  <2> QED
    BY <1>2, <2>1
<1>8. ASSUME NEW o \in Observations, ConfirmObservation(o) \/ SetBaseline(o) \/ ResolveObservation(o)
      PROVE  chain' = chain \/ Grows
  <2> HIDE DEF Grows
  <2> QED
    BY <1>1, <1>2, <1>8
       DEF ConfirmObservation, SetBaseline, ResolveObservation, MoveObservation
<1>9. ASSUME NEW w \in Replays, NEW f \in Portfolios, NEW d \in DOMAIN decisions,
             NEW strategy \in BOOLEAN, StartReplay(w, f, d, strategy)
      PROVE  chain' = chain
  BY <1>9 DEF StartReplay, lineageVars
<1>10. ASSUME NEW w \in Replays, CommitReplay(w) PROVE Grows
  <2>1. replay[w] \in ReplayRows
    BY <1>10 DEF CommitReplay, DecisionInv, DecisionTypes
  <2>2. PICK r : r = replay[w]
    OBVIOUS
  <2>3. r.of \in Portfolios
    BY <2>1, <2>2 DEF ReplayRows
  <2>4. /\ ConfirmedBy(r.of, bound[r.of])
        /\ AppendEvent(bound[r.of], "evaluates", w, IF r.strategy THEN "STRATEGY" ELSE "COMPLETED",
                       r.of, r.plan.version)
    BY <1>10, <2>2 DEF CommitReplay
  <2>5. bound[r.of] \in DOMAIN decisions
    BY <1>2, <2>3, <2>4, BoundIsTaken DEF ConfirmedBy
  <2> QED
    BY <1>2, <2>4, <2>5
<1>11. ASSUME NEW w \in Replays, DropReplay(w) PROVE chain' = chain
  BY <1>11 DEF DropReplay, lineageVars
<1> HIDE DEF Grows
<1>12. ASSUME \E f \in Portfolios :
               \/ \E d \in 0 .. Len(decisions) : CreatePortfolio(f, d)
               \/ UpdatePortfolio(f) \/ ConfirmPortfolio(f)
       PROVE  chain' = chain \/ Grows
  BY <1>4, <1>5, <1>12
<1>13. ASSUME \E o \in Observations :
               \/ \E by \in {"ai", "user"}, v \in {0, Version} : ProposeObservation(o, by, v)
               \/ \E f \in Portfolios, d \in DOMAIN decisions :
                     CreateObservation(o, f, d) \/ BindObservation(o, f, d)
               \/ ConfirmObservation(o) \/ SetBaseline(o) \/ ResolveObservation(o)
       PROVE  chain' = chain \/ Grows
  BY <1>6, <1>7, <1>8, <1>13
<1>14. ASSUME \E w \in Replays :
               \/ \E f \in Portfolios, d \in DOMAIN decisions, strategy \in BOOLEAN :
                     StartReplay(w, f, d, strategy)
               \/ CommitReplay(w) \/ DropReplay(w)
       PROVE  chain' = chain \/ Grows
  BY <1>9, <1>10, <1>11, <1>14
<1>15. chain' = chain \/ Grows
  BY <1>3, <1>12, <1>13, <1>14 DEF DecisionNext
<1> QED
  BY <1>15 DEF Grows

\* From a decision that was replaced, or that is no support, nothing new is
\* derived: its chain only takes the remaining states of its observations.
THEOREM NothingNewFromReplaced == DecisionSpec => ReplacedDecisionsOnlyFinish
<1>1. ASSUME DecisionInv, DecisionNext, NEW k \in DOMAIN decisions, chain'[k] # chain[k],
             ~(IsCurrent(k) /\ Supports(k)), NEW e, e = chain'[k][Len(chain'[k])]
      PROVE  /\ Supports(k) /\ EventsOf(e.resource, k) # {}
             /\ e.relation \notin {"implements", "tests", "evaluates"}
             /\ e.resource \in Observations
  <2>1. PICK d \in DOMAIN decisions, relation \in Relations, r \in Resources :
           \E mark, of, plan : AppendEvent(d, relation, r, mark, of, plan)
    BY <1>1, ChainsGrowByEvents
  <2>2. PICK mark, of, plan : AppendEvent(d, relation, r, mark, of, plan)
    BY <2>1
  <2>3. PICK x : x = EventOf(relation, r, mark, of, plan)
    OBVIOUS
  <2>4. /\ chain' = [chain EXCEPT ![d] = Append(@, x)] /\ CanAppendEvent(d, relation, r)
        /\ x.relation = relation /\ x.resource = r
    BY <2>2, <2>3 DEF AppendEvent, EventOf
  <2>5. /\ chain \in [1 .. MaxDecisions -> Seq(LineageEvents)] /\ d \in 1 .. MaxDecisions
        /\ k \in 1 .. MaxDecisions /\ d # 0
    <3>1. decisions \in Seq(DecisionRows) /\ Len(decisions) <= MaxDecisions /\ MaxDecisions \in Nat
      BY <1>1, DecisionAssumption DEF DecisionInv, DecisionTypes
    <3>2. d \in 1 .. MaxDecisions /\ k \in 1 .. MaxDecisions
      BY <3>1
    <3> QED
      BY <1>1, <3>2 DEF DecisionInv, DecisionTypes
  <2>6. k = d /\ chain'[d] = Append(chain[d], x)
    BY <1>1, <2>4, <2>5
  <2>7. e = x
    <3>1. chain[d] \in Seq(LineageEvents)
      BY <2>5
    <3>2. Len(Append(chain[d], x)) = Len(chain[d]) + 1 /\ Append(chain[d], x)[Len(chain[d]) + 1] = x
      BY <3>1
    <3> QED
      BY <1>1, <2>6, <3>2
  <2>8. Supports(d) /\ MayFinish(d, relation, r)
    BY <1>1, <2>4, <2>6 DEF CanAppendEvent
  <2>9. EventsOf(r, d) # {}
    <3>1. bound[r] = d
      BY <2>8 DEF MayFinish
    <3> QED
      BY <1>1, <2>5, <3>1, BoundIsTaken
  <2> QED
    BY <2>4, <2>6, <2>7, <2>8, <2>9 DEF MayFinish
<1>2. ASSUME DecisionInv, DecisionNext
      PROVE  \A d \in DOMAIN decisions :
                chain'[d] # chain[d] /\ ~(IsCurrent(d) /\ Supports(d)) =>
                    LET e == chain'[d][Len(chain'[d])] IN
                    /\ Supports(d) /\ EventsOf(e.resource, d) # {}
                    /\ e.relation \notin {"implements", "tests", "evaluates"}
                    /\ e.resource \in Observations
  BY <1>1, <1>2
<1>3. ASSUME DecisionInv, [DecisionNext]_decisionVars
      PROVE  [\A d \in DOMAIN decisions :
                 chain'[d] # chain[d] /\ ~(IsCurrent(d) /\ Supports(d)) =>
                     LET e == chain'[d][Len(chain'[d])] IN
                     /\ Supports(d) /\ EventsOf(e.resource, d) # {}
                     /\ e.relation \notin {"implements", "tests", "evaluates"}
                     /\ e.resource \in Observations]_decisionVars
  BY <1>2, <1>3
<1> QED
  BY <1>3, DecisionsHold, PTL DEF DecisionSpec, ReplacedDecisionsOnlyFinish
=============================================================================
