------------------------ MODULE FormalExecutionProofs ------------------------
(***************************************************************************)
(* Proofs about FormalExecution, for every set of handlers, runs and rounds *)
(* and every bound: its steps are steps of the ledger, and its invariants   *)
(* hold.                                                                    *)
(*                                                                          *)
(* What has to be added to make them inductive is the lock: every handler   *)
(* but its holder is idle, so that no step but the handler's own disturbs   *)
(* what it knows (HandlerOK) about its run, its slot and its round.         *)
(***************************************************************************)
EXTENDS FormalExecution, ProviderLedgerProofs

Steps == {"off", "launch", "resume", "generate", "recover", "preflight", "blocked", "open",
          "reopen", "bind", "checkpoint", "discuss", "draft", "write", "send_probe",
          "await_probe", "send_late", "await_late", "send_call", "await_call",
          "send_minutes", "await_minutes"}
Sending == {"send_probe", "send_late", "send_call", "send_minutes"}
Awaiting == {"await_probe", "await_late", "await_call", "await_minutes"}
WithRun == Sending \cup Awaiting \cup {"launch", "recover", "preflight", "blocked", "open",
                                       "reopen", "bind", "checkpoint", "discuss", "draft"}
WithRound == {"resume", "generate", "reopen", "bind", "checkpoint", "discuss", "send_call",
              "await_call", "draft", "send_minutes", "await_minutes", "write"}
Discussing == {"discuss", "send_call", "await_call"}

HandlerRows == [pc : Steps, run : Runs \cup {"none"}, round : Rounds \cup {NoRound},
                slot : 0 .. MaxBudget]

RecordTypes ==
    /\ roundStatus \in [Rounds -> {"NONE", "RUNNING", "PAUSED", "FINISHED", "CANCELLED"}]
    /\ saved \subseteq Rounds /\ minutes \subseteq Rounds
    /\ sent \in [Runs -> [Slots -> Nat]]
    /\ disruptions \in 0 .. MaxDisruptions

FormalTypes ==
    /\ holder \in Handlers \cup {Nobody}
    /\ handler \in [Handlers -> HandlerRows]
    /\ RecordTypes

Bound(d) == \E r \in Runs : ledger[r].round = d

\* What a handler knows, by where it is.
HandlerOK(h) ==
    LET x == handler[h] IN
    /\ IF x.pc = "off" THEN x = Off ELSE holder = h
    /\ x.pc \in WithRun => x.run \in Runs
    /\ x.pc \in WithRound => x.round \in Rounds
    /\ x.pc \in Sending \cup Awaiting =>
          x.slot \in Slots /\ attempt[x.run][x.slot].status = "STARTED"
    /\ x.pc \in Sending => sent[x.run][x.slot] = 0
    /\ x.pc = "checkpoint" => Bound(x.round)
    /\ x.pc \in Discussing => x.round \in saved

PaidOK ==
    \A r \in Runs, s \in Slots :
       sent[r][s] <= 1 /\ (sent[r][s] # 0 => attempt[r][s].status # "NONE")

RoundsOK ==
    /\ \A d \in saved : Bound(d)
    /\ \A d \in Rounds : roundStatus[d] \in {"PAUSED", "FINISHED"} => d \in saved
    /\ \A q, r \in Runs : ledger[q].round = ledger[r].round /\ q # r => ledger[r].round = NoRound

FormalInv ==
    /\ LedgerInv
    /\ FormalTypes
    /\ \A h \in Handlers : HandlerOK(h)
    /\ PaidOK
    /\ RoundsOK

-----------------------------------------------------------------------------
(* What the lock gives.                                                     *)

LEMMA OffOK == ASSUME NEW g, handler'[g] = Off PROVE HandlerOK(g)'
  BY DEF HandlerOK, Off, Sending, Awaiting, WithRun, WithRound, Discussing

LEMMA OthersIdle ==
    ASSUME FormalInv, NEW h \in Handlers, handler[h].pc # "off" \/ holder = Nobody
    PROVE  /\ handler[h].pc # "off" => holder = h
           /\ \A g \in Handlers \ {h} : handler[g] = Off
<1>1. \A g \in Handlers : handler[g].pc = "off" => handler[g] = Off
  BY DEF FormalInv, HandlerOK
<1>2. \A g \in Handlers : handler[g].pc # "off" => holder = g
  BY DEF FormalInv, HandlerOK
<1>3. Nobody \notin Handlers
  BY FormalAssumption
<1> QED
  BY <1>1, <1>2, <1>3

\* A step that moves one handler needs an argument for that handler only.
LEMMA OneHandler ==
    ASSUME NEW h \in Handlers, HandlerOK(h)', \A g \in Handlers \ {h} : handler'[g] = Off
    PROVE  \A g \in Handlers : HandlerOK(g)'
  BY OffOK

LEMMA GotoFacts ==
    ASSUME FormalInv, NEW h \in Handlers, handler[h].pc # "off", NEW s \in Steps, Goto(h, s)
    PROVE  /\ handler' \in [Handlers -> HandlerRows]
           /\ handler'[h].pc = s /\ handler'[h].run = handler[h].run
           /\ handler'[h].round = handler[h].round /\ handler'[h].slot = handler[h].slot
           /\ \A g \in Handlers \ {h} : handler'[g] = Off
           /\ holder = h
<1>1. handler \in [Handlers -> HandlerRows] /\ handler[h] \in HandlerRows
  BY DEF FormalInv, FormalTypes
<1>2. holder = h /\ \A g \in Handlers \ {h} : handler[g] = Off
  BY OthersIdle
<1>3. handler' = [handler EXCEPT ![h] = [handler[h] EXCEPT !.pc = s]]
  BY DEF Goto
<1>4. [handler[h] EXCEPT !.pc = s] \in HandlerRows
  BY <1>1 DEF HandlerRows
<1>5. handler'[h] = [handler[h] EXCEPT !.pc = s] /\ \A g \in Handlers \ {h} : handler'[g] = Off
  BY <1>1, <1>2, <1>3
<1>6. handler' \in [Handlers -> HandlerRows]
  BY <1>1, <1>3, <1>4
<1>7. /\ handler'[h].pc = s /\ handler'[h].run = handler[h].run
      /\ handler'[h].round = handler[h].round /\ handler'[h].slot = handler[h].slot
  BY <1>1, <1>5 DEF HandlerRows
<1> QED
  BY <1>2, <1>5, <1>6, <1>7

LEMMA OffTyped == Off \in HandlerRows
<1>1. 0 \in 0 .. MaxBudget
  BY LedgerAssumption
<1> QED
  BY <1>1 DEF Off, HandlerRows, Steps

LEMMA ReleaseFacts ==
    ASSUME FormalInv, NEW h \in Handlers, handler[h].pc # "off", Release(h)
    PROVE  /\ handler' \in [Handlers -> HandlerRows] /\ holder' \in Handlers \cup {Nobody}
           /\ \A g \in Handlers : HandlerOK(g)'
<1>1. handler \in [Handlers -> HandlerRows]
  BY DEF FormalInv, FormalTypes
<1>2. \A g \in Handlers : handler'[g] = Off
  BY <1>1, OthersIdle DEF Release
<1>3. handler' \in [Handlers -> HandlerRows]
  BY <1>1, OffTyped DEF Release
<1> QED
  BY <1>2, <1>3, OffOK DEF Release

(* What stays true when little changes.                                     *)

LEMMA PaidFrame ==
    ASSUME PaidOK, sent' = sent,
           \A r \in Runs, s \in Slots :
              attempt[r][s].status # "NONE" => attempt'[r][s].status # "NONE"
    PROVE  PaidOK'
  BY DEF PaidOK

LEMMA RoundsFrame ==
    ASSUME RoundsOK, saved \subseteq saved', \A d \in saved' : Bound(d),
           \A d \in Rounds : /\ roundStatus'[d] \in {"PAUSED", "FINISHED"} => d \in saved',
           \A r \in Runs : ledger'[r].round = ledger[r].round
    PROVE  RoundsOK'
  BY DEF RoundsOK, Bound

LEMMA SameLedger ==
    ASSUME FormalInv, UNCHANGED ledgerVars
    PROVE  /\ LedgerInv'
           /\ ledger' = ledger /\ attempt' = attempt
           /\ sent' = sent => PaidOK'
<1>1. ledger' = ledger /\ attempt' = attempt
  BY DEF ledgerVars
<1>2. LedgerInv'
  BY StepLedgerInv DEF FormalInv
<1>3. sent' = sent => PaidOK'
  BY <1>1 DEF FormalInv, PaidOK
<1> QED
  BY <1>1, <1>2, <1>3

\* A transaction of the handlers other than the binding.
LedgerWrites(r) ==
    \/ \E k \in Kinds : Reserve(r, k)
    \/ \E s \in Slots, o \in Outcomes : FinishCall(r, s, o)
    \/ AbandonStarted(r)
    \/ \E max \in 1 .. MaxBudget, limit \in [Kinds -> 0 .. MaxBudget] : CreateRun(r, max, limit)

\* It keeps the ledger's invariant, no slot becomes free and no run moves to
\* another round.
LEMMA LedgerMoves ==
    ASSUME FormalInv, NEW r \in Runs, LedgerWrites(r)
    PROVE  /\ LedgerInv'
           /\ \A q \in Runs : ledger'[q].round = ledger[q].round
           /\ \A q \in Runs, s \in Slots :
                 attempt[q][s].status # "NONE" => attempt'[q][s].status # "NONE"
           /\ sent' = sent => PaidOK'
<1>1. LedgerInv /\ PaidOK
  BY DEF FormalInv
<1>2. LedgerInv'
  BY <1>1, CreateLedgerInv, ReserveLedgerInv, FinishSettles, AbandonSettles, SettleLedgerInv
  DEF LedgerWrites
<1>3. ledger \in [Runs -> LedgerRows] /\ attempt \in [Runs -> [Slots -> AttemptRows]]
  BY <1>1, RunFacts
<1>4. ASSUME NEW q \in Runs
      PROVE  /\ ledger'[q].round = ledger[q].round
             /\ \A s \in Slots : attempt[q][s].status # "NONE" => attempt'[q][s].status # "NONE"
  <2>1. CASE \E k \in Kinds : Reserve(r, k)
    BY <1>3, <2>1 DEF Reserve, LedgerRows, AttemptRows
  <2>2. CASE \E s \in Slots, o \in Outcomes : FinishCall(r, s, o)
    BY <1>3, <2>2 DEF FinishCall, AfterSettling, LedgerRows, AttemptRows, Outcomes
  <2>3. CASE AbandonStarted(r)
    BY <1>3, <2>3 DEF AbandonStarted, AfterSettling, LedgerRows, AttemptRows
  <2>4. CASE \E max \in 1 .. MaxBudget, limit \in [Kinds -> 0 .. MaxBudget] :
                CreateRun(r, max, limit)
    <3>1. ledger[r] = NoRun /\ attempt' = attempt
      BY <1>1, <2>4 DEF CreateRun, Created, LedgerInv, AbsentOf
    <3> QED
      BY <1>3, <2>4, <3>1 DEF CreateRun, NoRun
  <2> QED
    BY <2>1, <2>2, <2>3, <2>4 DEF LedgerWrites
<1>5. sent' = sent => PaidOK'
  BY <1>1, <1>4, PaidFrame
<1> QED
  BY <1>2, <1>4, <1>5

LEMMA DisruptTyped ==
    ASSUME disruptions \in 0 .. MaxDisruptions, Disrupt
    PROVE  disruptions' \in 0 .. MaxDisruptions
  BY FormalAssumption DEF Disrupt

LEMMA SameRounds ==
    ASSUME FormalInv, UNCHANGED rounds, \A r \in Runs : ledger'[r].round = ledger[r].round
    PROVE  RoundsOK'
<1>1. RoundsOK /\ saved' = saved /\ roundStatus' = roundStatus
  BY DEF FormalInv, rounds
<1> QED
  BY <1>1, RoundsFrame DEF RoundsOK

\* A handler goes on.
LEMMA GoesOn ==
    ASSUME FormalInv, NEW h \in Handlers, handler[h].pc # "off", NEW s \in Steps, Goto(h, s),
           holder' = holder, RecordTypes', HandlerOK(h)', LedgerInv', PaidOK', RoundsOK'
    PROVE  FormalInv'
<1>1. handler' \in [Handlers -> HandlerRows] /\ \A g \in Handlers \ {h} : handler'[g] = Off
  BY GotoFacts
<1>2. \A g \in Handlers : HandlerOK(g)'
  BY <1>1, OneHandler
<1>3. FormalTypes'
  BY <1>1 DEF FormalInv, FormalTypes
<1> QED
  BY <1>2, <1>3 DEF FormalInv

\* A handler ends; the ledger is not touched.
LEMMA Ends ==
    ASSUME FormalInv, NEW h \in Handlers, handler[h].pc # "off", Release(h),
           UNCHANGED <<ledgerVars, sent>>, RecordTypes', RoundsOK'
    PROVE  FormalInv'
<1>1. LedgerInv' /\ PaidOK'
  BY SameLedger
<1>2. /\ handler' \in [Handlers -> HandlerRows] /\ holder' \in Handlers \cup {Nobody}
      /\ \A g \in Handlers : HandlerOK(g)'
  BY ReleaseFacts
<1> QED
  BY <1>1, <1>2 DEF FormalInv, FormalTypes

-----------------------------------------------------------------------------
(* One lemma per action.                                                    *)

LEMMA EnterInv ==
    ASSUME FormalInv, NEW h \in Handlers, NEW s, NEW r, NEW d, Enter(h, s, r, d),
           \/ s = "launch" /\ r \in Runs /\ d = NoRound
           \/ s \in {"resume", "generate"} /\ r = "none" /\ d \in Rounds
    PROVE  FormalInv'
<1> DEFINE row == [pc |-> s, run |-> r, round |-> d, slot |-> 0]
<1>1. UNCHANGED ledgerVars /\ holder = Nobody /\ holder' = h /\ UNCHANGED rounds /\ sent' = sent
  BY DEF Enter
<1>2. LedgerInv' /\ PaidOK' /\ ledger' = ledger
  BY <1>1, SameLedger
<1>3. RoundsOK'
  BY <1>1, <1>2, SameRounds
<1>4. \A g \in Handlers \ {h} : handler[g] = Off
  BY <1>1, OthersIdle
<1>5. handler \in [Handlers -> HandlerRows] /\ handler' = [handler EXCEPT ![h] = row]
  BY DEF FormalInv, FormalTypes, Enter
<1>6. row \in HandlerRows
  <2>1. 0 \in 0 .. MaxBudget
    BY LedgerAssumption
  <2> QED
    BY <2>1 DEF HandlerRows, Steps
<1>7. /\ handler' \in [Handlers -> HandlerRows] /\ handler'[h] = row
      /\ \A g \in Handlers \ {h} : handler'[g] = Off
  BY <1>4, <1>5, <1>6
<1>8. HandlerOK(h)'
  BY <1>1, <1>7 DEF HandlerOK, Sending, Awaiting, WithRun, WithRound, Discussing
<1>9. \A g \in Handlers : HandlerOK(g)'
  BY <1>7, <1>8, OneHandler
<1>10. RecordTypes'
  BY DEF FormalInv, FormalTypes, RecordTypes, Enter, rounds
<1> QED
  BY <1>1, <1>2, <1>3, <1>7, <1>9, <1>10 DEF FormalInv, FormalTypes

LEMMA GiveUpInv ==
    ASSUME FormalInv, NEW h \in Handlers, GiveUp(h)
    PROVE  FormalInv'
<1>1. handler[h].pc # "off" /\ Release(h) /\ UNCHANGED ledgerVars /\ UNCHANGED rounds
  BY DEF GiveUp, At
<1>2. RoundsOK'
  BY <1>1, SameLedger, SameRounds
<1>3. RecordTypes'
  BY DEF FormalInv, FormalTypes, RecordTypes, GiveUp, rounds
<1> QED
  BY <1>1, <1>2, <1>3, Ends DEF GiveUp

LEMMA OpenLedgerInv ==
    ASSUME FormalInv, NEW h \in Handlers, OpenLedger(h)
    PROVE  /\ FormalInv'
           /\ LedgerNext \/ UNCHANGED ledgerVars
<1> DEFINE r == handler[h].run
<1>1. handler[h].pc = "launch" /\ Goto(h, "recover") /\ holder' = holder /\ UNCHANGED rounds
      /\ sent' = sent
  BY DEF OpenLedger, At
<1>2. r \in Runs /\ HandlerOK(h)
  BY <1>1 DEF FormalInv, HandlerOK, WithRun
<1>3. /\ handler'[h].pc = "recover" /\ handler'[h].run = r /\ holder = h
      /\ handler'[h].round = handler[h].round
  BY <1>1, GotoFacts DEF Steps
<1>4. HandlerOK(h)'
  BY <1>1, <1>2, <1>3 DEF HandlerOK, Sending, Awaiting, WithRun, WithRound, Discussing
<1>5. RecordTypes'
  BY DEF FormalInv, FormalTypes, RecordTypes, OpenLedger, rounds
<1>6. CASE UNCHANGED ledgerVars
  <2>1. LedgerInv' /\ PaidOK' /\ RoundsOK'
    BY <1>1, <1>6, SameLedger, SameRounds
  <2> QED
    BY <1>1, <1>4, <1>5, <1>6, <2>1, GoesOn DEF Steps
<1>7. CASE \E plan \in Plans :
              CreateRun(r, plan[1],
                        [[k \in Kinds |-> MaxBudget] EXCEPT !["round_director"] = plan[2]])
  <2>1. PICK plan \in Plans :
              CreateRun(r, plan[1],
                        [[k \in Kinds |-> MaxBudget] EXCEPT !["round_director"] = plan[2]])
    BY <1>7
  <2>2. plan[1] \in 1 .. MaxBudget /\ plan[2] \in 0 .. MaxBudget
    BY FormalAssumption
  <2>3. [[k \in Kinds |-> MaxBudget] EXCEPT !["round_director"] = plan[2]]
          \in [Kinds -> 0 .. MaxBudget]
    <3>1. MaxBudget \in 0 .. MaxBudget
      BY LedgerAssumption
    <3>2. [k \in Kinds |-> MaxBudget] \in [Kinds -> 0 .. MaxBudget]
      BY <3>1
    <3>3. ASSUME NEW f \in [Kinds -> 0 .. MaxBudget]
          PROVE  [f EXCEPT !["round_director"] = plan[2]] \in [Kinds -> 0 .. MaxBudget]
      BY <2>2
    <3> QED
      BY <3>2, <3>3
  <2>4. \E max \in 1 .. MaxBudget, limit \in [Kinds -> 0 .. MaxBudget] : CreateRun(r, max, limit)
    BY <2>1, <2>2, <2>3
  <2>5. LedgerInv' /\ PaidOK' /\ \A q \in Runs : ledger'[q].round = ledger[q].round
    BY <1>1, <1>2, <2>4, LedgerMoves DEF LedgerWrites
  <2>6. RoundsOK'
    BY <1>1, <2>5, SameRounds
  <2>7. LedgerNext
    BY <1>2, <2>4 DEF LedgerNext, LedgerStep, CreateRun
  <2> QED
    BY <1>1, <1>4, <1>5, <2>5, <2>6, <2>7, GoesOn DEF Steps
<1> QED
  BY <1>6, <1>7 DEF OpenLedger

LEMMA FindLedgerInv ==
    ASSUME FormalInv, NEW h \in Handlers, FindLedger(h)
    PROVE  FormalInv'
<1>1. PICK r \in RunOf(handler[h].round) :
          handler' = [handler EXCEPT ![h].pc = "recover", ![h].run = r]
  BY DEF FindLedger
<1>2. /\ r \in Runs /\ handler[h].pc = "resume" /\ UNCHANGED ledgerVars /\ UNCHANGED rounds
      /\ holder' = holder /\ sent' = sent
  BY DEF FindLedger, At, RunOf
<1>3. LedgerInv' /\ PaidOK' /\ RoundsOK'
  BY <1>2, SameLedger, SameRounds
<1>4. RecordTypes'
  BY DEF FormalInv, FormalTypes, RecordTypes, FindLedger, rounds
<1>5. holder = h /\ \A g \in Handlers \ {h} : handler[g] = Off
  BY <1>2, OthersIdle
<1>6. handler \in [Handlers -> HandlerRows] /\ HandlerOK(h)
  BY DEF FormalInv, FormalTypes
<1> DEFINE row == [handler[h] EXCEPT !.pc = "recover", !.run = r]
<1>7. /\ handler' = [handler EXCEPT ![h] = row] /\ row \in HandlerRows
      /\ row.pc = "recover" /\ row.run = r /\ row.round = handler[h].round
  BY <1>1, <1>2, <1>6 DEF HandlerRows, Steps
<1>8. /\ handler' \in [Handlers -> HandlerRows] /\ handler'[h] = row
      /\ \A g \in Handlers \ {h} : handler'[g] = Off
  BY <1>5, <1>6, <1>7
<1>9. HandlerOK(h)'
  BY <1>2, <1>5, <1>6, <1>7, <1>8
  DEF HandlerOK, Sending, Awaiting, WithRun, WithRound, Discussing
<1>10. \A g \in Handlers : HandlerOK(g)'
  BY <1>8, <1>9, OneHandler
<1> QED
  BY <1>2, <1>3, <1>4, <1>8, <1>10 DEF FormalInv, FormalTypes

\* Recovering the calls an earlier process left in flight.
LEMMA OrphansMoves ==
    ASSUME FormalInv, NEW r \in Runs, Orphans(r)
    PROVE  /\ LedgerInv'
           /\ \A q \in Runs : ledger'[q].round = ledger[q].round
           /\ sent' = sent => PaidOK'
           /\ LedgerNext \/ UNCHANGED ledgerVars
<1>1. CASE AbandonStarted(r)
  BY <1>1, LedgerMoves DEF LedgerWrites, LedgerNext, LedgerStep
<1>2. CASE UNCHANGED ledgerVars
  BY <1>2, SameLedger
<1> QED
  BY <1>1, <1>2 DEF Orphans

LEMMA RecoverCallsInv ==
    ASSUME FormalInv, NEW h \in Handlers, RecoverCalls(h)
    PROVE  /\ FormalInv'
           /\ LedgerNext \/ UNCHANGED ledgerVars
<1> DEFINE r == handler[h].run
<1>1. /\ handler[h].pc = "recover" /\ Goto(h, "preflight") /\ holder' = holder
      /\ UNCHANGED rounds /\ sent' = sent /\ Orphans(r)
  BY DEF RecoverCalls, At
<1>2. r \in Runs
  BY <1>1 DEF FormalInv, HandlerOK, WithRun
<1>3. /\ LedgerInv' /\ PaidOK' /\ \A q \in Runs : ledger'[q].round = ledger[q].round
      /\ LedgerNext \/ UNCHANGED ledgerVars
  BY <1>1, <1>2, OrphansMoves
<1>4. RoundsOK'
  BY <1>1, <1>3, SameRounds
<1>5. handler'[h].pc = "preflight" /\ handler'[h].run = r /\ holder = h
  BY <1>1, GotoFacts DEF Steps
<1>6. HandlerOK(h)'
  BY <1>1, <1>2, <1>5 DEF HandlerOK, Sending, Awaiting, WithRun, WithRound, Discussing
<1>7. RecordTypes'
  BY DEF FormalInv, FormalTypes, RecordTypes, RecoverCalls, rounds
<1> QED
  BY <1>1, <1>3, <1>4, <1>6, <1>7, GoesOn DEF Steps

LEMMA ReserveCallInv ==
    ASSUME FormalInv, NEW h \in Handlers, ReserveCall(h)
    PROVE  /\ FormalInv'
           /\ LedgerNext
<1> DEFINE x == handler[h]
           r == x.run
           n == ledger[r].reserved + 1
<1>1. PICK c \in Callers :
          /\ At(h, c.from) /\ \E k \in c.kinds : Reserve(r, k)
          /\ handler' = [handler EXCEPT ![h].pc = c.send, ![h].slot = n]
  BY DEF ReserveCall
<1>2. /\ c.from \in {"preflight", "blocked", "discuss", "draft"} /\ c.send \in Sending
      /\ c.kinds \subseteq Kinds /\ x.pc = c.from
      /\ (c.send = "send_call" => c.from = "discuss")
      /\ (c.send = "send_minutes" => c.from = "draft")
  BY <1>1, FormalAssumption DEF Callers, Probes, LateProbes, Calls, Drafts, Sending, At
<1>3. /\ holder' = holder /\ UNCHANGED rounds /\ sent' = sent
  BY DEF ReserveCall
<1>4. r \in Runs /\ HandlerOK(h) /\ x \in HandlerRows /\ handler \in [Handlers -> HandlerRows]
  BY <1>2 DEF FormalInv, FormalTypes, HandlerOK, WithRun
<1>5. PICK k \in Kinds : Reserve(r, k)
  BY <1>1, <1>2
<1>6. LedgerInv' /\ PaidOK' /\ \A q \in Runs : ledger'[q].round = ledger[q].round
  BY <1>3, <1>4, <1>5, LedgerMoves DEF LedgerWrites
<1>7. RoundsOK'
  BY <1>3, <1>6, SameRounds
<1>8. n \in Slots /\ n \in 0 .. MaxBudget
  BY <1>4, <1>5, RunFacts, LedgerAssumption DEF FormalInv, Reserve, Slots
<1>9. attempt[r][n].status = "NONE"
  <2>1. Reserved(r) = 1 .. ledger[r].reserved /\ ledger[r].reserved \in Nat
    BY <1>4, RunFacts DEF FormalInv, LedgerInv, AccountsOf
  <2>2. n \notin Reserved(r)
    BY <2>1
  <2> QED
    BY <1>8, <2>2 DEF Reserved
<1>10. sent[r][n] = 0
  BY <1>4, <1>8, <1>9 DEF FormalInv, PaidOK
<1>11. attempt'[r][n].status = "STARTED"
  <2>1. attempt \in [Runs -> [Slots -> AttemptRows]]
    BY <1>4, RunFacts DEF FormalInv
  <2> QED
    BY <1>4, <1>5, <1>8, <2>1 DEF Reserve
<1> DEFINE row == [x EXCEPT !.pc = c.send, !.slot = n]
<1>12. /\ row \in HandlerRows /\ row.pc = c.send /\ row.slot = n
       /\ row.run = r /\ row.round = x.round
  <2>1. c.send \in Steps
    BY <1>2 DEF Sending, Steps
  <2> QED
    BY <1>4, <1>8, <2>1 DEF HandlerRows
<1>13. holder = h /\ \A g \in Handlers \ {h} : handler[g] = Off
  BY <1>2, OthersIdle
<1>14. /\ handler' \in [Handlers -> HandlerRows] /\ handler'[h] = row
       /\ \A g \in Handlers \ {h} : handler'[g] = Off
  BY <1>1, <1>4, <1>12, <1>13
<1>15. HandlerOK(h)'
  <2>1. x.pc = "discuss" => x.round \in Rounds /\ x.round \in saved
    BY <1>4 DEF HandlerOK, WithRound, Discussing
  <2>2. x.pc = "draft" => x.round \in Rounds
    BY <1>4 DEF HandlerOK, WithRound
  <2>3. saved' = saved
    BY <1>3 DEF rounds
  <2> QED
    BY <1>2, <1>3, <1>4, <1>8, <1>10, <1>11, <1>12, <1>13, <1>14, <2>1, <2>2, <2>3
    DEF HandlerOK, Sending, Awaiting, WithRun, WithRound, Discussing
<1>16. \A g \in Handlers : HandlerOK(g)'
  BY <1>14, <1>15, OneHandler
<1>17. RecordTypes'
  BY DEF FormalInv, FormalTypes, RecordTypes, ReserveCall, rounds
<1>18. LedgerNext
  BY <1>4, <1>5 DEF LedgerNext, LedgerStep
<1> QED
  BY <1>3, <1>6, <1>7, <1>14, <1>16, <1>17, <1>18 DEF FormalInv, FormalTypes

LEMMA SendRequestInv ==
    ASSUME FormalInv, NEW h \in Handlers, SendRequest(h)
    PROVE  FormalInv'
<1> DEFINE r == handler[h].run
           s == handler[h].slot
<1>1. PICK c \in Callers : At(h, c.send) /\ Goto(h, c.await)
  BY DEF SendRequest
<1>2. /\ handler[h].pc = c.send /\ c.send \in Sending /\ c.await \in Awaiting
      /\ c.await \in Steps /\ c.send # "off"
      /\ (c.await = "await_call" => c.send = "send_call")
      /\ (c.await = "await_minutes" => c.send = "send_minutes")
  BY <1>1 DEF Callers, Probes, LateProbes, Calls, Drafts, Sending, Awaiting, Steps, At
<1>3. /\ UNCHANGED ledgerVars /\ holder' = holder /\ UNCHANGED rounds
      /\ sent' = [sent EXCEPT ![r][s] = @ + 1]
  BY DEF SendRequest
<1>4. HandlerOK(h) /\ r \in Runs /\ s \in Slots /\ attempt[r][s].status = "STARTED"
      /\ sent[r][s] = 0
  BY <1>2 DEF FormalInv, HandlerOK, WithRun
<1>5. LedgerInv' /\ RoundsOK' /\ attempt' = attempt
  BY <1>3, SameLedger, SameRounds
<1>6. sent \in [Runs -> [Slots -> Nat]] /\ sent' \in [Runs -> [Slots -> Nat]]
  BY <1>3, <1>4 DEF FormalInv, FormalTypes, RecordTypes
<1>7. PaidOK'
  BY <1>3, <1>4, <1>5, <1>6 DEF FormalInv, PaidOK
<1>8. /\ handler'[h].pc = c.await /\ handler'[h].run = r /\ handler'[h].slot = s
      /\ handler'[h].round = handler[h].round /\ holder = h
  BY <1>1, <1>2, GotoFacts
<1>9. HandlerOK(h)'
  <2>1. saved' = saved
    BY <1>3 DEF rounds
  <2> QED
    BY <1>2, <1>3, <1>4, <1>5, <1>8, <2>1
    DEF HandlerOK, Sending, Awaiting, WithRun, WithRound, Discussing
<1>10. RecordTypes'
  BY <1>6 DEF FormalInv, FormalTypes, RecordTypes, SendRequest, rounds
<1> QED
  BY <1>1, <1>2, <1>3, <1>5, <1>7, <1>9, <1>10, GoesOn

LEMMA SettleCallInv ==
    ASSUME FormalInv, NEW h \in Handlers, SettleCall(h)
    PROVE  /\ FormalInv'
           /\ LedgerNext
<1> DEFINE r == handler[h].run
           s == handler[h].slot
<1>1. PICK c \in Callers : At(h, c.await) /\ Goto(h, c.then)
  BY DEF SettleCall
<1>2. /\ handler[h].pc = c.await /\ c.await \in Awaiting /\ c.await # "off"
      /\ c.then \in {"preflight", "blocked", "discuss", "write"} /\ c.then \in Steps
      /\ (c.then = "discuss" => c.await = "await_call")
      /\ (c.then = "write" => c.await = "await_minutes")
  BY <1>1 DEF Callers, Probes, LateProbes, Calls, Drafts, Awaiting, Steps, At
<1>3. holder' = holder /\ UNCHANGED rounds /\ sent' = sent
  BY DEF SettleCall
<1>4. HandlerOK(h) /\ r \in Runs /\ s \in Slots
  BY <1>2 DEF FormalInv, HandlerOK, WithRun
<1>5. PICK o \in Outcomes : FinishCall(r, s, o)
  BY FormalAssumption DEF SettleCall
<1>6. LedgerInv' /\ PaidOK' /\ \A q \in Runs : ledger'[q].round = ledger[q].round
  BY <1>3, <1>4, <1>5, LedgerMoves DEF LedgerWrites
<1>7. RoundsOK'
  BY <1>3, <1>6, SameRounds
<1>8. /\ handler'[h].pc = c.then /\ handler'[h].run = r
      /\ handler'[h].round = handler[h].round /\ holder = h
  BY <1>1, <1>2, GotoFacts
<1>9. HandlerOK(h)'
  <2>1. saved' = saved
    BY <1>3 DEF rounds
  <2> QED
    BY <1>2, <1>3, <1>4, <1>8, <2>1
    DEF HandlerOK, Sending, Awaiting, WithRun, WithRound, Discussing
<1>10. RecordTypes'
  BY DEF FormalInv, FormalTypes, RecordTypes, SettleCall, rounds
<1>11. LedgerNext
  BY <1>4, <1>5 DEF LedgerNext, LedgerStep
<1> QED
  BY <1>1, <1>2, <1>3, <1>6, <1>7, <1>9, <1>10, <1>11, GoesOn

LEMMA SettleFailsInv ==
    ASSUME FormalInv, NEW h \in Handlers, SettleFails(h)
    PROVE  FormalInv'
<1>1. /\ handler[h].pc \in Awaiting /\ handler[h].pc # "off" /\ UNCHANGED <<ledgerVars, sent>>
      /\ ledger' = ledger /\ saved' = saved
  BY DEF SettleFails, At, ledgerVars, rounds, Awaiting
<1>2. RoundsOK /\ FormalTypes
  BY DEF FormalInv
<1>3. RecordTypes'
  BY <1>2, DisruptTyped DEF FormalTypes, RecordTypes, SettleFails, rounds, SetStatus
<1>4. LedgerInv' /\ PaidOK'
  BY <1>1, SameLedger
<1>5. CASE /\ Goto(h, "blocked") /\ UNCHANGED <<holder, rounds>>
  <2>1. RoundsOK'
    BY <1>1, <1>5, SameRounds
  <2>2. handler'[h].pc = "blocked" /\ handler'[h].run = handler[h].run /\ holder = h
    BY <1>1, <1>5, GotoFacts DEF Steps
  <2>3. handler[h].run \in Runs
    BY <1>1 DEF FormalInv, HandlerOK, WithRun
  <2>4. HandlerOK(h)'
    BY <1>5, <2>2, <2>3
    DEF HandlerOK, Sending, Awaiting, WithRun, WithRound, Discussing
  <2> QED
    BY <1>1, <1>3, <1>4, <1>5, <2>1, <2>4, GoesOn DEF Steps
<1>6. CASE Release(h) /\ UNCHANGED rounds
  <2>1. RoundsOK'
    BY <1>1, <1>6, SameRounds
  <2> QED
    BY <1>1, <1>3, <1>6, <2>1, Ends
<1>7. CASE At(h, "await_call") /\ Release(h) /\ SetStatus(handler[h].round, "PAUSED")
  <2>1. handler[h].round \in saved
    BY <1>7 DEF FormalInv, HandlerOK, At, Discussing
  <2>2. RoundsOK'
    BY <1>1, <1>2, <1>7, <2>1, RoundsFrame DEF RoundsOK, SetStatus, FormalTypes, RecordTypes
  <2> QED
    BY <1>1, <1>3, <1>7, <2>2, Ends
<1> QED
  BY <1>5, <1>6, <1>7 DEF SettleFails

LEMMA ToOrchestratorInv ==
    ASSUME FormalInv, NEW h \in Handlers, ToOrchestrator(h)
    PROVE  FormalInv'
<1>1. PICK s \in {"open", "reopen"} :
          Goto(h, s) /\ (s = "reopen" => handler[h].round # NoRound)
  BY DEF ToOrchestrator
<1>2. /\ handler[h].pc = "preflight" /\ UNCHANGED ledgerVars /\ UNCHANGED rounds
      /\ holder' = holder /\ sent' = sent
  BY DEF ToOrchestrator, At
<1>3. LedgerInv' /\ PaidOK' /\ RoundsOK'
  BY <1>2, SameLedger, SameRounds
<1>4. /\ handler'[h].pc = s /\ handler'[h].run = handler[h].run
      /\ handler'[h].round = handler[h].round /\ holder = h /\ s \in Steps
  BY <1>1, <1>2, GotoFacts DEF Steps
<1>5. handler[h].run \in Runs /\ handler[h].round \in Rounds \cup {NoRound}
  BY <1>2 DEF FormalInv, FormalTypes, HandlerOK, HandlerRows, WithRun
<1>6. HandlerOK(h)'
  BY <1>1, <1>2, <1>4, <1>5
  DEF HandlerOK, Sending, Awaiting, WithRun, WithRound, Discussing
<1>7. RecordTypes'
  BY DEF FormalInv, FormalTypes, RecordTypes, ToOrchestrator, rounds
<1> QED
  BY <1>1, <1>2, <1>3, <1>4, <1>6, <1>7, GoesOn

LEMMA CreateRoundInv ==
    ASSUME FormalInv, NEW h \in Handlers, CreateRound(h)
    PROVE  FormalInv'
<1>1. PICK d \in Rounds :
          /\ roundStatus[d] = "NONE" /\ SetStatus(d, "RUNNING")
          /\ handler' = [handler EXCEPT ![h].pc = "bind", ![h].round = d]
  BY DEF CreateRound
<1>2. /\ handler[h].pc = "open" /\ UNCHANGED ledgerVars /\ holder' = holder /\ sent' = sent
      /\ saved' = saved
  BY DEF CreateRound, At
<1>3. LedgerInv' /\ PaidOK' /\ ledger' = ledger
  BY <1>2, SameLedger
<1>4. RoundsOK /\ FormalTypes /\ HandlerOK(h) /\ handler[h].run \in Runs
  BY <1>2 DEF FormalInv, HandlerOK, WithRun
<1>5. RoundsOK'
  BY <1>1, <1>2, <1>3, <1>4, RoundsFrame DEF RoundsOK, SetStatus, FormalTypes, RecordTypes
<1> DEFINE row == [handler[h] EXCEPT !.pc = "bind", !.round = d]
<1>6. /\ handler' = [handler EXCEPT ![h] = row] /\ row \in HandlerRows
      /\ row.pc = "bind" /\ row.run = handler[h].run /\ row.round = d
  BY <1>1, <1>4 DEF FormalTypes, HandlerRows, Steps
<1>7. holder = h /\ \A g \in Handlers \ {h} : handler[g] = Off
  BY <1>2, OthersIdle
<1>8. /\ handler' \in [Handlers -> HandlerRows] /\ handler'[h] = row
      /\ \A g \in Handlers \ {h} : handler'[g] = Off
  BY <1>4, <1>6, <1>7 DEF FormalTypes
<1>9. HandlerOK(h)'
  BY <1>1, <1>2, <1>4, <1>6, <1>7, <1>8
  DEF HandlerOK, Sending, Awaiting, WithRun, WithRound, Discussing
<1>10. \A g \in Handlers : HandlerOK(g)'
  BY <1>8, <1>9, OneHandler
<1>11. RecordTypes'
  BY <1>1, <1>4 DEF FormalTypes, RecordTypes, CreateRound, SetStatus
<1> QED
  BY <1>2, <1>3, <1>4, <1>5, <1>8, <1>10, <1>11 DEF FormalInv, FormalTypes

LEMMA BindInv ==
    ASSUME FormalInv, NEW h \in Handlers, Bind(h)
    PROVE  /\ FormalInv'
           /\ LedgerNext
<1> DEFINE r == handler[h].run
           d == handler[h].round
<1>1. /\ handler[h].pc = "bind" /\ Goto(h, "checkpoint") /\ holder' = holder
      /\ UNCHANGED rounds /\ sent' = sent /\ BindRound(r, d) /\ attempt' = attempt
  BY DEF Bind, At, BindRound
<1>2. r \in Runs /\ d \in Rounds /\ HandlerOK(h)
  BY <1>1 DEF FormalInv, HandlerOK, WithRun, WithRound
<1>3. LedgerInv'
  BY <1>1, <1>2, BindLedgerInv DEF FormalInv
<1>4. PaidOK'
  BY <1>1 DEF FormalInv, PaidOK
<1>5. ledger \in [Runs -> LedgerRows]
  BY <1>2, RunFacts DEF FormalInv
<1>6. /\ ledger[r].round = NoRound /\ ledger'[r].round = d
      /\ \A q \in Runs : ledger[q].round # d
      /\ \A q \in Runs \ {r} : ledger'[q].round = ledger[q].round
  BY <1>1, <1>2, <1>5 DEF BindRound, LedgerRows
<1>7. RoundsOK /\ saved \subseteq Rounds /\ saved' = saved /\ roundStatus' = roundStatus
  BY <1>1 DEF FormalInv, FormalTypes, RecordTypes, rounds
<1>8. RoundsOK'
  <2>1. ASSUME NEW e \in saved' PROVE Bound(e)'
    <3>1. PICK q \in Runs : ledger[q].round = e
      BY <1>7, <2>1 DEF RoundsOK, Bound
    <3>2. e \in Rounds /\ NoRound \notin Rounds
      BY <1>7, <2>1, LedgerAssumption
    <3>3. q # r
      BY <1>6, <3>1, <3>2
    <3> QED
      BY <1>6, <3>1, <3>3 DEF Bound
  <2>2. ASSUME NEW p \in Runs, NEW q \in Runs, ledger'[p].round = ledger'[q].round, p # q
        PROVE  ledger'[q].round = NoRound
    BY <1>6, <1>7, <2>2 DEF RoundsOK
  <2> QED
    BY <1>7, <2>1, <2>2 DEF RoundsOK
<1>9. /\ handler'[h].pc = "checkpoint" /\ handler'[h].run = r /\ handler'[h].round = d
      /\ holder = h
  BY <1>1, GotoFacts DEF Steps
<1>10. HandlerOK(h)'
  BY <1>1, <1>2, <1>6, <1>9
  DEF HandlerOK, Bound, Sending, Awaiting, WithRun, WithRound, Discussing
<1>11. RecordTypes'
  BY DEF FormalInv, FormalTypes, RecordTypes, Bind, rounds
<1>12. LedgerNext
  BY <1>1, <1>2 DEF LedgerNext, LedgerStep
<1> QED
  BY <1>1, <1>3, <1>4, <1>8, <1>10, <1>11, <1>12, GoesOn DEF Steps

LEMMA BindFailsInv ==
    ASSUME FormalInv, NEW h \in Handlers, BindFails(h)
    PROVE  FormalInv'
<1>1. /\ handler[h].pc # "off" /\ Release(h) /\ UNCHANGED <<ledgerVars, sent>>
      /\ ledger' = ledger /\ saved' = saved /\ SetStatus(handler[h].round, "CANCELLED")
  BY DEF BindFails, At, ledgerVars
<1>2. RoundsOK /\ FormalTypes
  BY DEF FormalInv
<1>3. RoundsOK'
  BY <1>1, <1>2, RoundsFrame DEF RoundsOK, SetStatus, FormalTypes, RecordTypes
<1>4. RecordTypes'
  BY <1>2, DisruptTyped DEF FormalTypes, RecordTypes, BindFails, SetStatus
<1> QED
  BY <1>1, <1>3, <1>4, Ends

LEMMA ResumeRoundInv ==
    ASSUME FormalInv, NEW h \in Handlers, ResumeRound(h)
    PROVE  /\ FormalInv'
           /\ LedgerNext \/ UNCHANGED ledgerVars
<1> DEFINE r == handler[h].run
           d == handler[h].round
<1>1. /\ handler[h].pc = "reopen" /\ Orphans(r) /\ d \in saved /\ SetStatus(d, "RUNNING")
      /\ Goto(h, "checkpoint") /\ holder' = holder /\ saved' = saved /\ sent' = sent
  BY DEF ResumeRound, At
<1>2. r \in Runs /\ d \in Rounds /\ RoundsOK /\ FormalTypes
  BY <1>1 DEF FormalInv, HandlerOK, WithRun, WithRound
<1>3. /\ LedgerInv' /\ PaidOK' /\ \A q \in Runs : ledger'[q].round = ledger[q].round
      /\ LedgerNext \/ UNCHANGED ledgerVars
  BY <1>1, <1>2, OrphansMoves
<1>4. RoundsOK'
  BY <1>1, <1>2, <1>3, RoundsFrame DEF RoundsOK, SetStatus, FormalTypes, RecordTypes
<1>5. /\ handler'[h].pc = "checkpoint" /\ handler'[h].run = r /\ handler'[h].round = d
      /\ holder = h
  BY <1>1, GotoFacts DEF Steps
<1>6. \E q \in Runs : ledger'[q].round = d
  BY <1>1, <1>2, <1>3 DEF RoundsOK, Bound
<1>7. HandlerOK(h)'
  BY <1>1, <1>2, <1>5, <1>6
  DEF HandlerOK, Bound, Sending, Awaiting, WithRun, WithRound, Discussing
<1>8. RecordTypes'
  BY <1>2 DEF FormalTypes, RecordTypes, ResumeRound, SetStatus
<1> QED
  BY <1>1, <1>3, <1>4, <1>7, <1>8, GoesOn DEF Steps

LEMMA SaveCheckpointInv ==
    ASSUME FormalInv, NEW h \in Handlers, SaveCheckpoint(h)
    PROVE  FormalInv'
<1> DEFINE d == handler[h].round
<1>1. /\ handler[h].pc = "checkpoint" /\ Goto(h, "discuss") /\ UNCHANGED ledgerVars
      /\ saved' = saved \cup {d} /\ roundStatus' = roundStatus /\ holder' = holder
      /\ sent' = sent
  BY DEF SaveCheckpoint, At
<1>2. handler[h].run \in Runs /\ d \in Rounds /\ Bound(d) /\ RoundsOK /\ FormalTypes
  BY <1>1 DEF FormalInv, HandlerOK, WithRun, WithRound
<1>3. LedgerInv' /\ PaidOK' /\ ledger' = ledger
  BY <1>1, SameLedger
<1>4. RoundsOK'
  <2>1. saved \subseteq saved'
    BY <1>1
  <2>2. \A e \in saved' : Bound(e)
    BY <1>1, <1>2 DEF RoundsOK
  <2>3. \A e \in Rounds : roundStatus'[e] \in {"PAUSED", "FINISHED"} => e \in saved'
    BY <1>1, <1>2 DEF RoundsOK
  <2> QED
    BY <1>2, <1>3, <2>1, <2>2, <2>3, RoundsFrame
<1>5. /\ handler'[h].pc = "discuss" /\ handler'[h].run = handler[h].run
      /\ handler'[h].round = d /\ holder = h
  BY <1>1, GotoFacts DEF Steps
<1>6. HandlerOK(h)'
  BY <1>1, <1>2, <1>5 DEF HandlerOK, Sending, Awaiting, WithRun, WithRound, Discussing
<1>7. RecordTypes'
  BY <1>2 DEF FormalTypes, RecordTypes, SaveCheckpoint
<1> QED
  BY <1>1, <1>3, <1>4, <1>6, <1>7, GoesOn DEF Steps

\* OpeningFault and the two ends of a round.
LEMMA RoundEndsInv ==
    ASSUME FormalInv, NEW h \in Handlers, OpeningFault(h) \/ Park(h) \/ Finish(h)
    PROVE  FormalInv'
<1>1. /\ handler[h].pc # "off" /\ Release(h) /\ UNCHANGED <<ledgerVars, sent>>
      /\ ledger' = ledger /\ saved' = saved /\ minutes' = minutes
  BY DEF OpeningFault, Park, Finish, At, ledgerVars, rounds
<1>2. RoundsOK /\ FormalTypes
  BY DEF FormalInv
<1>3. CASE OpeningFault(h)
  <2>1. RoundsOK'
    BY <1>1, <1>3, SameRounds DEF OpeningFault
  <2>2. RecordTypes'
    BY <1>2, <1>3, DisruptTyped DEF FormalTypes, RecordTypes, OpeningFault, rounds
  <2> QED
    BY <1>1, <2>1, <2>2, Ends
<1>4. CASE Park(h) \/ Finish(h)
  <2>1. PICK s \in {"PAUSED", "FINISHED"} : SetStatus(handler[h].round, s)
    BY <1>4 DEF Park, Finish
  <2>2. handler[h].round \in saved /\ disruptions' = disruptions
    BY <1>4 DEF Park, Finish, At, FormalInv, HandlerOK, Discussing
  <2>3. RoundsOK'
    BY <1>1, <1>2, <2>1, <2>2, RoundsFrame DEF RoundsOK, SetStatus, FormalTypes, RecordTypes
  <2>4. RecordTypes'
    BY <1>1, <1>2, <2>1, <2>2 DEF FormalTypes, RecordTypes, SetStatus
  <2> QED
    BY <1>1, <2>3, <2>4, Ends
<1> QED
  BY <1>3, <1>4

LEMMA CheckMinutesInv ==
    ASSUME FormalInv, NEW h \in Handlers, CheckMinutes(h)
    PROVE  FormalInv'
<1>1. PICK r \in RunOf(handler[h].round) :
          handler' = [handler EXCEPT ![h].pc = "draft", ![h].run = r]
  BY DEF CheckMinutes
<1>2. /\ r \in Runs /\ handler[h].pc = "generate" /\ UNCHANGED ledgerVars /\ UNCHANGED rounds
      /\ holder' = holder /\ sent' = sent
  BY DEF CheckMinutes, At, RunOf
<1>3. LedgerInv' /\ PaidOK' /\ RoundsOK'
  BY <1>2, SameLedger, SameRounds
<1>4. RecordTypes'
  BY DEF FormalInv, FormalTypes, RecordTypes, CheckMinutes, rounds
<1>5. holder = h /\ \A g \in Handlers \ {h} : handler[g] = Off
  BY <1>2, OthersIdle
<1>6. /\ handler \in [Handlers -> HandlerRows] /\ HandlerOK(h)
      /\ handler[h].round \in Rounds
  BY <1>2 DEF FormalInv, FormalTypes, HandlerOK, WithRound
<1> DEFINE row == [handler[h] EXCEPT !.pc = "draft", !.run = r]
<1>7. /\ handler' = [handler EXCEPT ![h] = row] /\ row \in HandlerRows
      /\ row.pc = "draft" /\ row.run = r /\ row.round = handler[h].round
  BY <1>1, <1>2, <1>6 DEF HandlerRows, Steps
<1>8. /\ handler' \in [Handlers -> HandlerRows] /\ handler'[h] = row
      /\ \A g \in Handlers \ {h} : handler'[g] = Off
  BY <1>5, <1>6, <1>7
<1>9. HandlerOK(h)'
  BY <1>2, <1>5, <1>6, <1>7, <1>8
  DEF HandlerOK, Sending, Awaiting, WithRun, WithRound, Discussing
<1>10. \A g \in Handlers : HandlerOK(g)'
  BY <1>8, <1>9, OneHandler
<1> QED
  BY <1>2, <1>3, <1>4, <1>8, <1>10 DEF FormalInv, FormalTypes

LEMMA UseTemplateInv ==
    ASSUME FormalInv, NEW h \in Handlers, UseTemplate(h)
    PROVE  FormalInv'
<1>1. /\ handler[h].pc = "draft" /\ Goto(h, "write") /\ UNCHANGED ledgerVars
      /\ UNCHANGED rounds /\ holder' = holder /\ sent' = sent
  BY DEF UseTemplate, At
<1>2. LedgerInv' /\ PaidOK' /\ RoundsOK'
  BY <1>1, SameLedger, SameRounds
<1>3. /\ handler'[h].pc = "write" /\ handler'[h].round = handler[h].round /\ holder = h
  BY <1>1, GotoFacts DEF Steps
<1>4. handler[h].round \in Rounds
  BY <1>1 DEF FormalInv, HandlerOK, WithRound
<1>5. HandlerOK(h)'
  BY <1>1, <1>3, <1>4 DEF HandlerOK, Sending, Awaiting, WithRun, WithRound, Discussing
<1>6. RecordTypes'
  BY DEF FormalInv, FormalTypes, RecordTypes, UseTemplate, rounds
<1> QED
  BY <1>1, <1>2, <1>5, <1>6, GoesOn DEF Steps

LEMMA WriteMinutesInv ==
    ASSUME FormalInv, NEW h \in Handlers, WriteMinutes(h)
    PROVE  FormalInv'
<1>1. /\ handler[h].pc = "write" /\ Release(h) /\ UNCHANGED <<ledgerVars, sent>>
      /\ UNCHANGED ledgerVars /\ UNCHANGED rounds
  BY DEF WriteMinutes, At
<1>2. RoundsOK'
  BY <1>1, SameLedger, SameRounds
<1>3. handler[h].round \in Rounds
  BY <1>1 DEF FormalInv, HandlerOK, WithRound
<1>4. RecordTypes'
  BY <1>3 DEF FormalInv, FormalTypes, RecordTypes, WriteMinutes, rounds
<1> QED
  BY <1>1, <1>2, <1>4, Ends

LEMMA CancelPausedInv ==
    ASSUME FormalInv, NEW d \in Rounds, CancelPaused(d)
    PROVE  FormalInv'
<1>1. /\ UNCHANGED ledgerVars /\ holder' = holder /\ handler' = handler /\ saved' = saved
      /\ sent' = sent /\ SetStatus(d, "CANCELLED")
  BY DEF CancelPaused
<1>2. LedgerInv' /\ PaidOK' /\ ledger' = ledger /\ attempt' = attempt
  BY <1>1, SameLedger
<1>3. RoundsOK /\ FormalTypes
  BY DEF FormalInv
<1>4. RoundsOK'
  BY <1>1, <1>2, <1>3, RoundsFrame DEF RoundsOK, SetStatus, FormalTypes, RecordTypes
<1>5. FormalTypes'
  BY <1>1, <1>3 DEF FormalTypes, RecordTypes, CancelPaused, SetStatus
<1>6. \A h \in Handlers : HandlerOK(h)'
  BY <1>1, <1>2 DEF FormalInv, HandlerOK, Bound
<1> QED
  BY <1>2, <1>4, <1>5, <1>6 DEF FormalInv

LEMMA CrashInv ==
    ASSUME FormalInv, CrashAndRestart
    PROVE  FormalInv'
<1>1. /\ UNCHANGED ledgerVars /\ holder' = Nobody /\ handler' = [h \in Handlers |-> Off]
      /\ saved' = saved /\ sent' = sent
  BY DEF CrashAndRestart
<1>2. LedgerInv' /\ PaidOK' /\ ledger' = ledger
  BY <1>1, SameLedger
<1>3. RoundsOK /\ FormalTypes
  BY DEF FormalInv
<1>4. roundStatus' \in [Rounds -> {"NONE", "RUNNING", "PAUSED", "FINISHED", "CANCELLED"}]
  BY <1>3 DEF CrashAndRestart, FormalTypes, RecordTypes
<1>5. \A d \in Rounds : roundStatus'[d] \in {"PAUSED", "FINISHED"} => d \in saved
  BY <1>3 DEF RoundsOK, CrashAndRestart
<1>6. RoundsOK'
  BY <1>1, <1>2, <1>3, <1>5, RoundsFrame DEF RoundsOK
<1>7. handler' \in [Handlers -> HandlerRows] /\ \A h \in Handlers : handler'[h] = Off
  BY <1>1, OffTyped
<1>8. FormalTypes'
  BY <1>1, <1>3, <1>4, <1>7, DisruptTyped DEF FormalTypes, RecordTypes, CrashAndRestart
<1>9. \A h \in Handlers : HandlerOK(h)'
  BY <1>7, OffOK
<1> QED
  BY <1>2, <1>6, <1>8, <1>9 DEF FormalInv

LEMMA InitFormalInv == FormalInit => FormalInv
<1> SUFFICES ASSUME FormalInit PROVE FormalInv
  OBVIOUS
<1>1. LedgerInv
  BY InitLedgerInv DEF FormalInit
<1>2. FormalTypes
  BY OffTyped, FormalAssumption DEF FormalInit, FormalTypes, RecordTypes
<1>3. \A h \in Handlers : HandlerOK(h)
  BY DEF FormalInit, HandlerOK, Off, Sending, Awaiting, WithRun, WithRound, Discussing
<1>4. PaidOK
  BY DEF FormalInit, PaidOK
<1>5. RoundsOK
  BY DEF FormalInit, LedgerInit, NoRun, RoundsOK
<1> QED
  BY <1>1, <1>2, <1>3, <1>4, <1>5 DEF FormalInv

LEMMA StepFormalInv ==
    ASSUME FormalInv, [FormalNext]_formalVars
    PROVE  FormalInv' /\ [LedgerNext]_ledgerVars
<1>1. ASSUME NEW h \in Handlers, HandlerStep(h)
      PROVE  FormalInv' /\ (LedgerNext \/ UNCHANGED ledgerVars)
  <2>1. CASE Launch(h)
    <3>1. PICK r \in Runs : Enter(h, "launch", r, NoRound)
      BY <2>1 DEF Launch
    <3> QED
      BY <3>1, EnterInv DEF Enter
  <2>2. CASE Resume(h)
    <3>1. PICK d \in Rounds : Enter(h, "resume", "none", d)
      BY <2>2 DEF Resume
    <3> QED
      BY <3>1, EnterInv DEF Enter
  <2>3. CASE Generate(h)
    <3>1. PICK d \in Rounds : Enter(h, "generate", "none", d)
      BY <2>3 DEF Generate
    <3> QED
      BY <3>1, EnterInv DEF Enter
  <2>4. CASE GiveUp(h)
    BY <2>4, GiveUpInv DEF GiveUp
  <2>5. CASE OpenLedger(h)
    BY <2>5, OpenLedgerInv
  <2>6. CASE FindLedger(h)
    BY <2>6, FindLedgerInv DEF FindLedger
  <2>7. CASE RecoverCalls(h)
    BY <2>7, RecoverCallsInv
  <2>8. CASE ReserveCall(h)
    BY <2>8, ReserveCallInv
  <2>9. CASE SendRequest(h)
    BY <2>9, SendRequestInv DEF SendRequest
  <2>10. CASE SettleCall(h)
    BY <2>10, SettleCallInv
  <2>11. CASE SettleFails(h)
    BY <2>11, SettleFailsInv DEF SettleFails
  <2>12. CASE ToOrchestrator(h)
    BY <2>12, ToOrchestratorInv DEF ToOrchestrator
  <2>13. CASE CreateRound(h)
    BY <2>13, CreateRoundInv DEF CreateRound
  <2>14. CASE Bind(h)
    BY <2>14, BindInv
  <2>15. CASE BindFails(h)
    BY <2>15, BindFailsInv DEF BindFails
  <2>16. CASE ResumeRound(h)
    BY <2>16, ResumeRoundInv
  <2>17. CASE SaveCheckpoint(h)
    BY <2>17, SaveCheckpointInv DEF SaveCheckpoint
  <2>18. CASE OpeningFault(h) \/ Park(h) \/ Finish(h)
    BY <2>18, RoundEndsInv DEF OpeningFault, Park, Finish
  <2>19. CASE CheckMinutes(h)
    BY <2>19, CheckMinutesInv DEF CheckMinutes
  <2>20. CASE UseTemplate(h)
    BY <2>20, UseTemplateInv DEF UseTemplate
  <2>21. CASE WriteMinutes(h)
    BY <2>21, WriteMinutesInv DEF WriteMinutes
  <2> QED
    BY <1>1, <2>1, <2>2, <2>3, <2>4, <2>5, <2>6, <2>7, <2>8, <2>9, <2>10, <2>11, <2>12,
       <2>13, <2>14, <2>15, <2>16, <2>17, <2>18, <2>19, <2>20, <2>21 DEF HandlerStep
<1>2. ASSUME NEW d \in Rounds, CancelPaused(d)
      PROVE  FormalInv' /\ UNCHANGED ledgerVars
  BY <1>2, CancelPausedInv DEF CancelPaused
<1>3. CASE CrashAndRestart
  BY <1>3, CrashInv DEF CrashAndRestart
<1>4. CASE UNCHANGED formalVars
  <2>1. /\ UNCHANGED ledgerVars /\ UNCHANGED rounds /\ holder' = holder /\ handler' = handler
        /\ minutes' = minutes /\ sent' = sent /\ disruptions' = disruptions
    BY <1>4 DEF formalVars
  <2>2. LedgerInv' /\ PaidOK' /\ ledger' = ledger /\ attempt' = attempt
    BY <2>1, SameLedger
  <2>3. RoundsOK'
    BY <2>1, <2>2, SameRounds
  <2>4. FormalTypes'
    BY <2>1 DEF FormalInv, FormalTypes, RecordTypes, rounds
  <2>5. \A h \in Handlers : HandlerOK(h)'
    BY <2>1, <2>2 DEF FormalInv, HandlerOK, Bound, rounds
  <2> QED
    BY <2>1, <2>2, <2>3, <2>4, <2>5 DEF FormalInv
<1> QED
  BY <1>1, <1>2, <1>3, <1>4 DEF FormalNext

-----------------------------------------------------------------------------

LEMMA FormalInvHolds == FormalSpec => []FormalInv
  BY InitFormalInv, StepFormalInv, PTL DEF FormalSpec

\* Every step of the handlers is a transaction of the ledger: the theorems of
\* ProviderLedgerProofs hold of the backend.
THEOREM FormalImplementsLedger == FormalSpec => ImplementsLedger
<1>1. FormalInit => LedgerInit
  BY DEF FormalInit
<1> QED
  BY <1>1, FormalInvHolds, StepFormalInv, PTL DEF FormalSpec, ImplementsLedger, LedgerSpec

\* The handlers' locals, the rounds and the ledger keep their types.
THEOREM FormalTypeCorrect == FormalSpec => []FormalTypeOK
<1>1. ASSUME FormalInv PROVE FormalTypeOK
  <2>1. LedgerTypeOK /\ FormalTypes
    BY <1>1 DEF FormalInv, LedgerInv
  <2>2. ASSUME NEW h \in Handlers
        PROVE  /\ handler[h].run \in Runs \cup {"none"}
               /\ handler[h].round \in Rounds \cup {NoRound}
               /\ InFlight(h) => handler[h].run \in Runs /\ handler[h].slot \in Slots
    BY <1>1, <2>1 DEF FormalInv, FormalTypes, HandlerRows, HandlerOK, InFlight, Sending,
       Awaiting, WithRun
  <2> QED
    BY <2>1, <2>2 DEF FormalTypeOK, FormalTypes, RecordTypes
<1> QED
  BY <1>1, FormalInvHolds, PTL

\* A call in flight belongs to one handler, and nobody settles it behind its
\* back.
THEOREM LiveCallsHold == FormalSpec => []LiveCallsStarted
<1>1. ASSUME FormalInv PROVE LiveCallsStarted
  <2> SUFFICES ASSUME NEW h \in Handlers, InFlight(h)
               PROVE  /\ attempt[handler[h].run][handler[h].slot].status = "STARTED"
                      /\ \A g \in Handlers \ {h} : handler[g].run # handler[h].run
    BY DEF LiveCallsStarted
  <2>1. /\ handler[h].pc # "off" /\ handler[h].run \in Runs
        /\ attempt[handler[h].run][handler[h].slot].status = "STARTED"
    BY <1>1 DEF FormalInv, HandlerOK, InFlight, Sending, Awaiting, WithRun
  <2>2. \A g \in Handlers \ {h} : handler[g] = Off
    BY <1>1, <2>1, OthersIdle
  <2> QED
    BY <2>1, <2>2, FormalAssumption DEF Off
<1> QED
  BY <1>1, FormalInvHolds, PTL

\* One reservation, one request: across failures, resumes and restarts.
THEOREM RequestsArePaidHolds == FormalSpec => []RequestsArePaid
<1>1. FormalInv => RequestsArePaid
  BY DEF FormalInv, PaidOK, RequestsArePaid, Reserved
<1> QED
  BY <1>1, FormalInvHolds, PTL

\* Every round that can be resumed or written up has its checkpoint and
\* exactly one authorisation.
THEOREM KeptRoundsHold == FormalSpec => []KeptRoundsHaveLedger
<1>1. ASSUME FormalInv PROVE KeptRoundsHaveLedger
  <2> SUFFICES ASSUME NEW d \in Rounds, roundStatus[d] \in {"PAUSED", "FINISHED"}
               PROVE  d \in saved /\ \E r \in Runs : RunOf(d) = {r}
    BY DEF KeptRoundsHaveLedger
  <2>1. d \in saved /\ RoundsOK
    BY <1>1 DEF FormalInv, RoundsOK
  <2>2. PICK r \in Runs : ledger[r].round = d
    BY <2>1 DEF RoundsOK, Bound
  <2>3. \A q \in Runs : ledger[q].round = d => q = r
    BY <2>1, <2>2, LedgerAssumption DEF RoundsOK
  <2> QED
    BY <2>1, <2>2, <2>3 DEF RunOf
<1> QED
  BY <1>1, FormalInvHolds, PTL
=============================================================================
