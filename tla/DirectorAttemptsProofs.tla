------------------------ MODULE DirectorAttemptsProofs ------------------------
(***************************************************************************)
(* Proofs about DirectorAttempts, for every number of turns, every budget   *)
(* and every bound on the disruptions.                                      *)
(***************************************************************************)
EXTENDS DirectorAttempts, ProviderLedgerProofs, SequenceTheorems

Places == {"off"} \cup Working \cup Leaving \cup Resuming
DirectorRows == [status : AttemptStatus, member : Speakers \cup {NoMember},
                 decision : Nat, order : Nat]
TurnRows == [member : Speakers, decision : Nat, status : {"STARTED", "RESPONDED", "FAILED"}]
Selections == Choices \cup {Failed, NoChoice}
WorkerRows == [pc : Places, attempt : Nat, slot : Slots \cup {0}, decision : Nat,
               choice : Selections]

TrailTypes ==
    /\ directorAttempt \in Seq(DirectorRows)
    /\ directorDecision \in Seq(Choices)
    /\ roundTurn \in Seq(TurnRows)
    /\ target \in [Slots -> Nat]
    /\ worker \in WorkerRows

\* Where the thread can be, and what it knows of its call, turn and choice.
WorkerOK ==
    /\ worker.pc \in Working \cup {"leave", "park"} => stage = "RUNNING"
    /\ worker.pc # "off" => stage # "NONE"
    /\ worker.pc \in {"ask", "listen", "heard"} => worker.slot \in Slots
    /\ worker.pc = "failed" =>
          worker.slot \in Slots /\ attempt[Run][worker.slot].status \in {"FAILED", "INVALID"}
    /\ worker.pc \in {"turned", "speak", "listen", "lost"} => TurnStarted
    /\ worker.pc \in {"decided", "turned"} => worker.choice \in Choices

\* The places where no attempt is in flight, and those where only the
\* thread's own can be.
Quiet == {"top", "select", "settle", "speak", "listen", "heard", "lost", "refused", "reopen"}
Holding == Selecting \cup {"chosen", "decided", "turned"}

AttemptsOK ==
    /\ worker.attempt \in 0 .. Len(directorAttempt)
    /\ worker.pc \in Quiet \/ stage \in {"NONE", "FINISHED", "CANCELLED"} => NoneStarted
    /\ worker.pc \in Holding =>
          \A a \in 1 .. Len(directorAttempt) :
             directorAttempt[a].status = "STARTED" => a = worker.attempt
    /\ worker.pc \in Selecting =>
          /\ worker.attempt = Len(directorAttempt) /\ worker.attempt # 0
          /\ directorAttempt[worker.attempt].status = "STARTED"
    /\ worker.pc = "turned" => worker.attempt # 0
    /\ BreakerHolds

-----------------------------------------------------------------------------
(* Sequences, by their elements.                                            *)

LEMMA Appended ==
    ASSUME NEW S, NEW s \in Seq(S), NEW e \in S
    PROVE  /\ Append(s, e) \in Seq(S) /\ Len(Append(s, e)) = Len(s) + 1
           /\ DOMAIN Append(s, e) = 1 .. Len(s) + 1
           /\ \A i \in 1 .. Len(s) : Append(s, e)[i] = s[i]
           /\ Append(s, e)[Len(s) + 1] = e
  OBVIOUS

LEMMA Counted == ASSUME NEW S, NEW s \in Seq(S) PROVE Len(s) \in Nat /\ DOMAIN s = 1 .. Len(s)
  OBVIOUS

\* One row is rewritten, or every row by a rule: the rows keep their numbers.
LEMMA Rewritten ==
    ASSUME NEW S, NEW s \in Seq(S), NEW a \in 1 .. Len(s), NEW e \in S
    PROVE  LET t == [s EXCEPT ![a] = e] IN
           /\ t \in Seq(S) /\ Len(t) = Len(s) /\ DOMAIN t = 1 .. Len(s)
           /\ \A i \in 1 .. Len(s) : t[i] = IF i = a THEN e ELSE s[i]
  BY ExceptSeq

LEMMA Cancelled ==
    ASSUME directorAttempt \in Seq(DirectorRows), CancelStarted
    PROVE  /\ directorAttempt' \in Seq(DirectorRows)
           /\ Len(directorAttempt') = Len(directorAttempt)
           /\ DOMAIN directorAttempt' = 1 .. Len(directorAttempt)
           /\ \A i \in 1 .. Len(directorAttempt) :
                 directorAttempt'[i] = IF directorAttempt[i].status = "STARTED"
                                       THEN [directorAttempt[i] EXCEPT !.status = "CANCELLED"]
                                       ELSE directorAttempt[i]
<1> DEFINE new(i) == IF directorAttempt[i].status = "STARTED"
                     THEN [directorAttempt[i] EXCEPT !.status = "CANCELLED"]
                     ELSE directorAttempt[i]
<1>1. Len(directorAttempt) \in Nat /\ DOMAIN directorAttempt = 1 .. Len(directorAttempt)
  BY Counted
<1>2. directorAttempt' = [i \in 1 .. Len(directorAttempt) |-> new(i)]
  BY <1>1 DEF CancelStarted
<1>3. \A i \in 1 .. Len(directorAttempt) : new(i) \in DirectorRows
  <2> SUFFICES ASSUME NEW i \in 1 .. Len(directorAttempt) PROVE new(i) \in DirectorRows
    OBVIOUS
  <2>1. directorAttempt[i] \in DirectorRows
    BY ElementOfSeq
  <2> QED
    BY <2>1 DEF DirectorRows, AttemptStatus
<1> HIDE DEF new
<1>4. directorAttempt' \in Seq(DirectorRows)
  BY <1>1, <1>2, <1>3
<1>5. DOMAIN directorAttempt' = 1 .. Len(directorAttempt)
  BY <1>2
<1>6. Len(directorAttempt') = Len(directorAttempt)
  BY <1>1, <1>4, <1>5
<1>7. \A i \in 1 .. Len(directorAttempt) : directorAttempt'[i] = new(i)
  BY <1>2
<1> QED
  BY <1>4, <1>5, <1>6, <1>7 DEF new

-----------------------------------------------------------------------------
(* The ledger's part of a step.                                             *)

\* What a step may do to the calls of the run: nothing, one more of kind k at
\* slot n, an outcome o for the one at slot n, or outcomes for all in flight.
LEMMA ReservedCall ==
    ASSUME LedgerInv, NEW k \in Kinds, NEW n, NEW s, ReserveFor(k, n, s)
    PROVE  LET i == ledger[Run].reserved + 1 IN
           /\ i \in Slots /\ i \notin Reserved(Run)
           /\ Reserved(Run)' = Reserved(Run) \cup {i}
           /\ attempt'[Run][i] = [kind |-> k, status |-> "STARTED"]
           /\ \A x \in Reserved(Run) : attempt'[Run][x] = attempt[Run][x]
           /\ LedgerNext
<1> DEFINE i == ledger[Run].reserved + 1
<1>1. Run \in Runs /\ attempt \in [Runs -> [Slots -> AttemptRows]]
  BY RunFacts, DirectorAssumption
<1>2. i \in Slots
  BY <1>1, RunFacts, LedgerAssumption DEF ReserveFor, Reserve, Slots
<1>3. i \notin Reserved(Run)
  BY <1>1, RunFacts DEF LedgerInv, AccountsOf
<1>4. attempt' = [attempt EXCEPT ![Run][i] = [kind |-> k, status |-> "STARTED"]]
  BY DEF ReserveFor, Reserve
<1>5. /\ attempt'[Run][i] = [kind |-> k, status |-> "STARTED"]
      /\ \A x \in Slots : x # i => attempt'[Run][x] = attempt[Run][x]
  BY <1>1, <1>2, <1>4
<1>6. Reserved(Run)' = Reserved(Run) \cup {i}
  BY <1>2, <1>5 DEF Reserved
<1>7. LedgerNext
  BY <1>1 DEF LedgerNext, LedgerStep, ReserveFor
<1> QED
  BY <1>2, <1>3, <1>5, <1>6, <1>7 DEF Reserved

LEMMA FinishedCall ==
    ASSUME LedgerInv, NEW n \in Slots, NEW o \in Outcomes, FinishCall(Run, n, o)
    PROVE  /\ n \in Reserved(Run) /\ attempt[Run][n].status = "STARTED"
           /\ Reserved(Run)' = Reserved(Run)
           /\ \A x \in Slots : /\ attempt'[Run][x].kind = attempt[Run][x].kind
                               /\ attempt'[Run][x].status = IF x = n THEN o
                                                            ELSE attempt[Run][x].status
           /\ LedgerNext
<1>1. Run \in Runs /\ attempt \in [Runs -> [Slots -> AttemptRows]]
  BY RunFacts, DirectorAssumption
<1>2. attempt[Run][n].status = "STARTED" /\ attempt' = [attempt EXCEPT ![Run][n].status = o]
  BY DEF FinishCall
<1>3. \A x \in Slots : /\ attempt'[Run][x].kind = attempt[Run][x].kind
                       /\ attempt'[Run][x].status = IF x = n THEN o ELSE attempt[Run][x].status
  BY <1>1, <1>2 DEF AttemptRows
<1>4. Reserved(Run)' = Reserved(Run)
  BY <1>2, <1>3 DEF Reserved, Outcomes
<1>5. LedgerNext
  BY <1>1 DEF LedgerNext, LedgerStep
<1> QED
  BY <1>2, <1>3, <1>4, <1>5 DEF Reserved

LEMMA AbandonedCalls ==
    ASSUME LedgerInv, AbandonStarted(Run)
    PROVE  /\ Reserved(Run)' = Reserved(Run)
           /\ \A x \in Slots :
                 /\ attempt'[Run][x].kind = attempt[Run][x].kind
                 /\ attempt'[Run][x].status = IF attempt[Run][x].status = "STARTED"
                                              THEN "ABANDONED" ELSE attempt[Run][x].status
           /\ LedgerNext
<1>1. Run \in Runs /\ attempt \in [Runs -> [Slots -> AttemptRows]]
  BY RunFacts, DirectorAssumption
<1>2. attempt' = [attempt EXCEPT ![Run] =
          [s \in Slots |-> IF s \in Started(Run) THEN [attempt[Run][s] EXCEPT !.status = "ABANDONED"]
                           ELSE attempt[Run][s]]]
  BY DEF AbandonStarted
<1>3. \A x \in Slots : attempt'[Run][x] = IF x \in Started(Run)
                                          THEN [attempt[Run][x] EXCEPT !.status = "ABANDONED"]
                                          ELSE attempt[Run][x]
  BY <1>1, <1>2
<1>4. \A x \in Slots : attempt[Run][x] \in AttemptRows
                       /\ (x \in Started(Run) <=> attempt[Run][x].status = "STARTED")
  BY <1>1 DEF Started
<1>5. \A x \in Slots :
         /\ attempt'[Run][x].kind = attempt[Run][x].kind
         /\ attempt'[Run][x].status = IF attempt[Run][x].status = "STARTED"
                                      THEN "ABANDONED" ELSE attempt[Run][x].status
  BY <1>3, <1>4 DEF AttemptRows
<1>6. Reserved(Run)' = Reserved(Run)
  BY <1>5 DEF Reserved
<1>7. LedgerNext
  BY <1>1 DEF LedgerNext, LedgerStep
<1> QED
  BY <1>5, <1>6, <1>7

LEMMA Authorized ==
    ASSUME LedgerInv, Authorize
    PROVE  LedgerNext /\ Reserved(Run) = {} /\ Reserved(Run)' = {}
<1>1. Run \in Runs
  BY DirectorAssumption
<1>2. PICK plan \in DirectorPlans :
         CreateRun(Run, plan[1],
                   [[k \in Kinds |-> MaxBudget] EXCEPT !["round_director"] = plan[2]])
  BY DEF Authorize
<1>3. plan[1] \in 1 .. MaxBudget /\ plan[2] \in 0 .. MaxBudget
  BY DirectorAssumption
<1>4. [[k \in Kinds |-> MaxBudget] EXCEPT !["round_director"] = plan[2]]
         \in [Kinds -> 0 .. MaxBudget]
  <2>1. MaxBudget \in 0 .. MaxBudget
    BY LedgerAssumption
  <2>2. [k \in Kinds |-> MaxBudget] \in [Kinds -> 0 .. MaxBudget]
    BY <2>1
  <2>3. ASSUME NEW f \in [Kinds -> 0 .. MaxBudget]
        PROVE  [f EXCEPT !["round_director"] = plan[2]] \in [Kinds -> 0 .. MaxBudget]
    BY <1>3
  <2> QED
    BY <2>2, <2>3
<1>5. \E max \in 1 .. MaxBudget, limit \in [Kinds -> 0 .. MaxBudget] : CreateRun(Run, max, limit)
  BY <1>2, <1>3, <1>4
<1>6. LedgerNext
  BY <1>1, <1>5 DEF LedgerNext, LedgerStep, CreateRun
<1>7. ledger[Run] = NoRun /\ attempt' = attempt
  BY <1>1, <1>2 DEF CreateRun, Created, LedgerInv, AbsentOf
<1>8. Reserved(Run) = 1 .. 0
  BY <1>1, <1>7 DEF LedgerInv, AccountsOf, NoRun
<1> QED
  BY <1>6, <1>7, <1>8 DEF Reserved

-----------------------------------------------------------------------------
(* The thread's part of a step.                                             *)

LEMMA OffFacts ==
    Off \in WorkerRows /\ Off.pc = "off" /\ Off.attempt = 0 /\ Off.slot = 0 /\ Off.decision = 0
  BY DEF Off, WorkerRows, Places, Selections

LEMMA Went ==
    ASSUME worker \in WorkerRows, NEW s \in Places, Goto(s)
    PROVE  /\ worker' \in WorkerRows /\ worker'.pc = s
           /\ worker'.attempt = worker.attempt /\ worker'.slot = worker.slot
           /\ worker'.decision = worker.decision /\ worker'.choice = worker.choice
  BY DEF Goto, WorkerRows

\* The thread goes on with a new attempt, decision or call.
LEMMA WentOn ==
    ASSUME worker \in WorkerRows, NEW s \in Places, NEW n \in Nat
    PROVE  /\ worker' = [worker EXCEPT !.pc = s, !.attempt = n] =>
                 /\ worker' \in WorkerRows /\ worker'.pc = s /\ worker'.attempt = n
                 /\ worker'.slot = worker.slot /\ worker'.decision = worker.decision
                 /\ worker'.choice = worker.choice
           /\ worker' = [worker EXCEPT !.pc = s, !.decision = n] =>
                 /\ worker' \in WorkerRows /\ worker'.pc = s /\ worker'.decision = n
                 /\ worker'.slot = worker.slot /\ worker'.attempt = worker.attempt
                 /\ worker'.choice = worker.choice
           /\ (n \in Slots /\ worker' = [worker EXCEPT !.pc = s, !.slot = n]) =>
                 /\ worker' \in WorkerRows /\ worker'.pc = s /\ worker'.slot = n
                 /\ worker'.attempt = worker.attempt /\ worker'.decision = worker.decision
                 /\ worker'.choice = worker.choice
<1>1. worker = [pc |-> worker.pc, attempt |-> worker.attempt, slot |-> worker.slot,
                decision |-> worker.decision, choice |-> worker.choice]
      /\ worker.pc \in Places /\ worker.attempt \in Nat /\ worker.slot \in Slots \cup {0}
      /\ worker.decision \in Nat /\ worker.choice \in Selections
  BY DEF WorkerRows
<1>2. ASSUME worker' = [worker EXCEPT !.pc = s, !.attempt = n]
      PROVE  worker' = [pc |-> s, attempt |-> n, slot |-> worker.slot,
                        decision |-> worker.decision, choice |-> worker.choice]
  BY <1>1, <1>2
<1>3. ASSUME worker' = [worker EXCEPT !.pc = s, !.decision = n]
      PROVE  worker' = [pc |-> s, attempt |-> worker.attempt, slot |-> worker.slot,
                        decision |-> n, choice |-> worker.choice]
  BY <1>1, <1>3
<1>4. ASSUME worker' = [worker EXCEPT !.pc = s, !.slot = n]
      PROVE  worker' = [pc |-> s, attempt |-> worker.attempt, slot |-> n,
                        decision |-> worker.decision, choice |-> worker.choice]
  BY <1>1, <1>4
<1> QED
  BY <1>1, <1>2, <1>3, <1>4 DEF WorkerRows

LEMMA Restarted ==
    ASSUME NEW s \in Places, Restart(s)
    PROVE  /\ worker' \in WorkerRows /\ worker'.pc = s /\ worker'.attempt = 0
           /\ worker'.slot = 0 /\ worker'.decision = 0
  BY DEF Restart, Off, WorkerRows, Selections

LEMMA Exited ==
    ASSUME NEW s \in Places, NEW a \in Nat, Exit(s, a)
    PROVE  /\ worker' \in WorkerRows /\ worker'.pc = s /\ worker'.attempt = a
           /\ worker'.slot = 0 /\ worker'.decision = 0
  BY DEF Exit, Off, WorkerRows, Selections

LEMMA Chosen ==
    ASSUME NEW c \in Choices \cup {Failed}, NEW a \in Nat, Choose(c, a)
    PROVE  /\ worker' \in WorkerRows /\ worker'.pc = "chosen" /\ worker'.attempt = a
           /\ worker'.slot = 0 /\ worker'.decision = 0 /\ worker'.choice = c
  BY DEF Choose, Off, WorkerRows, Selections, Places, Working

\* What finish_director_attempt does to the rows.
LEMMA Finished ==
    ASSUME directorAttempt \in Seq(DirectorRows), NEW a \in 1 .. Len(directorAttempt),
           NEW o \in AttemptStatus, NEW m \in Speakers \cup {NoMember}, NEW d \in Nat, NEW n \in Nat,
           FinishAttempt(a, o, m, d, n)
    PROVE  /\ directorAttempt' \in Seq(DirectorRows)
           /\ Len(directorAttempt') = Len(directorAttempt)
           /\ DOMAIN directorAttempt' = 1 .. Len(directorAttempt)
           /\ \A i \in 1 .. Len(directorAttempt) :
                 directorAttempt'[i] = IF i = a THEN [status |-> o, member |-> m,
                                                      decision |-> d, order |-> n]
                                       ELSE directorAttempt[i]
           /\ directorAttempt[a].status = "STARTED"
<1>1. [status |-> o, member |-> m, decision |-> d, order |-> n] \in DirectorRows
  BY DEF DirectorRows
<1>2. directorAttempt' = [directorAttempt EXCEPT
          ![a] = [status |-> o, member |-> m, decision |-> d, order |-> n]]
      /\ directorAttempt[a].status = "STARTED"
  BY DEF FinishAttempt
<1> DEFINE row == [status |-> o, member |-> m, decision |-> d, order |-> n]
<1> HIDE DEF row
<1>3. row \in DirectorRows /\ directorAttempt' = [directorAttempt EXCEPT ![a] = row]
  BY <1>1, <1>2 DEF row
<1>4. /\ directorAttempt' \in Seq(DirectorRows)
      /\ Len(directorAttempt') = Len(directorAttempt)
      /\ DOMAIN directorAttempt' = 1 .. Len(directorAttempt)
      /\ \A i \in 1 .. Len(directorAttempt) :
            directorAttempt'[i] = IF i = a THEN row ELSE directorAttempt[i]
  BY <1>3, Rewritten
<1> QED
  BY <1>2, <1>4 DEF row

LEMMA CancelledActive ==
    ASSUME directorAttempt \in Seq(DirectorRows), worker.attempt \in 0 .. Len(directorAttempt),
           CancelActive
    PROVE  /\ directorAttempt' \in Seq(DirectorRows)
           /\ Len(directorAttempt') = Len(directorAttempt)
           /\ DOMAIN directorAttempt' = 1 .. Len(directorAttempt)
           /\ \A i \in 1 .. Len(directorAttempt) :
                 directorAttempt'[i] = IF i = worker.attempt /\ directorAttempt[i].status = "STARTED"
                                       THEN [status |-> "CANCELLED", member |-> NoMember,
                                             decision |-> 0, order |-> 0]
                                       ELSE directorAttempt[i]
<1>1. Len(directorAttempt) \in Nat /\ DOMAIN directorAttempt = 1 .. Len(directorAttempt)
  BY Counted
<1>2. CASE ActiveStarted
  <2>1. worker.attempt \in 1 .. Len(directorAttempt)
    BY <1>1, <1>2 DEF ActiveStarted
  <2>2. FinishAttempt(worker.attempt, "CANCELLED", NoMember, 0, 0)
    BY <1>2 DEF CancelActive
  <2> QED
    <3>1. "CANCELLED" \in AttemptStatus /\ 0 \in Nat /\ NoMember \in Speakers \cup {NoMember}
      BY DEF AttemptStatus
    <3>2. /\ directorAttempt' \in Seq(DirectorRows)
          /\ Len(directorAttempt') = Len(directorAttempt)
          /\ DOMAIN directorAttempt' = 1 .. Len(directorAttempt)
      BY <2>1, <2>2, <3>1, Finished
    <3> DEFINE row == [status |-> "CANCELLED", member |-> NoMember, decision |-> 0, order |-> 0]
    <3>3. directorAttempt' = [directorAttempt EXCEPT ![worker.attempt] = row]
      BY <2>2 DEF FinishAttempt
    <3> HIDE DEF row
    <3>4. \A i \in 1 .. Len(directorAttempt) :
             directorAttempt'[i] = IF i = worker.attempt THEN row ELSE directorAttempt[i]
      BY <1>1, <2>1, <3>3
    <3> QED
      BY <1>2, <2>1, <3>2, <3>4 DEF ActiveStarted, row
<1>3. CASE ~ ActiveStarted
  BY <1>1, <1>3 DEF ActiveStarted, CancelActive
<1> QED
  BY <1>2, <1>3

\* What a speaker's message does to the last turn.
LEMMA TurnSet ==
    ASSUME roundTurn \in Seq(TurnRows), NEW o \in {"STARTED", "RESPONDED", "FAILED"},
           LastTurn # 0, SetTurn(o)
    PROVE  /\ roundTurn' \in Seq(TurnRows) /\ Len(roundTurn') = Len(roundTurn)
           /\ DOMAIN roundTurn' = 1 .. Len(roundTurn)
           /\ \A i \in 1 .. Len(roundTurn) :
                 /\ roundTurn'[i].member = roundTurn[i].member
                 /\ roundTurn'[i].decision = roundTurn[i].decision
                 /\ roundTurn'[i].status = IF i = LastTurn THEN o ELSE roundTurn[i].status
<1>1. LastTurn \in 1 .. Len(roundTurn) /\ roundTurn[LastTurn] \in TurnRows
  BY ElementOfSeq DEF LastTurn
<1>2. [roundTurn[LastTurn] EXCEPT !.status = o] \in TurnRows
  BY <1>1 DEF TurnRows
<1>3. roundTurn' = [roundTurn EXCEPT ![LastTurn] = [roundTurn[LastTurn] EXCEPT !.status = o]]
  BY DEF SetTurn
<1>4. \A i \in 1 .. Len(roundTurn) : roundTurn[i] \in TurnRows
  BY ElementOfSeq
<1> DEFINE row == [roundTurn[LastTurn] EXCEPT !.status = o]
<1> HIDE DEF row
<1>5. /\ roundTurn' \in Seq(TurnRows) /\ Len(roundTurn') = Len(roundTurn)
      /\ DOMAIN roundTurn' = 1 .. Len(roundTurn)
      /\ \A i \in 1 .. Len(roundTurn) :
            roundTurn'[i] = IF i = LastTurn THEN row ELSE roundTurn[i]
  <2>1. row \in TurnRows /\ roundTurn' = [roundTurn EXCEPT ![LastTurn] = row]
    BY <1>2, <1>3 DEF row
  <2> QED
    BY <1>1, <2>1, Rewritten
<1> QED
  <2>1. /\ row.member = roundTurn[LastTurn].member
        /\ row.decision = roundTurn[LastTurn].decision /\ row.status = o
    BY <1>1 DEF TurnRows, row
  <2> QED
    BY <1>5, <2>1

-----------------------------------------------------------------------------
(* Every step is one of the ledger's, and keeps the types.                  *)

\* The lemma's hypotheses, for the lemmas that follow.
Known == LedgerInv /\ TrailTypes /\ WorkerOK /\ AttemptsOK

Typed == TrailTypes' /\ (LedgerNext \/ UNCHANGED ledgerVars)

LEMMA LoopingTyped ==
    ASSUME Known, Looping
    PROVE  Typed
<1> USE DEF Known, Typed
<1>1. CASE Authorize
  BY <1>1, Authorized DEF Authorize, TrailTypes, trail
<1>2. CASE Open
  <2>1. LedgerNext
    BY <1>2, DirectorAssumption DEF Open, LedgerNext, LedgerStep
  <2>2. Restart("top") /\ UNCHANGED trail /\ "top" \in Places
    BY <1>2 DEF Open, Places, Working
  <2> QED
    BY <2>1, <2>2, Restarted DEF TrailTypes, trail
<1>3. CASE TurnsUsedUp
  <2>1. Restart("settle") /\ UNCHANGED <<ledgerVars, trail>> /\ "settle" \in Places
    BY <1>3 DEF TurnsUsedUp, Places, Working
  <2> QED
    BY <2>1, Restarted DEF TrailTypes, trail
<1>4. CASE AcknowledgePause
  BY <1>4, OffFacts DEF AcknowledgePause, TrailTypes, trail
<1>5. CASE FailUnknownTurn
  <2>1. LastTurn # 0
    BY <1>5 DEF FailUnknownTurn, TurnStarted
  <2>2. roundTurn' \in Seq(TurnRows)
    BY <1>5, <2>1, TurnSet DEF FailUnknownTurn, TrailTypes
  <2> QED
    BY <1>5, <2>2 DEF FailUnknownTurn, TrailTypes
<1>6. CASE StartSelecting
  <2>1. Goto("select") /\ UNCHANGED <<ledgerVars, trail>> /\ "select" \in Places
    BY <1>6 DEF StartSelecting, Places, Working
  <2> QED
    BY <2>1, Went DEF TrailTypes, trail
<1> QED
  BY <1>1, <1>2, <1>3, <1>4, <1>5, <1>6 DEF Looping

LEMMA SelectionTyped ==
    ASSUME Known, Selection
    PROVE  Typed
<1> USE DEF Known, Typed
<1>a. /\ Len(directorAttempt) \in Nat /\ worker.attempt \in Nat
      /\ worker.pc \in Selecting => worker.attempt \in 1 .. Len(directorAttempt)
  BY Counted DEF TrailTypes, AttemptsOK
<1>b. /\ "CANCELLED" \in AttemptStatus /\ "FAILED" \in AttemptStatus
      /\ "INVALID" \in AttemptStatus /\ 0 \in Nat
  BY DEF AttemptStatus
<1>c. NewAttempt \in DirectorRows
  BY DEF NewAttempt, DirectorRows, AttemptStatus
<1>1. CASE SelectWithoutCall
  <2>1. CASE Restart("settle")
    BY <1>1, <2>1, Restarted DEF SelectWithoutCall, TrailTypes, trail, Places, Working
  <2>2. CASE \E c \in Choices : Choose(c, 0)
    BY <1>1, <2>2, Chosen DEF SelectWithoutCall, TrailTypes, trail
  <2> QED
    BY <1>1, <2>1, <2>2 DEF SelectWithoutCall
<1>2. CASE BeginAttempt
  <2>1. directorAttempt' \in Seq(DirectorRows)
    BY <1>2, <1>c, Appended DEF BeginAttempt, TrailTypes
  <2>2. worker' \in WorkerRows
    <3>1. Len(directorAttempt) + 1 \in Nat /\ "reserve" \in Places
      BY <1>a DEF Places, Working, Selecting
    <3> QED
      BY <1>2, <3>1, WentOn DEF BeginAttempt, TrailTypes
  <2> QED
    BY <1>2, <2>1, <2>2 DEF BeginAttempt, TrailTypes
<1>3. CASE ReserveDirector
  <2>1. ReserveFor("round_director", worker.attempt, "ask") /\ "round_director" \in Kinds
    BY <1>3, DirectorAssumption DEF ReserveDirector
  <2>2. LedgerNext /\ ledger[Run].reserved + 1 \in Slots
    BY <2>1, ReservedCall
  <2>3. worker' \in WorkerRows /\ target' \in [Slots -> Nat]
    BY <1>a, <2>1, <2>2 DEF ReserveFor, TrailTypes, WorkerRows, Places, Working, Selecting
  <2> QED
    BY <1>3, <2>2, <2>3 DEF ReserveDirector, TrailTypes
<1>4. CASE ReserveDirectorFails
  <2>1. directorAttempt' \in Seq(DirectorRows)
    BY <1>4, <1>a, <1>b, Finished DEF ReserveDirectorFails, TrailTypes, At, Selecting
  <2>2. worker' \in WorkerRows
    BY <1>4, <1>b, Chosen DEF ReserveDirectorFails
  <2> QED
    BY <1>4, <2>1, <2>2 DEF ReserveDirectorFails, TrailTypes
<1>5. CASE DirectorAnswers
  <2>1. worker.slot \in Slots
    BY <1>5 DEF DirectorAnswers, At, WorkerOK
  <2>2. LedgerNext
    BY <1>5, <2>1, FinishedCall DEF DirectorAnswers, Outcomes
  <2>3. worker' \in WorkerRows
    BY <1>5, <1>a, Chosen DEF DirectorAnswers
  <2> QED
    BY <1>5, <2>2, <2>3 DEF DirectorAnswers, TrailTypes, trail
<1>6. CASE DirectorFails
  <2>1. worker.slot \in Slots
    BY <1>6 DEF DirectorFails, At, WorkerOK
  <2>2. LedgerNext
    BY <1>6, <2>1, FinishedCall DEF DirectorFails, Outcomes
  <2>3. worker' \in WorkerRows
    BY <1>6, Went DEF DirectorFails, TrailTypes, Places, Working, Selecting
  <2> QED
    BY <1>6, <2>2, <2>3 DEF DirectorFails, TrailTypes, trail
<1>7. CASE RecordFailure
  <2>1. attempt[Run][worker.slot].status \in AttemptStatus
    BY <1>7 DEF RecordFailure, At, WorkerOK, AttemptStatus
  <2>2. directorAttempt' \in Seq(DirectorRows)
    BY <1>7, <1>a, <1>b, <2>1, Finished DEF RecordFailure, TrailTypes, At, Selecting
  <2>3. worker' \in WorkerRows
    BY <1>7, <1>b, Chosen DEF RecordFailure
  <2> QED
    BY <1>7, <2>2, <2>3 DEF RecordFailure, TrailTypes
<1>8. CASE LedgerFails
  <2>1. directorAttempt' \in Seq(DirectorRows)
    BY <1>8, <1>a, <1>b, Finished DEF LedgerFails, TrailTypes, At, Selecting
  <2>2. worker' \in WorkerRows
    BY <1>8, <1>b, Chosen DEF LedgerFails
  <2> QED
    BY <1>8, <2>1, <2>2 DEF LedgerFails, TrailTypes
<1> QED
  BY <1>1, <1>2, <1>3, <1>4, <1>5, <1>6, <1>7, <1>8 DEF Selection

LEMMA SpeakFacts ==
    ASSUME NEW c \in Choices, c # Finish
    PROVE  c.member \in Speakers /\ c = Speak(c.member) /\ c.action = "speak"
  BY DEF Choices, Speak, Finish

LEMMA ChoosingTyped ==
    ASSUME Known, Choosing
    PROVE  Typed
<1> USE DEF Known, Typed
<1>a. /\ Len(directorAttempt) \in Nat /\ Len(directorDecision) \in Nat
      /\ Len(roundTurn) \in Nat /\ worker.attempt \in 0 .. Len(directorAttempt)
      /\ worker.decision \in Nat /\ worker.attempt \in Nat
  BY Counted DEF TrailTypes, AttemptsOK, WorkerRows
<1>b. "RESPONDED" \in AttemptStatus /\ 0 \in Nat
      /\ {"settle", "parted", "leave", "decided", "speak", "turned", "refused"} \subseteq Places
  BY DEF AttemptStatus, Places, Working, Leaving
<1>1. CASE NoTurnLeft
  BY <1>1, <1>a, <1>b, CancelledActive, Restarted DEF NoTurnLeft, TrailTypes
<1>2. CASE PauseChosen
  BY <1>2, <1>a, <1>b, Exited DEF PauseChosen, TrailTypes, trail
<1>3. CASE Part
  BY <1>3, <1>a, CancelledActive, OffFacts DEF Part, TrailTypes
<1>4. CASE SelectionFailed
  BY <1>4, <1>a, <1>b, Exited DEF SelectionFailed, TrailTypes, trail
<1>5. CASE AddDecision
  <2>1. directorDecision' \in Seq(Choices)
    BY <1>5, Appended DEF AddDecision, TrailTypes
  <2>2. worker' \in WorkerRows
    <3>1. Len(directorDecision) + 1 \in Nat
      BY <1>a
    <3> QED
      BY <1>5, <1>b, <3>1, WentOn DEF AddDecision, TrailTypes
  <2> QED
    BY <1>5, <2>1, <2>2 DEF AddDecision, TrailTypes
<1>6. CASE AnswerFinish
  <2>1. CASE worker.attempt # 0 /\ FinishAttempt(worker.attempt, "RESPONDED", NoMember,
                                                 worker.decision, 0)
    <3>1. worker.attempt \in 1 .. Len(directorAttempt) /\ NoMember \in Speakers \cup {NoMember}
      BY <1>a, <2>1
    <3>2. directorAttempt' \in Seq(DirectorRows)
      BY <1>a, <1>b, <2>1, <3>1, Finished DEF TrailTypes
    <3> QED
      BY <1>6, <1>b, <3>2, Restarted DEF AnswerFinish, TrailTypes
  <2>2. CASE UNCHANGED directorAttempt
    BY <1>6, <1>b, <2>2, Restarted DEF AnswerFinish, TrailTypes
  <2> QED
    BY <1>6, <2>1, <2>2 DEF AnswerFinish
<1>7. CASE BudgetSpent
  BY <1>7, <1>a, <1>b, Exited DEF BudgetSpent, TrailTypes, trail
<1>8. CASE BeginTurn
  <2>1. worker.choice.member \in Speakers
    BY <1>8, SpeakFacts DEF BeginTurn, At, WorkerOK
  <2>2. roundTurn' \in Seq(TurnRows)
    <3>1. [member |-> worker.choice.member, decision |-> worker.decision, status |-> "STARTED"]
             \in TurnRows
      BY <1>a, <2>1 DEF TurnRows
    <3> QED
      BY <1>8, <3>1, Appended DEF BeginTurn, TrailTypes
  <2>3. worker' \in WorkerRows
    BY <1>8, <1>b, Restarted, Went DEF BeginTurn, TrailTypes
  <2> QED
    BY <1>8, <2>2, <2>3 DEF BeginTurn, TrailTypes
<1>9. CASE TurnRefused
  BY <1>9, <1>a, <1>b, CancelledActive, Restarted DEF TurnRefused, TrailTypes
<1>10. CASE AnswerSpeak
  <2>1. worker.attempt \in 1 .. Len(directorAttempt)
    BY <1>10, <1>a DEF AnswerSpeak, At, AttemptsOK
  <2>2. worker.choice.member \in Speakers \cup {NoMember}
    BY <1>10, SpeakFacts DEF AnswerSpeak, At, WorkerOK, Finish
  <2>3. directorAttempt' \in Seq(DirectorRows)
    BY <1>10, <1>a, <1>b, <2>1, <2>2, Finished DEF AnswerSpeak, TrailTypes, LastTurn
  <2> QED
    BY <1>10, <1>b, <2>3, Restarted DEF AnswerSpeak, TrailTypes
<1> QED
  BY <1>1, <1>2, <1>3, <1>4, <1>5, <1>6, <1>7, <1>8, <1>9, <1>10 DEF Choosing

LEMMA SpeakingTyped ==
    ASSUME Known, Speaking
    PROVE  Typed
<1> USE DEF Known, Typed
<1>a. {"top", "listen", "heard", "lost", "leave"} \subseteq Places /\ Len(roundTurn) \in Nat
  BY Counted DEF Places, Working, Leaving, TrailTypes
<1>1. CASE FailBeforeCall
  <2>1. LastTurn # 0
    BY <1>1 DEF FailBeforeCall, At, WorkerOK, TurnStarted
  <2>2. roundTurn' \in Seq(TurnRows)
    BY <1>1, <2>1, TurnSet DEF FailBeforeCall, TrailTypes
  <2> QED
    BY <1>1, <1>a, <2>2, Restarted DEF FailBeforeCall, TrailTypes
<1>2. CASE ReserveSpeaker
  <2>1. ReserveFor("round_speaker", LastTurn, "listen") /\ "round_speaker" \in Kinds
    BY <1>2, DirectorAssumption DEF ReserveSpeaker
  <2>2. LedgerNext /\ ledger[Run].reserved + 1 \in Slots
    BY <2>1, ReservedCall
  <2>3. target' \in [Slots -> Nat]
    BY <1>a, <2>1, <2>2 DEF ReserveFor, TrailTypes, LastTurn
  <2>4. ledger[Run].reserved + 1 \in Nat
    BY <2>2 DEF Slots
  <2>5. worker' \in WorkerRows
    BY <1>a, <2>1, <2>2, <2>4, WentOn DEF ReserveFor, TrailTypes
  <2> QED
    BY <1>2, <2>2, <2>3, <2>5 DEF ReserveSpeaker, TrailTypes
<1>3. CASE SpeakerAnswers
  <2>1. LastTurn # 0
    BY <1>3 DEF SpeakerAnswers, At, WorkerOK, TurnStarted
  <2>2. roundTurn' \in Seq(TurnRows)
    BY <1>3, <2>1, TurnSet DEF SpeakerAnswers, TrailTypes
  <2> QED
    BY <1>3, <1>a, <2>2, Went DEF SpeakerAnswers, TrailTypes
<1>4. CASE SettleAnswer
  <2>1. LedgerNext
    BY <1>4, FinishedCall DEF SettleAnswer, Outcomes, At, WorkerOK
  <2> QED
    BY <1>4, <1>a, <2>1, Restarted DEF SettleAnswer, TrailTypes, trail
<1>5. CASE SpeakerFails
  <2>1. LedgerNext
    BY <1>5, FinishedCall DEF SpeakerFails, Outcomes, At, WorkerOK
  <2> QED
    BY <1>5, <1>a, <2>1, Went DEF SpeakerFails, TrailTypes, trail
<1>6. CASE FailTurn
  <2>1. LastTurn # 0
    BY <1>6 DEF FailTurn, At, WorkerOK, TurnStarted
  <2>2. roundTurn' \in Seq(TurnRows)
    BY <1>6, <2>1, TurnSet DEF FailTurn, TrailTypes
  <2> QED
    BY <1>6, <1>a, <2>2, Restarted DEF FailTurn, TrailTypes
<1> QED
  BY <1>1, <1>2, <1>3, <1>4, <1>5, <1>6 DEF Speaking

LEMMA EndingTyped ==
    ASSUME Known, Ending
    PROVE  Typed
<1> USE DEF Known, Typed
<1>a. /\ {"leave", "park", "seal"} \subseteq Places /\ 0 \in Nat
      /\ worker.attempt \in 0 .. Len(directorAttempt) /\ worker.attempt \in Nat
  BY DEF Places, Leaving, AttemptsOK, TrailTypes, WorkerRows
<1>1. CASE Settle
  BY <1>1, <1>a, Went, OffFacts DEF Settle, TrailTypes, trail
<1>2. CASE Interrupt
  BY <1>2, <1>a, Exited DEF Interrupt, TrailTypes, trail
<1>3. CASE Leave
  BY <1>3, <1>a, CancelledActive, Restarted DEF Leave, TrailTypes
<1>4. CASE Park
  BY <1>4, <1>a, Went DEF Park, TrailTypes, trail
<1>5. CASE Seal
  BY <1>5, OffFacts DEF Seal, TrailTypes, trail
<1>6. CASE LeavingFails
  BY <1>6, OffFacts DEF LeavingFails, TrailTypes, trail
<1> QED
  BY <1>1, <1>2, <1>3, <1>4, <1>5, <1>6 DEF Ending

LEMMA AroundTyped ==
    ASSUME Known, Around
    PROVE  Typed
<1> USE DEF Known, Typed
<1>a. {"recover", "reopen", "top"} \subseteq Places
  BY DEF Places, Resuming, Working
<1>1. CASE Resume
  <2>1. LedgerNext \/ UNCHANGED ledgerVars
    BY <1>1, AbandonedCalls DEF Resume
  <2> QED
    BY <1>1, <1>a, <2>1, Went DEF Resume, TrailTypes, trail
<1>2. CASE RecoverAttempts
  BY <1>2, <1>a, Cancelled, Went DEF RecoverAttempts, TrailTypes
<1>3. CASE Reopen
  BY <1>3, <1>a, Restarted DEF Reopen, TrailTypes, trail
<1>4. CASE GiveUp
  BY <1>4, OffFacts DEF GiveUp, TrailTypes, trail
<1>5. CASE RequestPause
  BY <1>5 DEF RequestPause, TrailTypes, trail
<1>6. CASE CancelPaused
  BY <1>6, Cancelled DEF CancelPaused, TrailTypes
<1>7. CASE CrashAndRestart
  BY <1>7, Cancelled, OffFacts DEF CrashAndRestart, TrailTypes
<1> QED
  BY <1>1, <1>2, <1>3, <1>4, <1>5, <1>6, <1>7 DEF Around

LEMMA StepTyped ==
    ASSUME Known, [DirectorNext]_directorVars
    PROVE  Typed
<1>1. CASE UNCHANGED directorVars
  BY <1>1 DEF directorVars, Known, Typed, TrailTypes, trail
<1> QED
  BY <1>1, LoopingTyped, SelectionTyped, ChoosingTyped, SpeakingTyped, EndingTyped, AroundTyped
  DEF DirectorNext

-----------------------------------------------------------------------------
(* Where the thread is agrees with the round, its call and its turn.        *)

\* The places that promise only that the round is still running.
Plain == {"top", "select", "reserve", "chosen", "heard", "refused", "settle", "leave", "park"}

LEMMA PlainWorks ==
    ASSUME worker'.pc \in Plain \ {"heard"}, stage' = "RUNNING"
    PROVE  WorkerOK'
  BY DEF WorkerOK, Plain, Working, Selecting

LEMMA OffWorks ==
    ASSUME worker' = Off
    PROVE  WorkerOK'
  BY OffFacts DEF WorkerOK, Working, Selecting

LEMMA AwayWorks ==
    ASSUME worker'.pc \in {"seal", "parted"} \cup Resuming, stage' # "NONE"
    PROVE  WorkerOK'
  BY DEF WorkerOK, Working, Selecting, Resuming

LEMMA LoopingWorks ==
    ASSUME Known, Looping
    PROVE  WorkerOK'
<1> USE DEF Known
<1>a. {"top", "settle", "select"} \subseteq Places /\ {"top", "settle", "select"} \subseteq Plain \ {"heard"}
  BY DEF Places, Working, Plain
<1>1. CASE Authorize
  <2>1. UNCHANGED <<roundVars, roundTurn, worker>> /\ attempt' = attempt
    BY <1>1 DEF Authorize, CreateRun, trail
  <2> QED
    BY <2>1 DEF WorkerOK, roundVars, TurnStarted, LastTurn
<1>2. CASE Open
  BY <1>2, <1>a, Restarted, PlainWorks DEF Open
<1>3. CASE TurnsUsedUp
  <2>1. stage' = "RUNNING"
    BY <1>3 DEF TurnsUsedUp, At, WorkerOK, Working, roundVars
  <2> QED
    BY <1>3, <1>a, <2>1, Restarted, PlainWorks DEF TurnsUsedUp
<1>4. CASE AcknowledgePause
  BY <1>4, OffWorks DEF AcknowledgePause
<1>5. CASE FailUnknownTurn
  <2>1. stage' = "RUNNING" /\ worker'.pc = "top"
    BY <1>5 DEF FailUnknownTurn, At, WorkerOK, Working, roundVars
  <2> QED
    BY <1>a, <2>1, PlainWorks
<1>6. CASE StartSelecting
  <2>1. stage' = "RUNNING"
    BY <1>6 DEF StartSelecting, At, WorkerOK, Working, roundVars
  <2>2. worker'.pc = "select"
    BY <1>6, <1>a, Went DEF StartSelecting, TrailTypes
  <2> QED
    BY <1>a, <2>1, <2>2, PlainWorks
<1> QED
  BY <1>1, <1>2, <1>3, <1>4, <1>5, <1>6 DEF Looping

LEMMA SelectionWorks ==
    ASSUME Known, Selection
    PROVE  WorkerOK'
<1> USE DEF Known
<1>a. /\ {"settle", "chosen", "reserve"} \subseteq Plain \ {"heard"}
      /\ {"settle", "ask", "failed", "reserve"} \subseteq Places
      /\ Len(directorAttempt) \in Nat /\ worker.attempt \in Nat /\ 0 \in Nat
  BY Counted DEF Plain, Places, Working, Selecting, TrailTypes, WorkerRows
<1>b. stage' = "RUNNING" /\ stage = "RUNNING"
  <2>1. UNCHANGED stage
    BY DEF Selection, SelectWithoutCall, BeginAttempt, ReserveDirector, ReserveDirectorFails,
           DirectorAnswers, DirectorFails, RecordFailure, LedgerFails, roundVars
  <2>2. worker.pc \in {"select"} \cup Selecting
    BY DEF Selection, SelectWithoutCall, BeginAttempt, ReserveDirector, ReserveDirectorFails,
           DirectorAnswers, DirectorFails, RecordFailure, LedgerFails, At, Selecting
  <2> QED
    BY <2>1, <2>2 DEF WorkerOK, Working
<1>c. ASSUME \E c \in Choices \cup {Failed}, a \in Nat : Choose(c, a)
      PROVE  WorkerOK'
  BY <1>a, <1>b, <1>c, Chosen, PlainWorks
<1>1. CASE SelectWithoutCall
  BY <1>1, <1>a, <1>b, <1>c, Restarted, PlainWorks DEF SelectWithoutCall
<1>2. CASE BeginAttempt
  <2>1. worker'.pc = "reserve"
    <3>1. Len(directorAttempt) + 1 \in Nat
      BY <1>a
    <3> QED
      BY <1>2, <1>a, <3>1, WentOn DEF BeginAttempt, TrailTypes
  <2> QED
    BY <1>a, <1>b, <2>1, PlainWorks
<1>3. CASE ReserveDirector
  <2>1. ReserveFor("round_director", worker.attempt, "ask") /\ "round_director" \in Kinds
    BY <1>3, DirectorAssumption DEF ReserveDirector
  <2>2. ledger[Run].reserved + 1 \in Slots /\ ledger[Run].reserved + 1 \in Nat
    <3>1. ledger[Run].reserved + 1 \in Slots
      BY <2>1, ReservedCall
    <3> QED
      BY <3>1 DEF Slots
  <2>3. worker'.pc = "ask" /\ worker'.slot \in Slots
    BY <1>a, <2>1, <2>2, WentOn DEF ReserveFor, TrailTypes
  <2> QED
    BY <1>b, <2>3 DEF WorkerOK, Working, Selecting
<1>4. CASE ReserveDirectorFails
  BY <1>4, <1>a, <1>c DEF ReserveDirectorFails
<1>5. CASE DirectorAnswers
  BY <1>5, <1>a, <1>c DEF DirectorAnswers
<1>6. CASE DirectorFails
  <2>1. worker'.pc = "failed" /\ worker'.slot = worker.slot
    BY <1>6, <1>a, Went DEF DirectorFails, TrailTypes
  <2>2. worker.slot \in Slots
    BY <1>6 DEF DirectorFails, At, WorkerOK
  <2>3. attempt'[Run][worker.slot].status \in {"FAILED", "INVALID"}
    BY <1>6, <2>2, FinishedCall DEF DirectorFails, Outcomes
  <2> QED
    BY <1>b, <2>1, <2>2, <2>3 DEF WorkerOK, Working, Selecting
<1>7. CASE RecordFailure
  BY <1>7, <1>a, <1>c DEF RecordFailure
<1>8. CASE LedgerFails
  BY <1>8, <1>a, <1>c DEF LedgerFails
<1> QED
  BY <1>1, <1>2, <1>3, <1>4, <1>5, <1>6, <1>7, <1>8 DEF Selection

LEMMA ChoosingWorks ==
    ASSUME Known, Choosing
    PROVE  WorkerOK'
<1> USE DEF Known
<1>a. /\ Len(directorDecision) \in Nat /\ Len(roundTurn) \in Nat
      /\ worker.attempt \in Nat /\ 0 \in Nat
      /\ {"settle", "parted", "leave", "decided", "speak", "turned", "refused"} \subseteq Places
      /\ {"settle", "leave", "refused"} \subseteq Plain \ {"heard"}
  BY Counted DEF TrailTypes, WorkerRows, Places, Working, Leaving, Plain
<1>b. At("chosen") \/ At("decided") \/ At("turned") => stage = "RUNNING"
  BY DEF At, WorkerOK, Working
<1>1. CASE NoTurnLeft
  BY <1>1, <1>a, <1>b, Restarted, PlainWorks DEF NoTurnLeft, roundVars
<1>2. CASE PauseChosen
  BY <1>2, <1>a, Exited, AwayWorks DEF PauseChosen, ToPaused
<1>3. CASE Part
  BY <1>3, OffWorks DEF Part
<1>4. CASE SelectionFailed
  BY <1>4, <1>a, <1>b, Exited, PlainWorks DEF SelectionFailed, roundVars
<1>5. CASE AddDecision
  <2>1. worker'.pc = "decided" /\ worker'.choice = worker.choice
    <3>1. Len(directorDecision) + 1 \in Nat
      BY <1>a
    <3> QED
      BY <1>5, <1>a, <3>1, WentOn DEF AddDecision, TrailTypes
  <2> QED
    BY <1>5, <1>b, <2>1 DEF AddDecision, WorkerOK, Working, Selecting, roundVars
<1>6. CASE AnswerFinish
  BY <1>6, <1>a, <1>b, Restarted, PlainWorks DEF AnswerFinish, roundVars
<1>7. CASE BudgetSpent
  BY <1>7, <1>a, <1>b, Exited, PlainWorks DEF BudgetSpent, roundVars
<1>8. CASE BeginTurn
  <2>1. TurnStarted'
    <3> DEFINE row == [member |-> worker.choice.member, decision |-> worker.decision,
                       status |-> "STARTED"]
    <3>1. row \in TurnRows /\ roundTurn' = Append(roundTurn, row)
      BY <1>8, SpeakFacts DEF BeginTurn, At, WorkerOK, TurnRows, TrailTypes, WorkerRows
    <3>2. Len(roundTurn') = Len(roundTurn) + 1 /\ roundTurn'[Len(roundTurn) + 1] = row
      BY <3>1, Appended DEF TrailTypes
    <3> QED
      BY <1>a, <3>2 DEF TurnStarted, LastTurn
  <2>2. worker'.pc = "speak" \/ (worker'.pc = "turned" /\ worker'.choice = worker.choice)
    BY <1>8, <1>a, Restarted, Went DEF BeginTurn, TrailTypes
  <2>3. worker.choice \in Choices /\ stage' = "RUNNING"
    BY <1>8 DEF BeginTurn, At, WorkerOK, roundVars
  <2> QED
    BY <2>1, <2>2, <2>3 DEF WorkerOK, Working, Selecting
<1>9. CASE TurnRefused
  BY <1>9, <1>a, <1>b, Restarted, PlainWorks DEF TurnRefused, roundVars
<1>10. CASE AnswerSpeak
  <2>1. worker'.pc = "speak"
    BY <1>10, <1>a, Restarted DEF AnswerSpeak
  <2>2. TurnStarted'
    BY <1>10 DEF AnswerSpeak, At, WorkerOK, TurnStarted, LastTurn
  <2> QED
    BY <1>10, <1>b, <2>1, <2>2 DEF AnswerSpeak, WorkerOK, Working, Selecting, roundVars
<1> QED
  BY <1>1, <1>2, <1>3, <1>4, <1>5, <1>6, <1>7, <1>8, <1>9, <1>10 DEF Choosing

LEMMA SpeakingWorks ==
    ASSUME Known, Speaking
    PROVE  WorkerOK'
<1> USE DEF Known
<1>a. {"top", "listen", "heard", "lost", "leave"} \subseteq Places /\ {"top", "leave"} \subseteq Plain \ {"heard"}
  BY DEF Places, Working, Leaving, Plain
<1>b. stage' = "RUNNING"
  BY DEF Speaking, FailBeforeCall, ReserveSpeaker, SpeakerAnswers, SettleAnswer, SpeakerFails,
         FailTurn, At, roundVars, WorkerOK, Working
<1>1. CASE FailBeforeCall
  BY <1>1, <1>a, <1>b, Restarted, PlainWorks DEF FailBeforeCall
<1>2. CASE ReserveSpeaker
  <2>1. ReserveFor("round_speaker", LastTurn, "listen") /\ "round_speaker" \in Kinds
    BY <1>2, DirectorAssumption DEF ReserveSpeaker
  <2>2. ledger[Run].reserved + 1 \in Slots /\ ledger[Run].reserved + 1 \in Nat
    <3>1. ledger[Run].reserved + 1 \in Slots
      BY <2>1, ReservedCall
    <3> QED
      BY <3>1 DEF Slots
  <2>3. worker'.pc = "listen" /\ worker'.slot \in Slots
    BY <1>a, <2>1, <2>2, WentOn DEF ReserveFor, TrailTypes
  <2>4. TurnStarted'
    BY <1>2 DEF ReserveSpeaker, At, WorkerOK, TurnStarted, LastTurn
  <2> QED
    BY <1>b, <2>3, <2>4 DEF WorkerOK, Working, Selecting
<1>3. CASE SpeakerAnswers
  <2>1. worker'.pc = "heard" /\ worker'.slot = worker.slot
    BY <1>3, <1>a, Went DEF SpeakerAnswers, TrailTypes
  <2>2. worker.slot \in Slots
    BY <1>3 DEF SpeakerAnswers, At, WorkerOK
  <2> QED
    BY <1>b, <2>1, <2>2 DEF WorkerOK, Working, Selecting
<1>4. CASE SettleAnswer
  BY <1>4, <1>a, <1>b, Restarted, PlainWorks DEF SettleAnswer
<1>5. CASE SpeakerFails
  <2>1. worker'.pc = "lost"
    BY <1>5, <1>a, Went DEF SpeakerFails, TrailTypes
  <2>2. TurnStarted'
    BY <1>5 DEF SpeakerFails, At, WorkerOK, TurnStarted, LastTurn, trail
  <2> QED
    BY <1>b, <2>1, <2>2 DEF WorkerOK, Working, Selecting
<1>6. CASE FailTurn
  BY <1>6, <1>a, <1>b, Restarted, PlainWorks DEF FailTurn
<1> QED
  BY <1>1, <1>2, <1>3, <1>4, <1>5, <1>6 DEF Speaking

LEMMA EndingWorks ==
    ASSUME Known, Ending
    PROVE  WorkerOK'
<1> USE DEF Known
<1>a. {"park", "leave", "seal"} \subseteq Places /\ {"park", "leave"} \subseteq Plain \ {"heard"}
      /\ worker.attempt \in Nat /\ 0 \in Nat
  BY DEF Places, Leaving, Plain, TrailTypes, WorkerRows
<1>1. CASE Settle
  <2>1. CASE worker' = Off
    BY <2>1, OffWorks
  <2>2. CASE Goto("park") /\ UNCHANGED roundVars
    <3>1. worker'.pc = "park" /\ stage' = "RUNNING"
      BY <1>1, <1>a, <2>2, Went DEF Settle, TrailTypes, roundVars
    <3> QED
      BY <1>a, <3>1, PlainWorks
  <2> QED
    BY <1>1, <2>1, <2>2 DEF Settle
<1>2. CASE Interrupt
  <2>1. stage' = "RUNNING"
    BY <1>2 DEF Interrupt, roundVars, WorkerOK
  <2> QED
    BY <1>2, <1>a, <2>1, Exited, PlainWorks DEF Interrupt
<1>3. CASE Leave
  <2>1. stage' = "RUNNING"
    BY <1>3 DEF Leave, At, roundVars, WorkerOK
  <2> QED
    BY <1>3, <1>a, <2>1, Restarted, PlainWorks DEF Leave
<1>4. CASE Park
  BY <1>4, <1>a, Went, AwayWorks DEF Park, ToPaused, TrailTypes
<1>5. CASE Seal
  BY <1>5, OffWorks DEF Seal
<1>6. CASE LeavingFails
  BY <1>6, OffWorks DEF LeavingFails
<1> QED
  BY <1>1, <1>2, <1>3, <1>4, <1>5, <1>6 DEF Ending

LEMMA AroundWorks ==
    ASSUME Known, Around
    PROVE  WorkerOK'
<1> USE DEF Known
<1>a. {"recover", "reopen", "top"} \subseteq Places /\ {"recover", "reopen"} \subseteq Resuming
      /\ "top" \in Plain \ {"heard"}
  BY DEF Places, Resuming, Working, Plain
<1>1. CASE Resume
  BY <1>1, <1>a, Went, AwayWorks DEF Resume, roundVars, TrailTypes
<1>2. CASE RecoverAttempts
  BY <1>2, <1>a, Went, AwayWorks DEF RecoverAttempts, roundVars, TrailTypes
<1>3. CASE Reopen
  BY <1>3, <1>a, Restarted, PlainWorks DEF Reopen
<1>4. CASE GiveUp
  BY <1>4, OffWorks DEF GiveUp
<1>5. CASE RequestPause
  BY <1>5 DEF RequestPause, WorkerOK, trail, ledgerVars, TurnStarted, LastTurn
<1>6. CASE CancelPaused
  <2>1. worker.pc \notin Working \cup {"leave", "park"}
    BY <1>6 DEF CancelPaused, WorkerOK
  <2> QED
    BY <1>6, <2>1 DEF CancelPaused, WorkerOK, Working, Selecting
<1>7. CASE CrashAndRestart
  BY <1>7, OffWorks DEF CrashAndRestart
<1> QED
  BY <1>1, <1>2, <1>3, <1>4, <1>5, <1>6, <1>7 DEF Around

-----------------------------------------------------------------------------
(* Which attempts can be in flight, and that a failed one is the last.      *)

LEMMA Started0 ==
    ASSUME directorAttempt \in Seq(DirectorRows)
    PROVE  NoneStarted <=>
             \A a \in 1 .. Len(directorAttempt) : directorAttempt[a].status # "STARTED"
  BY Counted DEF NoneStarted

\* The rows are as before, and the thread keeps its attempt or drops it.
LEMMA SameAttempts ==
    ASSUME Known, UNCHANGED directorAttempt, worker'.attempt \in {0, worker.attempt},
           worker'.pc \in Quiet => NoneStarted,
           stage' \in {"NONE", "FINISHED", "CANCELLED"} => NoneStarted,
           worker'.pc \in Holding =>
             NoneStarted \/ (worker.pc \in Holding /\ worker'.attempt = worker.attempt),
           worker'.pc \in Selecting => worker.pc \in Selecting /\ worker'.attempt = worker.attempt,
           worker'.pc = "turned" => worker'.attempt # 0
    PROVE  AttemptsOK'
<1>1. directorAttempt \in Seq(DirectorRows) /\ Len(directorAttempt) \in Nat
  BY Counted DEF Known, TrailTypes
<1>2. worker'.attempt \in 0 .. Len(directorAttempt)
  BY <1>1 DEF Known, AttemptsOK
<1>3. worker'.pc \in Holding =>
        \A a \in 1 .. Len(directorAttempt) :
           directorAttempt[a].status = "STARTED" => a = worker'.attempt
  BY <1>1, Started0 DEF Known, AttemptsOK
<1> QED
  BY <1>1, <1>2, <1>3 DEF Known, AttemptsOK, NoneStarted, BreakerHolds

\* No attempt is left in flight, and none of them fails.
LEMMA Emptied ==
    ASSUME Known, directorAttempt' \in Seq(DirectorRows),
           Len(directorAttempt') = Len(directorAttempt),
           \A a \in 1 .. Len(directorAttempt) :
              /\ directorAttempt'[a].status # "STARTED"
              /\ directorAttempt'[a].status \in {"FAILED", "INVALID"} =>
                   directorAttempt[a].status \in {"FAILED", "INVALID"} \/ a = Len(directorAttempt),
           worker'.attempt \in 0 .. Len(directorAttempt),
           worker'.pc \notin Selecting, worker'.pc # "turned"
    PROVE  AttemptsOK'
<1>1. /\ Len(directorAttempt) \in Nat
      /\ DOMAIN directorAttempt = 1 .. Len(directorAttempt)
      /\ DOMAIN directorAttempt' = 1 .. Len(directorAttempt)
  BY Counted DEF Known, TrailTypes
<1>2. NoneStarted'
  BY <1>1 DEF NoneStarted
<1>3. BreakerHolds'
  BY <1>1 DEF BreakerHolds, Known, AttemptsOK
<1> QED
  BY <1>2, <1>3 DEF AttemptsOK

\* The thread's own attempt was the only one in flight, and gets its outcome.
LEMMA Ended ==
    ASSUME Known, worker.pc \in Holding, NEW o \in AttemptStatus \ {"STARTED"},
           NEW m \in Speakers \cup {NoMember}, NEW d \in Nat, NEW n \in Nat,
           worker.attempt # 0, FinishAttempt(worker.attempt, o, m, d, n),
           o \in {"FAILED", "INVALID"} => worker.attempt = Len(directorAttempt),
           worker'.attempt = 0, worker'.pc \notin Selecting, worker'.pc # "turned"
    PROVE  AttemptsOK'
<1>1. worker.attempt \in 1 .. Len(directorAttempt) /\ Len(directorAttempt) \in Nat
      /\ directorAttempt \in Seq(DirectorRows) /\ o \in AttemptStatus
  BY Counted DEF Known, AttemptsOK, TrailTypes
<1> DEFINE row == [status |-> o, member |-> m, decision |-> d, order |-> n]
<1> HIDE DEF row
<1>2. /\ directorAttempt' \in Seq(DirectorRows)
      /\ Len(directorAttempt') = Len(directorAttempt)
      /\ \A i \in 1 .. Len(directorAttempt) :
            directorAttempt'[i] = IF i = worker.attempt THEN row ELSE directorAttempt[i]
  <2>1. row \in DirectorRows
    BY <1>1 DEF DirectorRows, row
  <2>2. directorAttempt' = [directorAttempt EXCEPT ![worker.attempt] = row]
    BY DEF FinishAttempt, row
  <2> QED
    BY <1>1, <2>1, <2>2, Rewritten
<1>r. row.status = o
  BY DEF row
<1>3. \A a \in 1 .. Len(directorAttempt) :
         /\ directorAttempt'[a].status # "STARTED"
         /\ directorAttempt'[a].status \in {"FAILED", "INVALID"} =>
              directorAttempt[a].status \in {"FAILED", "INVALID"} \/ a = Len(directorAttempt)
  BY <1>2, <1>r DEF Known, AttemptsOK
<1>4. worker'.attempt \in 0 .. Len(directorAttempt)
  BY <1>1
<1> QED
  BY <1>2, <1>3, <1>4, Emptied

\* cancel_active_director_attempt, where only the thread's can be in flight.
LEMMA Dropped ==
    ASSUME Known, worker.pc \in Holding, CancelActive,
           worker'.attempt = 0, worker'.pc \notin Selecting, worker'.pc # "turned"
    PROVE  AttemptsOK'
<1>1. worker.attempt \in 0 .. Len(directorAttempt) /\ Len(directorAttempt) \in Nat
      /\ directorAttempt \in Seq(DirectorRows)
  BY Counted DEF Known, AttemptsOK, TrailTypes
<1>2. /\ directorAttempt' \in Seq(DirectorRows)
      /\ Len(directorAttempt') = Len(directorAttempt)
      /\ \A i \in 1 .. Len(directorAttempt) :
            directorAttempt'[i] = IF i = worker.attempt /\ directorAttempt[i].status = "STARTED"
                                  THEN [status |-> "CANCELLED", member |-> NoMember,
                                        decision |-> 0, order |-> 0]
                                  ELSE directorAttempt[i]
  BY <1>1, CancelledActive
<1>3. \A a \in 1 .. Len(directorAttempt) :
         /\ directorAttempt'[a].status # "STARTED"
         /\ directorAttempt'[a].status \in {"FAILED", "INVALID"} =>
              directorAttempt[a].status \in {"FAILED", "INVALID"} \/ a = Len(directorAttempt)
  BY <1>2 DEF Known, AttemptsOK
<1>4. worker'.attempt \in 0 .. Len(directorAttempt)
  BY <1>1
<1> QED
  BY <1>2, <1>3, <1>4, Emptied

LEMMA Recovered ==
    ASSUME Known, CancelStarted, worker'.attempt \in 0 .. Len(directorAttempt),
           worker'.pc \notin Selecting, worker'.pc # "turned"
    PROVE  AttemptsOK'
<1>1. directorAttempt \in Seq(DirectorRows)
  BY DEF Known, TrailTypes
<1>2. /\ directorAttempt' \in Seq(DirectorRows)
      /\ Len(directorAttempt') = Len(directorAttempt)
      /\ \A i \in 1 .. Len(directorAttempt) :
            directorAttempt'[i] = IF directorAttempt[i].status = "STARTED"
                                  THEN [directorAttempt[i] EXCEPT !.status = "CANCELLED"]
                                  ELSE directorAttempt[i]
  BY <1>1, Cancelled
<1>3. \A a \in 1 .. Len(directorAttempt) :
         /\ directorAttempt'[a].status # "STARTED"
         /\ directorAttempt'[a].status \in {"FAILED", "INVALID"} =>
              directorAttempt[a].status \in {"FAILED", "INVALID"} \/ a = Len(directorAttempt)
  <2> SUFFICES ASSUME NEW a \in 1 .. Len(directorAttempt)
               PROVE  /\ directorAttempt'[a].status # "STARTED"
                      /\ directorAttempt'[a].status \in {"FAILED", "INVALID"} =>
                           directorAttempt[a].status \in {"FAILED", "INVALID"}
    OBVIOUS
  <2>1. directorAttempt[a] \in DirectorRows
    BY <1>1, ElementOfSeq
  <2> QED
    BY <1>2, <2>1 DEF DirectorRows
<1> QED
  BY <1>2, <1>3, Emptied

LEMMA LoopingAttempts ==
    ASSUME Known, Looping
    PROVE  AttemptsOK'
<1> USE DEF Known
<1>a. {"top", "settle", "select"} \subseteq Places
  BY DEF Places, Working
<1>b. At("top") \/ At("refused") => NoneStarted
  BY DEF At, AttemptsOK, Quiet
<1>1. CASE Authorize
  <2>1. UNCHANGED <<stage, directorAttempt, worker>>
    BY <1>1 DEF Authorize, trail, roundVars
  <2> QED
    BY <2>1 DEF AttemptsOK, NoneStarted, BreakerHolds
<1>2. CASE Open
  <2>1. worker'.pc = "top" /\ worker'.attempt = 0 /\ stage' = "RUNNING"
        /\ UNCHANGED directorAttempt
    BY <1>2, <1>a, Restarted DEF Open, trail
  <2>2. NoneStarted
    BY <1>2 DEF Open, AttemptsOK
  <2> QED
    BY <2>1, <2>2, SameAttempts DEF Quiet, Holding, Selecting
<1>3. CASE TurnsUsedUp
  <2>1. worker'.pc = "settle" /\ worker'.attempt = 0 /\ UNCHANGED directorAttempt
    BY <1>3, <1>a, Restarted DEF TurnsUsedUp, trail
  <2> QED
    BY <1>3, <1>b, <2>1, SameAttempts DEF TurnsUsedUp, Quiet, Holding, Selecting
<1>4. CASE AcknowledgePause
  <2>1. worker'.pc = "off" /\ worker'.attempt = 0 /\ UNCHANGED directorAttempt
    BY <1>4, OffFacts DEF AcknowledgePause, trail
  <2> QED
    BY <1>4, <1>b, <2>1, SameAttempts DEF AcknowledgePause, Quiet, Holding, Selecting
<1>5. CASE FailUnknownTurn
  <2>1. UNCHANGED <<stage, directorAttempt, worker>>
    BY <1>5 DEF FailUnknownTurn, roundVars
  <2> QED
    BY <2>1 DEF AttemptsOK, NoneStarted, BreakerHolds
<1>6. CASE StartSelecting
  <2>1. worker'.pc = "select" /\ worker'.attempt = worker.attempt /\ UNCHANGED directorAttempt
    BY <1>6, <1>a, Went DEF StartSelecting, trail, TrailTypes
  <2> QED
    BY <1>6, <1>b, <2>1, SameAttempts DEF StartSelecting, Quiet, Holding, Selecting
<1> QED
  BY <1>1, <1>2, <1>3, <1>4, <1>5, <1>6 DEF Looping

LEMMA SelectionAttempts ==
    ASSUME Known, Selection
    PROVE  AttemptsOK'
<1> USE DEF Known
<1>a. /\ {"settle", "ask", "failed", "reserve"} \subseteq Places
      /\ directorAttempt \in Seq(DirectorRows) /\ Len(directorAttempt) \in Nat
      /\ worker.attempt \in Nat /\ 0 \in Nat /\ NoMember \in Speakers \cup {NoMember}
  BY Counted DEF Places, Working, Selecting, TrailTypes, WorkerRows
<1>b. /\ At("select") => NoneStarted
      /\ worker.pc \in Selecting =>
            /\ worker.pc \in Holding /\ worker.attempt # 0
            /\ worker.attempt = Len(directorAttempt)
      /\ At("reserve") \/ At("ask") \/ At("failed") => worker.pc \in Selecting
  BY DEF At, AttemptsOK, Quiet, Selecting, Holding
<1>c. stage = "RUNNING" /\ stage' = "RUNNING"
  <2>1. UNCHANGED stage
    BY DEF Selection, SelectWithoutCall, BeginAttempt, ReserveDirector, ReserveDirectorFails,
           DirectorAnswers, DirectorFails, RecordFailure, LedgerFails, roundVars
  <2>2. worker.pc \in {"select"} \cup Selecting
    BY DEF Selection, SelectWithoutCall, BeginAttempt, ReserveDirector, ReserveDirectorFails,
           DirectorAnswers, DirectorFails, RecordFailure, LedgerFails, At, Selecting
  <2> QED
    BY <2>1, <2>2 DEF WorkerOK, Working
<1>1. CASE SelectWithoutCall
  <2>1. worker'.attempt = 0 /\ worker'.pc \in {"settle", "chosen"} /\ UNCHANGED directorAttempt
    BY <1>1, <1>a, Restarted, Chosen DEF SelectWithoutCall, trail
  <2> QED
    BY <1>1, <1>b, <1>c, <2>1, SameAttempts DEF SelectWithoutCall, Quiet, Selecting
<1>2. CASE BeginAttempt
  <2>1. /\ directorAttempt' \in Seq(DirectorRows) /\ Len(directorAttempt') = Len(directorAttempt) + 1
        /\ DOMAIN directorAttempt' = 1 .. Len(directorAttempt) + 1
        /\ \A i \in 1 .. Len(directorAttempt) : directorAttempt'[i] = directorAttempt[i]
        /\ directorAttempt'[Len(directorAttempt) + 1] = NewAttempt
    <3>1. NewAttempt \in DirectorRows
      BY DEF NewAttempt, DirectorRows, AttemptStatus
    <3> QED
      BY <1>2, <1>a, <3>1, Appended DEF BeginAttempt
  <2>2. worker'.pc = "reserve" /\ worker'.attempt = Len(directorAttempt) + 1
    <3>1. Len(directorAttempt) + 1 \in Nat
      BY <1>a
    <3> QED
      BY <1>2, <1>a, <3>1, WentOn DEF BeginAttempt, TrailTypes
  <2>3. \A a \in 1 .. Len(directorAttempt) :
           directorAttempt[a].status \notin {"STARTED", "FAILED", "INVALID"}
    BY <1>2, <1>a, Counted, Started0 DEF BeginAttempt, BreakerOpen
  <2>4. BreakerHolds'
    BY <1>a, <2>1, <2>3 DEF BreakerHolds, NewAttempt
  <2> QED
    BY <1>a, <1>c, <2>1, <2>2, <2>3, <2>4 DEF AttemptsOK, Quiet, Selecting, NewAttempt
<1>3. CASE ReserveDirector
  <2>1. ReserveFor("round_director", worker.attempt, "ask") /\ "round_director" \in Kinds
    BY <1>3, DirectorAssumption DEF ReserveDirector
  <2>2. ledger[Run].reserved + 1 \in Slots /\ ledger[Run].reserved + 1 \in Nat
    <3>1. ledger[Run].reserved + 1 \in Slots
      BY <2>1, ReservedCall
    <3> QED
      BY <3>1 DEF Slots
  <2>3. worker'.pc = "ask" /\ worker'.attempt = worker.attempt
    BY <1>a, <2>1, <2>2, WentOn DEF ReserveFor, TrailTypes
  <2>4. UNCHANGED directorAttempt
    BY <1>3 DEF ReserveDirector
  <2> QED
    BY <1>3, <1>b, <1>c, <2>3, <2>4, SameAttempts DEF ReserveDirector, Quiet, Selecting
<1>4. CASE ReserveDirectorFails
  <2>1. worker'.attempt = 0 /\ worker'.pc = "chosen"
    BY <1>4, <1>a, Chosen DEF ReserveDirectorFails
  <2>2. "CANCELLED" \in AttemptStatus \ {"STARTED"}
    BY DEF AttemptStatus
  <2> QED
    BY <1>4, <1>a, <1>b, <2>1, <2>2, Ended DEF ReserveDirectorFails, Selecting
<1>5. CASE DirectorAnswers
  <2>1. worker'.attempt = worker.attempt /\ worker'.pc = "chosen" /\ UNCHANGED directorAttempt
    BY <1>5, <1>a, Chosen DEF DirectorAnswers, trail
  <2> QED
    BY <1>5, <1>b, <1>c, <2>1, SameAttempts DEF DirectorAnswers, Quiet, Selecting
<1>6. CASE DirectorFails
  <2>1. worker'.pc = "failed" /\ worker'.attempt = worker.attempt /\ UNCHANGED directorAttempt
    BY <1>6, <1>a, Went DEF DirectorFails, TrailTypes, trail
  <2> QED
    BY <1>6, <1>b, <1>c, <2>1, SameAttempts DEF DirectorFails, Quiet, Selecting
<1>7. CASE RecordFailure
  <2>1. worker'.attempt = 0 /\ worker'.pc = "chosen"
    BY <1>7, <1>a, Chosen DEF RecordFailure
  <2>2. PICK o \in {"FAILED", "INVALID"} : FinishAttempt(worker.attempt, o, NoMember, 0, 0)
    BY <1>7 DEF RecordFailure, At, WorkerOK
  <2>3. o \in AttemptStatus \ {"STARTED"}
    BY <2>2 DEF AttemptStatus
  <2> QED
    BY <1>7, <1>a, <1>b, <2>1, <2>2, <2>3, Ended DEF RecordFailure, Selecting
<1>8. CASE LedgerFails
  <2>1. worker'.attempt = 0 /\ worker'.pc = "chosen"
    BY <1>8, <1>a, Chosen DEF LedgerFails
  <2>2. "INVALID" \in AttemptStatus \ {"STARTED"}
    BY DEF AttemptStatus
  <2> QED
    BY <1>8, <1>a, <1>b, <2>1, <2>2, Ended DEF LedgerFails, Selecting
<1> QED
  BY <1>1, <1>2, <1>3, <1>4, <1>5, <1>6, <1>7, <1>8 DEF Selection

LEMMA ChoosingAttempts ==
    ASSUME Known, Choosing
    PROVE  AttemptsOK'
<1> USE DEF Known
<1>a. /\ Len(directorAttempt) \in Nat /\ Len(directorDecision) \in Nat /\ Len(roundTurn) \in Nat
      /\ directorAttempt \in Seq(DirectorRows)
      /\ worker.attempt \in 0 .. Len(directorAttempt)
      /\ worker.decision \in Nat /\ worker.attempt \in Nat /\ 0 \in Nat
      /\ NoMember \in Speakers \cup {NoMember}
  BY Counted DEF TrailTypes, AttemptsOK, WorkerRows
<1>b. /\ {"settle", "parted", "leave", "decided", "speak", "turned", "refused"} \subseteq Places
      /\ "RESPONDED" \in AttemptStatus \ {"STARTED"}
  BY DEF Places, Working, Leaving, AttemptStatus
<1>c. /\ At("chosen") \/ At("decided") \/ At("turned") =>
            worker.pc \in Holding /\ stage = "RUNNING"
      /\ worker.attempt = 0 /\ worker.pc \in Holding => NoneStarted
  BY <1>a, Started0 DEF At, AttemptsOK, Holding, WorkerOK, Working
<1>1. CASE NoTurnLeft
  BY <1>1, <1>b, <1>c, Restarted, Dropped DEF NoTurnLeft, Selecting
<1>2. CASE PauseChosen
  <2>1. worker'.attempt = worker.attempt /\ worker'.pc = "parted" /\ stage' = "PAUSED"
        /\ UNCHANGED directorAttempt
    BY <1>2, <1>a, <1>b, Exited DEF PauseChosen, trail, ToPaused
  <2> QED
    BY <2>1, SameAttempts DEF Quiet, Holding, Selecting
<1>3. CASE Part
  <2>1. worker'.pc = "off" /\ worker'.attempt = 0
    BY <1>3, OffFacts DEF Part
  <2>2. /\ directorAttempt' \in Seq(DirectorRows)
        /\ Len(directorAttempt') = Len(directorAttempt)
        /\ DOMAIN directorAttempt' = 1 .. Len(directorAttempt)
        /\ \A i \in 1 .. Len(directorAttempt) :
              directorAttempt'[i] = IF i = worker.attempt /\ directorAttempt[i].status = "STARTED"
                                    THEN [status |-> "CANCELLED", member |-> NoMember,
                                          decision |-> 0, order |-> 0]
                                    ELSE directorAttempt[i]
    BY <1>3, <1>a, CancelledActive DEF Part
  <2>3. stage' \in {"NONE", "FINISHED", "CANCELLED"} => NoneStarted'
    BY <1>3, <1>a, <2>2, Started0 DEF Part, AttemptsOK, roundVars, NoneStarted
  <2>4. BreakerHolds'
    BY <1>a, <2>2, Counted DEF BreakerHolds, AttemptsOK
  <2> QED
    BY <1>a, <2>1, <2>2, <2>3, <2>4 DEF AttemptsOK, Quiet, Holding, Selecting
<1>4. CASE SelectionFailed
  <2>1. worker'.attempt = worker.attempt /\ worker'.pc = "leave" /\ stage' = stage
        /\ UNCHANGED directorAttempt
    BY <1>4, <1>a, <1>b, Exited DEF SelectionFailed, trail, roundVars
  <2> QED
    BY <1>4, <1>c, <2>1, SameAttempts DEF SelectionFailed, Quiet, Holding, Selecting
<1>5. CASE AddDecision
  <2>1. worker'.pc = "decided" /\ worker'.attempt = worker.attempt /\ stage' = stage
        /\ UNCHANGED directorAttempt
    <3>1. Len(directorDecision) + 1 \in Nat
      BY <1>a
    <3> QED
      BY <1>5, <1>b, <3>1, WentOn DEF AddDecision, TrailTypes, roundVars
  <2> QED
    BY <1>5, <1>c, <2>1, SameAttempts DEF AddDecision, Quiet, Selecting
<1>6. CASE AnswerFinish
  <2>1. worker'.pc = "settle" /\ worker'.attempt = 0 /\ stage' = stage
    BY <1>6, <1>b, Restarted DEF AnswerFinish, roundVars
  <2>2. CASE /\ worker.attempt # 0
             /\ FinishAttempt(worker.attempt, "RESPONDED", NoMember, worker.decision, 0)
    BY <1>6, <1>a, <1>b, <1>c, <2>1, <2>2, Ended DEF AnswerFinish, Selecting
  <2>3. CASE worker.attempt = 0 /\ UNCHANGED directorAttempt
    BY <1>6, <1>c, <2>1, <2>3, SameAttempts DEF AnswerFinish, Holding, Selecting
  <2> QED
    BY <1>6, <2>2, <2>3 DEF AnswerFinish
<1>7. CASE BudgetSpent
  <2>1. worker'.attempt = worker.attempt /\ worker'.pc = "leave" /\ stage' = stage
        /\ UNCHANGED directorAttempt
    BY <1>7, <1>a, <1>b, Exited DEF BudgetSpent, trail, roundVars
  <2> QED
    BY <1>7, <1>c, <2>1, SameAttempts DEF BudgetSpent, Quiet, Holding, Selecting
<1>8. CASE BeginTurn
  <2>1. /\ \/ worker.attempt = 0 /\ worker'.attempt = 0 /\ worker'.pc = "speak"
           \/ /\ worker.attempt # 0 /\ worker'.attempt = worker.attempt
              /\ worker'.pc = "turned"
        /\ stage' = stage /\ UNCHANGED directorAttempt
    BY <1>8, <1>b, Restarted, Went DEF BeginTurn, TrailTypes, roundVars
  <2> QED
    BY <1>8, <1>c, <2>1, SameAttempts DEF BeginTurn, Quiet, Holding, Selecting
<1>9. CASE TurnRefused
  BY <1>9, <1>b, <1>c, Restarted, Dropped DEF TurnRefused, Selecting
<1>10. CASE AnswerSpeak
  <2>1. worker'.pc = "speak" /\ worker'.attempt = 0
    BY <1>10, <1>b, Restarted DEF AnswerSpeak
  <2>2. worker.choice.member \in Speakers \cup {NoMember}
    BY <1>10, SpeakFacts DEF AnswerSpeak, At, WorkerOK, Finish
  <2>3. worker.attempt # 0 /\ LastTurn \in Nat
    BY <1>10, <1>a DEF AnswerSpeak, At, AttemptsOK, LastTurn
  <2> QED
    BY <1>10, <1>a, <1>b, <1>c, <2>1, <2>2, <2>3, Ended DEF AnswerSpeak, Selecting
<1> QED
  BY <1>1, <1>2, <1>3, <1>4, <1>5, <1>6, <1>7, <1>8, <1>9, <1>10 DEF Choosing

LEMMA SpeakingAttempts ==
    ASSUME Known, Speaking
    PROVE  AttemptsOK'
<1> USE DEF Known
<1>a. {"top", "listen", "heard", "lost", "leave"} \subseteq Places
  BY DEF Places, Working, Leaving
<1>b. NoneStarted /\ stage' = stage
  BY DEF Speaking, FailBeforeCall, ReserveSpeaker, SpeakerAnswers, SettleAnswer, SpeakerFails,
         FailTurn, At, AttemptsOK, Quiet, roundVars
<1>c. UNCHANGED directorAttempt
  BY DEF Speaking, FailBeforeCall, ReserveSpeaker, SpeakerAnswers, SettleAnswer, SpeakerFails,
         FailTurn, trail
<1>d. worker'.attempt \in {0, worker.attempt} /\ worker'.pc \in {"top", "listen", "heard", "lost", "leave"}
  <2>1. CASE FailBeforeCall
    BY <2>1, <1>a, Restarted DEF FailBeforeCall
  <2>2. CASE ReserveSpeaker
    <3>1. ReserveFor("round_speaker", LastTurn, "listen") /\ "round_speaker" \in Kinds
      BY <2>2, DirectorAssumption DEF ReserveSpeaker
    <3>2. ledger[Run].reserved + 1 \in Slots
      BY <3>1, ReservedCall
    <3>3. ledger[Run].reserved + 1 \in Nat
      BY <3>2 DEF Slots
    <3> QED
      BY <1>a, <3>1, <3>2, <3>3, WentOn DEF ReserveFor, TrailTypes
  <2>3. CASE SpeakerAnswers
    BY <2>3, <1>a, Went DEF SpeakerAnswers, TrailTypes
  <2>4. CASE SettleAnswer
    BY <2>4, <1>a, Restarted DEF SettleAnswer
  <2>5. CASE SpeakerFails
    BY <2>5, <1>a, Went DEF SpeakerFails, TrailTypes
  <2>6. CASE FailTurn
    BY <2>6, <1>a, Restarted DEF FailTurn
  <2> QED
    BY <2>1, <2>2, <2>3, <2>4, <2>5, <2>6 DEF Speaking
<1> QED
  BY <1>b, <1>c, <1>d, SameAttempts DEF Holding, Selecting

LEMMA EndingAttempts ==
    ASSUME Known, Ending
    PROVE  AttemptsOK'
<1> USE DEF Known
<1>a. /\ {"park", "leave", "seal"} \subseteq Places /\ worker.attempt \in Nat /\ 0 \in Nat
      /\ directorAttempt \in Seq(DirectorRows) /\ Len(directorAttempt) \in Nat
      /\ worker.attempt \in 0 .. Len(directorAttempt)
  BY Counted DEF Places, Leaving, TrailTypes, WorkerRows, AttemptsOK
<1>1. CASE Settle
  <2>1. NoneStarted /\ UNCHANGED directorAttempt
    BY <1>1 DEF Settle, At, AttemptsOK, Quiet, trail
  <2>2. worker'.attempt \in {0, worker.attempt} /\ worker'.pc \in {"off", "park"}
    BY <1>1, <1>a, Went, OffFacts DEF Settle, TrailTypes
  <2> QED
    BY <2>1, <2>2, SameAttempts DEF Holding, Selecting
<1>2. CASE Interrupt
  <2>1. worker'.attempt \in {0, worker.attempt} /\ worker'.pc = "leave" /\ stage' = stage
        /\ UNCHANGED directorAttempt /\ stage = "RUNNING"
    BY <1>2, <1>a, Exited DEF Interrupt, trail, roundVars, WorkerOK
  <2> QED
    BY <2>1, SameAttempts DEF Quiet, Holding, Selecting
<1>3. CASE Leave
  <2>1. worker'.attempt = 0 /\ worker'.pc = "park" /\ stage' = "RUNNING"
    BY <1>3, <1>a, Restarted DEF Leave, roundVars, At, WorkerOK
  <2>2. /\ directorAttempt' \in Seq(DirectorRows)
        /\ Len(directorAttempt') = Len(directorAttempt)
        /\ DOMAIN directorAttempt' = 1 .. Len(directorAttempt)
        /\ \A i \in 1 .. Len(directorAttempt) :
              directorAttempt'[i] = IF i = worker.attempt /\ directorAttempt[i].status = "STARTED"
                                    THEN [status |-> "CANCELLED", member |-> NoMember,
                                          decision |-> 0, order |-> 0]
                                    ELSE directorAttempt[i]
    BY <1>3, <1>a, CancelledActive DEF Leave
  <2>3. BreakerHolds'
    BY <1>a, <2>2, Counted DEF BreakerHolds, AttemptsOK
  <2> QED
    BY <1>a, <2>1, <2>2, <2>3 DEF AttemptsOK, Quiet, Holding, Selecting
<1>4. CASE Park
  <2>1. worker'.attempt = worker.attempt /\ worker'.pc = "seal" /\ stage' = "PAUSED"
        /\ UNCHANGED directorAttempt
    BY <1>4, <1>a, Went DEF Park, ToPaused, TrailTypes, trail
  <2> QED
    BY <2>1, SameAttempts DEF Quiet, Holding, Selecting
<1>5. CASE Seal \/ LeavingFails
  <2>1. worker'.attempt = 0 /\ worker'.pc = "off" /\ stage' = stage /\ UNCHANGED directorAttempt
    BY <1>5, OffFacts DEF Seal, LeavingFails, roundVars, trail
  <2>2. stage \in {"NONE", "FINISHED", "CANCELLED"} => NoneStarted
    BY DEF AttemptsOK
  <2> QED
    BY <2>1, <2>2, SameAttempts DEF Quiet, Holding, Selecting
<1> QED
  BY <1>1, <1>2, <1>3, <1>4, <1>5 DEF Ending

LEMMA AroundAttempts ==
    ASSUME Known, Around
    PROVE  AttemptsOK'
<1> USE DEF Known
<1>a. /\ {"recover", "reopen", "top"} \subseteq Places
      /\ worker.attempt \in 0 .. Len(directorAttempt) /\ Len(directorAttempt) \in Nat
  BY Counted DEF Places, Resuming, Working, AttemptsOK, TrailTypes
<1>b. stage \in {"NONE", "FINISHED", "CANCELLED"} => NoneStarted
  BY DEF AttemptsOK
<1>1. CASE Resume
  <2>1. worker'.attempt = worker.attempt /\ worker'.pc = "recover" /\ stage' = stage
        /\ UNCHANGED directorAttempt
    BY <1>1, <1>a, Went DEF Resume, TrailTypes, trail, roundVars
  <2> QED
    BY <1>b, <2>1, SameAttempts DEF Quiet, Holding, Selecting
<1>2. CASE RecoverAttempts
  <2>1. worker'.attempt = worker.attempt /\ worker'.pc = "reopen" /\ CancelStarted
    BY <1>2, <1>a, Went DEF RecoverAttempts, TrailTypes
  <2> QED
    BY <1>a, <2>1, Recovered DEF Selecting
<1>3. CASE Reopen
  <2>1. worker'.attempt = 0 /\ worker'.pc = "top" /\ UNCHANGED directorAttempt /\ NoneStarted
    BY <1>3, <1>a, Restarted DEF Reopen, At, AttemptsOK, Quiet, trail
  <2> QED
    BY <2>1, SameAttempts DEF Holding, Selecting
<1>4. CASE GiveUp
  <2>1. worker'.attempt = 0 /\ worker'.pc = "off" /\ stage' = stage /\ UNCHANGED directorAttempt
    BY <1>4, OffFacts DEF GiveUp, roundVars, trail
  <2> QED
    BY <1>b, <2>1, SameAttempts DEF Quiet, Holding, Selecting
<1>5. CASE RequestPause
  <2>1. UNCHANGED <<stage, directorAttempt, worker>>
    BY <1>5 DEF RequestPause, trail
  <2> QED
    BY <2>1 DEF AttemptsOK, NoneStarted, BreakerHolds
<1>6. CASE CancelPaused
  <2>1. CancelStarted /\ worker' = worker /\ worker.pc \notin Working
    BY <1>6 DEF CancelPaused, WorkerOK
  <2> QED
    BY <1>a, <2>1, Recovered DEF Working
<1>7. CASE CrashAndRestart
  <2>1. worker'.attempt = 0 /\ worker'.pc = "off"
    BY <1>7, OffFacts DEF CrashAndRestart
  <2>2. CASE CancelStarted
    BY <1>a, <2>1, <2>2, Recovered DEF Selecting
  <2>3. CASE /\ stage \notin {"RUNNING", "PAUSED"}
             /\ UNCHANGED <<roundVars, directorAttempt>>
    <3>1. stage' \in {"NONE", "FINISHED", "CANCELLED"} => NoneStarted
      BY <1>b, <2>3 DEF roundVars
    <3> QED
      BY <2>1, <2>3, <3>1, SameAttempts DEF Quiet, Holding, Selecting
  <2> QED
    BY <1>7, <2>2, <2>3 DEF CrashAndRestart
<1> QED
  BY <1>1, <1>2, <1>3, <1>4, <1>5, <1>6, <1>7 DEF Around

-----------------------------------------------------------------------------
(* Together.                                                                *)

LEMMA InitKnown ==
    ASSUME DirectorInit
    PROVE  LedgerInit /\ TrailTypes /\ WorkerOK /\ AttemptsOK
<1>1. LedgerInit /\ worker = Off /\ stage = "NONE"
  BY DEF DirectorInit
<1>2. TrailTypes
  BY <1>1, OffFacts DEF DirectorInit, TrailTypes
<1>3. WorkerOK
  BY <1>1, OffFacts DEF WorkerOK, Working, Selecting
<1>4. Len(directorAttempt) = 0 /\ DOMAIN directorAttempt = {}
  BY DEF DirectorInit
<1>5. AttemptsOK
  BY <1>1, <1>4, OffFacts
  DEF AttemptsOK, NoneStarted, BreakerHolds, Holding, Selecting
<1> QED
  BY <1>1, <1>2, <1>3, <1>5

LEMMA StepKnown ==
    ASSUME Known, [DirectorNext]_directorVars
    PROVE  /\ [LedgerNext]_ledgerVars
           /\ TrailTypes' /\ WorkerOK' /\ AttemptsOK'
<1>1. Typed
  BY StepTyped
<1>2. CASE UNCHANGED directorVars
  <2>1. UNCHANGED <<stage, directorAttempt, roundTurn, worker, attempt>>
    BY <1>2 DEF directorVars, trail, roundVars, ledgerVars
  <2> QED
    BY <1>1, <2>1
    DEF Typed, Known, WorkerOK, AttemptsOK, NoneStarted, BreakerHolds, TurnStarted, LastTurn
<1>3. CASE DirectorNext
  <2>1. WorkerOK'
    BY <1>3, LoopingWorks, SelectionWorks, ChoosingWorks, SpeakingWorks, EndingWorks, AroundWorks
    DEF DirectorNext
  <2>2. AttemptsOK'
    BY <1>3, LoopingAttempts, SelectionAttempts, ChoosingAttempts, SpeakingAttempts,
       EndingAttempts, AroundAttempts
    DEF DirectorNext
  <2> QED
    BY <1>1, <2>1, <2>2 DEF Typed
<1> QED
  BY <1>2, <1>3

\* The round's thread spends the run's calls only as the ledger allows, under
\* every crash, fault and pause: every behaviour of it is one of the ledger's.
THEOREM DirectorSpendsByLedger == DirectorSpec => LedgerSpec
<1>1. DirectorInit => LedgerInit /\ Known
  BY InitKnown, InitLedgerInv DEF Known
<1>2. Known /\ [DirectorNext]_directorVars => [LedgerNext]_ledgerVars /\ Known'
  BY StepKnown, StepLedgerInv DEF Known
<1> QED
  BY <1>1, <1>2, PTL DEF DirectorSpec, LedgerSpec

LEMMA KnownHolds == DirectorSpec => []Known
<1>1. DirectorInit => Known
  BY InitKnown, InitLedgerInv DEF Known
<1>2. Known /\ [DirectorNext]_directorVars => Known'
  BY StepKnown, StepLedgerInv DEF Known
<1> QED
  BY <1>1, <1>2, PTL DEF DirectorSpec

\* One failed or invalid director's answer ends the director's calls of the
\* round, over every pause, restart and resumption (the persisted breaker of
\* _select_next_member).
THEOREM BreakerHoldsAlways == DirectorSpec => []BreakerHolds
<1>1. Known => BreakerHolds
  BY DEF Known, AttemptsOK
<1> QED
  BY <1>1, KnownHolds, PTL

\* A round that has completed or was cancelled has no director's attempt in
\* flight, whichever thread or crash ended it.
THEOREM NothingIsLeftStarted == DirectorSpec => []NothingLeftStarted
<1>1. Known => NothingLeftStarted
  BY DEF Known, AttemptsOK, NothingLeftStarted
<1> QED
  BY <1>1, KnownHolds, PTL

-----------------------------------------------------------------------------
(* Types of the round, and the type invariant.                              *)

RoundTypes ==
    /\ stage \in {"NONE", "RUNNING", "PAUSED", "FINISHED", "CANCELLED"}
    /\ pauseAsked \in BOOLEAN /\ anchored \in BOOLEAN
    /\ disruptions \in 0 .. MaxDisruptions

LEMMA DisruptTyped ==
    ASSUME RoundTypes, Disrupt
    PROVE  disruptions' \in 0 .. MaxDisruptions
  BY DirectorAssumption DEF RoundTypes, Disrupt

LEMMA StepRoundTypes ==
    ASSUME RoundTypes, [DirectorNext]_directorVars
    PROVE  RoundTypes'
<1> USE DEF RoundTypes, roundVars
<1>1. CASE UNCHANGED directorVars
  BY <1>1 DEF directorVars
<1>2. CASE Looping
  BY <1>2 DEF Looping, Authorize, Open, TurnsUsedUp, AcknowledgePause, FailUnknownTurn,
              StartSelecting, ToPaused
<1>3. CASE Selection
  <2>1. UNCHANGED <<roundVars, anchored>>
    BY <1>3 DEF Selection, SelectWithoutCall, BeginAttempt, ReserveDirector, ReserveDirectorFails,
                DirectorAnswers, DirectorFails, RecordFailure, LedgerFails
  <2>2. UNCHANGED disruptions \/ Disrupt
    BY <1>3 DEF Selection, SelectWithoutCall, BeginAttempt, ReserveDirector, ReserveDirectorFails,
                DirectorAnswers, DirectorFails, RecordFailure, LedgerFails
  <2> QED
    BY <2>1, <2>2, DisruptTyped
<1>4. CASE Choosing
  BY <1>4 DEF Choosing, NoTurnLeft, PauseChosen, Part, SelectionFailed, AddDecision, AnswerFinish,
              BudgetSpent, BeginTurn, TurnRefused, AnswerSpeak, ToPaused
<1>5. CASE Speaking
  BY <1>5 DEF Speaking, FailBeforeCall, ReserveSpeaker, SpeakerAnswers, SettleAnswer, SpeakerFails,
              FailTurn
<1>6. CASE Ending
  BY <1>6, DisruptTyped
  DEF Ending, Settle, Interrupt, Leave, Park, Seal, LeavingFails, ToPaused
<1>7. CASE Around
  BY <1>7, DisruptTyped
  DEF Around, Resume, RecoverAttempts, Reopen, GiveUp, RequestPause, CancelPaused, CrashAndRestart,
      ToPaused
<1> QED
  BY <1>1, <1>2, <1>3, <1>4, <1>5, <1>6, <1>7 DEF DirectorNext

\* Every row of the trail, the thread's locals and the round's status keep
\* their types; an attempt's token, a turn's order and a call's target are
\* numbers of rows, and no status is invented by a crash or a resumption.
THEOREM DirectorTypeCorrect == DirectorSpec => []DirectorTypeOK
<1>1. DirectorInit => RoundTypes
  <2> SUFFICES ASSUME DirectorInit PROVE RoundTypes
    OBVIOUS
  <2>1. 0 \in 0 .. MaxDisruptions
    BY DirectorAssumption
  <2> QED
    BY <2>1 DEF DirectorInit, RoundTypes
<1>2. RoundTypes /\ [DirectorNext]_directorVars => RoundTypes'
  BY StepRoundTypes
<1>3. Known /\ RoundTypes => DirectorTypeOK
  BY DEF Known, RoundTypes, DirectorTypeOK, TrailTypes, LedgerInv, DirectorRows, TurnRows,
         WorkerRows, Places, Selections
<1> QED
  BY <1>1, <1>2, <1>3, KnownHolds, PTL DEF DirectorSpec

-----------------------------------------------------------------------------
(* The links between the rows.                                              *)

\* What the thread holds of the decision it is about to act on.
TrailOK ==
    /\ AnswersVerify /\ TurnsVerify
    /\ worker.pc \in {"decided", "turned"} =>
          /\ worker.decision \in 1 .. Len(directorDecision)
          /\ directorDecision[worker.decision] = worker.choice
    /\ worker.pc = "decided" =>
          \A n \in 1 .. Len(roundTurn) : roundTurn[n].decision # worker.decision

Director(s) == attempt[Run][s].kind = "round_director"
IsFailed(s) == attempt[Run][s].status \in {"FAILED", "INVALID"}

\* What the thread knows of the call it is about to make, or has made.
CallsOK ==
    /\ TargetsExist /\ OneCallPerRow
    /\ \A s \in Reserved(Run) : attempt[Run][s].kind \in {"round_director", "round_speaker"}
    /\ worker.pc = "reserve" =>
          \A s \in Reserved(Run) : Director(s) => target[s] # worker.attempt
    /\ worker.pc \in {"turned", "speak"} =>
          \A s \in Reserved(Run) : ~ Director(s) => target[s] # LastTurn
    /\ worker.pc = "ask" =>
          /\ worker.slot \in Reserved(Run) /\ Director(worker.slot)
          /\ target[worker.slot] = worker.attempt
    /\ worker.pc = "listen" =>
          /\ worker.slot \in Reserved(Run) /\ ~ Director(worker.slot)
          /\ target[worker.slot] = LastTurn /\ attempt[Run][worker.slot].status = "STARTED"
    /\ worker.pc \in {"chosen", "decided", "turned"} /\ worker.attempt # 0 =>
          \A s \in Reserved(Run) : Director(s) /\ target[s] = worker.attempt => ~ IsFailed(s)

\* A step that answers nothing, decides nothing, reserves no row and makes or
\* fails no call.
StillAttempts ==
    /\ Len(directorAttempt') = Len(directorAttempt)
    /\ \A a \in 1 .. Len(directorAttempt) :
          directorAttempt'[a].status = "RESPONDED" => directorAttempt'[a] = directorAttempt[a]
StillTurns ==
    /\ Len(roundTurn') = Len(roundTurn)
    /\ \A n \in 1 .. Len(roundTurn) :
          /\ roundTurn'[n].member = roundTurn[n].member
          /\ roundTurn'[n].decision = roundTurn[n].decision
          /\ roundTurn'[n].status = "RESPONDED" => roundTurn[n].status = "RESPONDED"
StillCalls ==
    /\ target' = target /\ Reserved(Run)' = Reserved(Run)
    /\ \A s \in Slots : /\ attempt'[Run][s].kind = attempt[Run][s].kind
                        /\ IsFailed(s)' => IsFailed(s)
Still == StillAttempts /\ StillTurns /\ StillCalls /\ UNCHANGED directorDecision

\* The thread holds neither decision, row nor call.
Free ==
    /\ worker.pc \notin {"reserve", "ask", "decided", "turned", "speak", "listen"}
    /\ worker.pc = "chosen" => worker.attempt = 0

LEMMA Domains ==
    ASSUME TrailTypes
    PROVE  /\ DOMAIN directorAttempt = 1 .. Len(directorAttempt) /\ Len(directorAttempt) \in Nat
           /\ DOMAIN directorDecision = 1 .. Len(directorDecision) /\ Len(directorDecision) \in Nat
           /\ DOMAIN roundTurn = 1 .. Len(roundTurn) /\ Len(roundTurn) \in Nat
  BY Counted DEF TrailTypes

LEMMA InSlots == ASSUME NEW s \in Reserved(Run) PROVE s \in Slots
  BY DEF Reserved

\* The links survive a step that only adds decisions and turns.
LEMMA AnswersKept ==
    ASSUME TrailTypes, TrailTypes', AnswersVerify,
           Len(directorDecision) <= Len(directorDecision'),
           \A i \in 1 .. Len(directorDecision) : directorDecision'[i] = directorDecision[i],
           Len(roundTurn) <= Len(roundTurn'),
           \A n \in 1 .. Len(roundTurn) : /\ roundTurn'[n].member = roundTurn[n].member
                                          /\ roundTurn'[n].decision = roundTurn[n].decision,
           \A a \in 1 .. Len(directorAttempt') :
              directorAttempt'[a].status = "RESPONDED" =>
                 a \in 1 .. Len(directorAttempt) /\ directorAttempt'[a] = directorAttempt[a]
    PROVE  AnswersVerify'
<1>1. /\ DOMAIN directorAttempt' = 1 .. Len(directorAttempt')
      /\ DOMAIN directorDecision' = 1 .. Len(directorDecision') /\ Len(directorDecision') \in Nat
      /\ DOMAIN roundTurn' = 1 .. Len(roundTurn') /\ Len(roundTurn') \in Nat
  <2>1. /\ directorAttempt' \in Seq(DirectorRows) /\ directorDecision' \in Seq(Choices)
        /\ roundTurn' \in Seq(TurnRows)
    BY DEF TrailTypes
  <2> QED
    BY <2>1, Counted
<1>2. SUFFICES ASSUME NEW a \in 1 .. Len(directorAttempt'),
                      directorAttempt'[a].status = "RESPONDED"
               PROVE  LET t == directorAttempt'[a] IN
                      /\ t.decision \in 1 .. Len(directorDecision')
                      /\ IF directorDecision'[t.decision] = Finish
                         THEN t.member = NoMember /\ t.order = 0
                         ELSE /\ t.order \in 1 .. Len(roundTurn')
                              /\ roundTurn'[t.order].member = t.member
                              /\ roundTurn'[t.order].decision = t.decision
  BY <1>1 DEF AnswersVerify
<1>3. a \in 1 .. Len(directorAttempt) /\ directorAttempt'[a] = directorAttempt[a]
  BY <1>2
<1>4. LET t == directorAttempt[a] IN
      /\ t.decision \in 1 .. Len(directorDecision)
      /\ IF directorDecision[t.decision] = Finish
         THEN t.member = NoMember /\ t.order = 0
         ELSE /\ t.order \in 1 .. Len(roundTurn)
              /\ roundTurn[t.order].member = t.member
              /\ roundTurn[t.order].decision = t.decision
  BY <1>2, <1>3, Domains DEF AnswersVerify
<1> QED
  BY <1>1, <1>3, <1>4, Domains

LEMMA TurnsKept ==
    ASSUME TrailTypes, TrailTypes', TurnsVerify, StillTurns,
           Len(directorDecision) <= Len(directorDecision'),
           \A i \in 1 .. Len(directorDecision) : directorDecision'[i] = directorDecision[i]
    PROVE  TurnsVerify'
<1>1. /\ DOMAIN directorDecision' = 1 .. Len(directorDecision') /\ Len(directorDecision') \in Nat
      /\ DOMAIN roundTurn' = 1 .. Len(roundTurn')
  <2>1. directorDecision' \in Seq(Choices) /\ roundTurn' \in Seq(TurnRows)
    BY DEF TrailTypes
  <2> QED
    BY <2>1, Counted
<1>2. SUFFICES ASSUME NEW n \in 1 .. Len(roundTurn')
               PROVE  /\ roundTurn'[n].decision \in 1 .. Len(directorDecision')
                      /\ directorDecision'[roundTurn'[n].decision] = Speak(roundTurn'[n].member)
                      /\ \A k \in 1 .. Len(roundTurn') :
                            roundTurn'[k].decision = roundTurn'[n].decision => k = n
  BY <1>1 DEF TurnsVerify, Speak
<1>3. /\ Len(roundTurn') = Len(roundTurn)
      /\ \A k \in 1 .. Len(roundTurn) :
            roundTurn'[k].member = roundTurn[k].member
            /\ roundTurn'[k].decision = roundTurn[k].decision
  BY DEF StillTurns
<1>4. /\ roundTurn[n].decision \in 1 .. Len(directorDecision)
      /\ directorDecision[roundTurn[n].decision] = Speak(roundTurn[n].member)
      /\ \A k \in 1 .. Len(roundTurn) :
            roundTurn[k].decision = roundTurn[n].decision => k = n
  BY <1>2, <1>3, Domains DEF TurnsVerify
<1>5. directorDecision'[roundTurn[n].decision] = directorDecision[roundTurn[n].decision]
  BY <1>4
<1>6. roundTurn[n].decision \in 1 .. Len(directorDecision')
  BY <1>1, <1>4, Domains
<1> QED
  BY <1>2, <1>3, <1>4, <1>5, <1>6

LEMMA StillTrail ==
    ASSUME Known, TrailTypes', TrailOK, Still, worker'.pc \notin {"decided", "turned"}
    PROVE  TrailOK'
<1>1. AnswersVerify' /\ TurnsVerify'
  BY AnswersKept, TurnsKept, Domains DEF Known, TrailOK, Still, StillTurns, StillAttempts
<1> QED
  BY <1>1 DEF TrailOK

LEMMA FrozenSteps ==
    ASSUME Known, TrailOK, CallsOK, UNCHANGED <<attempt, trail, worker>>
    PROVE  TrailOK' /\ CallsOK'
<1>1. UNCHANGED <<directorAttempt, directorDecision, roundTurn, target>>
  BY DEF trail
<1> QED
  BY <1>1 DEF TrailOK, CallsOK, AnswersVerify, TurnsVerify, TargetsExist, OneCallPerRow, Reserved,
              Director, IsFailed, LastTurn

\* No call more, none that failed, no row that answers: the calls still match.
LEMMA CallsKept ==
    ASSUME TrailTypes, TrailTypes', TargetsExist, OneCallPerRow, StillCalls,
           \A s \in Reserved(Run) : attempt[Run][s].kind \in {"round_director", "round_speaker"},
           Len(directorAttempt) <= Len(directorAttempt'), Len(roundTurn) <= Len(roundTurn'),
           \A a \in 1 .. Len(directorAttempt) :
              directorAttempt'[a].status = "RESPONDED" => directorAttempt[a].status = "RESPONDED",
           \A n \in 1 .. Len(roundTurn) :
              roundTurn'[n].status = "RESPONDED" => roundTurn[n].status = "RESPONDED"
    PROVE  /\ TargetsExist' /\ OneCallPerRow'
           /\ \A s \in Reserved(Run)' :
                 attempt'[Run][s].kind \in {"round_director", "round_speaker"}
<1>1. /\ DOMAIN directorAttempt' = 1 .. Len(directorAttempt') /\ Len(directorAttempt') \in Nat
      /\ DOMAIN roundTurn' = 1 .. Len(roundTurn') /\ Len(roundTurn') \in Nat
  <2>1. directorAttempt' \in Seq(DirectorRows) /\ roundTurn' \in Seq(TurnRows)
    BY DEF TrailTypes
  <2> QED
    BY <2>1, Counted
<1>2. /\ target' = target /\ Reserved(Run)' = Reserved(Run)
      /\ \A s \in Reserved(Run) :
            /\ attempt'[Run][s].kind = attempt[Run][s].kind
            /\ attempt'[Run][s].status \in {"FAILED", "INVALID"} =>
                 attempt[Run][s].status \in {"FAILED", "INVALID"}
  BY InSlots DEF StillCalls, IsFailed
<1>3. \A s \in Reserved(Run) :
         IF attempt[Run][s].kind = "round_director"
         THEN target[s] \in 1 .. Len(directorAttempt) ELSE target[s] \in 1 .. Len(roundTurn)
  BY Domains DEF TargetsExist
<1>4. TargetsExist'
  BY <1>1, <1>2, <1>3, Domains DEF TargetsExist
<1>5. OneCallPerRow'
  BY <1>2, <1>3 DEF OneCallPerRow
<1> QED
  BY <1>2, <1>4, <1>5

LEMMA StillOnCalls ==
    ASSUME Known, TrailTypes', CallsOK, Still, Free'
    PROVE  CallsOK'
<1>1. /\ TargetsExist' /\ OneCallPerRow'
      /\ \A s \in Reserved(Run)' : attempt'[Run][s].kind \in {"round_director", "round_speaker"}
  BY CallsKept, Domains DEF Known, CallsOK, Still, StillAttempts, StillTurns
<1> QED
  BY <1>1 DEF CallsOK, Free

LEMMA SameStill ==
    /\ UNCHANGED directorAttempt => StillAttempts
    /\ UNCHANGED roundTurn => StillTurns
    /\ UNCHANGED <<attempt, target>> => StillCalls
  BY DEF StillAttempts, StillTurns, StillCalls, Reserved, IsFailed

LEMMA DroppedStill ==
    ASSUME Known, CancelActive
    PROVE  StillAttempts
<1>1. directorAttempt \in Seq(DirectorRows) /\ worker.attempt \in 0 .. Len(directorAttempt)
  BY DEF Known, TrailTypes, AttemptsOK
<1> QED
  BY <1>1, CancelledActive DEF StillAttempts

LEMMA RecoveredStill ==
    ASSUME Known, CancelStarted
    PROVE  StillAttempts
<1>1. directorAttempt \in Seq(DirectorRows)
  BY DEF Known, TrailTypes
<1>2. /\ Len(directorAttempt') = Len(directorAttempt)
      /\ \A i \in 1 .. Len(directorAttempt) :
            directorAttempt'[i] = IF directorAttempt[i].status = "STARTED"
                                  THEN [directorAttempt[i] EXCEPT !.status = "CANCELLED"]
                                  ELSE directorAttempt[i]
  BY <1>1, Cancelled
<1>3. ASSUME NEW i \in 1 .. Len(directorAttempt), directorAttempt'[i].status = "RESPONDED"
      PROVE  directorAttempt'[i] = directorAttempt[i]
  <2>1. directorAttempt[i] \in DirectorRows
    BY <1>1, ElementOfSeq
  <2> QED
    BY <1>2, <1>3, <2>1 DEF DirectorRows
<1> QED
  BY <1>2, <1>3 DEF StillAttempts

LEMMA EndedStill ==
    ASSUME Known, worker.pc \in Selecting, NEW o \in {"CANCELLED", "FAILED", "INVALID"},
           FinishAttempt(worker.attempt, o, NoMember, 0, 0)
    PROVE  StillAttempts
<1>1. directorAttempt \in Seq(DirectorRows) /\ worker.attempt \in 1 .. Len(directorAttempt)
  BY Counted DEF Known, TrailTypes, AttemptsOK
<1>2. o \in AttemptStatus /\ NoMember \in Speakers \cup {NoMember} /\ 0 \in Nat
  BY DEF AttemptStatus
<1> DEFINE row == [status |-> o, member |-> NoMember, decision |-> 0, order |-> 0]
<1> HIDE DEF row
<1>3. row \in DirectorRows /\ row.status = o
  BY <1>2 DEF DirectorRows, row
<1>4. directorAttempt' = [directorAttempt EXCEPT ![worker.attempt] = row]
  BY DEF FinishAttempt, row
<1>5. /\ Len(directorAttempt') = Len(directorAttempt)
      /\ \A i \in 1 .. Len(directorAttempt) :
            directorAttempt'[i] = IF i = worker.attempt THEN row ELSE directorAttempt[i]
  BY <1>1, <1>3, <1>4, Rewritten
<1> QED
  BY <1>3, <1>5 DEF StillAttempts

LEMMA TurnStill ==
    ASSUME Known, TurnStarted, SetTurn("FAILED")
    PROVE  StillTurns
<1>1. LastTurn # 0 /\ roundTurn \in Seq(TurnRows)
  BY DEF TurnStarted, Known, TrailTypes
<1> QED
  BY <1>1, TurnSet DEF StillTurns

LEMMA LoopingStill ==
    ASSUME Known, Looping, ~ Authorize
    PROVE  Still /\ Free'
<1> USE DEF Known, Still
<1>a. {"top", "settle", "select"} \subseteq Places
  BY DEF Places, Working
<1>1. CASE Open
  <2>1. UNCHANGED <<attempt, trail>>
    BY <1>1 DEF Open, BindRound
  <2> QED
    BY <1>1, <1>a, <2>1, Restarted, SameStill DEF Open, Free, trail
<1>2. CASE TurnsUsedUp
  BY <1>2, <1>a, Restarted, SameStill DEF TurnsUsedUp, Free, trail, ledgerVars
<1>3. CASE AcknowledgePause
  BY <1>3, OffFacts, SameStill DEF AcknowledgePause, Free, trail, ledgerVars
<1>4. CASE FailUnknownTurn
  BY <1>4, TurnStill, SameStill DEF FailUnknownTurn, Free, At, ledgerVars
<1>5. CASE StartSelecting
  BY <1>5, <1>a, Went, SameStill DEF StartSelecting, Free, trail, ledgerVars, TrailTypes
<1> QED
  BY <1>1, <1>2, <1>3, <1>4, <1>5 DEF Looping

LEMMA SelectionStill ==
    ASSUME Known, SelectWithoutCall \/ ReserveDirectorFails \/ RecordFailure \/ LedgerFails
    PROVE  Still /\ Free'
<1> USE DEF Known, Still
<1>a. "settle" \in Places /\ 0 \in Nat
  BY DEF Places, Working
<1>b. UNCHANGED <<attempt, directorDecision, roundTurn, target>>
  BY DEF SelectWithoutCall, ReserveDirectorFails, RecordFailure, LedgerFails, trail, ledgerVars
<1>1. CASE SelectWithoutCall
  BY <1>1, <1>a, <1>b, Restarted, Chosen, SameStill DEF SelectWithoutCall, Free, trail
<1>2. CASE ReserveDirectorFails \/ RecordFailure \/ LedgerFails
  <2>1. worker'.pc = "chosen" /\ worker'.attempt = 0
    BY <1>2, <1>a, Chosen DEF ReserveDirectorFails, RecordFailure, LedgerFails
  <2>2. /\ worker.pc \in Selecting
        /\ \E o \in {"CANCELLED", "FAILED", "INVALID"} :
              FinishAttempt(worker.attempt, o, NoMember, 0, 0)
    BY <1>2 DEF ReserveDirectorFails, RecordFailure, LedgerFails, At, Selecting, WorkerOK
  <2> QED
    BY <1>b, <2>1, <2>2, EndedStill, SameStill DEF Free
<1> QED
  BY <1>1, <1>2

LEMMA ChoosingStill ==
    ASSUME Known, NoTurnLeft \/ PauseChosen \/ Part \/ SelectionFailed \/ BudgetSpent \/ TurnRefused
    PROVE  Still /\ Free'
<1> USE DEF Known, Still
<1>a. {"settle", "parted", "leave", "refused"} \subseteq Places /\ worker.attempt \in Nat
  BY DEF Places, Working, Leaving, TrailTypes, WorkerRows
<1>b. UNCHANGED <<attempt, directorDecision, roundTurn, target>>
  BY DEF NoTurnLeft, PauseChosen, Part, SelectionFailed, BudgetSpent, TurnRefused, trail, ledgerVars
<1>c. StillAttempts
  BY DroppedStill, SameStill
  DEF NoTurnLeft, PauseChosen, Part, SelectionFailed, BudgetSpent, TurnRefused, trail
<1>d. worker'.pc \in {"settle", "parted", "off", "leave", "refused"}
  BY <1>a, Restarted, Exited, OffFacts
  DEF NoTurnLeft, PauseChosen, Part, SelectionFailed, BudgetSpent, TurnRefused
<1> QED
  BY <1>b, <1>c, <1>d, SameStill DEF Free

LEMMA SpeakingStill ==
    ASSUME Known, FailBeforeCall \/ SettleAnswer \/ FailTurn
    PROVE  Still /\ Free'
<1> USE DEF Known, Still
<1>a. {"top", "leave"} \subseteq Places
  BY DEF Places, Working, Leaving
<1>1. worker'.pc \in {"top", "leave"}
  BY <1>a, Restarted DEF FailBeforeCall, SettleAnswer, FailTurn
<1>2. CASE FailBeforeCall \/ FailTurn
  BY <1>1, <1>2, TurnStill, SameStill
  DEF FailBeforeCall, FailTurn, At, WorkerOK, Free, ledgerVars
<1>3. CASE SettleAnswer
  <2>1. worker.slot \in Slots /\ FinishCall(Run, worker.slot, "RESPONDED")
    BY <1>3 DEF SettleAnswer, At, WorkerOK
  <2>2. /\ Reserved(Run)' = Reserved(Run)
        /\ \A x \in Slots : /\ attempt'[Run][x].kind = attempt[Run][x].kind
                            /\ attempt'[Run][x].status = IF x = worker.slot THEN "RESPONDED"
                                                         ELSE attempt[Run][x].status
    BY <2>1, FinishedCall DEF Outcomes
  <2>3. StillCalls
    BY <1>3, <2>2 DEF SettleAnswer, StillCalls, trail, IsFailed
  <2> QED
    BY <1>1, <1>3, <2>3, SameStill DEF SettleAnswer, trail, Free
<1> QED
  BY <1>2, <1>3

LEMMA EndingStill ==
    ASSUME Known, Ending
    PROVE  Still /\ Free'
<1> USE DEF Known, Still
<1>a. /\ {"park", "leave", "seal"} \subseteq Places /\ worker.attempt \in Nat /\ 0 \in Nat
  BY DEF Places, Leaving, TrailTypes, WorkerRows
<1>b. UNCHANGED <<attempt, directorDecision, roundTurn, target>>
  BY DEF Ending, Settle, Interrupt, Leave, Park, Seal, LeavingFails, trail, ledgerVars
<1>c. StillAttempts
  BY DroppedStill, SameStill
  DEF Ending, Settle, Interrupt, Leave, Park, Seal, LeavingFails, trail
<1>d. worker'.pc \in {"off", "park", "leave", "seal"}
  BY <1>a, Restarted, Exited, Went, OffFacts
  DEF Ending, Settle, Interrupt, Leave, Park, Seal, LeavingFails, TrailTypes
<1> QED
  BY <1>b, <1>c, <1>d, SameStill DEF Free

LEMMA AroundStill ==
    ASSUME Known, Around, ~ RequestPause
    PROVE  Still /\ Free'
<1> USE DEF Known, Still
<1>a. {"recover", "reopen", "top"} \subseteq Places
  BY DEF Places, Resuming, Working
<1>b. UNCHANGED <<directorDecision, roundTurn, target>>
  BY DEF Around, Resume, RecoverAttempts, Reopen, GiveUp, CancelPaused, CrashAndRestart, trail
<1>c. StillAttempts
  BY RecoveredStill, SameStill
  DEF Around, Resume, RecoverAttempts, Reopen, GiveUp, CancelPaused, CrashAndRestart, trail
<1>d. StillCalls
  <2>1. CASE AbandonStarted(Run)
    BY <1>b, <2>1, AbandonedCalls DEF StillCalls, IsFailed
  <2>2. CASE UNCHANGED ledgerVars
    BY <1>b, <2>2, SameStill DEF ledgerVars
  <2> QED
    BY <2>1, <2>2
    DEF Around, Resume, RecoverAttempts, Reopen, GiveUp, CancelPaused, CrashAndRestart
<1>e. Free'
  <2>1. CASE CancelPaused
    <3>1. worker.pc \notin Working /\ worker' = worker
      BY <2>1 DEF CancelPaused, WorkerOK
    <3> QED
      BY <3>1 DEF Free, Working, Selecting
  <2>2. CASE Resume \/ RecoverAttempts \/ Reopen \/ GiveUp \/ CrashAndRestart
    BY <1>a, <2>2, Went, Restarted, OffFacts
    DEF Resume, RecoverAttempts, Reopen, GiveUp, CrashAndRestart, Free, TrailTypes
  <2> QED
    BY <2>1, <2>2 DEF Around
<1> QED
  BY <1>b, <1>c, <1>d, <1>e, SameStill

-----------------------------------------------------------------------------
(* The steps that make the links.                                           *)

TwoKinds == \A s \in Reserved(Run) : attempt[Run][s].kind \in {"round_director", "round_speaker"}

\* A call for row n, which exists and has none yet.
LEMMA ReservedMatches ==
    ASSUME Known, CallsOK, NEW k \in {"round_director", "round_speaker"}, NEW n \in Nat, NEW s \in Places,
           ReserveFor(k, n, s), UNCHANGED <<directorAttempt, roundTurn>>,
           n \in IF k = "round_director" THEN 1 .. Len(directorAttempt) ELSE 1 .. Len(roundTurn),
           \A x \in Reserved(Run) : attempt[Run][x].kind = k => target[x] # n
    PROVE  /\ TargetsExist' /\ OneCallPerRow' /\ TwoKinds'
           /\ worker'.pc = s /\ worker'.attempt = worker.attempt
           /\ worker'.slot \in Reserved(Run)'
           /\ attempt'[Run][worker'.slot] = [kind |-> k, status |-> "STARTED"]
           /\ target'[worker'.slot] = n
<1> DEFINE i == ledger[Run].reserved + 1
<1>1. /\ i \in Slots /\ i \notin Reserved(Run)
      /\ Reserved(Run)' = Reserved(Run) \cup {i}
      /\ attempt'[Run][i] = [kind |-> k, status |-> "STARTED"]
      /\ \A x \in Reserved(Run) : attempt'[Run][x] = attempt[Run][x]
  BY ReservedCall, DirectorAssumption DEF Known
<1>2. target' = [target EXCEPT ![i] = n] /\ worker' = [worker EXCEPT !.pc = s, !.slot = i]
  BY DEF ReserveFor
<1>3. i \in Nat
  BY <1>1 DEF Slots
<1> HIDE DEF i
<1>4. worker'.pc = s /\ worker'.attempt = worker.attempt /\ worker'.slot = i
  BY <1>1, <1>2, <1>3, WentOn DEF Known, TrailTypes
<1>5. target'[i] = n /\ \A x \in Reserved(Run) : target'[x] = target[x]
  BY <1>1, <1>2, InSlots DEF Known, TrailTypes
<1>6. TwoKinds'
  BY <1>1 DEF TwoKinds, CallsOK
<1>7. TargetsExist'
  <2>1. n \in IF k = "round_director" THEN DOMAIN directorAttempt ELSE DOMAIN roundTurn
    BY Domains DEF Known
  <2> QED
    BY <1>1, <1>5, <2>1 DEF TargetsExist, CallsOK
<1>8. OneCallPerRow'
  <2>1. \A x \in Reserved(Run) : attempt[Run][x].kind = k => target[x] # n
    OBVIOUS
  <2>2. OneCallPerRow
    BY DEF CallsOK
  <2> QED
    BY <1>1, <1>5, <2>1, <2>2 DEF OneCallPerRow
<1> QED
  BY <1>1, <1>4, <1>5, <1>6, <1>7, <1>8

\* The thread's attempt is answered: no call for it failed.
LEMMA AnswerMatches ==
    ASSUME Known, TrailTypes', CallsOK, UNCHANGED <<attempt, target, roundTurn>>,
           worker.pc \in {"decided", "turned"}, worker.attempt # 0,
           Len(directorAttempt') = Len(directorAttempt),
           \A i \in 1 .. Len(directorAttempt) :
              i # worker.attempt => directorAttempt'[i] = directorAttempt[i]
    PROVE  TargetsExist' /\ OneCallPerRow' /\ TwoKinds'
<1>1. Reserved(Run)' = Reserved(Run)
  BY DEF Reserved
<1>2. DOMAIN directorAttempt' = DOMAIN directorAttempt
  <2>1. directorAttempt' \in Seq(DirectorRows)
    BY DEF TrailTypes
  <2> QED
    BY <2>1, Counted, Domains DEF Known
<1>3. TargetsExist' /\ TwoKinds'
  BY <1>1, <1>2 DEF TargetsExist, TwoKinds, CallsOK
<1>4. ASSUME NEW s \in Reserved(Run), attempt[Run][s].status \in {"FAILED", "INVALID"},
             attempt[Run][s].kind = "round_director"
      PROVE  directorAttempt'[target[s]].status # "RESPONDED"
  <2>1. target[s] \in 1 .. Len(directorAttempt) /\ target[s] # worker.attempt
    BY <1>4, Domains DEF CallsOK, TargetsExist, Director, IsFailed, Known
  <2>2. directorAttempt[target[s]].status # "RESPONDED"
    BY <1>4 DEF CallsOK, OneCallPerRow
  <2> QED
    BY <2>1, <2>2
<1>5. OneCallPerRow'
  BY <1>1, <1>4 DEF OneCallPerRow, CallsOK
<1> QED
  BY <1>3, <1>5

LEMMA BeginAttemptLinks ==
    ASSUME Known, TrailTypes', TrailOK, CallsOK, BeginAttempt
    PROVE  TrailOK' /\ CallsOK'
<1>a. /\ Len(directorAttempt) \in Nat /\ Len(directorAttempt) + 1 \in Nat /\ "reserve" \in Places
      /\ NewAttempt \in DirectorRows /\ directorAttempt \in Seq(DirectorRows)
  BY Domains DEF Known, TrailTypes, NewAttempt, DirectorRows, AttemptStatus, Places, Working, Selecting
<1>1. /\ Len(directorAttempt') = Len(directorAttempt) + 1
      /\ \A i \in 1 .. Len(directorAttempt) : directorAttempt'[i] = directorAttempt[i]
      /\ directorAttempt'[Len(directorAttempt) + 1] = NewAttempt
  BY <1>a, Appended DEF BeginAttempt
<1>2. worker'.pc = "reserve" /\ worker'.attempt = Len(directorAttempt) + 1
  BY <1>a, WentOn DEF BeginAttempt, Known, TrailTypes
<1>3. UNCHANGED <<attempt, target, directorDecision, roundTurn>>
  BY DEF BeginAttempt, ledgerVars
<1>4. AnswersVerify'
  <2>1. \A a \in 1 .. Len(directorAttempt') :
           directorAttempt'[a].status = "RESPONDED" =>
              a \in 1 .. Len(directorAttempt) /\ directorAttempt'[a] = directorAttempt[a]
    BY <1>a, <1>1 DEF NewAttempt
  <2> QED
    BY <1>3, <2>1, AnswersKept, Domains DEF Known, TrailOK
<1>5. TurnsVerify'
  BY <1>3 DEF TurnsVerify, TrailOK
<1>6. /\ TargetsExist' /\ OneCallPerRow'
      /\ \A s \in Reserved(Run)' : attempt'[Run][s].kind \in {"round_director", "round_speaker"}
  <2>1. StillCalls
    BY <1>3, SameStill
  <2>2. /\ Len(directorAttempt) <= Len(directorAttempt') /\ Len(roundTurn) <= Len(roundTurn')
        /\ \A a \in 1 .. Len(directorAttempt) :
              directorAttempt'[a].status = "RESPONDED" => directorAttempt[a].status = "RESPONDED"
        /\ \A n \in 1 .. Len(roundTurn) :
              roundTurn'[n].status = "RESPONDED" => roundTurn[n].status = "RESPONDED"
    BY <1>a, <1>1, <1>3, Domains DEF Known
  <2> QED
    BY <2>1, <2>2, CallsKept DEF Known, CallsOK
<1>7. \A s \in Reserved(Run)' : Director(s)' => target'[s] # worker'.attempt
  <2>1. \A s \in Reserved(Run) : Director(s) => target[s] \in 1 .. Len(directorAttempt)
    BY Domains DEF Known, CallsOK, TargetsExist, Director
  <2> QED
    BY <1>a, <1>2, <1>3, <2>1 DEF Reserved, Director
<1> QED
  BY <1>2, <1>4, <1>5, <1>6, <1>7 DEF TrailOK, CallsOK

LEMMA ReserveDirectorLinks ==
    ASSUME Known, TrailTypes', TrailOK, CallsOK, ReserveDirector
    PROVE  TrailOK' /\ CallsOK'
<1>1. /\ ReserveFor("round_director", worker.attempt, "ask")
      /\ UNCHANGED <<directorAttempt, roundTurn, directorDecision>> /\ worker.pc = "reserve"
  BY DEF ReserveDirector, At
<1>2. /\ worker.attempt \in 1 .. Len(directorAttempt) /\ worker.attempt \in Nat
      /\ "ask" \in Places
      /\ \A x \in Reserved(Run) : attempt[Run][x].kind = "round_director" => target[x] # worker.attempt
  BY <1>1, Domains DEF Known, AttemptsOK, Selecting, Places, Working, CallsOK, Director
<1>3. /\ TargetsExist' /\ OneCallPerRow' /\ TwoKinds'
      /\ worker'.pc = "ask" /\ worker'.attempt = worker.attempt
      /\ worker'.slot \in Reserved(Run)'
      /\ attempt'[Run][worker'.slot] = [kind |-> "round_director", status |-> "STARTED"]
      /\ target'[worker'.slot] = worker.attempt
  BY <1>1, <1>2, ReservedMatches
<1>4. TrailOK'
  BY <1>1, <1>3 DEF TrailOK, AnswersVerify, TurnsVerify
<1>5. CallsOK'
  BY <1>3 DEF CallsOK, TwoKinds, Director
<1> QED
  BY <1>4, <1>5

LEMMA DirectorAnswersLinks ==
    ASSUME Known, TrailTypes', TrailOK, CallsOK, DirectorAnswers
    PROVE  TrailOK' /\ CallsOK'
<1>1. /\ worker.pc = "ask" /\ worker.slot \in Slots
      /\ FinishCall(Run, worker.slot, "RESPONDED")
      /\ UNCHANGED <<directorAttempt, directorDecision, roundTurn, target>>
  BY DEF DirectorAnswers, At, Known, WorkerOK, trail
<1>2. worker'.pc = "chosen" /\ worker'.attempt = worker.attempt
  <2>1. worker.attempt \in Nat
    BY DEF Known, TrailTypes, WorkerRows
  <2> QED
    BY <2>1, Chosen DEF DirectorAnswers
<1>3. /\ Reserved(Run)' = Reserved(Run)
      /\ \A x \in Slots : /\ attempt'[Run][x].kind = attempt[Run][x].kind
                          /\ attempt'[Run][x].status = IF x = worker.slot THEN "RESPONDED"
                                                       ELSE attempt[Run][x].status
      /\ attempt[Run][worker.slot].status = "STARTED"
  BY <1>1, FinishedCall DEF Known, Outcomes
<1>4. Still
  BY <1>1, <1>3, SameStill DEF Still, StillCalls, IsFailed
<1>5. TrailOK'
  BY <1>2, <1>4, StillTrail
<1>6. /\ TargetsExist' /\ OneCallPerRow'
      /\ \A s \in Reserved(Run)' : attempt'[Run][s].kind \in {"round_director", "round_speaker"}
  BY <1>1, <1>4, CallsKept, Domains DEF Known, CallsOK, Still
<1>7. ASSUME NEW s \in Reserved(Run)', Director(s)', target'[s] = worker'.attempt
      PROVE  ~ IsFailed(s)'
  <2>1. s \in Reserved(Run) /\ s \in Slots /\ attempt[Run][s].kind = "round_director"
        /\ target[s] = worker.attempt
    BY <1>1, <1>2, <1>3, <1>7, InSlots DEF Director
  <2>2. /\ worker.slot \in Reserved(Run) /\ attempt[Run][worker.slot].kind = "round_director"
        /\ target[worker.slot] = worker.attempt
    BY <1>1 DEF CallsOK, Director
  <2>3. s = worker.slot
    BY <2>1, <2>2 DEF CallsOK, OneCallPerRow
  <2> QED
    BY <1>3, <2>1, <2>3 DEF IsFailed
<1>8. CallsOK'
  BY <1>2, <1>6, <1>7 DEF CallsOK
<1> QED
  BY <1>5, <1>8

\* A call fails while the row it is for is unanswered.
LEMMA FailMatches ==
    ASSUME Known, CallsOK, worker.slot \in Reserved(Run),
           NEW o \in {"FAILED", "INVALID"}, FinishCall(Run, worker.slot, o),
           UNCHANGED <<directorAttempt, roundTurn, target>>,
           IF Director(worker.slot) THEN directorAttempt[target[worker.slot]].status # "RESPONDED"
                                    ELSE roundTurn[target[worker.slot]].status # "RESPONDED"
    PROVE  TargetsExist' /\ OneCallPerRow' /\ TwoKinds'
<1>1. /\ Reserved(Run)' = Reserved(Run)
      /\ \A x \in Slots : /\ attempt'[Run][x].kind = attempt[Run][x].kind
                          /\ attempt'[Run][x].status = IF x = worker.slot THEN o
                                                       ELSE attempt[Run][x].status
  BY InSlots, FinishedCall DEF Known, Outcomes
<1>2. TargetsExist' /\ TwoKinds'
  BY <1>1, InSlots DEF TargetsExist, TwoKinds, CallsOK
<1>3. OneCallPerRow'
  BY <1>1, InSlots DEF OneCallPerRow, CallsOK, Director
<1> QED
  BY <1>2, <1>3

LEMMA DirectorFailsLinks ==
    ASSUME Known, TrailTypes', TrailOK, CallsOK, DirectorFails
    PROVE  TrailOK' /\ CallsOK'
<1>1. /\ worker.pc = "ask" /\ UNCHANGED <<directorAttempt, directorDecision, roundTurn, target>>
  BY DEF DirectorFails, At, trail
<1>2. PICK o \in {"FAILED", "INVALID"} : FinishCall(Run, worker.slot, o)
  BY DEF DirectorFails
<1>3. /\ worker.slot \in Reserved(Run) /\ Director(worker.slot)
      /\ directorAttempt[target[worker.slot]].status = "STARTED"
  BY <1>1 DEF CallsOK, Known, AttemptsOK, Selecting
<1>4. TargetsExist' /\ OneCallPerRow' /\ TwoKinds'
  BY <1>1, <1>2, <1>3, FailMatches
<1>5. worker'.pc = "failed"
  BY Went DEF DirectorFails, Known, TrailTypes, Places, Working, Selecting
<1> QED
  BY <1>1, <1>4, <1>5 DEF TrailOK, CallsOK, TwoKinds, AnswersVerify, TurnsVerify

LEMMA AddDecisionLinks ==
    ASSUME Known, TrailTypes', TrailOK, CallsOK, AddDecision
    PROVE  TrailOK' /\ CallsOK'
<1>a. /\ directorDecision \in Seq(Choices) /\ worker.choice \in Choices
      /\ Len(directorDecision) \in Nat /\ Len(directorDecision) + 1 \in Nat
      /\ "decided" \in Places /\ worker.pc = "chosen"
  BY Counted DEF AddDecision, At, Known, TrailTypes, Places, Working
<1>1. /\ Len(directorDecision') = Len(directorDecision) + 1
      /\ \A i \in 1 .. Len(directorDecision) : directorDecision'[i] = directorDecision[i]
      /\ directorDecision'[Len(directorDecision) + 1] = worker.choice
  BY <1>a, Appended DEF AddDecision
<1>2. /\ worker'.pc = "decided" /\ worker'.decision = Len(directorDecision) + 1
      /\ worker'.choice = worker.choice /\ worker'.attempt = worker.attempt
  BY <1>a, WentOn DEF AddDecision, Known, TrailTypes
<1>3. UNCHANGED <<attempt, target, directorAttempt, roundTurn>>
  BY DEF AddDecision, ledgerVars
<1>4. AnswersVerify' /\ TurnsVerify'
  <2>1. /\ StillTurns /\ Len(directorDecision) <= Len(directorDecision')
        /\ Len(roundTurn) <= Len(roundTurn')
        /\ \A n \in 1 .. Len(roundTurn) : /\ roundTurn'[n].member = roundTurn[n].member
                                          /\ roundTurn'[n].decision = roundTurn[n].decision
        /\ \A a \in 1 .. Len(directorAttempt') :
              directorAttempt'[a].status = "RESPONDED" =>
                 a \in 1 .. Len(directorAttempt) /\ directorAttempt'[a] = directorAttempt[a]
    BY <1>a, <1>1, <1>3, Domains, SameStill DEF Known
  <2> QED
    BY <1>1, <2>1, AnswersKept, TurnsKept DEF Known, TrailOK
<1>5. \A n \in 1 .. Len(roundTurn) : roundTurn[n].decision \in 1 .. Len(directorDecision)
  BY Domains DEF Known, TrailOK, TurnsVerify
<1>6. TrailOK'
  BY <1>a, <1>1, <1>2, <1>3, <1>4, <1>5 DEF TrailOK
<1>7. CallsOK'
  BY <1>a, <1>2, <1>3 DEF CallsOK, TargetsExist, OneCallPerRow, Reserved, Director, IsFailed
<1> QED
  BY <1>6, <1>7

LEMMA AnswerFinishLinks ==
    ASSUME Known, TrailTypes', TrailOK, CallsOK, AnswerFinish
    PROVE  TrailOK' /\ CallsOK'
<1>a. /\ directorAttempt \in Seq(DirectorRows) /\ worker.attempt \in 0 .. Len(directorAttempt)
      /\ Len(directorAttempt) \in Nat /\ worker.decision \in Nat
      /\ "settle" \in Places /\ worker.pc = "decided" /\ worker.choice = Finish
  BY Counted DEF AnswerFinish, At, Known, TrailTypes, AttemptsOK, WorkerRows, Places, Working
<1>1. worker'.pc = "settle"
  BY <1>a, Restarted DEF AnswerFinish
<1>2. UNCHANGED <<attempt, target, directorDecision, roundTurn>>
  BY DEF AnswerFinish, ledgerVars
<1>3. CASE UNCHANGED directorAttempt
  BY <1>1, <1>2, <1>3
  DEF TrailOK, CallsOK, AnswersVerify, TurnsVerify, TargetsExist, OneCallPerRow, Reserved
<1>4. CASE /\ worker.attempt # 0
           /\ FinishAttempt(worker.attempt, "RESPONDED", NoMember, worker.decision, 0)
  <2> DEFINE row == [status |-> "RESPONDED", member |-> NoMember, decision |-> worker.decision,
                     order |-> 0]
  <2>1. row \in DirectorRows /\ directorAttempt' = [directorAttempt EXCEPT ![worker.attempt] = row]
    BY <1>a, <1>4 DEF DirectorRows, AttemptStatus, FinishAttempt
  <2>2. /\ row.decision = worker.decision /\ row.member = NoMember /\ row.order = 0
    OBVIOUS
  <2> HIDE DEF row
  <2>3. /\ Len(directorAttempt') = Len(directorAttempt)
        /\ DOMAIN directorAttempt' = 1 .. Len(directorAttempt)
        /\ \A i \in 1 .. Len(directorAttempt) :
              directorAttempt'[i] = IF i = worker.attempt THEN row ELSE directorAttempt[i]
    <3>1. worker.attempt \in 1 .. Len(directorAttempt)
      BY <1>a, <1>4
    <3> QED
      BY <1>a, <2>1, <3>1, Rewritten
  <2>4. /\ worker.decision \in DOMAIN directorDecision
        /\ directorDecision[worker.decision] = Finish
    BY <1>a, Domains DEF TrailOK, Known
  <2>5. AnswersVerify'
    BY <1>2, <2>2, <2>3, <2>4, Domains DEF AnswersVerify, TrailOK, Known
  <2>6. TargetsExist' /\ OneCallPerRow' /\ TwoKinds'
    BY <1>a, <1>2, <1>4, <2>3, AnswerMatches
  <2> QED
    BY <1>1, <1>2, <2>5, <2>6 DEF TrailOK, CallsOK, TwoKinds, TurnsVerify
<1> QED
  BY <1>3, <1>4 DEF AnswerFinish

LEMMA BeginTurnLinks ==
    ASSUME Known, TrailTypes', TrailOK, CallsOK, BeginTurn
    PROVE  TrailOK' /\ CallsOK'
<1> DEFINE row == [member |-> worker.choice.member, decision |-> worker.decision,
                   status |-> "STARTED"]
<1>a. /\ roundTurn \in Seq(TurnRows) /\ Len(roundTurn) \in Nat
      /\ worker.decision \in Nat /\ worker.pc = "decided"
      /\ worker.choice \in Choices /\ worker.choice # Finish
      /\ {"speak", "turned"} \subseteq Places
  BY Counted DEF BeginTurn, At, Known, TrailTypes, WorkerRows, WorkerOK, Places, Working
<1>b. row \in TurnRows /\ row.member = worker.choice.member /\ row.decision = worker.decision
      /\ row.status = "STARTED" /\ worker.choice = Speak(row.member)
  BY <1>a, SpeakFacts DEF TurnRows
<1>c. roundTurn' = Append(roundTurn, row)
  BY DEF BeginTurn
<1> HIDE DEF row
<1>1. /\ Len(roundTurn') = Len(roundTurn) + 1
      /\ DOMAIN roundTurn' = 1 .. Len(roundTurn) + 1
      /\ \A n \in 1 .. Len(roundTurn) : roundTurn'[n] = roundTurn[n]
      /\ roundTurn'[Len(roundTurn) + 1] = row
  BY <1>a, <1>b, <1>c, Appended
<1>2. UNCHANGED <<attempt, target, directorAttempt, directorDecision>>
  BY DEF BeginTurn, ledgerVars
<1>3. \/ worker'.pc = "speak" /\ worker'.attempt = 0
      \/ /\ worker'.pc = "turned" /\ worker'.attempt = worker.attempt
         /\ worker'.decision = worker.decision /\ worker'.choice = worker.choice
  BY <1>a, Restarted, Went DEF BeginTurn, Known, TrailTypes
<1>4. /\ worker.decision \in DOMAIN directorDecision
      /\ directorDecision[worker.decision] = worker.choice
      /\ \A n \in 1 .. Len(roundTurn) : roundTurn[n].decision # worker.decision
  BY <1>a, Domains DEF TrailOK, Known
<1>5. AnswersVerify'
  <2>1. /\ Len(directorDecision) <= Len(directorDecision') /\ Len(roundTurn) <= Len(roundTurn')
        /\ \A a \in 1 .. Len(directorAttempt') :
              directorAttempt'[a].status = "RESPONDED" =>
                 a \in 1 .. Len(directorAttempt) /\ directorAttempt'[a] = directorAttempt[a]
    BY <1>a, <1>1, <1>2, Domains DEF Known
  <2> QED
    BY <1>1, <1>2, <2>1, AnswersKept DEF Known, TrailOK
<1>6. TurnsVerify'
  <2>1. ASSUME NEW n \in 1 .. Len(roundTurn) + 1
        PROVE  /\ roundTurn'[n].decision \in DOMAIN directorDecision
               /\ directorDecision[roundTurn'[n].decision] = Speak(roundTurn'[n].member)
               /\ \A k \in 1 .. Len(roundTurn) + 1 :
                     roundTurn'[k].decision = roundTurn'[n].decision => k = n
    <3>1. CASE n \in 1 .. Len(roundTurn)
      <4>1. /\ roundTurn[n].decision \in DOMAIN directorDecision
            /\ directorDecision[roundTurn[n].decision] = Speak(roundTurn[n].member)
            /\ \A k \in 1 .. Len(roundTurn) : roundTurn[k].decision = roundTurn[n].decision => k = n
        BY <3>1, Domains DEF TrailOK, TurnsVerify, Known
      <4> QED
        BY <1>a, <1>b, <1>1, <1>4, <3>1, <4>1
    <3>2. CASE n = Len(roundTurn) + 1
      BY <1>a, <1>b, <1>1, <1>4, <3>2
    <3> QED
      BY <1>a, <3>1, <3>2
  <2> QED
    BY <1>1, <1>2, <2>1 DEF TurnsVerify
<1>7. TrailOK'
  BY <1>2, <1>3, <1>4, <1>5, <1>6, Domains DEF TrailOK, Known
<1>8. /\ TargetsExist' /\ OneCallPerRow'
      /\ \A s \in Reserved(Run)' : attempt'[Run][s].kind \in {"round_director", "round_speaker"}
  <2>1. StillCalls
    BY <1>2, SameStill
  <2>2. /\ Len(directorAttempt) <= Len(directorAttempt') /\ Len(roundTurn) <= Len(roundTurn')
        /\ \A a \in 1 .. Len(directorAttempt) :
              directorAttempt'[a].status = "RESPONDED" => directorAttempt[a].status = "RESPONDED"
        /\ \A n \in 1 .. Len(roundTurn) :
              roundTurn'[n].status = "RESPONDED" => roundTurn[n].status = "RESPONDED"
    BY <1>a, <1>1, <1>2, Domains DEF Known
  <2> QED
    BY <2>1, <2>2, CallsKept DEF Known, CallsOK
<1>9. \A s \in Reserved(Run) : ~ Director(s) => target[s] # Len(roundTurn) + 1
  <2>1. \A s \in Reserved(Run) : ~ Director(s) => target[s] \in 1 .. Len(roundTurn)
    BY Domains DEF Known, CallsOK, TargetsExist, Director
  <2> QED
    BY <1>a, <2>1
<1>10. CallsOK'
  BY <1>a, <1>1, <1>2, <1>3, <1>8, <1>9 DEF CallsOK, Reserved, Director, IsFailed, LastTurn
<1> QED
  BY <1>7, <1>10

LEMMA AnswerSpeakLinks ==
    ASSUME Known, TrailTypes', TrailOK, CallsOK, AnswerSpeak
    PROVE  TrailOK' /\ CallsOK'
<1>a. /\ directorAttempt \in Seq(DirectorRows) /\ worker.attempt \in 1 .. Len(directorAttempt)
      /\ worker.attempt # 0
      /\ worker.decision \in Nat /\ "speak" \in Places /\ worker.pc = "turned"
      /\ worker.choice \in Choices /\ LastTurn \in Nat /\ LastTurn \in DOMAIN roundTurn
  <2>1. worker.pc = "turned" /\ TurnStarted /\ Len(roundTurn) \in Nat
        /\ DOMAIN roundTurn = 1 .. Len(roundTurn) /\ Len(directorAttempt) \in Nat
    BY Domains DEF AnswerSpeak, At, Known, WorkerOK
  <2> QED
    BY <2>1 DEF Known, TrailTypes, AttemptsOK, WorkerRows, WorkerOK, Places, Working, LastTurn,
                TurnStarted
<1>1. /\ roundTurn[LastTurn].member = worker.choice.member
      /\ roundTurn[LastTurn].decision = worker.decision
      /\ FinishAttempt(worker.attempt, "RESPONDED", worker.choice.member, worker.decision, LastTurn)
      /\ UNCHANGED <<attempt, target, directorDecision, roundTurn>>
  BY DEF AnswerSpeak, ledgerVars
<1>2. worker'.pc = "speak"
  BY <1>a, Restarted DEF AnswerSpeak
<1>3. /\ worker.decision \in DOMAIN directorDecision
      /\ directorDecision[worker.decision] = worker.choice
  BY <1>a, Domains DEF TrailOK, Known
<1>4. worker.choice # Finish /\ worker.choice.member \in Speakers
  <2>1. roundTurn[LastTurn].member \in Speakers
    <3>1. roundTurn[LastTurn] \in TurnRows
      BY <1>a, Domains, ElementOfSeq DEF Known, TrailTypes
    <3> QED
      BY <3>1 DEF TurnRows
  <2> QED
    BY <1>1, <2>1, DirectorAssumption DEF Finish
<1> DEFINE row == [status |-> "RESPONDED", member |-> worker.choice.member,
                   decision |-> worker.decision, order |-> LastTurn]
<1>5. row \in DirectorRows /\ directorAttempt' = [directorAttempt EXCEPT ![worker.attempt] = row]
  BY <1>a, <1>1, <1>4 DEF DirectorRows, AttemptStatus, FinishAttempt
<1>6. /\ row.decision = worker.decision /\ row.member = worker.choice.member
      /\ row.order = LastTurn
  OBVIOUS
<1> HIDE DEF row
<1>7. /\ Len(directorAttempt') = Len(directorAttempt)
      /\ DOMAIN directorAttempt' = 1 .. Len(directorAttempt)
      /\ \A i \in 1 .. Len(directorAttempt) :
            directorAttempt'[i] = IF i = worker.attempt THEN row ELSE directorAttempt[i]
  BY <1>a, <1>5, Rewritten
<1>8. AnswersVerify'
  BY <1>a, <1>1, <1>3, <1>4, <1>6, <1>7, Domains DEF AnswersVerify, TrailOK, Known
<1>9. TargetsExist' /\ OneCallPerRow' /\ TwoKinds'
  BY <1>a, <1>1, <1>7, AnswerMatches
<1>10. TrailOK'
  BY <1>1, <1>2, <1>8 DEF TrailOK, TurnsVerify
<1>11. CallsOK'
  BY <1>a, <1>1, <1>2, <1>9 DEF CallsOK, TwoKinds, Reserved, Director, LastTurn
<1> QED
  BY <1>10, <1>11

LEMMA ReserveSpeakerLinks ==
    ASSUME Known, TrailTypes', TrailOK, CallsOK, ReserveSpeaker
    PROVE  TrailOK' /\ CallsOK'
<1>1. /\ ReserveFor("round_speaker", LastTurn, "listen")
      /\ UNCHANGED <<directorAttempt, roundTurn, directorDecision>> /\ worker.pc = "speak"
  BY DEF ReserveSpeaker, At
<1>2. /\ LastTurn \in 1 .. Len(roundTurn) /\ LastTurn \in Nat /\ "listen" \in Places
      /\ \A x \in Reserved(Run) : attempt[Run][x].kind = "round_speaker" => target[x] # LastTurn
  BY <1>1, Domains DEF Known, WorkerOK, TurnStarted, LastTurn, Places, Working, CallsOK, Director
<1>3. /\ TargetsExist' /\ OneCallPerRow' /\ TwoKinds'
      /\ worker'.pc = "listen" /\ worker'.attempt = worker.attempt
      /\ worker'.slot \in Reserved(Run)'
      /\ attempt'[Run][worker'.slot] = [kind |-> "round_speaker", status |-> "STARTED"]
      /\ target'[worker'.slot] = LastTurn
  BY <1>1, <1>2, ReservedMatches
<1>4. TrailOK'
  BY <1>1, <1>3 DEF TrailOK, AnswersVerify, TurnsVerify
<1>5. CallsOK'
  BY <1>1, <1>3 DEF CallsOK, TwoKinds, Director, LastTurn
<1> QED
  BY <1>4, <1>5

LEMMA SpeakerAnswersLinks ==
    ASSUME Known, TrailTypes', TrailOK, CallsOK, SpeakerAnswers
    PROVE  TrailOK' /\ CallsOK'
<1>1. /\ worker.pc = "listen" /\ LastTurn # 0 /\ SetTurn("RESPONDED")
      /\ UNCHANGED <<attempt, target, directorAttempt, directorDecision>>
  BY DEF SpeakerAnswers, At, Known, WorkerOK, TurnStarted, ledgerVars
<1>2. worker'.pc = "heard"
  BY Went DEF SpeakerAnswers, Known, TrailTypes, Places, Working
<1>3. /\ Len(roundTurn') = Len(roundTurn) /\ DOMAIN roundTurn' = 1 .. Len(roundTurn)
      /\ \A i \in 1 .. Len(roundTurn) :
            /\ roundTurn'[i].member = roundTurn[i].member
            /\ roundTurn'[i].decision = roundTurn[i].decision
            /\ roundTurn'[i].status = IF i = LastTurn THEN "RESPONDED" ELSE roundTurn[i].status
  BY <1>1, TurnSet DEF Known, TrailTypes
<1>4. AnswersVerify' /\ TurnsVerify'
  <2>1. AnswersVerify'
    <3>1. /\ Len(directorDecision) <= Len(directorDecision') /\ Len(roundTurn) <= Len(roundTurn')
          /\ \A i \in 1 .. Len(directorDecision) : directorDecision'[i] = directorDecision[i]
          /\ \A a \in 1 .. Len(directorAttempt') :
                directorAttempt'[a].status = "RESPONDED" =>
                   a \in 1 .. Len(directorAttempt) /\ directorAttempt'[a] = directorAttempt[a]
      BY <1>1, <1>3, Domains DEF Known
    <3> QED
      BY <1>3, <3>1, AnswersKept DEF Known, TrailOK
  <2>2. TurnsVerify'
    <3>1. TurnsVerify /\ DOMAIN roundTurn = 1 .. Len(roundTurn)
      BY Domains DEF TrailOK, Known
    <3> QED
      BY <1>1, <1>3, <3>1 DEF TurnsVerify
  <2> QED
    BY <2>1, <2>2
<1>5. TargetsExist'
  BY <1>1, <1>3, Domains DEF TargetsExist, Reserved, CallsOK, Known
<1>6. ASSUME NEW s \in Reserved(Run), attempt[Run][s].status \in {"FAILED", "INVALID"},
             attempt[Run][s].kind # "round_director"
      PROVE  roundTurn'[target[s]].status # "RESPONDED"
  <2>1. target[s] \in 1 .. Len(roundTurn) /\ attempt[Run][s].kind = "round_speaker"
    BY <1>6, Domains DEF CallsOK, TargetsExist, Known
  <2>2. roundTurn[target[s]].status # "RESPONDED"
    BY <1>6 DEF CallsOK, OneCallPerRow
  <2>3. target[s] # LastTurn
    <3>1. /\ worker.slot \in Reserved(Run) /\ attempt[Run][worker.slot].kind = "round_speaker"
          /\ target[worker.slot] = LastTurn /\ attempt[Run][worker.slot].status = "STARTED"
      BY <1>1 DEF CallsOK, Director
    <3>2. target[s] = LastTurn => s = worker.slot
      BY <2>1, <3>1 DEF CallsOK, OneCallPerRow
    <3> QED
      BY <1>6, <3>1, <3>2
  <2> QED
    BY <1>3, <2>1, <2>2, <2>3
<1>7. OneCallPerRow'
  BY <1>1, <1>6 DEF OneCallPerRow, CallsOK, Reserved
<1> QED
  BY <1>1, <1>2, <1>4, <1>5, <1>7 DEF TrailOK, CallsOK, Reserved

LEMMA SpeakerFailsLinks ==
    ASSUME Known, TrailTypes', TrailOK, CallsOK, SpeakerFails
    PROVE  TrailOK' /\ CallsOK'
<1>1. /\ worker.pc = "listen" /\ UNCHANGED <<directorAttempt, directorDecision, roundTurn, target>>
  BY DEF SpeakerFails, At, trail
<1>2. PICK o \in {"FAILED", "INVALID"} : FinishCall(Run, worker.slot, o)
  BY DEF SpeakerFails
<1>3. /\ worker.slot \in Reserved(Run) /\ ~ Director(worker.slot)
      /\ roundTurn[target[worker.slot]].status = "STARTED"
  BY <1>1 DEF CallsOK, Known, WorkerOK, TurnStarted
<1>4. TargetsExist' /\ OneCallPerRow' /\ TwoKinds'
  BY <1>1, <1>2, <1>3, FailMatches
<1>5. worker'.pc = "lost"
  BY Went DEF SpeakerFails, Known, TrailTypes, Places, Working
<1> QED
  BY <1>1, <1>4, <1>5 DEF TrailOK, CallsOK, TwoKinds, AnswersVerify, TurnsVerify

-----------------------------------------------------------------------------
(* The trail verifies.                                                      *)

LEMMA StepLinks ==
    ASSUME Known, TrailOK, CallsOK, [DirectorNext]_directorVars
    PROVE  TrailOK' /\ CallsOK'
<1>1. TrailTypes'
  BY StepKnown
<1>2. CASE UNCHANGED directorVars \/ Authorize \/ RequestPause
  <2>1. UNCHANGED <<attempt, trail, worker>>
    BY <1>2 DEF directorVars, ledgerVars, Authorize, CreateRun, RequestPause
  <2> QED
    BY <2>1, FrozenSteps
<1>3. CASE Still /\ Free'
  BY <1>1, <1>3, StillTrail, StillOnCalls DEF Free
<1>4. CASE Selection
  BY <1>1, <1>3, <1>4, SelectionStill, BeginAttemptLinks, ReserveDirectorLinks, DirectorAnswersLinks,
     DirectorFailsLinks
  DEF Selection
<1>5. CASE Choosing
  BY <1>1, <1>3, <1>5, ChoosingStill, AddDecisionLinks, AnswerFinishLinks, BeginTurnLinks,
     AnswerSpeakLinks
  DEF Choosing
<1>6. CASE Speaking
  BY <1>1, <1>3, <1>6, SpeakingStill, ReserveSpeakerLinks, SpeakerAnswersLinks, SpeakerFailsLinks
  DEF Speaking
<1> QED
  BY <1>2, <1>3, <1>4, <1>5, <1>6, LoopingStill, EndingStill, AroundStill DEF DirectorNext

LEMMA InitLinks ==
    ASSUME DirectorInit
    PROVE  TrailOK /\ CallsOK
<1>1. /\ DOMAIN directorAttempt = {} /\ DOMAIN roundTurn = {} /\ Len(roundTurn) = 0
      /\ worker.pc = "off"
  BY OffFacts DEF DirectorInit
<1>2. Reserved(Run) = {}
  <2>1. LedgerInv /\ ledger[Run] = NoRun
    BY InitLedgerInv, DirectorAssumption DEF DirectorInit, LedgerInit
  <2>2. Reserved(Run) = 1 .. 0
    BY <2>1, DirectorAssumption DEF LedgerInv, AccountsOf, NoRun
  <2> QED
    BY <2>2
<1> QED
  BY <1>1, <1>2 DEF TrailOK, CallsOK, AnswersVerify, TurnsVerify, TargetsExist, OneCallPerRow

LEMMA LinksHold == DirectorSpec => [](TrailOK /\ CallsOK)
<1>1. DirectorInit => TrailOK /\ CallsOK
  BY InitLinks
<1>2. Known /\ TrailOK /\ CallsOK /\ [DirectorNext]_directorVars => (TrailOK /\ CallsOK)'
  BY StepLinks
<1> QED
  BY <1>1, <1>2, KnownHolds, PTL DEF DirectorSpec

\* At every moment, between any two transactions and after any crash, every
\* answered attempt, turn and call names the rows it is linked with (what
\* round_execution_trace recomputes).
THEOREM TraceAlwaysVerifies == DirectorSpec => []TraceVerifies
<1>1. TrailOK /\ CallsOK => TraceVerifies
  BY DEF TrailOK, CallsOK, TraceVerifies
<1> QED
  BY <1>1, LinksHold, PTL

\* No attempt and no turn is paid for twice, over any number of interruptions
\* and resumptions, and a failed call is never the answer of its row.
THEOREM RowsArePaidOnce == DirectorSpec => []OneCallPerRow
<1>1. CallsOK => OneCallPerRow
  BY DEF CallsOK
<1> QED
  BY <1>1, LinksHold, PTL
=============================================================================
