-------------------------- MODULE RoundRunnerProofs --------------------------
(***************************************************************************)
(* What RoundRunner promises for every set of rounds, requests and members, *)
(* every roster and workflow policy and any number of disruptions.          *)
(***************************************************************************)
EXTENDS RoundRunner, ChatStoreProofs, FiniteSetTheorems

\* Where a generator can be, by what it may assume of its round.
Working == {"announce", "top", "chosen", "act", "drain", "drained", "claimed", "asked",
            "reserved", "speaking", "settle"}
Driving == {"created", "resumed", "finally"} \cup Working
Closing == {"read", "park", "unlock"}
PC == Driving \cup Closing
Kind == {"none", "speak", "answer", "fail", "assign", "finish"}

Progress == [spoken : [Members -> Nat], ok : SUBSET Members, failed : SUBSET Members,
             completed : Nat, failures : Nat, skipped : Nat, consecutive : Nat]
Choice == [kind : Kind, req : Requests \cup {0}, member : Members \cup {NoMember}]
Generator == [pc : PC, r : Rounds, base : {1}, p : Progress, choice : Choice,
              claim : 0 .. MaxAttempts, work : BOOLEAN, closed : BOOLEAN]
Checkpoint == [next : Nat, p : Progress]
Turn == [status : {"NONE", "STARTED", "RESPONDED", "FAILED"}, member : Members \cup {NoMember}]

PerRound(f) == f = [r \in Rounds |-> f[r]]

Typed ==
    /\ roundStatus \in [Rounds -> RoundStatus]
    /\ pauseRequested \in [Rounds -> BOOLEAN]
    /\ requestRound \in [Requests -> Rounds \cup {NoRound}]
    /\ enabled \in SUBSET Members /\ up \in BOOLEAN /\ disruptions \in Nat
    /\ roster \in [Rounds -> Seq(Members)]
    /\ \A r \in Rounds : Len(roster[r]) <= Len(MemberOrder)
    /\ PerRound(checkpoint)
    /\ \A r \in Rounds : HasCheckpoint(r) =>
          checkpoint[r] = <<checkpoint[r][1]>> /\ checkpoint[r][1] \in Checkpoint
    /\ turn \in [Rounds -> [Orders -> Turn]]
    /\ calls \in [Rounds -> [Orders -> Nat]]
    /\ streak \in [Rounds -> Nat]
    /\ run = Off \/ run \in Generator
    /\ up \/ run = Off

\* The ledger of a round against its checkpoint.
Untouched(r) ==
    /\ \A o \in Orders : turn[r][o] = NoTurn /\ calls[r][o] = 0
    /\ streak[r] = 0

CountedBy(r, next, p) ==
    /\ next = 1 + Done(p) /\ next <= MaxTurns(r) + 1
    /\ Cardinality(TurnsIn(r, "RESPONDED")) = p.completed
    /\ Cardinality(TurnsIn(r, "FAILED")) = p.failures
    /\ \A o \in Orders :
          /\ turn[r][o].status \in {"RESPONDED", "FAILED"} => o < next
          /\ turn[r][o].status = "STARTED" => o = next /\ o <= MaxTurns(r)
          /\ turn[r][o].status = "RESPONDED" => turn[r][o].member \in p.ok
          /\ turn[r][o].status # "NONE" => turn[r][o].member \in RosterSet(r)

Counted(r) ==
    /\ CountedBy(r, checkpoint[r][1].next, checkpoint[r][1].p)
    /\ checkpoint[r][1].p.consecutive = streak[r]

Ledger ==
    \A r \in Rounds :
        /\ roundStatus[r] = "NONE" => ~ HasCheckpoint(r)
        /\ IF HasCheckpoint(r) THEN Counted(r) ELSE Untouched(r)
        /\ \A o \in Orders :
              /\ calls[r][o] <= 1
              /\ turn[r][o].status = "NONE" => calls[r][o] = 0
              /\ turn[r][o].status = "RESPONDED" => calls[r][o] = 1

\* The generator's memory against the checkpoint.
Remembers ==
    run # Off =>
        /\ run.pc = "created" => ~ HasCheckpoint(run.r) /\ run.p = Fresh
        /\ run.pc = "resumed" =>
              /\ HasCheckpoint(run.r)
              /\ checkpoint[run.r][1].p.ok \subseteq run.p.ok
              /\ run.p = [checkpoint[run.r][1].p EXCEPT !.ok = run.p.ok]
        /\ run.pc \in Working \cup {"read", "park", "finally"} =>
              checkpoint[run.r] = <<[next |-> Order, p |-> run.p]>>

\* What the generator has chosen, claimed and reserved.
Acting ==
    run # Off =>
        /\ run.claim # NoToken =>
              /\ run.pc \in {"claimed", "asked", "finally"}
              /\ run.choice.kind \in {"answer", "assign"}
        /\ run.pc \in {"claimed", "asked"} => run.choice.kind \in {"answer", "assign"}
        /\ run.choice.kind \in {"answer", "fail", "assign"} =>
              run.choice.req \in Requests /\ run.choice.member \in Members
        /\ run.pc \in {"chosen", "act"} /\ run.choice.kind \in {"answer", "fail", "assign"} =>
              run.p.consecutive < MaxConsecutive \/ Order > MaxTurns(run.r) \/ ~ run.work
        /\ run.pc \in {"chosen", "act", "reserved", "speaking"} /\ run.choice.kind = "speak" =>
              run.choice.member \in RosterSet(run.r) /\ Order <= MaxTurns(run.r)
        /\ run.pc \in {"reserved", "speaking"} =>
              /\ run.choice.kind = "speak"
              /\ turn[run.r][Order] = [status |-> "STARTED", member |-> run.choice.member]
              /\ calls[run.r][Order] = IF run.pc = "reserved" THEN 0 ELSE 1
        /\ run.pc \in {"chosen", "act", "drain", "drained", "claimed", "asked", "settle",
                       "read", "park"} =>
              \A o \in Orders : turn[run.r][o].status # "STARTED"

\* Who may change the status of which round.
Statuses ==
    /\ run # Off =>
          /\ run.pc \in Driving => roundStatus[run.r] = "RUNNING"
          /\ run.pc = "read" => IF run.closed THEN roundStatus[run.r] \in FinishedRound
                                ELSE roundStatus[run.r] \in {"RUNNING", "PAUSED", "CANCELLED"}
          /\ run.pc = "park" => roundStatus[run.r] \in {"RUNNING", "CANCELLED"}
    /\ \A r \in Rounds : roundStatus[r] = "PAUSED" => HasCheckpoint(r)

\* Without a store fault, only the generator's round is open.
Exclusive ==
    ~ StoreFaults =>
        /\ run # Off =>
              /\ \A r \in Rounds : r # run.r => roundStatus[r] \notin OpenRound
              /\ run.pc = "unlock" => roundStatus[run.r] # "RUNNING"
        /\ run = Off =>
              /\ \A r1, r2 \in Rounds : roundStatus[r1] \in OpenRound
                                        /\ roundStatus[r2] \in OpenRound => r1 = r2
              /\ up => \A r \in Rounds : roundStatus[r] # "RUNNING"

\* The interjections of a round.
Queued ==
    /\ \A q \in Requests : request[q] = "NONE" => requestRound[q] = NoRound
    /\ FinishedRoundsAnswered
    /\ run # Off /\ run.pc = "drain" => OpenInterjections(run.r) # {}

RoundInv ==
    /\ ChatInv /\ Typed /\ Ledger /\ Remembers /\ Acting /\ Statuses /\ Exclusive /\ Queued
    /\ CompletedIsClean

-----------------------------------------------------------------------------
(* The operators of the model.                                              *)

\* The constants are numbers, and orders are a finite interval.
LEMMA Constants ==
    /\ Len(MemberOrder) \in Nat /\ MemberCap \in Nat /\ MemberCap >= 1
    /\ Len(MemberOrder) * MemberCap \in Nat
    /\ FollowUps \in Nat /\ Required \in Nat /\ MaxConsecutive \in Nat /\ MaxConsecutive >= 1
    /\ MaxAttempts \in Nat
<1>1. /\ Len(MemberOrder) \in Nat /\ MemberCap \in Nat /\ MemberCap >= 1
      /\ FollowUps \in Nat /\ Required \in Nat /\ MaxConsecutive \in Nat /\ MaxConsecutive >= 1
      /\ MaxAttempts \in Nat
  BY RoundAssumption, MaxAttemptsAssumption
<1>2. \A a, b \in Nat : a * b \in Nat
  OBVIOUS
<1> QED
  BY <1>1, <1>2

\* Some numbers have a least one: of the intervals that lead up to them, one
\* contains no other.
LEMMA LeastExists ==
    ASSUME NEW Q \in SUBSET Nat, Q # {}
    PROVE  \E x \in Q : \A y \in Q : x <= y
<1> DEFINE T == {0 .. x : x \in Q}
<1>1. T \subseteq FiniteSubsetsOf(Nat) /\ T # {}
  <2>1. \A x \in Nat : IsFiniteSet(0 .. x) /\ 0 .. x \subseteq Nat
    BY FS_Interval
  <2> QED
    BY <2>1 DEF FiniteSubsetsOf
<1>2. PICK I \in T : \A J \in T : <<J, I>> \notin StrictSubsetOrdering(Nat)
  BY <1>1, FS_StrictSubsetOrderingWellFounded, WFMin
<1>3. PICK x \in Q : I = 0 .. x
  BY <1>2
<1>4. ASSUME NEW y \in Q PROVE x <= y
  <2>1. 0 .. y \in T /\ 0 .. y \subseteq Nat /\ 0 .. x \subseteq Nat
    OBVIOUS
  <2>2. ~ (0 .. y \subseteq 0 .. x /\ 0 .. y # 0 .. x)
    BY <1>2, <1>3, <2>1 DEF StrictSubsetOrdering
  <2>3. ASSUME y < x PROVE 0 .. y \subseteq 0 .. x /\ x \in 0 .. x /\ x \notin 0 .. y
    BY <2>3
  <2> QED
    BY <2>2, <2>3
<1> QED
  BY <1>4

\* An order is a number.
LEMMA OrdersNat == \A o \in Orders : o \in Nat /\ o >= 1
<1> DEFINE K == Len(MemberOrder) * MemberCap
<1>1. K \in Nat /\ Orders = 1 .. K
  BY Constants DEF Orders
<1> HIDE DEF K
<1> QED
  BY <1>1

\* The oldest of some requests is one of them.
LEMMA OldestIsOne ==
    ASSUME NEW Q \in SUBSET Requests, Q # {}
    PROVE  Oldest(Q) \in Q
BY LeastExists, RoundAssumption DEF Oldest

\* The turns of a round are finitely many.
LEMMA TurnsFinite ==
    ASSUME NEW r, NEW s
    PROVE  IsFiniteSet(TurnsIn(r, s)) /\ IsFiniteSet(Orders)
<1>1. IsFiniteSet(Orders)
  BY Constants, FS_Interval DEF Orders
<1> QED
  BY <1>1, FS_Subset DEF TurnsIn

\* A round has no more formal turns than there are orders.
LEMMA TurnsFit ==
    ASSUME Typed, NEW r \in Rounds
    PROVE  /\ MaxTurns(r) \in Nat
           /\ \A o \in Nat : o >= 1 /\ o <= MaxTurns(r) => o \in Orders
           /\ MaxTurns(r) <= Len(roster[r]) * MemberCap
           /\ Len(roster[r]) * MemberCap \in Nat
<1> DEFINE n == Len(roster[r])
<1>1. n \in Nat /\ n <= Len(MemberOrder)
  BY DEF Typed
<1>2. \A a, b, c \in Nat : a <= b => a * c <= b * c
  OBVIOUS
<1>3. \A a, c \in Nat : c >= 1 => a <= a * c /\ a * c \in Nat
  OBVIOUS
<1>4. n * MemberCap \in Nat /\ n <= n * MemberCap /\ n * MemberCap <= Len(MemberOrder) * MemberCap
  BY <1>1, <1>2, <1>3, Constants
<1>5. MaxTurns(r) \in Nat /\ MaxTurns(r) <= n * MemberCap
  <2> DEFINE L == n * MemberCap
  <2>1. L \in Nat /\ n <= L
    BY <1>4
  <2>2. MaxTurns(r) = IF ~ Dynamic \/ n = 1 THEN n ELSE IF L < n + FollowUps THEN L ELSE n + FollowUps
    BY DEF MaxTurns
  <2>3. n \in Nat /\ FollowUps \in Nat /\ n + FollowUps \in Nat
    BY <1>1, RoundAssumption
  <2> SUFFICES MaxTurns(r) \in Nat /\ MaxTurns(r) <= L
    OBVIOUS
  <2> HIDE DEF n, L
  <2> QED
    BY <2>1, <2>2, <2>3
<1>6. Orders = 1 .. (Len(MemberOrder) * MemberCap)
  BY DEF Orders
<1> DEFINE K == Len(MemberOrder) * MemberCap
<1>7. K \in Nat /\ n * MemberCap <= K
  BY <1>4, Constants
<1> HIDE DEF n, K
<1>8. ASSUME NEW o \in Nat, o >= 1, o <= MaxTurns(r) PROVE o \in 1 .. K
  <2> DEFINE L == n * MemberCap
  <2>1. L \in Nat /\ MaxTurns(r) <= L /\ L <= K /\ K \in Nat
    BY <1>4, <1>5, <1>7
  <2> HIDE DEF L
  <2> QED
    BY <2>1, <1>5, <1>8
<1> QED
  BY <1>4, <1>5, <1>6, <1>8 DEF n, K

\* What closing an interjection and ending a turn do to the counters.
LEMMA Counting ==
    ASSUME NEW p \in Progress, NEW m \in Members, NEW F \in SUBSET Members
    PROVE  /\ Done(p) \in Nat
           /\ Interjected(p) \in Progress /\ Succeeded(p, m) \in Progress
           /\ Failed(p, m, F) \in Progress
           /\ Interjected(p) = [p EXCEPT !.consecutive = p.consecutive + 1]
           /\ Done(Interjected(p)) = Done(p)
           /\ Interjected(p).ok = p.ok /\ Interjected(p).completed = p.completed
           /\ Interjected(p).failures = p.failures /\ Interjected(p).consecutive = p.consecutive + 1
           /\ Done(Succeeded(p, m)) = Done(p) + 1 /\ Succeeded(p, m).ok = p.ok \cup {m}
           /\ Succeeded(p, m).completed = p.completed + 1
           /\ Succeeded(p, m).failures = p.failures /\ Succeeded(p, m).consecutive = 0
           /\ Done(Failed(p, m, F)) = Done(p) + 1 /\ Failed(p, m, F).ok = p.ok
           /\ Failed(p, m, F).completed = p.completed
           /\ Failed(p, m, F).failures = p.failures + 1 /\ Failed(p, m, F).consecutive = 0
<1>1. /\ p.completed \in Nat /\ p.failures \in Nat /\ p.skipped \in Nat /\ p.consecutive \in Nat
      /\ p.spoken \in [Members -> Nat] /\ p.ok \subseteq Members /\ p.failed \subseteq Members
  BY DEF Progress
<1>2. Interjected(p) \in Progress
  BY <1>1 DEF Interjected, Progress
<1>3. Interjected(p) = [p EXCEPT !.consecutive = p.consecutive + 1]
  BY DEF Interjected
<1>4. [p.spoken EXCEPT ![m] = p.spoken[m] + 1] \in [Members -> Nat]
  BY <1>1
<1>5. /\ Succeeded(p, m) = [p EXCEPT !.spoken = [p.spoken EXCEPT ![m] = p.spoken[m] + 1],
                !.ok = p.ok \cup {m}, !.completed = p.completed + 1, !.consecutive = 0]
      /\ Failed(p, m, F) = [p EXCEPT !.spoken = [p.spoken EXCEPT ![m] = p.spoken[m] + 1],
                !.failed = p.failed \cup F, !.failures = p.failures + 1, !.consecutive = 0]
  BY DEF Succeeded, Failed, Progress
<1> DEFINE spoken == [p.spoken EXCEPT ![m] = p.spoken[m] + 1]
<1>6. Succeeded(p, m) \in Progress
  <2> DEFINE ok == p.ok \cup {m}
  <2>1. ok \in SUBSET Members /\ p.completed + 1 \in Nat /\ spoken \in [Members -> Nat]
    BY <1>1, <1>4
  <2>2. Succeeded(p, m) = [spoken |-> spoken, ok |-> ok, failed |-> p.failed,
                           completed |-> p.completed + 1, failures |-> p.failures,
                           skipped |-> p.skipped, consecutive |-> 0]
    BY <1>5 DEF Progress
  <2> HIDE DEF spoken, ok
  <2> QED
    BY <1>1, <2>1, <2>2 DEF Progress
<1>7. Failed(p, m, F) \in Progress
  <2> DEFINE failed == p.failed \cup F
  <2>1. failed \in SUBSET Members /\ p.failures + 1 \in Nat /\ spoken \in [Members -> Nat]
    BY <1>1, <1>4
  <2>2. Failed(p, m, F) = [spoken |-> spoken, ok |-> p.ok, failed |-> failed,
                           completed |-> p.completed, failures |-> p.failures + 1,
                           skipped |-> p.skipped, consecutive |-> 0]
    BY <1>5 DEF Progress
  <2> HIDE DEF spoken, failed
  <2> QED
    BY <1>1, <2>1, <2>2 DEF Progress
<1>8. /\ Interjected(p).ok = p.ok /\ Interjected(p).completed = p.completed
      /\ Interjected(p).failures = p.failures /\ Interjected(p).consecutive = p.consecutive + 1
      /\ Interjected(p).skipped = p.skipped
  BY <1>3 DEF Progress
<1>9. /\ Succeeded(p, m).ok = p.ok \cup {m}
      /\ Succeeded(p, m).completed = p.completed + 1 /\ Succeeded(p, m).skipped = p.skipped
      /\ Succeeded(p, m).failures = p.failures /\ Succeeded(p, m).consecutive = 0
  BY <1>5 DEF Progress
<1>10. /\ Failed(p, m, F).ok = p.ok
       /\ Failed(p, m, F).completed = p.completed /\ Failed(p, m, F).skipped = p.skipped
       /\ Failed(p, m, F).failures = p.failures + 1 /\ Failed(p, m, F).consecutive = 0
  BY <1>5 DEF Progress
<1> QED
  BY <1>1, <1>2, <1>3, <1>6, <1>7, <1>8, <1>9, <1>10 DEF Done

\* A step of the generator that only moves on.
LEMMA Moves ==
    ASSUME run \in Generator, NEW s \in PC, Goto(s)
    PROVE  /\ run' \in Generator /\ run'.pc = s /\ run'.r = run.r /\ run'.base = run.base
           /\ run'.p = run.p /\ run'.choice = run.choice /\ run'.claim = run.claim
           /\ run'.work = run.work /\ run'.closed = run.closed
BY DEF Goto, Generator

-----------------------------------------------------------------------------
(* The generator's record.                                                  *)

\* A running generator is not the record that stands for none.
LEMMA NotOff == \A g \in Generator : g # Off /\ g.pc # "off"
BY DEF Generator, Off, PC, Driving, Working, Closing

\* What is known of a running generator.
LEMMA Fields ==
    ASSUME Typed, run # Off
    PROVE  /\ run \in Generator /\ run.pc \in PC /\ run.r \in Rounds /\ run.base = 1
           /\ run.p \in Progress /\ run.choice \in Choice /\ run.claim \in 0 .. MaxAttempts
           /\ run.work \in BOOLEAN /\ run.closed \in BOOLEAN /\ up
           /\ Done(run.p) \in Nat /\ Order = 1 + Done(run.p) /\ Order \in Nat /\ Order >= 1
<1>1. run \in Generator /\ up
  BY DEF Typed
<1>2. /\ run.pc \in PC /\ run.r \in Rounds /\ run.base = 1
      /\ run.p \in Progress /\ run.choice \in Choice /\ run.claim \in 0 .. MaxAttempts
      /\ run.work \in BOOLEAN /\ run.closed \in BOOLEAN
  BY <1>1 DEF Generator
<1>3. Done(run.p) \in Nat
  BY <1>2 DEF Progress, Done
<1> QED
  BY <1>1, <1>2, <1>3 DEF Order

\* A generator at some place runs.
LEMMA AtRuns ==
    ASSUME NEW s, At(s), s # "off"
    PROVE  run # Off
BY DEF At, Off

-----------------------------------------------------------------------------
(* What steps leave alone.                                                  *)

\* The tables that the counts are about stay as they are.
LedgerSame == UNCHANGED <<checkpoint, turn, roster, calls, streak>>

\* The ledger of a round is what its tables say.
LEMMA LedgerFrame ==
    ASSUME Ledger, LedgerSame,
           \A r \in Rounds : roundStatus'[r] = "NONE" => roundStatus[r] = "NONE"
    PROVE  Ledger'
<1> USE DEF LedgerSame
<1>1. ASSUME NEW r \in Rounds
      PROVE  /\ HasCheckpoint(r)' = HasCheckpoint(r) /\ RosterSet(r)' = RosterSet(r)
             /\ MaxTurns(r)' = MaxTurns(r)
             /\ TurnsIn(r, "RESPONDED")' = TurnsIn(r, "RESPONDED")
             /\ TurnsIn(r, "FAILED")' = TurnsIn(r, "FAILED")
  BY DEF HasCheckpoint, RosterSet, MaxTurns, TurnsIn
<1>2. ASSUME NEW r \in Rounds, Counted(r) PROVE Counted(r)'
  BY <1>1, <1>2 DEF Counted, CountedBy
<1>3. ASSUME NEW r \in Rounds, Untouched(r) PROVE Untouched(r)'
  BY <1>3 DEF Untouched
<1> QED
  BY <1>1, <1>2, <1>3 DEF Ledger

\* A round that is COMPLETED already stays clean while its turns are not touched.
LEMMA CleanFrame ==
    ASSUME CompletedIsClean,
           \A r \in Rounds : roundStatus'[r] = "COMPLETED" =>
              roundStatus[r] = "COMPLETED" /\ turn'[r] = turn[r] /\ checkpoint'[r] = checkpoint[r]
    PROVE  CompletedIsClean'
<1> SUFFICES ASSUME NEW r \in Rounds, roundStatus'[r] = "COMPLETED"
             PROVE  /\ TurnsIn(r, "FAILED")' = {} /\ TurnsIn(r, "STARTED")' = {}
                    /\ HasCheckpoint(r)'
                    /\ \A o \in 1 .. (checkpoint'[r][1].next - 1) : turn'[r][o].status = "RESPONDED"
                    /\ Cardinality({turn'[r][o].member : o \in TurnsIn(r, "RESPONDED")'}) >= Required
  BY DEF CompletedIsClean
<1>1. roundStatus[r] = "COMPLETED" /\ turn'[r] = turn[r] /\ checkpoint'[r] = checkpoint[r]
  OBVIOUS
<1>2. /\ HasCheckpoint(r)' = HasCheckpoint(r) /\ TurnsIn(r, "FAILED")' = TurnsIn(r, "FAILED")
      /\ TurnsIn(r, "STARTED")' = TurnsIn(r, "STARTED")
      /\ TurnsIn(r, "RESPONDED")' = TurnsIn(r, "RESPONDED")
  BY <1>1 DEF HasCheckpoint, TurnsIn
<1> QED
  BY <1>1, <1>2 DEF CompletedIsClean

\* No request changes hands.
LEMMA QueuedFrame ==
    ASSUME Queued, UNCHANGED <<request, requestRound>>,
           \A r \in Rounds : roundStatus'[r] \in FinishedRound => roundStatus[r] \in FinishedRound,
           run' # Off /\ run'.pc = "drain" => run # Off /\ run.pc = "drain" /\ run'.r = run.r
    PROVE  Queued'
BY DEF Queued, FinishedRoundsAnswered, OpenInterjections

\* The chat tables are not touched, or changed by one of their transactions.
LEMMA ChatFrame ==
    ASSUME ChatInv, UNCHANGED chatVars
    PROVE  ChatInv'
BY NextInv

-----------------------------------------------------------------------------
(* Steps that only move the generator on.                                   *)

\* What a step that only moves the generator on must respect.
LEMMA MoveKeeps ==
    ASSUME RoundInv, run # Off,
           NEW s \in {"top", "act", "asked", "settle", "finally", "park", "unlock"}, Goto(s),
           UNCHANGED <<chatVars, roundTables, history, enabled, up>>, disruptions' \in Nat,
           s \in {"top", "act", "asked", "settle", "finally"} => run.pc \in Working,
           s = "act" => run.pc = "chosen",
           s = "asked" => run.pc = "claimed",
           s = "settle" => \A o \in Orders : turn[run.r][o].status # "STARTED",
           s = "park" => run.pc = "read" /\ ~ run.closed /\ roundStatus[run.r] # "PAUSED",
           s = "unlock" => \/ run.pc = "read" /\ (run.closed \/ roundStatus[run.r] = "PAUSED")
                           \/ Exclusive',
           run.claim # NoToken => s \in {"asked", "finally"}
    PROVE  RoundInv'
<1> USE DEF RoundInv
<1>1. Typed /\ run \in Generator /\ run.r \in Rounds /\ run.pc \in PC
  BY Fields
<1>2. s \in PC
  BY DEF PC, Driving, Working, Closing
<1>3. /\ run' \in Generator /\ run'.pc = s /\ run'.r = run.r /\ run'.base = run.base
      /\ run'.p = run.p /\ run'.choice = run.choice /\ run'.claim = run.claim
      /\ run'.work = run.work /\ run'.closed = run.closed
  BY <1>1, <1>2, Moves
<1>4. run' # Off /\ Order' = Order
  BY <1>3, NotOff DEF Order
<1>5. /\ roundStatus' = roundStatus /\ pauseRequested' = pauseRequested /\ roster' = roster
      /\ checkpoint' = checkpoint /\ turn' = turn /\ requestRound' = requestRound
      /\ calls' = calls /\ streak' = streak /\ enabled' = enabled /\ up' = up
      /\ request' = request
  BY DEF roundTables, history, chatVars
<1>6. ChatInv'
  BY ChatFrame
<1>7. Typed'
  BY <1>3, <1>5, Fields DEF Typed, HasCheckpoint
<1>8. Ledger' /\ CompletedIsClean'
  BY <1>5, LedgerFrame, CleanFrame DEF LedgerSame
<1>9. Queued'
  BY <1>3, <1>5, QueuedFrame
<1>10. Remembers'
  BY <1>3, <1>4, <1>5 DEF Remembers, Working, HasCheckpoint
<1>11. Acting'
  BY <1>3, <1>4, <1>5 DEF Acting, MaxTurns, RosterSet, Working
<1>12. Statuses'
  BY <1>3, <1>4, <1>5, <1>1 DEF Statuses, Driving, Working, HasCheckpoint, FinishedRound, RoundStatus, Typed, OpenRound
<1>13. Exclusive'
  BY <1>3, <1>4, <1>5, <1>1 DEF Exclusive, Statuses, FinishedRound
<1> QED
  BY <1>6, <1>7, <1>8, <1>9, <1>10, <1>11, <1>12, <1>13

\* Every step of this kind, and the interrupt.
LEMMA MovesKeepInv ==
    ASSUME RoundInv,
           \/ OpeningFault \/ Announce \/ LeaveLoop \/ ModeratorGone \/ Drained \/ Recheck
           \/ AskTarget \/ AnswerRejected \/ FinishDiscussion \/ BeginRefused \/ ReadOutcome
           \/ Interrupt
    PROVE  RoundInv'
<1> USE DEF At
<1>0. Typed /\ Acting /\ disruptions \in Nat
  BY DEF RoundInv, Typed
<1>1. disruptions' = disruptions => disruptions' \in Nat
  BY <1>0
<1>2. Disrupt => disruptions' \in Nat
  BY <1>0 DEF Disrupt
<1>3. CASE OpeningFault
  <2>1. run.pc \in {"created", "resumed"} /\ run # Off
    BY <1>3, AtRuns DEF OpeningFault, Opening
  <2>2. run.claim = NoToken
    BY <2>1, <1>0 DEF Acting
  <2> QED
    <3>1. Exclusive'
      BY <1>3 DEF OpeningFault, Exclusive
    <3>2. /\ Goto("unlock") /\ disruptions' \in Nat
          /\ UNCHANGED <<chatVars, roundTables, history, enabled, up>>
      BY <1>2, <1>3 DEF OpeningFault
    <3> QED
      BY <2>1, <2>2, <3>1, <3>2, MoveKeeps
<1>4. CASE Announce
  <2>1. run.pc = "announce" /\ run # Off
    BY <1>4, AtRuns DEF Announce
  <2>2. run.claim = NoToken
    BY <2>1, <1>0 DEF Acting
  <2> QED
    BY <1>1, <1>4, <2>1, <2>2, MoveKeeps DEF Announce, Working, env
<1>5. ASSUME run # Off, run.pc = "top", Order > MaxTurns(run.r) \/ ~ Unfinished
      PROVE  \A o \in Orders : turn[run.r][o].status # "STARTED"
  <2>1. /\ checkpoint[run.r] = <<[next |-> Order, p |-> run.p]>> /\ run.r \in Rounds
    BY <1>5, Fields DEF RoundInv, Remembers, Working
  <2>2. HasCheckpoint(run.r) /\ checkpoint[run.r][1].next = Order
    BY <2>1 DEF HasCheckpoint
  <2>3. \A o \in Orders : turn[run.r][o].status = "STARTED" => o = Order /\ o <= MaxTurns(run.r)
    BY <2>1, <2>2 DEF RoundInv, Ledger, Counted, CountedBy
  <2>4. MaxTurns(run.r) \in Nat /\ Order \in Nat
    BY <1>0, <2>1, <1>5, TurnsFit, Fields
  <2> QED
    BY <1>5, <2>3, <2>4 DEF Unfinished
<1>6. CASE LeaveLoop
  <2>1. run.pc = "top" /\ run # Off /\ Order > MaxTurns(run.r)
    BY <1>6, AtRuns DEF LeaveLoop, BudgetSpent
  <2>2. run.claim = NoToken
    BY <2>1, <1>0 DEF Acting
  <2> QED
    BY <1>1, <1>5, <1>6, <2>1, <2>2, MoveKeeps DEF LeaveLoop, Working, env
<1>7. CASE ModeratorGone
  <2>1. run.pc = "top" /\ run # Off
    BY <1>7, AtRuns DEF ModeratorGone, Scheduling
  <2> QED
    BY <1>1, <1>7, <2>1, MoveKeeps DEF ModeratorGone, Working, env
<1>8. CASE Drained
  <2>1. run.pc = "top" /\ run # Off /\ ~ Unfinished
    BY <1>8, AtRuns DEF Drained, Scheduling
  <2>2. run.claim = NoToken
    BY <2>1, <1>0 DEF Acting
  <2> QED
    BY <1>1, <1>5, <1>8, <2>1, <2>2, MoveKeeps DEF Drained, Working, env
<1>9. CASE Recheck
  <2>1. run.pc = "chosen" /\ run # Off
    BY <1>9, AtRuns DEF Recheck
  <2>2. run.claim = NoToken
    BY <2>1, <1>0 DEF Acting
  <2> QED
    BY <1>1, <1>9, <2>1, <2>2, MoveKeeps DEF Recheck, Working, env
<1>10. CASE AskTarget
  <2>1. run.pc = "claimed" /\ run # Off
    BY <1>10, AtRuns DEF AskTarget
  <2> QED
    BY <1>1, <1>10, <2>1, MoveKeeps DEF AskTarget, Working, env
<1>11. CASE AnswerRejected
  <2>1. run.pc \in {"claimed", "asked"} /\ run # Off
    BY <1>11, AtRuns DEF AnswerRejected
  <2> QED
    BY <1>1, <1>11, <2>1, MoveKeeps DEF AnswerRejected, Working, env
<1>12. CASE FinishDiscussion
  <2>1. run.pc = "act" /\ run # Off
    BY <1>12, AtRuns DEF FinishDiscussion, Chosen
  <2>2. run.claim = NoToken /\ \A o \in Orders : turn[run.r][o].status # "STARTED"
    BY <2>1, <1>0 DEF Acting
  <2> QED
    BY <1>1, <1>12, <2>1, <2>2, MoveKeeps DEF FinishDiscussion, Working, env
<1>13. CASE BeginRefused
  <2>1. run.pc = "act" /\ run # Off
    BY <1>13, AtRuns DEF BeginRefused, Chosen
  <2> QED
    BY <1>1, <1>13, <2>1, MoveKeeps DEF BeginRefused, Working, env
<1>14. CASE ReadOutcome
  <2>1. run.pc = "read" /\ run # Off
    BY <1>14, AtRuns DEF ReadOutcome
  <2>2. run.claim = NoToken
    BY <2>1, <1>0 DEF Acting
  <2>3. CASE run.closed \/ roundStatus[run.r] = "PAUSED"
    BY <1>1, <1>14, <2>1, <2>2, <2>3, MoveKeeps DEF ReadOutcome, env
  <2>4. CASE ~ (run.closed \/ roundStatus[run.r] = "PAUSED")
    BY <1>1, <1>14, <2>1, <2>2, <2>4, MoveKeeps DEF ReadOutcome, env
  <2> QED
    BY <2>3, <2>4
<1>15. CASE Interrupt
  <2>1. run.pc \in Working /\ run # Off
    BY <1>15 DEF Interrupt, Working, Off
  <2> QED
    BY <1>2, <1>15, <2>1, MoveKeeps DEF Interrupt
<1> QED
  BY <1>3, <1>4, <1>6, <1>7, <1>8, <1>9, <1>10, <1>11, <1>12, <1>13, <1>14, <1>15

-----------------------------------------------------------------------------
(* Steps that end the run with a status.                                    *)

\* What a step that ends the run with a status must respect.
LEMMA EndKeeps ==
    ASSUME RoundInv, run # Off, NEW s \in {"PAUSED", "CANCELLED"},
           SetStatus(run.r, s), Goto("unlock"),
           s = "PAUSED" => HasCheckpoint(run.r),
           run.claim = NoToken, roundStatus[run.r] \in {"RUNNING", "CANCELLED"},
           UNCHANGED <<chatVars, roster, checkpoint, turn, requestRound, history, enabled, up>>,
           disruptions' \in Nat
    PROVE  RoundInv'
<1> USE DEF RoundInv
<1>1. Typed /\ run \in Generator /\ run.r \in Rounds /\ run.pc \in PC
  BY Fields
<1>2. "unlock" \in PC
  BY DEF PC, Closing
<1>3. /\ run' \in Generator /\ run'.pc = "unlock" /\ run'.r = run.r /\ run'.base = run.base
      /\ run'.p = run.p /\ run'.choice = run.choice /\ run'.claim = run.claim
      /\ run'.work = run.work /\ run'.closed = run.closed
  BY <1>1, <1>2, Moves
<1>4. run' # Off /\ Order' = Order
  BY <1>3, NotOff DEF Order
<1>5. /\ roster' = roster
      /\ checkpoint' = checkpoint /\ turn' = turn /\ requestRound' = requestRound
      /\ calls' = calls /\ streak' = streak /\ enabled' = enabled /\ up' = up
      /\ request' = request
  BY DEF history, chatVars
<1>6. /\ \A r \in Rounds : roundStatus'[r] = IF r = run.r THEN s ELSE roundStatus[r]
      /\ roundStatus' \in [Rounds -> RoundStatus] /\ pauseRequested' \in [Rounds -> BOOLEAN]
  BY <1>1 DEF SetStatus, Typed, RoundStatus, OpenRound
<1>7. ChatInv'
  BY ChatFrame
<1>8. Typed'
  BY <1>3, <1>5, <1>6, Fields DEF Typed, HasCheckpoint
<1>9. Ledger' /\ CompletedIsClean'
  BY <1>5, <1>6, LedgerFrame, CleanFrame DEF LedgerSame
<1>10. Queued'
  BY <1>3, <1>5, <1>6, QueuedFrame DEF FinishedRound
<1>11. Remembers'
  BY <1>3, <1>4, <1>5 DEF Remembers, Working, HasCheckpoint
<1>12. Acting'
  BY <1>3, <1>4, <1>5 DEF Acting, MaxTurns, RosterSet, Working
<1>13. Statuses'
  BY <1>3, <1>4, <1>5, <1>6, <1>1 DEF Statuses, Driving, Working, HasCheckpoint
<1>14. Exclusive'
  BY <1>3, <1>4, <1>5, <1>6, <1>1 DEF Exclusive
<1> QED
  BY <1>7, <1>8, <1>9, <1>10, <1>11, <1>12, <1>13, <1>14

\* The checkpoint a pause saves is the one that is there.
LEMMA SavedAlready ==
    ASSUME Typed, Remembers, run # Off, run.pc \in Working, Save(run.r, Order, run.p)
    PROVE  checkpoint' = checkpoint /\ HasCheckpoint(run.r)
<1>1. checkpoint[run.r] = <<[next |-> Order, p |-> run.p]>>
  BY DEF Remembers
<1>2. checkpoint' = [checkpoint EXCEPT ![run.r] = checkpoint[run.r]]
  BY <1>1 DEF Save
<1>3. checkpoint = [r \in Rounds |-> checkpoint[r]]
  BY DEF Typed, PerRound
<1>4. checkpoint' = checkpoint
  BY <1>2, <1>3
<1> QED
  BY <1>1, <1>4 DEF HasCheckpoint

\* The refused opening, the failed announcement, the pauses and the parking.
LEMMA EndsKeepInv ==
    ASSUME RoundInv,
           RejectOpening \/ AnnounceFails \/ AcknowledgePause \/ BeginPaused \/ Park \/ ParkUnfinalized
    PROVE  RoundInv'
<1> USE DEF At
<1>0. Typed /\ Acting /\ Statuses /\ Remembers /\ disruptions \in Nat
  BY DEF RoundInv, Typed
<1>1. disruptions' = disruptions => disruptions' \in Nat
  BY <1>0
<1>2. Disrupt => disruptions' \in Nat
  BY <1>0 DEF Disrupt
<1>3. ASSUME run # Off, run.pc \in Working \cup {"finally", "park"} PROVE HasCheckpoint(run.r)
  BY <1>0, <1>3 DEF Remembers, HasCheckpoint
<1>4. CASE RejectOpening
  <2>1. run.pc \in {"created", "resumed"} /\ run # Off
    BY <1>4, AtRuns DEF RejectOpening, Opening
  <2>2. /\ run.claim = NoToken /\ roundStatus[run.r] = "RUNNING"
        /\ run.pc = "resumed" => HasCheckpoint(run.r)
    BY <2>1, <1>0 DEF Acting, Statuses, Driving, Remembers
  <2>3. CASE run.pc = "resumed"
    BY <1>2, <1>4, <2>1, <2>2, <2>3, EndKeeps DEF RejectOpening
  <2>4. CASE run.pc # "resumed"
    BY <1>2, <1>4, <2>1, <2>2, <2>4, EndKeeps DEF RejectOpening
  <2> QED
    BY <2>3, <2>4
<1>5. CASE AnnounceFails
  <2>1. run.pc = "announce" /\ run # Off
    BY <1>5, AtRuns DEF AnnounceFails
  <2>2. run.claim = NoToken /\ roundStatus[run.r] = "RUNNING" /\ HasCheckpoint(run.r)
    BY <2>1, <1>0, <1>3 DEF Acting, Statuses, Driving, Working
  <2> QED
    BY <1>2, <1>5, <2>1, <2>2, EndKeeps DEF AnnounceFails
<1>6. CASE AcknowledgePause
  <2>1. run.pc \in {"top", "chosen"} /\ run # Off /\ run.pc \in Working
    BY <1>6, AtRuns DEF AcknowledgePause, Working
  <2>2. run.claim = NoToken /\ roundStatus[run.r] = "RUNNING"
    BY <2>1, <1>0 DEF Acting, Statuses, Driving
  <2>3. checkpoint' = checkpoint /\ HasCheckpoint(run.r)
    BY <1>0, <1>6, <2>1, SavedAlready DEF AcknowledgePause
  <2> QED
    BY <1>1, <1>6, <2>1, <2>2, <2>3, EndKeeps DEF AcknowledgePause, env
<1>7. CASE BeginPaused
  <2>1. run.pc = "act" /\ run # Off /\ run.pc \in Working
    BY <1>7, AtRuns DEF BeginPaused, Chosen, Working
  <2>2. run.claim = NoToken /\ roundStatus[run.r] = "RUNNING"
    BY <2>1, <1>0 DEF Acting, Statuses, Driving
  <2>3. checkpoint' = checkpoint /\ HasCheckpoint(run.r)
    BY <1>0, <1>7, <2>1, SavedAlready DEF BeginPaused
  <2> QED
    BY <1>1, <1>7, <2>1, <2>2, <2>3, EndKeeps DEF BeginPaused, env
<1>8. CASE Park
  <2>1. run.pc = "park" /\ run # Off
    BY <1>8, AtRuns DEF Park
  <2>2. run.claim = NoToken /\ roundStatus[run.r] \in {"RUNNING", "CANCELLED"} /\ HasCheckpoint(run.r)
    BY <2>1, <1>0, <1>3 DEF Acting, Statuses
  <2> QED
    BY <1>1, <1>8, <2>1, <2>2, EndKeeps DEF Park, env
<1>9. CASE ParkUnfinalized
  <2>1. run.pc = "finally" /\ run # Off /\ run.claim = NoToken
    BY <1>9, AtRuns DEF ParkUnfinalized
  <2>2. roundStatus[run.r] = "RUNNING" /\ HasCheckpoint(run.r)
    BY <2>1, <1>0, <1>3 DEF Statuses, Driving
  <2> QED
    BY <1>1, <1>9, <2>1, <2>2, EndKeeps DEF ParkUnfinalized, env
<1> QED
  BY <1>4, <1>5, <1>6, <1>7, <1>8, <1>9

-----------------------------------------------------------------------------
(* Steps that end a formal turn.                                            *)

\* A saved checkpoint is one row.
LEMMA Saving ==
    ASSUME Typed, NEW r \in Rounds, NEW next \in Nat, NEW p \in Progress, Save(r, next, p)
    PROVE  /\ PerRound(checkpoint')
           /\ \A x \in Rounds : x # r => checkpoint'[x] = checkpoint[x]
           /\ checkpoint'[r] = <<[next |-> next, p |-> p]>>
           /\ HasCheckpoint(r)' /\ checkpoint'[r][1] \in Checkpoint
           /\ checkpoint'[r][1].next = next /\ checkpoint'[r][1].p = p
<1>1. checkpoint = [x \in Rounds |-> checkpoint[x]]
  BY DEF Typed, PerRound
<1>2. /\ checkpoint' = [x \in Rounds |-> checkpoint'[x]]
      /\ \A x \in Rounds : x # r => checkpoint'[x] = checkpoint[x]
      /\ checkpoint'[r] = <<[next |-> next, p |-> p]>>
  BY <1>1 DEF Save
<1> QED
  BY <1>2 DEF HasCheckpoint, Checkpoint, PerRound

\* One more element, and the same number of others.
LEMMA OneMore ==
    ASSUME NEW S, IsFiniteSet(S), NEW n \in Nat, Cardinality(S) = n, NEW x, x \notin S
    PROVE  Cardinality(S \cup {x}) = n + 1
BY FS_AddElement

\* A turn gets its terminal status.
EndTurn(r, o, s) == turn' = [turn EXCEPT ![r][o].status = s]

\* A terminated turn moves from STARTED to one of the two counted sets.
LEMMA TurnCounts ==
    ASSUME Typed, NEW r \in Rounds, NEW o \in Orders, NEW s \in {"RESPONDED", "FAILED"},
           turn[r][o].status = "STARTED",
           EndTurn(r, o, s)
    PROVE  /\ turn' \in [Rounds -> [Orders -> Turn]]
           /\ \A x \in Rounds : x # r => turn'[x] = turn[x]
           /\ \A x \in Orders : x # o => turn'[r][x] = turn[r][x]
           /\ turn'[r][o].status = s /\ turn'[r][o].member = turn[r][o].member
           /\ TurnsIn(r, "RESPONDED")' = IF s = "RESPONDED" THEN TurnsIn(r, s) \cup {o}
                                         ELSE TurnsIn(r, "RESPONDED")
           /\ TurnsIn(r, "FAILED")' = IF s = "FAILED" THEN TurnsIn(r, s) \cup {o}
                                      ELSE TurnsIn(r, "FAILED")
           /\ o \notin TurnsIn(r, s)
<1>1. turn \in [Rounds -> [Orders -> Turn]] /\ turn[r] \in [Orders -> Turn] /\ turn[r][o] \in Turn
  BY DEF Typed
<1> DEFINE t1 == [turn[r][o] EXCEPT !.status = s]
           row == [turn[r] EXCEPT ![o] = t1]
<1>2. turn' = [turn EXCEPT ![r] = row]
  BY DEF EndTurn
<1>3. t1 \in Turn /\ t1.status = s /\ t1.member = turn[r][o].member
  BY <1>1 DEF Turn
<1> HIDE DEF t1
<1>4. /\ row \in [Orders -> Turn] /\ row[o] = t1
      /\ \A x \in Orders : x # o => row[x] = turn[r][x]
  BY <1>1, <1>3
<1> HIDE DEF row
<1>5. /\ turn' \in [Rounds -> [Orders -> Turn]]
      /\ \A x \in Rounds : x # r => turn'[x] = turn[x]
      /\ turn'[r] = row
  BY <1>1, <1>2, <1>4
<1> QED
  BY <1>3, <1>4, <1>5 DEF TurnsIn

\* The ledger counts the turn.
LEMMA LedgerTurn ==
    ASSUME RoundInv, NEW r \in Rounds, HasCheckpoint(r), roundStatus' = roundStatus,
           NEW o \in Orders, o = checkpoint[r][1].next, NEW s \in {"RESPONDED", "FAILED"},
           turn[r][o].status = "STARTED",
           EndTurn(r, o, s),
           NEW q \in Progress, q = checkpoint[r][1].p,
           NEW p \in Progress, Save(r, o + 1, p), roster' = roster, calls' = calls,
           streak' = [streak EXCEPT ![r] = 0],
           Done(p) = Done(q) + 1, q.ok \subseteq p.ok, p.consecutive = 0,
           p.completed = IF s = "RESPONDED" THEN q.completed + 1 ELSE q.completed,
           p.failures = IF s = "FAILED" THEN q.failures + 1 ELSE q.failures,
           s = "RESPONDED" => turn[r][o].member \in p.ok /\ calls[r][o] = 1
    PROVE  Ledger'
<1>0. Typed /\ Ledger
  BY DEF RoundInv
<1>1. o \in Nat /\ o + 1 \in Nat /\ Done(q) \in Nat
  BY OrdersNat DEF Progress, Done
<1>2. /\ turn' \in [Rounds -> [Orders -> Turn]]
      /\ \A x \in Rounds : x # r => turn'[x] = turn[x]
      /\ \A x \in Orders : x # o => turn'[r][x] = turn[r][x]
      /\ turn'[r][o].status = s /\ turn'[r][o].member = turn[r][o].member
      /\ TurnsIn(r, "RESPONDED")' = IF s = "RESPONDED" THEN TurnsIn(r, s) \cup {o}
                                    ELSE TurnsIn(r, "RESPONDED")
      /\ TurnsIn(r, "FAILED")' = IF s = "FAILED" THEN TurnsIn(r, s) \cup {o}
                                 ELSE TurnsIn(r, "FAILED")
      /\ o \notin TurnsIn(r, s)
  BY <1>0, TurnCounts
<1>3. /\ \A x \in Rounds : x # r => checkpoint'[x] = checkpoint[x]
      /\ HasCheckpoint(r)' /\ checkpoint'[r][1].next = o + 1 /\ checkpoint'[r][1].p = p
  BY <1>0, <1>1, Saving
<1>4. /\ \A x \in Rounds : x # r => streak'[x] = streak[x]
      /\ streak'[r] = 0
  BY <1>0 DEF Typed
<1>5. Counted(r)
  BY <1>0 DEF Ledger
<1>6. /\ o = 1 + Done(q) /\ o <= MaxTurns(r)
      /\ Cardinality(TurnsIn(r, "RESPONDED")) = q.completed
      /\ Cardinality(TurnsIn(r, "FAILED")) = q.failures
      /\ \A x \in Orders :
            /\ turn[r][x].status \in {"RESPONDED", "FAILED"} => x < o
            /\ turn[r][x].status = "STARTED" => x = o
            /\ turn[r][x].status = "RESPONDED" => turn[r][x].member \in q.ok
            /\ turn[r][x].status # "NONE" => turn[r][x].member \in RosterSet(r)
  BY <1>5 DEF Counted, CountedBy
<1>7. MaxTurns(r) \in Nat /\ MaxTurns(r)' = MaxTurns(r) /\ RosterSet(r)' = RosterSet(r)
  BY <1>0, TurnsFit DEF MaxTurns, RosterSet
<1>8. q.completed \in Nat /\ q.failures \in Nat
  BY DEF Progress
<1>9. IsFiniteSet(TurnsIn(r, "RESPONDED")) /\ IsFiniteSet(TurnsIn(r, "FAILED"))
  BY TurnsFinite
<1>10. Cardinality(TurnsIn(r, s) \cup {o}) = IF s = "RESPONDED" THEN q.completed + 1 ELSE q.failures + 1
  BY <1>2, <1>6, <1>8, <1>9, OneMore
<1>11. Cardinality(TurnsIn(r, "RESPONDED"))' = p.completed
  BY <1>2, <1>6, <1>10
<1>12. Cardinality(TurnsIn(r, "FAILED"))' = p.failures
  BY <1>2, <1>6, <1>10
<1>13. Orders \subseteq Nat
  BY OrdersNat
<1>14. \A x \in Orders :
          /\ turn'[r][x].status \in {"RESPONDED", "FAILED"} => x < o + 1
          /\ turn'[r][x].status # "STARTED"
          /\ turn'[r][x].status = "RESPONDED" => turn'[r][x].member \in p.ok
          /\ turn'[r][x].status # "NONE" => turn'[r][x].member \in RosterSet(r)
  <2> TAKE x \in Orders
  <2>1. CASE x = o
    BY <1>1, <1>2, <1>6, <2>1
  <2>2. CASE x # o
    <3>1. turn'[r][x] = turn[r][x] /\ x \in Nat
      BY <1>2, <1>13, <2>2
    <3>2. /\ turn[r][x].status \in {"RESPONDED", "FAILED"} => x < o + 1
          /\ turn[r][x].status # "STARTED"
      BY <1>1, <1>6, <2>2, <3>1
    <3> QED
      BY <1>6, <3>1, <3>2
  <2> QED
    BY <2>1, <2>2
<1>15. o + 1 = 1 + Done(p) /\ o + 1 <= MaxTurns(r) + 1
  BY <1>1, <1>6, <1>7
<1>16. Counted(r)'
  BY <1>3, <1>4, <1>7, <1>11, <1>12, <1>14, <1>15 DEF Counted, CountedBy
<1>17. ASSUME NEW x \in Rounds, x # r
       PROVE  /\ HasCheckpoint(x)' = HasCheckpoint(x)
              /\ Counted(x) => Counted(x)'
              /\ Untouched(x) => Untouched(x)'
  <2>1. HasCheckpoint(x)' = HasCheckpoint(x) /\ MaxTurns(x)' = MaxTurns(x) /\ RosterSet(x)' = RosterSet(x)
    BY <1>3, <1>17 DEF HasCheckpoint, MaxTurns, RosterSet
  <2>2. /\ TurnsIn(x, "RESPONDED")' = TurnsIn(x, "RESPONDED")
        /\ TurnsIn(x, "FAILED")' = TurnsIn(x, "FAILED")
    BY <1>2, <1>17 DEF TurnsIn
  <2> QED
    BY <1>2, <1>3, <1>4, <1>17, <2>1, <2>2 DEF Counted, CountedBy, Untouched
<1>18. ASSUME NEW x \in Rounds, NEW y \in Orders
       PROVE  /\ calls'[x][y] <= 1
              /\ turn'[x][y].status = "NONE" => calls'[x][y] = 0
              /\ turn'[x][y].status = "RESPONDED" => calls'[x][y] = 1
  BY <1>0, <1>2 DEF Ledger
<1>19. \A x \in Rounds : roundStatus'[x] = "NONE" => ~ HasCheckpoint(x)'
  BY <1>0, <1>3, <1>17 DEF Ledger
<1> QED
  BY <1>0, <1>3, <1>16, <1>17, <1>18, <1>19 DEF Ledger

\* The generator goes back to the top of its loop with new counters, with its
\* claim or without it.
ToTop(p) == run' = [run EXCEPT !.pc = "top", !.p = p, !.choice = NoChoice, !.work = TRUE]
ToTopFree(p) == run' = [run EXCEPT !.pc = "top", !.p = p, !.choice = NoChoice,
                                   !.claim = NoToken, !.work = TRUE]

\* Where it is then.
LEMMA BackToTop ==
    ASSUME run \in Generator, NEW p \in Progress, ToTop(p) \/ ToTopFree(p)
    PROVE  /\ run' \in Generator /\ run'.pc = "top" /\ run'.r = run.r /\ run'.base = run.base
           /\ run'.p = p /\ run'.choice.kind = "none" /\ run'.claim \in {run.claim, NoToken}
           /\ (run.claim = NoToken \/ ToTopFree(p)) => run'.claim = NoToken
<1>1. NoChoice \in Choice /\ NoChoice.kind = "none"
  BY DEF NoChoice, Choice, Kind
<1>2. NoToken \in 0 .. MaxAttempts
  BY Constants DEF NoToken
<1>3. "top" \in PC
  BY DEF PC, Driving, Working
<1> QED
  BY <1>1, <1>2, <1>3 DEF Generator, ToTop, ToTopFree

\* What a saved checkpoint must count.
LEMMA LedgerSave ==
    ASSUME Typed, Ledger, NEW r \in Rounds, roundStatus[r] # "NONE", roundStatus' = roundStatus,
           NEW next \in Nat, NEW p \in Progress, Save(r, next, p),
           UNCHANGED <<turn, roster, calls>>,
           \A x \in Rounds : streak'[x] = IF x = r THEN p.consecutive ELSE streak[x],
           CountedBy(r, next, p)
    PROVE  Ledger'
<1>1. /\ \A x \in Rounds : x # r => checkpoint'[x] = checkpoint[x]
      /\ HasCheckpoint(r)' /\ checkpoint'[r][1].next = next /\ checkpoint'[r][1].p = p
  BY Saving
<1>2. ASSUME NEW x \in Rounds
      PROVE  /\ RosterSet(x)' = RosterSet(x) /\ MaxTurns(x)' = MaxTurns(x)
             /\ TurnsIn(x, "RESPONDED")' = TurnsIn(x, "RESPONDED")
             /\ TurnsIn(x, "FAILED")' = TurnsIn(x, "FAILED")
             /\ x # r => HasCheckpoint(x)' = HasCheckpoint(x)
  BY <1>1 DEF HasCheckpoint, RosterSet, MaxTurns, TurnsIn
<1>3. Counted(r)'
  BY <1>1, <1>2 DEF Counted, CountedBy
<1>4. ASSUME NEW x \in Rounds, x # r
      PROVE  (Counted(x) => Counted(x)') /\ (Untouched(x) => Untouched(x)')
  BY <1>1, <1>2, <1>4 DEF Counted, CountedBy, Untouched
<1> QED
  BY <1>1, <1>2, <1>3, <1>4 DEF Ledger

\* The counters in the generator's memory describe the ledger.
LEMMA MemoryCounts ==
    ASSUME RoundInv, run # Off, run.pc \in Working \cup {"resumed"}
    PROVE  /\ HasCheckpoint(run.r) /\ CountedBy(run.r, Order, run.p)
           /\ run.p.consecutive = streak[run.r] /\ checkpoint[run.r][1].next = Order
           /\ roundStatus[run.r] = "RUNNING"
           /\ run.pc \in Working => checkpoint[run.r][1].p = run.p
<1>1. run.r \in Rounds /\ run.p \in Progress /\ Order = 1 + Done(run.p)
  BY Fields DEF RoundInv
<1>2. CASE run.pc \in Working
  <2>1. checkpoint[run.r] = <<[next |-> Order, p |-> run.p]>>
    BY <1>2 DEF RoundInv, Remembers
  <2>2. HasCheckpoint(run.r) /\ checkpoint[run.r][1].next = Order /\ checkpoint[run.r][1].p = run.p
    BY <2>1 DEF HasCheckpoint
  <2> QED
    BY <1>1, <1>2, <2>2 DEF RoundInv, Ledger, Counted, Statuses, Driving
<1>3. CASE run.pc = "resumed"
  <2> DEFINE q == checkpoint[run.r][1].p
  <2>1. /\ HasCheckpoint(run.r) /\ q.ok \subseteq run.p.ok
        /\ run.p = [q EXCEPT !.ok = run.p.ok] /\ q \in Progress
    BY <1>1, <1>3 DEF RoundInv, Remembers, Typed, Checkpoint
  <2>2. Counted(run.r)
    BY <1>1, <2>1 DEF RoundInv, Ledger
  <2>3. /\ run.p.completed = q.completed /\ run.p.failures = q.failures
        /\ run.p.consecutive = q.consecutive /\ run.p.skipped = q.skipped /\ Done(run.p) = Done(q)
    BY <2>1 DEF Progress, Done
  <2> HIDE DEF q
  <2>4. CountedBy(run.r, checkpoint[run.r][1].next, q) /\ q.consecutive = streak[run.r]
    BY <2>2 DEF Counted, q
  <2>5. checkpoint[run.r][1].next = Order
    BY <1>1, <2>3, <2>4 DEF CountedBy
  <2>6. CountedBy(run.r, Order, run.p)
    BY <1>1, <2>1, <2>3, <2>4, <2>5 DEF CountedBy
  <2>7. roundStatus[run.r] = "RUNNING" /\ run.pc \notin Working
    BY <1>3 DEF RoundInv, Statuses, Driving, Working
  <2> QED
    BY <2>1, <2>3, <2>4, <2>5, <2>6, <2>7
<1> QED
  BY <1>2, <1>3

\* What the parts of the invariant need of a step of the generator that saves
\* its counters and keeps its round RUNNING.
LEMMA SaveKeeps ==
    ASSUME RoundInv, run # Off, run.pc \in Driving, NEW p \in Progress,
           run' \in Generator, run'.pc \in {"top", "settle", "announce"}, run'.r = run.r,
           run'.base = 1, run'.p = p, Acting',
           Save(run.r, 1 + Done(p), p), Ledger', ChatInv',
           turn' \in [Rounds -> [Orders -> Turn]],
           \A x \in Rounds : x # run.r => turn'[x] = turn[x],
           UNCHANGED <<roundStatus, pauseRequested, roster, requestRound, calls, env>>,
           streak' \in [Rounds -> Nat],
           \A q \in Requests : \/ request'[q] = request[q]
                               \/ request[q] # "NONE" /\ request'[q] # "NONE"
                                  /\ request[q] \notin TerminalRequest
    PROVE  RoundInv'
<1>0. Typed /\ Ledger /\ Statuses /\ Exclusive /\ Queued /\ CompletedIsClean
  BY DEF RoundInv
<1>1. /\ run \in Generator /\ run.r \in Rounds /\ run.base = 1
      /\ Done(p) \in Nat /\ 1 + Done(p) \in Nat
  BY <1>0, Fields DEF Progress, Done
<1>2. /\ run' \in Generator /\ run'.pc \in {"top", "settle", "announce"} /\ run'.r = run.r
      /\ run'.base = 1 /\ run'.p = p
  OBVIOUS
<1>3. run' # Off /\ Order' = 1 + Done(p)
  BY <1>2, NotOff DEF Order
<1>4. /\ PerRound(checkpoint')
      /\ \A x \in Rounds : x # run.r => checkpoint'[x] = checkpoint[x]
      /\ checkpoint'[run.r] = <<[next |-> 1 + Done(p), p |-> p]>>
      /\ HasCheckpoint(run.r)' /\ checkpoint'[run.r][1] \in Checkpoint
  BY <1>0, <1>1, <1>2, Saving
<1>5. \A x \in Rounds : x # run.r => HasCheckpoint(x)' = HasCheckpoint(x)
  BY <1>4 DEF HasCheckpoint
<1>6. roundStatus[run.r] = "RUNNING"
  BY <1>0 DEF Statuses, Driving
<1>7. /\ roundStatus' = roundStatus /\ pauseRequested' = pauseRequested /\ roster' = roster
      /\ requestRound' = requestRound /\ calls' = calls
      /\ enabled' = enabled /\ up' = up /\ disruptions' = disruptions
  BY DEF env
<1>8. Typed'
  <2>1. \A x \in Rounds : HasCheckpoint(x)' =>
           checkpoint'[x] = <<checkpoint'[x][1]>> /\ checkpoint'[x][1] \in Checkpoint
    <3> TAKE x \in Rounds
    <3>1. CASE x = run.r
      BY <1>4, <3>1
    <3>2. CASE x # run.r
      BY <1>0, <1>4, <1>5, <3>2 DEF Typed
    <3> QED
      BY <3>1, <3>2
  <2> QED
    BY <1>0, <1>2, <1>4, <1>7, <2>1, Fields DEF Typed
<1>9. Remembers'
  BY <1>1, <1>2, <1>3, <1>4 DEF Remembers
<1>11. Statuses'
  BY <1>0, <1>2, <1>3, <1>4, <1>5, <1>6, <1>7 DEF Statuses, Driving, Working
<1>12. Exclusive'
  BY <1>0, <1>2, <1>3, <1>6, <1>7 DEF Exclusive
<1>13. Queued'
  <2>1. \A q \in Requests : request[q] \in RequestStatus
    BY DEF RoundInv, ChatInv, ChatTypeOK
  <2>2. \A q \in Requests : /\ request'[q] = "NONE" => request[q] = "NONE"
                            /\ request'[q] \in OpenRequest => request[q] \in OpenRequest
    BY <2>1 DEF RequestStatus
  <2>3. requestRound' = requestRound /\ roundStatus' = roundStatus /\ run'.pc # "drain"
    BY <1>2, <1>7
  <2> QED
    BY <1>0, <2>2, <2>3 DEF Queued, FinishedRoundsAnswered, OpenInterjections
<1>14. CompletedIsClean'
  BY <1>0, <1>4, <1>6, <1>7, CleanFrame
<1> QED
  BY <1>8, <1>9, <1>11, <1>12, <1>13, <1>14 DEF RoundInv

\* The same for a step that goes back to the top of the loop.
LEMMA TopKeeps ==
    ASSUME RoundInv, run # Off, run.pc \in Working, NEW p \in Progress,
           (ToTop(p) /\ run.claim = NoToken) \/ ToTopFree(p),
           Save(run.r, 1 + Done(p), p), Ledger', ChatInv',
           turn' \in [Rounds -> [Orders -> Turn]],
           \A x \in Rounds : x # run.r => turn'[x] = turn[x],
           UNCHANGED <<roundStatus, pauseRequested, roster, requestRound, calls, env>>,
           streak' \in [Rounds -> Nat],
           \A q \in Requests : \/ request'[q] = request[q]
                               \/ request[q] # "NONE" /\ request'[q] # "NONE"
                                  /\ request[q] \notin TerminalRequest
    PROVE  RoundInv'
<1>1. run \in Generator /\ run.base = 1 /\ run.pc \in Driving
  BY Fields DEF RoundInv, Driving
<1>2. /\ run' \in Generator /\ run'.pc = "top" /\ run'.r = run.r /\ run'.base = 1
      /\ run'.p = p /\ run'.choice.kind = "none" /\ run'.claim = NoToken
  BY <1>1, BackToTop
<1>3. Acting'
  BY <1>2 DEF Acting
<1> QED
  BY <1>1, <1>2, <1>3, SaveKeeps

\* The transaction that ends a formal turn.
LEMMA CommitTurnKeeps ==
    ASSUME RoundInv, run # Off, run.pc \in {"top", "reserved", "speaking"}, Order \in Orders,
           NEW s \in {"RESPONDED", "FAILED"}, NEW p \in Progress, CommitTurn(s, p),
           UNCHANGED chatVars, run.claim = NoToken,
           Done(p) = Done(run.p) + 1, run.p.ok \subseteq p.ok, p.consecutive = 0,
           p.completed = IF s = "RESPONDED" THEN run.p.completed + 1 ELSE run.p.completed,
           p.failures = IF s = "FAILED" THEN run.p.failures + 1 ELSE run.p.failures,
           s = "RESPONDED" => turn[run.r][Order].member \in p.ok /\ calls[run.r][Order] = 1
    PROVE  RoundInv'
<1>0. Typed /\ run.pc \in Working
  BY DEF RoundInv, Working
<1>1. /\ run.r \in Rounds /\ run.p \in Progress /\ Order = 1 + Done(run.p) /\ Done(run.p) \in Nat
  BY <1>0, Fields
<1>2. /\ HasCheckpoint(run.r) /\ checkpoint[run.r][1].next = Order /\ checkpoint[run.r][1].p = run.p
      /\ roundStatus[run.r] = "RUNNING"
  BY <1>0, MemoryCounts
<1>3. /\ turn[run.r][Order].status = "STARTED" /\ EndTurn(run.r, Order, s)
      /\ Save(run.r, Order + 1, p) /\ streak' = [streak EXCEPT ![run.r] = 0] /\ ToTop(p)
      /\ UNCHANGED <<roundStatus, pauseRequested, roster, requestRound, calls, env>>
  BY DEF CommitTurn, EndTurn, ToTop
<1>4. Ledger'
  <2> DEFINE r == run.r
             o == Order
             q == run.p
  <2>1. /\ r \in Rounds /\ o \in Orders /\ q \in Progress /\ HasCheckpoint(r)
        /\ o = checkpoint[r][1].next /\ q = checkpoint[r][1].p
        /\ turn[r][o].status = "STARTED" /\ EndTurn(r, o, s) /\ Save(r, o + 1, p)
        /\ roundStatus' = roundStatus /\ roster' = roster /\ calls' = calls
        /\ streak' = [streak EXCEPT ![r] = 0]
        /\ Done(p) = Done(q) + 1 /\ q.ok \subseteq p.ok
        /\ p.completed = IF s = "RESPONDED" THEN q.completed + 1 ELSE q.completed
        /\ p.failures = IF s = "FAILED" THEN q.failures + 1 ELSE q.failures
        /\ s = "RESPONDED" => turn[r][o].member \in p.ok /\ calls[r][o] = 1
    BY <1>1, <1>2, <1>3
  <2> HIDE DEF r, o, q
  <2> QED
    BY <2>1, LedgerTurn
<1>5. /\ turn' \in [Rounds -> [Orders -> Turn]]
      /\ \A x \in Rounds : x # run.r => turn'[x] = turn[x]
  BY <1>0, <1>1, <1>3, TurnCounts
<1>6. streak' \in [Rounds -> Nat]
  BY <1>0, <1>3 DEF Typed
<1>7. ChatInv' /\ request' = request
  BY ChatFrame DEF RoundInv, chatVars
<1>8. Save(run.r, 1 + Done(p), p)
  <2>1. Order + 1 = 1 + Done(p)
    BY <1>1
  <2> QED
    BY <1>3, <2>1
<1> QED
  BY <1>0, <1>3, <1>4, <1>5, <1>6, <1>7, <1>8, TopKeeps

\* The unknown turn, the failure before the call, the answer and the failure.
LEMMA TurnsKeepInv ==
    ASSUME RoundInv, FailUnknownTurn \/ FailBeforeCall \/ SpeakerAnswered \/ SpeakerFailed
    PROVE  RoundInv'
<1> USE DEF At
<1>0. Typed /\ Acting /\ Ledger
  BY DEF RoundInv
<1>1. ASSUME run # Off, run.pc \in {"reserved", "speaking"}
      PROVE  /\ Order \in Orders /\ run.choice.member \in RosterSet(run.r) /\ run.claim = NoToken
             /\ turn[run.r][Order].member = run.choice.member
             /\ calls[run.r][Order] = IF run.pc = "reserved" THEN 0 ELSE 1
  <2>1. /\ run.choice.kind = "speak" /\ run.choice.member \in RosterSet(run.r)
        /\ Order <= MaxTurns(run.r) /\ run.claim = NoToken
        /\ turn[run.r][Order] = [status |-> "STARTED", member |-> run.choice.member]
        /\ calls[run.r][Order] = IF run.pc = "reserved" THEN 0 ELSE 1
    BY <1>0, <1>1 DEF Acting
  <2>2. Order \in Orders
    BY <1>0, <1>1, <2>1, Fields, TurnsFit
  <2> QED
    BY <2>1, <2>2
<1>2. \A r \in Rounds : RosterSet(r) \subseteq Members
  BY <1>0 DEF Typed, RosterSet
<1>3. run # Off => run.r \in Rounds /\ run.p \in Progress
  BY <1>0, Fields
<1>4. CASE FailUnknownTurn
  <2> DEFINE m == turn[run.r][Order].member
             p == Failed(run.p, m, {m})
  <2>1. /\ run.pc = "top" /\ run # Off /\ Order \in Orders /\ turn[run.r][Order].status = "STARTED"
        /\ CommitTurn("FAILED", p) /\ UNCHANGED chatVars
    BY <1>4, AtRuns DEF FailUnknownTurn, Scheduling, Unfinished
  <2>2. m \in RosterSet(run.r)
    <3>1. CountedBy(run.r, Order, run.p)
      BY <2>1, MemoryCounts DEF Working
    <3> QED
      BY <2>1, <3>1 DEF CountedBy
  <2>3. m \in Members /\ run.p \in Progress
    BY <1>2, <1>3, <2>1, <2>2
  <2> HIDE DEF m
  <2>4. /\ p \in Progress /\ Done(p) = Done(run.p) + 1 /\ p.ok = run.p.ok
        /\ p.completed = run.p.completed /\ p.failures = run.p.failures + 1 /\ p.consecutive = 0
    BY <2>3, Counting
  <2>5. run.claim = NoToken
    BY <1>0, <2>1 DEF Acting
  <2> HIDE DEF p
  <2> QED
    BY <2>1, <2>4, <2>5, CommitTurnKeeps
<1>5. CASE FailBeforeCall
  <2> DEFINE m == run.choice.member
  <2>1. run.pc = "reserved" /\ run # Off /\ UNCHANGED chatVars
    BY <1>5, AtRuns DEF FailBeforeCall
  <2>2. PICK F \in {{}, {m}} : CommitTurn("FAILED", Failed(run.p, m, F))
    BY <1>5 DEF FailBeforeCall
  <2>3. m \in Members /\ run.p \in Progress /\ Order \in Orders /\ run.claim = NoToken
    BY <1>1, <1>2, <1>3, <2>1
  <2> HIDE DEF m
  <2> DEFINE p == Failed(run.p, m, F)
  <2>4. F \in SUBSET Members
    BY <2>2, <2>3
  <2>5. /\ p \in Progress /\ Done(p) = Done(run.p) + 1 /\ p.ok = run.p.ok
        /\ p.completed = run.p.completed /\ p.failures = run.p.failures + 1 /\ p.consecutive = 0
    BY <2>3, <2>4, Counting
  <2>6. CommitTurn("FAILED", p)
    BY <2>2
  <2> HIDE DEF p
  <2> QED
    BY <2>1, <2>3, <2>5, <2>6, CommitTurnKeeps
<1>6. CASE SpeakerAnswered
  <2> DEFINE m == run.choice.member
             p == Succeeded(run.p, m)
  <2>1. run.pc = "speaking" /\ run # Off /\ UNCHANGED chatVars /\ CommitTurn("RESPONDED", p)
    BY <1>6, AtRuns DEF SpeakerAnswered
  <2>2. /\ m \in Members /\ run.p \in Progress /\ Order \in Orders /\ run.claim = NoToken
        /\ turn[run.r][Order].member = m /\ calls[run.r][Order] = 1
    BY <1>1, <1>2, <1>3, <2>1
  <2> HIDE DEF m
  <2>3. /\ p \in Progress /\ Done(p) = Done(run.p) + 1 /\ p.ok = run.p.ok \cup {m}
        /\ p.completed = run.p.completed + 1 /\ p.failures = run.p.failures /\ p.consecutive = 0
    BY <2>2, Counting
  <2> HIDE DEF p
  <2>4. run.p.ok \subseteq p.ok /\ m \in p.ok
    BY <2>3
  <2> QED
    BY <2>1, <2>2, <2>3, <2>4, CommitTurnKeeps
<1>7. CASE SpeakerFailed
  <2> DEFINE m == run.choice.member
             p == Failed(run.p, m, {m})
  <2>1. run.pc = "speaking" /\ run # Off /\ UNCHANGED chatVars /\ CommitTurn("FAILED", p)
    BY <1>7, AtRuns DEF SpeakerFailed
  <2>2. m \in Members /\ run.p \in Progress /\ Order \in Orders /\ run.claim = NoToken
    BY <1>1, <1>2, <1>3, <2>1
  <2> HIDE DEF m
  <2>3. /\ p \in Progress /\ Done(p) = Done(run.p) + 1 /\ p.ok = run.p.ok
        /\ p.completed = run.p.completed /\ p.failures = run.p.failures + 1 /\ p.consecutive = 0
    BY <2>2, Counting
  <2> HIDE DEF p
  <2> QED
    BY <2>1, <2>2, <2>3, CommitTurnKeeps
<1> QED
  BY <1>4, <1>5, <1>6, <1>7

-----------------------------------------------------------------------------
(* Steps that close an interjection, skip a member or save the checkpoint.   *)

\* A committed target's request was open and is not forgotten.
LEMMA CommittedRequest ==
    ASSUME ChatInv, NEW t \in Targets, NEW k \in 0 .. MaxAttempts, NEW s \in TerminalTarget,
           Commit(t, k, s)
    PROVE  /\ ChatInv'
           /\ \A q \in Requests : \/ request'[q] = request[q]
                                  \/ request[q] # "NONE" /\ request'[q] # "NONE"
                                     /\ request[q] \notin TerminalRequest
<1>1. ChatInv'
  BY CommitKeepsInv
<1>2. target[t] \in OpenRequest /\ t[1] \in Requests
  BY DEF Commit, CommitAllowed, Owned, OpenRequest, Targets
<1>3. request[t[1]] \in OpenRequest
  BY <1>2, OpenTargetOpenRequest
<1>4. request' = [request EXCEPT ![t[1]] = RefreshedStatus(t[1], target')]
  BY DEF Commit
<1>5. RefreshedStatus(t[1], target') # "NONE"
  BY RefreshedType
<1>6. request \in [Requests -> RequestStatus]
  BY DEF ChatInv, ChatTypeOK
<1> QED
  BY <1>1, <1>2, <1>3, <1>4, <1>5, <1>6 DEF OpenRequest, TerminalRequest

\* Closing an interjection counts it and nothing else.
LEMMA ClosingKeeps ==
    ASSUME RoundInv, run # Off, run.pc \in Working,
           NEW t \in Targets, NEW k \in 0 .. MaxAttempts, NEW s \in TerminalTarget,
           CloseInterjection(t, k, s)
    PROVE  RoundInv'
<1> DEFINE p == Interjected(run.p)
<1>0. Typed /\ Ledger /\ ChatInv
  BY DEF RoundInv
<1>1. /\ run.r \in Rounds /\ run.p \in Progress /\ Order = 1 + Done(run.p) /\ Order \in Nat
  BY <1>0, Fields
<1>2. /\ CountedBy(run.r, Order, run.p) /\ roundStatus[run.r] = "RUNNING"
      /\ run.p.consecutive = streak[run.r]
  BY MemoryCounts
<1>3. /\ p \in Progress /\ Done(p) = Done(run.p) /\ p.ok = run.p.ok
      /\ p.completed = run.p.completed /\ p.failures = run.p.failures
      /\ p.consecutive = run.p.consecutive + 1
  <2>1. Moderator \in Members
    BY RoundAssumption
  <2> QED
    BY <1>1, <2>1, Counting
<1>4. /\ Save(run.r, Order, p) /\ streak' = [streak EXCEPT ![run.r] = streak[run.r] + 1]
      /\ ToTopFree(p) /\ Commit(t, k, s)
      /\ UNCHANGED <<roundStatus, pauseRequested, roster, turn, requestRound, calls, env>>
  <2>1. run' = [run EXCEPT !.pc = "top", !.p = Interjected(@), !.choice = NoChoice,
                           !.claim = NoToken, !.work = TRUE]
    BY DEF CloseInterjection
  <2>2. ToTopFree(p)
    BY <2>1, <1>0, Fields DEF ToTopFree, Generator
  <2> QED
    BY <2>2 DEF CloseInterjection
<1> HIDE DEF p
<1>5. CountedBy(run.r, Order, p)
  BY <1>1, <1>2, <1>3 DEF CountedBy
<1>6. /\ \A x \in Rounds : streak'[x] = IF x = run.r THEN p.consecutive ELSE streak[x]
      /\ streak' \in [Rounds -> Nat]
  BY <1>0, <1>1, <1>2, <1>3, <1>4 DEF Typed
<1>7. Ledger'
  BY <1>0, <1>1, <1>2, <1>3, <1>4, <1>5, <1>6, LedgerSave
<1>8. /\ ChatInv'
      /\ \A q \in Requests : \/ request'[q] = request[q]
                             \/ request[q] # "NONE" /\ request'[q] # "NONE"
                                /\ request[q] \notin TerminalRequest
  BY <1>0, <1>4, CommittedRequest
<1>9. /\ turn' \in [Rounds -> [Orders -> Turn]]
      /\ \A x \in Rounds : x # run.r => turn'[x] = turn[x]
  BY <1>0, <1>4 DEF Typed
<1>10. Save(run.r, 1 + Done(p), p)
  BY <1>1, <1>3, <1>4
<1> QED
  BY <1>3, <1>4, <1>6, <1>7, <1>8, <1>9, <1>10, TopKeeps

\* The drained, the failed, the forsaken and the answered interjection.
LEMMA ClosingsKeepInv ==
    ASSUME RoundInv,
           DrainTarget \/ FailTarget \/ TargetGone \/ (\E s \in TerminalTarget : TargetAnswered(s))
    PROVE  RoundInv'
<1> USE DEF At
<1>0. Typed /\ Acting /\ Queued
  BY DEF RoundInv
<1>1. NoToken \in 0 .. MaxAttempts /\ "FAILED" \in TerminalTarget
  BY Constants DEF NoToken, TerminalTarget
<1>2. CASE DrainTarget
  <2>1. run.pc = "drain" /\ run # Off /\ run.pc \in Working
    BY <1>2, AtRuns DEF DrainTarget, Working
  <2>2. Oldest(OpenInterjections(run.r)) \in Requests
    <3>1. OpenInterjections(run.r) # {} /\ OpenInterjections(run.r) \in SUBSET Requests
      BY <1>0, <2>1 DEF Queued, OpenInterjections
    <3> QED
      BY <3>1, OldestIsOne
  <2>3. PICK m \in Members :
           CloseInterjection(<<Oldest(OpenInterjections(run.r)), m>>, NoToken, "FAILED")
    BY <1>2 DEF DrainTarget
  <2>4. <<Oldest(OpenInterjections(run.r)), m>> \in Targets
    BY <2>2 DEF Targets
  <2> QED
    BY <1>1, <2>1, <2>3, <2>4, ClosingKeeps
<1>3. ASSUME run # Off, run.choice.kind \in {"answer", "fail", "assign"}
      PROVE  ChosenTarget \in Targets
  BY <1>0, <1>3 DEF Acting, ChosenTarget, Targets
<1>4. CASE FailTarget
  <2>1. run.pc = "act" /\ run # Off /\ run.choice.kind = "fail" /\ run.pc \in Working
    BY <1>4, AtRuns DEF FailTarget, Chosen, Working
  <2>2. CloseInterjection(ChosenTarget, NoToken, "FAILED")
    BY <1>4 DEF FailTarget
  <2> QED
    BY <1>1, <1>3, <2>1, <2>2, ClosingKeeps
<1>5. CASE TargetGone
  <2>1. run.pc = "claimed" /\ run # Off /\ run.pc \in Working
    BY <1>5, AtRuns DEF TargetGone, Working
  <2>2. CloseInterjection(ChosenTarget, run.claim, "FAILED")
    BY <1>5 DEF TargetGone
  <2>3. ChosenTarget \in Targets /\ run.claim \in 0 .. MaxAttempts
    BY <1>0, <1>3, <2>1, Fields DEF Acting
  <2> QED
    BY <1>1, <2>1, <2>2, <2>3, ClosingKeeps
<1>6. ASSUME NEW s \in TerminalTarget, TargetAnswered(s) PROVE RoundInv'
  <2>1. run.pc = "asked" /\ run # Off /\ run.pc \in Working
    BY <1>6, AtRuns DEF TargetAnswered, Working
  <2>2. CloseInterjection(ChosenTarget, run.claim, s)
    BY <1>6 DEF TargetAnswered
  <2>3. ChosenTarget \in Targets /\ run.claim \in 0 .. MaxAttempts
    BY <1>0, <1>3, <2>1, Fields DEF Acting
  <2> QED
    BY <2>1, <2>2, <2>3, ClosingKeeps
<1> QED
  BY <1>2, <1>4, <1>5, <1>6

\* The first checkpoint of a new round counts nothing, that of a resumed one
\* what its last one counted.
LEMMA FirstCheckpointKeeps ==
    ASSUME RoundInv, SaveFirstCheckpoint
    PROVE  RoundInv'
<1>0. Typed /\ Ledger /\ ChatInv /\ Acting /\ Statuses /\ Remembers
  BY DEF RoundInv
<1>1. run.pc \in {"created", "resumed"} /\ run # Off /\ run.pc \in Driving
  BY AtRuns DEF SaveFirstCheckpoint, Opening, At, Driving
<1>2. /\ run \in Generator /\ run.r \in Rounds /\ run.base = 1 /\ run.p \in Progress
      /\ Order = 1 + Done(run.p) /\ Order \in Nat /\ roundStatus[run.r] = "RUNNING"
  BY <1>0, <1>1, Fields DEF Statuses
<1>3. /\ Save(run.r, Order, run.p) /\ Goto("announce")
      /\ UNCHANGED <<chatVars, roundStatus, pauseRequested, roster, turn, requestRound,
                     history, env>>
  BY DEF SaveFirstCheckpoint
<1>4. CountedBy(run.r, Order, run.p) /\ run.p.consecutive = streak[run.r]
  <2>1. CASE run.pc = "resumed"
    BY <1>1, <2>1, MemoryCounts
  <2>2. CASE run.pc = "created"
    <3>1. run.p = Fresh /\ Untouched(run.r)
      BY <1>0, <1>1, <1>2, <2>2 DEF Remembers, Ledger
    <3>2. /\ run.p.completed = 0 /\ run.p.failures = 0 /\ run.p.skipped = 0
          /\ run.p.consecutive = 0 /\ Order = 1
      BY <1>2, <3>1 DEF Fresh, Done
    <3>3. TurnsIn(run.r, "RESPONDED") = {} /\ TurnsIn(run.r, "FAILED") = {}
      BY <3>1 DEF Untouched, TurnsIn, NoTurn
    <3>4. Cardinality({}) = 0
      BY FS_EmptySet
    <3>5. \A o \in Orders : turn[run.r][o].status = "NONE"
      BY <3>1 DEF Untouched, NoTurn
    <3>6. MaxTurns(run.r) \in Nat /\ streak[run.r] = 0
      BY <1>0, <1>2, <3>1, TurnsFit DEF Untouched
    <3> QED
      BY <1>2, <3>2, <3>3, <3>4, <3>5, <3>6 DEF CountedBy
  <2> QED
    BY <1>1, <2>1, <2>2
<1>5. /\ run' \in Generator /\ run'.pc = "announce" /\ run'.r = run.r /\ run'.base = run.base
      /\ run'.p = run.p /\ run'.choice = run.choice /\ run'.claim = run.claim
  <2>1. "announce" \in PC
    BY DEF PC, Driving, Working
  <2> QED
    BY <1>2, <1>3, <2>1, Moves
<1>6. Acting'
  BY <1>0, <1>1, <1>5 DEF Acting
<1>7. /\ ChatInv' /\ request' = request /\ streak' = streak /\ calls' = calls /\ turn' = turn
      /\ roster' = roster /\ roundStatus' = roundStatus
  BY <1>0, <1>3, ChatFrame DEF chatVars, history
<1>8. Ledger'
  BY <1>0, <1>2, <1>3, <1>4, <1>7, LedgerSave
<1>9. streak' \in [Rounds -> Nat] /\ turn' \in [Rounds -> [Orders -> Turn]]
  BY <1>0, <1>7 DEF Typed
<1>10. UNCHANGED <<roundStatus, pauseRequested, roster, requestRound, calls, env>>
  BY <1>3, <1>7
<1>11. Save(run.r, 1 + Done(run.p), run.p)
  BY <1>2, <1>3
<1> QED
  BY <1>1, <1>2, <1>5, <1>6, <1>7, <1>8, <1>9, <1>10, <1>11, SaveKeeps

\* The interjection without a target is counted like the others.
LEMMA DrainCheckpointKeeps ==
    ASSUME RoundInv, DrainCheckpoint
    PROVE  RoundInv'
<1> DEFINE p == Interjected(run.p)
<1>0. Typed /\ Ledger /\ ChatInv /\ Acting
  BY DEF RoundInv
<1>1. run.pc = "drained" /\ run # Off /\ run.pc \in Working /\ run.pc \in Driving
  BY AtRuns DEF DrainCheckpoint, At, Working, Driving
<1>2. /\ run \in Generator /\ run.r \in Rounds /\ run.base = 1 /\ run.p \in Progress
      /\ Order = 1 + Done(run.p) /\ Order \in Nat
  BY <1>0, <1>1, Fields
<1>3. CountedBy(run.r, Order, run.p) /\ run.p.consecutive = streak[run.r] /\ roundStatus[run.r] = "RUNNING"
  BY <1>1, MemoryCounts
<1>4. /\ p \in Progress /\ Done(p) = Done(run.p) /\ p.ok = run.p.ok
      /\ p.completed = run.p.completed /\ p.failures = run.p.failures
      /\ p.consecutive = run.p.consecutive + 1
  <2>1. Moderator \in Members
    BY RoundAssumption
  <2> QED
    BY <1>2, <2>1, Counting
<1>5. /\ Save(run.r, Order, p) /\ streak' = [streak EXCEPT ![run.r] = streak[run.r] + 1]
      /\ run' = [run EXCEPT !.pc = "settle", !.p = p]
      /\ UNCHANGED <<chatVars, roundStatus, pauseRequested, roster, turn, requestRound, calls, env>>
  <2>1. run' = [run EXCEPT !.pc = "settle", !.p = Interjected(@)]
    BY DEF DrainCheckpoint
  <2>2. run' = [run EXCEPT !.pc = "settle", !.p = p]
    BY <2>1, <1>2 DEF Generator
  <2> QED
    BY <2>2 DEF DrainCheckpoint
<1> HIDE DEF p
<1>6. /\ run' \in Generator /\ run'.pc = "settle" /\ run'.r = run.r /\ run'.base = 1
      /\ run'.p = p /\ run'.choice = run.choice /\ run'.claim = run.claim
  <2>1. "settle" \in PC
    BY DEF PC, Driving, Working
  <2> QED
    BY <1>2, <1>4, <1>5, <2>1 DEF Generator
<1>7. ChatInv' /\ request' = request /\ turn' = turn
  BY <1>0, <1>5, ChatFrame DEF chatVars
<1>8. Acting'
  BY <1>0, <1>1, <1>6, <1>7 DEF Acting
<1>9. /\ \A x \in Rounds : streak'[x] = IF x = run.r THEN p.consecutive ELSE streak[x]
      /\ streak' \in [Rounds -> Nat] /\ turn' \in [Rounds -> [Orders -> Turn]]
  BY <1>0, <1>2, <1>3, <1>4, <1>5 DEF Typed
<1>10. CountedBy(run.r, Order, p)
  BY <1>2, <1>3, <1>4 DEF CountedBy
<1>11. Ledger'
  BY <1>0, <1>2, <1>3, <1>4, <1>5, <1>9, <1>10, LedgerSave
<1>12. Save(run.r, 1 + Done(p), p)
  BY <1>2, <1>4, <1>5
<1> QED
  BY <1>1, <1>4, <1>5, <1>6, <1>7, <1>8, <1>9, <1>11, <1>12, SaveKeeps

\* A skipped member uses its order up.
LEMMA SkipKeeps ==
    ASSUME RoundInv, SkipMember
    PROVE  RoundInv'
<1> DEFINE p == [run.p EXCEPT !.skipped = @ + 1, !.consecutive = 0]
<1>0. Typed /\ Ledger /\ ChatInv /\ Acting
  BY DEF RoundInv
<1>1. /\ run.pc = "top" /\ run # Off /\ run.pc \in Working /\ run.pc \in Driving
      /\ ~ Unfinished /\ ~ BudgetSpent /\ ~ Dynamic
  BY AtRuns DEF SkipMember, Scheduling, At, Working, Driving
<1>2. /\ run \in Generator /\ run.r \in Rounds /\ run.base = 1 /\ run.p \in Progress
      /\ Order = 1 + Done(run.p) /\ Order \in Nat /\ Done(run.p) \in Nat
  BY <1>0, <1>1, Fields
<1>3. CountedBy(run.r, Order, run.p) /\ roundStatus[run.r] = "RUNNING"
  BY <1>1, MemoryCounts
<1>4. /\ p \in Progress /\ Done(p) = Done(run.p) + 1 /\ p.ok = run.p.ok
      /\ p.completed = run.p.completed /\ p.failures = run.p.failures /\ p.consecutive = 0
  <2>1. /\ run.p.completed \in Nat /\ run.p.failures \in Nat /\ run.p.skipped \in Nat
        /\ run.p.spoken \in [Members -> Nat] /\ run.p.ok \in SUBSET Members
        /\ run.p.failed \in SUBSET Members /\ run.p.skipped + 1 \in Nat
    BY <1>2 DEF Progress
  <2>2. p = [spoken |-> run.p.spoken, ok |-> run.p.ok, failed |-> run.p.failed,
             completed |-> run.p.completed, failures |-> run.p.failures,
             skipped |-> run.p.skipped + 1, consecutive |-> 0]
    <3> DEFINE q == run.p
    <3>1. q \in Progress
      BY <1>2
    <3>2. p = [q EXCEPT !.skipped = q.skipped + 1, !.consecutive = 0]
      OBVIOUS
    <3>3. SUFFICES p = [spoken |-> q.spoken, ok |-> q.ok, failed |-> q.failed,
                        completed |-> q.completed, failures |-> q.failures,
                        skipped |-> q.skipped + 1, consecutive |-> 0]
      OBVIOUS
    <3> HIDE DEF p, q
    <3> QED
      BY <3>1, <3>2 DEF Progress
  <2> HIDE DEF p
  <2>3. p \in Progress
    BY <2>1, <2>2 DEF Progress
  <2> QED
    BY <2>1, <2>2, <2>3 DEF Done
<1>5. /\ Save(run.r, Order + 1, p) /\ streak' = [streak EXCEPT ![run.r] = 0]
      /\ run' = [run EXCEPT !.p = p]
      /\ UNCHANGED <<chatVars, roundStatus, pauseRequested, roster, turn, requestRound, calls, env>>
  BY DEF SkipMember
<1> HIDE DEF p
<1>6. /\ run' \in Generator /\ run'.pc = "top" /\ run'.r = run.r /\ run'.base = 1
      /\ run'.p = p /\ run'.choice = run.choice /\ run'.claim = run.claim
  BY <1>1, <1>2, <1>4, <1>5 DEF Generator
<1>7. ChatInv' /\ request' = request /\ turn' = turn
  BY <1>0, <1>5, ChatFrame DEF chatVars
<1>8. Acting'
  BY <1>0, <1>1, <1>6, <1>7 DEF Acting
<1>9. /\ \A x \in Rounds : streak'[x] = IF x = run.r THEN p.consecutive ELSE streak[x]
      /\ streak' \in [Rounds -> Nat] /\ turn' \in [Rounds -> [Orders -> Turn]]
  BY <1>0, <1>2, <1>4, <1>5 DEF Typed
<1>10. CountedBy(run.r, Order + 1, p)
  <2>1. MaxTurns(run.r) \in Nat /\ Order <= MaxTurns(run.r)
    BY <1>0, <1>1, <1>2, TurnsFit DEF BudgetSpent
  <2>2. \A o \in Orders : o \in Nat /\ turn[run.r][o].status # "STARTED"
    BY <1>1, <1>3, OrdersNat DEF CountedBy, Unfinished
  <2>3. \A o \in Orders : turn[run.r][o].status \in {"RESPONDED", "FAILED"} => o < Order + 1
    BY <1>2, <1>3, <2>2 DEF CountedBy
  <2>4. Order + 1 = 1 + Done(p) /\ Order + 1 <= MaxTurns(run.r) + 1
    BY <1>2, <1>4, <2>1
  <2> QED
    BY <1>3, <1>4, <2>2, <2>3, <2>4 DEF CountedBy
<1>11. Order + 1 \in Nat
  BY <1>2
<1>12. Ledger'
  BY <1>0, <1>2, <1>3, <1>4, <1>5, <1>9, <1>10, <1>11, LedgerSave
<1>13. Save(run.r, 1 + Done(p), p)
  <2>1. Order + 1 = 1 + Done(p)
    BY <1>2, <1>4
  <2> QED
    BY <1>5, <2>1
<1> QED
  BY <1>1, <1>4, <1>5, <1>6, <1>7, <1>8, <1>9, <1>12, <1>13, SaveKeeps

-----------------------------------------------------------------------------
(* Steps within the loop.                                                   *)

\* Requests change only while they are open, and are never forgotten.
RequestsMove ==
    \A q \in Requests : \/ request'[q] = request[q]
                        \/ request[q] \in OpenRequest /\ request'[q] # "NONE"

\* What the parts of the invariant need of a step of the generator that writes
\* neither the status nor the checkpoint of its round.
LEMMA LoopKeeps ==
    ASSUME RoundInv, run # Off, run.pc \in Working \cup {"finally"},
           run' \in Generator, run'.pc \in Working \cup {"finally"},
           run'.r = run.r, run'.base = run.base, run'.p = run.p, Acting',
           Ledger', ChatInv', RequestsMove,
           run'.pc = "drain" => \E q \in Requests : requestRound[q] = run.r /\ request'[q] \in OpenRequest,
           turn' \in [Rounds -> [Orders -> Turn]], calls' \in [Rounds -> [Orders -> Nat]],
           \A x \in Rounds : x # run.r => turn'[x] = turn[x],
           UNCHANGED <<roundStatus, pauseRequested, roster, checkpoint, requestRound, streak, env>>
    PROVE  RoundInv'
<1>0. Typed /\ Ledger /\ Statuses /\ Exclusive /\ Queued /\ CompletedIsClean /\ Remembers
  BY DEF RoundInv
<1>1. /\ roundStatus' = roundStatus /\ pauseRequested' = pauseRequested /\ roster' = roster
      /\ checkpoint' = checkpoint /\ requestRound' = requestRound /\ streak' = streak
      /\ enabled' = enabled /\ up' = up /\ disruptions' = disruptions
  BY DEF env
<1>2. run' # Off /\ Order' = Order /\ run.r \in Rounds /\ up
  BY <1>0, NotOff, Fields DEF Order
<1>3. roundStatus[run.r] = "RUNNING"
  BY <1>0 DEF Statuses, Driving
<1>4. Typed'
  BY <1>0, <1>1, <1>2 DEF Typed, HasCheckpoint
<1>5. Remembers'
  BY <1>0, <1>1, <1>2 DEF Remembers, Working
<1>6. Statuses'
  BY <1>0, <1>1, <1>2, <1>3 DEF Statuses, Driving, Working, HasCheckpoint
<1>7. Exclusive'
  BY <1>0, <1>1, <1>2, <1>3 DEF Exclusive, Working
<1>8. Queued'
  <2>1. \A q \in Requests : /\ request'[q] = "NONE" => request[q] = "NONE"
                            /\ request'[q] \in OpenRequest => request[q] \in OpenRequest
    BY DEF RequestsMove
  <2> QED
    BY <1>0, <1>1, <2>1 DEF Queued, FinishedRoundsAnswered, OpenInterjections
<1>9. CompletedIsClean'
  BY <1>0, <1>1, <1>3, CleanFrame
<1> QED
  BY <1>4, <1>5, <1>6, <1>7, <1>8, <1>9 DEF RoundInv

\* A recovery leaves open requests open.
LEMMA RecoveryMoves ==
    ASSUME ChatInv, NEW T \in SUBSET Targets, \A t \in T : target[t] = "PROCESSING", Reopen(T)
    PROVE  /\ ChatInv' /\ RequestsMove
           /\ \A q \in Requests : request[q] \in OpenRequest <=> request'[q] \in OpenRequest
<1>1. ChatInv'
  BY ReopenKeepsInv
<1>2. ASSUME NEW q \in Requests, NEW t \in T, t[1] = q
      PROVE  request[q] \in OpenRequest /\ request'[q] \in OpenRequest
  <2>1. t \in Targets /\ t = <<q, t[2]>> /\ t[2] \in Members
    BY <1>2 DEF Targets
  <2>2. request[q] \in OpenRequest
    BY <1>2, <2>1, OpenTargetOpenRequest DEF OpenRequest
  <2>3. target'[t] = "PENDING"
    BY <2>1 DEF Reopen
  <2>4. target'[t] \in StatusesOf(q, target')
    BY <2>1, <2>3 DEF StatusesOf
  <2>5. RefreshedStatus(q, target') \in OpenRequest
    BY <2>3, <2>4, RefreshedType DEF OpenRequest
  <2>6. request'[q] = RefreshedStatus(q, target')
    BY <1>2 DEF Reopen
  <2> QED
    BY <2>2, <2>5, <2>6
<1>3. \A q \in Requests : (~ \E t \in T : t[1] = q) => request'[q] = request[q]
  BY DEF Reopen
<1> QED
  BY <1>1, <1>2, <1>3 DEF RequestsMove, OpenRequest

\* The lease recovery is one of them.
LEMMA ExpiryMoves ==
    ASSUME ChatInv, NEW R \in SUBSET Requests, RecoverExpired(R)
    PROVE  /\ ChatInv' /\ RequestsMove
           /\ \A q \in Requests : request[q] \in OpenRequest <=> request'[q] \in OpenRequest
<1>1. ExpiredTargets(R) \in SUBSET Targets /\ \A t \in ExpiredTargets(R) : target[t] = "PROCESSING"
  BY DEF ExpiredTargets
<1> QED
  BY <1>1, RecoveryMoves DEF RecoverExpired

\* No turn of the generator's round is open where the next one is chosen.
LEMMA NothingOpen ==
    ASSUME RoundInv, run # Off, run.pc = "top", ~ Unfinished
    PROVE  \A o \in Orders : turn[run.r][o].status # "STARTED"
<1>1. CountedBy(run.r, Order, run.p)
  BY MemoryCounts DEF Working
<1> QED
  BY <1>1 DEF CountedBy, Unfinished

\* A roster holds members.
LEMMA RosterIsMembers ==
    ASSUME Typed, NEW r \in Rounds
    PROVE  RosterSet(r) \subseteq Members
BY DEF Typed, RosterSet

\* The next member by position is chosen.
LEMMA InOrderKeeps ==
    ASSUME RoundInv, ScheduleInOrder
    PROVE  RoundInv'
<1> DEFINE m == roster[run.r][Order]
<1>0. Typed /\ Ledger /\ ChatInv /\ Acting
  BY DEF RoundInv
<1>1. /\ run.pc = "top" /\ run # Off /\ run.pc \in Working /\ ~ Unfinished /\ ~ Dynamic
      /\ Order <= MaxTurns(run.r) /\ m \in enabled
      /\ run' = [run EXCEPT !.pc = "act", !.choice = [kind |-> "speak", req |-> 0, member |-> m]]
      /\ UNCHANGED <<chatVars, roundTables, history, env>>
  <2>1. MaxTurns(run.r) \in Nat /\ Order \in Nat
    BY <1>0, AtRuns, Fields, TurnsFit DEF ScheduleInOrder, Scheduling
  <2> QED
    BY <2>1, AtRuns DEF ScheduleInOrder, Scheduling, At, Working, BudgetSpent
<1>2. /\ run \in Generator /\ run.r \in Rounds /\ Order \in Nat /\ Order >= 1
  BY <1>0, <1>1, Fields
<1>3. m \in RosterSet(run.r) /\ m \in Members
  <2>1. MaxTurns(run.r) = Len(roster[run.r]) /\ roster[run.r] \in Seq(Members)
    BY <1>0, <1>1, <1>2 DEF MaxTurns, Typed
  <2>2. Order \in DOMAIN roster[run.r]
    BY <1>1, <1>2, <2>1
  <2> QED
    BY <1>0, <1>2, <2>2, RosterIsMembers DEF RosterSet
<1> HIDE DEF m
<1>4. /\ run' \in Generator /\ run'.pc = "act" /\ run'.r = run.r /\ run'.base = run.base
      /\ run'.p = run.p /\ run'.choice.kind = "speak" /\ run'.choice.member = m
      /\ run'.claim = run.claim
  <2>1. "act" \in PC /\ [kind |-> "speak", req |-> 0, member |-> m] \in Choice
    BY <1>3 DEF PC, Driving, Working, Choice, Kind
  <2> QED
    BY <1>1, <1>2, <2>1 DEF Generator
<1>5. /\ ChatInv' /\ request' = request /\ turn' = turn /\ calls' = calls /\ roster' = roster
      /\ UNCHANGED <<roundStatus, pauseRequested, roster, checkpoint, requestRound, streak, env>>
  BY <1>0, <1>1, ChatFrame DEF chatVars, roundTables, history
<1>6. Acting'
  <2>1. \A o \in Orders : turn[run.r][o].status # "STARTED"
    BY <1>1, NothingOpen
  <2>2. Order' = Order /\ MaxTurns(run.r)' = MaxTurns(run.r) /\ RosterSet(run.r)' = RosterSet(run.r)
    BY <1>4, <1>5 DEF Order, MaxTurns, RosterSet
  <2>3. run'.claim = NoToken
    BY <1>0, <1>1, <1>4 DEF Acting
  <2> QED
    BY <1>1, <1>3, <1>4, <1>5, <2>1, <2>2, <2>3 DEF Acting, MaxTurns, RosterSet
<1>7. Ledger'
  BY <1>0, <1>5, LedgerFrame DEF LedgerSame
<1>8. RequestsMove
  BY <1>5 DEF RequestsMove
<1>9. turn' \in [Rounds -> [Orders -> Turn]] /\ calls' \in [Rounds -> [Orders -> Nat]]
  BY <1>0, <1>5 DEF Typed
<1> QED
  BY <1>1, <1>4, <1>5, <1>6, <1>7, <1>8, <1>9, LoopKeeps DEF Working

\* Nobody is left to speak in order: the queue is drained, or the round ends.
LEMMA NobodyLeftKeeps ==
    ASSUME RoundInv, NobodyLeft
    PROVE  RoundInv'
<1>0. Typed /\ Ledger /\ ChatInv /\ Acting
  BY DEF RoundInv
<1> DEFINE s == IF OpenInterjections(run.r) = {} THEN "settle" ELSE "drain"
<1>1. /\ run.pc = "top" /\ run # Off /\ run.pc \in Working /\ ~ Unfinished
      /\ Goto(s) /\ RecoverExpired(RequestsOf(run.r))
      /\ UNCHANGED <<roundTables, history, env>>
  BY AtRuns DEF NobodyLeft, Scheduling, At, Working
<1>2. run \in Generator
  BY <1>0, <1>1, Fields
<1>3. /\ run' \in Generator /\ run'.pc = s /\ run'.r = run.r /\ run'.base = run.base
      /\ run'.p = run.p /\ run'.choice = run.choice /\ run'.claim = run.claim
  <2>1. s \in PC
    BY DEF PC, Driving, Working
  <2> HIDE DEF s
  <2> QED
    BY <1>1, <1>2, <2>1, Moves
<1>4. /\ ChatInv' /\ RequestsMove
      /\ \A q \in Requests : request[q] \in OpenRequest <=> request'[q] \in OpenRequest
  BY <1>0, <1>1, ExpiryMoves DEF RequestsOf
<1>5. /\ turn' = turn /\ calls' = calls /\ roster' = roster
      /\ UNCHANGED <<roundStatus, pauseRequested, roster, checkpoint, requestRound, streak, env>>
  BY <1>1 DEF roundTables, history
<1>6. Acting'
  <2>1. \A o \in Orders : turn[run.r][o].status # "STARTED"
    BY <1>1, NothingOpen
  <2> QED
    BY <1>0, <1>1, <1>3, <1>5, <2>1 DEF Acting
<1>7. Ledger'
  BY <1>0, <1>5, LedgerFrame DEF LedgerSame
<1>8. run'.pc = "drain" => \E q \in Requests : requestRound[q] = run.r /\ request'[q] \in OpenRequest
  BY <1>3, <1>4 DEF OpenInterjections
<1>9. turn' \in [Rounds -> [Orders -> Turn]] /\ calls' \in [Rounds -> [Orders -> Nat]]
  BY <1>0, <1>5 DEF Typed
<1> QED
  BY <1>1, <1>3, <1>4, <1>5, <1>6, <1>7, <1>8, <1>9, LoopKeeps DEF Working

\* What the selection may come to.
LEMMA ChoiceIsSound ==
    ASSUME Typed, run # Off, Moderator \in Available(run.r),
           NEW work \in BOOLEAN, NEW c,
           c \in LET only == Order > MaxTurns(run.r)
                     force == MustYield(only, work)
                     waiting == IF force THEN {} ELSE OpenInterjections(run.r)
                     answers == IF waiting = {} THEN {} ELSE Interjection(Oldest(waiting)) IN
                 IF answers # {} THEN answers ELSE Formal(only, force, work)
    PROVE  /\ c \in Choice
           /\ c.kind \in {"answer", "fail", "assign"} =>
                 /\ c.req \in Requests /\ c.member \in Members
                 /\ run.p.consecutive < MaxConsecutive \/ Order > MaxTurns(run.r) \/ ~ work
           /\ c.kind = "speak" => c.member \in RosterSet(run.r) /\ Order <= MaxTurns(run.r)
<1> DEFINE only == Order > MaxTurns(run.r)
           force == MustYield(only, work)
           waiting == IF force THEN {} ELSE OpenInterjections(run.r)
           answers == IF waiting = {} THEN {} ELSE Interjection(Oldest(waiting))
<1>1. /\ run.r \in Rounds /\ MaxTurns(run.r) \in Nat /\ Order \in Nat /\ run.p.consecutive \in Nat
      /\ RosterSet(run.r) \subseteq Members
  BY Fields, TurnsFit, RosterIsMembers DEF Progress
<1>2. Available(run.r) \subseteq RosterSet(run.r)
  BY DEF Available
<1>3. ASSUME c \in answers, answers # {}
      PROVE  /\ c \in Choice /\ c.kind \in {"answer", "fail", "assign"}
             /\ c.req \in Requests /\ c.member \in Members
             /\ run.p.consecutive < MaxConsecutive \/ Order > MaxTurns(run.r) \/ ~ work
  <2>1. waiting # {} /\ ~ force /\ waiting \in SUBSET Requests
    BY <1>3 DEF OpenInterjections
  <2> DEFINE q == Oldest(waiting)
  <2>2. q \in Requests /\ c \in Interjection(q)
    BY <1>3, <2>1, OldestIsOne
  <2>3. run.p.consecutive < MaxConsecutive \/ Order > MaxTurns(run.r) \/ ~ work
    BY <1>1, <2>1, Constants DEF MustYield
  <2> HIDE DEF q
  <2>4. Assignable \subseteq Members
    BY <1>1, <1>2 DEF Assignable, Eligible, Unspoken, Callable
  <2>5. \E m \in Members, k \in {"answer", "fail", "assign"} : c = [kind |-> k, req |-> q, member |-> m]
    BY <2>2, <2>4 DEF Interjection
  <2>6. c \in Choice /\ c.kind \in {"answer", "fail", "assign"} /\ c.req = q /\ c.member \in Members
    BY <2>2, <2>5 DEF Choice, Kind
  <2> QED
    BY <2>2, <2>3, <2>6
<1>4. ASSUME c \in Formal(only, force, work)
      PROVE  /\ c \in Choice /\ c.kind \in {"speak", "finish"}
             /\ c.kind = "speak" => c.member \in RosterSet(run.r) /\ Order <= MaxTurns(run.r)
  <2> DEFINE speakers == IF Attempted THEN Eligible ELSE Available(run.r)
  <2>1. speakers \subseteq RosterSet(run.r)
    BY <1>2 DEF Eligible, Unspoken, Callable
  <2>2. \/ c = [NoChoice EXCEPT !.kind = "finish"]
        \/ ~ only /\ \E m \in speakers : c = [kind |-> "speak", req |-> 0, member |-> m]
    BY <1>4 DEF Formal
  <2> HIDE DEF speakers
  <2>3. CASE c = [NoChoice EXCEPT !.kind = "finish"]
    BY <2>3 DEF NoChoice, Choice, Kind
  <2>4. CASE ~ only /\ \E m \in speakers : c = [kind |-> "speak", req |-> 0, member |-> m]
    <3>1. PICK m \in speakers : c = [kind |-> "speak", req |-> 0, member |-> m]
      BY <2>4
    <3>2. m \in RosterSet(run.r) /\ m \in Members /\ Order <= MaxTurns(run.r)
      BY <1>1, <2>1, <2>4
    <3> QED
      BY <3>1, <3>2 DEF Choice, Kind
  <2> QED
    BY <2>2, <2>3, <2>4
<1>5. c \in IF answers # {} THEN answers ELSE Formal(only, force, work)
  OBVIOUS
<1> HIDE DEF only, force, waiting, answers
<1> QED
  BY <1>3, <1>4, <1>5

\* The selection of dynamic mode.
LEMMA ChooseKeeps ==
    ASSUME RoundInv, Choose
    PROVE  RoundInv'
<1>0. Typed /\ Ledger /\ ChatInv /\ Acting
  BY DEF RoundInv
<1>1. /\ run.pc = "top" /\ run # Off /\ run.pc \in Working /\ ~ Unfinished
      /\ Moderator \in Available(run.r) /\ RecoverExpired(RequestsOf(run.r))
      /\ UNCHANGED <<roundTables, history, env>>
  BY AtRuns DEF Choose, Scheduling, At, Working
<1>2. run \in Generator
  BY <1>0, <1>1, Fields
<1>3. WorkMayRemain \subseteq BOOLEAN
  BY DEF WorkMayRemain
<1>4. PICK work \in BOOLEAN, c \in Choice :
        /\ run' = [run EXCEPT !.pc = "chosen", !.choice = c, !.work = work]
        /\ c.kind \in {"answer", "fail", "assign"} =>
              /\ c.req \in Requests /\ c.member \in Members
              /\ run.p.consecutive < MaxConsecutive \/ Order > MaxTurns(run.r) \/ ~ work
        /\ c.kind = "speak" => c.member \in RosterSet(run.r) /\ Order <= MaxTurns(run.r)
  <2>1. PICK work \in BOOLEAN :
          \E c \in LET only == Order > MaxTurns(run.r)
                       force == MustYield(only, work)
                       waiting == IF force THEN {} ELSE OpenInterjections(run.r)
                       answers == IF waiting = {} THEN {} ELSE Interjection(Oldest(waiting)) IN
                   IF answers # {} THEN answers ELSE Formal(only, force, work) :
             run' = [run EXCEPT !.pc = "chosen", !.choice = c, !.work = work]
    BY <1>3 DEF Choose
  <2>2. PICK c \in LET only == Order > MaxTurns(run.r)
                       force == MustYield(only, work)
                       waiting == IF force THEN {} ELSE OpenInterjections(run.r)
                       answers == IF waiting = {} THEN {} ELSE Interjection(Oldest(waiting)) IN
                   IF answers # {} THEN answers ELSE Formal(only, force, work) :
             run' = [run EXCEPT !.pc = "chosen", !.choice = c, !.work = work]
    BY <2>1
  <2>3. /\ c \in Choice
        /\ c.kind \in {"answer", "fail", "assign"} =>
              /\ c.req \in Requests /\ c.member \in Members
              /\ run.p.consecutive < MaxConsecutive \/ Order > MaxTurns(run.r) \/ ~ work
        /\ c.kind = "speak" => c.member \in RosterSet(run.r) /\ Order <= MaxTurns(run.r)
    BY <1>0, <1>1, <2>2, ChoiceIsSound
  <2> QED
    BY <2>2, <2>3
<1>5. /\ run' \in Generator /\ run'.pc = "chosen" /\ run'.r = run.r /\ run'.base = run.base
      /\ run'.p = run.p /\ run'.choice = c /\ run'.claim = run.claim /\ run'.work = work
  <2>1. "chosen" \in PC
    BY DEF PC, Driving, Working
  <2> QED
    BY <1>2, <1>4, <2>1 DEF Generator
<1>6. ChatInv' /\ RequestsMove
  BY <1>0, <1>1, ExpiryMoves DEF RequestsOf
<1>7. /\ turn' = turn /\ calls' = calls /\ roster' = roster
      /\ UNCHANGED <<roundStatus, pauseRequested, roster, checkpoint, requestRound, streak, env>>
  BY <1>1 DEF roundTables, history
<1>8. Acting'
  <2>1. \A o \in Orders : turn[run.r][o].status # "STARTED"
    BY <1>1, NothingOpen
  <2>2. Order' = Order /\ MaxTurns(run.r)' = MaxTurns(run.r) /\ RosterSet(run.r)' = RosterSet(run.r)
    BY <1>5, <1>7 DEF Order, MaxTurns, RosterSet
  <2>3. run'.claim = NoToken
    BY <1>0, <1>1, <1>5 DEF Acting
  <2> QED
    BY <1>4, <1>5, <1>7, <2>1, <2>2, <2>3 DEF Acting, MaxTurns, RosterSet
<1>9. Ledger'
  BY <1>0, <1>7, LedgerFrame DEF LedgerSame
<1>10. turn' \in [Rounds -> [Orders -> Turn]] /\ calls' \in [Rounds -> [Orders -> Nat]]
  BY <1>0, <1>7 DEF Typed
<1> QED
  BY <1>1, <1>5, <1>6, <1>7, <1>8, <1>9, <1>10, LoopKeeps DEF Working

\* A target that is taken belongs to an open request and stays in one.
LEMMA StartMoves ==
    ASSUME ChatInv, NEW t \in Targets, Claim(t) \/ AssignModerated(t)
    PROVE  ChatInv' /\ RequestsMove /\ token'[t] \in 0 .. MaxAttempts
<1>1. StartAttempt(t) /\ ChatInv'
  BY ClaimsStart, StartKeepsInv
<1>2. request[t[1]] \in OpenRequest
  <2>1. CASE Claim(t)
    BY <2>1, OpenTargetOpenRequest DEF Claim, Claimable, OpenRequest
  <2>2. CASE AssignModerated(t)
    BY <2>2 DEF AssignModerated
  <2> QED
    BY <2>1, <2>2
<1>3. request \in [Requests -> RequestStatus] /\ t[1] \in Requests
  BY DEF ChatInv, ChatTypeOK, Targets
<1>4. RequestsMove
  BY <1>1, <1>2, <1>3 DEF StartAttempt, RequestsMove
<1> QED
  BY <1>1, <1>4 DEF ChatInv, ChatTypeOK

\* An interjection is claimed, or assigned to a member.
LEMMA TakeKeeps ==
    ASSUME RoundInv, TakeTarget
    PROVE  RoundInv'
<1>0. Typed /\ Ledger /\ ChatInv /\ Acting
  BY DEF RoundInv
<1>1. /\ run.pc = "act" /\ run # Off /\ run.pc \in Working /\ run.choice.kind \in {"answer", "assign"}
      /\ Claim(ChosenTarget) \/ AssignModerated(ChosenTarget)
      /\ run' = [run EXCEPT !.pc = "claimed", !.claim = token'[ChosenTarget]]
      /\ UNCHANGED <<roundTables, history, env>>
  BY AtRuns DEF TakeTarget, Chosen, At, Working
<1>2. run \in Generator
  BY <1>0, <1>1, Fields
<1>3. ChosenTarget \in Targets
  BY <1>0, <1>1 DEF Acting, ChosenTarget, Targets
<1>4. ChatInv' /\ RequestsMove /\ token'[ChosenTarget] \in 0 .. MaxAttempts
  BY <1>0, <1>1, <1>3, StartMoves
<1>5. /\ run' \in Generator /\ run'.pc = "claimed" /\ run'.r = run.r /\ run'.base = run.base
      /\ run'.p = run.p /\ run'.choice = run.choice
  <2>1. "claimed" \in PC
    BY DEF PC, Driving, Working
  <2> QED
    BY <1>1, <1>2, <1>4, <2>1 DEF Generator
<1>6. /\ turn' = turn /\ calls' = calls /\ roster' = roster
      /\ UNCHANGED <<roundStatus, pauseRequested, roster, checkpoint, requestRound, streak, env>>
  BY <1>1 DEF roundTables, history
<1>7. Acting'
  BY <1>0, <1>1, <1>5, <1>6 DEF Acting
<1>8. Ledger'
  BY <1>0, <1>6, LedgerFrame DEF LedgerSame
<1>9. turn' \in [Rounds -> [Orders -> Turn]] /\ calls' \in [Rounds -> [Orders -> Nat]]
  BY <1>0, <1>6 DEF Typed
<1> QED
  BY <1>1, <1>4, <1>5, <1>6, <1>7, <1>8, <1>9, LoopKeeps DEF Working

\* Nobody is left to answer a moderated interjection.
LEMMA DrainEmptyKeeps ==
    ASSUME RoundInv, DrainEmpty
    PROVE  RoundInv'
<1>0. Typed /\ Ledger /\ ChatInv /\ Acting /\ Queued
  BY DEF RoundInv
<1> DEFINE q == Oldest(OpenInterjections(run.r))
<1>1. /\ run.pc = "drain" /\ run # Off /\ run.pc \in Working
      /\ CancelEmptyModerated(q) /\ Goto("drained")
      /\ UNCHANGED <<roundTables, history, env>>
  BY AtRuns DEF DrainEmpty, At, Working
<1>2. run \in Generator
  BY <1>0, <1>1, Fields
<1>3. q \in Requests
  <2>1. OpenInterjections(run.r) # {} /\ OpenInterjections(run.r) \in SUBSET Requests
    BY <1>0, <1>1 DEF Queued, OpenInterjections
  <2> QED
    BY <2>1, OldestIsOne DEF OpenInterjections
<1> HIDE DEF q
<1>4. ChatInv' /\ RequestsMove
  <2>1. ChatInv'
    BY <1>0, <1>1, <1>3, CancelKeepsInv
  <2>2. request \in [Requests -> RequestStatus]
    BY <1>0 DEF ChatInv, ChatTypeOK
  <2> QED
    BY <1>1, <1>3, <2>1, <2>2 DEF CancelEmptyModerated, RequestsMove
<1>5. /\ run' \in Generator /\ run'.pc = "drained" /\ run'.r = run.r /\ run'.base = run.base
      /\ run'.p = run.p /\ run'.choice = run.choice /\ run'.claim = run.claim
  <2>1. "drained" \in PC
    BY DEF PC, Driving, Working
  <2> QED
    BY <1>1, <1>2, <2>1, Moves
<1>6. /\ turn' = turn /\ calls' = calls /\ roster' = roster
      /\ UNCHANGED <<roundStatus, pauseRequested, roster, checkpoint, requestRound, streak, env>>
  BY <1>1 DEF roundTables, history
<1>7. Acting'
  BY <1>0, <1>1, <1>5, <1>6 DEF Acting
<1>8. Ledger'
  BY <1>0, <1>6, LedgerFrame DEF LedgerSame
<1>9. turn' \in [Rounds -> [Orders -> Turn]] /\ calls' \in [Rounds -> [Orders -> Nat]]
  BY <1>0, <1>6 DEF Typed
<1> QED
  BY <1>1, <1>4, <1>5, <1>6, <1>7, <1>8, <1>9, LoopKeeps DEF Working

\* The claim is given back.
LEMMA ReleaseKeeps ==
    ASSUME RoundInv, ReleaseClaim
    PROVE  RoundInv'
<1>0. Typed /\ Ledger /\ ChatInv /\ Acting
  BY DEF RoundInv
<1>1. /\ run.pc = "finally" /\ run # Off /\ run.claim # NoToken
      /\ Release(ChosenTarget, run.claim) \/ UNCHANGED chatVars
      /\ run' = [run EXCEPT !.claim = NoToken]
      /\ UNCHANGED <<roundTables, history, env>>
  BY AtRuns DEF ReleaseClaim, At
<1>2. run \in Generator
  BY <1>0, <1>1, Fields
<1>3. ChosenTarget \in Targets
  BY <1>0, <1>1 DEF Acting, ChosenTarget, Targets
<1>4. ChatInv' /\ RequestsMove
  <2>1. CASE Release(ChosenTarget, run.claim)
    <3>1. /\ {ChosenTarget} \in SUBSET Targets /\ Reopen({ChosenTarget})
          /\ \A t \in {ChosenTarget} : target[t] = "PROCESSING"
      BY <1>3, <2>1 DEF Release, Owned
    <3> QED
      BY <1>0, <3>1, RecoveryMoves
  <2>2. CASE UNCHANGED chatVars
    BY <1>0, <2>2, ChatFrame DEF chatVars, RequestsMove
  <2> QED
    BY <1>1, <2>1, <2>2
<1>5. /\ run' \in Generator /\ run'.pc = "finally" /\ run'.r = run.r /\ run'.base = run.base
      /\ run'.p = run.p /\ run'.choice = run.choice /\ run'.claim = NoToken
  <2>1. NoToken \in 0 .. MaxAttempts
    BY Constants DEF NoToken
  <2> QED
    BY <1>1, <1>2, <2>1 DEF Generator
<1>6. /\ turn' = turn /\ calls' = calls /\ roster' = roster
      /\ UNCHANGED <<roundStatus, pauseRequested, roster, checkpoint, requestRound, streak, env>>
  BY <1>1 DEF roundTables, history
<1>7. Acting'
  BY <1>0, <1>1, <1>5, <1>6 DEF Acting
<1>8. Ledger'
  BY <1>0, <1>6, LedgerFrame DEF LedgerSame
<1>9. turn' \in [Rounds -> [Orders -> Turn]] /\ calls' \in [Rounds -> [Orders -> Nat]]
  BY <1>0, <1>6 DEF Typed
<1> QED
  BY <1>1, <1>4, <1>5, <1>6, <1>7, <1>8, <1>9, LoopKeeps DEF Working

\* Where the next turn is written.
LEMMA NextTurn ==
    ASSUME RoundInv, run # Off, run.pc \in {"act", "reserved", "speaking"}, run.choice.kind = "speak"
    PROVE  /\ Order \in Orders /\ Order <= MaxTurns(run.r) /\ run.choice.member \in RosterSet(run.r)
           /\ run.choice.member \in Members
<1>1. Typed /\ Acting
  BY DEF RoundInv
<1>2. Order <= MaxTurns(run.r) /\ run.choice.member \in RosterSet(run.r)
  BY <1>1 DEF Acting
<1>3. run.r \in Rounds /\ Order \in Nat /\ Order >= 1
  BY <1>1, Fields
<1> QED
  BY <1>1, <1>2, <1>3, TurnsFit, RosterIsMembers

\* The fence before the call.
LEMMA BeginKeeps ==
    ASSUME RoundInv, BeginTurn
    PROVE  RoundInv'
<1>0. Typed /\ Ledger /\ ChatInv /\ Acting
  BY DEF RoundInv
<1> DEFINE o1 == Order
           m == run.choice.member
           T == [status |-> "STARTED", member |-> m]
<1>1. /\ run.pc = "act" /\ run # Off /\ run.pc \in Working /\ run.choice.kind = "speak"
      /\ turn[run.r][o1].status = "NONE"
      /\ turn' = [turn EXCEPT ![run.r][o1] = T] /\ Goto("reserved")
      /\ UNCHANGED <<chatVars, roundStatus, pauseRequested, roster, checkpoint, requestRound,
                     history, env>>
  BY AtRuns DEF BeginTurn, Chosen, At, Working
<1>2. run \in Generator /\ run.r \in Rounds
  BY <1>0, <1>1, Fields
<1>3. o1 \in Orders /\ o1 <= MaxTurns(run.r) /\ m \in RosterSet(run.r) /\ m \in Members
  BY <1>1, NextTurn
<1>4. T \in Turn /\ T.status = "STARTED" /\ T.member = m
  BY <1>3 DEF Turn
<1>5. /\ run' \in Generator /\ run'.pc = "reserved" /\ run'.r = run.r /\ run'.base = run.base
      /\ run'.p = run.p /\ run'.choice = run.choice /\ run'.claim = run.claim
  <2>1. "reserved" \in PC
    BY DEF PC, Driving, Working
  <2> QED
    BY <1>1, <1>2, <2>1, Moves
<1>6. /\ calls' = calls /\ roster' = roster /\ checkpoint' = checkpoint /\ streak' = streak
      /\ request' = request /\ UNCHANGED chatVars
      /\ UNCHANGED <<roundStatus, pauseRequested, roster, checkpoint, requestRound, streak, env>>
  BY <1>1 DEF history, chatVars
<1>7. ChatInv' /\ RequestsMove
  BY <1>0, <1>6, ChatFrame DEF RequestsMove
<1>8. Order' = o1
  BY <1>5 DEF Order
<1> HIDE DEF o1, m, T
<1>9. /\ turn' \in [Rounds -> [Orders -> Turn]] /\ turn \in [Rounds -> [Orders -> Turn]]
      /\ \A x \in Rounds : x # run.r => turn'[x] = turn[x]
      /\ turn'[run.r][o1] = T
      /\ \A o \in Orders : o # o1 => turn'[run.r][o] = turn[run.r][o]
  BY <1>0, <1>1, <1>2, <1>3, <1>4 DEF Typed
<1>10. calls' \in [Rounds -> [Orders -> Nat]]
  BY <1>0, <1>6 DEF Typed
<1>11. Acting'
  <2>1. calls[run.r][o1] = 0
    BY <1>0, <1>1, <1>2, <1>3 DEF Ledger
  <2>2. run'.claim = NoToken
    BY <1>0, <1>1, <1>5 DEF Acting
  <2> QED
    BY <1>1, <1>3, <1>4, <1>5, <1>6, <1>8, <1>9, <2>1, <2>2 DEF Acting, MaxTurns, RosterSet, m, T
<1>12. Ledger'
  <2>1. ASSUME NEW x \in Rounds
        PROVE  /\ HasCheckpoint(x)' = HasCheckpoint(x) /\ RosterSet(x)' = RosterSet(x)
               /\ MaxTurns(x)' = MaxTurns(x)
               /\ TurnsIn(x, "RESPONDED")' = TurnsIn(x, "RESPONDED")
               /\ TurnsIn(x, "FAILED")' = TurnsIn(x, "FAILED")
    <3>1. \A o \in Orders, s \in {"RESPONDED", "FAILED"} :
             turn'[x][o].status = s <=> turn[x][o].status = s
      BY <1>1, <1>4, <1>9 DEF o1
    <3> QED
      BY <1>6, <3>1 DEF HasCheckpoint, RosterSet, MaxTurns, TurnsIn
  <2>2. HasCheckpoint(run.r) /\ checkpoint[run.r][1].next = o1
    BY <1>1, MemoryCounts DEF o1
  <2>3. ASSUME NEW x \in Rounds, x = run.r PROVE Counted(x)'
    <3>1. Counted(x)
      BY <1>0, <2>2, <2>3 DEF Ledger
    <3> QED
      BY <1>3, <1>4, <1>6, <1>9, <2>1, <2>2, <2>3, <3>1 DEF Counted, CountedBy
  <2>4. ASSUME NEW x \in Rounds, x # run.r
        PROVE  (Counted(x) => Counted(x)') /\ (Untouched(x) => Untouched(x)')
    BY <1>6, <1>9, <2>1, <2>4 DEF Counted, CountedBy, Untouched
  <2>5. \A x \in Rounds, o \in Orders :
           turn'[x][o].status \in {"NONE", "RESPONDED"} => turn'[x][o] = turn[x][o]
    BY <1>4, <1>9
  <2>6. ASSUME NEW x \in Rounds
        PROVE  /\ roundStatus'[x] = "NONE" => ~ HasCheckpoint(x)'
               /\ IF HasCheckpoint(x)' THEN Counted(x)' ELSE Untouched(x)'
    <3>1. CASE x = run.r
      BY <1>0, <1>6, <2>1, <2>2, <2>3, <3>1 DEF Ledger
    <3>2. CASE x # run.r
      BY <1>0, <1>6, <2>1, <2>4, <3>2 DEF Ledger
    <3> QED
      BY <3>1, <3>2
  <2>7. ASSUME NEW x \in Rounds, NEW o \in Orders
        PROVE  /\ calls'[x][o] <= 1
               /\ turn'[x][o].status = "NONE" => calls'[x][o] = 0
               /\ turn'[x][o].status = "RESPONDED" => calls'[x][o] = 1
    BY <1>0, <1>6, <2>5 DEF Ledger
  <2> QED
    BY <2>6, <2>7 DEF Ledger
<1> QED
  BY <1>1, <1>5, <1>6, <1>7, <1>9, <1>10, <1>11, <1>12, LoopKeeps DEF Working

\* The call itself.
LEMMA CallKeeps ==
    ASSUME RoundInv, CallSpeaker
    PROVE  RoundInv'
<1>0. Typed /\ Ledger /\ ChatInv /\ Acting
  BY DEF RoundInv
<1> DEFINE o1 == Order
<1>1. /\ run.pc = "reserved" /\ run # Off /\ run.pc \in Working
      /\ calls' = [calls EXCEPT ![run.r][o1] = calls[run.r][o1] + 1] /\ Goto("speaking")
      /\ UNCHANGED <<chatVars, roundTables, streak, env>>
  BY AtRuns DEF CallSpeaker, At, Working
<1>2. run \in Generator /\ run.r \in Rounds
  BY <1>0, <1>1, Fields
<1>3. /\ run.choice.kind = "speak" /\ run.claim = NoToken
      /\ turn[run.r][o1] = [status |-> "STARTED", member |-> run.choice.member]
      /\ calls[run.r][o1] = 0
  BY <1>0, <1>1 DEF Acting
<1>4. o1 \in Orders /\ o1 <= MaxTurns(run.r) /\ run.choice.member \in RosterSet(run.r)
  BY <1>1, <1>3, NextTurn
<1>5. /\ run' \in Generator /\ run'.pc = "speaking" /\ run'.r = run.r /\ run'.base = run.base
      /\ run'.p = run.p /\ run'.choice = run.choice /\ run'.claim = run.claim
  <2>1. "speaking" \in PC
    BY DEF PC, Driving, Working
  <2> QED
    BY <1>1, <1>2, <2>1, Moves
<1>6. /\ turn' = turn /\ roster' = roster /\ checkpoint' = checkpoint /\ streak' = streak
      /\ request' = request /\ UNCHANGED chatVars
      /\ UNCHANGED <<roundStatus, pauseRequested, roster, checkpoint, requestRound, streak, env>>
  BY <1>1 DEF roundTables, chatVars
<1>7. ChatInv' /\ RequestsMove
  BY <1>0, <1>6, ChatFrame DEF RequestsMove
<1>8. Order' = o1
  BY <1>5 DEF Order
<1> HIDE DEF o1
<1>9. /\ calls' \in [Rounds -> [Orders -> Nat]]
      /\ \A x \in Rounds : x # run.r => calls'[x] = calls[x]
      /\ calls'[run.r][o1] = 1
      /\ \A o \in Orders : o # o1 => calls'[run.r][o] = calls[run.r][o]
  BY <1>0, <1>1, <1>2, <1>3, <1>4 DEF Typed
<1>10. turn' \in [Rounds -> [Orders -> Turn]]
  BY <1>0, <1>6 DEF Typed
<1>11. Acting'
  BY <1>3, <1>4, <1>5, <1>6, <1>8, <1>9 DEF Acting, MaxTurns, RosterSet
<1>12. Ledger'
  <2>1. ASSUME NEW x \in Rounds
        PROVE  /\ HasCheckpoint(x)' = HasCheckpoint(x) /\ RosterSet(x)' = RosterSet(x)
               /\ MaxTurns(x)' = MaxTurns(x)
               /\ TurnsIn(x, "RESPONDED")' = TurnsIn(x, "RESPONDED")
               /\ TurnsIn(x, "FAILED")' = TurnsIn(x, "FAILED")
    BY <1>6 DEF HasCheckpoint, RosterSet, MaxTurns, TurnsIn
  <2>2. HasCheckpoint(run.r)
    BY <1>1, MemoryCounts
  <2>3. \A x \in Rounds : Counted(x) => Counted(x)'
    BY <1>6, <2>1 DEF Counted, CountedBy
  <2>4. ASSUME NEW x \in Rounds, x # run.r PROVE Untouched(x) => Untouched(x)'
    BY <1>6, <1>9, <2>4 DEF Untouched
  <2>5. ASSUME NEW x \in Rounds
        PROVE  /\ roundStatus'[x] = "NONE" => ~ HasCheckpoint(x)'
               /\ IF HasCheckpoint(x)' THEN Counted(x)' ELSE Untouched(x)'
    BY <1>0, <1>6, <2>1, <2>2, <2>3, <2>4 DEF Ledger
  <2>6. ASSUME NEW x \in Rounds, NEW o \in Orders
        PROVE  /\ calls'[x][o] <= 1
               /\ turn'[x][o].status = "NONE" => calls'[x][o] = 0
               /\ turn'[x][o].status = "RESPONDED" => calls'[x][o] = 1
    <3>1. CASE x = run.r /\ o = o1
      BY <1>3, <1>6, <1>9, <3>1
    <3>2. CASE ~ (x = run.r /\ o = o1)
      BY <1>0, <1>6, <1>9, <3>2 DEF Ledger
    <3> QED
      BY <3>1, <3>2
  <2> QED
    BY <2>5, <2>6 DEF Ledger
<1> QED
  BY <1>1, <1>5, <1>6, <1>7, <1>9, <1>10, <1>11, <1>12, LoopKeeps DEF Working

-----------------------------------------------------------------------------
(* The final status.                                                        *)

\* The members with a formal answer are finitely many.
LEMMA AnswerersFinite ==
    ASSUME NEW r \in Rounds
    PROVE  IsFiniteSet({turn[r][o].member : o \in TurnsIn(r, "RESPONDED")})
<1> DEFINE S == TurnsIn(r, "RESPONDED")
           M == {turn[r][o].member : o \in S}
           f == [o \in S |-> turn[r][o].member]
<1>1. f \in Surjection(S, M)
  BY DEF Surjection
<1>2. IsFiniteSet(S)
  BY TurnsFinite
<1> SUFFICES IsFiniteSet(M)
  OBVIOUS
<1> HIDE DEF S, M, f
<1> QED
  BY <1>1, <1>2, FS_Surjection

\* A round whose gates are met and where nothing failed or was skipped is clean.
LEMMA CleanEnd ==
    ASSUME RoundInv, run # Off, run.pc = "settle", FALSE \in WorkMayRemain,
           ~ (run.p.failures > 0), ~ (run.p.skipped > 0)
    PROVE  /\ TurnsIn(run.r, "FAILED") = {} /\ TurnsIn(run.r, "STARTED") = {}
           /\ HasCheckpoint(run.r)
           /\ \A o \in 1 .. (checkpoint[run.r][1].next - 1) : turn[run.r][o].status = "RESPONDED"
           /\ Cardinality({turn[run.r][o].member : o \in TurnsIn(run.r, "RESPONDED")}) >= Required
<1> DEFINE formal == {turn[run.r][o].member : o \in TurnsIn(run.r, "RESPONDED")}
           A == run.p.ok \cap formal \cap enabled
<1>1. Typed /\ Acting /\ run.r \in Rounds /\ run.p \in Progress
  BY Fields DEF RoundInv
<1>2. Cardinality(TurnsIn(run.r, "FAILED")) = run.p.failures
  BY MemoryCounts DEF CountedBy, Working
<1>3. TurnsIn(run.r, "FAILED") = {}
  <2>1. run.p.failures = 0
    BY <1>1 DEF Progress
  <2> QED
    BY <1>2, <2>1, TurnsFinite, FS_EmptySet
<1>4. TurnsIn(run.r, "STARTED") = {}
  BY <1>1 DEF Acting, TurnsIn
<1>5. IsFiniteSet(formal)
  BY <1>1, AnswerersFinite
<1>6. ~ (Cardinality(A) < Required)
  <2>1. WorkMayRemain = IF Cardinality(A) < Required THEN {TRUE} ELSE BOOLEAN
    BY DEF WorkMayRemain
  <2> HIDE DEF A
  <2>2. CASE Cardinality(A) < Required
    BY <2>1, <2>2
  <2> QED
    BY <2>2
<1>7. A \in SUBSET formal
  OBVIOUS
<1> HIDE DEF formal, A
<1>8. /\ Cardinality(A) \in Nat /\ Cardinality(formal) \in Nat
      /\ Cardinality(A) <= Cardinality(formal)
  BY <1>5, <1>7, FS_Subset, FS_CardinalityType
<1>9. Cardinality(formal) >= Required
  BY <1>6, <1>8, Constants
<1>10. HasCheckpoint(run.r) /\ checkpoint[run.r][1].next = Order /\ CountedBy(run.r, Order, run.p)
  BY MemoryCounts DEF Working
<1>11. \A o \in 1 .. (Order - 1) : turn[run.r][o].status = "RESPONDED"
  <2> DEFINE S == TurnsIn(run.r, "RESPONDED")
             k == run.p.completed
  <2>1. k \in Nat /\ Order = 1 + k
    BY <1>1, Fields DEF Progress, Done
  <2>2. Cardinality(S) = k /\ S \subseteq 1 .. k
    BY <1>10, <2>1, OrdersNat DEF CountedBy, TurnsIn
  <2>3. IsFiniteSet(1 .. k) /\ Cardinality(1 .. k) = k
    <3>1. 1 \in Int /\ k \in Int /\ (1 > k => k = 0)
      BY <2>1
    <3>2. IsFiniteSet(1 .. k) /\ Cardinality(1 .. k) = IF 1 > k THEN 0 ELSE k - 1 + 1
      BY <3>1, FS_Interval
    <3> HIDE DEF k
    <3> QED
      BY <3>1, <3>2
  <2> HIDE DEF S, k
  <2>4. S = 1 .. k
    BY <2>2, <2>3, FS_Subset
  <2>5. 1 .. (Order - 1) = 1 .. k
    BY <2>1
  <2> QED
    BY <2>4, <2>5 DEF S, TurnsIn
<1> QED
  BY <1>3, <1>4, <1>9, <1>10, <1>11 DEF formal

\* The transaction that decides between a pause, the queue and the end.
LEMMA SettleKeeps ==
    ASSUME RoundInv, Settle
    PROVE  RoundInv'
<1>0. Typed /\ Ledger /\ ChatInv /\ Remembers /\ Acting /\ Statuses /\ Exclusive /\ Queued
      /\ CompletedIsClean
  BY DEF RoundInv
<1> DEFINE closes == ~ pauseRequested[run.r] /\ OpenInterjections(run.r) = {}
<1>1. PICK work \in WorkMayRemain :
        /\ IF pauseRequested[run.r] THEN SetStatus(run.r, "PAUSED")
           ELSE IF closes THEN SetStatus(run.r, IF run.p.failures > 0 \/ run.p.skipped > 0 \/ work
                                               THEN "PARTIAL" ELSE "COMPLETED")
           ELSE UNCHANGED <<roundStatus, pauseRequested>>
        /\ run' = [run EXCEPT !.pc = "read", !.closed = closes]
  BY DEF Settle
<1>2. /\ run.pc = "settle" /\ run # Off
      /\ UNCHANGED <<chatVars, roster, checkpoint, turn, requestRound, history, env>>
  BY AtRuns DEF Settle, At
<1>3. run \in Generator /\ run.r \in Rounds /\ up
  BY <1>0, <1>2, Fields
<1>4. work \in BOOLEAN /\ closes \in BOOLEAN /\ pauseRequested[run.r] \in BOOLEAN
  BY <1>0, <1>3 DEF WorkMayRemain, Typed
<1>5. /\ run' \in Generator /\ run'.pc = "read" /\ run'.r = run.r /\ run'.base = run.base
      /\ run'.p = run.p /\ run'.choice = run.choice /\ run'.claim = run.claim
      /\ run'.closed = closes
  <2>1. "read" \in PC
    BY DEF PC, Closing
  <2> HIDE DEF closes
  <2> QED
    BY <1>1, <1>3, <1>4, <2>1 DEF Generator
<1>6. run' # Off /\ Order' = Order
  BY <1>5, NotOff DEF Order
<1>7. /\ roster' = roster /\ checkpoint' = checkpoint /\ turn' = turn
      /\ requestRound' = requestRound /\ request' = request
      /\ calls' = calls /\ streak' = streak /\ enabled' = enabled /\ up' = up
      /\ disruptions' = disruptions
  BY <1>2 DEF history, chatVars, env
<1>8. /\ roundStatus[run.r] = "RUNNING" /\ HasCheckpoint(run.r)
  BY <1>2, MemoryCounts DEF Working
<1> DEFINE s == roundStatus'[run.r]
<1>9. /\ \A r \in Rounds : r # run.r => roundStatus'[r] = roundStatus[r]
      /\ roundStatus' \in [Rounds -> RoundStatus] /\ pauseRequested' \in [Rounds -> BOOLEAN]
      /\ closes => s \in FinishedRound
      /\ ~ closes => s \in {"PAUSED", "RUNNING"}
      /\ s = "COMPLETED" => /\ ~ (run.p.failures > 0) /\ ~ (run.p.skipped > 0)
                            /\ FALSE \in WorkMayRemain
  <2>1. CASE pauseRequested[run.r]
    <3>1. SetStatus(run.r, "PAUSED")
      BY <1>1, <2>1
    <3>2. s = "PAUSED" /\ \A r \in Rounds : r # run.r => roundStatus'[r] = roundStatus[r]
      BY <1>0, <1>3, <3>1 DEF SetStatus, Typed
    <3> QED
      BY <1>0, <1>3, <2>1, <3>1, <3>2 DEF SetStatus, Typed, RoundStatus, OpenRound
  <2>2. CASE closes
    <3> DEFINE f == IF run.p.failures > 0 \/ run.p.skipped > 0 \/ work
                    THEN "PARTIAL" ELSE "COMPLETED"
    <3>1. SetStatus(run.r, f)
      BY <1>1, <2>2
    <3>2. f \in FinishedRound /\ f \in RoundStatus
      BY DEF FinishedRound, RoundStatus
    <3>3. f = "COMPLETED" => ~ (run.p.failures > 0) /\ ~ (run.p.skipped > 0) /\ work = FALSE
      BY <1>4
    <3> HIDE DEF f
    <3>4. s = f /\ \A r \in Rounds : r # run.r => roundStatus'[r] = roundStatus[r]
      BY <1>0, <1>3, <3>1 DEF SetStatus, Typed
    <3> QED
      BY <1>0, <1>1, <1>3, <2>2, <3>1, <3>2, <3>3, <3>4 DEF SetStatus, Typed
  <2>3. CASE ~ pauseRequested[run.r] /\ ~ closes
    <3>1. roundStatus' = roundStatus /\ pauseRequested' = pauseRequested
      BY <1>1, <2>3
    <3> QED
      BY <1>0, <1>8, <2>3, <3>1 DEF Typed
  <2> QED
    BY <2>1, <2>2, <2>3
<1> HIDE DEF s
<1>10. ChatInv'
  BY <1>0, <1>2, ChatFrame
<1>11. Typed'
  BY <1>0, <1>3, <1>5, <1>7, <1>9 DEF Typed, HasCheckpoint
<1>12. Ledger'
  BY <1>0, <1>7, <1>8, <1>9, LedgerFrame DEF LedgerSame, s, FinishedRound
<1>13. Remembers'
  BY <1>0, <1>2, <1>5, <1>6, <1>7 DEF Remembers, Working, HasCheckpoint
<1>14. Acting'
  BY <1>0, <1>2, <1>5, <1>6, <1>7 DEF Acting, MaxTurns, RosterSet
<1>15. Statuses'
  BY <1>0, <1>5, <1>6, <1>7, <1>8, <1>9 DEF Statuses, Driving, Working, HasCheckpoint, s, FinishedRound
<1>16. Exclusive'
  BY <1>0, <1>2, <1>3, <1>5, <1>6, <1>7, <1>9 DEF Exclusive
<1>17. Queued'
  BY <1>0, <1>5, <1>7, <1>9 DEF Queued, FinishedRoundsAnswered, OpenInterjections, s, FinishedRound
<1>18. CompletedIsClean'
  <2>1. ASSUME NEW r \in Rounds, roundStatus'[r] = "COMPLETED"
        PROVE  /\ TurnsIn(r, "FAILED") = {} /\ TurnsIn(r, "STARTED") = {}
               /\ HasCheckpoint(r)
               /\ \A o \in 1 .. (checkpoint[r][1].next - 1) : turn[r][o].status = "RESPONDED"
               /\ Cardinality({turn[r][o].member : o \in TurnsIn(r, "RESPONDED")}) >= Required
    <3>1. CASE r = run.r
      BY <1>2, <1>9, <2>1, <3>1, CleanEnd DEF s
    <3>2. CASE r # run.r
      BY <1>0, <1>9, <2>1, <3>2 DEF CompletedIsClean
    <3> QED
      BY <3>1, <3>2
  <2> QED
    BY <1>7, <2>1 DEF CompletedIsClean, TurnsIn, HasCheckpoint
<1> QED
  BY <1>10, <1>11, <1>12, <1>13, <1>14, <1>15, <1>16, <1>17, <1>18 DEF RoundInv

-----------------------------------------------------------------------------
(* A round is created or resumed.                                           *)

\* What the two have in common: the generator starts on a round that becomes
\* RUNNING, and only a round without a checkpoint gets a roster.
LEMMA OpensKeep ==
    ASSUME RoundInv, run = Off, up, NEW r \in Rounds,
           run' \in Generator, run'.pc \in {"created", "resumed"}, run'.r = r,
           run'.choice = NoChoice, run'.claim = NoToken, Remembers', SetStatus(r, "RUNNING"),
           roster' \in [Rounds -> Seq(Members)],
           \A x \in Rounds : Len(roster'[x]) <= Len(MemberOrder),
           \A x \in Rounds : HasCheckpoint(x) => roster'[x] = roster[x],
           Exclusive',
           UNCHANGED <<chatVars, checkpoint, turn, requestRound, history, env>>
    PROVE  RoundInv'
<1>0. Typed /\ Ledger /\ ChatInv /\ Statuses /\ Queued /\ CompletedIsClean
  BY DEF RoundInv
<1>1. run' # Off
  BY NotOff
<1>2. /\ checkpoint' = checkpoint /\ turn' = turn /\ requestRound' = requestRound
      /\ request' = request /\ calls' = calls /\ streak' = streak /\ enabled' = enabled
      /\ up' = up /\ disruptions' = disruptions
  BY DEF history, chatVars, env
<1>3. /\ \A x \in Rounds : roundStatus'[x] = IF x = r THEN "RUNNING" ELSE roundStatus[x]
      /\ roundStatus' \in [Rounds -> RoundStatus] /\ pauseRequested' \in [Rounds -> BOOLEAN]
  BY <1>0 DEF SetStatus, Typed, RoundStatus, OpenRound
<1>4. ChatInv'
  BY <1>0, ChatFrame
<1>5. Typed'
  BY <1>0, <1>2, <1>3 DEF Typed, HasCheckpoint
<1>6. Ledger'
  <2>1. ASSUME NEW x \in Rounds, HasCheckpoint(x)
        PROVE  HasCheckpoint(x)' /\ Counted(x)'
    <3>1. /\ HasCheckpoint(x)' = HasCheckpoint(x) /\ RosterSet(x)' = RosterSet(x)
          /\ MaxTurns(x)' = MaxTurns(x)
          /\ TurnsIn(x, "RESPONDED")' = TurnsIn(x, "RESPONDED")
          /\ TurnsIn(x, "FAILED")' = TurnsIn(x, "FAILED")
      BY <1>2, <2>1 DEF HasCheckpoint, RosterSet, MaxTurns, TurnsIn
    <3>2. Counted(x)
      BY <1>0, <2>1 DEF Ledger
    <3> QED
      BY <1>2, <2>1, <3>1, <3>2 DEF Counted, CountedBy
  <2>2. ASSUME NEW x \in Rounds, ~ HasCheckpoint(x)
        PROVE  ~ HasCheckpoint(x)' /\ Untouched(x)'
    BY <1>0, <1>2, <2>2 DEF Ledger, Untouched, HasCheckpoint
  <2>3. ASSUME NEW x \in Rounds
        PROVE  /\ roundStatus'[x] = "NONE" => ~ HasCheckpoint(x)'
               /\ IF HasCheckpoint(x)' THEN Counted(x)' ELSE Untouched(x)'
    <3>1. roundStatus'[x] = "NONE" => roundStatus[x] = "NONE"
      BY <1>3
    <3>2. roundStatus[x] = "NONE" => ~ HasCheckpoint(x)
      BY <1>0 DEF Ledger
    <3> QED
      BY <2>1, <2>2, <3>1, <3>2
  <2>4. ASSUME NEW x \in Rounds, NEW o \in Orders
        PROVE  /\ calls'[x][o] <= 1
               /\ turn'[x][o].status = "NONE" => calls'[x][o] = 0
               /\ turn'[x][o].status = "RESPONDED" => calls'[x][o] = 1
    BY <1>0, <1>2 DEF Ledger
  <2> QED
    BY <2>3, <2>4 DEF Ledger
<1>7. Acting'
  BY DEF Acting, NoChoice
<1>8. Statuses'
  BY <1>0, <1>2, <1>3 DEF Statuses, HasCheckpoint
<1>9. Queued'
  BY <1>0, <1>2, <1>3 DEF Queued, FinishedRoundsAnswered, OpenInterjections, FinishedRound
<1>10. CompletedIsClean'
  BY <1>0, <1>2, <1>3, CleanFrame
<1> QED
  BY <1>4, <1>5, <1>6, <1>7, <1>8, <1>9, <1>10 DEF RoundInv

\* A generator that is nowhere is none.
LEMMA IsOff ==
    ASSUME Typed, At("off")
    PROVE  run = Off
BY NotOff DEF Typed, At

\* create_formal_round.
LEMMA CreateKeeps ==
    ASSUME RoundInv, NEW r \in Rounds, NEW M \in SUBSET Members, CreateRound(r, M)
    PROVE  RoundInv'
<1>0. Typed /\ Ledger /\ Exclusive
  BY DEF RoundInv
<1>1. /\ run = Off /\ up /\ roundStatus[r] = "NONE"
      /\ \A x \in Rounds : roundStatus[x] # "PAUSED"
      /\ SetStatus(r, "RUNNING") /\ Begin(r, "created", 1, Fresh)
      /\ UNCHANGED <<chatVars, checkpoint, turn, requestRound, history, env>>
  BY <1>0, IsOff DEF CreateRound
<1>2. PICK s \in RostersOf(M) : roster' = [roster EXCEPT ![r] = s]
  BY DEF CreateRound
<1>3. s \in Seq(Members) /\ Len(s) <= Len(MemberOrder)
  <2>1. PICK n \in DOMAIN MemberOrder : s \in [1 .. n -> M]
    BY DEF RostersOf
  <2>2. n \in 1 .. Len(MemberOrder) /\ Len(MemberOrder) \in Nat
    BY <2>1, RoundAssumption
  <2> QED
    BY <2>1, <2>2
<1>4. ~ HasCheckpoint(r)
  BY <1>0, <1>1 DEF Ledger
<1>5. /\ roster' \in [Rounds -> Seq(Members)]
      /\ \A x \in Rounds : Len(roster'[x]) <= Len(MemberOrder)
      /\ \A x \in Rounds : HasCheckpoint(x) => roster'[x] = roster[x]
  BY <1>0, <1>2, <1>3, <1>4 DEF Typed
<1>6. Fresh \in Progress /\ Done(Fresh) = 0
  BY DEF Fresh, Progress, Done
<1>7. /\ run' \in Generator /\ run'.pc = "created" /\ run'.r = r /\ run'.p = Fresh
      /\ run'.choice = NoChoice /\ run'.claim = NoToken
  <2>1. "created" \in PC /\ NoChoice \in Choice /\ NoToken \in 0 .. MaxAttempts
    BY Constants DEF PC, Driving, NoChoice, Choice, Kind, NoToken
  <2> QED
    BY <1>1, <1>6, <2>1 DEF Begin, Generator
<1>8. Remembers'
  BY <1>1, <1>4, <1>7 DEF Remembers, Working, HasCheckpoint
<1>9. Exclusive'
  <2>1. \A x \in Rounds : roundStatus'[x] = IF x = r THEN "RUNNING" ELSE roundStatus[x]
    BY <1>0, <1>1 DEF SetStatus, Typed
  <2>2. ~ StoreFaults => \A x \in Rounds : roundStatus[x] \notin OpenRound
    BY <1>0, <1>1 DEF Exclusive, OpenRound
  <2>3. run' # Off
    BY <1>7, NotOff
  <2> QED
    BY <1>7, <2>1, <2>2, <2>3 DEF Exclusive
<1> QED
  BY <1>1, <1>5, <1>7, <1>8, <1>9, OpensKeep

\* The members whose messages carry the round are members.
LEMMA SpeakersAreMembers ==
    ASSUME Typed, NEW r \in Rounds, Counted(r)
    PROVE  RoundSpeakers(r) \subseteq Members
BY RosterIsMembers DEF Counted, CountedBy, RoundSpeakers, TurnsIn

\* resume_round.
LEMMA ResumeKeeps ==
    ASSUME RoundInv, NEW r \in Rounds, ResumeRound(r)
    PROVE  RoundInv'
<1>0. Typed /\ Ledger /\ Exclusive
  BY DEF RoundInv
<1> DEFINE c == checkpoint[r][1]
           ok == IF c.p.ok = {} THEN RoundSpeakers(r) ELSE c.p.ok
           p == [c.p EXCEPT !.ok = ok]
<1>1. /\ run = Off /\ up /\ roundStatus[r] = "PAUSED" /\ HasCheckpoint(r)
      /\ SetStatus(r, "RUNNING") /\ Begin(r, "resumed", c.next, p)
      /\ UNCHANGED <<chatVars, roster, checkpoint, turn, requestRound, history, env>>
  BY <1>0, IsOff DEF ResumeRound
<1>2. c \in Checkpoint /\ Counted(r)
  BY <1>0, <1>1 DEF Typed, Ledger
<1>3. c.p \in Progress /\ c.next \in Nat /\ c.next = 1 + Done(c.p)
  BY <1>2 DEF Counted, CountedBy, Checkpoint
<1>4. ok \in SUBSET Members /\ c.p.ok \subseteq ok
  BY <1>0, <1>2, <1>3, SpeakersAreMembers DEF Progress
<1> HIDE DEF ok
<1>5. p \in Progress /\ Done(p) = Done(c.p) /\ Done(p) \in Nat /\ p.ok = ok
  BY <1>3, <1>4 DEF Progress, Done
<1>6. c.next - Done(p) = 1 /\ p = [c.p EXCEPT !.ok = p.ok]
  BY <1>3, <1>5
<1> HIDE DEF p
<1>7. /\ run' \in Generator /\ run'.pc = "resumed" /\ run'.r = r /\ run'.p = p
      /\ run'.choice = NoChoice /\ run'.claim = NoToken
  <2>1. "resumed" \in PC /\ NoChoice \in Choice /\ NoToken \in 0 .. MaxAttempts
    BY Constants DEF PC, Driving, NoChoice, Choice, Kind, NoToken
  <2> QED
    BY <1>1, <1>5, <1>6, <2>1 DEF Begin, Generator
<1>8. Remembers'
  <2>1. checkpoint' = checkpoint
    BY <1>1
  <2> QED
    BY <1>1, <1>4, <1>5, <1>6, <1>7, <2>1 DEF Remembers, Working, HasCheckpoint
<1>9. Exclusive'
  <2>1. \A x \in Rounds : roundStatus'[x] = IF x = r THEN "RUNNING" ELSE roundStatus[x]
    BY <1>0, <1>1 DEF SetStatus, Typed
  <2>2. ~ StoreFaults => \A x \in Rounds : x # r => roundStatus[x] \notin OpenRound
    BY <1>0, <1>1 DEF Exclusive, OpenRound
  <2>3. run' # Off
    BY <1>7, NotOff
  <2> QED
    BY <1>7, <2>1, <2>2, <2>3 DEF Exclusive
<1>10. roster' = roster
  BY <1>1
<1> QED
  BY <1>0, <1>1, <1>7, <1>8, <1>9, <1>10, OpensKeep DEF Typed

-----------------------------------------------------------------------------
(* The end of a run, and the other handlers.                                *)

\* The room lock is released.
LEMMA UnlockKeeps ==
    ASSUME RoundInv, Unlock
    PROVE  RoundInv'
<1>0. Typed /\ Ledger /\ ChatInv /\ Statuses /\ Exclusive /\ Queued /\ CompletedIsClean
  BY DEF RoundInv
<1>1. /\ run.pc = "unlock" /\ run # Off /\ run' = Off
      /\ UNCHANGED <<chatVars, roundTables, history, env>>
  BY AtRuns DEF Unlock, At
<1>2. /\ roundStatus' = roundStatus /\ pauseRequested' = pauseRequested /\ roster' = roster
      /\ checkpoint' = checkpoint /\ turn' = turn /\ requestRound' = requestRound
      /\ request' = request /\ calls' = calls /\ streak' = streak /\ enabled' = enabled
      /\ up' = up /\ disruptions' = disruptions
  BY <1>1 DEF roundTables, history, chatVars, env
<1>3. ChatInv'
  BY <1>0, <1>1, ChatFrame
<1>4. Typed'
  BY <1>0, <1>1, <1>2 DEF Typed, HasCheckpoint
<1>5. Ledger' /\ CompletedIsClean'
  BY <1>0, <1>2, LedgerFrame, CleanFrame DEF LedgerSame
<1>6. Remembers' /\ Acting'
  BY <1>1 DEF Remembers, Acting
<1>7. Statuses'
  BY <1>0, <1>1, <1>2 DEF Statuses, HasCheckpoint
<1>8. Exclusive'
  BY <1>0, <1>1, <1>2 DEF Exclusive, OpenRound
<1>9. Queued'
  BY <1>0, <1>1, <1>2, QueuedFrame
<1> QED
  BY <1>3, <1>4, <1>5, <1>6, <1>7, <1>8, <1>9 DEF RoundInv

\* What steps of the other handlers leave alone: the generator, the turns and
\* the checkpoints.
LEMMA OthersKeep ==
    ASSUME RoundInv, ChatInv', run' = run,
           UNCHANGED <<roundStatus, roster, checkpoint, turn, history, up>>,
           pauseRequested' \in [Rounds -> BOOLEAN], enabled' \in SUBSET Members,
           disruptions' \in Nat, requestRound' \in [Requests -> Rounds \cup {NoRound}],
           Queued'
    PROVE  RoundInv'
<1>0. Typed /\ Ledger /\ Remembers /\ Acting /\ Statuses /\ Exclusive /\ CompletedIsClean
  BY DEF RoundInv
<1>1. /\ roundStatus' = roundStatus /\ roster' = roster /\ checkpoint' = checkpoint
      /\ turn' = turn /\ calls' = calls /\ streak' = streak /\ up' = up
  BY DEF history
<1>2. Order' = Order
  BY DEF Order
<1>3. Typed'
  BY <1>0, <1>1 DEF Typed, HasCheckpoint
<1>4. Ledger' /\ CompletedIsClean'
  BY <1>0, <1>1, LedgerFrame, CleanFrame DEF LedgerSame
<1>5. Remembers'
  BY <1>0, <1>1, <1>2 DEF Remembers, HasCheckpoint
<1>6. Acting'
  BY <1>0, <1>1, <1>2 DEF Acting, MaxTurns, RosterSet
<1>7. Statuses' /\ Exclusive'
  BY <1>0, <1>1 DEF Statuses, Exclusive, HasCheckpoint
<1> QED
  BY <1>3, <1>4, <1>5, <1>6, <1>7 DEF RoundInv

\* A message is routed into the running round.
LEMMA PostKeeps ==
    ASSUME RoundInv, NEW q \in Requests, NEW r \in Rounds, NEW md \in {"explicit", "moderated"},
           NEW M \in SUBSET Members, PostInterjection(q, r, md, M)
    PROVE  RoundInv'
<1>0. Typed /\ ChatInv /\ Queued
  BY DEF RoundInv
<1>1. /\ roundStatus[r] = "RUNNING" /\ CreateRequest(q, md, M)
      /\ requestRound' = [requestRound EXCEPT ![q] = r]
      /\ UNCHANGED <<roundStatus, pauseRequested, roster, checkpoint, turn, run, history, env>>
  BY DEF PostInterjection
<1>2. ChatInv'
  BY <1>0, <1>1, CreateKeepsInv
<1>3. /\ \A x \in Requests : request'[x] = IF x = q THEN "PENDING" ELSE request[x]
      /\ \A x \in Requests : requestRound'[x] = IF x = q THEN r ELSE requestRound[x]
      /\ requestRound' \in [Requests -> Rounds \cup {NoRound}]
      /\ request[q] = "NONE" /\ requestRound[q] = NoRound
  BY <1>0, <1>1 DEF CreateRequest, ChatInv, ChatTypeOK, Typed, Queued
<1>4. Queued'
  <2>1. run' = run /\ roundStatus' = roundStatus
    BY <1>1
  <2>2. \A x \in Rounds : x # r => OpenInterjections(x)' \subseteq OpenInterjections(x)
    BY <1>3 DEF OpenInterjections
  <2>3. FinishedRoundsAnswered'
    BY <1>0, <1>1, <2>1, <2>2 DEF Queued, FinishedRoundsAnswered, FinishedRound
  <2>4. run # Off => run.r \in Rounds
    BY <1>0, Fields
  <2>5. run # Off /\ run.pc = "drain" => OpenInterjections(run.r)' # {}
    <3> SUFFICES ASSUME run # Off, run.pc = "drain" PROVE \E x \in Requests : requestRound'[x] = run.r /\ request'[x] \in OpenRequest
      BY <2>1 DEF OpenInterjections
    <3>1. PICK x \in Requests : requestRound[x] = run.r /\ request[x] \in OpenRequest
      BY <1>0 DEF Queued, OpenInterjections
    <3>2. x # q
      BY <1>3, <3>1 DEF OpenRequest
    <3> QED
      BY <1>3, <3>1, <3>2
  <2> QED
    BY <1>0, <1>3, <2>1, <2>3, <2>5 DEF Queued
<1>5. UNCHANGED <<roundStatus, roster, checkpoint, turn, history, up>> /\ run' = run
      /\ pauseRequested' \in [Rounds -> BOOLEAN] /\ enabled' \in SUBSET Members
      /\ disruptions' \in Nat
  BY <1>0, <1>1 DEF Typed, env
<1> QED
  BY <1>2, <1>3, <1>4, <1>5, OthersKeep

\* The queue of every round stays as open as it was.
LEMMA QueueStays ==
    ASSUME Queued, run' = run, UNCHANGED <<roundStatus, requestRound>>, RequestsMove,
           \A q \in Requests : request[q] \in OpenRequest <=> request'[q] \in OpenRequest
    PROVE  Queued'
<1>1. \A q \in Requests : request'[q] = "NONE" => request[q] = "NONE"
  BY DEF RequestsMove
<1> QED
  BY <1>1 DEF Queued, FinishedRoundsAnswered, OpenInterjections

\* A pause is requested, a resumption refused, a member switched, a lease lost.
LEMMA OthersKeepInv ==
    ASSUME RoundInv,
           \/ \E r \in Rounds : RequestPause(r)
           \/ \E q \in Requests : RefusedResume(q)
           \/ \E m \in Members : SetMemberEnabled(m)
           \/ \E t \in Targets : Expire(t)
    PROVE  RoundInv'
<1>0. Typed /\ ChatInv /\ Queued
  BY DEF RoundInv
<1>1. ASSUME NEW r \in Rounds, RequestPause(r) PROVE RoundInv'
  <2>1. /\ UNCHANGED <<chatVars, roundStatus, roster, checkpoint, turn, requestRound, run, history, env>>
        /\ pauseRequested' \in [Rounds -> BOOLEAN]
    BY <1>0, <1>1 DEF RequestPause, Typed
  <2>2. ChatInv'
    BY <1>0, <2>1, ChatFrame
  <2>3. Queued'
    BY <1>0, <2>1, QueuedFrame DEF chatVars
  <2> QED
    BY <1>0, <2>1, <2>2, <2>3, OthersKeep DEF Typed, env
<1>2. ASSUME NEW q \in Requests, RefusedResume(q) PROVE RoundInv'
  <2>1. RecoverExpired({q}) /\ UNCHANGED <<roundTables, run, history, env>>
    BY <1>2 DEF RefusedResume
  <2>2. /\ ChatInv' /\ RequestsMove
        /\ \A x \in Requests : request[x] \in OpenRequest <=> request'[x] \in OpenRequest
    BY <1>0, <2>1, ExpiryMoves
  <2>3. Queued'
    BY <1>0, <2>1, <2>2, QueueStays DEF roundTables
  <2> QED
    BY <1>0, <2>1, <2>2, <2>3, OthersKeep DEF Typed, env, roundTables
<1>3. ASSUME NEW m \in Members, SetMemberEnabled(m) PROVE RoundInv'
  <2>1. /\ UNCHANGED <<chatVars, roundTables, run, history, up>>
        /\ enabled' \in SUBSET Members /\ disruptions' \in Nat
    BY <1>0, <1>3 DEF SetMemberEnabled, Disrupt, Typed
  <2>2. ChatInv'
    BY <1>0, <2>1, ChatFrame
  <2>3. Queued'
    BY <1>0, <2>1, QueuedFrame DEF chatVars, roundTables
  <2> QED
    BY <1>0, <2>1, <2>2, <2>3, OthersKeep DEF Typed, roundTables
<1>4. ASSUME NEW t \in Targets, Expire(t) PROVE RoundInv'
  <2>1. /\ ExpireLease(t) /\ UNCHANGED <<roundTables, run, history, enabled, up>>
        /\ disruptions' \in Nat
    BY <1>0, <1>4 DEF Expire, Disrupt, Typed
  <2>2. ChatInv'
    BY <1>0, <2>1, ExpireKeepsInv
  <2>3. Queued'
    BY <1>0, <2>1, QueuedFrame DEF ExpireLease, roundTables
  <2> QED
    BY <1>0, <2>1, <2>2, <2>3, OthersKeep DEF Typed, roundTables
<1> QED
  BY <1>1, <1>2, <1>3, <1>4

\* cancel_paused_round.
LEMMA CancelRoundKeeps ==
    ASSUME RoundInv, NEW r \in Rounds, CancelRound(r)
    PROVE  RoundInv'
<1>0. Typed /\ Ledger /\ ChatInv /\ Remembers /\ Acting /\ Statuses /\ Exclusive /\ Queued
      /\ CompletedIsClean
  BY DEF RoundInv
<1>1. /\ roundStatus[r] = "PAUSED" /\ SetStatus(r, "CANCELLED")
      /\ UNCHANGED <<chatVars, roster, checkpoint, turn, requestRound, run, history, env>>
  BY DEF CancelRound
<1>2. /\ roster' = roster /\ checkpoint' = checkpoint /\ turn' = turn /\ run' = run
      /\ requestRound' = requestRound /\ request' = request /\ calls' = calls
      /\ streak' = streak /\ enabled' = enabled /\ up' = up /\ disruptions' = disruptions
  BY <1>1 DEF history, chatVars, env
<1>3. /\ \A x \in Rounds : roundStatus'[x] = IF x = r THEN "CANCELLED" ELSE roundStatus[x]
      /\ roundStatus' \in [Rounds -> RoundStatus] /\ pauseRequested' \in [Rounds -> BOOLEAN]
  BY <1>0, <1>1 DEF SetStatus, Typed, RoundStatus
<1>4. ChatInv'
  BY <1>0, <1>1, ChatFrame
<1>5. Typed'
  BY <1>0, <1>2, <1>3 DEF Typed, HasCheckpoint
<1>6. Ledger' /\ CompletedIsClean'
  BY <1>0, <1>2, <1>3, LedgerFrame, CleanFrame DEF LedgerSame
<1>7. Remembers'
  BY <1>0, <1>2 DEF Remembers, HasCheckpoint, Order
<1>8. Acting'
  BY <1>0, <1>2 DEF Acting, MaxTurns, RosterSet, Order
<1>9. Statuses'
  <2>1. run # Off => run.r \in Rounds
    BY <1>0, Fields
  <2>2. \A x \in Rounds : roundStatus'[x] = "PAUSED" => HasCheckpoint(x)'
    BY <1>0, <1>2, <1>3 DEF Statuses, HasCheckpoint
  <2>3. ASSUME run # Off
        PROVE  /\ run.pc \in Driving => roundStatus'[run.r] = "RUNNING"
               /\ run.pc = "read" => IF run.closed THEN roundStatus'[run.r] \in FinishedRound
                                     ELSE roundStatus'[run.r] \in {"RUNNING", "PAUSED", "CANCELLED"}
               /\ run.pc = "park" => roundStatus'[run.r] \in {"RUNNING", "CANCELLED"}
    <3>1. CASE run.r = r
      BY <1>0, <1>1, <1>3, <2>1, <2>3, <3>1 DEF Statuses, FinishedRound
    <3>2. CASE run.r # r
      BY <1>0, <1>3, <2>1, <2>3, <3>2 DEF Statuses
    <3> QED
      BY <3>1, <3>2
  <2> QED
    BY <1>2, <2>2, <2>3 DEF Statuses
<1>10. Exclusive'
  <2>1. run # Off => run.r \in Rounds
    BY <1>0, Fields
  <2>2. \A x \in Rounds : /\ roundStatus'[x] \in OpenRound => roundStatus[x] \in OpenRound
                          /\ roundStatus'[x] = "RUNNING" => roundStatus[x] = "RUNNING"
    BY <1>3 DEF OpenRound
  <2> QED
    BY <1>0, <1>2, <2>1, <2>2 DEF Exclusive
<1>11. Queued'
  BY <1>0, <1>2, <1>3, QueuedFrame DEF FinishedRound
<1> QED
  BY <1>4, <1>5, <1>6, <1>7, <1>8, <1>9, <1>10, <1>11 DEF RoundInv

\* The process dies between two steps, wherever the generator is.
LEMMA CrashKeeps ==
    ASSUME RoundInv, Crash
    PROVE  RoundInv'
<1>0. Typed /\ Ledger /\ ChatInv /\ Statuses /\ Exclusive /\ Queued /\ CompletedIsClean
  BY DEF RoundInv
<1>1. /\ up' = FALSE /\ run' = Off /\ disruptions' \in Nat
      /\ UNCHANGED <<chatVars, roundTables, history, enabled>>
  BY <1>0 DEF Crash, Disrupt, Typed
<1>2. /\ roundStatus' = roundStatus /\ pauseRequested' = pauseRequested /\ roster' = roster
      /\ checkpoint' = checkpoint /\ turn' = turn /\ requestRound' = requestRound
      /\ request' = request /\ calls' = calls /\ streak' = streak /\ enabled' = enabled
  BY <1>1 DEF roundTables, history, chatVars
<1>3. ChatInv'
  BY <1>0, <1>1, ChatFrame
<1>4. Typed'
  BY <1>0, <1>1, <1>2 DEF Typed, HasCheckpoint
<1>5. Ledger' /\ CompletedIsClean'
  BY <1>0, <1>2, LedgerFrame, CleanFrame DEF LedgerSame
<1>6. Remembers' /\ Acting'
  BY <1>1 DEF Remembers, Acting
<1>7. Statuses'
  BY <1>0, <1>1, <1>2 DEF Statuses, HasCheckpoint
<1>8. Exclusive'
  BY <1>0, <1>1, <1>2 DEF Exclusive
<1>9. Queued'
  BY <1>0, <1>1, <1>2, QueuedFrame
<1> QED
  BY <1>3, <1>4, <1>5, <1>6, <1>7, <1>8, <1>9 DEF RoundInv

\* recover_orphaned_work.
LEMMA RestartKeeps ==
    ASSUME RoundInv, Restart
    PROVE  RoundInv'
<1>0. Typed /\ Ledger /\ ChatInv /\ Statuses /\ Exclusive /\ Queued /\ CompletedIsClean
  BY DEF RoundInv
<1> DEFINE open == {r \in Rounds : roundStatus[r] \in OpenRound}
<1>1. /\ up' = TRUE /\ run = Off /\ run' = Off /\ RecoverOrphanedTargets
      /\ roundStatus' = [r \in Rounds |->
                            IF r \notin open THEN roundStatus[r]
                            ELSE IF HasCheckpoint(r) THEN "PAUSED" ELSE "CANCELLED"]
      /\ pauseRequested' = [r \in Rounds |-> r \notin open /\ pauseRequested[r]]
      /\ UNCHANGED <<roster, checkpoint, turn, requestRound, history, enabled, disruptions>>
  BY <1>0 DEF Restart, Typed
<1>2. /\ roster' = roster /\ checkpoint' = checkpoint /\ turn' = turn
      /\ requestRound' = requestRound /\ calls' = calls /\ streak' = streak
      /\ enabled' = enabled /\ disruptions' = disruptions
  BY <1>1 DEF history
<1>3. /\ ChatInv' /\ RequestsMove
      /\ \A q \in Requests : request[q] \in OpenRequest <=> request'[q] \in OpenRequest
  BY <1>0, <1>1, RecoveryMoves DEF RecoverOrphanedTargets
<1>4. ASSUME NEW r \in Rounds
      PROVE  /\ roundStatus'[r] \in RoundStatus /\ roundStatus'[r] # "RUNNING"
             /\ roundStatus'[r] = "PAUSED" => HasCheckpoint(r)
             /\ roundStatus'[r] \in OpenRound => roundStatus[r] \in OpenRound
             /\ roundStatus'[r] \in {"NONE"} \cup FinishedRound => roundStatus'[r] = roundStatus[r]
  BY <1>0, <1>1 DEF Typed, Statuses, RoundStatus, OpenRound, FinishedRound
<1>5. roundStatus' \in [Rounds -> RoundStatus] /\ pauseRequested' \in [Rounds -> BOOLEAN]
  BY <1>0, <1>1, <1>4 DEF Typed
<1>6. Typed'
  BY <1>0, <1>1, <1>2, <1>5 DEF Typed, HasCheckpoint
<1>7. Ledger' /\ CompletedIsClean'
  BY <1>0, <1>2, <1>4, LedgerFrame, CleanFrame DEF LedgerSame, FinishedRound
<1>8. Remembers' /\ Acting'
  BY <1>1 DEF Remembers, Acting
<1>9. Statuses'
  BY <1>1, <1>2, <1>4 DEF Statuses, HasCheckpoint
<1>10. Exclusive'
  BY <1>0, <1>1, <1>4 DEF Exclusive
<1>11. Queued'
  BY <1>0, <1>1, <1>2, <1>3, <1>4 DEF Queued, FinishedRoundsAnswered, OpenInterjections, RequestsMove
<1> QED
  BY <1>3, <1>6, <1>7, <1>8, <1>9, <1>10, <1>11 DEF RoundInv

-----------------------------------------------------------------------------
(* The invariant.                                                           *)

\* An empty database.
LEMMA RoundInitInv == RoundInit => RoundInv
<1> SUFFICES ASSUME RoundInit PROVE RoundInv
  OBVIOUS
<1>1. ChatInv
  BY InitInv DEF RoundInit
<1>2. /\ roundStatus = [r \in Rounds |-> "NONE"] /\ pauseRequested = [r \in Rounds |-> FALSE]
      /\ roster = [r \in Rounds |-> <<>>] /\ checkpoint = [r \in Rounds |-> <<>>]
      /\ turn = [r \in Rounds |-> [o \in Orders |-> NoTurn]]
      /\ requestRound = [q \in Requests |-> NoRound] /\ run = Off
      /\ enabled = Members /\ up = TRUE
      /\ calls = [r \in Rounds |-> [o \in Orders |-> 0]]
      /\ streak = [r \in Rounds |-> 0] /\ disruptions = 0
  BY DEF RoundInit
<1>3. Typed
  <2>1. NoTurn \in Turn /\ "NONE" \in RoundStatus
    BY DEF NoTurn, Turn, RoundStatus
  <2>2. <<>> \in Seq(Members) /\ Len(<<>>) = 0
    OBVIOUS
  <2> QED
    BY <1>2, <2>1, <2>2, Constants DEF Typed, PerRound, HasCheckpoint
<1>4. \A r \in Rounds : ~ HasCheckpoint(r) /\ Untouched(r)
  BY <1>2 DEF HasCheckpoint, Untouched
<1>5. Ledger
  BY <1>2, <1>4 DEF Ledger, NoTurn
<1>6. Remembers /\ Acting /\ Statuses /\ Exclusive
  BY <1>2 DEF Remembers, Acting, Statuses, Exclusive, OpenRound
<1>7. Queued /\ CompletedIsClean
  BY <1>2 DEF Queued, FinishedRoundsAnswered, FinishedRound, CompletedIsClean
<1> QED
  BY <1>1, <1>3, <1>5, <1>6, <1>7 DEF RoundInv

\* Nothing happens.
LEMMA RoundStutter ==
    ASSUME RoundInv, UNCHANGED roundVars
    PROVE  RoundInv'
<1>1. /\ UNCHANGED <<chatVars, roundStatus, pauseRequested, roster, checkpoint, turn, requestRound,
                     history, run, enabled, up, disruptions>>
  BY DEF roundVars, roundTables, env
<1>2. Typed /\ ChatInv /\ Queued
  BY DEF RoundInv
<1>3. ChatInv'
  BY <1>1, <1>2, ChatFrame
<1>4. Queued'
  BY <1>1, <1>2, QueuedFrame DEF chatVars
<1> QED
  BY <1>1, <1>2, <1>3, <1>4, OthersKeep DEF Typed

\* Every step of the generator and of the other handlers keeps the invariant.
LEMMA RoundNextInv == RoundInv /\ [RoundNext]_roundVars => RoundInv'
<1> SUFFICES ASSUME RoundInv, [RoundNext]_roundVars PROVE RoundInv'
  OBVIOUS
<1>1. CASE UNCHANGED roundVars
  BY <1>1, RoundStutter
<1>2. CASE RunStep
  BY <1>2, MovesKeepInv, EndsKeepInv, TurnsKeepInv, ClosingsKeepInv, FirstCheckpointKeeps,
     DrainCheckpointKeeps, SkipKeeps, InOrderKeeps, NobodyLeftKeeps, ChooseKeeps, TakeKeeps,
     DrainEmptyKeeps, ReleaseKeeps, BeginKeeps, CallKeeps, SettleKeeps, UnlockKeeps DEF RunStep
<1>3. CASE RejectOpening \/ OpeningFault \/ AnnounceFails \/ Interrupt
  BY <1>3, MovesKeepInv, EndsKeepInv
<1>4. ASSUME NEW r \in Rounds,
             \/ \E M \in SUBSET Members : CreateRound(r, M)
             \/ ResumeRound(r) \/ RequestPause(r) \/ CancelRound(r)
             \/ \E q \in Requests, md \in {"explicit", "moderated"}, M \in SUBSET Members :
                   PostInterjection(q, r, md, M)
      PROVE  RoundInv'
  BY <1>4, CreateKeeps, ResumeKeeps, OthersKeepInv, CancelRoundKeeps, PostKeeps
<1>5. CASE \/ \E q \in Requests : RefusedResume(q)
           \/ \E m \in Members : SetMemberEnabled(m)
           \/ \E t \in Targets : Expire(t)
  BY <1>5, OthersKeepInv
<1>6. CASE Crash \/ Restart
  BY <1>6, CrashKeeps, RestartKeeps
<1> QED
  BY <1>1, <1>2, <1>3, <1>4, <1>5, <1>6 DEF RoundNext

\* The checkpoint, the ledger, the status and the generator's memory agree in
\* every state that the rounds, the posts, the crashes and the restarts reach.
THEOREM RoundInvariant == RoundSafetySpec => []RoundInv
BY RoundInitInv, RoundNextInv, PTL DEF RoundSafetySpec

\* Every row and every checkpoint has a value of its type.
THEOREM RoundTypesHold == RoundSafetySpec => []RoundTypeOK
<1>1. RoundInv => RoundTypeOK
  <2> SUFFICES ASSUME RoundInv PROVE RoundTypeOK
    OBVIOUS
  <2>1. Typed /\ Ledger /\ ChatTypeOK
    BY DEF RoundInv, ChatInv
  <2>2. ASSUME NEW r \in Rounds
        PROVE  /\ roster[r] \in Seq(Members)
               /\ HasCheckpoint(r) => checkpoint[r][1].next \in 1 .. (Len(roster[r]) * MemberCap + 1)
               /\ \A o \in Orders :
                     /\ turn[r][o].status \in {"NONE", "STARTED", "RESPONDED", "FAILED"}
                     /\ turn[r][o].status # "NONE" => turn[r][o].member \in RosterSet(r)
    <3>1. CASE HasCheckpoint(r)
      <4> DEFINE L == Len(roster[r]) * MemberCap
                 c == checkpoint[r][1]
      <4>1. /\ c \in Checkpoint /\ c.next = 1 + Done(c.p) /\ c.next <= MaxTurns(r) + 1
            /\ \A o \in Orders : turn[r][o].status # "NONE" => turn[r][o].member \in RosterSet(r)
        BY <2>1, <3>1 DEF Typed, Ledger, Counted, CountedBy
      <4>2. L \in Nat /\ MaxTurns(r) \in Nat /\ MaxTurns(r) <= L
        BY <2>1, TurnsFit
      <4>3. Done(c.p) \in Nat
        BY <4>1 DEF Checkpoint, Progress, Done
      <4> HIDE DEF L, c
      <4>4. c.next \in 1 .. (L + 1)
        BY <4>1, <4>2, <4>3
      <4> QED
        BY <2>1, <4>1, <4>4 DEF Typed, Turn, L, c
    <3>2. CASE ~ HasCheckpoint(r)
      BY <2>1, <3>2 DEF Typed, Ledger, Untouched, NoTurn
    <3> QED
      BY <3>1, <3>2
  <2> QED
    BY <2>1, <2>2 DEF RoundTypeOK, Typed
<1> QED
  BY <1>1, RoundInvariant, PTL

\* Checkpoint and turn ledger never disagree, however the round was crashed,
\* paused and resumed.
THEOREM CheckpointIsTheLedger == RoundSafetySpec => []CheckpointMatchesLedger
<1>1. RoundInv => CheckpointMatchesLedger
  BY DEF RoundInv, Ledger, Counted, CountedBy, CheckpointMatchesLedger, TurnsIn
<1> QED
  BY <1>1, RoundInvariant, PTL

\* No formal turn is called twice, and none responds without its one call.
THEOREM NoTurnIsReplayed == RoundSafetySpec => []NoReplay
<1>1. RoundInv => NoReplay
  BY DEF RoundInv, Ledger, NoReplay
<1> QED
  BY <1>1, RoundInvariant, PTL

\* The checkpoint carries the count of consecutive interjections.
THEOREM StreakIsRemembered == RoundSafetySpec => []StreakRemembered
<1>1. RoundInv => StreakRemembered
  BY DEF RoundInv, Ledger, Counted, StreakRemembered
<1> QED
  BY <1>1, RoundInvariant, PTL

\* What is PAUSED has a checkpoint to resume from.
THEOREM PausedCanResume == RoundSafetySpec => []PausedIsResumable
<1>1. RoundInv => PausedIsResumable
  BY DEF RoundInv, Statuses, PausedIsResumable
<1> QED
  BY <1>1, RoundInvariant, PTL

\* A finished round leaves no interjection open.
THEOREM FinishedIsAnswered == RoundSafetySpec => []FinishedRoundsAnswered
<1>1. RoundInv => FinishedRoundsAnswered
  BY DEF RoundInv, Queued
<1> QED
  BY <1>1, RoundInvariant, PTL

\* A COMPLETED round has no failed and no open turn, and answers enough.
THEOREM CompletedMeansClean == RoundSafetySpec => []CompletedIsClean
<1>1. RoundInv => CompletedIsClean
  BY DEF RoundInv
<1> QED
  BY <1>1, RoundInvariant, PTL

\* If no store call fails outside the try blocks, a RUNNING round is the one a
\* generator drives, and the room has one open round at most.
THEOREM RunningHasItsGenerator ==
    ASSUME ~ StoreFaults
    PROVE  RoundSafetySpec => []RunningIsDriven
<1>1. RoundInv => RunningIsDriven
  <2> SUFFICES ASSUME RoundInv PROVE RunningIsDriven
    OBVIOUS
  <2> DEFINE open == {r \in Rounds : roundStatus[r] \in OpenRound}
  <2>1. Typed /\ Exclusive
    BY DEF RoundInv
  <2>2. \A r1, r2 \in open : r1 = r2
    BY <2>1 DEF Exclusive
  <2>3. Cardinality(open) <= 1
    <3>1. CASE open = {}
      BY <3>1, FS_EmptySet
    <3>2. CASE open # {}
      <4>1. PICK r \in open : TRUE
        BY <3>2
      <4>2. open = {r}
        BY <2>2, <4>1
      <4>3. Cardinality({r}) = 1
        BY FS_Singleton
      <4> HIDE DEF open
      <4> QED
        BY <4>2, <4>3
    <3> QED
      BY <3>1, <3>2
  <2>4. ASSUME up, NEW r \in Rounds, roundStatus[r] = "RUNNING" PROVE ~ At("off") /\ run.r = r
    <3>1. run # Off
      BY <2>1, <2>4 DEF Exclusive
    <3>2. run.pc # "off" /\ run.r = r
      BY <2>1, <2>4, <3>1, Fields, NotOff DEF Exclusive, OpenRound
    <3> QED
      BY <3>2 DEF At
  <2> QED
    BY <2>3, <2>4 DEF RunningIsDriven
<1> QED
  BY <1>1, RoundInvariant, PTL

-----------------------------------------------------------------------------
(* History.                                                                 *)

\* The three promises of HistoryIsFinal, for one round and one step.
TurnsStay(r) ==
    \A o \in TurnsIn(r, "RESPONDED") \cup TurnsIn(r, "FAILED") : turn'[r][o] = turn[r][o]
CheckpointStays(r) ==
    HasCheckpoint(r) => checkpoint'[r] # <<>> /\ checkpoint'[r][1].next >= checkpoint[r][1].next
FinishStays(r) == roundStatus[r] \in FinishedRound => roundStatus'[r] = roundStatus[r]
HistoryStays == \A r \in Rounds : TurnsStay(r) /\ CheckpointStays(r) /\ FinishStays(r)

\* A table that is not written stays.
LEMMA Unwritten ==
    ASSUME RoundInv
    PROVE  /\ turn' = turn => \A r \in Rounds : TurnsStay(r)
           /\ checkpoint' = checkpoint => \A r \in Rounds : CheckpointStays(r)
           /\ roundStatus' = roundStatus => \A r \in Rounds : FinishStays(r)
<1>1. ASSUME NEW r \in Rounds, checkpoint' = checkpoint PROVE CheckpointStays(r)
  <2>1. HasCheckpoint(r) => checkpoint[r][1].next \in Nat
    BY DEF RoundInv, Typed, Checkpoint
  <2> QED
    BY <1>1, <2>1 DEF CheckpointStays, HasCheckpoint
<1> QED
  BY <1>1 DEF TurnsStay, FinishStays

\* A generator that saves does not go back.
LEMMA SavedAhead ==
    ASSUME RoundInv, run # Off, run.pc \in Working \cup {"created", "resumed"},
           NEW next \in Nat, next >= Order, NEW p \in Progress, Save(run.r, next, p)
    PROVE  \A r \in Rounds : CheckpointStays(r)
<1>1. Typed /\ run.r \in Rounds /\ Order \in Nat
  BY Fields DEF RoundInv
<1>2. /\ \A x \in Rounds : x # run.r => checkpoint'[x] = checkpoint[x]
      /\ checkpoint'[run.r] = <<[next |-> next, p |-> p]>>
  BY <1>1, Saving
<1>3. HasCheckpoint(run.r) => checkpoint[run.r][1].next = Order
  <2>1. run.pc = "created" => ~ HasCheckpoint(run.r)
    BY DEF RoundInv, Remembers
  <2> QED
    BY <2>1, MemoryCounts
<1>4. CheckpointStays(run.r)
  BY <1>1, <1>2, <1>3 DEF CheckpointStays
<1>5. ASSUME NEW r \in Rounds, r # run.r PROVE CheckpointStays(r)
  <2>1. HasCheckpoint(r) => checkpoint[r][1].next \in Nat
    BY <1>1 DEF Typed, Checkpoint
  <2> QED
    BY <1>2, <1>5, <2>1 DEF CheckpointStays, HasCheckpoint
<1> QED
  BY <1>4, <1>5

\* Only an unfinished round gets another status.
LEMMA StatusMoves ==
    ASSUME RoundInv, NEW x \in Rounds, roundStatus[x] \notin FinishedRound, NEW s, SetStatus(x, s)
    PROVE  \A r \in Rounds : FinishStays(r)
BY DEF RoundInv, Typed, SetStatus, FinishStays

\* The generator's round is not finished while it runs.
LEMMA Unfinalized ==
    ASSUME RoundInv, run # Off, run.pc \in Driving \cup {"park"}
    PROVE  run.r \in Rounds /\ roundStatus[run.r] \notin FinishedRound
BY Fields DEF RoundInv, Statuses, FinishedRound

\* A turn is written where none is terminal yet.
LEMMA TurnAhead ==
    ASSUME RoundInv, run # Off, Order \in Orders,
           turn[run.r][Order].status \in {"NONE", "STARTED"},
           NEW T, turn' = [turn EXCEPT ![run.r][Order] = T]
    PROVE  \A r \in Rounds : TurnsStay(r)
<1> DEFINE o1 == Order
<1>1. /\ turn \in [Rounds -> [Orders -> Turn]] /\ run.r \in Rounds /\ o1 \in Orders
      /\ turn[run.r][o1].status \in {"NONE", "STARTED"}
      /\ turn' = [turn EXCEPT ![run.r][o1] = T]
  BY Fields DEF RoundInv, Typed
<1> HIDE DEF o1
<1> QED
  BY <1>1 DEF TurnsStay, TurnsIn

\* Steps that write neither turns nor checkpoints nor statuses.
LEMMA SilentSteps ==
    ASSUME \/ Announce \/ LeaveLoop \/ ModeratorGone \/ Choose \/ Drained \/ ScheduleInOrder
           \/ NobodyLeft \/ DrainEmpty \/ Recheck \/ TakeTarget \/ AskTarget \/ AnswerRejected
           \/ FinishDiscussion \/ BeginRefused \/ CallSpeaker \/ ReadOutcome \/ ReleaseClaim
           \/ Unlock \/ OpeningFault \/ Interrupt \/ Crash
           \/ \E r \in Rounds : RequestPause(r)
           \/ \E r \in Rounds, q \in Requests, md \in {"explicit", "moderated"},
                 M \in SUBSET Members : PostInterjection(q, r, md, M)
           \/ \E q \in Requests : RefusedResume(q)
           \/ \E m \in Members : SetMemberEnabled(m)
           \/ \E t \in Targets : Expire(t)
    PROVE  turn' = turn /\ checkpoint' = checkpoint /\ roundStatus' = roundStatus
<1>1. CASE \/ Announce \/ LeaveLoop \/ ModeratorGone \/ Choose \/ Drained \/ ScheduleInOrder
           \/ NobodyLeft
  BY <1>1 DEF Announce, LeaveLoop, ModeratorGone, Choose, Drained, ScheduleInOrder, NobodyLeft,
     roundTables
<1>2. CASE \/ DrainEmpty \/ Recheck \/ TakeTarget \/ AskTarget \/ AnswerRejected
           \/ FinishDiscussion \/ BeginRefused \/ CallSpeaker
  BY <1>2 DEF DrainEmpty, Recheck, TakeTarget, AskTarget, AnswerRejected, FinishDiscussion,
     BeginRefused, CallSpeaker, roundTables
<1>3. CASE ReadOutcome \/ ReleaseClaim \/ Unlock \/ OpeningFault \/ Interrupt \/ Crash
  BY <1>3 DEF ReadOutcome, ReleaseClaim, Unlock, OpeningFault, Interrupt, Crash, roundTables
<1>4. CASE \/ \E r \in Rounds : RequestPause(r)
           \/ \E r \in Rounds, q \in Requests, md \in {"explicit", "moderated"},
                 M \in SUBSET Members : PostInterjection(q, r, md, M)
  BY <1>4 DEF RequestPause, PostInterjection
<1>5. CASE \/ \E q \in Requests : RefusedResume(q)
           \/ \E m \in Members : SetMemberEnabled(m)
           \/ \E t \in Targets : Expire(t)
  BY <1>5 DEF RefusedResume, SetMemberEnabled, Expire, roundTables
<1> QED
  BY <1>1, <1>2, <1>3, <1>4, <1>5

\* Steps that only set a status.
LEMMA StatusSteps ==
    ASSUME RoundInv,
           \/ RejectOpening \/ AnnounceFails \/ Settle \/ Park \/ ParkUnfinalized \/ Restart
           \/ \E r \in Rounds, M \in SUBSET Members : CreateRound(r, M)
           \/ \E r \in Rounds : ResumeRound(r) \/ CancelRound(r)
    PROVE  turn' = turn /\ checkpoint' = checkpoint /\ \A r \in Rounds : FinishStays(r)
<1> USE DEF At
<1>1. CASE RejectOpening \/ AnnounceFails \/ Park \/ ParkUnfinalized
  <2>1. /\ run # Off /\ run.pc \in Driving \cup {"park"}
        /\ \E s \in {"PAUSED", "CANCELLED"} : SetStatus(run.r, s)
        /\ turn' = turn /\ checkpoint' = checkpoint
    BY <1>1, AtRuns DEF RejectOpening, AnnounceFails, Park, ParkUnfinalized, Opening, Driving, Working
  <2> QED
    BY <2>1, Unfinalized, StatusMoves
<1>2. CASE Settle
  <2>1. run # Off /\ run.pc \in Driving /\ turn' = turn /\ checkpoint' = checkpoint
    BY <1>2, AtRuns DEF Settle, Driving, Working
  <2>2. \/ \E s \in {"PAUSED", "PARTIAL", "COMPLETED"} : SetStatus(run.r, s)
        \/ roundStatus' = roundStatus
    BY <1>2 DEF Settle
  <2> QED
    BY <2>1, <2>2, Unfinalized, StatusMoves, Unwritten
<1>3. CASE Restart
  BY <1>3 DEF Restart, FinishStays, FinishedRound, OpenRound
<1>4. ASSUME NEW r \in Rounds, NEW M \in SUBSET Members, CreateRound(r, M)
      PROVE  turn' = turn /\ checkpoint' = checkpoint /\ \A x \in Rounds : FinishStays(x)
  <2>1. /\ roundStatus[r] = "NONE" /\ SetStatus(r, "RUNNING")
        /\ turn' = turn /\ checkpoint' = checkpoint
    BY <1>4 DEF CreateRound
  <2> QED
    BY <2>1, StatusMoves DEF FinishedRound
<1>5. ASSUME NEW r \in Rounds, ResumeRound(r) \/ CancelRound(r)
      PROVE  turn' = turn /\ checkpoint' = checkpoint /\ \A x \in Rounds : FinishStays(x)
  <2>1. /\ roundStatus[r] = "PAUSED" /\ \E s \in {"RUNNING", "CANCELLED"} : SetStatus(r, s)
        /\ turn' = turn /\ checkpoint' = checkpoint
    BY <1>5 DEF ResumeRound, CancelRound
  <2> QED
    BY <2>1, StatusMoves DEF FinishedRound
<1> QED
  BY <1>1, <1>2, <1>3, <1>4, <1>5

\* A skipped slot is counted.
LEMMA SkippedCounts ==
    ASSUME NEW q \in Progress
    PROVE  [q EXCEPT !.skipped = q.skipped + 1, !.consecutive = 0] \in Progress
<1> DEFINE p == [q EXCEPT !.skipped = q.skipped + 1, !.consecutive = 0]
<1>1. p = [q EXCEPT !.skipped = q.skipped + 1, !.consecutive = 0]
  OBVIOUS
<1> SUFFICES p \in Progress
  OBVIOUS
<1> HIDE DEF p
<1>2. p = [spoken |-> q.spoken, ok |-> q.ok, failed |-> q.failed, completed |-> q.completed,
           failures |-> q.failures, skipped |-> q.skipped + 1, consecutive |-> 0]
  BY <1>1 DEF Progress
<1> QED
  BY <1>2 DEF Progress

\* Steps that save a checkpoint and write no turn.
LEMMA SavingSteps ==
    ASSUME RoundInv,
           \/ AcknowledgePause \/ BeginPaused \/ SaveFirstCheckpoint \/ DrainCheckpoint \/ SkipMember
           \/ DrainTarget \/ FailTarget \/ TargetGone \/ (\E s \in TerminalTarget : TargetAnswered(s))
    PROVE  HistoryStays
<1> USE DEF At
<1>0. run # Off => run.p \in Progress /\ Order \in Nat /\ Order + 1 \in Nat
  BY Fields DEF RoundInv
<1>1. run # Off => Interjected(run.p) \in Progress
  <2>1. ASSUME run # Off PROVE \A c \in Nat : [run.p EXCEPT !.consecutive = c] \in Progress
    BY <1>0, <2>1 DEF Progress
  <2> QED
    BY <1>0, <2>1 DEF Interjected, Progress
<1>2. CASE AcknowledgePause \/ BeginPaused
  <2>1. /\ run # Off /\ run.pc \in Working /\ Save(run.r, Order, run.p) /\ turn' = turn
        /\ SetStatus(run.r, "PAUSED")
    BY <1>2, AtRuns DEF AcknowledgePause, BeginPaused, Chosen, Working
  <2>2. \A r \in Rounds : CheckpointStays(r) /\ TurnsStay(r)
    BY <1>0, <2>1, SavedAhead, Unwritten
  <2> QED
    BY <2>1, <2>2, Unfinalized, StatusMoves DEF HistoryStays, Driving
<1>3. CASE SaveFirstCheckpoint
  <2>1. /\ run # Off /\ run.pc \in {"created", "resumed"} /\ Save(run.r, Order, run.p)
        /\ turn' = turn /\ roundStatus' = roundStatus
    BY <1>3, AtRuns DEF SaveFirstCheckpoint, Opening
  <2> QED
    BY <1>0, <2>1, SavedAhead, Unwritten DEF HistoryStays
<1>4. CASE SkipMember
  <2> DEFINE p == [run.p EXCEPT !.skipped = run.p.skipped + 1, !.consecutive = 0]
  <2>1. /\ run # Off /\ run.pc \in Working /\ Save(run.r, Order + 1, p)
        /\ turn' = turn /\ roundStatus' = roundStatus
    BY <1>4, AtRuns DEF SkipMember, Scheduling, Working
  <2>2. p \in Progress
    BY <1>0, <2>1, SkippedCounts
  <2> HIDE DEF p
  <2> QED
    BY <1>0, <2>1, <2>2, SavedAhead, Unwritten DEF HistoryStays
<1>5. CASE \/ DrainCheckpoint \/ DrainTarget \/ FailTarget \/ TargetGone
           \/ (\E s \in TerminalTarget : TargetAnswered(s))
  <2>1. /\ run # Off /\ run.pc \in Working /\ Save(run.r, Order, Interjected(run.p))
        /\ turn' = turn /\ roundStatus' = roundStatus
    BY <1>5, AtRuns DEF DrainCheckpoint, DrainTarget, FailTarget, TargetGone, TargetAnswered,
       CloseInterjection, Chosen, Working
  <2> QED
    BY <1>0, <1>1, <2>1, SavedAhead, Unwritten DEF HistoryStays
<1> QED
  BY <1>2, <1>3, <1>4, <1>5

\* A turn is started, or ends together with its checkpoint.
LEMMA TurnSteps ==
    ASSUME RoundInv,
           BeginTurn \/ FailUnknownTurn \/ FailBeforeCall \/ SpeakerAnswered \/ SpeakerFailed
    PROVE  HistoryStays
<1> USE DEF At
<1>0. run # Off => /\ run.r \in Rounds /\ run.p \in Progress /\ Order \in Nat /\ Order + 1 \in Nat
                   /\ run.pc \in {"reserved", "speaking"} => run.choice.kind = "speak"
  BY Fields DEF RoundInv, Acting
<1>1. CASE BeginTurn
  <2>1. /\ run # Off /\ run.pc = "act" /\ run.choice.kind = "speak"
        /\ turn[run.r][Order].status = "NONE"
        /\ turn' = [turn EXCEPT ![run.r][Order] =
                       [status |-> "STARTED", member |-> run.choice.member]]
        /\ checkpoint' = checkpoint /\ roundStatus' = roundStatus
    BY <1>1, AtRuns DEF BeginTurn, Chosen
  <2>2. Order \in Orders
    BY <2>1, NextTurn
  <2> QED
    BY <2>1, <2>2, TurnAhead, Unwritten DEF HistoryStays
<1>2. ASSUME NEW s, NEW p \in Progress, CommitTurn(s, p), run # Off, run.pc \in Working,
             Order \in Orders
      PROVE  HistoryStays
  <2> DEFINE T == [turn[run.r][Order] EXCEPT !.status = s]
  <2>1. /\ turn[run.r][Order].status = "STARTED" /\ Save(run.r, Order + 1, p)
        /\ turn' = [turn EXCEPT ![run.r][Order] = T] /\ roundStatus' = roundStatus
    BY <1>2 DEF CommitTurn
  <2>2. \A r \in Rounds : TurnsStay(r)
    <3> HIDE DEF T
    <3> QED
      BY <1>2, <2>1, TurnAhead
  <2>3. \A r \in Rounds : CheckpointStays(r)
    BY <1>0, <1>2, <2>1, SavedAhead
  <2> QED
    BY <2>1, <2>2, <2>3, Unwritten DEF HistoryStays
<1>3. ASSUME NEW m \in Members, NEW F \in SUBSET Members, run # Off
      PROVE  Failed(run.p, m, F) \in Progress /\ Succeeded(run.p, m) \in Progress
  BY <1>0, <1>3, Counting
<1>4. CASE FailUnknownTurn
  <2> DEFINE m == turn[run.r][Order].member
  <2>1. /\ run.pc = "top" /\ run # Off /\ Order \in Orders /\ turn[run.r][Order].status = "STARTED"
        /\ CommitTurn("FAILED", Failed(run.p, m, {m}))
    BY <1>4, AtRuns DEF FailUnknownTurn, Scheduling, Unfinished
  <2>2. m \in Members
    BY <1>0, <2>1, MemoryCounts, RosterIsMembers DEF CountedBy, Working, RoundInv
  <2> HIDE DEF m
  <2> QED
    BY <1>2, <1>3, <2>1, <2>2 DEF Working
<1>5. CASE FailBeforeCall \/ SpeakerAnswered \/ SpeakerFailed
  <2> DEFINE m == run.choice.member
  <2>1. /\ run # Off /\ run.pc \in {"reserved", "speaking"} /\ run.pc \in Working
        /\ \/ \E F \in {{}, {m}} : CommitTurn("FAILED", Failed(run.p, m, F))
           \/ CommitTurn("RESPONDED", Succeeded(run.p, m))
    BY <1>5, AtRuns DEF FailBeforeCall, SpeakerAnswered, SpeakerFailed, Working
  <2>2. m \in Members /\ Order \in Orders
    BY <1>0, <2>1, NextTurn
  <2>3. {} \in SUBSET Members /\ {m} \in SUBSET Members
    BY <2>2
  <2> HIDE DEF m
  <2> QED
    BY <1>2, <1>3, <2>1, <2>2, <2>3
<1> QED
  BY <1>1, <1>4, <1>5

\* A terminal turn is never rewritten, no checkpoint moves back and no finished
\* round is opened again, whichever handlers, crashes and resumes interleave.
THEOREM HistoryOnlyGrows == RoundSafetySpec => HistoryIsFinal
<1>1. RoundInv /\ [RoundNext]_roundVars =>
        [ \A r \in Rounds :
           /\ \A o \in TurnsIn(r, "RESPONDED") \cup TurnsIn(r, "FAILED") : turn'[r][o] = turn[r][o]
           /\ HasCheckpoint(r) => checkpoint'[r] # <<>> /\ checkpoint'[r][1].next >= checkpoint[r][1].next
           /\ roundStatus[r] \in FinishedRound => roundStatus'[r] = roundStatus[r] ]_roundVars
  <2> SUFFICES ASSUME RoundInv, RoundNext PROVE HistoryStays
    BY DEF HistoryStays, TurnsStay, CheckpointStays, FinishStays
  <2>1. CASE UNCHANGED <<turn, checkpoint, roundStatus>>
    BY <2>1, Unwritten DEF HistoryStays
  <2>2. CASE turn' = turn /\ checkpoint' = checkpoint /\ \A r \in Rounds : FinishStays(r)
    BY <2>2, Unwritten DEF HistoryStays
  <2>3. CASE RunStep
    BY <2>1, <2>2, <2>3, SilentSteps, StatusSteps, SavingSteps, TurnSteps DEF RunStep
  <2>4. CASE RejectOpening \/ OpeningFault \/ AnnounceFails \/ Interrupt \/ Crash \/ Restart
    BY <2>1, <2>2, <2>4, SilentSteps, StatusSteps
  <2>5. CASE \E r \in Rounds :
               \/ \E M \in SUBSET Members : CreateRound(r, M)
               \/ ResumeRound(r) \/ CancelRound(r)
    BY <2>2, <2>5, StatusSteps
  <2>6. CASE \/ \E r \in Rounds : RequestPause(r)
             \/ \E r \in Rounds, q \in Requests, md \in {"explicit", "moderated"},
                   M \in SUBSET Members : PostInterjection(q, r, md, M)
             \/ \E q \in Requests : RefusedResume(q)
             \/ \E m \in Members : SetMemberEnabled(m)
             \/ \E t \in Targets : Expire(t)
    BY <2>1, <2>6, SilentSteps
  <2> QED
    BY <2>3, <2>4, <2>5, <2>6 DEF RoundNext
<1> QED
  BY <1>1, RoundInvariant, PTL DEF RoundSafetySpec, HistoryIsFinal

-----------------------------------------------------------------------------
(* The fairness rule.                                                       *)

\* Starting on an interjection, or ending it, while another could be forced to
\* yield.
TakesUp(t) ==
    At("act") /\ target'[t] \in {"PROCESSING"} \cup TerminalTarget /\ target'[t] # target[t]
MayTakeUp == streak[run.r] < MaxConsecutive \/ Order > MaxTurns(run.r) \/ ~ run.work

\* An action on a choice that is an interjection was allowed when it was chosen,
\* and nothing has closed an interjection since.
LEMMA ChosenFairly ==
    ASSUME RoundInv, run # Off, run.pc = "act", run.choice.kind \in {"answer", "fail", "assign"}
    PROVE  MayTakeUp
<1>1. run.p.consecutive = streak[run.r]
  BY MemoryCounts DEF Working
<1> QED
  BY <1>1 DEF RoundInv, Acting, MayTakeUp

\* Steps at other places, and steps that leave the targets alone or reopen them.
LEMMA OtherTakers ==
    ASSUME RoundInv, RoundNext, ~ TakeTarget, ~ FailTarget, NEW t \in Targets, At("act")
    PROVE  target'[t] = target[t] \/ target'[t] = "PENDING"
<1>1. run.pc = "act" /\ run # Off /\ up
  BY AtRuns, Fields DEF At, RoundInv
<1> USE DEF At
<1>2. ASSUME NEW T, Reopen(T) PROVE target'[t] = target[t] \/ target'[t] = "PENDING"
  BY <1>2 DEF Reopen
<1>3. CASE UNCHANGED chatVars
  BY <1>3 DEF chatVars
<1>4. CASE RunStep
  <2>1. CASE \/ SaveFirstCheckpoint \/ Announce \/ LeaveLoop \/ AcknowledgePause \/ FailUnknownTurn
             \/ ModeratorGone \/ Choose \/ Drained \/ ScheduleInOrder \/ SkipMember \/ NobodyLeft
    BY <1>1, <2>1 DEF SaveFirstCheckpoint, Opening, Announce, LeaveLoop, AcknowledgePause,
       FailUnknownTurn, ModeratorGone, Choose, Drained, ScheduleInOrder, SkipMember, NobodyLeft,
       Scheduling
  <2>2. CASE \/ DrainTarget \/ DrainEmpty \/ DrainCheckpoint \/ Recheck \/ TargetGone \/ AskTarget
             \/ (\E s \in TerminalTarget : TargetAnswered(s)) \/ AnswerRejected
    BY <1>1, <2>2 DEF DrainTarget, DrainEmpty, DrainCheckpoint, Recheck, TargetGone, AskTarget,
       TargetAnswered, AnswerRejected
  <2>3. CASE FinishDiscussion \/ BeginTurn \/ BeginRefused \/ BeginPaused
    BY <1>3, <2>3 DEF FinishDiscussion, BeginTurn, BeginRefused, BeginPaused
  <2>4. CASE \/ FailBeforeCall \/ CallSpeaker \/ SpeakerAnswered \/ SpeakerFailed \/ Settle
             \/ ReadOutcome \/ Park \/ ReleaseClaim \/ ParkUnfinalized \/ Unlock
    BY <1>1, <2>4 DEF FailBeforeCall, CallSpeaker, SpeakerAnswered, SpeakerFailed, Settle,
       ReadOutcome, Park, ReleaseClaim, ParkUnfinalized, Unlock
  <2> QED
    BY <1>4, <2>1, <2>2, <2>3, <2>4 DEF RunStep
<1>5. CASE RejectOpening \/ OpeningFault \/ AnnounceFails \/ Interrupt \/ Crash
  BY <1>3, <1>5 DEF RejectOpening, OpeningFault, AnnounceFails, Interrupt, Crash
<1>6. CASE \E r \in Rounds : \/ \E M \in SUBSET Members : CreateRound(r, M)
                             \/ ResumeRound(r) \/ RequestPause(r) \/ CancelRound(r)
  BY <1>3, <1>6 DEF CreateRound, ResumeRound, RequestPause, CancelRound
<1>7. CASE \E r \in Rounds, q \in Requests, md \in {"explicit", "moderated"},
              M \in SUBSET Members : PostInterjection(q, r, md, M)
  BY <1>7 DEF PostInterjection, CreateRequest
<1>8. CASE \E q \in Requests : RefusedResume(q)
  BY <1>2, <1>8 DEF RefusedResume, RecoverExpired
<1>9. CASE (\E m \in Members : SetMemberEnabled(m)) \/ (\E u \in Targets : Expire(u))
  BY <1>3, <1>9 DEF SetMemberEnabled, Expire, ExpireLease
<1>10. CASE Restart
  BY <1>1, <1>10 DEF Restart
<1> QED
  BY <1>4, <1>5, <1>6, <1>7, <1>8, <1>9, <1>10 DEF RoundNext

\* Interjections yield to the discussion, over any number of crashes and resumes.
THEOREM InterjectionsWaitTheirTurn == RoundSafetySpec => InterjectionsYield
<1>1. RoundInv /\ [RoundNext]_roundVars =>
        [ \A t \in Targets :
           At("act") /\ target'[t] \in {"PROCESSING"} \cup TerminalTarget /\ target'[t] # target[t]
           => \/ streak[run.r] < MaxConsecutive
              \/ Order > MaxTurns(run.r)
              \/ ~ run.work ]_roundVars
  <2> SUFFICES ASSUME RoundInv, RoundNext, NEW t \in Targets, TakesUp(t) PROVE MayTakeUp
    BY DEF TakesUp, MayTakeUp
  <2>1. run.pc = "act" /\ run # Off
    BY AtRuns DEF TakesUp, At
  <2>2. CASE TakeTarget
    BY <2>1, <2>2, ChosenFairly DEF TakeTarget, Chosen
  <2>3. CASE FailTarget
    BY <2>1, <2>3, ChosenFairly DEF FailTarget, Chosen
  <2>4. CASE ~ TakeTarget /\ ~ FailTarget
    BY <2>4, OtherTakers DEF TakesUp, TerminalTarget
  <2> QED
    BY <2>2, <2>3, <2>4
<1> QED
  BY <1>1, RoundInvariant, PTL DEF RoundSafetySpec, InterjectionsYield

-----------------------------------------------------------------------------
(* The chat tables beneath.                                                 *)

\* What a step may do to the chat tables.
ChatMoves == ChatNext \/ UNCHANGED chatVars

\* Closing an interjection is one commit of its target.
LEMMA ClosingIsCommit ==
    ASSUME NEW t \in Targets, NEW k \in 0 .. MaxAttempts, NEW s \in TerminalTarget,
           CloseInterjection(t, k, s)
    PROVE  ChatMoves
BY DEF CloseInterjection, ChatNext, ChatMoves

\* The steps of the generator that do not touch the chat tables.
LEMMA QuietSteps ==
    ASSUME \/ SaveFirstCheckpoint \/ Announce \/ LeaveLoop \/ AcknowledgePause
           \/ FailUnknownTurn \/ ModeratorGone \/ Drained \/ ScheduleInOrder \/ SkipMember
           \/ DrainCheckpoint \/ Recheck \/ AskTarget \/ AnswerRejected \/ FinishDiscussion
           \/ BeginTurn \/ BeginRefused \/ BeginPaused \/ FailBeforeCall \/ CallSpeaker
           \/ SpeakerAnswered \/ SpeakerFailed \/ Settle \/ ReadOutcome \/ Park
           \/ ParkUnfinalized \/ Unlock
    PROVE  UNCHANGED chatVars
<1>1. CASE \/ SaveFirstCheckpoint \/ Announce \/ LeaveLoop \/ AcknowledgePause
           \/ FailUnknownTurn \/ ModeratorGone
  BY <1>1 DEF SaveFirstCheckpoint, Announce, LeaveLoop, AcknowledgePause, FailUnknownTurn,
              ModeratorGone
<1>2. CASE \/ Drained \/ ScheduleInOrder \/ SkipMember \/ DrainCheckpoint \/ Recheck
           \/ AskTarget \/ AnswerRejected \/ FinishDiscussion
  BY <1>2 DEF Drained, ScheduleInOrder, SkipMember, DrainCheckpoint, Recheck, AskTarget,
              AnswerRejected, FinishDiscussion
<1>3. CASE \/ BeginTurn \/ BeginRefused \/ BeginPaused \/ FailBeforeCall \/ CallSpeaker
           \/ SpeakerAnswered \/ SpeakerFailed
  BY <1>3 DEF BeginTurn, BeginRefused, BeginPaused, FailBeforeCall, CallSpeaker,
              SpeakerAnswered, SpeakerFailed
<1>4. CASE Settle \/ ReadOutcome \/ Park \/ ParkUnfinalized \/ Unlock
  BY <1>4 DEF Settle, ReadOutcome, Park, ParkUnfinalized, Unlock
<1> QED
  BY <1>1, <1>2, <1>3, <1>4

\* The steps of the generator that do.
LEMMA ChattingSteps ==
    ASSUME RoundInv,
           \/ Choose \/ NobodyLeft \/ DrainTarget \/ DrainEmpty \/ FailTarget \/ TakeTarget
           \/ TargetGone \/ (\E s \in TerminalTarget : TargetAnswered(s)) \/ ReleaseClaim
    PROVE  ChatMoves
<1>0. Typed /\ ChatInv /\ Acting /\ Queued
  BY DEF RoundInv
<1>1. NoToken \in 0 .. MaxAttempts /\ "FAILED" \in TerminalTarget
  BY Constants DEF NoToken, TerminalTarget
<1>2. ASSUME run # Off, run.choice.kind \in {"answer", "fail", "assign"}
      PROVE  ChosenTarget \in Targets
  BY <1>0, <1>2 DEF Acting, ChosenTarget, Targets
<1>3. run # Off => run.claim \in 0 .. MaxAttempts
  <2>1. run # Off => run \in Generator
    BY <1>0 DEF Typed
  <2> QED
    BY <2>1 DEF Generator
<1>4. ASSUME Choose \/ NobodyLeft
      PROVE  ChatMoves
  <2>1. RequestsOf(run.r) \in SUBSET Requests
    BY DEF RequestsOf
  <2>2. RecoverExpired(RequestsOf(run.r))
    BY <1>4 DEF Choose, NobodyLeft
  <2> QED
    BY <2>1, <2>2 DEF ChatNext, ChatMoves
<1>5. ASSUME At("drain")
      PROVE  Oldest(OpenInterjections(run.r)) \in Requests
  <2>1. run # Off /\ run.pc = "drain"
    BY <1>5, AtRuns DEF At
  <2>2. OpenInterjections(run.r) # {} /\ OpenInterjections(run.r) \in SUBSET Requests
    BY <1>0, <2>1 DEF Queued, OpenInterjections
  <2> QED
    BY <2>2, OldestIsOne DEF OpenInterjections
<1>6. ASSUME DrainTarget
      PROVE  ChatMoves
  <2>1. PICK m \in Members : CloseInterjection(<<Oldest(OpenInterjections(run.r)), m>>,
                                               NoToken, "FAILED")
    BY <1>6 DEF DrainTarget
  <2>2. <<Oldest(OpenInterjections(run.r)), m>> \in Targets
    BY <1>5, <1>6 DEF DrainTarget, Targets
  <2> QED
    BY <1>1, <2>1, <2>2, ClosingIsCommit
<1>7. ASSUME DrainEmpty
      PROVE  ChatMoves
  <2>1. CancelEmptyModerated(Oldest(OpenInterjections(run.r)))
    BY <1>7 DEF DrainEmpty
  <2>2. Oldest(OpenInterjections(run.r)) \in Requests
    BY <1>5, <1>7 DEF DrainEmpty
  <2> QED
    BY <2>1, <2>2 DEF ChatNext, ChatMoves
<1>8. ASSUME FailTarget
      PROVE  ChatMoves
  <2>1. run # Off /\ run.choice.kind = "fail" /\ CloseInterjection(ChosenTarget, NoToken, "FAILED")
    BY <1>8, AtRuns DEF FailTarget, Chosen
  <2> QED
    BY <1>1, <1>2, <2>1, ClosingIsCommit
<1>9. ASSUME TakeTarget
      PROVE  ChatMoves
  <2>1. /\ run # Off /\ run.choice.kind \in {"answer", "assign"}
        /\ Claim(ChosenTarget) \/ AssignModerated(ChosenTarget)
    BY <1>9, AtRuns DEF TakeTarget, Chosen
  <2>2. ChosenTarget \in Targets
    BY <1>2, <2>1
  <2> QED
    BY <2>1, <2>2 DEF ChatNext, ChatMoves
<1>10. ASSUME At("claimed") \/ At("asked")
       PROVE  ChosenTarget \in Targets /\ run.claim \in 0 .. MaxAttempts
  <2>1. run # Off /\ run.pc \in {"claimed", "asked"}
    BY <1>10, AtRuns DEF At
  <2>2. run.choice.kind \in {"answer", "assign"}
    BY <1>0, <2>1 DEF Acting
  <2> QED
    BY <1>2, <1>3, <2>1, <2>2
<1>11. ASSUME TargetGone
       PROVE  ChatMoves
  <2>1. At("claimed") /\ CloseInterjection(ChosenTarget, run.claim, "FAILED")
    BY <1>11 DEF TargetGone
  <2> QED
    BY <1>1, <1>10, <2>1, ClosingIsCommit
<1>12. ASSUME NEW s \in TerminalTarget, TargetAnswered(s)
       PROVE  ChatMoves
  <2>1. At("asked") /\ CloseInterjection(ChosenTarget, run.claim, s)
    BY <1>12 DEF TargetAnswered
  <2> QED
    BY <1>10, <2>1, ClosingIsCommit
<1>13. ASSUME ReleaseClaim
       PROVE  ChatMoves
  <2>1. /\ run # Off /\ run.claim # NoToken
        /\ Release(ChosenTarget, run.claim) \/ UNCHANGED chatVars
    BY <1>13, AtRuns DEF ReleaseClaim
  <2>2. run.choice.kind \in {"answer", "assign"}
    BY <1>0, <2>1 DEF Acting
  <2>3. ChosenTarget \in Targets /\ run.claim \in Attempts
    BY <1>2, <1>3, <2>1, <2>2, Constants DEF Attempts, NoToken
  <2> QED
    BY <2>1, <2>3 DEF ChatNext, ChatMoves
<1> QED
  BY <1>4, <1>6, <1>7, <1>8, <1>9, <1>11, <1>12, <1>13

\* Every step of a round is one transaction on the chat tables, or none.
LEMMA RoundStepIsChatStep ==
    ASSUME RoundInv, RoundNext
    PROVE  ChatMoves
<1>1. CASE RunStep
  BY <1>1, QuietSteps, ChattingSteps DEF RunStep, ChatMoves
<1>2. CASE RejectOpening \/ OpeningFault \/ AnnounceFails \/ Interrupt \/ Crash
  BY <1>2 DEF RejectOpening, OpeningFault, AnnounceFails, Interrupt, Crash, ChatMoves
<1>3. ASSUME NEW r \in Rounds,
             \/ \E M \in SUBSET Members : CreateRound(r, M)
             \/ ResumeRound(r) \/ RequestPause(r) \/ CancelRound(r)
      PROVE  ChatMoves
  BY <1>3 DEF CreateRound, ResumeRound, RequestPause, CancelRound, ChatMoves
<1>4. ASSUME NEW r \in Rounds, NEW q \in Requests, NEW md \in {"explicit", "moderated"},
             NEW M \in SUBSET Members, PostInterjection(q, r, md, M)
      PROVE  ChatMoves
  BY <1>4 DEF PostInterjection, ChatNext, ChatMoves
<1>5. ASSUME NEW q \in Requests, RefusedResume(q)
      PROVE  ChatMoves
  <2>1. RecoverExpired({q}) /\ {q} \in SUBSET Requests
    BY <1>5 DEF RefusedResume
  <2> QED
    BY <2>1 DEF ChatNext, ChatMoves
<1>6. ASSUME NEW m \in Members, SetMemberEnabled(m)
      PROVE  ChatMoves
  BY <1>6 DEF SetMemberEnabled, ChatMoves
<1>7. ASSUME NEW t \in Targets, Expire(t)
      PROVE  ChatMoves
  BY <1>7 DEF Expire, ChatNext, ChatMoves
<1>8. CASE Restart
  BY <1>8 DEF Restart, ChatNext, ChatMoves
<1> QED
  BY <1>1, <1>2, <1>3, <1>4, <1>5, <1>6, <1>7, <1>8 DEF RoundNext

\* A round uses the chat tables as any caller may: every step of the scheduler,
\* its handlers and its crashes is one transaction of the store, or none.
THEOREM RoundsImplementStore == RoundSafetySpec => ChatSpec
<1>1. RoundInit => ChatInit
  BY DEF RoundInit
<1>2. RoundInv /\ [RoundNext]_roundVars => [ChatNext]_chatVars
  <2>1. RoundInv /\ RoundNext => ChatMoves
    BY RoundStepIsChatStep
  <2> QED
    BY <2>1 DEF roundVars, ChatMoves
<1> QED
  BY <1>1, <1>2, RoundInvariant, PTL DEF RoundSafetySpec, ChatSpec

\* What a round reads as the state of an interjection is what its targets say,
\* through drains, crashes and refused resumes (RequestAgreesWithTargets).
THEOREM RoundRequestsAgree == RoundSafetySpec => []RequestAgreesWithTargets
BY RoundsImplementStore, RequestsAgree

\* An interjection is opened once and answered once, however often its round
\* is interrupted and resumed (ImplementsAnswerOnce).
THEOREM RoundsAnswerOnce == RoundSafetySpec => ImplementsAnswerOnce
BY RoundsImplementStore, StoreImplementsAnswerOnce
=============================================================================
