------------------------ MODULE ProviderLedgerProofs ------------------------
(***************************************************************************)
(* Proofs about ProviderLedger, for every set of runs, rounds and kinds and *)
(* every MaxBudget.                                                         *)
(*                                                                          *)
(* The counters of a run are inductive only together with its attempts:     *)
(* that a reservation writes a fresh row needs the numbering of the rows,   *)
(* that a run closes when its last call settles needs completed_calls to be *)
(* the number of settled rows.  LedgerInv says so for every run; a          *)
(* transaction changes one run (LedgerFrame carries the others), and        *)
(* Partition turns the counting into arithmetic.                            *)
(***************************************************************************)
EXTENDS ProviderLedger, FiniteSetTheorems, TLAPS

\* AccountsAgree and KindLimitsKept for one run.
AccountsOf(r) ==
    LET l == ledger[r] IN
    /\ Reserved(r) = 1 .. l.reserved /\ l.reserved <= l.max
    /\ l.completed = Cardinality(Settled(r))
    /\ l.status = "OPEN" => l.reserved < l.max
    /\ l.status = "EXHAUSTED" => l.reserved = l.max /\ Started(r) # {}
    /\ l.status \in ClosedRun => Started(r) = {}

KindsOf(r) == \A k \in Kinds : Cardinality(OfKind(r, k)) <= ledger[r].limit[k]

LedgerRows ==
    [status : {"NONE", "OPEN", "EXHAUSTED"} \cup ClosedRun,
     max : 0 .. MaxBudget, limit : [Kinds -> 0 .. MaxBudget],
     reserved : 0 .. MaxBudget, completed : 0 .. MaxBudget, round : Rounds \cup {NoRound}]
AttemptRows == [kind : Kinds \cup {"none"}, status : {"NONE", "STARTED"} \cup Outcomes]

\* An absent run has spent nothing.
AbsentOf(r) == ledger[r].status = "NONE" => ledger[r] = NoRun

LedgerInv ==
    /\ LedgerTypeOK
    /\ \A r \in Runs : AccountsOf(r) /\ KindsOf(r) /\ AbsentOf(r)

\* The slots of a run divide into those settled and those in flight.
LEMMA Partition ==
    ASSUME NEW r, attempt[r] \in [Slots -> AttemptRows]
    PROVE  /\ IsFiniteSet(Reserved(r)) /\ IsFiniteSet(Settled(r)) /\ IsFiniteSet(Started(r))
           /\ Cardinality(Reserved(r)) \in Nat /\ Cardinality(Settled(r)) \in Nat
           /\ Cardinality(Started(r)) \in Nat
           /\ Reserved(r) = Settled(r) \cup Started(r) /\ Settled(r) \cap Started(r) = {}
           /\ Cardinality(Reserved(r)) = Cardinality(Settled(r)) + Cardinality(Started(r))
           /\ (Cardinality(Started(r)) = 0 <=> Started(r) = {})
<1>1. IsFiniteSet(Slots)
  BY LedgerAssumption, FS_Interval DEF Slots
<1>2. /\ Reserved(r) \in SUBSET Slots /\ Settled(r) \in SUBSET Slots
      /\ Started(r) \in SUBSET Slots
  BY DEF Reserved, Settled, Started
<1>3. IsFiniteSet(Reserved(r)) /\ IsFiniteSet(Settled(r)) /\ IsFiniteSet(Started(r))
  BY <1>1, <1>2, FS_Subset
<1>4. /\ Cardinality(Reserved(r)) \in Nat /\ Cardinality(Settled(r)) \in Nat
      /\ Cardinality(Started(r)) \in Nat
  BY <1>3, FS_CardinalityType
<1>5. \A s \in Slots : attempt[r][s].status \in {"NONE", "STARTED"} \cup Outcomes
  BY DEF AttemptRows
<1>6. Reserved(r) = Settled(r) \cup Started(r) /\ Settled(r) \cap Started(r) = {}
  BY <1>5 DEF Reserved, Settled, Started, Outcomes
<1>7. Cardinality(Settled(r) \cup Started(r))
        = Cardinality(Settled(r)) + Cardinality(Started(r))
             - Cardinality(Settled(r) \cap Started(r))
  BY <1>3, FS_Union
<1>8. Cardinality(Settled(r) \cap Started(r)) = 0
  BY <1>6, FS_EmptySet
<1>9. Cardinality(Reserved(r)) = Cardinality(Settled(r)) + Cardinality(Started(r))
  <2>1. Cardinality(Reserved(r)) = Cardinality(Settled(r)) + Cardinality(Started(r)) - 0
    BY <1>6, <1>7, <1>8
  <2> QED
    BY <2>1, <1>4
<1>10. Cardinality(Started(r)) = 0 <=> Started(r) = {}
  BY <1>3, FS_EmptySet
<1> QED
  BY <1>3, <1>4, <1>6, <1>9, <1>10

\* A run that a transaction leaves alone keeps its part of the invariant.
LEMMA LedgerFrame ==
    ASSUME NEW r, ledger'[r] = ledger[r], attempt'[r] = attempt[r],
           AccountsOf(r), KindsOf(r), AbsentOf(r)
    PROVE  AccountsOf(r)' /\ KindsOf(r)' /\ AbsentOf(r)'
<1>1. /\ Reserved(r)' = Reserved(r) /\ Settled(r)' = Settled(r) /\ Started(r)' = Started(r)
      /\ \A k : OfKind(r, k)' = OfKind(r, k)
  BY DEF Reserved, Settled, Started, OfKind
<1> QED
  BY <1>1 DEF AccountsOf, KindsOf, AbsentOf

\* Hence a transaction on one run has to be examined for that run only.
LEMMA OneRun ==
    ASSUME LedgerInv, NEW r \in Runs,
           NEW row \in LedgerRows, ledger' = [ledger EXCEPT ![r] = row],
           NEW rows \in [Slots -> AttemptRows], attempt' = [attempt EXCEPT ![r] = rows],
           AccountsOf(r)', KindsOf(r)', AbsentOf(r)'
    PROVE  LedgerInv'
<1>1. ledger \in [Runs -> LedgerRows] /\ attempt \in [Runs -> [Slots -> AttemptRows]]
  BY DEF LedgerInv, LedgerTypeOK, LedgerRows, AttemptRows
<1>2. ledger' \in [Runs -> LedgerRows] /\ attempt' \in [Runs -> [Slots -> AttemptRows]]
  BY <1>1
<1>3. LedgerTypeOK'
  BY <1>2 DEF LedgerTypeOK, LedgerRows, AttemptRows
<1>4. ASSUME NEW x \in Runs PROVE (AccountsOf(x) /\ KindsOf(x) /\ AbsentOf(x))'
  <2>1. CASE x = r
    BY <2>1
  <2>2. CASE x # r
    <3>1. ledger'[x] = ledger[x] /\ attempt'[x] = attempt[x]
      BY <1>1, <2>2
    <3> QED
      BY <3>1, LedgerFrame DEF LedgerInv
  <2> QED
    BY <2>1, <2>2
<1> QED
  BY <1>3, <1>4 DEF LedgerInv

LEMMA UpTo == ASSUME NEW n \in Nat PROVE Cardinality(1 .. n) = n
<1>1. 1 \in Int /\ n \in Int
  OBVIOUS
<1>2. Cardinality(1 .. n) = IF 1 > n THEN 0 ELSE n - 1 + 1
  BY <1>1, FS_Interval, Zenon
<1> QED
  BY <1>2

\* What the type and the accounts of one run say about its numbers.
LEMMA RunFacts ==
    ASSUME LedgerInv, NEW r \in Runs
    PROVE  /\ ledger \in [Runs -> LedgerRows] /\ attempt \in [Runs -> [Slots -> AttemptRows]]
           /\ ledger[r].reserved \in Nat /\ ledger[r].completed \in Nat /\ ledger[r].max \in Nat
           /\ ledger[r].reserved <= ledger[r].max /\ ledger[r].max <= MaxBudget
           /\ Cardinality(Started(r)) \in Nat
           /\ ledger[r].reserved = ledger[r].completed + Cardinality(Started(r))
           /\ (Cardinality(Started(r)) = 0 <=> Started(r) = {})
<1>1. ledger \in [Runs -> LedgerRows] /\ attempt \in [Runs -> [Slots -> AttemptRows]]
  BY DEF LedgerInv, LedgerTypeOK, LedgerRows, AttemptRows
<1>2. AccountsOf(r)
  BY DEF LedgerInv
<1>3. /\ ledger[r].reserved \in Nat /\ ledger[r].completed \in Nat /\ ledger[r].max \in Nat
      /\ ledger[r].max <= MaxBudget
  BY <1>1, LedgerAssumption DEF LedgerRows
<1>4. Cardinality(Reserved(r)) = ledger[r].reserved
  BY <1>2, <1>3, UpTo DEF AccountsOf
<1>5. attempt[r] \in [Slots -> AttemptRows]
  BY <1>1
<1>6. /\ Cardinality(Started(r)) \in Nat
      /\ Cardinality(Reserved(r)) = Cardinality(Settled(r)) + Cardinality(Started(r))
      /\ (Cardinality(Started(r)) = 0 <=> Started(r) = {})
  BY <1>5, Partition
<1> QED
  BY <1>1, <1>2, <1>3, <1>4, <1>6 DEF AccountsOf

-----------------------------------------------------------------------------
(* One lemma per transaction.                                               *)

LEMMA InitLedgerInv == LedgerInit => LedgerInv
<1> SUFFICES ASSUME LedgerInit PROVE LedgerInv
  OBVIOUS
<1>1. LedgerTypeOK
  BY LedgerAssumption DEF LedgerInit, LedgerTypeOK, NoRun, NoAttempt
<1>2. ASSUME NEW r \in Runs PROVE AccountsOf(r) /\ KindsOf(r) /\ AbsentOf(r)
  <2>1. ledger[r] = NoRun /\ \A s \in Slots : attempt[r][s] = NoAttempt
    BY DEF LedgerInit
  <2>2. Reserved(r) = {} /\ Settled(r) = {} /\ \A k \in Kinds : OfKind(r, k) = {}
    BY <2>1 DEF Reserved, Settled, OfKind, NoAttempt, Outcomes
  <2>3. AccountsOf(r)
    BY <2>1, <2>2, FS_EmptySet DEF AccountsOf, NoRun, ClosedRun
  <2>4. KindsOf(r)
    BY <2>1, <2>2, FS_EmptySet DEF KindsOf, NoRun
  <2> QED
    BY <2>1, <2>3, <2>4 DEF AbsentOf
<1> QED
  BY <1>1, <1>2 DEF LedgerInv

LEMMA CreateLedgerInv ==
    ASSUME LedgerInv, NEW r \in Runs, NEW max \in 1 .. MaxBudget,
           NEW limit \in [Kinds -> 0 .. MaxBudget], CreateRun(r, max, limit)
    PROVE  LedgerInv'
<1> DEFINE row == [NoRun EXCEPT !.status = "OPEN", !.max = max, !.limit = limit]
<1>1. ledger[r] = NoRun
  BY DEF CreateRun, Created, LedgerInv, AbsentOf
<1>2. ledger' = [ledger EXCEPT ![r] = row] /\ attempt' = attempt
  BY DEF CreateRun
<1>3. ledger'[r] = row /\ attempt' = [attempt EXCEPT ![r] = attempt[r]]
  BY <1>2, RunFacts
<1>4. row \in LedgerRows /\ attempt[r] \in [Slots -> AttemptRows]
  <2>1. max \in 0 .. MaxBudget /\ 0 \in 0 .. MaxBudget
    BY LedgerAssumption
  <2>2. NoRun \in LedgerRows
    BY <2>1 DEF LedgerRows, NoRun
  <2>3. row \in LedgerRows
    BY <2>1, <2>2 DEF LedgerRows
  <2> QED
    BY <2>3, RunFacts
<1>5. /\ Reserved(r)' = Reserved(r) /\ Settled(r)' = Settled(r) /\ Started(r)' = Started(r)
      /\ \A k : OfKind(r, k)' = OfKind(r, k)
  BY <1>2 DEF Reserved, Settled, Started, OfKind
<1>6. Reserved(r) = {} /\ Cardinality(Settled(r)) = 0
  BY <1>1 DEF LedgerInv, AccountsOf, NoRun
<1>7. AccountsOf(r)'
  BY <1>3, <1>5, <1>6 DEF AccountsOf, NoRun, ClosedRun
<1>8. \A k \in Kinds : OfKind(r, k) = {}
  BY <1>6 DEF OfKind
<1>9. KindsOf(r)'
  BY <1>3, <1>5, <1>8, FS_EmptySet DEF KindsOf, NoRun
<1>10. AbsentOf(r)'
  BY <1>3 DEF AbsentOf, NoRun
<1> QED
  BY <1>2, <1>3, <1>4, <1>7, <1>9, <1>10, OneRun

LEMMA BindLedgerInv ==
    ASSUME LedgerInv, NEW r \in Runs, NEW d \in Rounds, BindRound(r, d)
    PROVE  LedgerInv'
<1> DEFINE row == [ledger[r] EXCEPT !.round = d]
<1>1. ledger' = [ledger EXCEPT ![r] = row] /\ attempt' = attempt
  BY DEF BindRound
<1>2. ledger[r] \in LedgerRows
  BY RunFacts
<1>3. ledger'[r] = row /\ attempt' = [attempt EXCEPT ![r] = attempt[r]]
  BY <1>1, RunFacts
<1>4. row \in LedgerRows /\ attempt[r] \in [Slots -> AttemptRows]
  BY <1>2, RunFacts DEF LedgerRows
<1>5. /\ Reserved(r)' = Reserved(r) /\ Settled(r)' = Settled(r) /\ Started(r)' = Started(r)
      /\ \A k : OfKind(r, k)' = OfKind(r, k)
  BY <1>1 DEF Reserved, Settled, Started, OfKind
<1>6. /\ row.status = ledger[r].status /\ row.max = ledger[r].max
      /\ row.limit = ledger[r].limit /\ row.reserved = ledger[r].reserved
      /\ row.completed = ledger[r].completed
  BY <1>2 DEF LedgerRows
<1>7. AccountsOf(r)' /\ KindsOf(r)'
  BY <1>3, <1>5, <1>6 DEF LedgerInv, AccountsOf, KindsOf
<1>8. AbsentOf(r)'
  BY <1>3, <1>6 DEF AbsentOf, BindRound, Created
<1> QED
  BY <1>1, <1>3, <1>4, <1>7, <1>8, OneRun

LEMMA CloseLedgerInv ==
    ASSUME LedgerInv, NEW r \in Runs, NEW o \in ClosedRun, CloseRun(r, o)
    PROVE  LedgerInv'
<1> DEFINE row == [ledger[r] EXCEPT !.status = o]
<1>1. ledger' = [ledger EXCEPT ![r] = row] /\ attempt' = attempt
  BY DEF CloseRun
<1>2. ledger[r] \in LedgerRows
  BY RunFacts
<1>3. ledger'[r] = row /\ attempt' = [attempt EXCEPT ![r] = attempt[r]]
  BY <1>1, RunFacts
<1>4. row \in LedgerRows /\ attempt[r] \in [Slots -> AttemptRows]
  BY <1>2, RunFacts DEF LedgerRows
<1>5. /\ Reserved(r)' = Reserved(r) /\ Settled(r)' = Settled(r) /\ Started(r)' = Started(r)
      /\ \A k : OfKind(r, k)' = OfKind(r, k)
  BY <1>1 DEF Reserved, Settled, Started, OfKind
<1>6. /\ row.status = o /\ row.max = ledger[r].max
      /\ row.limit = ledger[r].limit /\ row.reserved = ledger[r].reserved
      /\ row.completed = ledger[r].completed
  BY <1>2 DEF LedgerRows
<1>7. o # "NONE" /\ o # "OPEN" /\ o # "EXHAUSTED" /\ Started(r) = {}
  BY DEF CloseRun, ClosedRun
<1>8. AccountsOf(r)' /\ KindsOf(r)' /\ AbsentOf(r)'
  BY <1>3, <1>5, <1>6, <1>7 DEF LedgerInv, AccountsOf, KindsOf, AbsentOf
<1> QED
  BY <1>1, <1>3, <1>4, <1>8, OneRun
LEMMA ReserveLedgerInv ==
    ASSUME LedgerInv, NEW r \in Runs, NEW k \in Kinds, Reserve(r, k)
    PROVE  LedgerInv'
<1> DEFINE l == ledger[r]
           n == l.reserved + 1
           row == [l EXCEPT !.reserved = n, !.status = IF n >= l.max THEN "EXHAUSTED" ELSE "OPEN"]
           call == [kind |-> k, status |-> "STARTED"]
           rows == [attempt[r] EXCEPT ![n] = call]
<1>1. ledger' = [ledger EXCEPT ![r] = row] /\ attempt' = [attempt EXCEPT ![r] = rows]
  BY DEF Reserve
<1>2. l \in LedgerRows /\ attempt[r] \in [Slots -> AttemptRows]
  BY RunFacts
<1>3. /\ l.status = "OPEN" /\ l.reserved < l.max /\ l.reserved \in Nat
      /\ l.max \in Nat /\ l.max <= MaxBudget /\ MaxBudget \in Nat
      /\ Cardinality(OfKind(r, k)) < l.limit[k]
  BY RunFacts, LedgerAssumption DEF Reserve
<1>4. n \in Slots /\ n \in 0 .. MaxBudget /\ n \in Nat /\ n <= l.max
  BY <1>3 DEF Slots
<1>5. row \in LedgerRows
  BY <1>2, <1>4 DEF LedgerRows
<1>6. rows \in [Slots -> AttemptRows]
  BY <1>2, <1>4 DEF AttemptRows
<1>7. ledger'[r] = row /\ attempt'[r] = rows
  BY <1>1, RunFacts
<1>8. /\ row.status = IF n >= l.max THEN "EXHAUSTED" ELSE "OPEN"
      /\ row.max = l.max /\ row.limit = l.limit /\ row.reserved = n
      /\ row.completed = l.completed
  BY <1>2 DEF LedgerRows
<1>9. /\ rows[n] = call
      /\ \A s \in Slots \ {n} : rows[s] = attempt[r][s]
  BY <1>2, <1>4
<1>10. Reserved(r) = 1 .. l.reserved /\ l.completed = Cardinality(Settled(r))
  BY DEF LedgerInv, AccountsOf
<1>11. n \notin Reserved(r) /\ attempt[r][n].status = "NONE"
  BY <1>3, <1>4, <1>10 DEF Reserved
<1>12. Reserved(r)' = Reserved(r) \cup {n}
  BY <1>4, <1>7, <1>9 DEF Reserved
<1>13. Settled(r)' = Settled(r)
  BY <1>4, <1>7, <1>9, <1>11 DEF Settled, Outcomes
<1>14. n \in Started(r)'
  BY <1>4, <1>7, <1>9 DEF Started
<1>15. Reserved(r)' = 1 .. n
  BY <1>3, <1>10, <1>12
<1>16. AccountsOf(r)'
  BY <1>3, <1>4, <1>7, <1>8, <1>10, <1>13, <1>14, <1>15 DEF AccountsOf, ClosedRun
<1>17. KindsOf(r)'
  <2> SUFFICES ASSUME NEW j \in Kinds
               PROVE  Cardinality(OfKind(r, j))' <= row.limit[j]
    BY <1>7 DEF KindsOf
  <2>1. CASE j = k
    <3>1. OfKind(r, k)' = OfKind(r, k) \cup {n} /\ n \notin OfKind(r, k)
      BY <1>4, <1>7, <1>9, <1>11, <1>12 DEF OfKind, Reserved
    <3>2. IsFiniteSet(OfKind(r, k)) /\ Cardinality(OfKind(r, k)) \in Nat
      BY <1>2, Partition, FS_Subset, FS_CardinalityType DEF OfKind
    <3>3. Cardinality(OfKind(r, k))' = Cardinality(OfKind(r, k)) + 1
      BY <3>1, <3>2, FS_AddElement
    <3>4. l.limit[k] \in Nat
      BY <1>2, LedgerAssumption DEF LedgerRows
    <3> QED
      BY <1>3, <1>8, <2>1, <3>2, <3>3, <3>4
  <2>2. CASE j # k
    <3>1. OfKind(r, j)' = OfKind(r, j)
      BY <1>4, <1>7, <1>9, <1>11, <1>12, <2>2 DEF OfKind, Reserved
    <3>2. Cardinality(OfKind(r, j)) <= l.limit[j]
      BY DEF LedgerInv, KindsOf
    <3> QED
      BY <1>8, <3>1, <3>2
  <2> QED
    BY <2>1, <2>2
<1>18. AbsentOf(r)'
  BY <1>7, <1>8 DEF AbsentOf
<1> QED
  BY <1>1, <1>5, <1>6, <1>16, <1>17, <1>18, OneRun

\* The row after n calls settled is a row, and only its completed_calls and
\* its status have changed, the latter when the last calls of a spent run
\* have settled.
LEMMA SettlingFacts ==
    ASSUME NEW l \in LedgerRows, NEW n \in Nat, l.completed + n <= MaxBudget
    PROVE  LET row == AfterSettling(l, n) IN
           /\ row \in LedgerRows
           /\ row.max = l.max /\ row.limit = l.limit /\ row.reserved = l.reserved
           /\ row.round = l.round /\ row.completed = l.completed + n
           /\ row.status = IF l.status = "EXHAUSTED" /\ l.completed + n = l.reserved
                           THEN "COMPLETED" ELSE l.status
<1>1. l.completed \in Nat /\ l.completed + n \in 0 .. MaxBudget
  BY LedgerAssumption DEF LedgerRows
<1> QED
  BY <1>1 DEF AfterSettling, LedgerRows, ClosedRun

\* What finishing a call and abandoning the lost ones have in common: the
\* started calls in done get an outcome.
SettlesCalls(r, done, rows) ==
    /\ done \in SUBSET Started(r) /\ done # {}
    /\ rows \in [Slots -> AttemptRows]
    /\ \A s \in Slots : rows[s].kind = attempt[r][s].kind
    /\ \A s \in done : rows[s].status \in Outcomes
    /\ \A s \in Slots \ done : rows[s] = attempt[r][s]
    /\ attempt' = [attempt EXCEPT ![r] = rows]
    /\ ledger' = [ledger EXCEPT ![r] = AfterSettling(ledger[r], Cardinality(done))]

LEMMA SettleLedgerInv ==
    ASSUME LedgerInv, NEW r \in Runs, NEW done, NEW rows, SettlesCalls(r, done, rows)
    PROVE  LedgerInv'
<1> USE DEF SettlesCalls
<1> DEFINE l == ledger[r]
           n == Cardinality(done)
           row == AfterSettling(l, n)
<1>1. l \in LedgerRows /\ attempt[r] \in [Slots -> AttemptRows]
  BY RunFacts
<1>2. /\ IsFiniteSet(Started(r)) /\ IsFiniteSet(Settled(r))
      /\ Settled(r) \cap Started(r) = {}
  BY <1>1, Partition
<1>3. IsFiniteSet(done) /\ n \in Nat /\ n <= Cardinality(Started(r))
      /\ n # 0 /\ (n = Cardinality(Started(r)) => done = Started(r))
  BY <1>2, FS_Subset, FS_CardinalityType, FS_EmptySet
<1>4. /\ l.completed \in Nat /\ l.reserved \in Nat /\ l.reserved <= MaxBudget
      /\ Cardinality(Started(r)) \in Nat
      /\ l.reserved = l.completed + Cardinality(Started(r))
  BY RunFacts, LedgerAssumption
<1>5. l.completed + n <= MaxBudget
  BY <1>3, <1>4, LedgerAssumption
<1>6. /\ row \in LedgerRows
      /\ row.max = l.max /\ row.limit = l.limit /\ row.reserved = l.reserved
      /\ row.completed = l.completed + n
      /\ row.status = IF l.status = "EXHAUSTED" /\ l.completed + n = l.reserved
                      THEN "COMPLETED" ELSE l.status
  BY <1>1, <1>3, <1>5, SettlingFacts
<1>7. ledger'[r] = row /\ attempt'[r] = rows
  BY RunFacts
<1>8. done \in SUBSET Slots /\ \A s \in done : attempt[r][s].status = "STARTED"
  BY DEF Started
<1>9. Reserved(r)' = Reserved(r)
  BY <1>7, <1>8 DEF Reserved, Outcomes
<1>10. Settled(r)' = Settled(r) \cup done
  BY <1>7, <1>8 DEF Settled
<1>11. Started(r)' = Started(r) \ done
  BY <1>7, <1>8 DEF Started, Outcomes
<1>12. Cardinality(Settled(r) \cup done) = Cardinality(Settled(r)) + n
  <2>1. Settled(r) \cap done = {}
    BY <1>2
  <2>2. Cardinality(Settled(r) \cap done) = 0
    BY <2>1, FS_EmptySet
  <2>3. Cardinality(Settled(r) \cup done)
          = Cardinality(Settled(r)) + n - Cardinality(Settled(r) \cap done)
    BY <1>2, <1>3, FS_Union
  <2>4. Cardinality(Settled(r)) \in Nat
    BY <1>2, FS_CardinalityType
  <2> QED
    BY <1>3, <2>2, <2>3, <2>4
<1>13. Started(r)' = {} <=> l.completed + n = l.reserved
  <2>1. n = Cardinality(Started(r)) <=> done = Started(r)
    BY <1>3
  <2>2. Started(r)' = {} <=> done = Started(r)
    BY <1>11
  <2>3. l.completed + n = l.reserved <=> n = Cardinality(Started(r))
    BY <1>3, <1>4
  <2> QED
    BY <2>1, <2>2, <2>3
<1>14. AccountsOf(r)
  BY DEF LedgerInv
<1>15. AccountsOf(r)'
  BY <1>6, <1>7, <1>9, <1>10, <1>11, <1>12, <1>13, <1>14 DEF AccountsOf, ClosedRun
<1>16. \A k : OfKind(r, k)' = OfKind(r, k)
  BY <1>7, <1>9 DEF OfKind, Reserved
<1>17. KindsOf(r)'
  BY <1>6, <1>7, <1>16 DEF LedgerInv, KindsOf
<1>18. AbsentOf(r)'
  <2>1. l.status # "NONE"
    BY <1>3, <1>4 DEF LedgerInv, AbsentOf, NoRun
  <2> QED
    BY <1>6, <1>7, <2>1 DEF AbsentOf
<1> QED
  BY <1>6, <1>15, <1>17, <1>18, OneRun

LEMMA FinishSettles ==
    ASSUME LedgerInv, NEW r \in Runs, NEW s \in Slots, NEW o \in Outcomes,
           FinishCall(r, s, o)
    PROVE  \E rows : SettlesCalls(r, {s}, rows)
<1> DEFINE rows == [attempt[r] EXCEPT ![s].status = o]
<1>1. attempt[r] \in [Slots -> AttemptRows] /\ attempt[r][s] \in AttemptRows
  BY RunFacts
<1>2. rows \in [Slots -> AttemptRows]
  BY <1>1 DEF AttemptRows
<1>3. /\ rows[s].kind = attempt[r][s].kind /\ rows[s].status = o
      /\ \A x \in Slots \ {s} : rows[x] = attempt[r][x]
  BY <1>1 DEF AttemptRows
<1>4. Cardinality({s}) = 1
  BY FS_Singleton
<1>5. {s} \in SUBSET Started(r)
  BY DEF FinishCall, Started
<1>6. /\ attempt' = [attempt EXCEPT ![r] = rows]
      /\ ledger' = [ledger EXCEPT ![r] = AfterSettling(ledger[r], Cardinality({s}))]
  BY <1>4 DEF FinishCall
<1>7. SettlesCalls(r, {s}, rows)
  BY <1>2, <1>3, <1>5, <1>6 DEF SettlesCalls
<1> QED
  BY <1>7

LEMMA AbandonSettles ==
    ASSUME LedgerInv, NEW r \in Runs, AbandonStarted(r)
    PROVE  \E rows : SettlesCalls(r, Started(r), rows)
<1> DEFINE rows == [s \in Slots |-> IF s \in Started(r)
                                    THEN [attempt[r][s] EXCEPT !.status = "ABANDONED"]
                                    ELSE attempt[r][s]]
<1>1. attempt[r] \in [Slots -> AttemptRows]
  BY RunFacts
<1>2. rows \in [Slots -> AttemptRows]
  BY <1>1 DEF AttemptRows, Outcomes
<1>3. /\ \A s \in Slots : rows[s].kind = attempt[r][s].kind
      /\ \A s \in Started(r) : rows[s].status \in Outcomes
      /\ \A s \in Slots \ Started(r) : rows[s] = attempt[r][s]
  BY <1>1 DEF AttemptRows, Outcomes, Started
<1>4. /\ attempt' = [attempt EXCEPT ![r] = rows] /\ Started(r) # {}
      /\ ledger' = [ledger EXCEPT ![r] = AfterSettling(ledger[r], Cardinality(Started(r)))]
  BY DEF AbandonStarted
<1>5. SettlesCalls(r, Started(r), rows)
  BY <1>2, <1>3, <1>4 DEF SettlesCalls
<1> QED
  BY <1>5

LEMMA StepLedgerInv ==
    ASSUME LedgerInv, [LedgerNext]_ledgerVars
    PROVE  LedgerInv'
<1>1. CASE LedgerNext
  <2>1. PICK r \in Runs : LedgerStep(r)
    BY <1>1 DEF LedgerNext
  <2>2. CASE \E d \in Rounds : BindRound(r, d)
    BY <2>2, BindLedgerInv
  <2>3. CASE \E k \in Kinds : Reserve(r, k)
    BY <2>3, ReserveLedgerInv
  <2>4. CASE \E s \in Slots, o \in Outcomes : FinishCall(r, s, o)
    BY <2>4, FinishSettles, SettleLedgerInv
  <2>5. CASE AbandonStarted(r)
    BY <2>5, AbandonSettles, SettleLedgerInv
  <2>6. CASE \E o \in ClosedRun : CloseRun(r, o)
    BY <2>6, CloseLedgerInv
  <2>7. CASE \E max \in 1 .. MaxBudget, limit \in [Kinds -> 0 .. MaxBudget] :
                CreateRun(r, max, limit)
    BY <2>7, CreateLedgerInv
  <2> QED
    BY <2>1, <2>2, <2>3, <2>4, <2>5, <2>6, <2>7 DEF LedgerStep
<1>2. CASE UNCHANGED ledgerVars
  <2>1. ledger' = ledger /\ attempt' = attempt
    BY <1>2 DEF ledgerVars
  <2>2. \A r \in Runs : (AccountsOf(r) /\ KindsOf(r) /\ AbsentOf(r))'
    BY <2>1, LedgerFrame DEF LedgerInv
  <2>3. LedgerTypeOK'
    BY <2>1 DEF LedgerInv, LedgerTypeOK
  <2> QED
    BY <2>2, <2>3 DEF LedgerInv
<1> QED
  BY <1>1, <1>2

-----------------------------------------------------------------------------

LEMMA LedgerInvHolds == LedgerSpec => []LedgerInv
  BY InitLedgerInv, StepLedgerInv, PTL DEF LedgerSpec

\* The rows of the ledger keep their types: no transaction counts past the
\* largest budget or invents a status.
THEOREM LedgerTypeCorrect == LedgerSpec => []LedgerTypeOK
<1>1. LedgerInv => LedgerTypeOK
  BY DEF LedgerInv
<1> QED
  BY <1>1, LedgerInvHolds, PTL

\* The counters and the status of every run agree with its attempts.
THEOREM AccountsHold == LedgerSpec => []AccountsAgree
<1>1. LedgerInv => AccountsAgree
  BY DEF LedgerInv, AccountsAgree, AccountsOf
<1> QED
  BY <1>1, LedgerInvHolds, PTL

\* No run makes more calls of a kind than were sealed for it.
THEOREM KindLimitsHold == LedgerSpec => []KindLimitsKept
<1>1. LedgerInv => KindLimitsKept
  BY DEF LedgerInv, KindLimitsKept, KindsOf
<1> QED
  BY <1>1, LedgerInvHolds, PTL

-----------------------------------------------------------------------------

\* LedgerIsFinal for one run.
FinalOf(r) ==
    /\ ledger'[r].max = ledger[r].max /\ ledger'[r].limit = ledger[r].limit
    /\ ledger[r].round # NoRound => ledger'[r].round = ledger[r].round
    /\ \A s \in Reserved(r) :
          /\ attempt'[r][s].kind = attempt[r][s].kind
          /\ s \in Settled(r) => attempt'[r][s] = attempt[r][s]

LEMMA SettleFinal ==
    ASSUME LedgerInv, NEW r \in Runs, NEW done, NEW rows, SettlesCalls(r, done, rows)
    PROVE  FinalOf(r)
<1>1. ledger \in [Runs -> LedgerRows] /\ attempt \in [Runs -> [Slots -> AttemptRows]]
  BY RunFacts
<1>2. /\ ledger'[r] = AfterSettling(ledger[r], Cardinality(done)) /\ attempt'[r] = rows
  BY <1>1 DEF SettlesCalls
<1>3. /\ ledger'[r].max = ledger[r].max /\ ledger'[r].limit = ledger[r].limit
      /\ ledger'[r].round = ledger[r].round
  BY <1>1, <1>2 DEF AfterSettling, LedgerRows
<1>4. \A s \in Settled(r) : s \notin done
  BY DEF SettlesCalls, Settled, Started, Outcomes
<1> QED
  BY <1>2, <1>3, <1>4 DEF FinalOf, SettlesCalls, Reserved, Settled

LEMMA ReserveFinal ==
    ASSUME LedgerInv, NEW r \in Runs, NEW k \in Kinds, Reserve(r, k)
    PROVE  FinalOf(r)
<1> DEFINE n == ledger[r].reserved + 1
<1>1. ledger \in [Runs -> LedgerRows] /\ attempt \in [Runs -> [Slots -> AttemptRows]]
  BY RunFacts
<1>2. /\ ledger'[r].max = ledger[r].max /\ ledger'[r].limit = ledger[r].limit
      /\ ledger'[r].round = ledger[r].round
  BY <1>1 DEF Reserve, LedgerRows
<1>3. n \notin Reserved(r)
  BY RunFacts DEF LedgerInv, AccountsOf
<1>4. \A s \in Reserved(r) : attempt'[r][s] = attempt[r][s]
  BY <1>1, <1>3 DEF Reserve, Reserved
<1> QED
  BY <1>2, <1>4 DEF FinalOf

\* Budgets, limits, bindings and outcomes are written once.
THEOREM LedgerFinalHolds == LedgerSpec => LedgerIsFinal
<1>1. ASSUME LedgerInv, [LedgerNext]_ledgerVars
      PROVE  [\A r \in Runs : Created(r) => FinalOf(r)]_ledgerVars
  <2>1. CASE LedgerNext
    <3>1. PICK x \in Runs : LedgerStep(x)
      BY <2>1 DEF LedgerNext
    <3> SUFFICES ASSUME NEW r \in Runs, Created(r) PROVE FinalOf(r)
      OBVIOUS
    <3>2. ledger \in [Runs -> LedgerRows] /\ attempt \in [Runs -> [Slots -> AttemptRows]]
      BY <1>1, RunFacts
    <3>3. CASE r # x
      <4>1. ledger'[r] = ledger[r] /\ attempt'[r] = attempt[r]
        BY <3>1, <3>2, <3>3
        DEF LedgerStep, BindRound, Reserve, FinishCall, AbandonStarted, CloseRun, CreateRun
      <4> QED
        BY <4>1 DEF FinalOf
    <3>4. CASE r = x
      <4>1. CASE \E d \in Rounds : BindRound(r, d)
        BY <3>2, <4>1 DEF BindRound, FinalOf, LedgerRows
      <4>2. CASE \E k \in Kinds : Reserve(r, k)
        BY <1>1, <4>2, ReserveFinal
      <4>3. CASE \E s \in Slots, o \in Outcomes : FinishCall(r, s, o)
        BY <1>1, <4>3, FinishSettles, SettleFinal
      <4>4. CASE AbandonStarted(r)
        BY <1>1, <4>4, AbandonSettles, SettleFinal
      <4>5. CASE \E o \in ClosedRun : CloseRun(r, o)
        BY <3>2, <4>5 DEF CloseRun, FinalOf, LedgerRows
      <4> QED
        BY <3>1, <3>4, <4>1, <4>2, <4>3, <4>4, <4>5 DEF LedgerStep
    <3> QED
      BY <3>3, <3>4
  <2>2. CASE UNCHANGED ledgerVars
    BY <2>2
  <2> QED
    BY <1>1, <2>1, <2>2
<1> QED
  BY <1>1, LedgerInvHolds, PTL DEF LedgerSpec, LedgerIsFinal, FinalOf

-----------------------------------------------------------------------------
(* The refinement.                                                          *)

\* The state of the abstract budget.
granted == {r \in Runs : Created(r)}
left == [r \in Runs |-> ledger[r].max - ledger[r].reserved]
pending == [r \in Runs |-> ledger[r].reserved - ledger[r].completed]

\* Settling calls is a settlement of the abstract budget.
LEMMA SettleRefines ==
    ASSUME LedgerInv, NEW r \in Runs, NEW done, NEW rows, SettlesCalls(r, done, rows)
    PROVE  Budget!Settle(r)
<1> DEFINE l == ledger[r]
           n == Cardinality(done)
<1>1. ledger \in [Runs -> LedgerRows]
  BY RunFacts
<1>2. /\ l.completed \in Nat /\ l.reserved \in Nat /\ l.max \in Nat
      /\ l.reserved <= l.max /\ l.max <= MaxBudget
      /\ Cardinality(Started(r)) \in Nat /\ l.reserved = l.completed + Cardinality(Started(r))
  BY RunFacts
<1>3. n \in Nat /\ n # 0 /\ n <= Cardinality(Started(r))
  <2>1. IsFiniteSet(Started(r))
    BY RunFacts, Partition
  <2> QED
    BY <2>1, FS_Subset, FS_CardinalityType, FS_EmptySet DEF SettlesCalls
<1>4. /\ ledger' = [ledger EXCEPT ![r] = AfterSettling(l, n)]
      /\ l.completed + n <= MaxBudget
  BY <1>2, <1>3, LedgerAssumption DEF SettlesCalls
<1>5. /\ ledger'[r].status # "NONE" /\ l.status # "NONE" /\ ledger'[r].max = l.max
      /\ ledger'[r].reserved = l.reserved /\ ledger'[r].completed = l.completed + n
      /\ \A x \in Runs \ {r} : ledger'[x] = ledger[x]
  <2>1. l.status # "NONE"
    BY <1>2, <1>3 DEF LedgerInv, AbsentOf, NoRun
  <2>2. l \in LedgerRows
    BY <1>1
  <2>3. ledger'[r] = AfterSettling(l, n) /\ \A x \in Runs \ {r} : ledger'[x] = ledger[x]
    BY <1>1, <1>4
  <2> QED
    BY <1>3, <1>4, <2>1, <2>2, <2>3, SettlingFacts
<1>6. granted' = granted
  BY <1>5 DEF granted, Created
<1>7. left' = left
  BY <1>5 DEF left
<1>8. n \in 1 .. pending[r] /\ pending' = [pending EXCEPT ![r] = @ - n]
  <2>1. pending[r] = Cardinality(Started(r)) /\ pending[r] = l.reserved - l.completed
    BY <1>2 DEF pending
  <2>2. n \in 1 .. pending[r]
    BY <1>2, <1>3, <2>1
  <2>3. l.reserved - (l.completed + n) = pending[r] - n
    BY <1>2, <1>3, <2>1
  <2>4. \A x \in Runs : ledger'[x].reserved - ledger'[x].completed
                          = IF x = r THEN pending[r] - n ELSE pending[x]
    BY <1>5, <2>3 DEF pending
  <2>5. pending' = [pending EXCEPT ![r] = @ - n]
    BY <2>4 DEF pending
  <2> QED
    BY <2>2, <2>5
<1> QED
  BY <1>6, <1>7, <1>8 DEF Budget!Settle, granted, left, pending

LEMMA ReserveRefines ==
    ASSUME LedgerInv, NEW r \in Runs, NEW k \in Kinds, Reserve(r, k)
    PROVE  Budget!Spend(r)
<1> DEFINE l == ledger[r]
<1>1. ledger \in [Runs -> LedgerRows]
  BY RunFacts
<1>2. /\ l.completed \in Nat /\ l.reserved \in Nat /\ l.max \in Nat
      /\ l.status = "OPEN" /\ l.reserved < l.max
  BY RunFacts DEF Reserve
<1>3. /\ ledger'[r].status # "NONE" /\ ledger'[r].max = l.max
      /\ ledger'[r].reserved = l.reserved + 1 /\ ledger'[r].completed = l.completed
      /\ \A x \in Runs \ {r} : ledger'[x] = ledger[x]
  BY <1>1 DEF Reserve, LedgerRows
<1>4. granted' = granted
  BY <1>2, <1>3 DEF granted, Created
<1>5. left[r] > 0 /\ left' = [left EXCEPT ![r] = @ - 1]
  <2>1. left[r] = l.max - l.reserved
    BY DEF left
  <2>2. left[r] > 0 /\ l.max - (l.reserved + 1) = left[r] - 1
    BY <1>2, <2>1
  <2>3. \A x \in Runs : ledger'[x].max - ledger'[x].reserved
                          = IF x = r THEN left[r] - 1 ELSE left[x]
    BY <1>3, <2>2 DEF left
  <2> QED
    BY <2>2, <2>3 DEF left
<1>6. pending' = [pending EXCEPT ![r] = @ + 1]
  <2>1. pending[r] = l.reserved - l.completed
    BY DEF pending
  <2>2. (l.reserved + 1) - l.completed = pending[r] + 1
    BY <1>2, <2>1
  <2>3. \A x \in Runs : ledger'[x].reserved - ledger'[x].completed
                          = IF x = r THEN pending[r] + 1 ELSE pending[x]
    BY <1>3, <2>2 DEF pending
  <2> QED
    BY <2>3 DEF pending
<1> QED
  BY <1>4, <1>5, <1>6 DEF Budget!Spend, granted, left, pending

LEMMA CreateRefines ==
    ASSUME LedgerInv, NEW r \in Runs, NEW max \in 1 .. MaxBudget,
           NEW limit \in [Kinds -> 0 .. MaxBudget], CreateRun(r, max, limit)
    PROVE  Budget!Grant(r)
<1>1. ledger[r] = NoRun /\ ledger \in [Runs -> LedgerRows]
  BY RunFacts DEF CreateRun, Created, LedgerInv, AbsentOf
<1>2. /\ ledger'[r].status = "OPEN" /\ ledger'[r].max = max
      /\ ledger'[r].reserved = 0 /\ ledger'[r].completed = 0
      /\ \A x \in Runs \ {r} : ledger'[x] = ledger[x]
  BY <1>1 DEF CreateRun, NoRun, LedgerRows
<1>3. r \notin granted /\ granted' = granted \cup {r}
  BY <1>2 DEF granted, Created, CreateRun
<1>4. left' = [left EXCEPT ![r] = max]
  <2>1. \A x \in Runs : ledger'[x].max - ledger'[x].reserved
                          = IF x = r THEN max ELSE left[x]
    BY <1>2 DEF left
  <2> QED
    BY <2>1 DEF left
<1>5. pending' = pending
  <2>1. \A x \in Runs : ledger'[x].reserved - ledger'[x].completed
                          = ledger[x].reserved - ledger[x].completed
    BY <1>1, <1>2 DEF NoRun
  <2> QED
    BY <2>1 DEF pending
<1> QED
  BY <1>3, <1>4, <1>5 DEF Budget!Grant, granted, left, pending

\* Binding and closing move no money.
LEMMA OtherRefines ==
    ASSUME LedgerInv, NEW r \in Runs,
           \/ \E d \in Rounds : BindRound(r, d)
           \/ \E o \in ClosedRun : CloseRun(r, o)
    PROVE  UNCHANGED Budget!budgetVars
<1>1. ledger \in [Runs -> LedgerRows]
  BY RunFacts
<1>2. \A x \in Runs : /\ Created(x)' <=> Created(x)
                      /\ ledger'[x].max = ledger[x].max
                      /\ ledger'[x].reserved = ledger[x].reserved
                      /\ ledger'[x].completed = ledger[x].completed
  BY <1>1 DEF BindRound, CloseRun, Created, LedgerRows, ClosedRun
<1>3. granted' = granted
  BY <1>2 DEF granted
<1>4. left' = left
  BY <1>2 DEF left
<1>5. pending' = pending
  BY <1>2 DEF pending
<1> QED
  BY <1>3, <1>4, <1>5 DEF Budget!budgetVars, granted, left, pending

\* The ledger keeps the promise of CallBudget: calls are paid for before they
\* are made and nothing is paid back.
THEOREM LedgerImplementsBudget == LedgerSpec => ImplementsCallBudget
<1>1. LedgerInit => Budget!BudgetInit
  <2> SUFFICES ASSUME LedgerInit PROVE Budget!BudgetInit
    OBVIOUS
  <2>1. \A x \in Runs : ledger[x] = NoRun
    BY DEF LedgerInit
  <2>2. granted = {}
    BY <2>1 DEF granted, Created, NoRun
  <2>3. \A x \in Runs : /\ ledger[x].max - ledger[x].reserved = 0
                        /\ ledger[x].reserved - ledger[x].completed = 0
    BY <2>1 DEF NoRun
  <2>4. left = [x \in Runs |-> 0] /\ pending = [x \in Runs |-> 0]
    BY <2>3 DEF left, pending
  <2> QED
    BY <2>2, <2>4 DEF Budget!BudgetInit, granted, left, pending
<1>2. ASSUME LedgerInv, [LedgerNext]_ledgerVars
      PROVE  [Budget!BudgetNext]_(Budget!budgetVars)
  <2>1. CASE LedgerNext
    <3>1. PICK r \in Runs : LedgerStep(r)
      BY <2>1 DEF LedgerNext
    <3>2. CASE \/ \E d \in Rounds : BindRound(r, d)
               \/ \E o \in ClosedRun : CloseRun(r, o)
      BY <1>2, <3>2, OtherRefines
    <3>3. CASE \E k \in Kinds : Reserve(r, k)
      BY <1>2, <3>3, ReserveRefines DEF Budget!BudgetNext
    <3>4. CASE \E s \in Slots, o \in Outcomes : FinishCall(r, s, o)
      BY <1>2, <3>4, FinishSettles, SettleRefines DEF Budget!BudgetNext
    <3>5. CASE AbandonStarted(r)
      BY <1>2, <3>5, AbandonSettles, SettleRefines DEF Budget!BudgetNext
    <3>6. CASE \E max \in 1 .. MaxBudget, limit \in [Kinds -> 0 .. MaxBudget] :
                  CreateRun(r, max, limit)
      BY <1>2, <3>6, CreateRefines DEF Budget!BudgetNext
    <3> QED
      BY <3>1, <3>2, <3>3, <3>4, <3>5, <3>6 DEF LedgerStep
  <2>2. CASE UNCHANGED ledgerVars
    BY <2>2 DEF ledgerVars, Budget!budgetVars, Created
  <2> QED
    BY <1>2, <2>1, <2>2
<1> QED
  BY <1>1, <1>2, LedgerInvHolds, PTL DEF LedgerSpec, ImplementsCallBudget, Budget!BudgetSpec
=============================================================================
