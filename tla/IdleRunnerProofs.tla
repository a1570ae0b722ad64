-------------------------- MODULE IdleRunnerProofs --------------------------
(***************************************************************************)
(* Proofs about IdleRunner, for every set of requests, members and threads  *)
(* and every number of crashes, disconnects and expired leases.             *)
(*                                                                         *)
(* Who holds a claim is not inductive alone: it needs that only the holder  *)
(* of the room lock is inside the generator, and where in its loop a runner *)
(* may keep a claim.  That calls are explained needs an account per row of  *)
(* who may give it back: an open row has been paid for by a disruption, and *)
(* a row whose runner is still calling has one call on credit.              *)
(***************************************************************************)
EXTENDS IdleRunner, ChatStoreProofs

RunnerState == [pc: {"entering"} \cup Running, req: Requests, todo: SUBSET Members,
                member: Members \cup {NoMember}, claim: 0 .. MaxAttempts]

LocalTypeOK ==
    /\ enabled \in SUBSET Members
    /\ lock \in Runners \cup {NoRunner, Round}
    /\ up \in BOOLEAN
    /\ disruptions \in 0 .. MaxDisruptions
    /\ runner \in [Runners -> {Off} \cup RunnerState]

\* The lock is held by the thread inside the generator, by a round or by
\* nobody; a stopped process has neither threads nor a lock.
Locks ==
    /\ \A w \in Runners : lock = w <=> runner[w].pc \in Running
    /\ ~ up => lock = NoRunner /\ \A w \in Runners : runner[w] = Off

\* A runner keeps a claim exactly from its claim to the end of the iteration,
\* or until its finally block has given it back.
ClaimsInOrder ==
    \A w \in Runners : runner[w] # Off =>
        /\ runner[w].claim # NoToken => At(w, "calling") \/ At(w, "finally")
        /\ At(w, "calling") => runner[w].claim # NoToken
        /\ (runner[w].claim # NoToken \/ At(w, "unavailable") \/ At(w, "claim"))
              => runner[w].member \in Members

\* Every call but the one that is out has been followed by a disruption.
Accounts ==
    \A t \in Targets :
        /\ attemptCount[t] <= disruptions + 1
        /\ target[t] \in {"NONE", "PENDING"} => attemptCount[t] <= disruptions
        /\ target[t] = "PROCESSING" =>
              \/ /\ up /\ lease[t] = "live"
                 /\ \E w \in Runners : At(w, "calling") /\ ClaimOf(w) = t
              \/ attemptCount[t] <= disruptions

LocalInv ==
    /\ LocalTypeOK
    /\ Locks
    /\ ClaimsInOrder
    /\ ClaimsAreHeld
    /\ Accounts

IdleInv ==
    /\ ChatInv
    /\ LocalTypeOK
    /\ Locks
    /\ ClaimsInOrder
    /\ ClaimsAreHeld
    /\ Accounts

-----------------------------------------------------------------------------
(* The threads.                                                             *)

\* A thread is off, or it is a record with all its fields.
LEMMA RunnerKinds ==
    ASSUME LocalTypeOK, NEW w \in Runners
    PROVE  /\ runner[w].pc = "off" <=> runner[w] = Off
           /\ runner[w] # Off => runner[w] \in RunnerState
           /\ Off.pc = "off" /\ Off \notin RunnerState
BY DEF LocalTypeOK, RunnerState, Off, Running

\* A step of one thread leaves the others where they are.
LEMMA OneRunner ==
    ASSUME LocalTypeOK, NEW w \in Runners, NEW q \in {Off} \cup RunnerState,
           runner' = [runner EXCEPT ![w] = q]
    PROVE  /\ runner' \in [Runners -> {Off} \cup RunnerState]
           /\ runner'[w] = q
           /\ \A v \in Runners : v # w => runner'[v] = runner[v]
BY DEF LocalTypeOK

\* Moving a running thread to another line changes only where it is.
LEMMA Moved ==
    ASSUME LocalTypeOK, NEW w \in Runners, runner[w] # Off,
           NEW s \in {"entering"} \cup Running, Goto(w, s)
    PROVE  /\ runner' \in [Runners -> {Off} \cup RunnerState]
           /\ runner'[w] \in RunnerState
           /\ runner'[w] = [runner[w] EXCEPT !.pc = s]
           /\ runner'[w].pc = s /\ runner'[w].req = runner[w].req
           /\ runner'[w].member = runner[w].member /\ runner'[w].claim = runner[w].claim
           /\ \A v \in Runners : v # w => runner'[v] = runner[v]
<1> DEFINE q == [runner[w] EXCEPT !.pc = s]
<1>1. runner[w] \in RunnerState
  BY RunnerKinds
<1>2. /\ q \in RunnerState /\ q.pc = s /\ q.req = runner[w].req
      /\ q.member = runner[w].member /\ q.claim = runner[w].claim
  BY <1>1 DEF RunnerState
<1>3. runner' = [runner EXCEPT ![w] = q]
  BY DEF Goto
<1> HIDE DEF q
<1>4. q \in {Off} \cup RunnerState
  BY <1>2
<1>5. /\ runner' \in [Runners -> {Off} \cup RunnerState]
      /\ runner'[w] = q
      /\ \A v \in Runners : v # w => runner'[v] = runner[v]
  BY <1>3, <1>4, OneRunner
<1> QED
  BY <1>2, <1>5 DEF q

GotoWith(w, s, k) == runner' = [runner EXCEPT ![w].pc = s, ![w].claim = k]

\* Writing the claim of a running thread and moving it.
LEMMA MovedWithClaim ==
    ASSUME LocalTypeOK, NEW w \in Runners, runner[w] # Off,
           NEW s \in {"entering"} \cup Running, NEW k \in 0 .. MaxAttempts,
           GotoWith(w, s, k)
    PROVE  /\ runner' \in [Runners -> {Off} \cup RunnerState]
           /\ runner'[w] \in RunnerState
           /\ runner'[w].pc = s /\ runner'[w].req = runner[w].req
           /\ runner'[w].member = runner[w].member /\ runner'[w].claim = k
           /\ \A v \in Runners : v # w => runner'[v] = runner[v]
<1> DEFINE q == [runner[w] EXCEPT !.pc = s, !.claim = k]
<1>1. runner[w] \in RunnerState
  BY RunnerKinds
<1>2. /\ q \in RunnerState /\ q.pc = s /\ q.req = runner[w].req
      /\ q.member = runner[w].member /\ q.claim = k
  BY <1>1 DEF RunnerState
<1>3. runner' = [runner EXCEPT ![w] = q]
  BY DEF GotoWith
<1> HIDE DEF q
<1> QED
  BY <1>2, <1>3, OneRunner

\* Only one thread is inside the generator.
LEMMA OneInside ==
    ASSUME Locks, NEW w \in Runners, NEW v \in Runners,
           runner[w].pc \in Running, runner[v].pc \in Running
    PROVE  v = w
BY DEF Locks

\* A running row belongs to the thread inside the generator.
LEMMA HeldByInside ==
    ASSUME IdleInv, NEW w \in Runners, runner[w].pc \in Running,
           NEW t \in Targets, target[t] = "PROCESSING"
    PROVE  up /\ HasClaim(w) /\ ClaimOf(w) = t /\ runner[w].claim = token[t]
<1>1. up
  BY RunnerKinds DEF IdleInv, Locks, Running
<1> QED
  BY <1>1 DEF IdleInv, ClaimsAreHeld, Locks

\* With nobody inside the generator no row is running.
LEMMA NobodyInside ==
    ASSUME IdleInv, up, lock \notin Runners, NEW t \in Targets
    PROVE  target[t] # "PROCESSING"
BY DEF IdleInv, ClaimsAreHeld

-----------------------------------------------------------------------------
(* Three kinds of step.                                                     *)

\* A thread that waits for the lock, or is no thread at all, comes or goes;
\* the tables may reopen rows whose lease has run out.
LEMMA OutsideStep ==
    ASSUME IdleInv, NEW w \in Runners, up, runner[w].pc \notin Running,
           enabled' = enabled, lock' = lock, up' = up,
           disruptions' \in {disruptions, disruptions + 1}, disruptions' <= MaxDisruptions,
           runner' \in [Runners -> {Off} \cup RunnerState],
           \/ runner'[w] = Off
           \/ runner'[w].pc = "entering" /\ runner'[w].claim = NoToken,
           \A v \in Runners : v # w => runner'[v] = runner[v],
           attemptCount' = attemptCount,
           \A t \in Targets : target'[t] = "PROCESSING" =>
               target[t] = "PROCESSING" /\ token'[t] = token[t] /\ lease'[t] = lease[t],
           \A t \in Targets : target'[t] \in {"NONE", "PENDING"} =>
               \/ target[t] \in {"NONE", "PENDING"}
               \/ target[t] = "PROCESSING" /\ lease[t] = "expired"
    PROVE  LocalInv'
<1> USE IdleAssumption, MaxAttemptsAssumption
<1>0. LocalTypeOK /\ Locks /\ ClaimsInOrder /\ Accounts /\ ChatTypeOK
  BY DEF IdleInv, ChatInv
<1>2. runner'[w].pc \notin Running
  BY DEF Off, Running
<1>3. LocalTypeOK'
  BY <1>0 DEF LocalTypeOK
<1>4. Locks'
  BY <1>0, <1>2 DEF Locks
<1>5. ClaimsInOrder'
  BY <1>0, <1>2 DEF ClaimsInOrder, At
<1>6. ASSUME NEW t \in Targets, target'[t] = "PROCESSING"
      PROVE  \E v \in Runners : /\ lock' = v /\ HasClaim(v)' /\ ClaimOf(v)' = t
                                /\ runner'[v].claim = token'[t]
  <2>1. PICK v \in Runners : lock = v /\ HasClaim(v) /\ ClaimOf(v) = t /\ runner[v].claim = token[t]
    BY <1>6 DEF IdleInv, ClaimsAreHeld
  <2>2. v # w
    BY <2>1, <1>0 DEF Locks
  <2> QED
    BY <1>6, <2>1, <2>2 DEF HasClaim, ClaimOf, At
<1>7. ClaimsAreHeld'
  BY <1>6 DEF ClaimsAreHeld
<1>8. Accounts'
  <2> SUFFICES ASSUME NEW t \in Targets
               PROVE  /\ attemptCount'[t] <= disruptions' + 1
                      /\ target'[t] \in {"NONE", "PENDING"} => attemptCount'[t] <= disruptions'
                      /\ target'[t] = "PROCESSING" =>
                            \/ /\ up' /\ lease'[t] = "live"
                               /\ \E v \in Runners : At(v, "calling")' /\ ClaimOf(v)' = t
                            \/ attemptCount'[t] <= disruptions'
    BY DEF Accounts
  <2>1. attemptCount[t] \in Nat /\ disruptions \in Nat
    BY <1>0 DEF LocalTypeOK, ChatTypeOK
  <2>2. attemptCount'[t] <= disruptions' + 1
    BY <1>0, <2>1 DEF Accounts
  <2>3. target'[t] \in {"NONE", "PENDING"} => attemptCount'[t] <= disruptions'
    BY <1>0, <2>1 DEF Accounts
  <2>4. ASSUME target'[t] = "PROCESSING"
        PROVE  \/ /\ up' /\ lease'[t] = "live"
                  /\ \E v \in Runners : At(v, "calling")' /\ ClaimOf(v)' = t
               \/ attemptCount'[t] <= disruptions'
    <3>1. CASE attemptCount[t] <= disruptions
      BY <3>1, <2>1
    <3>2. ASSUME lease[t] = "live", NEW v \in Runners, At(v, "calling"), ClaimOf(v) = t
          PROVE  \/ /\ up' /\ lease'[t] = "live"
                    /\ \E u \in Runners : At(u, "calling")' /\ ClaimOf(u)' = t
                 \/ attemptCount'[t] <= disruptions'
      <4>1. v # w
        BY <3>2 DEF At, Running
      <4> QED
        BY <2>4, <3>2, <4>1 DEF At, ClaimOf
    <3> QED
      BY <2>4, <1>0, <3>1, <3>2 DEF Accounts
  <2> QED
    BY <2>2, <2>3, <2>4
<1> QED
  BY <1>3, <1>4, <1>5, <1>7, <1>8 DEF LocalInv

\* A step after which no row is running, whoever has the lock.
LEMMA IdleTablesStep ==
    ASSUME IdleInv, LocalTypeOK', Locks', ClaimsInOrder',
           disruptions' \in {disruptions, disruptions + 1},
           attemptCount' = attemptCount,
           \A t \in Targets : target'[t] # "PROCESSING",
           \A t \in Targets : target'[t] \in {"NONE", "PENDING"} => attemptCount[t] <= disruptions
    PROVE  LocalInv'
<1>1. ClaimsAreHeld'
  BY DEF ClaimsAreHeld
<1>2. Accounts'
  <2> SUFFICES ASSUME NEW t \in Targets
               PROVE  /\ attemptCount'[t] <= disruptions' + 1
                      /\ target'[t] \in {"NONE", "PENDING"} => attemptCount'[t] <= disruptions'
    BY DEF Accounts
  <2>1. attemptCount[t] \in Nat /\ disruptions \in Nat
    BY IdleAssumption, MaxAttemptsAssumption DEF IdleInv, ChatInv, LocalTypeOK, ChatTypeOK
  <2> QED
    BY <2>1 DEF IdleInv, Accounts
<1> QED
  BY <1>1, <1>2 DEF LocalInv

\* The thread inside the generator moves on and no row is left running.
LEMMA QuietStep ==
    ASSUME IdleInv, NEW w \in Runners, runner[w].pc \in Running,
           enabled' = enabled, lock' = lock, up' = up,
           disruptions' \in {disruptions, disruptions + 1}, disruptions' <= MaxDisruptions,
           runner' \in [Runners -> {Off} \cup RunnerState],
           runner'[w].pc \in Running \ {"calling"},
           \A v \in Runners : v # w => runner'[v] = runner[v],
           runner'[w].claim # NoToken => runner'[w].pc = "finally",
           runner'[w].claim # NoToken \/ runner'[w].pc \in {"unavailable", "claim"}
              => runner'[w].member \in Members,
           attemptCount' = attemptCount,
           \A t \in Targets : target'[t] # "PROCESSING",
           \A t \in Targets : target'[t] \in {"NONE", "PENDING"} => attemptCount[t] <= disruptions
    PROVE  LocalInv'
<1> USE IdleAssumption, MaxAttemptsAssumption
<1>0. LocalTypeOK /\ Locks /\ ClaimsInOrder
  BY DEF IdleInv
<1>1. LocalTypeOK'
  BY <1>0 DEF LocalTypeOK
<1>2. Locks'
  <2>1. up
    BY <1>0, RunnerKinds DEF Locks, Running
  <2> QED
    BY <1>0, <2>1 DEF Locks
<1>3. ClaimsInOrder'
  BY <1>0 DEF ClaimsInOrder, At
<1> QED
  BY <1>1, <1>2, <1>3, IdleTablesStep

-----------------------------------------------------------------------------
(* The handlers, up to the room lock.                                       *)

\* A thread that starts waiting for the lock.
LEMMA EnterStep ==
    ASSUME IdleInv, NEW w \in Runners, NEW r \in Requests, up, At(w, "off"), Enter(w, r),
           UNCHANGED <<enabled, lock, up, disruptions>>, attemptCount' = attemptCount,
           \A t \in Targets : target'[t] = "PROCESSING" =>
               target[t] = "PROCESSING" /\ token'[t] = token[t] /\ lease'[t] = lease[t],
           \A t \in Targets : target'[t] \in {"NONE", "PENDING"} =>
               \/ target[t] \in {"NONE", "PENDING"}
               \/ target[t] = "PROCESSING" /\ lease[t] = "expired"
    PROVE  LocalInv'
<1> DEFINE q == [pc |-> "entering", req |-> r, todo |-> {}, member |-> NoMember, claim |-> NoToken]
<1>1. q \in RunnerState /\ q.pc = "entering" /\ q.claim = NoToken
  BY MaxAttemptsAssumption DEF RunnerState, NoToken
<1>2. runner' = [runner EXCEPT ![w] = q]
  BY DEF Enter
<1>5. LocalTypeOK
  BY DEF IdleInv
<1>3. disruptions <= MaxDisruptions
  BY IdleAssumption DEF IdleInv, LocalTypeOK
<1>4. runner[w].pc \notin Running
  BY DEF At, Running
<1> HIDE DEF q
<1>6. /\ runner' \in [Runners -> {Off} \cup RunnerState] /\ runner'[w] = q
      /\ \A v \in Runners : v # w => runner'[v] = runner[v]
  BY <1>1, <1>2, <1>5, OneRunner
<1> QED
  BY <1>1, <1>3, <1>4, <1>6, OutsideStep

\* A new message, its replay, and the resume of an open request.
LEMMA HandlersKeepInv ==
    ASSUME IdleInv, NEW w \in Runners, NEW r \in Requests,
           \/ \E md \in {"explicit", "moderated"}, M \in SUBSET Members : PostMessage(w, r, md, M)
           \/ RepostMessage(w, r)
           \/ ResumeRequest(w, r)
    PROVE  LocalInv'
<1>1. ASSUME NEW md \in {"explicit", "moderated"}, NEW M \in SUBSET Members, PostMessage(w, r, md, M)
      PROVE  LocalInv'
  <2>1. CreateRequest(r, md, M) /\ ChatInv
    BY <1>1 DEF PostMessage, IdleInv
  <2>2. \A t \in Targets : t[1] = r => target[t] = "NONE"
    BY <2>1, NoRequestNoTarget DEF CreateRequest
  <2>3. /\ \A t \in Targets : target'[t] = IF t[1] = r /\ t[2] \in M THEN "PENDING" ELSE target[t]
        /\ UNCHANGED <<token, lease, attemptCount>>
    BY <2>1 DEF CreateRequest
  <2>4. \A t \in Targets : target'[t] \in {"NONE", "PENDING"} => target[t] \in {"NONE", "PENDING"}
    BY <2>2, <2>3
  <2> QED
    BY <1>1, <2>3, <2>4, EnterStep DEF PostMessage
<1>2. CASE RepostMessage(w, r)
  BY <1>2, EnterStep DEF RepostMessage, chatVars
<1>3. CASE ResumeRequest(w, r)
  <2>1. /\ \A t \in Targets : \/ /\ target'[t] = target[t] /\ token'[t] = token[t]
                                 /\ lease'[t] = lease[t]
                              \/ /\ target[t] = "PROCESSING" /\ lease[t] = "expired"
                                 /\ target'[t] = "PENDING"
        /\ attemptCount' = attemptCount
    BY <1>3 DEF ResumeRequest, RecoverExpired, Reopen, ExpiredTargets
  <2> QED
    BY <1>3, <2>1, EnterStep DEF ResumeRequest
<1> QED
  BY <1>1, <1>2, <1>3

\* The lock is taken, or the room is busy.
LEMMA AcquireKeepsInv ==
    ASSUME IdleInv, NEW w \in Runners, Acquire(w) \/ Busy(w)
    PROVE  LocalInv'
<1>0. LocalTypeOK /\ Locks /\ ClaimsInOrder /\ Accounts
  BY DEF IdleInv
<1>1. runner[w].pc = "entering" /\ runner[w] # Off /\ up
  <2>1. runner[w].pc = "entering"
    BY DEF Acquire, Busy, At
  <2> QED
    BY <1>0, <2>1, RunnerKinds DEF Locks
<1>2. CASE Busy(w)
  <2>1. /\ runner' = [runner EXCEPT ![w] = Off] /\ runner[w].pc \notin Running
        /\ UNCHANGED <<enabled, lock, up, disruptions, target, token, lease, attemptCount>>
    BY <1>1, <1>2 DEF Busy, chatVars, Running
  <2>2. disruptions <= MaxDisruptions
    BY IdleAssumption, <1>0 DEF LocalTypeOK
  <2>3. \A t \in Targets : target'[t] \in {"NONE", "PENDING"} => target[t] \in {"NONE", "PENDING"}
    BY <2>1
  <2>4. \A t \in Targets : target'[t] = "PROCESSING" =>
            target[t] = "PROCESSING" /\ token'[t] = token[t] /\ lease'[t] = lease[t]
    BY <2>1
  <2>5. /\ runner' \in [Runners -> {Off} \cup RunnerState] /\ runner'[w] = Off
        /\ \A v \in Runners : v # w => runner'[v] = runner[v]
    BY <1>0, <2>1, OneRunner
  <2> QED
    BY <1>1, <2>1, <2>2, <2>3, <2>4, <2>5, OutsideStep
<1>3. CASE Acquire(w)
  <2>1. /\ lock = NoRunner /\ lock' = w /\ Goto(w, "recover")
        /\ UNCHANGED <<enabled, up, disruptions, target, token, lease, attemptCount>>
    BY <1>3 DEF Acquire, chatVars
  <2>2. /\ runner' \in [Runners -> {Off} \cup RunnerState] /\ runner'[w].pc = "recover"
        /\ runner'[w].claim = runner[w].claim
        /\ \A v \in Runners : v # w => runner'[v] = runner[v]
    BY <1>0, <1>1, <2>1, Moved DEF Running
  <2>3. LocalTypeOK'
    BY <1>0, <2>1, <2>2 DEF LocalTypeOK
  <2>4. Locks'
    BY <1>0, <1>1, <2>1, <2>2, IdleAssumption DEF Locks, Running
  <2>5. ClaimsInOrder'
    BY <1>0, <1>1, <2>2 DEF ClaimsInOrder, At
  <2>6. \A t \in Targets : target[t] # "PROCESSING"
    BY <1>1, <2>1, IdleAssumption, NobodyInside
  <2>7. \A t \in Targets : target'[t] \in {"NONE", "PENDING"} => attemptCount[t] <= disruptions
    BY <1>0, <2>1 DEF Accounts
  <2> QED
    BY <2>1, <2>3, <2>4, <2>5, <2>6, <2>7, IdleTablesStep
<1> QED
  BY <1>2, <1>3

-----------------------------------------------------------------------------
(* run_idle_chat_request, holding the lock.                                 *)

\* What a thread inside the generator knows at each line of its loop.
LEMMA InsideFacts ==
    ASSUME IdleInv, NEW w \in Runners, runner[w].pc \in Running
    PROVE  /\ LocalTypeOK /\ ChatTypeOK
           /\ runner[w] # Off /\ runner[w] \in RunnerState /\ up
           /\ disruptions \in Nat /\ disruptions <= MaxDisruptions
           /\ runner[w].claim # NoToken => At(w, "calling") \/ At(w, "finally")
           /\ At(w, "calling") => runner[w].claim # NoToken
           /\ (runner[w].claim # NoToken \/ At(w, "unavailable") \/ At(w, "claim"))
                 => runner[w].member \in Members /\ ClaimOf(w) \in Targets
           /\ \A t \in Targets : target[t] = "PROCESSING" =>
                 runner[w].claim # NoToken /\ ClaimOf(w) = t /\ runner[w].claim = token[t]
           /\ \A t \in Targets : target[t] \in {"NONE", "PENDING"} => attemptCount[t] <= disruptions
           /\ \A t \in Targets : target[t] = "PROCESSING" =>
                 (At(w, "calling") /\ lease[t] = "live") \/ attemptCount[t] <= disruptions
<1>0. LocalTypeOK /\ Locks /\ ClaimsInOrder /\ Accounts /\ ChatTypeOK
  BY DEF IdleInv, ChatInv
<1>1. runner[w] # Off /\ runner[w] \in RunnerState /\ up
  BY <1>0, RunnerKinds DEF Locks, Running
<1>2. disruptions \in Nat /\ disruptions <= MaxDisruptions
  BY <1>0, IdleAssumption DEF LocalTypeOK
<1>3. \A t \in Targets : target[t] = "PROCESSING" =>
                 runner[w].claim # NoToken /\ ClaimOf(w) = t /\ runner[w].claim = token[t]
  BY HeldByInside DEF HasClaim
<1>4. /\ runner[w].claim # NoToken => At(w, "calling") \/ At(w, "finally")
      /\ At(w, "calling") => runner[w].claim # NoToken
      /\ (runner[w].claim # NoToken \/ At(w, "unavailable") \/ At(w, "claim"))
            => runner[w].member \in Members
  BY <1>0, <1>1 DEF ClaimsInOrder
<1>5. runner[w].member \in Members => ClaimOf(w) \in Targets
  BY <1>1 DEF ClaimOf, Targets, RunnerState
<1>6. ASSUME NEW t \in Targets, target[t] = "PROCESSING", ~ (attemptCount[t] <= disruptions)
      PROVE  At(w, "calling") /\ lease[t] = "live"
  <2>1. lease[t] = "live" /\ \E v \in Runners : At(v, "calling") /\ ClaimOf(v) = t
    BY <1>0, <1>6 DEF Accounts
  <2>2. PICK v \in Runners : At(v, "calling")
    BY <2>1
  <2>3. v = w
    BY <1>0, <2>2, OneInside DEF At, Running
  <2> QED
    BY <2>1, <2>2, <2>3
<1>7. \A t \in Targets : target[t] \in {"NONE", "PENDING"} => attemptCount[t] <= disruptions
  BY <1>0 DEF Accounts
<1> QED
  BY <1>0, <1>1, <1>2, <1>3, <1>4, <1>5, <1>6, <1>7

\* Leases are recovered first, and the holder of the lock has no claim yet.
LEMMA RecoverKeepsInv ==
    ASSUME IdleInv, NEW w \in Runners, RecoverLeases(w)
    PROVE  LocalInv'
<1>1. runner[w].pc = "recover" /\ runner[w].pc \in Running
  BY DEF RecoverLeases, At, Running
<1>2. runner[w].claim = NoToken /\ \A t \in Targets : target[t] # "PROCESSING"
  BY <1>1, InsideFacts DEF At
<1>3. /\ target' = [t \in Targets |-> target[t]] /\ attemptCount' = attemptCount
      /\ UNCHANGED <<enabled, lock, up, disruptions>>
  BY <1>2 DEF RecoverLeases, RecoverExpired, Reopen, ExpiredTargets
<1>4. /\ runner' \in [Runners -> {Off} \cup RunnerState] /\ runner'[w].pc = "load"
      /\ runner'[w].claim = NoToken
      /\ \A v \in Runners : v # w => runner'[v] = runner[v]
  BY <1>1, <1>2, InsideFacts, Moved DEF RecoverLeases, Running
<1>5. \A t \in Targets : /\ target'[t] # "PROCESSING"
                         /\ target'[t] \in {"NONE", "PENDING"} => attemptCount[t] <= disruptions
  BY <1>1, <1>2, <1>3, InsideFacts
<1>6. runner'[w].pc \in Running \ {"calling"}
  BY <1>4 DEF Running
<1> QED
  BY <1>1, <1>3, <1>4, <1>5, <1>6, InsideFacts, QuietStep

\* The walk over the targets: loading them, taking the next, leaving the loop,
\* or leaving because the claim is gone.
LEMMA WalkKeepsInv ==
    ASSUME IdleInv, NEW w \in Runners,
           LoadTargets(w) \/ PickTarget(w) \/ FinishLoop(w) \/ AnswerRejected(w)
    PROVE  LocalInv'
<1>1. runner[w].pc \in Running
  BY DEF LoadTargets, PickTarget, FinishLoop, AnswerRejected, At, Running
<1>2. /\ LocalTypeOK /\ runner[w] # Off /\ runner[w] \in RunnerState
      /\ disruptions <= MaxDisruptions
  BY <1>1, InsideFacts
<1>3. \A t \in Targets : target[t] # "PROCESSING"
  <2>1. CASE AnswerRejected(w)
    BY <1>1, <2>1, InsideFacts DEF AnswerRejected, CommitAllowed, Owned
  <2>2. CASE At(w, "load") \/ At(w, "next")
    BY <1>1, <2>2, InsideFacts DEF At
  <2> QED
    BY <2>1, <2>2 DEF LoadTargets, PickTarget, FinishLoop
<1>4. /\ UNCHANGED <<enabled, lock, up, disruptions, target, attemptCount>>
  BY DEF LoadTargets, PickTarget, FinishLoop, AnswerRejected, chatVars
<1>5. ASSUME NEW q \in RunnerState, runner' = [runner EXCEPT ![w] = q],
             q.pc \in Running \ {"calling"},
             q.claim # NoToken => q.pc = "finally",
             q.claim # NoToken \/ q.pc \in {"unavailable", "claim"} => q.member \in Members
      PROVE  LocalInv'
  <2>1. /\ runner' \in [Runners -> {Off} \cup RunnerState] /\ runner'[w] = q
        /\ \A v \in Runners : v # w => runner'[v] = runner[v]
    BY <1>2, <1>5, OneRunner
  <2>2. \A t \in Targets : /\ target'[t] # "PROCESSING"
                           /\ target'[t] \in {"NONE", "PENDING"} => attemptCount[t] <= disruptions
    BY <1>1, <1>3, <1>4, InsideFacts
  <2> QED
    BY <1>1, <1>2, <1>4, <1>5, <2>1, <2>2, QuietStep
<1>6. CASE LoadTargets(w)
  <2> DEFINE T == {m \in Members : target[<<runner[w].req, m>>] = "PENDING"}
             q == [runner[w] EXCEPT !.pc = "next", !.todo = T]
  <2>1. T \in SUBSET Members
    OBVIOUS
  <2>2. runner[w].claim = NoToken
    BY <1>1, <1>6, InsideFacts DEF LoadTargets, At
  <2>3. runner' = [runner EXCEPT ![w] = q]
    BY <1>6 DEF LoadTargets
  <2> HIDE DEF T
  <2>4. /\ q \in RunnerState /\ q.pc = "next" /\ q.claim = NoToken
    BY <1>2, <2>1, <2>2 DEF RunnerState, Running
  <2> HIDE DEF q
  <2> QED
    BY <1>5, <2>3, <2>4 DEF Running
<1>7. CASE PickTarget(w)
  <2>1. PICK m \in runner[w].todo :
          runner' = [runner EXCEPT
                        ![w].pc = IF m \in enabled THEN "claim" ELSE "unavailable",
                        ![w].member = m,
                        ![w].todo = @ \ {m}]
    BY <1>7 DEF PickTarget
  <2>2. m \in Members
    BY <1>2 DEF RunnerState
  <2> DEFINE s == IF m \in enabled THEN "claim" ELSE "unavailable"
             T == runner[w].todo \ {m}
             q == [runner[w] EXCEPT !.pc = s, !.member = m, !.todo = T]
  <2>3. s \in {"claim", "unavailable"} /\ T \in SUBSET Members
    BY <1>2 DEF RunnerState
  <2>4. runner[w].claim = NoToken
    BY <1>1, <1>7, InsideFacts DEF PickTarget, At
  <2>5. runner' = [runner EXCEPT ![w] = q]
    BY <2>1
  <2> HIDE DEF s, T
  <2>6. /\ q \in RunnerState /\ q.pc = s /\ q.claim = NoToken /\ q.member = m
    BY <1>2, <2>2, <2>3, <2>4 DEF RunnerState, Running
  <2> HIDE DEF q
  <2> QED
    BY <1>5, <2>2, <2>3, <2>5, <2>6 DEF Running
<1>8. CASE FinishLoop(w) \/ AnswerRejected(w)
  <2> DEFINE q == [runner[w] EXCEPT !.pc = "finally"]
  <2>1. runner[w].claim # NoToken => runner[w].member \in Members
    BY <1>1, InsideFacts
  <2>2. runner' = [runner EXCEPT ![w] = q]
    BY <1>8 DEF FinishLoop, AnswerRejected, Goto
  <2>3. q \in RunnerState /\ q.pc = "finally" /\ q.claim = runner[w].claim /\ q.member = runner[w].member
    BY <1>2 DEF RunnerState, Running
  <2> HIDE DEF q
  <2> QED
    BY <1>5, <2>1, <2>2, <2>3 DEF Running
<1> QED
  BY <1>6, <1>7, <1>8

\* The commit of an answer, or of a failure without any claim.
LEMMA CommitsKeepInv ==
    ASSUME IdleInv, NEW w \in Runners,
           FailUnavailable(w) \/ \E s \in TerminalTarget : CommitAnswer(w, s)
    PROVE  LocalInv'
<1>1. runner[w].pc \in Running
  BY DEF FailUnavailable, CommitAnswer, At, Running
<1>2. /\ LocalTypeOK /\ ChatTypeOK /\ runner[w] # Off
      /\ disruptions <= MaxDisruptions /\ ClaimOf(w) \in Targets
  BY <1>1, InsideFacts DEF FailUnavailable, CommitAnswer
<1>3. PICK s \in TerminalTarget : \E k : Commit(ClaimOf(w), k, s)
  BY DEF FailUnavailable, CommitAnswer, TerminalTarget
<1>4. UNCHANGED <<enabled, lock, up, disruptions, attemptCount>>
  BY <1>3 DEF FailUnavailable, CommitAnswer, Commit
<1>5. \A t \in Targets : target'[t] = IF t = ClaimOf(w) THEN s ELSE target[t]
  BY <1>2, <1>3 DEF Commit, ChatTypeOK
<1>6. \A t \in Targets : /\ target'[t] # "PROCESSING"
                         /\ target'[t] \in {"NONE", "PENDING"} => attemptCount[t] <= disruptions
  BY <1>1, <1>5, InsideFacts DEF TerminalTarget
<1>7. /\ runner' \in [Runners -> {Off} \cup RunnerState] /\ runner'[w].pc = "next"
      /\ runner'[w].claim = NoToken
      /\ \A v \in Runners : v # w => runner'[v] = runner[v]
  <2>1. CASE FailUnavailable(w)
    <3>1. runner[w].claim = NoToken
      BY <1>1, <2>1, InsideFacts DEF FailUnavailable, At
    <3> QED
      BY <1>2, <2>1, <3>1, Moved DEF FailUnavailable, Running
  <2>2. ASSUME NEW u \in TerminalTarget, CommitAnswer(w, u)
        PROVE  /\ runner' \in [Runners -> {Off} \cup RunnerState] /\ runner'[w].pc = "next"
               /\ runner'[w].claim = NoToken
               /\ \A v \in Runners : v # w => runner'[v] = runner[v]
    <3>1. GotoWith(w, "next", NoToken)
      BY <2>2 DEF CommitAnswer, GotoWith
    <3>2. "next" \in Running /\ NoToken \in 0 .. MaxAttempts
      BY MaxAttemptsAssumption DEF Running, NoToken
    <3> QED
      BY <1>2, <3>1, <3>2, MovedWithClaim
  <2> QED
    BY <2>1, <2>2
<1>8. runner'[w].pc \in Running \ {"calling"}
  BY <1>7 DEF Running
<1> QED
  BY <1>1, <1>2, <1>4, <1>6, <1>7, <1>8, QuietStep

\* The finally block gives the claim back, if it is still the row's.
LEMMA ReleaseKeepsInv ==
    ASSUME IdleInv, NEW w \in Runners, ReleaseClaim(w)
    PROVE  LocalInv'
<1>1. runner[w].pc = "finally" /\ runner[w].pc \in Running /\ runner[w].claim # NoToken
  BY DEF ReleaseClaim, At, Running
<1>2. /\ LocalTypeOK /\ ChatTypeOK /\ runner[w] # Off
      /\ disruptions <= MaxDisruptions /\ ClaimOf(w) \in Targets
  BY <1>1, InsideFacts
<1>3. UNCHANGED <<enabled, lock, up, disruptions, attemptCount>>
  BY DEF ReleaseClaim, Release, Reopen, chatVars
<1>4. \A t \in Targets : /\ target'[t] # "PROCESSING"
                         /\ target'[t] \in {"NONE", "PENDING"} => attemptCount[t] <= disruptions
  <2>1. CASE Release(ClaimOf(w), runner[w].claim)
    <3>1. \A t \in Targets : target'[t] = IF t = ClaimOf(w) THEN "PENDING" ELSE target[t]
      BY <2>1 DEF Release, Reopen
    <3>2. target[ClaimOf(w)] = "PROCESSING"
      BY <2>1 DEF Release, Owned
    <3>3. attemptCount[ClaimOf(w)] <= disruptions
      BY <1>1, <1>2, <3>2, InsideFacts DEF At
    <3> QED
      BY <1>1, <3>1, <3>3, InsideFacts
  <2>2. CASE ~ Owned(ClaimOf(w), runner[w].claim) /\ UNCHANGED chatVars
    BY <1>1, <2>2, InsideFacts DEF Owned, chatVars
  <2> QED
    BY <2>1, <2>2 DEF ReleaseClaim
<1>5. /\ runner' \in [Runners -> {Off} \cup RunnerState] /\ runner'[w].pc = "finally"
      /\ runner'[w].claim = NoToken
      /\ \A v \in Runners : v # w => runner'[v] = runner[v]
  <2> DEFINE q == [runner[w] EXCEPT !.claim = NoToken]
  <2>1. runner[w] \in RunnerState
    BY <1>1, InsideFacts
  <2>2. runner' = [runner EXCEPT ![w] = q]
    BY DEF ReleaseClaim
  <2>3. q \in RunnerState /\ q.pc = "finally" /\ q.claim = NoToken
    BY <1>1, <2>1, MaxAttemptsAssumption DEF RunnerState, NoToken
  <2> HIDE DEF q
  <2> QED
    BY <1>2, <2>2, <2>3, OneRunner
<1>6. runner'[w].pc \in Running \ {"calling"}
  BY <1>5 DEF Running
<1> QED
  BY <1>1, <1>2, <1>3, <1>4, <1>5, <1>6, QuietStep

\* The claim of the row that was picked: the only one, and on credit.
LEMMA ClaimKeepsInv ==
    ASSUME IdleInv, NEW w \in Runners, ClaimTarget(w)
    PROVE  LocalInv'
<1> DEFINE u == ClaimOf(w)
           n == attemptCount[u] + 1
<1>1. runner[w].pc = "claim" /\ runner[w].pc \in Running
  BY DEF ClaimTarget, At, Running
<1>2. /\ LocalTypeOK /\ ChatTypeOK /\ runner[w] # Off /\ runner[w] \in RunnerState /\ up
      /\ disruptions \in Nat /\ u \in Targets /\ runner[w].member \in Members
      /\ \A t \in Targets : target[t] # "PROCESSING"
      /\ \A t \in Targets : target[t] \in {"NONE", "PENDING"} => attemptCount[t] <= disruptions
  BY <1>1, InsideFacts DEF At
<1>3. target[u] = "PENDING" /\ StartAttempt(u)
  BY <1>2 DEF ClaimTarget, Claim, Claimable
<1>4. attemptCount[u] \in Nat /\ attemptCount[u] <= disruptions
  BY <1>2, <1>3, MaxAttemptsAssumption DEF ChatTypeOK
<1>5. /\ n \in Attempts
      /\ target' = [target EXCEPT ![u] = "PROCESSING"] /\ token' = [token EXCEPT ![u] = n]
      /\ lease' = [lease EXCEPT ![u] = "live"] /\ attemptCount' = [attemptCount EXCEPT ![u] = n]
  BY <1>3 DEF StartAttempt
<1>6. n \in 0 .. MaxAttempts /\ n # NoToken /\ n <= disruptions + 1
  BY <1>2, <1>4, <1>5 DEF Attempts, NoToken
<1> HIDE DEF u, n
<1>7. /\ \A t \in Targets : t # u => target'[t] = target[t] /\ attemptCount'[t] = attemptCount[t]
      /\ target'[u] = "PROCESSING" /\ token'[u] = n /\ lease'[u] = "live" /\ attemptCount'[u] = n
  BY <1>2, <1>5 DEF ChatTypeOK
<1>8. UNCHANGED <<enabled, lock, up, disruptions>>
  BY DEF ClaimTarget
<1>9. GotoWith(w, "calling", n)
  BY <1>7 DEF ClaimTarget, GotoWith, u
<1>10. /\ runner' \in [Runners -> {Off} \cup RunnerState]
       /\ runner'[w] \in RunnerState
       /\ runner'[w].pc = "calling" /\ runner'[w].req = runner[w].req
       /\ runner'[w].member = runner[w].member /\ runner'[w].claim = n
       /\ \A v \in Runners : v # w => runner'[v] = runner[v]
  BY <1>2, <1>6, <1>9, MovedWithClaim DEF Running
<1>11. ClaimOf(w)' = u /\ HasClaim(w)' /\ At(w, "calling")'
  BY <1>6, <1>10 DEF ClaimOf, HasClaim, At, u
<1>12. LocalTypeOK'
  BY <1>2, <1>8, <1>10 DEF LocalTypeOK
<1>13. Locks'
  BY <1>1, <1>2, <1>8, <1>10 DEF IdleInv, Locks, Running
<1>14. ClaimsInOrder'
  BY <1>2, <1>6, <1>10 DEF IdleInv, ClaimsInOrder, At
<1>15. lock' = w
  BY <1>1, <1>8 DEF IdleInv, Locks
<1>16. ClaimsAreHeld'
  BY <1>2, <1>7, <1>10, <1>11, <1>15 DEF ClaimsAreHeld
<1>17. Accounts'
  <2> SUFFICES ASSUME NEW t \in Targets
               PROVE  /\ attemptCount'[t] <= disruptions' + 1
                      /\ target'[t] \in {"NONE", "PENDING"} => attemptCount'[t] <= disruptions'
                      /\ target'[t] = "PROCESSING" =>
                            \/ /\ up' /\ lease'[t] = "live"
                               /\ \E v \in Runners : At(v, "calling")' /\ ClaimOf(v)' = t
                            \/ attemptCount'[t] <= disruptions'
    BY DEF Accounts
  <2>1. CASE t = u
    BY <1>2, <1>6, <1>7, <1>8, <1>11, <2>1
  <2>2. CASE t # u
    BY <1>2, <1>7, <1>8, <2>2 DEF IdleInv, Accounts
  <2> QED
    BY <2>1, <2>2
<1> QED
  BY <1>12, <1>13, <1>14, <1>16, <1>17 DEF LocalInv

\* Nothing is left to give back: the lock is returned.
LEMMA UnlockKeepsInv ==
    ASSUME IdleInv, NEW w \in Runners, Unlock(w)
    PROVE  LocalInv'
<1>1. runner[w].pc = "finally" /\ runner[w].pc \in Running /\ runner[w].claim = NoToken
  BY DEF Unlock, At, Running
<1>2. /\ LocalTypeOK /\ up /\ disruptions \in Nat
      /\ \A t \in Targets : target[t] # "PROCESSING"
      /\ \A t \in Targets : target[t] \in {"NONE", "PENDING"} => attemptCount[t] <= disruptions
  BY <1>1, InsideFacts
<1>3. /\ lock' = NoRunner /\ runner' = [runner EXCEPT ![w] = Off]
      /\ UNCHANGED <<enabled, up, disruptions, target, attemptCount>>
  BY DEF Unlock, chatVars
<1>4. /\ runner' \in [Runners -> {Off} \cup RunnerState] /\ runner'[w] = Off
      /\ \A v \in Runners : v # w => runner'[v] = runner[v]
  BY <1>2, <1>3, OneRunner
<1>5. LocalTypeOK'
  BY <1>2, <1>3, <1>4 DEF LocalTypeOK
<1>6. Locks'
  <2>1. \A v \in Runners : v # w => runner[v].pc \notin Running
    BY <1>1, OneInside DEF IdleInv
  <2>2. Off.pc \notin Running
    BY DEF Off, Running
  <2> QED
    BY <1>2, <1>3, <1>4, <2>1, <2>2, IdleAssumption DEF Locks
<1>7. ClaimsInOrder'
  BY <1>4 DEF IdleInv, ClaimsInOrder, At
<1> QED
  BY <1>2, <1>3, <1>5, <1>6, <1>7, IdleTablesStep

-----------------------------------------------------------------------------
(* Disruptions and the environment.                                         *)

\* A disruption that leaves every running row with its holder pays for the call.
LEMMA PaidStep ==
    ASSUME IdleInv, LocalTypeOK', Locks', ClaimsInOrder', ClaimsAreHeld',
           disruptions' = disruptions + 1, UNCHANGED <<target, attemptCount>>
    PROVE  LocalInv'
<1>1. Accounts'
  <2> SUFFICES ASSUME NEW t \in Targets
               PROVE  attemptCount'[t] <= disruptions' + 1 /\ attemptCount'[t] <= disruptions'
    BY DEF Accounts
  <2>1. attemptCount[t] \in Nat /\ disruptions \in Nat
    BY IdleAssumption, MaxAttemptsAssumption DEF IdleInv, ChatInv, LocalTypeOK, ChatTypeOK
  <2> QED
    BY <2>1 DEF IdleInv, Accounts
<1> QED
  BY <1>1 DEF LocalInv

\* The client goes away.
LEMMA DisconnectKeepsInv ==
    ASSUME IdleInv, NEW w \in Runners, Disconnect(w)
    PROVE  LocalInv'
<1>0. LocalTypeOK /\ Locks /\ ClaimsInOrder /\ Accounts /\ disruptions \in Nat
  BY DEF IdleInv, LocalTypeOK
<1>1. /\ up /\ disruptions' = disruptions + 1 /\ disruptions' <= MaxDisruptions
      /\ UNCHANGED <<enabled, lock, up, target, token, lease, attemptCount>>
  BY <1>0, IdleAssumption DEF Disconnect, Disrupt, chatVars
<1>2. CASE At(w, "entering") /\ runner' = [runner EXCEPT ![w] = Off]
  <2>1. runner[w].pc \notin Running
    BY <1>2 DEF At, Running
  <2>2. /\ runner' \in [Runners -> {Off} \cup RunnerState] /\ runner'[w] = Off
        /\ \A v \in Runners : v # w => runner'[v] = runner[v]
    BY <1>0, <1>2, OneRunner
  <2>3. \A t \in Targets :
           /\ target'[t] = "PROCESSING" =>
                 target[t] = "PROCESSING" /\ token'[t] = token[t] /\ lease'[t] = lease[t]
           /\ target'[t] \in {"NONE", "PENDING"} => target[t] \in {"NONE", "PENDING"}
    BY <1>1
  <2> QED
    BY <1>1, <2>1, <2>2, <2>3, OutsideStep
<1>3. CASE (At(w, "calling") \/ At(w, "next")) /\ Goto(w, "finally")
  <2>1. runner[w].pc \in Running
    BY <1>3 DEF At, Running
  <2>2. runner[w] # Off /\ (runner[w].claim # NoToken => runner[w].member \in Members)
    BY <2>1, InsideFacts
  <2>3. /\ runner' \in [Runners -> {Off} \cup RunnerState] /\ runner'[w].pc = "finally"
        /\ runner'[w].req = runner[w].req /\ runner'[w].member = runner[w].member
        /\ runner'[w].claim = runner[w].claim
        /\ \A v \in Runners : v # w => runner'[v] = runner[v]
    BY <1>0, <1>3, <2>2, Moved DEF Running
  <2>4. LocalTypeOK'
    BY <1>0, <1>1, <2>3, IdleAssumption DEF LocalTypeOK
  <2>5. Locks'
    BY <1>0, <1>1, <2>1, <2>3 DEF Locks, Running
  <2>6. ClaimsInOrder'
    BY <1>0, <2>2, <2>3 DEF ClaimsInOrder, At
  <2>7. ClaimsAreHeld'
    <3> SUFFICES ASSUME NEW t \in Targets, target'[t] = "PROCESSING"
                 PROVE  \E v \in Runners : /\ lock' = v /\ HasClaim(v)'
                                           /\ ClaimOf(v)' = t /\ runner'[v].claim = token'[t]
      BY DEF ClaimsAreHeld
    <3>1. HasClaim(w) /\ ClaimOf(w) = t /\ runner[w].claim = token[t] /\ lock = w
      BY <1>0, <1>1, <2>1, HeldByInside DEF Locks
    <3> QED
      BY <1>1, <2>3, <3>1 DEF HasClaim, ClaimOf, At
  <2> QED
    BY <1>1, <2>4, <2>5, <2>6, <2>7, PaidStep
<1> QED
  BY <1>2, <1>3 DEF Disconnect

\* Leases run out, and nobody is told.
LEMMA ExpiryKeepsInv ==
    ASSUME IdleInv, NEW t \in Targets, Expire(t)
    PROVE  LocalInv'
<1>1. /\ disruptions' = disruptions + 1
      /\ UNCHANGED <<enabled, lock, runner, up, target, token, attemptCount>>
  BY DEF Expire, Disrupt, ExpireLease
<1>2. LocalTypeOK'
  BY <1>1, IdleAssumption DEF IdleInv, LocalTypeOK, Expire, Disrupt
<1>3. Locks' /\ ClaimsInOrder'
  BY <1>1 DEF IdleInv, Locks, ClaimsInOrder, At
<1>4. ClaimsAreHeld'
  BY <1>1 DEF IdleInv, ClaimsAreHeld, HasClaim, ClaimOf, At
<1> QED
  BY <1>1, <1>2, <1>3, <1>4, PaidStep

\* Members are switched, rounds take and return the lock.
LEMMA OthersKeepInv ==
    ASSUME IdleInv, RoundLock \/ RoundUnlock \/ \E m \in Members : SetMemberEnabled(m)
    PROVE  LocalInv'
<1>1. UNCHANGED <<runner, up, disruptions, target, token, lease, attemptCount>>
  BY DEF RoundLock, RoundUnlock, SetMemberEnabled, chatVars
<1>2. \/ lock' = lock
      \/ lock \notin Runners /\ lock' \in {NoRunner, Round} /\ up
  BY IdleAssumption DEF RoundLock, RoundUnlock, SetMemberEnabled
<1>3. LocalTypeOK'
  BY <1>1, <1>2 DEF IdleInv, LocalTypeOK, RoundLock, RoundUnlock, SetMemberEnabled
<1>4. Locks'
  BY <1>1, <1>2, IdleAssumption DEF IdleInv, Locks
<1>5. ClaimsInOrder' /\ Accounts'
  BY <1>1 DEF IdleInv, ClaimsInOrder, Accounts, At, ClaimOf
<1>6. ClaimsAreHeld'
  <2>1. CASE lock' = lock
    BY <1>1, <2>1 DEF IdleInv, ClaimsAreHeld, HasClaim, ClaimOf, At
  <2>2. CASE lock \notin Runners /\ up
    <3>1. \A t \in Targets : target[t] # "PROCESSING"
      BY <2>2, NobodyInside
    <3> QED
      BY <1>1, <3>1 DEF ClaimsAreHeld
  <2> QED
    BY <1>2, <2>1, <2>2
<1> QED
  BY <1>3, <1>4, <1>5, <1>6 DEF LocalInv

\* The threads and the lock are gone; the claims stay until the restart.
LEMMA CrashKeepsInv ==
    ASSUME IdleInv, Crash
    PROVE  LocalInv'
<1>1. /\ disruptions' = disruptions + 1 /\ up' = FALSE /\ lock' = NoRunner
      /\ runner' = [w \in Runners |-> Off]
      /\ UNCHANGED <<enabled, target, attemptCount>>
  BY DEF Crash, Disrupt, chatVars
<1>2. LocalTypeOK'
  <2>1. LocalTypeOK /\ disruptions' \in 0 .. MaxDisruptions
    BY <1>1, IdleAssumption DEF IdleInv, LocalTypeOK, Crash, Disrupt
  <2>2. runner' \in [Runners -> {Off} \cup RunnerState]
    BY <1>1
  <2> QED
    BY <1>1, <2>1, <2>2 DEF LocalTypeOK
<1>3. Locks'
  BY <1>1, IdleAssumption DEF Locks, Off, Running
<1>4. ClaimsInOrder' /\ ClaimsAreHeld'
  BY <1>1 DEF ClaimsInOrder, ClaimsAreHeld
<1> QED
  BY <1>1, <1>2, <1>3, <1>4, PaidStep

\* Every claim is taken back before anything is served.
LEMMA RestartKeepsInv ==
    ASSUME IdleInv, Restart
    PROVE  LocalInv'
<1>1. /\ ~ up /\ up' = TRUE /\ UNCHANGED <<enabled, lock, runner, disruptions, attemptCount>>
      /\ \A t \in Targets : target'[t] = IF target[t] = "PROCESSING" THEN "PENDING" ELSE target[t]
  BY DEF Restart, RecoverOrphanedTargets, Reopen
<1>2. LocalTypeOK' /\ Locks' /\ ClaimsInOrder'
  BY <1>1 DEF IdleInv, LocalTypeOK, Locks, ClaimsInOrder, At
<1>3. \A t \in Targets : /\ target'[t] # "PROCESSING"
                         /\ target'[t] \in {"NONE", "PENDING"} => attemptCount[t] <= disruptions
  BY <1>1 DEF IdleInv, Accounts
<1>4. disruptions' = disruptions
  BY <1>1
<1> QED
  BY <1>1, <1>2, <1>3, <1>4, IdleTablesStep

-----------------------------------------------------------------------------
(* The theorems.                                                            *)

\* To the tables the runners are callers like any other.
LEMMA IdleStepIsChatStep ==
    ASSUME IdleInv, IdleNext
    PROVE  [ChatNext]_chatVars
<1>1. ASSUME NEW w \in Runners, NEW r \in Requests, NEW md \in {"explicit", "moderated"},
             NEW M \in SUBSET Members, PostMessage(w, r, md, M)
      PROVE  [ChatNext]_chatVars
  BY <1>1 DEF PostMessage, ChatNext
<1>2. ASSUME NEW w \in Runners, NEW r \in Requests, ResumeRequest(w, r)
      PROVE  [ChatNext]_chatVars
  BY <1>2 DEF ResumeRequest, ChatNext
<1>3. ASSUME NEW w \in Runners, RunnerStep(w)
      PROVE  [ChatNext]_chatVars
  <2>1. runner[w].pc \in Running
    BY <1>3 DEF RunnerStep, RecoverLeases, LoadTargets, PickTarget, FailUnavailable, ClaimTarget,
       CommitAnswer, AnswerRejected, FinishLoop, ReleaseClaim, Unlock, At, Running
  <2>2. runner[w].req \in Requests /\ runner[w].claim \in 0 .. MaxAttempts
    BY <2>1, InsideFacts DEF RunnerState
  <2>3. CASE RecoverLeases(w)
    BY <2>2, <2>3 DEF RecoverLeases, ChatNext
  <2>4. CASE FailUnavailable(w)
    <3>1. ClaimOf(w) \in Targets
      BY <2>1, <2>4, InsideFacts DEF FailUnavailable
    <3>2. NoToken \in 0 .. MaxAttempts /\ "FAILED" \in TerminalTarget
      BY MaxAttemptsAssumption DEF NoToken, TerminalTarget
    <3> QED
      BY <2>4, <3>1, <3>2 DEF FailUnavailable, ChatNext
  <2>5. CASE ClaimTarget(w)
    <3>1. ClaimOf(w) \in Targets
      BY <2>1, <2>5, InsideFacts DEF ClaimTarget
    <3> QED
      BY <2>5, <3>1 DEF ClaimTarget, ChatNext
  <2>6. ASSUME NEW s \in TerminalTarget, CommitAnswer(w, s)
        PROVE  [ChatNext]_chatVars
    <3>1. ClaimOf(w) \in Targets
      BY <2>1, <2>6, InsideFacts DEF CommitAnswer
    <3> QED
      BY <2>2, <2>6, <3>1 DEF CommitAnswer, ChatNext
  <2>7. CASE ReleaseClaim(w)
    <3>1. ClaimOf(w) \in Targets /\ runner[w].claim \in Attempts
      BY <2>1, <2>2, <2>7, InsideFacts DEF ReleaseClaim, Attempts, NoToken
    <3> QED
      BY <2>7, <3>1 DEF ReleaseClaim, ChatNext
  <2>8. CASE LoadTargets(w) \/ PickTarget(w) \/ AnswerRejected(w) \/ FinishLoop(w) \/ Unlock(w)
    BY <2>8 DEF LoadTargets, PickTarget, AnswerRejected, FinishLoop, Unlock
  <2> QED
    BY <1>3, <2>3, <2>4, <2>5, <2>6, <2>7, <2>8 DEF RunnerStep
<1>4. ASSUME NEW t \in Targets, Expire(t)
      PROVE  [ChatNext]_chatVars
  BY <1>4 DEF Expire, ChatNext
<1>5. CASE Restart
  BY <1>5 DEF Restart, ChatNext
<1>6. CASE \/ \E w \in Runners : \/ \E r \in Requests : RepostMessage(w, r)
                                 \/ Acquire(w) \/ Busy(w) \/ Disconnect(w)
           \/ \E m \in Members : SetMemberEnabled(m)
           \/ RoundLock \/ RoundUnlock \/ Crash
  BY <1>6 DEF RepostMessage, Acquire, Busy, Disconnect, SetMemberEnabled, RoundLock, RoundUnlock, Crash
<1> QED
  BY <1>1, <1>2, <1>3, <1>4, <1>5, <1>6 DEF IdleNext

\* The first process starts with empty tables and no thread.
LEMMA IdleInitInv == IdleInit => IdleInv
<1> SUFFICES ASSUME IdleInit PROVE IdleInv
  OBVIOUS
<1>1. ChatInv
  BY InitInv DEF IdleInit
<1>2. LocalTypeOK
  BY IdleAssumption DEF IdleInit, LocalTypeOK
<1>3. Locks /\ ClaimsInOrder
  BY IdleAssumption DEF IdleInit, Locks, ClaimsInOrder, Off, Running
<1>4. ClaimsAreHeld /\ Accounts
  BY IdleAssumption DEF IdleInit, ChatInit, ClaimsAreHeld, Accounts
<1> QED
  BY <1>1, <1>2, <1>3, <1>4 DEF IdleInv

\* Every step of a thread, of the environment or of the process keeps it.
LEMMA IdleNextInv == IdleInv /\ [IdleNext]_idleVars => IdleInv'
<1> SUFFICES ASSUME IdleInv, [IdleNext]_idleVars PROVE IdleInv'
  OBVIOUS
<1>1. CASE UNCHANGED idleVars
  BY <1>1 DEF idleVars, local, chatVars, IdleInv, ChatInv, ChatTypeOK, TokenFencesAttempts, AnsweredOnce,
     AttemptsExplainTargets, RequestAgreesWithTargets, HasTarget, LocalTypeOK, Locks, ClaimsInOrder,
     ClaimsAreHeld, Accounts, HasClaim, ClaimOf, At
<1>2. CASE IdleNext
  <2>1. ChatInv'
    BY <1>2, IdleStepIsChatStep, NextInv DEF IdleInv
  <2>2. LocalInv'
    <3>1. ASSUME NEW w \in Runners, RunnerStep(w)
          PROVE  LocalInv'
      BY <3>1, RecoverKeepsInv, WalkKeepsInv, CommitsKeepInv, ClaimKeepsInv, ReleaseKeepsInv,
         UnlockKeepsInv DEF RunnerStep
    <3>2. ASSUME NEW w \in Runners,
                 \/ \E r \in Requests, md \in {"explicit", "moderated"}, M \in SUBSET Members :
                       PostMessage(w, r, md, M)
                 \/ \E r \in Requests : RepostMessage(w, r) \/ ResumeRequest(w, r)
          PROVE  LocalInv'
      BY <3>2, HandlersKeepInv
    <3>3. ASSUME NEW w \in Runners, Acquire(w) \/ Busy(w) \/ Disconnect(w)
          PROVE  LocalInv'
      BY <3>3, AcquireKeepsInv, DisconnectKeepsInv
    <3>4. ASSUME NEW t \in Targets, Expire(t)
          PROVE  LocalInv'
      BY <3>4, ExpiryKeepsInv
    <3> QED
      BY <1>2, <3>1, <3>2, <3>3, <3>4, OthersKeepInv, CrashKeepsInv, RestartKeepsInv DEF IdleNext
  <2> QED
    BY <2>1, <2>2 DEF IdleInv, LocalInv
<1> QED
  BY <1>1, <1>2

\* The tables, the threads, who holds what and who has paid for it.
THEOREM IdleInvariant == IdleSafetySpec => []IdleInv
BY IdleInitInv, IdleNextInv, PTL DEF IdleSafetySpec

\* At most one member of a room is being asked, by the thread that holds the
\* room lock and with the token that thread kept, whatever lapses or leaves.
THEOREM EveryClaimIsHeld == IdleSafetySpec => []ClaimsAreHeld
<1>1. IdleInv => ClaimsAreHeld
  BY DEF IdleInv
<1> QED
  BY <1>1, IdleInvariant, PTL

\* Replays, retries and resumes never repeat a model call: every call of a row
\* but one is explained by a crash, a lost client or an expired lease.
THEOREM EveryCallIsExplained == IdleSafetySpec => []CallsAreExplained
<1>1. IdleInv => CallsAreExplained
  BY DEF IdleInv, Accounts, CallsAreExplained
<1> QED
  BY <1>1, IdleInvariant, PTL

\* The tables and the threads keep their types.
THEOREM IdleTypesHold == IdleSafetySpec => []IdleTypeOK
<1>1. IdleInv => IdleTypeOK
  BY DEF IdleInv, ChatInv, LocalTypeOK, IdleTypeOK, RunnerState
<1> QED
  BY <1>1, IdleInvariant, PTL

\* The runners implement the most general client of the tables, so whatever is
\* proved of ChatSpec holds of them.
THEOREM RunnersImplementStore == IdleSafetySpec => ChatSpec
<1>1. IdleInit => ChatInit
  BY DEF IdleInit
<1>2. IdleInv /\ [IdleNext]_idleVars => [ChatNext]_chatVars
  BY IdleStepIsChatStep DEF idleVars
<1> QED
  BY <1>1, <1>2, IdleInvariant, PTL DEF IdleSafetySpec, ChatSpec

\* With the runners, too, a request says what its rows say.
THEOREM IdleRequestsAgree == IdleSafetySpec => []RequestAgreesWithTargets
BY RunnersImplementStore, RequestsAgree

\* With the runners, too, a task is opened once and answered once.
THEOREM IdleAnswersOnce == IdleSafetySpec => ImplementsAnswerOnce
BY RunnersImplementStore, StoreImplementsAnswerOnce
=============================================================================
