--------------------------- MODULE ChatStoreProofs ---------------------------
(***************************************************************************)
(* Proofs about ChatStore, for every set of requests and members and every  *)
(* bound on the attempts: the invariants of the chat tables, what a step may *)
(* never undo, and that the tables implement AnswerOnce.                     *)
(*                                                                         *)
(* The invariants need each other.  That an attempt is delivered at most     *)
(* once needs the token fence; that a new request has no rows yet needs the  *)
(* agreement of request and targets; so the inductive invariant ChatInv is   *)
(* their conjunction, and one lemma per kind of transaction preserves it.    *)
(***************************************************************************)
EXTENDS ChatStore, TLAPS

ChatInv ==
    /\ ChatTypeOK
    /\ TokenFencesAttempts
    /\ AnsweredOnce
    /\ AttemptsExplainTargets
    /\ RequestAgreesWithTargets

\* The derived status of a request is a status of a created request, and it is
\* open exactly when a target is (or none exists yet).
LEMMA RefreshedType ==
    ASSUME NEW r, NEW tgt
    PROVE  /\ RefreshedStatus(r, tgt) \in RequestStatus \ {"NONE", "CANCELLED"}
           /\ RefreshedStatus(r, tgt) \in OpenRequest
                 <=> StatusesOf(r, tgt) \cap OpenRequest # {} \/ StatusesOf(r, tgt) = {}
BY SMTT(30) DEF RefreshedStatus, RequestStatus, OpenRequest, TerminalRequest

\* It depends on the rows of that request only.
LEMMA RefreshedLocal ==
    ASSUME NEW r, NEW tgt1, NEW tgt2,
           \A m \in Members : tgt1[<<r, m>>] = tgt2[<<r, m>>]
    PROVE  /\ StatusesOf(r, tgt1) = StatusesOf(r, tgt2)
           /\ RefreshedStatus(r, tgt1) = RefreshedStatus(r, tgt2)
<1>1. StatusesOf(r, tgt1) = StatusesOf(r, tgt2)
  BY DEF StatusesOf
<1> QED
  BY <1>1 DEF RefreshedStatus

\* A request with a running target is PROCESSING.
LEMMA RefreshedRunning ==
    ASSUME NEW r, NEW tgt, NEW m \in Members, tgt[<<r, m>>] = "PROCESSING"
    PROVE  RefreshedStatus(r, tgt) = "PROCESSING"
<1>1. "PROCESSING" \in StatusesOf(r, tgt)
  BY DEF StatusesOf
<1> QED
  BY <1>1 DEF RefreshedStatus, OpenRequest

\* Ending an attempt rewrites a row of the attempts table by a row of its type.
LEMMA EndedType ==
    ASSUME ChatTypeOK, NEW t \in Targets, NEW k, NEW s \in AttemptStatus
    PROVE  Ended(t, k, s) \in [Attempts -> AttemptStatus]
BY DEF Ended, ChatTypeOK

\* The initial tables satisfy the invariant.
LEMMA InitInv == ChatInit => ChatInv
<1> SUFFICES ASSUME ChatInit PROVE ChatInv
  OBVIOUS
<1>1. ChatTypeOK
  BY MaxAttemptsAssumption DEF ChatInit, ChatTypeOK, RequestStatus, TargetStatus, AttemptStatus, NoToken
<1>2. TokenFencesAttempts /\ AnsweredOnce /\ AttemptsExplainTargets
  BY MaxAttemptsAssumption DEF ChatInit, TokenFencesAttempts, AnsweredOnce, AttemptsExplainTargets,
     TerminalTarget, Attempts, NoToken
<1>3. ASSUME NEW r \in Requests PROVE StatusesOf(r, target) = {}
  BY DEF ChatInit, StatusesOf, Targets
<1>4. RequestAgreesWithTargets
  BY <1>3 DEF ChatInit, RequestAgreesWithTargets, HasTarget
<1> QED
  BY <1>1, <1>2, <1>4 DEF ChatInv

\* A request that does not exist has no target rows.
LEMMA NoRequestNoTarget ==
    ASSUME ChatInv, NEW r \in Requests, request[r] = "NONE"
    PROVE  /\ \A m \in Members : target[<<r, m>>] = "NONE"
           /\ \A t \in Targets : t[1] = r => target[t] = "NONE"
<1>1. ~ HasTarget(r)
  BY RefreshedType DEF ChatInv, RequestAgreesWithTargets
<1>2. \A m \in Members : target[<<r, m>>] = "NONE"
  BY <1>1 DEF HasTarget, StatusesOf
<1> QED
  BY <1>2 DEF Targets

\* The rows of a new request.
LEMMA CreateKeepsInv ==
    ASSUME ChatInv, NEW r \in Requests, NEW md \in {"explicit", "moderated"},
           NEW M \in SUBSET Members, CreateRequest(r, md, M)
    PROVE  ChatInv'
<1> USE DEF ChatInv
<1>1. \A m \in Members : target[<<r, m>>] = "NONE"
  BY NoRequestNoTarget DEF CreateRequest
<1>2. \A t \in Targets : target'[t] = IF t[1] = r /\ t[2] \in M THEN "PENDING" ELSE target[t]
  BY DEF CreateRequest
<1>3. ChatTypeOK'
  BY <1>2 DEF CreateRequest, ChatTypeOK, RequestStatus, OpenRequest, TargetStatus
<1>4. \A t \in Targets : t[1] = r => target[t] = "NONE"
  BY NoRequestNoTarget DEF CreateRequest
<1>5. TokenFencesAttempts' /\ AnsweredOnce' /\ AttemptsExplainTargets'
  BY <1>2, <1>4, MaxAttemptsAssumption
  DEF CreateRequest, TokenFencesAttempts, AnsweredOnce, AttemptsExplainTargets, TerminalTarget, NoToken
<1>6. ASSUME NEW q \in Requests, q # r
      PROVE  /\ StatusesOf(q, target') = StatusesOf(q, target)
             /\ RefreshedStatus(q, target') = RefreshedStatus(q, target)
  <2>1. \A m \in Members : target'[<<q, m>>] = target[<<q, m>>]
    BY <1>2, <1>6 DEF Targets
  <2> QED
    BY <2>1, RefreshedLocal
<1>7. StatusesOf(r, target') = IF M = {} THEN {} ELSE {"PENDING"}
  BY <1>1, <1>2 DEF StatusesOf, Targets
<1>8. RequestAgreesWithTargets'
  <2> SUFFICES ASSUME NEW q \in Requests
               PROVE  IF HasTarget(q)' THEN request'[q] = RefreshedStatus(q, target')
                      ELSE /\ request'[q] \in {"NONE", "PENDING", "CANCELLED"}
                           /\ request'[q] # "NONE" => mode'[q] = "moderated"
    BY DEF RequestAgreesWithTargets
  <2>1. CASE q = r
    BY <2>1, <1>7 DEF CreateRequest, ChatTypeOK, HasTarget, RefreshedStatus
  <2>2. CASE q # r
    BY <2>2, <1>6 DEF CreateRequest, ChatTypeOK, RequestAgreesWithTargets, HasTarget
  <2> QED
    BY <2>1, <2>2
<1> QED
  BY <1>3, <1>5, <1>8

\* The rows a claim writes, for a target that is not terminal.
LEMMA StartKeepsInv ==
    ASSUME ChatInv, NEW t \in Targets, StartAttempt(t), target[t] \notin TerminalTarget,
           \/ target[t] # "NONE"
           \/ mode[t[1]] = "moderated"
    PROVE  ChatInv'
<1> USE DEF ChatInv
<1> DEFINE n == attemptCount[t] + 1
<1>1. n \in Attempts /\ n # NoToken /\ n \in 0 .. MaxAttempts
  BY MaxAttemptsAssumption DEF StartAttempt, Attempts, NoToken, ChatTypeOK
<1>2. t[1] \in Requests
  BY DEF Targets
<1>3. Ended(t, token[t], "ABANDONED") \in [Attempts -> AttemptStatus]
  BY EndedType DEF AttemptStatus
<1>4. ChatTypeOK'
  BY <1>1, <1>2, <1>3 DEF StartAttempt, ChatTypeOK, RequestStatus, OpenRequest, TargetStatus, AttemptStatus
<1>5. \A i \in Attempts : attempt'[t][i] = IF i = n THEN "STARTED"
                                          ELSE IF attempt[t][i] = "STARTED" THEN "ABANDONED"
                                          ELSE attempt[t][i]
  <2>1. \A i \in Attempts : Ended(t, token[t], "ABANDONED")[i] =
               IF attempt[t][i] = "STARTED" THEN "ABANDONED" ELSE attempt[t][i]
    BY DEF Ended, TokenFencesAttempts
  <2> QED
    BY <1>1, <1>3, <2>1 DEF StartAttempt, ChatTypeOK
<1>6. /\ target'[t] = "PROCESSING" /\ token'[t] = n /\ attemptCount'[t] = n
      /\ replies'[t] = replies[t]
      /\ \A u \in Targets : u # t => /\ target'[u] = target[u] /\ token'[u] = token[u]
                                     /\ attemptCount'[u] = attemptCount[u]
                                     /\ attempt'[u] = attempt[u] /\ replies'[u] = replies[u]
  BY <1>1 DEF StartAttempt, ChatTypeOK
<1>7. TokenFencesAttempts'
  <2> SUFFICES ASSUME NEW u \in Targets
               PROVE  /\ target'[u] = "PROCESSING" <=> token'[u] # NoToken
                      /\ token'[u] # NoToken => token'[u] = attemptCount'[u]
                      /\ \A i \in Attempts : attempt'[u][i] = "STARTED" <=> i = token'[u]
                      /\ \A i \in Attempts : i > attemptCount'[u] => attempt'[u][i] = "NONE"
    BY DEF TokenFencesAttempts
  <2>1. CASE u # t
    BY <2>1, <1>6 DEF TokenFencesAttempts
  <2>2. CASE u = t
    <3>1. \A i \in Attempts : attempt'[t][i] = "STARTED" <=> i = n
      BY <1>1, <1>5
    <3>2. \A i \in Attempts : i > n => attempt[t][i] = "NONE" /\ i # n
      BY DEF TokenFencesAttempts, Attempts, ChatTypeOK
    <3>3. \A i \in Attempts : i > n => attempt'[t][i] = "NONE"
      BY <1>5, <3>2
    <3> QED
      BY <2>2, <1>1, <1>6, <3>1, <3>3
  <2> QED
    BY <2>1, <2>2
<1>8. AnsweredOnce'
  BY <1>6 DEF AnsweredOnce, TerminalTarget
<1>9. AttemptsExplainTargets'
  BY <1>5, <1>6 DEF AttemptsExplainTargets, TerminalTarget
<1>10. RequestAgreesWithTargets'
  <2>1. t = <<t[1], t[2]>> /\ t[2] \in Members
    BY DEF Targets
  <2>2. HasTarget(t[1])' /\ RefreshedStatus(t[1], target') = "PROCESSING"
    <3>1. target'[<<t[1], t[2]>>] = "PROCESSING"
      BY <1>6, <2>1
    <3>2. RefreshedStatus(t[1], target') = "PROCESSING"
      BY <2>1, <3>1, RefreshedRunning
    <3>3. "PROCESSING" \in StatusesOf(t[1], target')
      BY <2>1, <3>1 DEF StatusesOf
    <3> QED
      BY <3>2, <3>3 DEF HasTarget
  <2>3. ASSUME NEW q \in Requests, q # t[1]
        PROVE  /\ StatusesOf(q, target') = StatusesOf(q, target)
               /\ RefreshedStatus(q, target') = RefreshedStatus(q, target)
    <3>1. \A m \in Members : target'[<<q, m>>] = target[<<q, m>>]
      BY <1>6, <2>3 DEF Targets
    <3> QED
      BY <3>1, RefreshedLocal
  <2>4. /\ request'[t[1]] = "PROCESSING"
        /\ \A q \in Requests : q # t[1] => request'[q] = request[q]
        /\ mode' = mode
    BY <1>2 DEF StartAttempt, ChatTypeOK
  <2>5. ASSUME NEW q \in Requests
        PROVE  IF HasTarget(q)' THEN request'[q] = RefreshedStatus(q, target')
               ELSE /\ request'[q] \in {"NONE", "PENDING", "CANCELLED"}
                    /\ request'[q] # "NONE" => mode'[q] = "moderated"
    <3>1. CASE q = t[1]
      BY <3>1, <2>2, <2>4
    <3>2. CASE q # t[1]
      BY <3>2, <2>3, <2>4 DEF RequestAgreesWithTargets, HasTarget
    <3> QED
      BY <3>1, <3>2
  <2> QED
    BY <2>5 DEF RequestAgreesWithTargets
<1> QED
  BY <1>4, <1>7, <1>8, <1>9, <1>10

\* Releasing a claim, recovering expired leases and recovering at startup only
\* ever reopen PROCESSING targets.
LEMMA ReopenKeepsInv ==
    ASSUME ChatInv, NEW T \in SUBSET Targets, \A t \in T : target[t] = "PROCESSING", Reopen(T)
    PROVE  ChatInv'
<1> USE DEF ChatInv
<1>1. \A t \in Targets :
         /\ target'[t] = IF t \in T THEN "PENDING" ELSE target[t]
         /\ token'[t] = IF t \in T THEN NoToken ELSE token[t]
         /\ attempt'[t] = IF t \in T THEN Ended(t, token[t], "ABANDONED") ELSE attempt[t]
         /\ attemptCount'[t] = attemptCount[t] /\ replies'[t] = replies[t]
  BY DEF Reopen
<1>2. \A r \in Requests :
         request'[r] = IF \E t \in T : t[1] = r THEN RefreshedStatus(r, target') ELSE request[r]
  BY DEF Reopen
<1>3. ChatTypeOK'
  <2>1. request' \in [Requests -> RequestStatus]
    BY <1>2, RefreshedType DEF Reopen, ChatTypeOK
  <2>2. attempt' \in [Targets -> [Attempts -> AttemptStatus]]
    BY <1>1, EndedType DEF Reopen, ChatTypeOK, AttemptStatus
  <2> QED
    BY <2>1, <2>2, MaxAttemptsAssumption DEF Reopen, ChatTypeOK, TargetStatus, NoToken
<1>4. ASSUME NEW t \in T, NEW n \in Attempts
      PROVE  attempt'[t][n] = IF attempt[t][n] = "STARTED" THEN "ABANDONED" ELSE attempt[t][n]
  <2>1. attempt'[t] = Ended(t, token[t], "ABANDONED")
    BY <1>1
  <2>2. attempt[t][n] = "STARTED" <=> n = token[t]
    BY DEF TokenFencesAttempts
  <2> QED
    BY <2>1, <2>2 DEF Ended
<1>5. TokenFencesAttempts'
  BY <1>1, <1>4 DEF TokenFencesAttempts, Attempts, NoToken
<1>6. AnsweredOnce' /\ AttemptsExplainTargets'
  BY <1>1, <1>4 DEF AnsweredOnce, AttemptsExplainTargets, TerminalTarget
<1>7. ASSUME NEW r \in Requests, ~ \E t \in T : t[1] = r
      PROVE  /\ StatusesOf(r, target') = StatusesOf(r, target)
             /\ RefreshedStatus(r, target') = RefreshedStatus(r, target)
  <2>1. \A m \in Members : target'[<<r, m>>] = target[<<r, m>>]
    BY <1>1, <1>7 DEF Targets
  <2> QED
    BY <2>1, RefreshedLocal
<1>8. ASSUME NEW t \in T PROVE StatusesOf(t[1], target') # {}
  <2>1. t = <<t[1], t[2]>> /\ t[2] \in Members /\ target'[t] = "PENDING"
    BY <1>1 DEF Targets
  <2> QED
    BY <2>1 DEF StatusesOf
<1>9. RequestAgreesWithTargets'
  <2> SUFFICES ASSUME NEW r \in Requests
               PROVE  IF HasTarget(r)' THEN request'[r] = RefreshedStatus(r, target')
                      ELSE /\ request'[r] \in {"NONE", "PENDING", "CANCELLED"}
                           /\ request'[r] # "NONE" => mode'[r] = "moderated"
    BY DEF RequestAgreesWithTargets
  <2>1. CASE \E t \in T : t[1] = r
    BY <2>1, <1>2, <1>8 DEF HasTarget
  <2>2. CASE ~ \E t \in T : t[1] = r
    BY <2>2, <1>2, <1>7 DEF Reopen, RequestAgreesWithTargets, HasTarget
  <2> QED
    BY <2>1, <2>2
<1> QED
  BY <1>3, <1>5, <1>6, <1>9

\* The message that answers a target, its attempt and its request in one step.
LEMMA CommitKeepsInv ==
    ASSUME ChatInv, NEW t \in Targets, NEW k \in 0 .. MaxAttempts, NEW s \in TerminalTarget,
           Commit(t, k, s)
    PROVE  ChatInv'
<1> USE DEF ChatInv
<1>1. /\ target[t] \in {"PENDING", "PROCESSING"}
      /\ token[t] = k
      /\ t[1] \in Requests
  BY DEF Commit, CommitAllowed, Owned, TerminalTarget, Targets
<1>2. /\ target'[t] = s /\ token'[t] = NoToken /\ replies'[t] = replies[t] + 1
      /\ attempt'[t] = Ended(t, k, s) /\ attemptCount' = attemptCount
      /\ \A u \in Targets : u # t => /\ target'[u] = target[u] /\ token'[u] = token[u]
                                     /\ attempt'[u] = attempt[u] /\ replies'[u] = replies[u]
  BY DEF Commit, ChatTypeOK
<1>3. ChatTypeOK'
  <2>1. request' \in [Requests -> RequestStatus]
    BY RefreshedType DEF Commit, ChatTypeOK
  <2>2. attempt' \in [Targets -> [Attempts -> AttemptStatus]]
    BY EndedType DEF Commit, ChatTypeOK, AttemptStatus
  <2> QED
    BY <2>1, <2>2, MaxAttemptsAssumption DEF Commit, ChatTypeOK, TargetStatus, TerminalTarget, NoToken
<1>4. ASSUME NEW n \in Attempts
      PROVE  attempt'[t][n] = IF n = k THEN s ELSE attempt[t][n]
  BY <1>1, <1>2 DEF Ended, TokenFencesAttempts
<1>5. \A n \in Attempts : attempt[t][n] = "STARTED" <=> n = k
  BY <1>1 DEF TokenFencesAttempts
<1>6. \A n \in Attempts : n # NoToken
  BY DEF Attempts, NoToken
<1>7. TokenFencesAttempts'
  <2> SUFFICES ASSUME NEW u \in Targets
               PROVE  /\ target'[u] = "PROCESSING" <=> token'[u] # NoToken
                      /\ token'[u] # NoToken => token'[u] = attemptCount'[u]
                      /\ \A i \in Attempts : attempt'[u][i] = "STARTED" <=> i = token'[u]
                      /\ \A i \in Attempts : i > attemptCount'[u] => attempt'[u][i] = "NONE"
    BY DEF TokenFencesAttempts
  <2>1. CASE u # t
    BY <2>1, <1>2 DEF TokenFencesAttempts
  <2>2. CASE u = t
    <3>1. \A i \in Attempts : attempt'[t][i] # "STARTED"
      BY <1>4, <1>5 DEF TerminalTarget
    <3>2. \A i \in Attempts : i > attemptCount[t] => i # k
      BY <1>1 DEF TokenFencesAttempts, ChatTypeOK, Attempts, NoToken
    <3>3. \A i \in Attempts : i > attemptCount[t] => attempt'[t][i] = "NONE"
      BY <1>4, <3>2 DEF TokenFencesAttempts
    <3> QED
      BY <2>2, <1>2, <1>6, <3>1, <3>3 DEF TerminalTarget
  <2> QED
    BY <2>1, <2>2
<1>8. AnsweredOnce'
  BY <1>1, <1>2 DEF AnsweredOnce, TerminalTarget
<1>9. AttemptsExplainTargets'
  <2> SUFFICES ASSUME NEW u \in Targets, NEW n \in Attempts, attempt'[u][n] \in TerminalTarget
               PROVE  target'[u] = attempt'[u][n] /\ n = attemptCount'[u]
    BY DEF AttemptsExplainTargets
  <2>1. CASE u # t
    BY <2>1, <1>2 DEF AttemptsExplainTargets
  <2>2. CASE u = t
    <3>1. n = k
      BY <2>2, <1>1, <1>4 DEF AttemptsExplainTargets, TerminalTarget
    <3> QED
      BY <2>2, <3>1, <1>1, <1>2, <1>4, <1>6 DEF TokenFencesAttempts
  <2> QED
    BY <2>1, <2>2
<1>10. RequestAgreesWithTargets'
  <2>1. t = <<t[1], t[2]>> /\ t[2] \in Members
    BY DEF Targets
  <2>2. HasTarget(t[1])'
    <3>1. s \in StatusesOf(t[1], target')
      BY <1>2, <2>1 DEF StatusesOf, TerminalTarget
    <3> QED
      BY <3>1 DEF HasTarget
  <2>3. ASSUME NEW q \in Requests, q # t[1]
        PROVE  /\ StatusesOf(q, target') = StatusesOf(q, target)
               /\ RefreshedStatus(q, target') = RefreshedStatus(q, target)
    <3>1. \A m \in Members : target'[<<q, m>>] = target[<<q, m>>]
      BY <1>2, <2>3 DEF Targets
    <3> QED
      BY <3>1, RefreshedLocal
  <2>4. /\ request'[t[1]] = RefreshedStatus(t[1], target')
        /\ \A q \in Requests : q # t[1] => request'[q] = request[q]
        /\ mode' = mode
    BY <1>1 DEF Commit, ChatTypeOK
  <2>5. ASSUME NEW q \in Requests
        PROVE  IF HasTarget(q)' THEN request'[q] = RefreshedStatus(q, target')
               ELSE /\ request'[q] \in {"NONE", "PENDING", "CANCELLED"}
                    /\ request'[q] # "NONE" => mode'[q] = "moderated"
    <3>1. CASE q = t[1]
      BY <3>1, <2>2, <2>4
    <3>2. CASE q # t[1]
      BY <3>2, <2>3, <2>4 DEF RequestAgreesWithTargets, HasTarget
    <3> QED
      BY <3>1, <3>2
  <2> QED
    BY <2>5 DEF RequestAgreesWithTargets
<1> QED
  BY <1>3, <1>7, <1>8, <1>9, <1>10

\* Cancelling a moderated request nobody was assigned to.
LEMMA CancelKeepsInv ==
    ASSUME ChatInv, NEW r \in Requests, CancelEmptyModerated(r)
    PROVE  ChatInv'
<1> USE DEF ChatInv
<1>1. ChatTypeOK'
  BY DEF CancelEmptyModerated, ChatTypeOK, RequestStatus, TerminalRequest
<1>2. TokenFencesAttempts' /\ AnsweredOnce' /\ AttemptsExplainTargets'
  BY DEF CancelEmptyModerated, TokenFencesAttempts, AnsweredOnce, AttemptsExplainTargets
<1>3. RequestAgreesWithTargets'
  BY DEF CancelEmptyModerated, RequestAgreesWithTargets, HasTarget, ChatTypeOK
<1> QED
  BY <1>1, <1>2, <1>3

\* A lease that runs out: ownership does not depend on it.
LEMMA ExpireKeepsInv ==
    ASSUME ChatInv, NEW t \in Targets, ExpireLease(t)
    PROVE  ChatInv'
<1> USE DEF ChatInv
<1>1. ChatTypeOK'
  BY DEF ExpireLease, ChatTypeOK
<1>2. TokenFencesAttempts' /\ AnsweredOnce' /\ AttemptsExplainTargets' /\ RequestAgreesWithTargets'
  BY DEF ExpireLease, TokenFencesAttempts, AnsweredOnce, AttemptsExplainTargets,
     RequestAgreesWithTargets, HasTarget
<1> QED
  BY <1>1, <1>2

\* A claim and an assignment both start an attempt of a target that is not terminal.
LEMMA ClaimsStart ==
    ASSUME ChatInv, NEW t \in Targets, Claim(t) \/ AssignModerated(t)
    PROVE  /\ StartAttempt(t)
           /\ target[t] \notin TerminalTarget
           /\ target[t] # "NONE" \/ mode[t[1]] = "moderated"
<1>1. CASE Claim(t)
  BY <1>1 DEF Claim, Claimable, TerminalTarget
<1>2. CASE AssignModerated(t)
  <2>1. t = <<t[1], t[2]>> /\ t[2] \in Members
    BY DEF Targets
  <2>2. target[t] = "NONE"
    BY <1>2, <2>1 DEF AssignModerated, HasTarget, StatusesOf
  <2> QED
    BY <1>2, <2>2 DEF AssignModerated, TerminalTarget
<1> QED
  BY <1>1, <1>2

\* Every step that reopens targets reopens PROCESSING ones.
LEMMA ReopenOnlyRunning ==
    ASSUME \/ \E R \in SUBSET Requests : RecoverExpired(R)
           \/ RecoverOrphanedTargets
           \/ \E t \in Targets, k \in Attempts : Release(t, k)
    PROVE  \E T \in SUBSET Targets : /\ \A t \in T : target[t] = "PROCESSING"
                                     /\ Reopen(T)
<1>1. ASSUME NEW R \in SUBSET Requests, RecoverExpired(R)
      PROVE  \E T \in SUBSET Targets : (\A t \in T : target[t] = "PROCESSING") /\ Reopen(T)
  BY <1>1 DEF RecoverExpired, ExpiredTargets
<1>2. ASSUME RecoverOrphanedTargets
      PROVE  \E T \in SUBSET Targets : (\A t \in T : target[t] = "PROCESSING") /\ Reopen(T)
  BY <1>2 DEF RecoverOrphanedTargets
<1>3. ASSUME NEW t \in Targets, NEW k \in Attempts, Release(t, k)
      PROVE  \E T \in SUBSET Targets : (\A u \in T : target[u] = "PROCESSING") /\ Reopen(T)
  BY <1>3 DEF Release, Owned
<1> QED
  BY <1>1, <1>2, <1>3

\* The kinds of step the store takes.
LEMMA StepKinds ==
    ASSUME ChatInv, ChatNext
    PROVE  \/ \E r \in Requests, md \in {"explicit", "moderated"}, M \in SUBSET Members :
                 CreateRequest(r, md, M)
           \/ \E r \in Requests : CancelEmptyModerated(r)
           \/ \E T \in SUBSET Targets : (\A t \in T : target[t] = "PROCESSING") /\ Reopen(T)
           \/ \E t \in Targets : Claim(t) \/ AssignModerated(t)
           \/ \E t \in Targets : ExpireLease(t)
           \/ \E t \in Targets, k \in 0 .. MaxAttempts, s \in TerminalTarget : Commit(t, k, s)
BY ReopenOnlyRunning DEF ChatNext

\* Every transaction preserves the invariant.
LEMMA NextInv == ChatInv /\ [ChatNext]_chatVars => ChatInv'
<1> SUFFICES ASSUME ChatInv, [ChatNext]_chatVars PROVE ChatInv'
  OBVIOUS
<1>1. CASE UNCHANGED chatVars
  BY <1>1 DEF chatVars, ChatInv, ChatTypeOK, TokenFencesAttempts, AnsweredOnce,
     AttemptsExplainTargets, RequestAgreesWithTargets, HasTarget
<1>2. CASE ChatNext
  BY <1>2, StepKinds, CreateKeepsInv, CancelKeepsInv, ReopenKeepsInv, ClaimsStart,
     StartKeepsInv, ExpireKeepsInv, CommitKeepsInv
<1> QED
  BY <1>1, <1>2

\* The inductive invariant holds in every state the tables can reach.
THEOREM ChatInvariant == ChatSpec => []ChatInv
BY InitInv, NextInv, PTL DEF ChatSpec

\* The tables only ever hold values of their types.
THEOREM ChatTypeCorrect == ChatSpec => []ChatTypeOK
BY ChatInvariant, PTL DEF ChatInv

\* A stale worker can never find its own attempt running: for any number of
\* requests, members and claims, a token names the newest attempt of its target
\* and the only one that is STARTED.
THEOREM FencingHolds == ChatSpec => []TokenFencesAttempts
BY ChatInvariant, PTL DEF ChatInv

\* Exactly one message answers a terminal target, and none an open one.
THEOREM OneAnswerPerTarget == ChatSpec => []AnsweredOnce
BY ChatInvariant, PTL DEF ChatInv

\* At most one attempt of a target delivers, and it is the newest.
THEOREM OneDeliveringAttempt == ChatSpec => []AttemptsExplainTargets
BY ChatInvariant, PTL DEF ChatInv

\* The stored request status never drifts from its target rows.
THEOREM RequestsAgree == ChatSpec => []RequestAgreesWithTargets
BY ChatInvariant, PTL DEF ChatInv

-----------------------------------------------------------------------------
(* What is answered stays answered.                                         *)

\* A target that waits or runs keeps its request open.
LEMMA OpenTargetOpenRequest ==
    ASSUME ChatInv, NEW t \in Targets, target[t] \in OpenRequest
    PROVE  request[t[1]] \in OpenRequest
<1>1. t = <<t[1], t[2]>> /\ t[1] \in Requests /\ t[2] \in Members
  BY DEF Targets
<1>2. target[t] \in StatusesOf(t[1], target)
  BY <1>1 DEF StatusesOf, OpenRequest
<1>3. RefreshedStatus(t[1], target) \in OpenRequest
  BY <1>2, RefreshedType
<1> QED
  BY <1>1, <1>2, <1>3 DEF ChatInv, RequestAgreesWithTargets, HasTarget

\* No transaction rewrites an answered target or a closed request.
LEMMA StepIsFinal ==
    ASSUME ChatInv, ChatNext
    PROVE  /\ \A t \in Targets : target[t] \in TerminalTarget =>
                 target'[t] = target[t] /\ replies'[t] = replies[t]
           /\ \A r \in Requests : request[r] \in TerminalRequest => request'[r] = request[r]
<1> DEFINE Final == /\ \A t \in Targets : target[t] \in TerminalTarget =>
                          target'[t] = target[t] /\ replies'[t] = replies[t]
                    /\ \A r \in Requests : request[r] \in TerminalRequest =>
                          request'[r] = request[r]
<1> USE DEF ChatInv
<1>1. ASSUME NEW r \in Requests, NEW md \in {"explicit", "moderated"}, NEW M \in SUBSET Members,
             CreateRequest(r, md, M)
      PROVE  Final
  <2>1. \A t \in Targets : t[1] = r => target[t] = "NONE"
    BY <1>1, NoRequestNoTarget DEF CreateRequest
  <2> QED
    BY <1>1, <2>1 DEF CreateRequest, ChatTypeOK, TerminalTarget, TerminalRequest
<1>2. ASSUME NEW r \in Requests, CancelEmptyModerated(r)
      PROVE  Final
  BY <1>2 DEF CancelEmptyModerated, ChatTypeOK, OpenRequest, TerminalRequest
<1>3. ASSUME NEW T \in SUBSET Targets, \A t \in T : target[t] = "PROCESSING", Reopen(T)
      PROVE  Final
  <2>1. \A t \in T : request[t[1]] \in OpenRequest
    BY <1>3, OpenTargetOpenRequest DEF OpenRequest
  <2>2. \A r \in Requests : request[r] \in TerminalRequest => request'[r] = request[r]
    BY <1>3, <2>1 DEF Reopen, OpenRequest, TerminalRequest
  <2> QED
    BY <1>3, <2>2 DEF Reopen, TerminalTarget
<1>4. ASSUME NEW t \in Targets, Claim(t) \/ AssignModerated(t)
      PROVE  Final
  <2>1. request[t[1]] \in OpenRequest
    <3>1. CASE Claim(t)
      BY <3>1, OpenTargetOpenRequest DEF Claim, Claimable, OpenRequest
    <3>2. CASE AssignModerated(t)
      BY <3>2 DEF AssignModerated
    <3> QED
      BY <1>4, <3>1, <3>2
  <2> QED
    BY <1>4, <2>1, ClaimsStart DEF StartAttempt, ChatTypeOK, OpenRequest, TerminalRequest
<1>5. ASSUME NEW t \in Targets, ExpireLease(t)
      PROVE  Final
  BY <1>5 DEF ExpireLease
<1>6. ASSUME NEW t \in Targets, NEW k \in 0 .. MaxAttempts, NEW s \in TerminalTarget, Commit(t, k, s)
      PROVE  Final
  <2>1. target[t] \in OpenRequest
    BY <1>6 DEF Commit, CommitAllowed, Owned, OpenRequest
  <2>2. request[t[1]] \in OpenRequest
    BY <2>1, OpenTargetOpenRequest
  <2> QED
    BY <1>6, <2>1, <2>2 DEF Commit, ChatTypeOK, OpenRequest, TerminalRequest, TerminalTarget
<1> QED
  BY StepKinds, <1>1, <1>2, <1>3, <1>4, <1>5, <1>6

\* No claim, release, recovery or late commit reopens or rewrites what was
\* answered, in any run of the store.
THEOREM AnswersAreFinal == ChatSpec => TerminalIsFinal
<1>1. ChatInv /\ [ChatNext]_chatVars =>
        [ /\ \A t \in Targets : target[t] \in TerminalTarget =>
                target'[t] = target[t] /\ replies'[t] = replies[t]
          /\ \A r \in Requests : request[r] \in TerminalRequest =>
                request'[r] = request[r] ]_chatVars
  BY StepIsFinal
<1> QED
  BY <1>1, ChatInvariant, PTL DEF ChatSpec, TerminalIsFinal

-----------------------------------------------------------------------------
(* Refinement.                                                              *)

\* Empty tables are a service with no task open.
LEMMA InitRefines == ChatInit => Promise!AnswerInit
BY DEF ChatInit, Promise!AnswerInit, Promised

\* A new request opens its targets, a commit answers one, every other
\* transaction is a stutter of the service.
LEMMA StepRefines ==
    ASSUME ChatInv, ChatNext
    PROVE  [Promise!AnswerNext]_Promise!AnswerVars
<1> DEFINE st == [t \in Targets |-> Promised(target[t])]
           st1 == [t \in Targets |-> Promised(target'[t])]
<1> USE DEF ChatInv
<1>0. ASSUME st1 = st, replies' = replies
      PROVE  [Promise!AnswerNext]_Promise!AnswerVars
  BY <1>0 DEF Promise!AnswerVars
<1>1. ASSUME NEW T \in SUBSET Targets, \A t \in T : target[t] = "NONE", replies' = replies,
             \A t \in Targets : target'[t] = target[t] \/ t \in T,
             \A t \in T : target'[t] \in OpenRequest
      PROVE  [Promise!AnswerNext]_Promise!AnswerVars
  <2>1. \A t \in T : st[t] = "absent"
    BY <1>1 DEF Promised
  <2>2. st1 = [t \in Targets |-> IF t \in T THEN "open" ELSE st[t]]
    BY <1>1 DEF Promised, OpenRequest
  <2>3. Promise!Open(T)
    BY <1>1, <2>1, <2>2 DEF Promise!Open
  <2> QED
    BY <2>3 DEF Promise!AnswerNext
<1>2. ASSUME NEW r \in Requests, NEW md \in {"explicit", "moderated"}, NEW M \in SUBSET Members,
             CreateRequest(r, md, M)
      PROVE  [Promise!AnswerNext]_Promise!AnswerVars
  <2> DEFINE T == {t \in Targets : t[1] = r /\ t[2] \in M}
  <2>1. \A t \in T : target[t] = "NONE"
    BY <1>2, NoRequestNoTarget DEF CreateRequest
  <2> QED
    BY <1>1, <1>2, <2>1 DEF CreateRequest, OpenRequest
<1>3. ASSUME NEW t \in Targets, Claim(t)
      PROVE  [Promise!AnswerNext]_Promise!AnswerVars
  <2>1. target[t] \in OpenRequest /\ target'[t] = "PROCESSING" /\ replies' = replies
        /\ \A u \in Targets : u # t => target'[u] = target[u]
    BY <1>3 DEF Claim, Claimable, StartAttempt, ChatTypeOK, OpenRequest
  <2> QED
    BY <1>0, <2>1 DEF Promised, OpenRequest
<1>4. ASSUME NEW t \in Targets, AssignModerated(t)
      PROVE  [Promise!AnswerNext]_Promise!AnswerVars
  <2>1. t = <<t[1], t[2]>> /\ t[2] \in Members
    BY DEF Targets
  <2>2. target[t] = "NONE"
    BY <1>4, <2>1 DEF AssignModerated, HasTarget, StatusesOf
  <2>3. target'[t] = "PROCESSING" /\ replies' = replies
        /\ \A u \in Targets : u # t => target'[u] = target[u]
    BY <1>4 DEF AssignModerated, StartAttempt, ChatTypeOK
  <2>4. {t} \in SUBSET Targets /\ \A u \in {t} : target[u] = "NONE" /\ target'[u] \in OpenRequest
    BY <2>2, <2>3 DEF OpenRequest
  <2>5. \A u \in Targets : target'[u] = target[u] \/ u \in {t}
    BY <2>3
  <2> QED
    BY <1>1, <2>3, <2>4, <2>5
<1>5. ASSUME NEW T \in SUBSET Targets, \A t \in T : target[t] = "PROCESSING", Reopen(T)
      PROVE  [Promise!AnswerNext]_Promise!AnswerVars
  BY <1>0, <1>5 DEF Reopen, Promised
<1>6. ASSUME NEW t \in Targets, NEW k \in 0 .. MaxAttempts, NEW s \in TerminalTarget, Commit(t, k, s)
      PROVE  [Promise!AnswerNext]_Promise!AnswerVars
  <2>1. target[t] \in OpenRequest /\ target' = [target EXCEPT ![t] = s]
        /\ replies' = [replies EXCEPT ![t] = replies[t] + 1]
    BY <1>6 DEF Commit, CommitAllowed, Owned, OpenRequest
  <2>2. PICK a \in {"responded", "failed"} : a = Promised(s)
    BY DEF Promised, TerminalTarget
  <2>3. st[t] = "open" /\ st1 = [st EXCEPT ![t] = a]
    BY <2>1, <2>2 DEF Promised, OpenRequest, ChatTypeOK
  <2>4. Promise!Answer(t, a)
    BY <2>1, <2>3 DEF Promise!Answer
  <2> QED
    BY <2>4 DEF Promise!AnswerNext
<1>7. ASSUME target' = target, replies' = replies
      PROVE  [Promise!AnswerNext]_Promise!AnswerVars
  BY <1>0, <1>7
<1>8. ASSUME \/ \E r \in Requests : CancelEmptyModerated(r)
             \/ \E t \in Targets : ExpireLease(t)
      PROVE  [Promise!AnswerNext]_Promise!AnswerVars
  BY <1>7, <1>8 DEF CancelEmptyModerated, ExpireLease
<1> QED
  BY StepKinds, <1>2, <1>3, <1>4, <1>5, <1>6, <1>8

\* Whatever its callers do with claims, leases, recoveries and late commits,
\* the store looks to them like a service that opens a task once and answers it
\* once.
THEOREM StoreImplementsAnswerOnce == ChatSpec => ImplementsAnswerOnce
<1>1. ChatInv /\ [ChatNext]_chatVars => [Promise!AnswerNext]_Promise!AnswerVars
  <2>1. CASE UNCHANGED chatVars
    BY <2>1 DEF chatVars, Promise!AnswerVars
  <2> QED
    BY <2>1, StepRefines
<1> QED
  BY <1>1, InitRefines, ChatInvariant, PTL DEF ChatSpec, ImplementsAnswerOnce, Promise!AnswerSpec
=============================================================================
