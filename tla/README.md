# AI collaboration studio: a TLA+ model of its backend

The program (`src/ai_collaboration_studio`) is a local, single-user studio in which
several AI members with separate roles discuss a question in a room. A Python
process serves HTTP and NDJSON streams, schedules the members, calls model
providers and keeps everything in one SQLite file; a React front end drives it.
Very little of it is about text: what is hard is that a discussion is a long
procedure made of short transactions, driven by an HTTP stream that can be closed
at any yield, next to handlers that pause, cancel, post and resume without waiting
for it, over a process that may die and has to continue from its tables.

This directory models that procedure. The paths below are relative to
`src/ai_collaboration_studio/backend` unless they say otherwise; docs are in
`src/ai_collaboration_studio/docs`.

## 1. Inventory

### How the parts interact

    browser --HTTP/NDJSON--> http_server.py      one thread per request
                               |  formal-execution lock per room (not waited for)
                               v
                             orchestrator.py     generators: run_round, run_idle_chat_request
                               |  room lock per room (not waited for)
                               +--> provider_call_ledger.py --> providers/*   (network)
                               v
                             store.py            one RLock, one transaction per method
                               v
                             SQLite file

* **Threads.** `ThreadingHTTPServer` gives every request a thread. A round or an
  idle answer is a generator that the thread iterates; each event is written to the
  socket at a `yield`. A failed write closes the generator, whose `finally` runs.
* **Locks.** `StudioOrchestrator._round_locks[room]` admits one generator per room
  and is taken without waiting (`ROOM_BUSY`). Pause, cancel, post, member edits and
  the recovery that the resume handler starts with do not take it.
* **Store.** Every method takes the store's `RLock` and commits or rolls back one
  transaction, so a method is atomic and a sequence of methods is not.
* **Restart.** `run_server` owns the database, then calls `recover_orphaned_work`
  once before it serves.

### Components, what they keep, and what makes them correct

| Component | State | Operations | Correct when | Here |
|---|---|---|---|---|
| Chat routing store (`store.py` 24300-25230, 26460-26610) | `chat_requests`, `chat_request_targets`, `chat_request_attempts` | create, claim, assign, release, recover, commit, cancel | each target gets one answer, a stale worker cannot deliver, the request status is that of its rows | `ChatStore`, `AnswerOnce`, proofs |
| Idle chat runner (`orchestrator.py` 280-600) | room lock, generator locals | post, repost, resume, answer, fail, disconnect | no orphaned claim, no repeated call, lock returned, request closed | `IdleRunner` |
| Round runner (`orchestrator.py` 630-4220) | generator locals | open, announce, schedule, interject, speak, drain, settle | checkpoint, turns, chat rows and status agree over any interruption; fairness of interjections; it ends | `RoundRunner` |
| Round, checkpoint and turn store (`store.py` 28200-29001, 25586-25836) | `rounds`, `round_checkpoints`, `round_turns` | create, pause, cancel, resume, complete, begin turn, save, restart | as above | `RoundRunner` (without seals) |
| Provider call ledger (`provider_call_ledger.py`, `store.py` 31900-33000) | `provider_execution_runs`, `provider_call_attempts` | create, bind, reserve, finish, abandon, close | budget never exceeded or refunded, one outcome per call | `ProviderLedger`, `CallBudget`, proofs |
| Formal execution (`http_server.py` 297-322, 3297-4135) | `_formal_execution_locks`, handler locals | launch, resume, generate minutes, preflight, send, crash | a call in flight has one owner, no request without a reservation, a kept round has its authorisation | `FormalExecution`, proofs |
| Director attempts and policy (`store.py` 27699-28170) | `director_attempts`, `director_decisions` | begin, answer, fail, cancel, recover | attempts, decisions, turns and calls verify each other after any interruption | `DirectorAttempts`, proofs |
| Convergence gates (`convergence.py`) | none | pure functions of messages | gates and blocker reasons agree | not modelled; in `RoundRunner` one Boolean |
| Artifacts, governance (`store.py`, `artifact_service.py`) | versions, confirmation | generate, edit, confirm, lose and regain evidence | what is confirmed never changes | generating: `FormalExecution`; the rest: `Artifacts` |
| User decisions and lineage (`store.py` 18900-20600, `user_decision.py`) | decisions, one event chain per decision | decide, derive, record | what is derived follows the decision that is current, rows agree with the chain | `ArtifactDecisions` |
| Action desk (`action_desk.py`, `store.py` 17400-18900) | action events and continuations | transition, continue | an answer stands, no update is lost, what readers verify verifies | `ActionDesk` |
| Portfolios, observations, replays (`paper_portfolio_service.py`) | versioned plans, observation states | create, revise, confirm, adopt, resolve, replay | every validation follows a confirmation | `ArtifactDecisions` (partly) |
| Plugin registry and lifecycle (`plugin_lifecycle.py`, `store.py` 5200-7100) | targets, events, heads, frozen resolutions | transition, change of build, bind a room or a round | the catalog and everything frozen stay verifiable | `PluginLifecycle` (partly) |
| Database migration (`database_migration.py`, `database_migration_commit.py`) | marker journal, images, receipts | prepare, apply, abort, finalize, roll back | what is interrupted can be ended, nobody's writes are replaced | `DatabaseMigration`, proofs |
| Instance ownership (`instance_ownership.py`, `server.py`) | lock file | take, return, die | one owner; a server never starts over a half-applied migration | `DatabaseMigration` |
| Manual ChatGPT channel (`manual_chatgpt.py`) | session, review run, reviews, card, recoveries | import, review, publish, recover, freeze | one budget is spent, its records verify | `ManualReview`, proofs |
| Source inbox | packages, attachments, drafts | import, acknowledge, attach | versions and idempotency | not modelled |
| Project invocation and integration | capabilities, invocations | issue, invoke, record | idempotent | not modelled |
| Provider adapters, turn contracts, research domains, market data, material ingest | none of their own | network calls, parsing, validation | outcomes are a success, a failure or a refusal | not modelled: only their outcome is |
| Candidate experiments, walk-forward | records | floating-point evaluation | numerical | not modelled: out of TLC's reach |
| HTTP server | handler threads | routes | errors mapped, handlers end | the handlers the runners need |
| Front end, scripts, gateway | none here | | | not modelled: they appear as the user |

### What is hard here

Interleaving of a generator with handlers that do not take its lock; tables that
must agree (turn ledger and checkpoint, request and targets, claim in memory and
claim in the table); leases that run out under a slow call; a stream closed or a
process killed between two transactions; the final status decided in three
transactions; a queue that must neither starve the discussion nor be starved by it;
provider calls that are paid before they are sent and whose outcome may never be
recorded; a database that is replaced on disk in steps that may each be the last one;
requests composed on a state that has moved on when they are delivered; chains of
events whose readers refuse everything when one link does not verify.
`PROJECT.json` lists each of these at its line with the properties that watch it.

## 2. Modules

| Module | Models | Composed of |
|---|---|---|
| `AnswerOnce` | the promise of chat routing: a task is opened once, answered once, never withdrawn | |
| `ChatStore` | the three chat tables and every transaction on them, under the most general caller | refines `AnswerOnce` |
| `ChatStoreProofs` | the theorems about `ChatStore` | extends `ChatStore`, `TLAPS` |
| `IdleRunner` | handler threads and `run_idle_chat_request` | extends and implements `ChatStore` |
| `IdleRunnerProofs` | the theorems about it | extends it and `ChatStoreProofs` |
| `RoundRunner` | `_run_round_unlocked`, the round tables, the handlers around a round | extends and implements `ChatStore` |
| `RoundRunnerProofs` | the theorems about it | extends it and `ChatStoreProofs` |
| `CallBudget` | the promise of an authorisation: calls are paid before they are made, never paid back | |
| `ProviderLedger` | the execution runs and call attempts and every transaction on them, under the most general caller | refines `CallBudget` |
| `FormalExecution` | the handlers that launch, resume and write up a round, over the ledger | extends and refines `ProviderLedger` |
| `ProviderLedgerProofs`, `FormalExecutionProofs` | the theorems about both | extend them, `TLAPS` |
| `DirectorAttempts` | the audit trail of a dynamic round: the director's attempts, decisions, turns and their calls | extends and implements `ProviderLedger` |
| `DirectorAttemptsProofs` | the theorems about it | extends it and `ProviderLedgerProofs` |
| `DatabaseMigration` | the migration tool, the owner lock and the startup of the server | |
| `PluginLifecycle` | the ledger of plugin versions and the resolutions frozen from it | |
| `ServerStateProofs` | the theorems about migration and plugin versions | extends both, `TLAPS` |
| `Artifacts` | the versions of a meeting artifact and its confirmation | |
| `ArtifactDecisions` | decisions, lineage, portfolios, observations, replays | extends `Artifacts` |
| `ActionDesk` | the actions of a confirmed version and their continuation | extends `Artifacts` |
| `ManualReview` | a manual ChatGPT session and its review threads, over the ledger | extends and implements `ProviderLedger` |
| `RoomRecordsProofs` | the theorems about the manual channel, the desk and the decisions | extends `ManualReview`, `ActionDesk`, `ArtifactDecisions` and `ProviderLedgerProofs` |
| `MCIdleRunner`, `MCRoundRunner`, `MCFormalExecution`, `MCDirectorAttempts`, `MCDatabaseMigration`, `MCArtifactDecisions` | constants of the runs | |
| `MCServerState`, `MCRoomRecords` | two and three specifications side by side, one explored at a time | see section 3 |

Definitions whose name carries an underscore suffix and the comment `mutant` are the
same operation with a plausible bug; nothing uses them but the mutation runs that
show each property can fail.

### ChatStore

`request`, `mode`, `target`, `token`, `lease`, `attemptCount` and `attempt` are the
columns of the same names (`lease` keeps only none / not yet run out / run out;
`token` is the number of the claim, which is as fresh as the random id of the code);
`replies` counts the messages written as answers of a target. One operator is one
store method: `CreateRequest` (`create_user_message_request`), `Claim`
(`claim_chat_target`), `AssignModerated`, `Release`, `RecoverExpired`,
`RecoverOrphanedTargets` (the chat part of `recover_orphaned_work`), `Commit` (the
chat part of `add_message`), `CancelEmptyModerated`; `RefreshedStatus` is
`_refresh_chat_request_status`, and it is part of every transaction that calls it.
`ChatNext` lets any caller take any of them with any token: what holds there holds
for every runner.

### IdleRunner

`lock` is the room's entry of `_round_locks`, `runner[w]` the locals of one handler
thread: where it is, its request, the targets it has loaded and not visited, the
member it is at, and `active_chat_claim`. A step is the code between two store calls
or yields. `RecoverLeases`, `LoadTargets`, `PickTarget`, `ClaimTarget`,
`CommitAnswer`, `ReleaseClaim` and `Unlock` follow the method from top to `finally`;
`FailUnavailable` is a target closed without a claim; `AnswerRejected` is
`add_message` raising twice because the claim is gone. `RoundLock`/`RoundUnlock`
stand for a round of the same room. `Disconnect` closes the generator, at the points
where it can be at a yield.

### RoundRunner

The tables are `roundStatus`, `pauseRequested`, `roster` (the `member_ids` frozen in
the checkpoint), `checkpoint` (the next order with the counters of
`_checkpoint_state`), `turn` (`round_turns`) and `requestRound`. `run` is the
generator: program counter, the counters in memory (`p`), the member or target that
was selected (`choice`), the claim it remembers, and whether the final transaction
closed the round. The order of the actions is the order of the code:

    created / resumed -> SaveFirstCheckpoint -> Announce ->
      top:   LeaveLoop | AcknowledgePause | FailUnknownTurn | ModeratorGone |
             Choose / Drained (moderated)  | ScheduleInOrder / SkipMember / NobodyLeft (by order)
      chosen: Recheck -> act
      act:   FailTarget | TakeTarget -> TargetGone / AskTarget -> TargetAnswered
             BeginTurn -> FailBeforeCall / CallSpeaker -> SpeakerAnswered / SpeakerFailed
             FinishDiscussion
      settle: Settle -> ReadOutcome -> Park -> Unlock
      any error: Interrupt -> finally: ReleaseClaim, ParkUnfinalized -> Unlock

Message, turn or target, and checkpoint are written by one `add_message`, hence
`CommitTurn` and `CloseInterjection`. `calls` and `streak` are history variables:
the model calls made for each turn, and the interjections closed since the last
formal turn counted independently of the checkpoint.

What is abstracted:

* Prompts, evidence, citations, market snapshots and message contents. A model call
  is a step that succeeds, fails or is refused.
* The provider call ledger (`FormalExecution` has it) and the director's attempts (`DirectorAttempts` has them).
  When they refuse, the round takes one of its error exits; all of those are
  `Interrupt`.
* The convergence gates: `WorkMayRemain` keeps that required work remains while
  fewer than `Required` members have answered, and leaves the answer open otherwise.
* Whom the ranking and the director prefer: any equally entitled member may be
  selected, a superset of the code's choices.
* Seals and hashes of checkpoints, and a damaged checkpoint.
* A provider on the skip list is a turn that fails before its call.

### ProviderLedger and CallBudget

`ledger[r]` is the row of an execution run, named by its `client_request_id`:
`status`, `max_calls`, `kind_call_limits`, `reserved_calls`, `completed_calls` and
the round it is bound to. `attempt[r][n]` is the attempt with `sequence_no` n. One
operator is one store method: `CreateRun`, `BindRound`, `Reserve`, `FinishCall`,
`AbandonStarted`, `CloseRun`; `AfterSettling` is the update of the counters and the
status that finish and abandon share. The counters are columns that the code updates
next to the attempts, so the model keeps both and `AccountsAgree` compares them.

Routes, target bindings, policies and seals only refuse and are left out; so are
replays, which return the row they find. An attempt's token is known only to whoever
reserved the attempt, so a finish with a wrong token is a refusal too.

`CallBudget` is the user's view: `granted` runs, calls `left`, calls `pending`. The
refinement maps `left` to `max - reserved` and `pending` to `reserved - completed`:
that these move only together with what they stand for is what `ImplementsCallBudget`
checks.

### FormalExecution

`holder` is the room's entry of `_formal_execution_locks`; `handler[h]` the locals of
one HTTP thread (place, execution run, round, reserved slot). `roundStatus`, `saved`
(rounds with a checkpoint) and `minutes` (rounds with an artifact under their
generation key) survive a crash, as does the ledger. `sent` is a history variable: the
requests that went out for each slot.

    Launch   -> OpenLedger -> RecoverCalls -> preflight -> ToOrchestrator
                 -> CreateRound -> Bind | BindFails -> SaveCheckpoint | OpeningFault -> discuss
    Resume   -> FindLedger -> RecoverCalls -> preflight -> ToOrchestrator
                 -> ResumeRound -> SaveCheckpoint -> discuss -> Park | Finish
    Generate -> CheckMinutes -> draft -> call or UseTemplate -> WriteMinutes
    a call:     ReserveCall -> SendRequest -> SettleCall | SettleFails
    around:     CancelPaused (no lock), CrashAndRestart (lock and locals are lost)

The four places that make a call follow the same protocol and are rows of one table:
`Probes`, `LateProbes` (routes still probed after a probe could not be recorded),
`Calls` (speakers and the director) and `Drafts` (minutes). They differ in where they
go on, and in `SettleFails`: a preflight ends blocked, a round is paused, the minutes
are refused. What a round does between its calls is `RoundRunner`'s; every refusal
before a round runs is `GiveUp`, after that `Park`. The preflight cache, which lets a
round start without a probe, is covered because a preflight may end at any time.

### DirectorAttempts

One formal round with its execution run. `directorAttempt`, `directorDecision` and
`roundTurn` are the tables `director_attempts`, `director_decisions` and `round_turns`,
numbered as the store numbers their rows; `target[s]` is the row that call `s` of the
ledger was reserved for. `stage` and `pauseAsked` are the round's status and its pause
request, `anchored` whether it has a row of `round_trace_anchors`. `worker` is the thread
that runs the round: where it is, the attempt it would cancel, the call it waits for, the
choice it has made and the decision that records it.

    head:    TurnsUsedUp | AcknowledgePause | FailUnknownTurn | StartSelecting
    select:  SelectWithoutCall
             | BeginAttempt -> ReserveDirector -> DirectorAnswers
                                               |  DirectorFails -> RecordFailure
                                               |  LedgerFails
                            |  ReserveDirectorFails
    choice:  NoTurnLeft | PauseChosen -> Part | SelectionFailed
             | AddDecision -> AnswerFinish | BudgetSpent | TurnRefused
                           |  BeginTurn -> AnswerSpeak
    speak:   FailBeforeCall
             | ReserveSpeaker -> SpeakerAnswers -> SettleAnswer
                              |  SpeakerFails -> FailTurn
    end:     Settle | Interrupt -> Leave -> Park -> Seal
    around:  Resume -> RecoverAttempts -> Reopen, GiveUp, RequestPause, CancelPaused,
             CrashAndRestart

Every arrow is one transaction or one call to a model; `Interrupt` is an exception, a
refusal or a closed stream at any of them, `LeavingFails` a fault in the `finally`
block itself. An attempt belongs to `_select_next_member` until the selection is
handed over; an exception before that leaves it `STARTED`, as the code does, because
`active_director_attempt` is not set yet. `cancel_paused_round` takes no lock and may
come between the steps of a resume.

Abstracted: the choice itself (rules, fallback and director may choose any speaker
or the end), the versions and routes that only refuse, interjections (their calls name
chat requests, see `RoundRunner`), and member edits, which end in `Interrupt`.

### DatabaseMigration

A database file is known by its image: what the code compares are hashes, and what
decides is whether the file is the one an operation was prepared from, the candidate it
prepared, something an outside writer made of either, or nothing. `source`, `rollback`
and `failed` are the three paths a replacement moves files between, `receipt` and
`journal` the receipt and the marker files of each operation; all of them survive
everything. `owner` is the owner lock, `work[p]` where one run of the tool is, `serving`
that the server passed its startup check.

    apply:    ScanBeforeLock -> LockAndCheck -> PublishIntent -> StartReplacement
                -> ReplaceSource | TearReplacement -> RecordReplacement -> RecordVerified
                -> WriteReceipt -> CommitReceipt -> Complete
    recover:  StartAbort    -> VerifyAbort -> FinishAbort
              StartFinalize -> VerifyRecovery -> WriteReceipt -> CommitReceipt -> Complete
              StartRollback -> MarkRollback -> RestoreSource | TearRestore -> LeaseRestored
                -> WriteRollbackReceipt -> CommitRollbackReceipt -> FinishRollback
    around:   Prepare, Stop (crash, refusal, exception), ServerLock/Start/Write/Stop,
              OutsideWrite

Every arrow is one durable write, so `Stop` between any two is the crash of the code.
`MayFollow` is the marker automaton of `database_migration_commit.py:1095-1143`,
`Classification` and the three `Can...` operators are the table of
`database_migration.py:1806-1868`. `OutsideWrite` is a process that ignores the owner
lock; while a run holds leases (the `Leased` places) it is shut out.

### PluginLifecycle

`events[t]`, `head[t]` and `registered` are the three tables of the ledger,
`installed` is what the running build implements, `resolution[h]` the head numbers a
room or a round froze. `LifecycleTransition` is one transaction, as in the code: what the
preview refuses (`PreviewAccepts`), the event and the head with the state that the preview
announced (`Record`), and the verification of the target for the answer (its last
conjunct), which rolls all of it back. The announced state is computed from the `View` of the
target, in which the state to resume in is missing; the verification replays the events
with it. `Intact` is `integrity_ok` of one version (its chain, those of the versions that
replace it, no circle), `CatalogVerifies` what every reader requires of all.
`ChangeBuild` is a restart with another build, `BindRoom` and `BindRound` freeze heads. Not repeated by the code and so not by the model: `enable`
of a plugin looks at the plugins that depend on it, not at those it depends on; a room
is bound only when all of its packs are ready, so this shows nowhere else.

### Artifacts, ArtifactDecisions, ActionDesk

`versions` is the table of frozen versions (its last element is the artifact itself),
`evidence` whether the confirmation gate passes on the materials as they are now:
replacing or deactivating a material flips it without touching the artifact.

`ArtifactDecisions` adds `decisions` in the order of creation, `chain[d]`, the lineage
events of each decision, and `bound[r]`, the decision a portfolio, an observation or a
replay belongs to. `AppendEvent` is `_append_decision_lineage_event` with its gate
`CanAppendEvent`: the anchor is intact, the decision supports, and it is current unless
the event only finishes an observation that it already had. Each operation on a row is
one transaction with the event it writes. A replay is three steps (`StartReplay` reads
plan and chain, the market is read, `CommitReplay` compares and commits).

`ActionDesk` keeps the requests that clients composed (`sent`); each may be handled at
any later time, twice or never (`HandleTransition`, `HandleContinuation`), which is all
that a late or repeated delivery can do to a handler that is one transaction. `item[i]`
is the event sequence of one action of one version, `links` the continuations,
`answered` a history variable: what clients were told.

### ManualReview

One session of the manual channel: `state`, `run`, `reviews`, `card` and `recovered` are
its rows, `drifted` says that the room no longer is what the frozen bundle describes,
`reviewer[p]` are the locals of one delivery of the review request, which is also one
fresh `review_run_id`. Ledger steps are those of `ProviderLedger`.

    Dispatch -> ImportResult -> review -> Publish -> Freeze
    review:  Begin -> Authorize -> (NextCall -> CallReturns | FinishFails -> Record)* -> Publish
    around:  ContextChanges, Recover (an orphan without a call), Crash

The five minutes after which a run counts as an orphan may have passed at any step, as
nothing bounds how slow a thread may be: `Recover` is enabled as soon as its other
conditions hold. Nothing resumes a review: after a crash behind its first call the
session stays in `API_REVIEW` with a `RUNNING` run; the recovery of the code is for runs
that cost nothing, by design, and the model shows no other way out.

## 3. Runs

| Run | Question | Instance | Distinct states |
|---|---|---|---|
| `idle_runner` | do two handler threads on one request ever orphan, repeat, block or forget, and do the chat tables keep their promise? | 1 request, 2 members, 2 threads, 2 disruptions | 40,896 |
| `round_dynamic` | do the tables of a moderated round agree at every step? | 1 round, 2 members, up to 3 formal turns, 1 interjection, 1 disruption | 940,256 |
| `round_in_order` | and of rule-based rounds, also with store errors before the first checkpoint? | 2 rounds, 1 interjection, 1 disruption | 1,765,470 |
| `round_live` | does the generator always end, is a starved queue the only one that is forgotten? | as `round_dynamic` | 940,256 |
| `formal_execution` | do the handlers use the ledger as it allows, and pay for every request? | 2 threads, 2 runs of 2 calls (1 for the director), 2 rounds, 1 disruption | 792,325 |
| `director_trace` | do attempts, decisions, turns and calls of a dynamic round verify each other after any interruption? | 2 speakers, 2 turns, 3 calls (2 for the director), 3 disruptions | 2,563,366 |
| `server_state` | what does a server find when it starts: can an interrupted migration be ended, does the plugin catalog verify? | 2 operations, 2 tools, 1 server; 3 plugin versions of 2 families, 2 builds, 3 requests | 312,784 |
| `room_records` | do decisions, actions and review sessions of a room keep what they said? | 4 versions, 2 decisions, 1 portfolio, 1 observation, 1 replay; 2 actions, 4 requests; 3 review threads, 2 request ids, 3 calls | 624,993 |
| `lost_minutes_call` | violation, see section 6 | as `formal_execution` | |
| `cancelled_round_returns` | violation | 1 round | |
| `second_migration` | violation | 2 operations, 2 tools | |
| `repeated_decision` | violation | 2 decisions | |

`server_state` and `room_records` check modules that share no variable. Each puts
them side by side with a constant variable `part` that names the one that is explored;
the others stay in their initial state. The number of states is the sum, not the
product, and a property is checked in every state of its own part.

`ChatStore` and `ProviderLedger` have no run of their own: under the most general
caller their properties are theorems (section 5), and the runs of the runners check
that the callers of the code use them as that caller does.

Eight more configurations show what section 6 lists without a run:
`MCRoundSuccesses.cfg`, `MCRoundQueueInOrder.cfg`, `MCRoundQueueStarved.cfg`,
`MCReviewReuse.cfg`, `MCReviewLeft.cfg`, `MCRoundUnanchored.cfg`,
`MCFinalTurnStarted.cfg`, `MCLifecycleOffered.cfg`.

A **disruption** is a crash, a closed stream, an error exit, a store call that fails,
an expired lease or (in rounds) a member switched on or off; each may happen at any
step, so one is enough to hit every pair of neighbouring transactions, and two in
`idle_runner` let the second one hit the recovery from the first. In
`DatabaseMigration` and `ManualReview` crashes are not counted at all.

The **bounds** and why they suffice:

* Two members: one can be failed, switched off or out of turns while the other is
  not, which is what every branch of the scheduler tells apart; the rows of a third
  are treated as those of the second.
* `MaxAttempts` bounds only the model. In the runner modules it exceeds the number
  of disruptions, so no claim is ever refused because of it (`CallsAreExplained`
  shows this for `IdleRunner`).
* `MaxConsecutive` is 1 (2 in the code): with one interjection and one formal turn
  per member a limit of two is never reached in a small instance. The finding of
  `MCRoundQueueStarved.cfg` has the same trace with limit 2 and two requests.
* `MemberCap`/`FollowUps`: 2 and 1 in the runs of moderated rounds: a follow-up turn, and a
  turn budget smaller than the caps, so that a turn can be left when every member has
  failed. This is what starves the queue; with 1 and 0 a member that has failed has had its
  turn.
* `MaxBudget` is 2 in `formal_execution` and 3 in `director_trace` and `room_records`
  (1000 in the code): a
  run passes through empty, open with a call settled, open with one in flight, and
  exhausted with one or two in flight, which is all that the guards compare. The
  proofs of section 5 drop the bound.
* `MaxDisruptions` is 3 in `director_trace`, where pauses and resumptions count as well:
  a crash, the resumption and another interruption, or a pause, its resumption and a
  crash. Two turns and two director's calls let every row have a predecessor that
  failed, answered or was given up. The proofs drop all of these bounds.
* `CallOutcomes` is one status in `formal_execution`: no handler branches on it;
  `room_records` has three, and the proofs all five.
* `MaxMarkers` (7) ends the retries of a finalize, the only marker that may be appended
  again and again; the longest journal without a retry has six markers, so every other
  action is met after a retry as well.
* Two operations and two tools: what an operation can suffer from others is that one
  published an intent or replaced the source before, after or between its own steps,
  and the lock admits one process at a time.
* `MaxEvents` (3 events of a version) and three requests let every triple of transitions of
  one version and every pair of versions meet; a cycle of replacements needs two
  versions of one family, a dependency a third version.
* `MaxVersion` 4 is draft, confirmed, edited, confirmed again: two confirmed versions,
  which is what decisions and continuations tell apart. Two decisions: a current one
  and a replaced one. `MaxPlan` 2: a confirmed plan and its revision. `MaxSent` 4: two
  requests for each of two actions, or two continuations and what they rest on.
* `Expected` is 3 (2 to 4 in the code); three review threads are one that was given up,
  one that took its place and one that comes too late, with two request ids, used again
  or not.
* Symmetry: handlers, runs and rounds in `formal_execution`; speakers in
  `director_trace`; operations, tools and plugin
  requests in `server_state`; actions and request ids in `room_records`. These sets
  are only compared for equality by actions and properties, and the runs have no
  liveness property. The review threads, runs and plugin versions are not permuted:
  definitions over them choose among members or the configuration tells them apart.
* Deadlock is checked in `idle_runner`. The other specifications can stop: an exhausted
  ledger, a finished round with its only message posted, a settled migration without a
  writer, a frozen session have nothing left to do.

### Properties

*IdleRunner.* `ClaimsAreHeld`: every claim in the table is in the memory of the thread
that holds the lock. `CallsAreExplained`: every repeated call is paid for by a
disruption, so retries alone repeat nothing. `RequestsTerminate`: every request is
closed, which also needs every holder of the room lock to give it back. Of the tables
beneath: `RequestAgreesWithTargets` (the cached status is the implied one) and
`ImplementsAnswerOnce` (refinement). That a token fences the attempts of its target
(`TokenFencesAttempts`) is a theorem.

*RoundRunner.* `CheckpointMatchesLedger`, `NoReplay`, `StreakRemembered`,
`RunningIsDriven`, `PausedIsResumable`, `FinishedRoundsAnswered`, `CompletedIsClean`,
`InterjectionsYield`, `HistoryIsFinal`, and the liveness
properties `RunEnds` and `AnsweredUnlessStarved`. Each is stated in words above its
definition. `AnsweredUnlessStarved` is what the code keeps of the stronger
`InterjectionsAnswered`, the promise of the repository's README: `Starved` describes the
states in which a moderated round hides its queue for a turn nobody can take (finding 4),
and about rule-based rounds it says nothing (finding 3).

*FormalExecution.* `LiveCallsStarted`: no resume or recovery abandons a call that a
handler is waiting for. `RequestsArePaid`: at most one request per reservation, over
failed settlements, resumes and restarts. `KeptRoundsHaveLedger`: a paused or finished
round has its checkpoint and exactly one authorisation. `ImplementsLedger`,
`ImplementsCallBudget`: refinements. That the counters of the ledger count its attempts
(`AccountsAgree`) is a theorem.

*DirectorAttempts.* `TraceVerifies`: what `round_execution_trace` requires of the links
between attempts, decisions, turns and calls holds after every single write.
`BreakerHolds`: a failed or invalid attempt is the round's last, over restarts.
`OneCallPerRow`: no attempt and no turn is paid for twice, and none answers whose call
failed. `NothingLeftStarted`: a round that is over has no attempt in flight, although
a cancel takes no lock and may hit the round between any two steps of a resume.

*DatabaseMigration.* `PendingIsRecoverable`: a crash at any point of apply or of a
recovery, however often, leaves an operation that some recovery action can still end.
`OutcomesAgree`: markers, receipt and files of an operation tell one outcome.
`OnlyAuthorizedIsReplaced`, `ServesOnlySettled`, `VerifiedImagesStay`.

*PluginLifecycle.* `CatalogStaysVerifiable`: no sequence of legal transitions and
upgrades ends in a catalog its readers refuse, although a recorded state may be one that
does not replay and the verification in the transaction covers one version only.
`FrozenResolutionsVerify`.

*ArtifactDecisions.* `RowsMatchLineage`, `ValidationsFollowConfirmation`,
`ReplacedDecisionsOnlyFinish`.

*ActionDesk.* `AnswersStand`, `NoUpdateIsLost`, `DeskVerifies`.

*ManualReview.* `OneBudgetIsSpent`: whatever is delivered twice, recovered,
reauthorized or interrupted, only one of the budgets opened for a session is drawn on.
`SessionVerifies`: what readers of a session require of its records always holds.

`RunningIsDriven` is checked without store errors between the insert of a round and
its first checkpoint (`StoreFaults = FALSE`): no handler catches those, the round
stays `RUNNING` without a generator until the next restart (hazard at
`orchestrator.py:1506`). `round_in_order` includes them.

## 4. Fairness

* `IdleFairness`: threads run (weak fairness of a runner's steps and of its attempt
  at the lock), a round that holds the lock returns it, a crashed process is started
  again. Nothing in the backend retries an open request by itself; the front end shows
  it and the user resumes it. As the lock is not queued for, one resume may find it
  busy: strong fairness says that of endlessly many resumes at a free lock one gets it.
* `RoundFairness`: the generator runs, because the HTTP thread iterates it and every
  provider call has a timeout; a crashed process is restarted; a user who finds the
  round `PAUSED` again and again eventually resumes it. No fairness is assumed of the
  outcome of a model call, of pausing or of posting.
* `AnsweredUnlessStarved` says that no request waits for ever from some point on
  (`Waiting`) while the members are switched on, no pause is requested, the round is not
  cancelled and its queue is not `Starved`. Each of these is a state the user or the
  findings below are responsible for, not the scheduler.

## 5. Proofs

`ChatStoreProofs` proves, for every set of requests and members and every positive
`MaxAttempts` (the only assumption, `MaxAttemptsAssumption`):

| Theorem | Statement |
|---|---|
| `ChatTypeCorrect` | `ChatSpec => []ChatTypeOK` |
| `FencingHolds` | `ChatSpec => []TokenFencesAttempts` |
| `OneAnswerPerTarget` | `ChatSpec => []AnsweredOnce` |
| `OneDeliveringAttempt` | `ChatSpec => []AttemptsExplainTargets` |
| `RequestsAgree` | `ChatSpec => []RequestAgreesWithTargets` |
| `AnswersAreFinal` | `ChatSpec => TerminalIsFinal` |
| `StoreImplementsAnswerOnce` | `ChatSpec => ImplementsAnswerOnce` |

None of the invariants is inductive alone. That a commit writes the only answer needs
to know that an owned target has none, that its attempt is the only one running needs
the fence, that creating a request cannot hit existing rows needs the agreement of
requests and rows. `ChatInv` is their conjunction. The lemmas follow the kinds of
transaction rather than the methods, because several methods share the rows they
write: `Create`, `Start` (claim and assign), `Reopen` (release and both recoveries),
`Commit`, `Cancel`, `Expire`; each preserves `ChatInv`, and each maps to a step of
`AnswerOnce` or to a stutter (only `Create` and `Commit` are visible).
`RefreshedLocal` and `RefreshedType` carry the aggregate status across a
transaction on another request or on the same one.

`ProviderLedgerProofs`, for every set of runs, rounds and kinds and every `MaxBudget`
(assumption `LedgerAssumption`: it is a natural number and `NoRound` is not a round):

| Theorem | Statement |
|---|---|
| `LedgerTypeCorrect` | `LedgerSpec => []LedgerTypeOK` |
| `AccountsHold` | `LedgerSpec => []AccountsAgree` |
| `KindLimitsHold` | `LedgerSpec => []KindLimitsKept` |
| `LedgerFinalHolds` | `LedgerSpec => LedgerIsFinal` |
| `LedgerImplementsBudget` | `LedgerSpec => ImplementsCallBudget` |

Even the type is not inductive alone: that `completed` stays within the budget needs
that it counts settled attempts, that these are among the reserved ones, and that
reserved slots are numbered without gaps. `LedgerInv` is type, accounts and limits
together, and that an absent run has an empty row. A transaction changes one run;
`LedgerFrame` carries the others. `Partition` (reserved = settled + in flight, as
cardinalities) turns each step into arithmetic; `SettlesCalls` proves finish and
abandon at once, as settling a non-empty set of attempts in flight.

`FormalExecutionProofs`, for every set of handlers, plans and bounds (assumptions
`LedgerAssumption` and `FormalAssumption`: the four kinds of the code, plans within the
budget, `Nobody` and `"none"` name no handler and no run):

| Theorem | Statement |
|---|---|
| `FormalImplementsLedger` | `FormalSpec => ImplementsLedger` |
| `FormalTypeCorrect` | `FormalSpec => []FormalTypeOK` |
| `LiveCallsHold` | `FormalSpec => []LiveCallsStarted` |
| `RequestsArePaidHolds` | `FormalSpec => []RequestsArePaid` |
| `KeptRoundsHold` | `FormalSpec => []KeptRoundsHaveLedger` |

`FormalInv` adds to the ledger's invariant what each handler knows at each place
(`HandlerOK`: all but the holder of the lock are idle; a handler that waits has a
`STARTED` attempt, one that is about to send has sent nothing on its slot; a round past
its binding is bound), that sent slots are reserved (`PaidOK`), and how rounds,
checkpoints and bindings relate (`RoundsOK`). There is one lemma per action; as every
other handler is idle, an action has to re-establish `HandlerOK` only for its own.
With the two refinements, `FormalExecution` implements `ProviderLedger`, which
implements `CallBudget`: whatever launches, resumes, crashes and minutes do, no call is
made unpaid or paid back.

`ServerStateProofs`, for every set of operations and tools (assumption
`MigrationAssumption`: the special owners and images are not members of them), and for
every set of plugin versions, families, dependencies, builds, rooms, rounds and requests
(`PluginAssumption`):

| Theorem | Statement |
|---|---|
| `MigrationTypes` | `MigrationSpec => []MigrationTypeOK` |
| `NothingElseIsReplaced` | `MigrationSpec => []OnlyAuthorizedIsReplaced` |
| `ServerWaits` | `MigrationSpec => []ServesOnlySettled` |
| `LeasesProtect` | `MigrationSpec => []VerifiedImagesStay` |
| `OneOutcomeIsTold` | `MigrationSpec => []OutcomesAgree` |
| `InterruptedCanBeEnded` | `MigrationSpec => []PendingIsRecoverable` |
| `CatalogNeverBreaks` | `PluginSpec => []CatalogStaysVerifiable` |
| `ResolutionsNeverBreak` | `PluginSpec => []FrozenResolutionsVerify` |

The argument about the database rests on the lock (`LockInv`): only the run that owns it
is past it, and an idle run has no operation. `MarkerLock` then says that a marker is
appended by the owner only, so that an operation becomes active under the lock, and a
server that holds it sees none (`SettledStep`). For the images, every step that moves a
file is either the owner's or an outside writer's, and the second is shut out at the
places where `VerifiedImagesStay` claims anything (`ImagesStep`); all other runs are
before those places (`OthersOut`).

The outcomes need more (`OutcomeInv`). A journal is known by its last marker: `Shape` says
which earlier markers that one implies and excludes, so no induction over the journal is
needed, and a step that appends one has to fit the last one only (`Fits`). `Agrees` ties
the receipt and the two side files to it, `PlaceFacts` says what the run at each place of
the code may rely on, and `Pending` which images an interrupted operation can be left
with: nothing moved, moved in, or moved back, each with the markers at which a crash can
leave it so. Every such pair is one that a `Can...` operator accepts, which is
`InterruptedCanBeEnded`; like its property it speaks of operations no other one has
interfered with (`Alone`), because of finding 6.

That a catalog stays verifiable has two parts. For the version of the event it is the
verification in the transaction: of all that the preview accepts it lets pass exactly the
events whose state the view has not spoilt (`VerifiedIffReplays`). All the others are not looked
at again, and rest on `NamedAreRetired`: a version with a replacement is
deprecated or tombstoned, and what may be named as a replacement is ready, so it has none
itself. A new edge therefore ends outside every circle, and `NoCycle` (no set of versions
is its own image) is kept although every single transition looks at one edge only. Chains
verify for ever because the head is the state of the last event (`HeadsFollow`) and events are
only appended (`StatesStay`), which is also why a frozen head stays what it was.

`RoomRecordsProofs`, for every set of threads and request ids and every number of
reviews within the budget (`LedgerAssumption`, `ReviewAssumption`), for every set of
actions and request ids (`DeskAssumption`), and for every set of portfolios, observations
and replays (`DecisionAssumption`: they are different things); every bound may have any
value:

| Theorem | Statement |
|---|---|
| `ReviewTypeCorrect` | `ReviewSpec => []ReviewTypeOK` |
| `ReviewImplementsLedger` | `ReviewSpec => LedgerSpec` |
| `OneBudgetHolds` | `ReviewSpec => []OneBudgetIsSpent` |
| `SessionVerifiesHolds` | `ReviewSpec => []SessionVerifies` |
| `AnswersStandForEver` | `DeskSpec => []AnswersStand` |
| `NoDeskUpdateIsLost` | `DeskSpec => []NoUpdateIsLost` |
| `DeskAlwaysVerifies` | `DeskSpec => []DeskVerifies` |
| `RowsFollowTheChain` | `DecisionSpec => []RowsMatchLineage` |
| `ValidationsAreOfConfirmedPlans` | `DecisionSpec => []ValidationsFollowConfirmation` |
| `NothingNewFromReplaced` | `DecisionSpec => ReplacedDecisionsOnlyFinish` |

`ReviewInv` says where a thread can be when it is the session's run and when it is not
(`ThreadOK`): the thread of the present run stands where its ledger and its reviews are;
a thread whose run was given up before its first call has made none and its ledger is
closed, so its next reservation is refused. This is the point of the recovery's
conditions: a thread that was only slow finds its budget gone and not a second one.
`SpentOK` says that only the present run's ledger has reserved calls, `RowsOK` and
`CardOK` tie reviews and card to it. As a session implements the ledger, the theorems
of `ProviderLedgerProofs` hold for it.

`DeskInv`: an id stands on one event and one continuation at most (`IdsAreSpent`), so a
repeated delivery finds the event of its own request and answers with that revision; and
what a request saw is still what is recorded at the revision it names (`SeenIsRecorded`),
so the comparison of revisions at the write is a comparison with what the user saw.

`DecisionInv`: every event fits the kind of its resource (`EventsFit`) and a resource is
bound by its first event (`BoundHasEvents`), so its row can be compared with the last
event of one chain. One lemma (`AppendInv`) covers every operation that writes an event
with its row; what differs between operations is why the event is allowed. The
action property then reads off `CanAppendEvent` what a decision that was replaced still
gets: the end of an observation it already had.

`DirectorAttemptsProofs`, for every set of speakers and every number of turns, calls and
disruptions (`DirectorAssumption`, `LedgerAssumption`):

| Theorem | Statement |
|---|---|
| `DirectorTypeCorrect` | `DirectorSpec => []DirectorTypeOK` |
| `DirectorSpendsByLedger` | `DirectorSpec => LedgerSpec` |
| `BreakerHoldsAlways` | `DirectorSpec => []BreakerHolds` |
| `NothingIsLeftStarted` | `DirectorSpec => []NothingLeftStarted` |
| `TraceAlwaysVerifies` | `DirectorSpec => []TraceVerifies` |
| `RowsArePaidOnce` | `DirectorSpec => []OneCallPerRow` |

None of the four properties is inductive. They rest on `Known`: the ledger's own
invariant, the types, where the thread is and what it must then hold (`WorkerOK`), and
which attempts may be `STARTED` there (`AttemptsOK`): none at the places of `Quiet`, only
the thread's own at those of `Holding`, and anywhere else any, but only while the round
is not over, which is why each way out of a round has to cancel. Upon it, `TrailOK` says that
the decision just recorded is the thread's choice and has no turn yet, from which
the links of `TraceVerifies` follow, and `CallsOK` that the row about to be paid for has
no call yet and that the call waited for is for the thread's row. The step that
`FailUnknownTurn` takes is the point of `OneCallPerRow`: a turn found in flight may have
been paid for, so it must fail and not be spoken.

`IdleRunnerProofs`, for every set of requests, members and threads and every number of
disruptions (`MaxAttemptsAssumption`, `IdleAssumption`), of `IdleSafetySpec`, the
specification without its fairness:

| Theorem | Statement |
|---|---|
| `RunnersImplementStore` | `IdleSafetySpec => ChatSpec` |
| `EveryClaimIsHeld` | `IdleSafetySpec => []ClaimsAreHeld` |
| `EveryCallIsExplained` | `IdleSafetySpec => []CallsAreExplained` |
| `IdleRequestsAgree` | `IdleSafetySpec => []RequestAgreesWithTargets` |
| `IdleAnswersOnce` | `IdleSafetySpec => ImplementsAnswerOnce` |
| `IdleTypesHold` | `IdleSafetySpec => []IdleTypeOK` |

The runners take steps of the store only, so what is proved of the store under any caller
holds for them; the two promises of the tables are inherited so. `IdleInv` adds
that only the holder of the lock is inside the generator (`Locks`) and at which places of
its loop it keeps a claim (`ClaimsInOrder`). For the calls it keeps an account per target
(`Accounts`): a target that waits has been called at most once per disruption, and one that
is being called by a living runner has one call on credit, which its answer uses up and
only a disruption gives back.

`RoundRunnerProofs`, for every set of rounds, requests and members, every roster order,
both workflows, every cap, every required number of answers and every number of disruptions
(`RoundAssumption`), of `RoundSafetySpec`:

| Theorem | Statement |
|---|---|
| `CheckpointIsTheLedger` | `RoundSafetySpec => []CheckpointMatchesLedger` |
| `NoTurnIsReplayed` | `RoundSafetySpec => []NoReplay` |
| `StreakIsRemembered` | `RoundSafetySpec => []StreakRemembered` |
| `PausedCanResume` | `RoundSafetySpec => []PausedIsResumable` |
| `FinishedIsAnswered` | `RoundSafetySpec => []FinishedRoundsAnswered` |
| `CompletedMeansClean` | `RoundSafetySpec => []CompletedIsClean` |
| `RunningHasItsGenerator` | `~StoreFaults` implies `RoundSafetySpec => []RunningIsDriven` |
| `HistoryOnlyGrows` | `RoundSafetySpec => HistoryIsFinal` |
| `InterjectionsWaitTheirTurn` | `RoundSafetySpec => InterjectionsYield` |
| `RoundTypesHold` | `RoundSafetySpec => []RoundTypeOK` |
| `RoundsImplementStore` | `RoundSafetySpec => ChatSpec` |
| `RoundRequestsAgree` | `RoundSafetySpec => []RequestAgreesWithTargets` |
| `RoundsAnswerOnce` | `RoundSafetySpec => ImplementsAnswerOnce` |

`RoundInv` says where each fact about a round is written down. `Ledger`: the counters of the
checkpoint count the turns before its `next` (`Counted`), a turn beyond it is at most the
one in flight, and no turn is called twice. `Remembers`: inside the loop the generator's
memory is the checkpoint, so that writing the one from the other loses nothing.
`Acting`: what it has chosen, claimed and reserved. `Statuses`: who may change which round.
`Exclusive`: without a store fault in the opening, only the generator's round is open,
which is the hypothesis of `RunningHasItsGenerator`; with such a fault the property is
false (hazard at `orchestrator.py:1506`). `Queued`: interjections and the round they belong
to. Lemmas follow what a step touches: a step that leaves the ledger and its checkpoint
alone needs only `Acting`, one that ends a turn needs the counts (`EndTurn`), and the
handlers around the round need `Statuses`. That an answer adds one to the counts is the
only arithmetic, done with cardinalities. Every step is one transaction on the chat
tables or none (`RoundStepIsChatStep`), so the theorems of the store hold for interjections.

`CompletedIsClean` says what the settlement compares (`orchestrator.py:2577-2586`,
`orchestrator.py:4142-4150`): no turn failed or is open, every turn before the checkpoint
was answered, and at least `Required` members were heard. It does not say that every
enabled member was: one that is switched on again between the settlement and the write of
the status was not asked, and the round is `COMPLETED`.

### What is only model-checked

* Liveness: `RequestsTerminate`, `RunEnds`, `AnsweredUnlessStarved`. The prover handles
  neither fairness nor `ENABLED`.
* The statements of section 6, which are false, and have no theorem.

Every invariant and every action property of a passing run is stated by a theorem; a run
shows it on one instance with TLC, so that a mistake in a definition has two readers. The
theorems about `IdleRunner` and `RoundRunner` are about the specifications without their
fairness, which the fair ones imply. No theorem is about a recursive definition, as the
prover cannot do induction over data: invariants speak of the last element or of an
arbitrary one instead.

## 6. Where code and documentation disagree

1. **A cancelled round comes back** (`CancelledIsFinal`, run `cancelled_round_returns`).
   The end of a round is three transactions. With a pause requested, the first writes
   `PAUSED`; a cancel then writes `CANCELLED`; the runner reads that, takes it for
   "interjections are pending", and writes `PAUSED` unconditionally
   (`orchestrator.py:4160`).
2. **An interjection counts as an answer** (`SuccessesAreFormal`,
   `MCRoundSuccesses.cfg`). A resume without recorded successes rebuilds them from all
   AI messages of the round, interjection replies included (`orchestrator.py:1798`).
3. **A rule-based round never takes up its queue** (`InterjectionsAnswered`,
   `MCRoundQueueInOrder.cfg`, `orchestrator.py:3125`). The roster is gone through, the round cannot
   end over the pending request and is parked; every resume does the same.
4. **A moderated round whose members have all failed hides its queue**
   (`InterjectionsAnswered`, `MCRoundQueueStarved.cfg`, `orchestrator.py:2548`). The queue has to
   wait for a formal turn that nobody can take, and the checkpoint keeps the counter that
   makes it wait, so a resume changes nothing.
5. **A lost minutes call blocks its minutes for ever** (`LostCallsAreRecoverable`, run
   `lost_minutes_call`). The minutes of a finished round refuse while a call of its run
   is `STARTED` and ask for the recovery of the paused round (`http_server.py:3359`);
   that recovery is reached only from rounds that are `PAUSED` and from launches.
6. **A second migration strands an interrupted one** (`EveryPendingIsRecoverable`, run
   `second_migration`). The journals are scanned before the owner lock is taken and not
   again under it (`database_migration.py:1286`): a tool that passed the scan replaces the
   database although another operation was interrupted in between, and that one can
   then be neither aborted nor finalized nor rolled back.
7. **A repeated decision is reported as current** (`ReportedIsCurrent`, run
   `repeated_decision`). An identical record is looked up among all decisions of the
   version (`store.py:19251`), so after support, hold, support the answer calls the first
   record current while every reader takes the second.
8. **A recovered review may use its old request** (`NextRequestIsNew`,
   `MCReviewReuse.cfg`, `manual_chatgpt.py:2017`). It is bound to the ledger the recovery
   closed, its first reservation is refused and the session ends without a call.
9. **A round completes without its trace anchor** (`EndedIsAnchored`,
   `MCRoundUnanchored.cfg`). Only `complete_round` and the creation of minutes seal the
   trace; `complete_round_if_no_pending`, pausing at a checkpoint, cancelling and
   recovery do not (`store.py:25228`), so a round that was never parked ends without an
   anchor and the trace check reports it until minutes are made.
10. **A cancelled round keeps a turn in flight** (`FinalTurnsSettled`,
   `MCFinalTurnStarted.cfg`). After a crash during a call the turn stays `STARTED` until
   the round is resumed; cancelling it instead leaves the turn so for ever
   (`store.py:28631`), which the trace check reports as `FINAL_ROUND_HAS_STARTED_TURN`.
11. **A disabled plugin cannot be deprecated** (`OfferedIsRecorded`,
   `MCLifecycleOffered.cfg`). The preview computes the next state from a view without the state to
   resume in and takes "enabled" for it (`store.py:6824`, `plugin_lifecycle.py:303`). When that
   is wrong, the event does not replay and the confirmed action is rolled back as an
   integrity failure: `deprecate`, `reinstate` and `clear_quarantine` of a version that was
   disabled. What was disabled and then quarantined can only be tombstoned.

`LeftMeansSettled` (`MCReviewLeft.cfg`) is violated too: a second request that finds the
context changed ends the session without the run of the first
(`manual_chatgpt.py:2006`). No sentence of the repository says what should become of
that run, so it is a hazard and not a finding. `PROJECT.json` quotes the sentences
that the others contradict.

## 7. Plan

Done: chat routing; the idle runner; the round runner; call ledger and formal execution;
migration and ownership; plugin lifecycle; artifacts, decisions, action desk; the manual
channel; director attempts; and the proofs of their safety properties.

Next, in this order:

1. Source inbox and project invocation: idempotent stores like the action desk.
2. Convergence gates as operators against a reference definition.

### Not modelled

* **Convergence gates, turn contracts, research domains, material ingest**: pure
  functions of text. Their outcome (does required work remain, is an answer valid) is
  a nondeterministic choice in the models that use it.
* **Provider adapters, market data, gateway**: network calls and read-only
  projections; a call succeeds, fails or is refused.
* **Candidate experiments, walk-forward**: floating-point evaluation of long series.
  That a replay is bound to the plan it tested is in `ArtifactDecisions`.
* **Source inbox, project invocation**: stateful, but each operation is one
  transaction with a version check and an idempotency key, the pattern that
  `ActionDesk` covers; they come after what is concurrent.
* **Seals, hashes, trace anchors**: taken to identify what they seal; of the anchors
  only whether a round has one is modelled (`anchored`).
* **Front end, scripts**: they appear as the user, or not at all.
