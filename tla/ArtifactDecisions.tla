-------------------------- MODULE ArtifactDecisions --------------------------
(***************************************************************************)
(* The user's decisions about a confirmed artifact and what is derived from *)
(* them: paper portfolios, forward observations and walk-forward replays,   *)
(* tied to one decision by its lineage chain (backend/store.py,             *)
(* backend/user_decision.py, backend/paper_portfolio_service.py).           *)
(*                                                                          *)
(* Every operation is one BEGIN IMMEDIATE transaction, except a replay: its *)
(* binding is read first, then the market, then the run is committed.       *)
(* Abstracted: plans, prices, hashes, capability and plugin checks, the     *)
(* candidate contract (they only refuse); hashes are the identity of the    *)
(* records they seal.                                                       *)
(***************************************************************************)
EXTENDS Artifacts

CONSTANTS
    Rationales,     \* texts a user may give
    Portfolios,
    Observations,
    Replays,        \* walk-forward runs
    MaxDecisions,   \* bound: decisions about the artifact
    MaxPlan         \* bound: versions of a portfolio

Resources == Portfolios \cup Observations \cup Replays

ASSUME DecisionAssumption ==
    /\ Portfolios \cap Observations = {} /\ Replays \cap (Portfolios \cup Observations) = {}
    /\ MaxDecisions \in Nat /\ MaxPlan \in Nat

VARIABLES
    decisions,      \* artifact_user_decisions in the order of creation
    chain,          \* decision_lineage_events of each decision
    bound,          \* decision_lineage_resources: the decision of a resource
    portfolio,      \* paper_portfolios
    observation,    \* observations
    replay,         \* what a replay read before the market
    reported        \* the decision the last answer called current, or 0

lineageVars == <<chain, bound>>
decisionVars == <<versions, evidence, decisions, chain, bound, portfolio,
                  observation, replay, reported>>

Actions == {"support", "hold", "return"}
Relations == {"implements", "revises", "confirms", "tests", "evaluates", "records_outcome"}
ObservationStates == {"PROPOSED", "PENDING_BASELINE", "OPEN", "RESOLVED"}

NoPortfolio == [version |-> 0, status |-> "none"]
NoObservation == [status |-> "none", by |-> "none", artifact |-> 0]
NoReplay == [decision |-> 0, plan |-> NoPortfolio, of |-> "none", head |-> 0, strategy |-> FALSE]

DecisionInit ==
    /\ ArtifactInit
    /\ decisions = <<>>
    /\ chain = [d \in 1 .. MaxDecisions |-> <<>>]
    /\ bound = [r \in Resources |-> 0]
    /\ portfolio = [f \in Portfolios |-> NoPortfolio]
    /\ observation = [o \in Observations |-> NoObservation]
    /\ replay = [w \in Replays |-> NoReplay]
    /\ reported = 0

-----------------------------------------------------------------------------
(* Decisions. *)

OfVersion(v) == {d \in DOMAIN decisions : decisions[d].version = v}
IsLatest(d) == \A e \in OfVersion(decisions[d].version) : e <= d

\* _decision_lineage_anchor_state: a confirmed artifact whose evidence no
\* longer passes breaks the anchor, an older version does not.
IsCurrent(d) ==
    /\ ConfirmationIsValid
    /\ decisions[d].version = Version /\ IsLatest(d)
AnchorIsIntact(d) ==
    /\ IsConfirmed(decisions[d].version)
    /\ decisions[d].version = Version => evidence
Supports(d) == decisions[d].action = "support"

\* The same decision about the same version, whenever it was taken.
Repeats(d, action, rationale) ==
    decisions[d] = [version |-> Version, action |-> action, rationale |-> rationale]

Decide(action, rationale) ==
    LET same == {d \in DOMAIN decisions : Repeats(d, action, rationale)} IN
    /\ ConfirmationIsValid
    /\ \/ /\ same # {}
          /\ reported' = CHOOSE d \in same : \A e \in same : e <= d
          /\ UNCHANGED decisions
       \/ /\ same = {} /\ Len(decisions) < MaxDecisions
          /\ decisions' = Append(decisions,
                [version |-> Version, action |-> action, rationale |-> rationale])
          /\ reported' = Len(decisions')
    /\ UNCHANGED <<artifactVars, lineageVars, portfolio, observation, replay>>

-----------------------------------------------------------------------------
(* _append_decision_lineage_event. *)

EventsOf(r, d) == {i \in DOMAIN chain[d] : chain[d][i].resource = r}
LastEventOf(r, d) == CHOOSE i \in EventsOf(r, d) : \A j \in EventsOf(r, d) : j <= i
FirstEventOf(r, d) == CHOOSE i \in EventsOf(r, d) : \A j \in EventsOf(r, d) : i <= j

\* What a decision that is no longer current may still record.
MayFinish(d, relation, r) ==
    /\ r \in Observations /\ bound[r] = d
    /\ relation \in {"confirms", "revises", "records_outcome"}
    /\ chain[d][FirstEventOf(r, d)].relation = "tests"

CanAppendEvent_AnyDecision(d, relation, r) ==   \* mutant: an old decision will do
    AnchorIsIntact(d) /\ Supports(d) /\ bound[r] \in {0, d}

CanAppendEvent(d, relation, r) ==
    /\ AnchorIsIntact(d) /\ Supports(d)
    /\ bound[r] \in {0, d}
    /\ IsCurrent(d) \/ MayFinish(d, relation, r)

\* of: the portfolio the resource was derived from, plan: its version.
AppendEvent(d, relation, r, state, of, plan) ==
    /\ CanAppendEvent(d, relation, r)
    /\ chain' = [chain EXCEPT ![d] = Append(@,
          [relation |-> relation, resource |-> r, state |-> state,
           of |-> of, plan |-> plan])]
    /\ bound' = [bound EXCEPT ![r] = d]

\* An operation on a resource that need not be linked to a decision.
RecordIfLinked(relation, r, state, of, plan) ==
    IF bound[r] = 0 THEN UNCHANGED lineageVars
    ELSE AppendEvent(bound[r], relation, r, state, of, plan)

-----------------------------------------------------------------------------
(* Paper portfolios. *)

CreatePortfolio(f, d) ==
    /\ portfolio[f] = NoPortfolio
    /\ portfolio' = [portfolio EXCEPT ![f] = [version |-> 1, status |-> "DRAFT"]]
    /\ IF d = 0 THEN UNCHANGED lineageVars
       ELSE AppendEvent(d, "implements", f, "DRAFT", f, 1)
    /\ reported' = 0
    /\ UNCHANGED <<artifactVars, decisions, observation, replay>>

UpdatePortfolio_NoEvent(f) ==   \* mutant: the revision is not recorded
    /\ portfolio[f].version \in 1 .. MaxPlan - 1
    /\ portfolio' = [portfolio EXCEPT ![f] = [version |-> @.version + 1, status |-> "DRAFT"]]
    /\ reported' = 0
    /\ UNCHANGED <<artifactVars, lineageVars, decisions, observation, replay>>

UpdatePortfolio(f) ==
    LET next == portfolio[f].version + 1 IN
    /\ portfolio[f].version \in 1 .. MaxPlan - 1
    /\ portfolio' = [portfolio EXCEPT ![f] = [version |-> next, status |-> "DRAFT"]]
    /\ RecordIfLinked("revises", f, "DRAFT", f, next)
    /\ reported' = 0
    /\ UNCHANGED <<artifactVars, decisions, observation, replay>>

ConfirmPortfolio(f) ==
    /\ portfolio[f].status = "DRAFT"
    /\ portfolio' = [portfolio EXCEPT ![f].status = "CONFIRMED"]
    /\ RecordIfLinked("confirms", f, "CONFIRMED", f, portfolio[f].version)
    /\ reported' = 0
    /\ UNCHANGED <<artifactVars, decisions, observation, replay>>

\* _confirmed_paper_portfolio_lineage_decision_id.
ConfirmedBy(f, d) ==
    /\ portfolio[f].status = "CONFIRMED"
    /\ d # 0 /\ bound[f] = d
    /\ AnchorIsIntact(d) /\ IsCurrent(d) /\ Supports(d)
    /\ LET last == chain[d][LastEventOf(f, d)] IN
       last.relation = "confirms" /\ last.plan = portfolio[f].version

-----------------------------------------------------------------------------
(* Forward observations. *)

\* Unlinked, by the user or as a proposal of a model; it may name the artifact.
ProposeObservation(o, by, v) ==
    /\ observation[o] = NoObservation
    /\ v \in {0, Version}
    /\ observation' = [observation EXCEPT ![o] =
           [status |-> "PROPOSED", by |-> by, artifact |-> v]]
    /\ reported' = 0
    /\ UNCHANGED <<artifactVars, lineageVars, decisions, portfolio, replay>>

CreateObservation(o, f, d) ==
    /\ observation[o] = NoObservation
    /\ ConfirmedBy(f, d)
    /\ observation' = [observation EXCEPT ![o] =
           [status |-> "PROPOSED", by |-> "user", artifact |-> decisions[d].version]]
    /\ AppendEvent(d, "tests", o, "PROPOSED", f, portfolio[f].version)
    /\ reported' = 0
    /\ UNCHANGED <<artifactVars, decisions, portfolio, replay>>

\* Adopts a proposal of a model; a repeated binding changes nothing.
BindObservation(o, f, d) ==
    /\ observation[o].status = "PROPOSED" /\ observation[o].by = "ai"
    /\ bound[o] = 0
    /\ observation[o].artifact \in {0, decisions[d].version}
    /\ ConfirmedBy(f, d)
    /\ observation' = [observation EXCEPT ![o].artifact = decisions[d].version]
    /\ AppendEvent(d, "tests", o, "PROPOSED", f, portfolio[f].version)
    /\ reported' = 0
    /\ UNCHANGED <<artifactVars, decisions, portfolio, replay>>

\* _append_observation_lineage_state: the states a chain may go through.
MayRecord(o, relation, state) ==
    bound[o] # 0 =>
        LET last == chain[bound[o]][LastEventOf(o, bound[o])] IN
        \/ /\ relation = "confirms" /\ last.relation = "tests"
           /\ state \in {"OPEN", "PENDING_BASELINE"}
        \/ /\ relation = "revises" /\ last.relation = "confirms"
           /\ last.state = "PENDING_BASELINE" /\ state = "OPEN"
        \/ /\ relation = "records_outcome" /\ last.relation \in {"confirms", "revises"}
           /\ last.state = "OPEN" /\ state = "RESOLVED"

MoveObservation(o, from, relation, to) ==
    /\ observation[o].status = from
    /\ MayRecord(o, relation, to)
    /\ observation' = [observation EXCEPT ![o].status = to]
    /\ RecordIfLinked(relation, o, to, o, 0)
    /\ reported' = 0
    /\ UNCHANGED <<artifactVars, decisions, portfolio, replay>>

ConfirmObservation(o) ==
    \E to \in {"OPEN", "PENDING_BASELINE"} : MoveObservation(o, "PROPOSED", "confirms", to)
SetBaseline(o) == MoveObservation(o, "PENDING_BASELINE", "revises", "OPEN")
ResolveObservation(o) == MoveObservation(o, "OPEN", "records_outcome", "RESOLVED")

-----------------------------------------------------------------------------
(* Walk-forward replays: bind, read the market, commit. *)

StartReplay(w, f, d, strategy) ==
    /\ replay[w] = NoReplay /\ bound[w] = 0
    /\ ConfirmedBy(f, d)
    /\ replay' = [replay EXCEPT ![w] = [decision |-> d, plan |-> portfolio[f], of |-> f,
                                        head |-> Len(chain[d]), strategy |-> strategy]]
    /\ reported' = 0
    /\ UNCHANGED <<artifactVars, lineageVars, decisions, portfolio, observation>>

CommitReplay_AsRead(w) ==   \* mutant: the binding read before the market is used
    LET r == replay[w] IN
    /\ r # NoReplay
    /\ AppendEvent(r.decision, "evaluates", w, IF r.strategy THEN "STRATEGY" ELSE "COMPLETED",
                   r.of, r.plan.version)
    /\ replay' = [replay EXCEPT ![w] = NoReplay]
    /\ reported' = 0
    /\ UNCHANGED <<artifactVars, decisions, portfolio, observation>>

\* A strategy replay also needs the decision and its chain as it read them.
CommitReplay(w) ==
    LET r == replay[w] IN
    /\ r # NoReplay
    /\ portfolio[r.of] = r.plan
    /\ LET d == bound[r.of] IN
       /\ ConfirmedBy(r.of, d)
       /\ r.strategy => r.decision = d /\ r.head = Len(chain[d])
       /\ AppendEvent(d, "evaluates", w, IF r.strategy THEN "STRATEGY" ELSE "COMPLETED",
                      r.of, r.plan.version)
    /\ replay' = [replay EXCEPT ![w] = NoReplay]
    /\ reported' = 0
    /\ UNCHANGED <<artifactVars, decisions, portfolio, observation>>

DropReplay(w) ==
    /\ replay[w] # NoReplay
    /\ replay' = [replay EXCEPT ![w] = NoReplay]
    /\ reported' = 0
    /\ UNCHANGED <<artifactVars, lineageVars, decisions, portfolio, observation>>

-----------------------------------------------------------------------------

ArtifactMoves ==
    /\ ArtifactNext /\ reported' = 0
    /\ UNCHANGED <<lineageVars, decisions, portfolio, observation, replay>>

DecisionNext ==
    \/ ArtifactMoves
    \/ \E a \in Actions, t \in Rationales : Decide(a, t)
    \/ \E f \in Portfolios :
          \/ \E d \in 0 .. Len(decisions) : CreatePortfolio(f, d)
          \/ UpdatePortfolio(f) \/ ConfirmPortfolio(f)
    \/ \E o \in Observations :
          \/ \E by \in {"ai", "user"}, v \in {0, Version} : ProposeObservation(o, by, v)
          \/ \E f \in Portfolios, d \in DOMAIN decisions :
                CreateObservation(o, f, d) \/ BindObservation(o, f, d)
          \/ ConfirmObservation(o) \/ SetBaseline(o) \/ ResolveObservation(o)
    \/ \E w \in Replays :
          \/ \E f \in Portfolios, d \in DOMAIN decisions, strategy \in BOOLEAN :
                StartReplay(w, f, d, strategy)
          \/ CommitReplay(w) \/ DropReplay(w)

DecisionSpec == DecisionInit /\ [][DecisionNext]_decisionVars

-----------------------------------------------------------------------------
(* Properties. *)

\* What is true of the rows is what the chain says last: no path of create,
\* adopt, confirm, revise and resolve, with the decision current or not,
\* moves one without the other (store.py:10067-11329).
RowsMatchLineage ==
    \A d \in DOMAIN chain : \A r \in Resources :
        EventsOf(r, d) # {} =>
            LET last == chain[d][LastEventOf(r, d)] IN
            /\ bound[r] = d
            /\ r \in Portfolios =>
                  portfolio[r] = [version |-> last.plan, status |-> last.state]
            /\ r \in Observations =>
                  /\ observation[r].status = last.state
                  /\ observation[r].artifact = decisions[d].version

\* Every validation in a chain tests a portfolio version that the user had
\* confirmed and not revised since, at the moment it was recorded
\* (docs/artifact_workflow.md, decision_package_v2).
ValidationsFollowConfirmation ==
    \A d \in DOMAIN chain : \A i \in DOMAIN chain[d] :
        LET e == chain[d][i] IN
        e.relation \in {"tests", "evaluates"} =>
            \E j \in 1 .. i - 1 :
                /\ chain[d][j].relation = "confirms" /\ chain[d][j].resource = e.of
                /\ chain[d][j].plan = e.plan
                /\ \A k \in j + 1 .. i - 1 : chain[d][k].resource # e.of

\* A decision that a newer decision or a newer version replaced, or that is no
\* support, gets nothing new derived from it, for ever: its chain grows only
\* by the remaining states of observations it already had.
ReplacedDecisionsOnlyFinish ==
    [][\A d \in DOMAIN decisions :
          chain'[d] # chain[d] /\ ~(IsCurrent(d) /\ Supports(d)) =>
              LET e == chain'[d][Len(chain'[d])] IN
              /\ Supports(d) /\ EventsOf(e.resource, d) # {}
              /\ e.relation \notin {"implements", "tests", "evaluates"}
              /\ e.resource \in Observations
      ]_decisionVars

\* The decision an answer reports as the current one is the one every later
\* reader takes for the current one (is_current, store.py:19282 and 14737).
ReportedIsCurrent == reported # 0 => IsCurrent(reported)
=============================================================================
