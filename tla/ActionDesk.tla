----------------------------- MODULE ActionDesk -----------------------------
(***************************************************************************)
(* The action desk of a meeting artifact: actions of a confirmed version    *)
(* that the user adopted, their progress, and the explicit continuation of  *)
(* an old action by a newer one (backend/store.py, backend/action_desk.py). *)
(*                                                                          *)
(* A request is composed on what the client saw and may be delivered late,  *)
(* again or never; each delivery is one BEGIN IMMEDIATE transaction that    *)
(* writes event, head, anchor and anchor head together, so that one         *)
(* sequence stands for the four tables.  Abstracted: owner, due and note    *)
(* (an item's state stands for all), hashes, and that an edit may drop an   *)
(* action from the next version (its requests are refused).                 *)
(***************************************************************************)
EXTENDS Artifacts, FiniteSets

CONSTANTS
    ActionIds,      \* the actions of the artifact's content
    ItemStates,     \* what a patch can set
    RequestIds,     \* client_request_id
    MaxSent         \* bound: requests that clients compose

ASSUME DeskAssumption == MaxSent \in Nat

VARIABLES
    sent,           \* requests the clients composed, each with its id
    item,           \* artifact_action_events of each exact action
    links,          \* artifact_action_continuation_events
    answered        \* answers 200: the request and the revision it was told

deskVars == <<versions, evidence, sent, item, links, answered>>

\* An action of an exact version: artifact_version and action_id.
Items == (1 .. MaxVersion) \X ActionIds
VersionOf(i) == i[1]

\* initial_item_state: what a candidate shows before it is adopted.
CandidateState == "as_confirmed"
Revision(i) == Len(item[i])
StateOf(i) == IF item[i] = <<>> THEN CandidateState ELSE item[i][Revision(i)].state

\* _action_desk_source.
IsSource(i) == IsConfirmed(VersionOf(i))

DeskInit ==
    /\ ArtifactInit
    /\ sent = {} /\ item = [i \in Items |-> <<>>]
    /\ links = {} /\ answered = {}

-----------------------------------------------------------------------------
(* What a client sends: the request names the revision it saw. *)

AskTransition(q, i, s) ==
    /\ IsSource(i)
    /\ Cardinality(sent) < MaxSent
    /\ sent' = sent \cup {[id |-> q, kind |-> "item", on |-> i, expected |-> Revision(i),
                           seen |-> StateOf(i), state |-> s]}
    /\ UNCHANGED <<artifactVars, item, links, answered>>

AskContinuation(q, i, j) ==
    /\ IsSource(i) /\ IsSource(j) /\ VersionOf(i) < VersionOf(j)
    /\ Cardinality(sent) < MaxSent
    /\ sent' = sent \cup {[id |-> q, kind |-> "link", on |-> i, expected |-> Revision(i),
                           target |-> j]}
    /\ UNCHANGED <<artifactVars, item, links, answered>>

-----------------------------------------------------------------------------
(* transition_artifact_action. *)

\* The events of a room that carry a client_request_id.
EventsWith(q) ==
    UNION {{i} \X {k \in 1 .. Revision(i) : item[i][k].request = q} : i \in Items}

SameRequest_IdOnly(m, p) ==   \* mutant: the semantics are not compared
    m.kind = "item"

\* The request that wrote the event is this one, word for word.
SameRequest(m, p) ==
    /\ p[1] = m.on /\ p[2] = m.expected + 1
    /\ item[p[1]][p[2]].state = m.state

HandleTransition_AnyRevision(m) ==   \* mutant: expected_revision is not compared
    /\ m.kind = "item"
    /\ EventsWith(m.id) = {} /\ IsSource(m.on)
    /\ item' = [item EXCEPT ![m.on] = Append(@,
           [request |-> m.id, seen |-> m.seen, state |-> m.state])]
    /\ answered' = answered \cup {<<m, Revision(m.on) + 1>>}
    /\ UNCHANGED <<artifactVars, sent, links>>

HandleTransition(m) ==
    /\ m.kind = "item"
    /\ \/ \E p \in EventsWith(m.id) :
             /\ SameRequest(m, p)
             /\ answered' = answered \cup {<<m, p[2]>>}
             /\ UNCHANGED item
       \/ /\ EventsWith(m.id) = {}
          /\ IsSource(m.on)
          /\ m.expected = Revision(m.on)
          /\ item' = [item EXCEPT ![m.on] = Append(@,
                 [request |-> m.id, seen |-> m.seen, state |-> m.state])]
          /\ answered' = answered \cup {<<m, Revision(m.on) + 1>>}
    /\ UNCHANGED <<artifactVars, sent, links>>

-----------------------------------------------------------------------------
(* transition_artifact_action_continuation. *)

LinksWith(q) == {l \in links : l.request = q}
Adopted(i) == item[i] # <<>>

HandleContinuation_ManyLines(m) ==   \* mutant: existing continuations are not looked up
    /\ m.kind = "link"
    /\ LinksWith(m.id) = {}
    /\ IsSource(m.on) /\ IsSource(m.target)
    /\ VersionOf(m.on) < VersionOf(m.target)
    /\ Adopted(m.on) /\ m.expected = Revision(m.on) /\ ~Adopted(m.target)
    /\ links' = links \cup {[source |-> m.on, revision |-> m.expected,
                             target |-> m.target, request |-> m.id]}
    /\ answered' = answered \cup {<<m, m.expected>>}
    /\ UNCHANGED <<artifactVars, sent, item>>

HandleContinuation(m) ==
    /\ m.kind = "link"
    /\ \/ \E l \in LinksWith(m.id) :
             /\ l = [source |-> m.on, revision |-> m.expected, target |-> m.target,
                     request |-> m.id]
             /\ UNCHANGED links
       \/ /\ LinksWith(m.id) = {}
          /\ IsSource(m.on) /\ IsSource(m.target)
          /\ VersionOf(m.on) < VersionOf(m.target)
          /\ Adopted(m.on) /\ m.expected = Revision(m.on)
          /\ ~Adopted(m.target)
          /\ \A l \in links : l.source # m.on /\ l.target # m.target
          /\ links' = links \cup {[source |-> m.on, revision |-> m.expected,
                                   target |-> m.target, request |-> m.id]}
    /\ answered' = answered \cup {<<m, m.expected>>}
    /\ UNCHANGED <<artifactVars, sent, item>>

DeskNext ==
    \/ ArtifactNext /\ UNCHANGED <<sent, item, links, answered>>
    \/ \E q \in RequestIds, i \in Items :
          \/ \E s \in ItemStates : AskTransition(q, i, s)
          \/ \E j \in Items : AskContinuation(q, i, j)
    \/ \E m \in sent : HandleTransition(m) \/ HandleContinuation(m)

DeskSpec == DeskInit /\ [][DeskNext]_deskVars

-----------------------------------------------------------------------------
(* Properties. *)

\* Every answer is kept: what a client was told is recorded stands at that
\* revision for ever, whatever was delivered again, late or under a
\* client_request_id that another request had used (store.py:18061-18112).
AnswersStand ==
    \A a \in answered :
        IF a[1].kind = "item"
        THEN /\ a[2] \in 1 .. Revision(a[1].on)
             /\ item[a[1].on][a[2]].state = a[1].state
             /\ EventsWith(a[1].id) = {<<a[1].on, a[2]>>}
        ELSE \E l \in links :
                /\ l.source = a[1].on /\ l.target = a[1].target
                /\ l.revision = a[2] /\ LinksWith(a[1].id) = {l}

\* No update is lost: each event was decided on the state that the event
\* before it left, with any number of clients at work (store.py:18191-18204).
NoUpdateIsLost ==
    \A i \in Items : \A k \in 1 .. Revision(i) :
        item[i][k].seen = IF k = 1 THEN CandidateState ELSE item[i][k - 1].state

\* What the readers of the desk verify keeps verifying while the artifact is
\* edited and confirmed again and the items move on: actions come from
\* confirmed versions, a continuation starts at a revision its source really
\* had, goes to a newer version, and no action has two continuations or
\* continues two (_action_desk_chain_state, _action_continuation_chain_state).
DeskVerifies ==
    /\ \A i \in Items : Adopted(i) => IsSource(i)
    /\ \A l \in links :
          /\ l.revision \in 1 .. Revision(l.source)
          /\ IsSource(l.source) /\ IsSource(l.target)
          /\ VersionOf(l.source) < VersionOf(l.target)
          /\ \A k \in links : k.source = l.source \/ k.target = l.target => k = l
=============================================================================
