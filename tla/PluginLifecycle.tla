--------------------------- MODULE PluginLifecycle ---------------------------
(***************************************************************************)
(* The lifecycle ledger of plugin versions: plugin_lifecycle_targets, its   *)
(* events and heads, and the resolutions that rooms and rounds freeze       *)
(* (backend/plugin_lifecycle.py and its transactions in backend/store.py).  *)
(*                                                                          *)
(* A target is one exact version of a plugin; its family is the stable      *)
(* plugin id.  A transition is one BEGIN IMMEDIATE transaction: the server  *)
(* recomputes the impact preview and compares it with the one the user      *)
(* confirmed, so the expected head, the replacement and the list of         *)
(* affected rooms are those of the moment of the commit; it records the     *)
(* state that the preview computed; and it replays the ledger, with the new *)
(* event, for its answer.  When the target does not verify then, all of it  *)
(* is rolled back.  A request with a stale preview is refused and changes   *)
(* nothing; so is every replay of a request.                                *)
(* Abstracted: kinds of targets (all are packs), contract fields and        *)
(* hashes; replacements of one family share their contract.                 *)
(***************************************************************************)
EXTENDS Naturals, Sequences

CONSTANTS
    Targets,        \* exact plugin versions
    FamilyOf,       \* the plugin id of each
    DependsOn,      \* the plugin ids each version depends on
    Builds,         \* what the server's builds implement: sets of targets
    PluginRooms,
    PluginRounds,
    PluginRequests, \* client_request_ids
    NoTarget,
    MaxEvents       \* bound: events of one target

ASSUME PluginAssumption ==
    /\ NoTarget \notin Targets
    /\ Builds \subseteq SUBSET Targets /\ Builds # {}
    /\ PluginRooms \cap PluginRounds = {}
    /\ MaxEvents \in Nat

VARIABLES
    registered,     \* plugin_lifecycle_targets
    installed,      \* what the running build implements
    events,         \* plugin_lifecycle_events of each target
    head,           \* plugin_lifecycle_heads
    resolution      \* the frozen head sequences of rooms and rounds

pluginVars == <<registered, installed, events, head, resolution>>

Restoring == {"enable", "clear_quarantine", "reinstate"}
Retiring == {"disable", "quarantine", "deprecate", "tombstone"}
LifecycleActions == Restoring \cup Retiring

InitialState == [catalog |-> "active", activation |-> "enabled", resume |-> "enabled"]
States == [catalog : {"active", "deprecated", "tombstoned"},
           activation : {"enabled", "disabled", "quarantined"},
           resume : {"enabled", "disabled"}]
LifecycleEvents == [action : LifecycleActions, replacement : Targets \cup {NoTarget},
                    request : PluginRequests, state : States, available : BOOLEAN]
Unbound == [t \in {} |-> 0]

PluginTypeOK ==
    /\ registered \subseteq Targets /\ installed \subseteq registered
    /\ \A t \in Targets : \A i \in DOMAIN events[t] : events[t][i] \in LifecycleEvents
    /\ head \in [Targets -> [sequence : Nat, state : States]]
    /\ \A h \in PluginRooms \cup PluginRounds :
           DOMAIN resolution[h] \subseteq registered

-----------------------------------------------------------------------------
(* apply_lifecycle_action and the state machine of one target. *)

Allows(s, a) ==
    /\ s.catalog # "tombstoned"
    /\ \/ a = "disable" /\ s.activation = "enabled"
       \/ a = "enable" /\ s.activation = "disabled"
       \/ a = "quarantine" /\ s.activation # "quarantined"
       \/ a = "clear_quarantine" /\ s.activation = "quarantined"
       \/ a = "deprecate" /\ s.catalog = "active"
       \/ a = "reinstate" /\ s.catalog = "deprecated"
       \/ a = "tombstone"

Apply(s, a) ==
    CASE a = "disable" -> [s EXCEPT !.activation = "disabled", !.resume = "disabled"]
      [] a = "enable" -> [s EXCEPT !.activation = "enabled", !.resume = "enabled"]
      [] a = "quarantine" -> [s EXCEPT !.activation = "quarantined", !.resume = s.activation]
      [] a = "clear_quarantine" -> [s EXCEPT !.activation = s.resume]
      [] a = "deprecate" -> [s EXCEPT !.catalog = "deprecated"]
      [] a = "reinstate" -> [s EXCEPT !.catalog = "active"]
      [] a = "tombstone" -> [catalog |-> "tombstoned", activation |-> "disabled",
                             resume |-> "disabled"]

\* The view that _plugin_lifecycle_target_state returns of a state carries no
\* resume_activation_state, for which apply_lifecycle_action takes "enabled".
View(s) == [s EXCEPT !.resume = "enabled"]

RuntimeState(s) ==
    IF s.catalog = "tombstoned" THEN "tombstoned"
    ELSE IF s.activation = "quarantined" THEN "quarantined"
    ELSE IF s.catalog = "deprecated" THEN "deprecated"
    ELSE IF s.activation = "disabled" THEN "disabled" ELSE "ready"

-----------------------------------------------------------------------------
(* Reading the ledger: _plugin_lifecycle_target_state replays the events of *)
(* a target, _plugin_lifecycle_states_for_connection checks replacements.   *)

StateAfter(t, n) == IF n = 0 THEN InitialState ELSE events[t][n].state

\* deprecate declares, reinstate clears, tombstone may override.
Declarations(t) ==
    {i \in DOMAIN events[t] :
        \/ events[t][i].action \in {"deprecate", "reinstate"}
        \/ events[t][i].action = "tombstone" /\ events[t][i].replacement # NoTarget}
LastDeclaration(t) ==
    CHOOSE i \in Declarations(t) : \A j \in Declarations(t) : j <= i

EffectiveReplacement(t) ==
    IF Declarations(t) = {} \/ events[t][LastDeclaration(t)].action = "reinstate"
    THEN NoTarget ELSE events[t][LastDeclaration(t)].replacement

ReplacementContract(t, a, r) ==
    r # NoTarget => /\ a \in {"deprecate", "tombstone"}
                    /\ r \in registered /\ r # t /\ FamilyOf[r] = FamilyOf[t]

\* The event chain replays to the head and no event restored a version that
\* was not there.
ChainVerifies(t) ==
    /\ \A i \in DOMAIN events[t] :
           LET e == events[t][i] IN
           /\ Allows(StateAfter(t, i - 1), e.action)
           /\ e.state = Apply(StateAfter(t, i - 1), e.action)
           /\ ReplacementContract(t, e.action, e.replacement)
           /\ e.available \/ e.action \notin Restoring
    /\ head[t].sequence = Len(events[t])
    /\ head[t].state = StateAfter(t, Len(events[t]))

\* Versions that replace one another in a circle: each has one replacement at
\* most, so a set that is its own image is made of circles.
OnReplacementCycle(t) ==
    \E C \in SUBSET registered : t \in C /\ {EffectiveReplacement(s) : s \in C} = C

\* integrity_ok of a version: its chain replays, so do those of the versions
\* that replace it, one after the other, and it is on no circle.
Intact(t) ==
    /\ \E C \in SUBSET registered :
           /\ t \in C
           /\ \A s \in C : ChainVerifies(s) /\ EffectiveReplacement(s) \in C \cup {NoTarget}
    /\ ~OnReplacementCycle(t)

IntactTargets == {t \in registered : Intact(t)}
CatalogVerifies == IntactTargets = registered

TargetReady(t) ==
    /\ t \in registered /\ t \in installed
    /\ RuntimeState(head[t].state) = "ready"

-----------------------------------------------------------------------------
(* Transitions. *)

PluginInit ==
    /\ installed \in Builds /\ registered = installed
    /\ events = [t \in Targets |-> <<>>]
    /\ head = [t \in Targets |-> [sequence |-> 0, state |-> InitialState]]
    /\ resolution = [h \in PluginRooms \cup PluginRounds |-> Unbound]

\* The server restarts with another build and registers what it implements.
ChangeBuild(build) ==
    /\ build # installed
    /\ installed' = build
    /\ registered' = registered \cup build
    /\ UNCHANGED <<events, head, resolution>>

\* Another pack of the build that is ready and depends on this plugin.
NeededByReady(t) ==
    \E d \in installed : FamilyOf[t] \in DependsOn[d] /\ TargetReady(d)

\* What _plugin_lifecycle_preview_connection refuses.
PreviewAccepts(t, a, r) ==
    /\ t \in registered
    /\ t \in installed \/ a \notin Restoring
    /\ Allows(head[t].state, a)
    /\ ReplacementContract(t, a, r)
    /\ r # NoTarget => TargetReady(r)
    /\ a \in Retiring => ~NeededByReady(t)
    /\ CatalogVerifies

RequestIsNew(q) ==
    \A t \in Targets : \A i \in DOMAIN events[t] : events[t][i].request # q

\* The event and the head get the state that the preview computed, from the
\* view of the target and not from the head itself.
Record(q, t, a, r) ==
    LET next == Apply(View(head[t].state), a) IN
    /\ events' = [events EXCEPT ![t] = Append(@,
           [action |-> a, replacement |-> r, request |-> q, state |-> next,
            available |-> t \in installed])]
    /\ head' = [head EXCEPT ![t] = [sequence |-> @.sequence + 1, state |-> next]]
    /\ UNCHANGED <<registered, installed, resolution>>

LifecycleTransition_Unverified(q, t, a, r) ==   \* mutant: answers from the event alone
    /\ RequestIsNew(q) /\ PreviewAccepts(t, a, r)
    /\ head[t].sequence < MaxEvents
    /\ Record(q, t, a, r)

\* The last conjunct is the replay for the answer
\* (_plugin_lifecycle_transition_result_connection): without it, rolled back.
LifecycleTransition(q, t, a, r) ==
    /\ RequestIsNew(q) /\ PreviewAccepts(t, a, r)
    /\ head[t].sequence < MaxEvents
    /\ Record(q, t, a, r)
    /\ t \in IntactTargets'

\* The selected packs with one installed version of every plugin they need.
Closed(S) ==
    \A t \in S : \A f \in DependsOn[t] : \E d \in S : FamilyOf[d] = f

BuildResolution(S) == [t \in S |-> head[t].sequence]

\* Room creation, or a change of its packs: a new resolution.
BindRoom(room, S) ==
    /\ S # {} /\ S \subseteq installed /\ Closed(S)
    /\ \A t \in S : TargetReady(t)
    /\ CatalogVerifies
    /\ resolution' = [resolution EXCEPT ![room] = BuildResolution(S)]
    /\ UNCHANGED <<registered, installed, events, head>>

BindRound_Unchecked(room, round) ==   \* mutant: trusts the check of the room's creation
    LET S == DOMAIN resolution[room] IN
    /\ resolution[round] = Unbound /\ S # {}
    /\ resolution' = [resolution EXCEPT ![round] = BuildResolution(S)]
    /\ UNCHANGED <<registered, installed, events, head>>

\* A round freezes the room's packs with the heads of that moment.
BindRound(room, round) ==
    LET S == DOMAIN resolution[room] IN
    /\ resolution[round] = Unbound /\ S # {}
    /\ \A t \in S : TargetReady(t)
    /\ CatalogVerifies
    /\ resolution' = [resolution EXCEPT ![round] = BuildResolution(S)]
    /\ UNCHANGED <<registered, installed, events, head>>

PluginNext ==
    \/ \E build \in Builds : ChangeBuild(build)
    \/ \E q \in PluginRequests, t \in Targets, a \in LifecycleActions,
          r \in Targets \cup {NoTarget} : LifecycleTransition(q, t, a, r)
    \/ \E room \in PluginRooms, S \in SUBSET Targets : BindRoom(room, S)
    \/ \E room \in PluginRooms, round \in PluginRounds : BindRound(room, round)

PluginSpec == PluginInit /\ [][PluginNext]_pluginVars

-----------------------------------------------------------------------------
(* Properties. *)

\* No sequence of transitions and server upgrades ends in a catalog that its
\* readers refuse: one version that is not intact would block every later
\* transition and every new binding (store.py:5303-5330).  A state recorded
\* from the view need not be the one a replay leads to, and a transition
\* verifies only its own target again, while it may be what others are
\* replaced by.
CatalogStaysVerifiable == CatalogVerifies

\* A frozen resolution of a room or a round can be verified for ever: its
\* heads existed and were ready, whatever happened to the catalog since
\* (_validate_lifecycle_resolution_against_ledger, store.py:5499).
FrozenResolutionsVerify ==
    \A h \in PluginRooms \cup PluginRounds : \A t \in DOMAIN resolution[h] :
        /\ resolution[h][t] <= Len(events[t])
        /\ RuntimeState(StateAfter(t, resolution[h][t])) = "ready"

-----------------------------------------------------------------------------
(* What the tests and the documentation say and the code does not do.       *)

\* What is offered can be done: when the preview accepts an action, the state it
\* announces is the one the state machine leads to, so the event replays and
\* the confirmed action is recorded.  tests/test_plugin_lifecycle.py:569 lists
\* deprecate among the actions of a disabled version, and line 527 has a
\* quarantined one resume as disabled.
OfferedIsRecorded ==
    \A t \in Targets, a \in LifecycleActions :
        PreviewAccepts(t, a, NoTarget) =>
            Apply(View(head[t].state), a) = Apply(head[t].state, a)
=============================================================================
