---------------------------- MODULE MCRoomRecords ----------------------------
(* Records that a room keeps for its user: decisions on a confirmed artifact *)
(* and what follows from them, the work on its actions, and the sessions of  *)
(* the manual ChatGPT channel.  None reads what another writes, so one part  *)
(* is explored at a time: part is chosen once and the variables of the       *)
(* others stay as they began.                                                *)
EXTENDS ArtifactDecisions, ActionDesk, ManualReview, TLC

VARIABLE part

decisionsOnly == <<decisions, chain, bound, portfolio, observation, replay, reported>>
deskOnly == <<sent, item, links, answered>>

RecordsInit ==
    /\ DecisionInit /\ DeskInit /\ ReviewInit
    /\ part \in {"decisions", "desk", "review"}

RecordsNext ==
    /\ UNCHANGED part
    /\ \/ part = "decisions" /\ DecisionNext /\ UNCHANGED <<deskOnly, reviewVars>>
       \/ part = "desk" /\ DeskNext /\ UNCHANGED <<decisionsOnly, reviewVars>>
       \/ part = "review" /\ ReviewNext /\ UNCHANGED <<decisionVars, deskVars>>

RecordsSpec == RecordsInit /\ [][RecordsNext]_<<decisionVars, deskVars, reviewVars, part>>

MCSymmetry == Permutations(ActionIds) \cup Permutations(RequestIds)
=============================================================================
