------------------------------ MODULE Artifacts ------------------------------
(***************************************************************************)
(* A meeting artifact and its versions (backend/store.py: create_artifact,  *)
(* update_artifact, confirm_artifact).  Every write adds one row to         *)
(* artifact_versions in the transaction that moves the artifact's row, so   *)
(* the sequence of snapshot states stands for both tables.                  *)
(*                                                                          *)
(* Abstracted: the content.  What decides is whether the present evidence,  *)
(* the round and the governance attestation pass the confirmation gate,     *)
(* which the materials can change at any time without touching the          *)
(* artifact.  Calls with an outdated expected_version are refused.          *)
(***************************************************************************)
EXTENDS Naturals, Sequences

CONSTANT MaxVersion     \* bound: versions of the artifact

ASSUME ArtifactAssumption == MaxVersion \in Nat

VARIABLES
    versions,       \* status of each frozen version; the last is the artifact
    evidence        \* the confirmation gate passes on the present evidence

artifactVars == <<versions, evidence>>

Version == Len(versions)
IsConfirmed(v) == v \in 1 .. Version /\ versions[v] = "CONFIRMED"
ConfirmationIsValid == IsConfirmed(Version) /\ evidence

ArtifactInit == versions = <<>> /\ evidence = FALSE

\* A generation_key that is already there returns the artifact it made.
CreateArtifact ==
    /\ versions = <<>>
    /\ versions' = <<"DRAFT">> /\ evidence' \in BOOLEAN

\* An edit resets the reviews of what it changes.
UpdateArtifact ==
    /\ Version \in 1 .. MaxVersion - 1
    /\ versions' = Append(versions, "DRAFT") /\ evidence' \in BOOLEAN

ConfirmArtifact ==
    /\ Version \in 1 .. MaxVersion - 1
    /\ ~IsConfirmed(Version) /\ evidence
    /\ versions' = Append(versions, "CONFIRMED") /\ UNCHANGED evidence

\* A material that an evidence relation cites is replaced, deactivated or
\* reactivated.
EvidenceChanges ==
    /\ versions # <<>>
    /\ evidence' = ~evidence /\ UNCHANGED versions

ArtifactNext == CreateArtifact \/ UpdateArtifact \/ ConfirmArtifact \/ EvidenceChanges
=============================================================================
