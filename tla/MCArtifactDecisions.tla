------------------------- MODULE MCArtifactDecisions -------------------------
(* The decisions about one artifact, for the repeated decision: two          *)
(* decisions are enough for one to be repeated after the other.              *)
EXTENDS ArtifactDecisions
=============================================================================
