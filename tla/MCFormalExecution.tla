-------------------------- MODULE MCFormalExecution --------------------------
(***************************************************************************)
(* Constants of the runs of FormalExecution.                                *)
(***************************************************************************)
EXTENDS FormalExecution, TLC
AllKinds == {"preflight_probe", "round_director", "round_speaker", "artifact_generation"}

TwoCalls == {<<2, 1>>}

Interchangeable == Permutations(Handlers) \cup Permutations(Runs) \cup Permutations(Rounds)
=============================================================================
