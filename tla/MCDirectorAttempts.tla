-------------------------- MODULE MCDirectorAttempts --------------------------
(***************************************************************************)
(* Constants of the runs of DirectorAttempts.                               *)
(***************************************************************************)
EXTENDS DirectorAttempts, TLC

CallKinds == {"round_director", "round_speaker"}
MCPlans == {<<3, 2>>}

Interchangeable == Permutations(Speakers)
=============================================================================
