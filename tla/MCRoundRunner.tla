---------------------------- MODULE MCRoundRunner ----------------------------
(* A small instance of the round runner.                                     *)
EXTENDS RoundRunner

CONSTANTS m1, m2

MCMembers == {m1, m2}
MCOrder == <<m1, m2>>
MCOneRound == {1}
MCTwoRounds == {1, 2}
MCOneRequest == {1}
=============================================================================
