---------------------------- MODULE MCIdleRunner ----------------------------
(* A small instance of the idle runner.                                      *)
EXTENDS IdleRunner

CONSTANTS r1, m1, m2, w1, w2

MCRequests == {r1}
MCMembers == {m1, m2}
MCRunners == {w1, w2}
=============================================================================
