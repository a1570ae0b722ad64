------------------------ MODULE MCDatabaseMigration ------------------------
(* Two prepared operations and two runs of the tool.                         *)
EXTENDS DatabaseMigration, TLC

CONSTANTS o1, o2, p1, p2

MCOps == {o1, o2}
MCProcs == {p1, p2}
MCSymmetry == Permutations(MCOps) \cup Permutations(MCProcs)
=============================================================================
