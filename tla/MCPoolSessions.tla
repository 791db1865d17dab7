--------------------------- MODULE MCPoolSessions ---------------------------
(* Three calls on a pool of two sessions, one of which it may keep idle.   *)
EXTENDS PoolSessions, TLC

MCStatements == [query |-> 1, desc_table |-> 4]

MCSymmetry == Permutations(Calls) \cup Permutations(Sessions)

=============================================================================
