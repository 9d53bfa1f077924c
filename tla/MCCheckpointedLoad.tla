-------------------------- MODULE MCCheckpointedLoad --------------------------
(* CheckpointedLoad on a plan with a phase of every kind, and one without data. *)
EXTENDS CheckpointedLoad

MCPlan == <<"step", "nodes", "smallNodes", "nodes", "edges", "stream", "fts">>
MCEnds == [p \in 1..7 |-> IF p = 5 THEN {2, 3} ELSE {}]
MCNoData == {4}

\* A short plan for the counterexample.
ShortPlan == <<"step", "nodes", "edges", "stream">>
ShortEnds == <<{}, {}, {2}, {}>>

=============================================================================
