---------------------------- MODULE MCPipelineRun ----------------------------
(* PipelineRun with a label of each sort.                                  *)
EXTENDS PipelineRun, TLC

Symmetry == Permutations(Batches) \cup Permutations(Seeds)

=============================================================================
