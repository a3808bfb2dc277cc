----------------------------- MODULE MCPipeline -----------------------------
(* The pipeline for TLC.  Job ids, pairs and workers are interchangeable.  *)
EXTENDS PipelineProgress, TLC

MCSnapshots == [no : 1..MaxFetches, at : 0..MaxTime]

Symmetry ==
    Permutations(JobIds) \cup Permutations(Pairs) \cup Permutations(Workers)
=============================================================================
