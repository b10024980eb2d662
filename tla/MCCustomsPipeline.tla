-------------------------- MODULE MCCustomsPipeline --------------------------
(* Small instances of the customs pipeline.                                *)
EXTENDS CustomsPipeline, TLC

\* Submissions, requests and documents are interchangeable.
PipelineSymmetry == Permutations(Submission) \cup Permutations(Req) \cup Permutations(Doc)
=============================================================================
