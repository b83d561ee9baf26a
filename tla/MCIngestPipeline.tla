-------------------------- MODULE MCIngestPipeline --------------------------
(* Small instances of IngestPipeline for TLC. *)
EXTENDS IngestPipeline, TLC

Symmetry == Permutations(Requests) \cup Permutations(Nodes) \cup Permutations(Ids)
=============================================================================
