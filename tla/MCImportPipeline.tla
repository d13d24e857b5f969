-------------------------- MODULE MCImportPipeline --------------------------
(* Instances of ImportPipeline for TLC. *)
EXTENDS ImportPipeline, TLC

\* Safe for safety only: no property orders the jobs or the keys.
MCSymmetry == Permutations(Jobs) \cup Permutations(Keys)

=============================================================================
