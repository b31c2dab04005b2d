---------------------------- MODULE MCJobPipeline ----------------------------
(* Instances of JobPipeline for TLC. *)
EXTENDS JobPipeline, TLC

Symmetry == Permutations(Workers) \cup Permutations(Jobs)
            \cup Permutations(ClientKeys)

==============================================================================
