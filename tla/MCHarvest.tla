------------------------------ MODULE MCHarvest ------------------------------
(* Instances of Harvest for TLC. *)
EXTENDS Harvest, TLC

Symmetry ==
    Permutations(Harvests) \cup Permutations(Items) \cup Permutations(Workers)

==============================================================================
