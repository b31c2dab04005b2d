------------------------------ MODULE MCIntake ------------------------------
(* Instances of Intake for TLC. *)
EXTENDS Intake, TLC

Symmetry ==
    Permutations(Names) \cup Permutations(Domains) \cup Permutations(Decks)
      \cup Permutations(Keys) \cup Permutations(Handlers)

=============================================================================
