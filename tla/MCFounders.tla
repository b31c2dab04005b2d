----------------------------- MODULE MCFounders -----------------------------
(* Instances of Founders for TLC. *)
EXTENDS Founders, TLC

Symmetry ==
    Permutations(Names) \cup Permutations(Emails) \cup Permutations(Companies)
      \cup Permutations(Handlers)

=============================================================================
