---------------------------- MODULE MCOpportunity ----------------------------
(* Instances of Opportunity for TLC. *)
EXTENDS Opportunity, TLC

\* The stage is set back; the title is cleared.
MCBodies == {[stage |-> "sourced", title |-> Unset], [stage |-> Unset, title |-> None]}

Symmetry == Permutations(Handlers) \cup Permutations(Workers)
            \cup Permutations(Keys) \cup Permutations(Apps)

==============================================================================
