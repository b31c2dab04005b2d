----------------------------- MODULE MCScreening -----------------------------
(* Instances of Screening for TLC.  A stub company discloses nothing; the other *)
(* profile is of the kind backend/scripts/seed.py stores.  The founder level is *)
(* what compute_founder_score may give on evidence of several sources.          *)
EXTENDS Screening, TLC

MCCompanies ==
    {[sectors |-> {}, stage |-> None, country |-> None, text |-> {}],
     [sectors |-> {"devtools"}, stage |-> "pre_seed", country |-> "DE", text |-> {}]}

MCCriteria ==
    {[sectors |-> {}, anti_sectors |-> {"devtools"}, stages |-> {"pre_seed"}, geos |-> {"US"},
      must_haves |-> {"open source"}]}

\* A PATCH that names everything, and one that makes a thesis exclude its sectors.
MCPatches == {DOMAIN Registered, {"anti_sectors"}}

MCDecks == {[revenue |-> 2, traction |-> 3, market |-> 2, product |-> 1]}

MCLevels == {[score |-> 700, confidence |-> 503]}

Symmetry == Permutations(Ids) \cup Permutations(Handlers) \cup Permutations(Workers)

==============================================================================
