-------------------------------- MODULE Scoring --------------------------------
(***************************************************************************)
(* The rules a screening applies: the hard gates and the fit of a thesis,  *)
(* the three axes, the recommendation and the gaps of the memo.            *)
(*                                                                         *)
(* Numbers are kept as integers: axis scores in tenths, confidences in     *)
(* thousandths, the fit in hundredths.  Sectors, stages and countries are  *)
(* compared after casefold, so the sets here hold folded names, and a      *)
(* must-have is in a company's text if its first three words are.          *)
(***************************************************************************)
EXTENDS Integers, FiniteSets

CONSTANT None

Axes == {"founder", "market", "idea_vs_market"}

\* What extract_claims and _product_claim find in a deck, by category.
Claims == [revenue : Nat, traction : Nat, market : Nat, product : Nat]
NoClaims == [revenue |-> 0, traction |-> 0, market |-> 0, product |-> 0]

LesserOf(m, n) == IF m < n THEN m ELSE n

--------------------------------------------------------------------------------
(* compute_thesis_fit *)

GateReasons == {"excluded_sector", "outside_sectors", "outside_stages", "outside_geography"}

\* The first gate that rules the company out, or None.  What a company does not
\* disclose rules it out of nothing.
Gate(thesis, company) ==
    IF company.sectors \cap thesis.anti_sectors # {} THEN "excluded_sector"
    ELSE IF /\ thesis.sectors # {} /\ company.sectors # {}
            /\ company.sectors \cap thesis.sectors = {} THEN "outside_sectors"
    ELSE IF /\ thesis.stages # {} /\ company.stage # None
            /\ company.stage \notin thesis.stages THEN "outside_stages"
    ELSE IF /\ thesis.geos # {} /\ company.country # None
            /\ company.country \notin thesis.geos /\ "remote" \notin thesis.geos
      THEN "outside_geography"
    ELSE None

Weighted(weight, matches) == IF matches THEN weight ELSE weight \div 2

Fit(thesis, company) ==
    IF Gate(thesis, company) # None THEN 0 ELSE
        Weighted(4000, thesis.sectors = {} \/ company.sectors \cap thesis.sectors # {})
        + Weighted(2500, \/ thesis.stages = {} \/ company.stage = None
                         \/ company.stage \in thesis.stages)
        + Weighted(1500, \/ thesis.geos = {} \/ company.country = None
                         \/ company.country \in thesis.geos)
        + IF thesis.must_haves = {} THEN 2000
          ELSE (2000 * Cardinality(thesis.must_haves \cap company.text))
               \div Cardinality(thesis.must_haves)

--------------------------------------------------------------------------------
(* _score_axes *)

\* The axis of a founder's score (300 to 900) and confidence.
FounderAxis(level) == [score |-> 350 + (level.score - 300), confidence |-> level.confidence]

\* Mutant: an unresolved founder counts as a weak one.
PenalisedFounder == [score |-> 200, confidence |-> 200]

\* No founder profile: the cohort prior.
UnknownFounder == [score |-> 500, confidence |-> 200]

Traction(claims) == claims.traction + claims.revenue

MarketAxis(claims) ==
    [score      |-> LesserOf(800, 480 + claims.market * 80 + Traction(claims) * 20),
     confidence |-> LesserOf(750, 220 + claims.market * 150)]

IdeaAxis(claims) ==
    [score      |-> LesserOf(800, 500 + claims.product * 60 + Traction(claims) * 30),
     confidence |-> LesserOf(750, 250 + claims.product * 120 + Traction(claims) * 80)]

\* The axes a screening may compute from the claims it has and the founder
\* scores on record; of equal best scores it takes either.
ScoredAxes(founders, claims) ==
    LET best == {l \in founders : \A k \in founders : k.score <= l.score}
        first == IF founders = {} THEN {UnknownFounder} ELSE {FounderAxis(l) : l \in best}
    IN {[a \in Axes |-> IF a = "founder" THEN f
                        ELSE IF a = "market" THEN MarketAxis(claims)
                        ELSE IdeaAxis(claims)] : f \in first}

\* Mutant: a kind of trend that the column does not have
FallingTrend(score, previous) ==
    IF score - previous < 30 /\ previous - score < 30 THEN "stable"
    ELSE IF score > previous THEN "improving"
    ELSE "falling"

Trend(score, previous) ==
    IF score - previous < 30 /\ previous - score < 30 THEN "stable"
    ELSE IF score > previous THEN "improving"
    ELSE "declining"

--------------------------------------------------------------------------------
(* recommend and compose_memo *)

Advice(decision, reason) == [decision |-> decision, reason |-> reason]

Confidence(axes) ==
    axes["founder"].confidence + axes["market"].confidence + axes["idea_vs_market"].confidence

\* The mean of the three confidences is at least 0.55.
ClearsBar(axes, fit) ==
    (\A a \in Axes : axes[a].score >= 700) /\ fit >= 6500 /\ Confidence(axes) >= 3 * 550

\* All three axes are always there, so the first rule of the code never applies.
Recommend(axes, fit, contradicted, coldStart, gate) ==
    IF contradicted THEN Advice("needs_human", "contradiction")
    ELSE IF fit = 0 THEN Advice("pass", gate)
    ELSE IF \E a \in Axes : axes[a].score < 250 THEN Advice("pass", "weak_axis")
    ELSE IF ClearsBar(axes, fit) THEN Advice("invest", "clears_the_bar")
    ELSE IF \E a, b \in Axes : axes[a].score - axes[b].score > 300
      THEN Advice("watchlist", "disagreement")
    ELSE IF Confidence(axes) < 3 * 400 \/ coldStart THEN Advice("needs_human", "thin_evidence")
    ELSE Advice("watchlist", "credible")

\* Decks yield no claims about team or technology.
RequiredSections ==
    [company_snapshot      |-> {"product", "market"},
     investment_hypotheses |-> {"traction"},
     swot                  |-> {"market", "product"},
     problem_product       |-> {"product"},
     traction_kpis         |-> {"traction", "revenue"}]

\* The sections without a single claim, marked not_disclosed.
Gaps(claims) ==
    {s \in DOMAIN RequiredSections : \A k \in RequiredSections[s] : claims[k] = 0}

================================================================================
