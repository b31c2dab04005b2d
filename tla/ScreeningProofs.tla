---------------------------- MODULE ScreeningProofs ----------------------------
(* Theorems about Screening, for any theses, companies, decks and founder scores *)
(* and any number of requests and runs.                                         *)
EXTENDS Screening, FiniteSetTheorems, TLAPS

--------------------------------------------------------------------------------
(* The rules *)

(* Claims only ever raise the two axes that rest on them, from 48 and 50 up. *)
LEMMA AxesOfClaims ==
  ASSUME NEW c \in Claims
  PROVE  /\ MarketAxis(c) \in Axis /\ MarketAxis(c).score >= 480
         /\ IdeaAxis(c) \in Axis /\ IdeaAxis(c).score >= 500
  BY DEF Claims, MarketAxis, IdeaAxis, Axis, LesserOf, Traction

LEMMA AxesOfNoClaims ==
  /\ NoClaims \in Claims
  /\ MarketAxis(NoClaims).score = 480 /\ IdeaAxis(NoClaims).score = 500
  BY DEF NoClaims, Claims, MarketAxis, IdeaAxis, LesserOf, Traction

LEMMA FounderAxes ==
  ASSUME NEW l \in Levels
  PROVE  FounderAxis(l) \in Axis /\ FounderAxis(l).score >= 350
  <1>1. l.score \in Nat /\ l.score >= 300 /\ l.confidence \in Nat
    BY ScreeningAssumption
  <1>2. PICK s \in Nat : s = l.score
    BY <1>1
  <1>3. FounderAxis(l) = [score |-> 350 + (s - 300), confidence |-> l.confidence]
    BY <1>2 DEF FounderAxis
  <1> QED
    BY <1>1, <1>2, <1>3 DEF Axis

(* No axis that _score_axes computes is below 25. *)
LEMMA AxesScored ==
  ASSUME NEW founders \in SUBSET Levels, NEW c \in Claims,
         NEW x \in ScoredAxes(founders, c)
  PROVE  /\ x \in [Axes -> Axis]
         /\ \A a \in Axes : x[a].score >= 350
         /\ x["market"] = MarketAxis(c) /\ x["idea_vs_market"] = IdeaAxis(c)
  <1>1. PICK f \in Axis : /\ f.score >= 350
                          /\ x = [a \in Axes |-> IF a = "founder" THEN f
                                                 ELSE IF a = "market" THEN MarketAxis(c)
                                                 ELSE IdeaAxis(c)]
    <2>1. UnknownFounder \in Axis /\ UnknownFounder.score >= 350
      BY DEF UnknownFounder, Axis
    <2> QED
      BY <2>1, FounderAxes DEF ScoredAxes
  <1>2. /\ MarketAxis(c) \in Axis /\ MarketAxis(c).score >= 350
        /\ IdeaAxis(c) \in Axis /\ IdeaAxis(c).score >= 350
    BY AxesOfClaims DEF Axis
  <1>3. x["market"] = MarketAxis(c) /\ x["idea_vs_market"] = IdeaAxis(c) /\ x["founder"] = f
    BY <1>1 DEF Axes
  <1>4. x \in [Axes -> Axis]
    BY <1>1, <1>2
  <1> QED
    BY <1>1, <1>2, <1>3, <1>4 DEF Axes

LEMMA Quotient ==
  ASSUME NEW a \in Nat, NEW b \in Nat, b # 0
  PROVE  a \div b \in Nat
  OBVIOUS

(* The fit is 0 only if a gate is closed. *)
LEMMA FitIsPositive ==
  ASSUME NEW t \in Thesis, NEW c \in Companies, Gate(t, c) = None
  PROVE  Fit(t, c) \in Nat /\ Fit(t, c) > 0
  <1>1. IsFiniteSet(t.must_haves)
    <2>1. PICK p \in Policies : t.must_haves = p.must_haves
      BY DEF Thesis
    <2>2. IsFiniteSet({})
      BY FS_EmptySet
    <2>3. CASE p \in Criteria
      BY <2>1, <2>3, ScreeningAssumption
    <2>4. CASE p = Registered
      BY <2>1, <2>2, <2>4 DEF Registered
    <2> QED
      BY <2>3, <2>4 DEF Policies
  <1> DEFINE met == t.must_haves \cap c.text
  <1>2. /\ Cardinality(t.must_haves) \in Nat
        /\ t.must_haves # {} => Cardinality(t.must_haves) # 0
        /\ Cardinality(met) \in Nat
    BY <1>1, FS_CardinalityType, FS_EmptySet, FS_Subset
  <1> DEFINE share == IF t.must_haves = {} THEN 2000
                      ELSE (2000 * Cardinality(met)) \div Cardinality(t.must_haves)
  <1>3. share \in Nat
    <2>1. 2000 * Cardinality(met) \in Nat
      BY <1>2
    <2> QED
      BY <1>2, <2>1, Quotient
  <1> DEFINE first == Weighted(4000, t.sectors = {} \/ c.sectors \cap t.sectors # {})
             second == Weighted(2500, \/ t.stages = {} \/ c.stage = None \/ c.stage \in t.stages)
             third == Weighted(1500, \/ t.geos = {} \/ c.country = None \/ c.country \in t.geos)
  <1>4. Fit(t, c) = IF Gate(t, c) # None THEN 0 ELSE first + second + third + share
    BY DEF Fit
  <1>5. first \in Nat /\ first > 0 /\ second \in Nat /\ third \in Nat
    BY DEF Weighted
  <1> HIDE DEF first, second, third, share
  <1> QED
    BY <1>3, <1>4, <1>5

(* A pass is only ever recommended because a gate is closed. *)
Gated(advice) == advice.decision = "pass" => advice.reason \in GateReasons

LEMMA GateValues ==
  ASSUME NEW t, NEW c
  PROVE  Gate(t, c) \in GateReasons \cup {None}
  BY DEF Gate, GateReasons

LEMMA AdviceGiven ==
  ASSUME NEW axes \in [Axes -> Axis], \A a \in Axes : axes[a].score >= 350,
         NEW fit \in Nat, NEW gate \in GateReasons \cup {None}, fit = 0 => gate # None,
         NEW cold \in BOOLEAN
  PROVE  /\ Recommend(axes, fit, FALSE, cold, gate) \in Advices
         /\ Gated(Recommend(axes, fit, FALSE, cold, gate))
         /\ Recommend(axes, fit, FALSE, cold, gate).decision = "invest" => ClearsBar(axes, fit)
  <1>1. \A a \in Axes : ~(axes[a].score < 250)
    BY DEF Axis
  <1>2. ASSUME NEW d \in {"invest", "watchlist", "pass", "needs_human"},
               NEW r \in GateReasons \cup {"contradiction", "weak_axis", "clears_the_bar",
                                           "disagreement", "thin_evidence", "credible"},
               d = "pass" => r \in GateReasons
        PROVE  Advice(d, r) \in Advices /\ Gated(Advice(d, r)) /\ Advice(d, r).decision = d
    BY <1>2 DEF Advice, Advices, Gated
  <1>3. CASE fit = 0
    BY <1>2, <1>3 DEF Recommend
  <1>4. CASE fit # 0 /\ ClearsBar(axes, fit)
    BY <1>1, <1>2, <1>4 DEF Recommend
  <1>5. CASE fit # 0 /\ ~ClearsBar(axes, fit)
    <2>1. Recommend(axes, fit, FALSE, cold, gate) \in
            {Advice("watchlist", "disagreement"), Advice("needs_human", "thin_evidence"),
             Advice("watchlist", "credible")}
      BY <1>1, <1>5 DEF Recommend
    <2>2. /\ Advice("watchlist", "disagreement") \in Advices
          /\ Gated(Advice("watchlist", "disagreement"))
          /\ Advice("watchlist", "disagreement").decision = "watchlist"
      BY <1>2
    <2>3. /\ Advice("needs_human", "thin_evidence") \in Advices
          /\ Gated(Advice("needs_human", "thin_evidence"))
          /\ Advice("needs_human", "thin_evidence").decision = "needs_human"
      BY <1>2
    <2>4. /\ Advice("watchlist", "credible") \in Advices
          /\ Gated(Advice("watchlist", "credible"))
          /\ Advice("watchlist", "credible").decision = "watchlist"
      BY <1>2
    <2> DEFINE advice == Recommend(axes, fit, FALSE, cold, gate)
    <2> HIDE DEF advice
    <2>5. CASE advice = Advice("watchlist", "disagreement")
      BY <2>2, <2>5 DEF advice
    <2>6. CASE advice = Advice("needs_human", "thin_evidence")
      BY <2>3, <2>6 DEF advice
    <2>7. CASE advice = Advice("watchlist", "credible")
      BY <2>4, <2>7 DEF advice
    <2> QED
      BY <2>1, <2>5, <2>6, <2>7 DEF advice
  <1> QED
    BY <1>3, <1>4, <1>5

--------------------------------------------------------------------------------
(* Rows *)

LEMMA ThesisRows ==
  ASSUME NEW c \in Policies, NEW b \in BOOLEAN
  PROVE  ThesisOf(c, b) \in Thesis /\ ThesisOf(c, b).is_default = b
  BY DEF ThesisOf, Thesis

(* A PATCH takes each criterion from the request or from the row. *)
LEMMA ThesisPatched ==
  ASSUME NEW row \in Thesis, NEW c \in Criteria, NEW names \in Patches
  PROVE  /\ Patched(row, c, names) \in Thesis
         /\ Patched(row, c, names).is_default = row.is_default
  <1> DEFINE new == Patched(row, c, names)
  <1>1. DOMAIN row = {"sectors", "anti_sectors", "stages", "geos", "must_haves", "is_default",
                      "deleted"}
    BY DEF Thesis
  <1>2. "is_default" \notin names /\ "deleted" \notin names
    BY ScreeningAssumption DEF Registered
  <1>3. \A k \in DOMAIN row : new[k] = IF k \in names THEN c[k] ELSE row[k]
    BY DEF Patched
  <1>4. new = [sectors |-> new.sectors, anti_sectors |-> new.anti_sectors,
               stages |-> new.stages, geos |-> new.geos, must_haves |-> new.must_haves,
               is_default |-> new.is_default, deleted |-> new.deleted]
    BY <1>1 DEF Patched
  <1> HIDE DEF new
  <1>5. /\ new.sectors \in {c.sectors, row.sectors}
        /\ new.anti_sectors \in {c.anti_sectors, row.anti_sectors}
        /\ new.stages \in {c.stages, row.stages} /\ new.geos \in {c.geos, row.geos}
        /\ new.must_haves \in {c.must_haves, row.must_haves}
        /\ new.is_default = row.is_default /\ new.deleted = row.deleted
    BY <1>1, <1>2, <1>3
  <1>6. c \in Policies
    BY DEF Policies
  <1>7. new \in Thesis
    BY <1>4, <1>5, <1>6 DEF Thesis
  <1> QED
    BY <1>5, <1>7 DEF new

LEMMA ThesisChanges ==
  ASSUME NEW r \in Thesis, NEW b \in BOOLEAN
  PROVE  /\ [r EXCEPT !.is_default = b] \in Thesis /\ [r EXCEPT !.is_default = b].is_default = b
         /\ [r EXCEPT !.deleted = TRUE, !.is_default = b] \in Thesis
         /\ [r EXCEPT !.deleted = TRUE, !.is_default = b].is_default = b
  BY DEF Thesis

(* A flush takes each column from the object or from the row. *)
LEMMA ThesisFlushed ==
  ASSUME NEW row \in Thesis, NEW loaded \in Thesis, NEW obj \in Thesis
  PROVE  /\ Flush(row, loaded, obj) \in Thesis
         /\ Flush(row, loaded, obj).is_default =
              IF obj.is_default # loaded.is_default THEN obj.is_default ELSE row.is_default
  <1> DEFINE new == Flush(row, loaded, obj)
  <1>1. DOMAIN row = {"sectors", "anti_sectors", "stages", "geos", "must_haves", "is_default",
                      "deleted"}
    BY DEF Thesis
  <1>2. \A c \in DOMAIN row : new[c] = IF obj[c] # loaded[c] THEN obj[c] ELSE row[c]
    BY DEF Flush
  <1>3. new = [sectors |-> new.sectors, anti_sectors |-> new.anti_sectors,
               stages |-> new.stages, geos |-> new.geos, must_haves |-> new.must_haves,
               is_default |-> new.is_default, deleted |-> new.deleted]
    BY <1>1 DEF Flush
  <1> HIDE DEF new
  <1>4. /\ new.sectors \in {obj.sectors, row.sectors}
        /\ new.anti_sectors \in {obj.anti_sectors, row.anti_sectors}
        /\ new.stages \in {obj.stages, row.stages} /\ new.geos \in {obj.geos, row.geos}
        /\ new.must_haves \in {obj.must_haves, row.must_haves}
        /\ new.is_default = IF obj.is_default # loaded.is_default THEN obj.is_default
                            ELSE row.is_default
        /\ new.deleted \in {obj.deleted, row.deleted}
    BY <1>1, <1>2
  <1>5. new \in Thesis
    BY <1>3, <1>4 DEF Thesis
  <1> QED
    BY <1>4, <1>5 DEF new

LEMMA ClaimsAdded ==
  ASSUME NEW c \in Claims, NEW d \in Claims
  PROVE  Plus(c, d) \in Claims
  <1>1. Plus(c, d) = [revenue |-> c.revenue + d.revenue, traction |-> c.traction + d.traction,
                      market |-> c.market + d.market, product |-> c.product + d.product]
    BY DEF Plus, Claims
  <1>2. /\ c.revenue + d.revenue \in Nat /\ c.traction + d.traction \in Nat
        /\ c.market + d.market \in Nat /\ c.product + d.product \in Nat
    BY DEF Claims
  <1> QED
    BY <1>1, <1>2 DEF Claims

--------------------------------------------------------------------------------
(* Types, and what requests and runs hold *)

(* A request names theses and memos that exist; an edit or a deletion never makes *)
(* a thesis the default.                                                         *)
ValidRequest(q) ==
    /\ q.op = "create" => q.obj \in Thesis
    /\ q.op = "default" => q.thesis \in Created
    /\ q.op = "write" => /\ q.thesis \in Created /\ q.loaded \in Thesis /\ q.obj \in Thesis
                         /\ q.obj.is_default = q.loaded.is_default \/ q.obj.is_default = FALSE
    /\ q.op = "memo" => q.memo \in 1..Len(memos)

(* A run has what its next step needs. *)
ValidRun(r) ==
    /\ r.pc # "idle" => opp # None
    /\ r.pc = "save_claims" => r.deck \in Decks
    /\ r.pc \in {"save_axes", "advise"} =>
         r.score \in Score /\ \A a \in Axes : r.score.axes[a].score >= 350
    /\ r.pc \in {"memo", "save_memo"} => r.advice \in Advices /\ Gated(r.advice)

ThesisExists == opp # None => opp.thesis \in Created \cup {None}

MemosGated == \A m \in 1..Len(memos) : Gated(memos[m].advice)

Inv ==
    /\ TypeOK
    /\ \A h \in Handlers : ValidRequest(req[h])
    /\ \A w \in Workers : ValidRun(run[w])
    /\ ThesisExists
    /\ MemosGated

LEMMA IdleAway ==
  /\ Idle \in Request /\ Idle.op = "idle" /\ ValidRequest(Idle)
  /\ Away \in Run /\ Away.pc = "idle" /\ ValidRun(Away)
  <1>1. NoClaims \in Claims
    BY AxesOfNoClaims
  <1> QED
    BY <1>1 DEF Idle, Request, ValidRequest, Away, Run, ValidRun

LEMMA InvInit == Init => Inv
  <1> SUFFICES ASSUME Init PROVE Inv
    OBVIOUS
  <1>1. ThesisOf(Registered, TRUE) \in Thesis
    BY ThesisRows DEF Policies
  <1>2. theses \in [Ids -> Thesis \cup {None}]
    BY <1>1 DEF Init
  <1>3. scores \in Seq(Score) /\ memos \in Seq(Memo) /\ Len(memos) = 0
    BY DEF Init
  <1>4. /\ opp = None /\ claims \in Claims /\ req \in [Handlers -> Request]
        /\ run \in [Workers -> Run] /\ overlaps = {} /\ served = 0
    BY AxesOfNoClaims, IdleAway DEF Init
  <1>5. TypeOK
    BY <1>2, <1>3, <1>4, ScreeningAssumption DEF TypeOK
  <1>6. \A h \in Handlers : ValidRequest(req[h])
    BY IdleAway DEF Init
  <1>7. \A w \in Workers : ValidRun(run[w])
    BY IdleAway DEF Init
  <1> QED
    BY <1>3, <1>4, <1>5, <1>6, <1>7 DEF Inv, ThesisExists, MemosGated

(* Theses and memos are never removed, so what the other requests and runs hold  *)
(* stays valid.                                                                  *)
LEMMA Frame ==
  ASSUME Inv, TypeOK', Created \subseteq Created', ThesisExists', MemosGated',
         opp' = opp \/ opp = None, Len(memos') >= Len(memos),
         \A h \in Handlers : req'[h] = req[h] \/ ValidRequest(req[h])',
         \A w \in Workers : run'[w] = run[w] \/ ValidRun(run[w])'
  PROVE  Inv'
  <1>1. Len(memos) \in Nat /\ Len(memos') \in Nat
    BY DEF Inv, TypeOK
  <1>2. ASSUME NEW h \in Handlers, req'[h] = req[h] PROVE ValidRequest(req[h])'
    BY <1>1, <1>2 DEF Inv, ValidRequest
  <1>3. ASSUME NEW w \in Workers, run'[w] = run[w] PROVE ValidRun(run[w])'
    BY <1>3 DEF Inv, ValidRun
  <1> QED
    BY <1>2, <1>3 DEF Inv

--------------------------------------------------------------------------------
(* The requests about theses *)

(* The bulk UPDATE leaves rows rows, none of the ones it found the default. *)
LEMMA ClearedRows ==
  ASSUME TypeOK, NEW h \in Handlers
  PROVE  /\ Cleared(h) \in [Ids -> Thesis \cup {None}]
         /\ \A t \in Ids : /\ Cleared(h)[t] # None <=> t \in Created
                           /\ t \in Created => Cleared(h)[t] \in Thesis
                           /\ t \in Created /\ t \in req[h].rows => ~Cleared(h)[t].is_default
  <1> USE DEF TypeOK
  <1>1. ASSUME NEW t \in Ids, theses[t] # None
        PROVE  /\ [theses[t] EXCEPT !.is_default = FALSE] \in Thesis
               /\ [theses[t] EXCEPT !.is_default = FALSE].is_default = FALSE
               /\ theses[t] \in Thesis
    <2>1. theses[t] \in Thesis
      BY <1>1
    <2> QED
      BY <2>1, ThesisChanges
  <1>2. Cleared(h) \in [Ids -> Thesis \cup {None}]
    BY <1>1 DEF Cleared
  <1>3. ASSUME NEW t \in Ids
        PROVE  /\ Cleared(h)[t] # None <=> t \in Created
               /\ t \in Created => Cleared(h)[t] \in Thesis
               /\ t \in Created /\ t \in req[h].rows => ~Cleared(h)[t].is_default
    BY <1>1, ScreeningAssumption DEF Cleared, Created
  <1> QED
    BY <1>2, <1>3

LEMMA RequestTaken ==
  ASSUME Inv, NEW h \in Handlers, NEW q \in Request, req' = [req EXCEPT ![h] = q]
  PROVE  /\ req' \in [Handlers -> Request] /\ req'[h] = q
         /\ \A g \in Handlers : g # h => req'[g] = req[g]
  BY DEF Inv, TypeOK

LEMMA ServedCounts ==
  ASSUME TypeOK, Serve
  PROVE  served' \in 0..MaxRequests
  BY ScreeningAssumption DEF TypeOK, Serve

LEMMA InvCreateThesis ==
  ASSUME Inv, CreateThesis
  PROVE  Inv'
  <1>1. PICK t \in Ids \ Created, c \in Accepted :
               theses' = [theses EXCEPT ![t] = ThesisOf(c, FALSE)]
    BY DEF CreateThesis
  <1>2. ThesisOf(c, FALSE) \in Thesis
    BY ThesisRows DEF Accepted, Policies
  <1>3. theses' \in [Ids -> Thesis \cup {None}] /\ Created \subseteq Created'
    BY <1>1, <1>2, ScreeningAssumption DEF Inv, TypeOK, Created
  <1>4. TypeOK'
    BY <1>3, ServedCounts DEF Inv, TypeOK, CreateThesis, Noted
  <1>5. /\ opp' = opp /\ memos' = memos /\ req' = req /\ run' = run
        /\ ThesisExists' /\ MemosGated' /\ Len(memos) \in Nat
    BY <1>3 DEF Inv, TypeOK, CreateThesis, ThesisExists, MemosGated
  <1> QED
    BY <1>3, <1>4, <1>5, Frame

(* A request begins: it changes nothing but what it holds. *)
LEMMA InvRequest ==
  ASSUME Inv, NEW h \in Handlers, NEW q \in Request, ValidRequest(q),
         req' = [req EXCEPT ![h] = q], Serve,
         UNCHANGED <<theses, opp, claims, scores, memos, run>>,
         overlaps' \in SUBSET {"defaults", "memos", "runs"}
  PROVE  Inv'
  <1>1. TypeOK'
    BY RequestTaken, ServedCounts DEF Inv, TypeOK
  <1>2. Created' = Created /\ ThesisExists' /\ MemosGated'
    BY DEF Inv, Created, ThesisExists, MemosGated
  <1>3. ValidRequest(req[h])'
    BY <1>2, RequestTaken DEF ValidRequest
  <1> QED
    BY <1>1, <1>2, <1>3, RequestTaken, Frame DEF Inv, TypeOK

(* A request ends: it has changed theses and nothing else. *)
LEMMA InvRequestEnds ==
  ASSUME Inv, NEW h \in Handlers, req' = [req EXCEPT ![h] = Idle],
         theses' \in [Ids -> Thesis \cup {None}], Created \subseteq Created',
         UNCHANGED <<opp, claims, scores, memos, run, served, overlaps>>
  PROVE  Inv'
  <1>1. req' \in [Handlers -> Request] /\ req'[h] = Idle
        /\ \A g \in Handlers : g # h => req'[g] = req[g]
    BY RequestTaken, IdleAway
  <1>2. TypeOK'
    BY <1>1 DEF Inv, TypeOK
  <1>3. ValidRequest(req[h])'
    BY <1>1, IdleAway DEF ValidRequest
  <1> QED
    BY <1>1, <1>2, <1>3, Frame DEF Inv, TypeOK, ThesisExists, MemosGated

LEMMA InvCreateDefault ==
  ASSUME Inv, NEW h \in Handlers, CreateDefault(h)
  PROVE  Inv'
  <1>1. PICK c \in Accepted :
           req' = [req EXCEPT ![h] = [Idle EXCEPT !.op = "create", !.rows = Created,
                                                  !.obj = ThesisOf(c, TRUE)]]
    BY DEF CreateDefault
  <1> DEFINE q == [Idle EXCEPT !.op = "create", !.rows = Created, !.obj = ThesisOf(c, TRUE)]
  <1>2. ThesisOf(c, TRUE) \in Thesis
    BY ThesisRows DEF Accepted, Policies
  <1>3. q \in Request /\ ValidRequest(q)
    BY <1>2 DEF Idle, Request, ValidRequest, Created
  <1> HIDE DEF q
  <1>4. req' = [req EXCEPT ![h] = q]
    BY <1>1 DEF q
  <1> QED
    BY <1>3, <1>4, InvRequest DEF CreateDefault, Noted, Inv, TypeOK

LEMMA InvSetDefault ==
  ASSUME Inv, NEW h \in Handlers, SetDefault(h)
  PROVE  Inv'
  <1>1. PICK t \in Created :
           req' = [req EXCEPT ![h] = [Idle EXCEPT !.op = "default", !.thesis = t,
                                                  !.rows = Created]]
    BY DEF SetDefault
  <1> DEFINE q == [Idle EXCEPT !.op = "default", !.thesis = t, !.rows = Created]
  <1>2. q \in Request /\ ValidRequest(q)
    BY DEF Idle, Request, ValidRequest, Created
  <1> HIDE DEF q
  <1>3. req' = [req EXCEPT ![h] = q]
    BY <1>1 DEF q
  <1> QED
    BY <1>2, <1>3, InvRequest DEF SetDefault, Noted, Inv, TypeOK

LEMMA InvWrite ==
  ASSUME Inv, NEW h \in Handlers, NEW t \in Created, NEW obj \in Thesis, Write(h, t, obj),
         obj.is_default = theses[t].is_default \/ obj.is_default = FALSE
  PROVE  Inv'
  <1> DEFINE q == [Idle EXCEPT !.op = "write", !.thesis = t, !.loaded = theses[t], !.obj = obj]
  <1>1. theses[t] \in Thesis
    BY DEF Created, Inv, TypeOK
  <1>2. q \in Request /\ ValidRequest(q)
    BY <1>1 DEF Idle, Request, ValidRequest, Created
  <1> HIDE DEF q
  <1>3. req' = [req EXCEPT ![h] = q]
    BY DEF Write, q
  <1> QED
    BY <1>2, <1>3, InvRequest DEF Write, Inv, TypeOK

LEMMA InvUpdateThesis ==
  ASSUME Inv, NEW h \in Handlers, UpdateThesis(h)
  PROVE  Inv'
  <1>1. PICK t \in Created, c \in Criteria, names \in Patches :
           Write(h, t, Patched(theses[t], c, names))
    BY DEF UpdateThesis
  <1>2. theses[t] \in Thesis
    BY DEF Created, Inv, TypeOK
  <1> QED
    BY <1>1, <1>2, ThesisPatched, InvWrite

LEMMA InvDeleteThesis ==
  ASSUME Inv, NEW h \in Handlers, DeleteThesis(h)
  PROVE  Inv'
  <1>1. PICK t \in Created :
           Write(h, t, [theses[t] EXCEPT !.deleted = TRUE, !.is_default = FALSE])
    BY DEF DeleteThesis
  <1>2. theses[t] \in Thesis
    BY DEF Created, Inv, TypeOK
  <1> QED
    BY <1>1, <1>2, ThesisChanges, InvWrite

LEMMA InvCommitCreate ==
  ASSUME Inv, NEW h \in Handlers, CommitCreate(h)
  PROVE  Inv'
  <1>1. PICK t \in Ids \ Created : theses' = [Cleared(h) EXCEPT ![t] = req[h].obj]
    BY DEF CommitCreate
  <1>2. req[h].obj \in Thesis
    BY DEF Inv, ValidRequest, CommitCreate
  <1>3. theses' \in [Ids -> Thesis \cup {None}] /\ Created \subseteq Created'
    BY <1>1, <1>2, ClearedRows DEF Inv, Created
  <1> QED
    BY <1>3, InvRequestEnds DEF CommitCreate

LEMMA InvCommitDefault ==
  ASSUME Inv, NEW h \in Handlers, CommitDefault(h)
  PROVE  Inv'
  <1> DEFINE t == req[h].thesis
  <1>1. t \in Created /\ t \in Ids
    BY DEF Inv, ValidRequest, CommitDefault, Created
  <1>2. Cleared(h)[t] \in Thesis
    BY <1>1, ClearedRows DEF Inv
  <1>3. theses' = [Cleared(h) EXCEPT ![t] = [Cleared(h)[t] EXCEPT !.is_default = TRUE]]
    BY DEF CommitDefault
  <1>4. [Cleared(h)[t] EXCEPT !.is_default = TRUE] \in Thesis
    BY <1>2, ThesisChanges
  <1>5. theses' \in [Ids -> Thesis \cup {None}] /\ Created \subseteq Created'
    BY <1>1, <1>3, <1>4, ClearedRows, ScreeningAssumption DEF Inv, Created
  <1> QED
    BY <1>5, InvRequestEnds DEF CommitDefault

LEMMA InvCommitThesis ==
  ASSUME Inv, NEW h \in Handlers, CommitThesis(h)
  PROVE  Inv'
  <1> DEFINE t == req[h].thesis
             new == Flush(theses[t], req[h].loaded, req[h].obj)
  <1>1. /\ t \in Ids /\ theses[t] \in Thesis
        /\ req[h].loaded \in Thesis /\ req[h].obj \in Thesis
    BY DEF Inv, TypeOK, ValidRequest, CommitThesis, Created
  <1>2. new \in Thesis
    BY <1>1, ThesisFlushed
  <1>3. theses' = [theses EXCEPT ![t] = new]
    BY DEF CommitThesis
  <1> HIDE DEF new
  <1>4. theses' \in [Ids -> Thesis \cup {None}] /\ Created \subseteq Created'
    BY <1>1, <1>2, <1>3, ScreeningAssumption DEF Inv, TypeOK, Created
  <1> QED
    BY <1>4, InvRequestEnds DEF CommitThesis

--------------------------------------------------------------------------------
(* The opportunity and its memos *)

LEMMA InvOpportunity ==
  ASSUME Inv, Apply \/ Enter
  PROVE  Inv'
  <1>1. opp = None /\ \E c \in Companies, t \in Created \cup {None} :
                        opp' = [company |-> c, thesis |-> t]
    BY DEF Apply, Enter
  <1>2. /\ theses' = theses /\ claims' = claims /\ scores' = scores /\ memos' = memos
        /\ req' = req /\ run' = run /\ served' = served /\ overlaps' = overlaps
    BY DEF Apply, Enter
  <1>3. opp' \in Opportunities /\ opp'.thesis \in Created \cup {None}
    BY <1>1 DEF Opportunities, Created
  <1>4. TypeOK' /\ Created' = Created /\ MemosGated' /\ Len(memos) \in Nat
    BY <1>2, <1>3 DEF Inv, TypeOK, Created, MemosGated
  <1>5. ThesisExists'
    BY <1>3, <1>4 DEF ThesisExists
  <1> QED
    BY <1>1, <1>2, <1>4, <1>5, Frame

LEMMA InvPatchMemo ==
  ASSUME Inv, NEW h \in Handlers, PatchMemo(h)
  PROVE  Inv'
  <1>1. PICK m \in 1..Len(memos) :
           req' = [req EXCEPT ![h] = [Idle EXCEPT !.op = "memo", !.memo = m,
                                                  !.version = memos[m].version]]
    BY DEF PatchMemo
  <1> DEFINE q == [Idle EXCEPT !.op = "memo", !.memo = m, !.version = memos[m].version]
  <1>2. memos[m] \in Memo /\ Len(memos) \in Nat
    BY DEF Inv, TypeOK
  <1>3. memos[m].version \in Nat /\ m \in Nat
    BY <1>2 DEF Memo
  <1>4. q \in Request /\ q.op = "memo" /\ q.memo = m
    BY <1>3 DEF Idle, Request
  <1>5. req' = [req EXCEPT ![h] = q]
    BY <1>1
  <1> HIDE DEF q
  <1>6. ValidRequest(q)
    BY <1>4 DEF ValidRequest
  <1> QED
    BY <1>4, <1>5, <1>6, InvRequest DEF PatchMemo, Inv, TypeOK

(* An edit that is not refused numbers the memo one above the version it loaded *)
(* and leaves the rest of it.                                                  *)
Edited(h) ==
    /\ DOMAIN memos' = DOMAIN memos /\ Len(memos') = Len(memos)
    /\ \A m \in 1..Len(memos) :
         /\ memos'[m] \in Memo /\ memos'[m].advice = memos[m].advice
         /\ memos'[m].gaps = memos[m].gaps
         /\ m # req[h].memo => memos'[m].version = memos[m].version
         /\ m = req[h].memo => memos'[m].version \in {memos[m].version, req[h].version + 1}

LEMMA MemoEdited ==
  ASSUME Inv, NEW h \in Handlers, CommitMemoPatch(h)
  PROVE  Edited(h) /\ memos' \in Seq(Memo)
  <1> DEFINE m == req[h].memo
             v == req[h].version + 1
             new == [memos[m] EXCEPT !.version = v]
  <1>1. memos \in Seq(Memo) /\ m \in 1..Len(memos) /\ v \in Nat /\ Len(memos) \in Nat
    BY DEF Inv, TypeOK, ValidRequest, CommitMemoPatch, Request
  <1>2. \A n \in 1..Len(memos) : memos[n] \in Memo
    BY <1>1
  <1>3. new \in Memo /\ new.version = v /\ new.advice = memos[m].advice
        /\ new.gaps = memos[m].gaps
    BY <1>1, <1>2 DEF Memo
  <1>4. memos' = memos \/ memos' = [memos EXCEPT ![m] = new]
    BY DEF CommitMemoPatch
  <1> HIDE DEF m, v, new
  <1>5. CASE memos' = memos
    BY <1>1, <1>2, <1>5 DEF Edited
  <1>6. CASE memos' = [memos EXCEPT ![m] = new]
    <2>1. memos' \in Seq(Memo) /\ Len(memos') = Len(memos) /\ DOMAIN memos' = DOMAIN memos
      BY <1>1, <1>3, <1>6
    <2>2. \A n \in 1..Len(memos) : memos'[n] = IF n = m THEN new ELSE memos[n]
      BY <1>1, <1>6
    <2> QED
      BY <2>1, <2>2, <1>2, <1>3 DEF Edited, m, v
  <1> QED
    BY <1>4, <1>5, <1>6

LEMMA InvCommitMemoPatch ==
  ASSUME Inv, NEW h \in Handlers, CommitMemoPatch(h)
  PROVE  Inv'
  <1>8. memos \in Seq(Memo) /\ Len(memos) \in Nat
    BY DEF Inv, TypeOK
  <1>1. /\ memos' \in Seq(Memo) /\ Len(memos') = Len(memos) /\ Len(memos) \in Nat
        /\ \A m \in 1..Len(memos) : memos'[m].advice = memos[m].advice
    BY <1>8, MemoEdited DEF Edited
  <1>2. /\ req' \in [Handlers -> Request] /\ req'[h] = Idle
        /\ \A g \in Handlers : g # h => req'[g] = req[g]
    BY IdleAway, RequestTaken DEF CommitMemoPatch
  <1>3. theses' = theses /\ opp' = opp /\ claims' = claims /\ scores' = scores
        /\ run' = run /\ served' = served
    BY DEF CommitMemoPatch
  <1>4. overlaps' \in SUBSET {"defaults", "memos", "runs"}
    BY DEF CommitMemoPatch, Noted, Inv, TypeOK
  <1>5. TypeOK'
    BY <1>1, <1>2, <1>3, <1>4 DEF Inv, TypeOK
  <1>6. Created' = Created /\ ThesisExists' /\ MemosGated'
    BY <1>1, <1>3 DEF Inv, Created, ThesisExists, MemosGated, Gated
  <1>7. ValidRequest(req[h])'
    BY <1>2, IdleAway DEF ValidRequest
  <1> QED
    BY <1>1, <1>2, <1>3, <1>5, <1>6, <1>7, Frame

--------------------------------------------------------------------------------
(* The steps of a run *)

(* Most steps change only what the run holds. *)
LEMMA InvRun ==
  ASSUME Inv, NEW w \in Workers, NEW r \in Run, ValidRun(r), run' = [run EXCEPT ![w] = r],
         UNCHANGED <<theses, opp, req>>, claims' \in Claims, scores' \in Seq(Score),
         memos' \in Seq(Memo), Len(memos') >= Len(memos), MemosGated',
         served' \in 0..MaxRequests, overlaps' \in SUBSET {"defaults", "memos", "runs"}
  PROVE  Inv'
  <1>1. /\ run' \in [Workers -> Run] /\ run'[w] = r
        /\ \A v \in Workers : v # w => run'[v] = run[v]
    BY DEF Inv, TypeOK
  <1>2. TypeOK' /\ Created' = Created /\ ThesisExists'
    BY <1>1 DEF Inv, TypeOK, Created, ThesisExists
  <1>3. ValidRun(run[w])'
    BY <1>1 DEF ValidRun
  <1> QED
    BY <1>1, <1>2, <1>3, Frame

LEMMA SameRest ==
  ASSUME Inv
  PROVE  /\ claims \in Claims /\ scores \in Seq(Score) /\ memos \in Seq(Memo)
         /\ Len(memos) \in Nat /\ served \in 0..MaxRequests /\ Len(memos) >= Len(memos)
         /\ overlaps \in SUBSET {"defaults", "memos", "runs"}
         /\ (memos' = memos => MemosGated')
         /\ \A w \in Workers : run[w] \in Run /\ ValidRun(run[w])
  BY DEF Inv, TypeOK, MemosGated

LEMMA InvBegin ==
  ASSUME Inv, NEW w \in Workers, NEW deck \in Decks \cup {None}, Begin(w, deck)
  PROVE  Inv'
  <1> DEFINE r == [Away EXCEPT !.pc = "claims", !.deck = deck]
  <1>1. r \in Run /\ r.pc = "claims"
    BY AxesOfNoClaims DEF Away, Run
  <1>2. run' = [run EXCEPT ![w] = r] /\ UNCHANGED <<theses, opp, claims, scores, memos, req>>
    BY DEF Begin
  <1> HIDE DEF r
  <1>5. ValidRun(r)
    BY <1>1 DEF ValidRun, Begin
  <1>3. served' \in 0..MaxRequests
    BY ServedCounts DEF Begin, Inv
  <1>4. overlaps' \in SUBSET {"defaults", "memos", "runs"}
    BY DEF Begin, Noted, Inv, TypeOK
  <1> QED
    BY <1>1, <1>2, <1>3, <1>4, <1>5, InvRun, SameRest

LEMMA InvReadClaims ==
  ASSUME Inv, NEW w \in Workers, ReadClaims(w)
  PROVE  Inv'
  <1> DEFINE r == [run[w] EXCEPT !.pc = IF run[w].deck # None /\ claims = NoClaims
                                          THEN "save_claims" ELSE "axes",
                                 !.deck = IF claims = NoClaims THEN @ ELSE None,
                                 !.claims = claims]
  <1>1. run[w] \in Run /\ ValidRun(run[w]) /\ claims \in Claims
    BY SameRest
  <1>2. /\ r \in Run /\ r.pc \in {"save_claims", "axes"}
        /\ r.pc = "save_claims" => r.deck \in Decks
    BY <1>1 DEF Run
  <1>3. run' = [run EXCEPT ![w] = r]
    BY DEF ReadClaims
  <1> HIDE DEF r
  <1>4. ValidRun(r)
    BY <1>1, <1>2 DEF ValidRun, ReadClaims
  <1> QED
    BY <1>2, <1>3, <1>4, InvRun, SameRest DEF ReadClaims

LEMMA InvSaveClaims ==
  ASSUME Inv, NEW w \in Workers, SaveClaims(w)
  PROVE  Inv'
  <1> DEFINE r == [run[w] EXCEPT !.pc = "axes", !.deck = None, !.claims = run[w].deck]
  <1>1. run[w] \in Run /\ ValidRun(run[w]) /\ claims \in Claims
    BY SameRest
  <1>2. run[w].deck \in Decks /\ run[w].deck \in Claims
    BY <1>1, ScreeningAssumption DEF ValidRun, SaveClaims
  <1>3. r \in Run /\ r.pc = "axes"
    BY <1>1, <1>2 DEF Run
  <1>4. run' = [run EXCEPT ![w] = r]
    BY DEF SaveClaims
  <1>5. claims' \in Claims
    BY <1>1, <1>2, ClaimsAdded DEF SaveClaims
  <1> HIDE DEF r
  <1>6. ValidRun(r)
    BY <1>1, <1>3 DEF ValidRun, SaveClaims
  <1> QED
    BY <1>3, <1>4, <1>5, <1>6, InvRun, SameRest DEF SaveClaims

LEMMA TrendsOfAxes ==
  ASSUME NEW x \in [Axes -> Axis]
  PROVE  [axes |-> x, trend |-> Trended(x)] \in Score
  <1>1. \A s, p : Trend(s, p) \in Trends
    BY DEF Trend, Trends
  <1>2. Trended(x) \in [Axes -> Trends]
    BY <1>1 DEF Trended, Trends
  <1> QED
    BY <1>2 DEF Score

(* What ScoreAxes puts into the run *)
Scored(w, x) ==
    [run[w] EXCEPT !.pc = "save_axes", !.latest = Len(scores),
                   !.score = [axes |-> x, trend |-> Trended(x)]]

LEMMA AxesAreScored ==
  ASSUME Inv, NEW w \in Workers, ScoreAxes(w)
  PROVE  \E x \in [Axes -> Axis] :
           /\ \A a \in Axes : x[a].score >= 350
           /\ x["market"] = MarketAxis(run[w].claims)
           /\ x["idea_vs_market"] = IdeaAxis(run[w].claims)
           /\ run' = [run EXCEPT ![w] = Scored(w, x)]
  <1>1. PICK founders \in SUBSET Levels : \E x \in ScoredAxes(founders, run[w].claims) :
           run' = [run EXCEPT ![w] = Scored(w, x)]
    BY DEF ScoreAxes, Scored
  <1>2. PICK x \in ScoredAxes(founders, run[w].claims) : run' = [run EXCEPT ![w] = Scored(w, x)]
    BY <1>1
  <1>3. PICK c \in Claims : c = run[w].claims
    BY SameRest DEF Run
  <1>4. founders \in SUBSET Levels /\ x \in ScoredAxes(founders, c)
    BY <1>3
  <1>5. x \in [Axes -> Axis]
    BY <1>4, AxesScored
  <1>6. \A a \in Axes : x[a].score >= 350
    BY <1>4, AxesScored
  <1>7. x["market"] = MarketAxis(c) /\ x["idea_vs_market"] = IdeaAxis(c)
    BY <1>4, AxesScored
  <1> QED
    BY <1>2, <1>3, <1>5, <1>6, <1>7

LEMMA InvScoreAxes ==
  ASSUME Inv, NEW w \in Workers, ScoreAxes(w)
  PROVE  Inv'
  <1>1. PICK x \in [Axes -> Axis] : /\ \A a \in Axes : x[a].score >= 350
                                    /\ run' = [run EXCEPT ![w] = Scored(w, x)]
    BY AxesAreScored
  <1> DEFINE s == [axes |-> x, trend |-> Trended(x)]
  <1>2. s \in Score /\ s.axes = x
    BY TrendsOfAxes
  <1> HIDE DEF s
  <1>3. run[w] \in Run /\ ValidRun(run[w]) /\ Len(scores) \in Nat /\ run[w].pc = "axes"
    BY SameRest DEF ScoreAxes
  <1>4. Scored(w, x) = [run[w] EXCEPT !.pc = "save_axes", !.latest = Len(scores), !.score = s]
    BY DEF Scored, s
  <1>5. Scored(w, x) \in Run /\ Scored(w, x).pc = "save_axes" /\ Scored(w, x).score = s
    BY <1>2, <1>3, <1>4 DEF Run
  <1>6. ValidRun(Scored(w, x))
    BY <1>1, <1>2, <1>3, <1>5 DEF ValidRun
  <1> QED
    BY <1>1, <1>5, <1>6, InvRun, SameRest DEF ScoreAxes

LEMMA InvSaveAxes ==
  ASSUME Inv, NEW w \in Workers, SaveAxes(w)
  PROVE  Inv'
  <1>1. run[w] \in Run /\ ValidRun(run[w]) /\ run[w].pc = "save_axes"
    BY SameRest DEF SaveAxes
  <1> DEFINE r == [run[w] EXCEPT !.pc = "advise"]
  <1>2. r \in Run /\ ValidRun(r)
    BY <1>1 DEF Run, ValidRun
  <1> HIDE DEF r
  <1>3. CASE run' = [run EXCEPT ![w] = r] /\ scores' = Append(scores, run[w].score)
    <2>1. scores' \in Seq(Score)
      BY <1>1, <1>3, SameRest DEF ValidRun
    <2> QED
      BY <1>2, <1>3, <2>1, InvRun, SameRest DEF SaveAxes
  <1>4. CASE run' = [run EXCEPT ![w] = Away] /\ scores' = scores
    BY <1>4, IdleAway, InvRun, SameRest DEF SaveAxes
  <1> QED
    BY <1>3, <1>4 DEF SaveAxes, Ends, r

(* The fit a run is given is 0 only with a gate. *)
LEMMA FitGiven ==
  ASSUME Inv, opp # None
  PROVE  /\ ThesisFit.score \in Nat /\ ThesisFit.gate \in GateReasons \cup {None}
         /\ ThesisFit.score = 0 => ThesisFit.gate # None
  <1>1. opp.company \in Companies
    BY DEF Inv, TypeOK, Opportunities
  <1>2. CASE opp.thesis = None
    BY <1>2 DEF ThesisFit
  <1>3. CASE opp.thesis # None
    <2> DEFINE t == theses[opp.thesis]
    <2>1. t \in Thesis
      BY <1>3 DEF Inv, TypeOK, ThesisExists, Created
    <2>2. ThesisFit = [score |-> Fit(t, opp.company), gate |-> Gate(t, opp.company)]
      BY <1>3 DEF ThesisFit
    <2>3. CASE Gate(t, opp.company) = None
      BY <1>1, <2>1, <2>2, <2>3, FitIsPositive
    <2>4. CASE Gate(t, opp.company) # None
      <3>1. Fit(t, opp.company) = 0
        BY <2>4 DEF Fit
      <3> QED
        BY <2>2, <2>4, <3>1, GateValues
    <2> QED
      BY <2>3, <2>4
  <1> QED
    BY <1>2, <1>3

LEMMA Advised ==
  ASSUME Inv, NEW w \in Workers, Advise(w)
  PROVE  \E a \in Advices :
           /\ Gated(a)
           /\ a.decision = "invest" => ClearsBar(run[w].score.axes, ThesisFit.score)
           /\ run' = [run EXCEPT ![w] = [run[w] EXCEPT !.pc = "memo", !.score = None,
                                                       !.latest = 0, !.advice = a]]
  <1> DEFINE axes == run[w].score.axes
             cold == axes["founder"].confidence < 400
             a == Recommend(axes, ThesisFit.score, FALSE, cold, ThesisFit.gate)
  <1>1. ValidRun(run[w]) /\ run[w].pc = "advise"
    BY SameRest DEF Advise
  <1>2. axes \in [Axes -> Axis] /\ \A x \in Axes : axes[x].score >= 350
    BY <1>1 DEF ValidRun, Score
  <1>3. opp # None
    BY <1>1 DEF ValidRun
  <1>4. cold \in BOOLEAN
    OBVIOUS
  <1>5. run' = [run EXCEPT ![w] = [run[w] EXCEPT !.pc = "memo", !.score = None,
                                                 !.latest = 0, !.advice = a]]
    <2>1. run' = [run EXCEPT ![w].pc = "memo", ![w].score = None, ![w].latest = 0,
                             ![w].advice = a]
      BY Zenon DEF Advise
    <2> HIDE DEF a
    <2> QED
      BY <2>1
  <1> HIDE DEF axes, cold
  <1>6. /\ a \in Advices /\ Gated(a)
        /\ a.decision = "invest" => ClearsBar(axes, ThesisFit.score)
    BY <1>2, <1>3, <1>4, FitGiven, AdviceGiven
  <1>7. a.decision = "invest" => ClearsBar(run[w].score.axes, ThesisFit.score)
    BY <1>6 DEF axes
  <1> HIDE DEF a
  <1> QED
    BY <1>5, <1>6, <1>7

LEMMA InvAdvise ==
  ASSUME Inv, NEW w \in Workers, Advise(w)
  PROVE  Inv'
  <1>1. PICK a \in Advices :
           /\ Gated(a)
           /\ run' = [run EXCEPT ![w] = [run[w] EXCEPT !.pc = "memo", !.score = None,
                                                       !.latest = 0, !.advice = a]]
    BY Advised
  <1> DEFINE r == [run[w] EXCEPT !.pc = "memo", !.score = None, !.latest = 0, !.advice = a]
  <1>2. run[w] \in Run /\ ValidRun(run[w]) /\ run[w].pc = "advise"
    BY SameRest DEF Advise
  <1>3. r \in Run /\ r.pc = "memo" /\ r.advice = a
    BY <1>2 DEF Run
  <1>4. run' = [run EXCEPT ![w] = r]
    BY <1>1
  <1> HIDE DEF r
  <1>5. ValidRun(r)
    BY <1>1, <1>2, <1>3 DEF ValidRun
  <1> QED
    BY <1>3, <1>4, <1>5, InvRun, SameRest DEF Advise

LEMMA InvReadMemo ==
  ASSUME Inv, NEW w \in Workers, ReadMemo(w)
  PROVE  Inv'
  <1>1. PICK v \in LatestVersion : run' = [run EXCEPT ![w].pc = "save_memo", ![w].latest = v]
    BY DEF ReadMemo
  <1>2. v \in Nat
    <2>1. \A m \in 1..Len(memos) : memos[m] \in Memo
      BY SameRest
    <2>2. \A m \in 1..Len(memos) : memos[m].version \in Nat
      BY <2>1 DEF Memo
    <2> QED
      BY <2>2 DEF LatestVersion
  <1> DEFINE r == [run[w] EXCEPT !.pc = "save_memo", !.latest = v]
  <1>3. run[w] \in Run /\ ValidRun(run[w]) /\ run[w].pc = "memo"
    BY SameRest DEF ReadMemo
  <1>4. r \in Run /\ r.pc = "save_memo" /\ r.advice = run[w].advice
    BY <1>2, <1>3 DEF Run
  <1>5. run' = [run EXCEPT ![w] = r]
    BY <1>1
  <1> HIDE DEF r
  <1>6. ValidRun(r)
    BY <1>3, <1>4 DEF ValidRun
  <1> QED
    BY <1>4, <1>5, <1>6, InvRun, SameRest DEF ReadMemo

(* The memo a run would add *)
NewMemo(w) ==
    [version |-> run[w].latest + 1, advice |-> run[w].advice, gaps |-> Gaps(run[w].claims)]

LEMMA MemoAdded ==
  ASSUME Inv, NEW w \in Workers, run[w].pc = "save_memo"
  PROVE  /\ NewMemo(w) \in Memo /\ Gated(NewMemo(w).advice)
         /\ Append(memos, NewMemo(w)) \in Seq(Memo)
         /\ Len(Append(memos, NewMemo(w))) = Len(memos) + 1
         /\ \A m \in 1..Len(memos) : Append(memos, NewMemo(w))[m] = memos[m]
         /\ Append(memos, NewMemo(w))[Len(memos) + 1] = NewMemo(w)
  <1>1. run[w].latest \in Nat /\ run[w].advice \in Advices /\ Gated(run[w].advice)
    BY SameRest DEF Run, ValidRun
  <1>2. run[w].latest + 1 \in Nat /\ Gaps(run[w].claims) \subseteq DOMAIN RequiredSections
    BY <1>1 DEF Gaps
  <1>3. NewMemo(w) \in Memo /\ NewMemo(w).advice = run[w].advice
    BY <1>1, <1>2 DEF NewMemo, Memo
  <1> QED
    BY <1>1, <1>3, SameRest

LEMMA InvSaveMemo ==
  ASSUME Inv, NEW w \in Workers, SaveMemo(w)
  PROVE  Inv'
  <1>1. run' = [run EXCEPT ![w] = Away]
    BY DEF SaveMemo, Ends
  <1>2. CASE memos' = memos
    BY <1>1, <1>2, IdleAway, InvRun, SameRest DEF SaveMemo
  <1>3. CASE memos' = Append(memos, NewMemo(w))
    <2>1. memos' \in Seq(Memo) /\ Len(memos') = Len(memos) + 1 /\ Len(memos') >= Len(memos)
      BY <1>3, MemoAdded, SameRest DEF SaveMemo
    <2>2. ASSUME NEW m \in 1..Len(memos') PROVE Gated(memos'[m].advice)
      <3>1. CASE m \in 1..Len(memos)
        BY <1>3, <3>1, MemoAdded DEF SaveMemo, Inv, MemosGated
      <3>2. CASE m = Len(memos) + 1
        BY <1>3, <3>2, MemoAdded DEF SaveMemo
      <3> QED
        BY <2>1, <3>1, <3>2, SameRest
    <2>3. MemosGated'
      BY <2>2 DEF MemosGated, Gated
    <2> QED
      BY <1>1, <2>1, <2>3, IdleAway, InvRun, SameRest DEF SaveMemo
  <1> QED
    BY <1>2, <1>3 DEF SaveMemo, NewMemo

LEMMA InvLeave ==
  ASSUME Inv, NEW w \in Workers, Leave(w)
  PROVE  Inv'
  BY IdleAway, InvRun, SameRest DEF Leave, Ends

LEMMA InvStep == Inv /\ [Next]_vars => Inv'
  <1> SUFFICES ASSUME Inv, [Next]_vars PROVE Inv'
    OBVIOUS
  <1>1. CASE UNCHANGED vars
    BY <1>1 DEF vars, Inv, TypeOK, ValidRequest, ValidRun, ThesisExists, MemosGated, Created
  <1>2. CASE CreateThesis \/ Apply \/ Enter
    BY <1>2, InvCreateThesis, InvOpportunity
  <1>3. ASSUME NEW h \in Handlers, Http(h) PROVE Inv'
    BY <1>3, InvCreateDefault, InvCommitCreate, InvSetDefault, InvCommitDefault,
       InvUpdateThesis, InvDeleteThesis, InvCommitThesis, InvPatchMemo, InvCommitMemoPatch
       DEF Http
  <1>4. ASSUME NEW w \in Workers, Work(w) PROVE Inv'
    <2>1. CASE Regenerate(w) \/ Screen(w)
      BY <2>1, InvBegin DEF Regenerate, Screen
    <2> QED
      BY <1>4, <2>1, InvReadClaims, InvSaveClaims, InvScoreAxes, InvSaveAxes, InvAdvise,
         InvReadMemo, InvSaveMemo, InvLeave DEF Work
  <1> QED
    BY <1>1, <1>2, <1>3, <1>4 DEF Next

(* Spec keeps Inv: requests and runs hold what their next steps need. *)
THEOREM Invariance == Spec => []Inv
  BY InvInit, InvStep, PTL DEF Spec

(* Every thesis, score, memo, request and run has its type in every state of the *)
(* handlers of theses.py, of patch_memo and of process_job.                      *)
THEOREM TypeCorrectness == Spec => []TypeOK
  <1>1. Inv => TypeOK
    BY DEF Inv
  <1> QED
    BY <1>1, Invariance, PTL

--------------------------------------------------------------------------------
(* One default thesis *)

OnlyOneDefault ==
    \A t, u \in Created : theses[t].is_default /\ theses[u].is_default => t = u

(* As long as no thesis is created while a request makes one the default, the   *)
(* UPDATE of every such request has found all the theses there are.             *)
DefaultsInv ==
    "defaults" \notin overlaps =>
        /\ OnlyOneDefault
        /\ \A h \in Defaulting : Created \subseteq req[h].rows
        /\ \A h \in Creating, g \in Defaulting : g = h

LEMMA DefaultsInit == Init => DefaultsInv
  <1> SUFFICES ASSUME Init PROVE DefaultsInv
    OBVIOUS
  <1>1. OnlyOneDefault
    BY DEF Init, OnlyOneDefault, Created
  <1>2. Defaulting = {} /\ Creating = {}
    BY IdleAway DEF Init, Defaulting, Creating
  <1> QED
    BY <1>1, <1>2 DEF DefaultsInv

(* Steps that change no thesis and begin no change of the default *)
LEMMA DefaultsKept ==
  ASSUME DefaultsInv, overlaps \subseteq overlaps', theses' = theses,
         \A h \in Handlers : req'[h] = req[h] \/ req'[h].op \notin {"create", "default"}
  PROVE  DefaultsInv'
  <1> SUFFICES ASSUME "defaults" \notin overlaps'
               PROVE  /\ OnlyOneDefault'
                      /\ \A h \in Defaulting' : Created' \subseteq req'[h].rows
                      /\ \A h \in Creating', g \in Defaulting' : g = h
    BY DEF DefaultsInv
  <1>1. Created' = Created /\ OnlyOneDefault'
    BY DEF Created, OnlyOneDefault, DefaultsInv
  <1>2. \A h \in Defaulting' : h \in Defaulting /\ req'[h] = req[h]
    BY DEF Defaulting
  <1>3. Creating' \subseteq Creating
    BY DEF Creating
  <1> QED
    BY <1>1, <1>2, <1>3 DEF DefaultsInv

(* A request that begins to make a thesis the default finds every thesis. *)
LEMMA DefaultsBegun ==
  ASSUME Inv, DefaultsInv, NEW h \in Handlers, NEW q \in Request, q.rows = Created,
         req' = [req EXCEPT ![h] = q], theses' = theses, overlaps \subseteq overlaps',
         req[h].op = "idle",
         \/ q.op = "create" /\ ("defaults" \notin overlaps' => Defaulting = {})
         \/ q.op = "default" /\ ("defaults" \notin overlaps' => Creating = {})
  PROVE  DefaultsInv'
  <1> SUFFICES ASSUME "defaults" \notin overlaps'
               PROVE  /\ OnlyOneDefault'
                      /\ \A g \in Defaulting' : Created' \subseteq req'[g].rows
                      /\ \A g \in Creating', k \in Defaulting' : k = g
    BY DEF DefaultsInv
  <1>1. Created' = Created /\ OnlyOneDefault'
    BY DEF Created, OnlyOneDefault, DefaultsInv
  <1>2. req'[h] = q /\ \A g \in Handlers : g # h => req'[g] = req[g]
    BY RequestTaken
  <1>3. \A g \in Defaulting' : g = h \/ (g \in Defaulting /\ req'[g] = req[g])
    BY <1>2 DEF Defaulting
  <1>4. \A g \in Defaulting' : Created' \subseteq req'[g].rows
    BY <1>1, <1>2, <1>3 DEF DefaultsInv
  <1>5. CASE q.op = "create" /\ Defaulting = {}
    <2>1. Defaulting' \subseteq {h} /\ Creating' \subseteq {h}
      BY <1>2, <1>5 DEF Defaulting, Creating
    <2> QED
      BY <1>1, <1>4, <2>1
  <1>6. CASE q.op = "default" /\ Creating = {}
    <2>1. Creating' = {}
      BY <1>2, <1>6 DEF Creating
    <2> QED
      BY <1>1, <1>4, <2>1
  <1> QED
    BY <1>5, <1>6

LEMMA DefaultsCreateThesis ==
  ASSUME Inv, DefaultsInv, CreateThesis
  PROVE  DefaultsInv'
  <1> SUFFICES ASSUME "defaults" \notin overlaps'
               PROVE  /\ OnlyOneDefault'
                      /\ \A h \in Defaulting' : Created' \subseteq req'[h].rows
                      /\ \A h \in Creating', g \in Defaulting' : g = h
    BY DEF DefaultsInv
  <1>1. PICK t \in Ids \ Created, c \in Accepted :
               theses' = [theses EXCEPT ![t] = ThesisOf(c, FALSE)]
    BY DEF CreateThesis
  <1>2. ThesisOf(c, FALSE).is_default = FALSE
    BY DEF ThesisOf
  <1>3. Defaulting = {} /\ "defaults" \notin overlaps /\ req' = req
    BY DEF CreateThesis, Noted
  <1>4. Defaulting' = {} /\ Creating' = {}
    BY <1>3 DEF Defaulting, Creating
  <1>5. \A u \in Created' : u = t \/ (u \in Created /\ theses'[u] = theses[u])
    BY <1>1 DEF Created, Inv, TypeOK
  <1>6. ~theses'[t].is_default
    BY <1>1, <1>2 DEF Inv, TypeOK
  <1>7. OnlyOneDefault'
    BY <1>3, <1>5, <1>6 DEF OnlyOneDefault, DefaultsInv
  <1> QED
    BY <1>4, <1>7

(* A request that has found every thesis leaves one default: the thesis it sets. *)
LEMMA DefaultsCommitted ==
  ASSUME Inv, DefaultsInv, NEW h \in Defaulting, NEW t \in Ids, NEW new,
         theses' = [Cleared(h) EXCEPT ![t] = new], req' = [req EXCEPT ![h] = Idle],
         overlaps' = overlaps, req[h].op = "create" \/ t \in Created
  PROVE  DefaultsInv'
  <1> SUFFICES ASSUME "defaults" \notin overlaps
               PROVE  /\ OnlyOneDefault'
                      /\ \A g \in Defaulting' : Created' \subseteq req'[g].rows
                      /\ \A g \in Creating', k \in Defaulting' : k = g
    BY DEF DefaultsInv
  <1>1. /\ h \in Handlers /\ req'[h] = Idle /\ Idle.op = "idle"
        /\ \A g \in Handlers : g # h => req'[g] = req[g]
    BY RequestTaken, IdleAway DEF Defaulting
  <1>2. Created \subseteq req[h].rows
    BY DEF DefaultsInv
  <1>3. \A u \in Created' : u = t \/ (u \in Created /\ ~theses'[u].is_default)
    BY <1>1, <1>2, ClearedRows DEF Created, Inv
  <1>4. OnlyOneDefault'
    BY <1>3 DEF OnlyOneDefault
  <1>5. \A g \in Defaulting' : g \in Defaulting /\ g # h /\ req'[g] = req[g]
    BY <1>1 DEF Defaulting
  <1>6. Creating' \subseteq Creating \ {h}
    BY <1>1 DEF Creating
  <1>7. CASE req[h].op = "create"
    <2>1. h \in Creating
      BY <1>1, <1>7 DEF Creating
    <2>2. Defaulting' = {} /\ Creating' = {}
      BY <1>5, <1>6, <2>1 DEF DefaultsInv, Creating, Defaulting
    <2> QED
      BY <1>4, <2>2
  <1>8. CASE t \in Created
    <2>1. Created' \subseteq Created
      BY <1>3, <1>8
    <2> QED
      BY <1>4, <1>5, <1>6, <2>1 DEF DefaultsInv
  <1> QED
    BY <1>7, <1>8

(* An edit or a deletion, however late, makes no thesis the default. *)
LEMMA DefaultsCommitThesis ==
  ASSUME Inv, DefaultsInv, NEW h \in Handlers, CommitThesis(h)
  PROVE  DefaultsInv'
  <1> DEFINE t == req[h].thesis
             new == Flush(theses[t], req[h].loaded, req[h].obj)
  <1>1. /\ t \in Created /\ t \in Ids /\ theses[t] \in Thesis
        /\ req[h].loaded \in Thesis /\ req[h].obj \in Thesis
        /\ req[h].obj.is_default = req[h].loaded.is_default \/ req[h].obj.is_default = FALSE
    BY DEF Inv, TypeOK, ValidRequest, CommitThesis, Created
  <1>2. new.is_default => theses[t].is_default
    BY <1>1, ThesisFlushed
  <1>3. theses' = [theses EXCEPT ![t] = new]
    BY DEF CommitThesis
  <1> HIDE DEF new
  <1>4. \A u \in Created' : u \in Created /\ (theses'[u].is_default => theses[u].is_default)
    BY <1>1, <1>2, <1>3 DEF Created, Inv, TypeOK
  <1>5. OnlyOneDefault => OnlyOneDefault'
    BY <1>4 DEF OnlyOneDefault
  <1>6. /\ req'[h] = Idle /\ Idle.op = "idle"
        /\ \A g \in Handlers : g # h => req'[g] = req[g]
    BY RequestTaken, IdleAway DEF CommitThesis
  <1>7. \A g \in Defaulting' : g \in Defaulting /\ req'[g] = req[g]
    BY <1>6 DEF Defaulting
  <1>8. Creating' \subseteq Creating /\ overlaps' = overlaps
    BY <1>6 DEF Creating, CommitThesis
  <1> QED
    BY <1>4, <1>5, <1>7, <1>8 DEF DefaultsInv

LEMMA DefaultsHttp ==
  ASSUME Inv, DefaultsInv, NEW h \in Handlers, Http(h)
  PROVE  DefaultsInv'
  <1>1. CASE CreateDefault(h)
    <2>1. PICK c \in Accepted :
             req' = [req EXCEPT ![h] = [Idle EXCEPT !.op = "create", !.rows = Created,
                                                    !.obj = ThesisOf(c, TRUE)]]
      BY <1>1 DEF CreateDefault
    <2> DEFINE q == [Idle EXCEPT !.op = "create", !.rows = Created, !.obj = ThesisOf(c, TRUE)]
    <2>2. ThesisOf(c, TRUE) \in Thesis
      BY ThesisRows DEF Accepted, Policies
    <2>3. q \in Request /\ q.op = "create" /\ q.rows = Created
      BY <2>2 DEF Idle, Request, Created
    <2>4. req' = [req EXCEPT ![h] = q]
      BY <2>1
    <2> HIDE DEF q
    <2>5. /\ theses' = theses /\ overlaps \subseteq overlaps' /\ req[h].op = "idle"
          /\ "defaults" \notin overlaps' => Defaulting = {}
      BY <1>1 DEF CreateDefault, Noted
    <2> QED
      BY <2>3, <2>4, <2>5, DefaultsBegun
  <1>2. CASE SetDefault(h)
    <2>1. PICK t \in Created :
             req' = [req EXCEPT ![h] = [Idle EXCEPT !.op = "default", !.thesis = t,
                                                    !.rows = Created]]
      BY <1>2 DEF SetDefault
    <2> DEFINE q == [Idle EXCEPT !.op = "default", !.thesis = t, !.rows = Created]
    <2>3. q \in Request /\ q.op = "default" /\ q.rows = Created
      BY DEF Idle, Request, Created
    <2>4. req' = [req EXCEPT ![h] = q]
      BY <2>1
    <2> HIDE DEF q
    <2>5. /\ theses' = theses /\ overlaps \subseteq overlaps' /\ req[h].op = "idle"
          /\ "defaults" \notin overlaps' => Creating = {}
      BY <1>2 DEF SetDefault, Noted
    <2> QED
      BY <2>3, <2>4, <2>5, DefaultsBegun
  <1>3. CASE CommitCreate(h)
    <2>1. h \in Defaulting /\ overlaps' = overlaps /\ req' = [req EXCEPT ![h] = Idle]
      BY <1>3 DEF CommitCreate, Defaulting
    <2> QED
      BY <1>3, <2>1, DefaultsCommitted DEF CommitCreate
  <1>4. CASE CommitDefault(h)
    <2>1. h \in Defaulting /\ overlaps' = overlaps /\ req' = [req EXCEPT ![h] = Idle]
      BY <1>4 DEF CommitDefault, Defaulting
    <2>2. req[h].thesis \in Created /\ req[h].thesis \in Ids
      BY <1>4 DEF CommitDefault, Inv, ValidRequest, Created
    <2> QED
      BY <1>4, <2>1, <2>2, DefaultsCommitted DEF CommitDefault
  <1>5. CASE UpdateThesis(h) \/ DeleteThesis(h) \/ PatchMemo(h)
    <2>1. theses' = theses /\ overlaps' = overlaps
      BY <1>5 DEF UpdateThesis, DeleteThesis, Write, PatchMemo
    <2>2. \A g \in Handlers : req'[g] = req[g] \/ req'[g].op \notin {"create", "default"}
      <3>1. \A t, obj : Write(h, t, obj) => /\ req'[h].op = "write"
                                            /\ \A g \in Handlers \ {h} : req'[g] = req[g]
        BY DEF Write, Idle, Inv, TypeOK
      <3>2. CASE UpdateThesis(h) \/ DeleteThesis(h)
        BY <3>1, <3>2 DEF UpdateThesis, DeleteThesis
      <3>3. CASE PatchMemo(h)
        BY <3>3 DEF PatchMemo, Idle, Inv, TypeOK
      <3> QED
        BY <1>5, <3>2, <3>3
    <2> QED
      BY <2>1, <2>2, DefaultsKept
  <1>6. CASE CommitMemoPatch(h)
    <2>1. theses' = theses /\ overlaps \subseteq overlaps' /\ req' = [req EXCEPT ![h] = Idle]
      BY <1>6 DEF CommitMemoPatch, Noted
    <2>2. \A g \in Handlers : req'[g] = req[g] \/ req'[g].op \notin {"create", "default"}
      BY <2>1, IdleAway DEF Inv, TypeOK
    <2> QED
      BY <2>1, <2>2, DefaultsKept
  <1> QED
    BY <1>1, <1>2, <1>3, <1>4, <1>5, <1>6, DefaultsCommitThesis DEF Http

LEMMA DefaultsStep == Inv /\ DefaultsInv /\ [Next]_vars => DefaultsInv'
  <1> SUFFICES ASSUME Inv, DefaultsInv, [Next]_vars PROVE DefaultsInv'
    OBVIOUS
  <1>1. CASE UNCHANGED vars
    BY <1>1, DefaultsKept DEF vars
  <1>2. CASE Apply \/ Enter
    BY <1>2, DefaultsKept DEF Apply, Enter
  <1>3. ASSUME NEW w \in Workers, Work(w) PROVE DefaultsInv'
    <2>1. theses' = theses /\ req' = req /\ overlaps \subseteq overlaps'
      BY <1>3 DEF Work, Regenerate, Screen, Begin, Noted, ReadClaims, SaveClaims, ScoreAxes,
                  SaveAxes, Advise, ReadMemo, SaveMemo, Leave
    <2> QED
      BY <2>1, DefaultsKept
  <1> QED
    BY <1>1, <1>2, <1>3, DefaultsCreateThesis, DefaultsHttp DEF Next

(* An organisation has at most one default thesis, whatever edits, deletions and *)
(* changes of the default of theses.py overlap, as long as no thesis is created  *)
(* while another request is making one the default.                              *)
THEOREM DefaultIsUnique == Spec => []OneDefault
  <1>1. DefaultsInv => OneDefault
    BY DEF DefaultsInv, OneDefault, OnlyOneDefault
  <1> QED
    BY <1>1, DefaultsInit, DefaultsStep, Invariance, PTL DEF Spec

--------------------------------------------------------------------------------
(* The numbers of memos *)

InOrder == \A m, n \in 1..Len(memos) : m < n => memos[m].version < memos[n].version

(* As long as no edit is committed while another edit or an insertion is under   *)
(* way, what an edit has loaded is what the memo has, and what a run has read is *)
(* still the latest version unless its successor is taken.                      *)
MemosInv ==
    "memos" \notin overlaps =>
        /\ InOrder
        /\ \A h \in Handlers : req[h].op = "memo" => memos[req[h].memo].version = req[h].version
        /\ \A w \in Workers : run[w].pc = "save_memo" =>
             run[w].latest \in LatestVersion \/ Taken(run[w].latest + 1)

LEMMA VersionsAreNat ==
  ASSUME Inv
  PROVE  Len(memos) \in Nat /\ \A m \in 1..Len(memos) : memos[m].version \in Nat
  <1>1. Len(memos) \in Nat /\ \A m \in 1..Len(memos) : memos[m] \in Memo
    BY DEF Inv, TypeOK
  <1> QED
    BY <1>1 DEF Memo

LEMMA MemosInit == Init => MemosInv
  <1> SUFFICES ASSUME Init PROVE MemosInv
    OBVIOUS
  <1>1. Len(memos) = 0 /\ InOrder
    BY DEF Init, InOrder
  <1>2. \A h \in Handlers : req[h].op = "idle"
    BY IdleAway DEF Init
  <1>3. \A w \in Workers : run[w].pc = "idle"
    BY IdleAway DEF Init
  <1> QED
    BY <1>1, <1>2, <1>3 DEF MemosInv

(* Steps that change no memo *)
LEMMA MemosKept ==
  ASSUME MemosInv, overlaps \subseteq overlaps', memos' = memos,
         \A h \in Handlers : \/ req'[h] = req[h] \/ req'[h].op # "memo"
                             \/ memos[req'[h].memo].version = req'[h].version,
         \A w \in Workers : \/ run'[w] = run[w] \/ run'[w].pc # "save_memo"
                            \/ run'[w].latest \in LatestVersion
  PROVE  MemosInv'
  <1> SUFFICES ASSUME "memos" \notin overlaps'
               PROVE  /\ InOrder'
                      /\ \A h \in Handlers : req'[h].op = "memo" =>
                           memos'[req'[h].memo].version = req'[h].version
                      /\ \A w \in Workers : run'[w].pc = "save_memo" =>
                           run'[w].latest \in LatestVersion' \/ Taken(run[w].latest + 1)'
    BY DEF MemosInv
  <1>1. InOrder' /\ LatestVersion' = LatestVersion
    BY DEF InOrder, LatestVersion, MemosInv
  <1>2. ASSUME NEW h \in Handlers, req'[h].op = "memo"
        PROVE  memos'[req'[h].memo].version = req'[h].version
    BY <1>2 DEF MemosInv
  <1>3. ASSUME NEW w \in Workers, run'[w].pc = "save_memo"
        PROVE  run'[w].latest \in LatestVersion' \/ Taken(run[w].latest + 1)'
    BY <1>1, <1>3 DEF MemosInv, Taken
  <1> QED
    BY <1>1, <1>2, <1>3

LEMMA MemosPatchMemo ==
  ASSUME Inv, MemosInv, NEW h \in Handlers, PatchMemo(h)
  PROVE  MemosInv'
  <1>1. PICK m \in 1..Len(memos) :
           req' = [req EXCEPT ![h] = [Idle EXCEPT !.op = "memo", !.memo = m,
                                                  !.version = memos[m].version]]
    BY DEF PatchMemo
  <1>2. req'[h].memo = m /\ req'[h].version = memos[m].version
        /\ \A g \in Handlers : g # h => req'[g] = req[g]
    BY <1>1 DEF Inv, TypeOK, Idle
  <1> QED
    BY <1>2, MemosKept DEF PatchMemo

(* An edit that nothing overlaps moves a memo up by one, to a version no other    *)
(* has: the memos stay in order.                                                 *)
LEMMA MemosCommitMemoPatch ==
  ASSUME Inv, MemosInv, NEW h \in Handlers, CommitMemoPatch(h)
  PROVE  MemosInv'
  <1> SUFFICES ASSUME "memos" \notin overlaps' PROVE MemosInv'
    BY DEF MemosInv
  <1> DEFINE m == req[h].memo
             v == req[h].version
  <1>1. /\ "memos" \notin overlaps
        /\ \A g \in Handlers \ {h} : req[g].op # "memo"
        /\ \A w \in Workers : run[w].pc # "save_memo"
        /\ run' = run
    BY DEF CommitMemoPatch, Noted
  <1>2. /\ req'[h].op = "idle" /\ \A g \in Handlers : g # h => req'[g] = req[g]
    BY RequestTaken, IdleAway DEF CommitMemoPatch
  <1>3. /\ InOrder /\ memos[m].version = v /\ v \in Nat /\ m \in 1..Len(memos)
    BY <1>1, VersionsAreNat DEF CommitMemoPatch, MemosInv, Inv, ValidRequest
  <1>4. Len(memos') = Len(memos) /\ \A n \in 1..Len(memos) :
          n # m => memos'[n].version = memos[n].version
    BY MemoEdited DEF Edited
  <1>5. memos'[m].version = v \/ (memos'[m].version = v + 1 /\ ~Taken(v + 1))
    <2>1. CASE Taken(v + 1)
      BY <1>3, <2>1 DEF CommitMemoPatch
    <2>2. CASE ~Taken(v + 1)
      BY <1>3, <2>2, MemoEdited DEF Edited
    <2> QED
      BY <2>1, <2>2
  <1> HIDE DEF m, v
  <1>6. InOrder'
    <2> SUFFICES ASSUME NEW i \in 1..Len(memos), NEW j \in 1..Len(memos), i < j
                 PROVE  memos'[i].version < memos'[j].version
      BY <1>4 DEF InOrder
    <2>1. memos[i].version < memos[j].version /\ memos[i].version \in Nat
          /\ memos[j].version \in Nat /\ i # j
      BY <1>3, VersionsAreNat DEF InOrder
    <2>2. ~Taken(v + 1) => memos[j].version # v + 1
      BY DEF Taken
    <2>3. CASE i = m
      BY <1>3, <1>4, <1>5, <2>1, <2>2, <2>3
    <2>4. CASE j = m
      BY <1>3, <1>4, <1>5, <2>1, <2>4
    <2>5. CASE i # m /\ j # m
      BY <1>4, <2>1, <2>5
    <2> QED
      BY <2>3, <2>4, <2>5
  <1> QED
    BY <1>1, <1>2, <1>6 DEF MemosInv

LEMMA MemosReadMemo ==
  ASSUME Inv, MemosInv, NEW w \in Workers, ReadMemo(w)
  PROVE  MemosInv'
  <1>1. PICK v \in LatestVersion : run' = [run EXCEPT ![w].pc = "save_memo", ![w].latest = v]
    BY DEF ReadMemo
  <1>2. run'[w].latest = v /\ \A u \in Workers : u # w => run'[u] = run[u]
    BY <1>1 DEF Inv, TypeOK, Run
  <1> QED
    BY <1>2, MemosKept DEF ReadMemo

(* Of the runs that read the latest version, one adds its successor and the      *)
(* others find it taken.                                                        *)
LEMMA MemosSaveMemo ==
  ASSUME Inv, MemosInv, NEW w \in Workers, SaveMemo(w)
  PROVE  MemosInv'
  <1>1. /\ overlaps' = overlaps /\ req' = req /\ run'[w].pc = "idle"
        /\ \A u \in Workers : u # w => run'[u] = run[u]
    BY IdleAway DEF SaveMemo, Ends, Inv, TypeOK
  <1>2. CASE Taken(run[w].latest + 1)
    BY <1>1, <1>2, MemosKept DEF SaveMemo
  <1>3. CASE ~Taken(run[w].latest + 1)
    <2> SUFFICES ASSUME "memos" \notin overlaps PROVE MemosInv'
      BY <1>1 DEF MemosInv
    <2> DEFINE l == run[w].latest
               n == Len(memos)
    <2>1. /\ n \in Nat /\ l \in Nat /\ \A m \in 1..n : memos[m].version \in Nat
      BY VersionsAreNat, SameRest DEF Run
    <2>2. l \in LatestVersion
      BY <1>3 DEF MemosInv, SaveMemo
    <2>3. \A m \in 1..n : memos[m].version <= l
      BY <2>2 DEF LatestVersion
    <2>4. /\ Len(memos') = n + 1 /\ \A m \in 1..n : memos'[m] = memos[m]
          /\ memos'[n + 1].version = l + 1
      BY <1>3, MemoAdded DEF SaveMemo, NewMemo
    <2> HIDE DEF l, n
    <2>5. InOrder'
      <3> SUFFICES ASSUME NEW i \in 1..(n + 1), NEW j \in 1..(n + 1), i < j
                   PROVE  memos'[i].version < memos'[j].version
        BY <2>4 DEF InOrder
      <3>1. i \in 1..n
        BY <2>1
      <3>2. CASE j \in 1..n
        BY <2>4, <3>1, <3>2 DEF InOrder, MemosInv, n
      <3>3. CASE j = n + 1
        BY <2>1, <2>3, <2>4, <3>1, <3>3
      <3> QED
        BY <2>1, <3>2, <3>3
    <2>6. \A h \in Handlers : req[h].op = "memo" => req[h].memo \in 1..n
      BY DEF Inv, ValidRequest, n
    <2>7. \A h \in Handlers : req'[h].op = "memo" =>
            memos'[req'[h].memo].version = req'[h].version
      BY <1>1, <2>4, <2>6 DEF MemosInv
    <2>8. ASSUME NEW u \in Workers, run'[u].pc = "save_memo"
          PROVE  Taken(run[u].latest + 1)'
      <3>1. u # w /\ run'[u] = run[u]
        BY <1>1, <2>8
      <3>2. CASE run[u].latest \in LatestVersion
        <4>1. run[u].latest = l
          BY <2>1, <2>2, <3>2 DEF LatestVersion, n
        <4> QED
          BY <2>1, <2>4, <3>1, <4>1 DEF Taken
      <3>3. CASE Taken(run[u].latest + 1)
        <4>1. PICK m \in 1..n : memos[m].version = run[u].latest + 1
          BY <3>3 DEF Taken, n
        <4>2. m \in 1..(n + 1) /\ memos'[m].version = run'[u].latest + 1
          BY <2>1, <2>4, <3>1, <4>1
        <4> QED
          BY <2>4, <4>2 DEF Taken
      <3> QED
        BY <2>8, <3>1, <3>2, <3>3 DEF MemosInv
    <2> QED
      BY <2>5, <2>7, <2>8 DEF MemosInv
  <1> QED
    BY <1>2, <1>3

(* Every step but the reading of the latest version leads to another state of the *)
(* run, and no step touches another run.                                         *)
LEMMA RunOfStep ==
  ASSUME Inv, NEW w \in Workers, Work(w), ~ReadMemo(w)
  PROVE  run'[w].pc # "save_memo" /\ \A u \in Workers : u # w => run'[u] = run[u]
  <1>1. run \in [Workers -> Run]
    BY DEF Inv, TypeOK
  <1>2. CASE Regenerate(w) \/ Screen(w)
    BY <1>1, <1>2 DEF Regenerate, Screen, Begin, Away
  <1>3. CASE ReadClaims(w)
    BY <1>1, <1>3 DEF ReadClaims, Run
  <1>4. CASE SaveClaims(w)
    BY <1>1, <1>4 DEF SaveClaims, Run
  <1>5. CASE ScoreAxes(w)
    <2>1. PICK x \in [Axes -> Axis] : run' = [run EXCEPT ![w] = Scored(w, x)]
      BY <1>5, AxesAreScored
    <2> QED
      BY <1>1, <2>1 DEF Scored, Run
  <1>6. CASE SaveAxes(w)
    BY <1>1, <1>6, IdleAway DEF SaveAxes, Ends, Run
  <1>7. CASE Advise(w)
    <2>1. PICK a \in Advices : run' = [run EXCEPT ![w] = [run[w] EXCEPT
                                         !.pc = "memo", !.score = None, !.latest = 0, !.advice = a]]
      BY <1>7, Advised
    <2> QED
      BY <1>1, <2>1 DEF Run
  <1>8. CASE SaveMemo(w) \/ Leave(w)
    BY <1>1, <1>8, IdleAway DEF SaveMemo, Leave, Ends
  <1> QED
    BY <1>2, <1>3, <1>4, <1>5, <1>6, <1>7, <1>8 DEF Work

LEMMA MemosStep == Inv /\ MemosInv /\ [Next]_vars => MemosInv'
  <1> SUFFICES ASSUME Inv, MemosInv, [Next]_vars PROVE MemosInv'
    OBVIOUS
  <1>1. CASE UNCHANGED vars
    BY <1>1, MemosKept DEF vars
  <1>2. CASE CreateThesis \/ Apply \/ Enter
    BY <1>2, MemosKept DEF CreateThesis, Apply, Enter, Noted
  <1>3. ASSUME NEW h \in Handlers, Http(h) PROVE MemosInv'
    <2>1. CASE CreateDefault(h) \/ SetDefault(h)
      <3>1. /\ memos' = memos /\ run' = run /\ overlaps \subseteq overlaps'
            /\ req'[h].op # "memo" /\ \A g \in Handlers : g # h => req'[g] = req[g]
        BY <2>1 DEF CreateDefault, SetDefault, Noted, Idle, Inv, TypeOK
      <3> QED
        BY <3>1, MemosKept
    <2>2. CASE UpdateThesis(h) \/ DeleteThesis(h)
      <3>1. \A t, obj : Write(h, t, obj) =>
              /\ memos' = memos /\ run' = run /\ overlaps' = overlaps
              /\ req'[h].op # "memo" /\ \A g \in Handlers : g # h => req'[g] = req[g]
        BY DEF Write, Idle, Inv, TypeOK
      <3> QED
        BY <2>2, <3>1, MemosKept DEF UpdateThesis, DeleteThesis
    <2>3. CASE CommitCreate(h) \/ CommitDefault(h) \/ CommitThesis(h)
      <3>1. /\ memos' = memos /\ run' = run /\ overlaps' = overlaps
            /\ req' = [req EXCEPT ![h] = Idle]
        BY <2>3 DEF CommitCreate, CommitDefault, CommitThesis
      <3>2. req'[h].op = "idle" /\ \A g \in Handlers : g # h => req'[g] = req[g]
        BY <3>1, RequestTaken, IdleAway
      <3> QED
        BY <3>1, <3>2, MemosKept
    <2> QED
      BY <1>3, <2>1, <2>2, <2>3, MemosPatchMemo, MemosCommitMemoPatch DEF Http
  <1>4. ASSUME NEW w \in Workers, Work(w) PROVE MemosInv'
    <2>1. CASE ReadMemo(w) \/ SaveMemo(w)
      BY <2>1, MemosReadMemo, MemosSaveMemo
    <2>2. CASE ~ReadMemo(w) /\ ~SaveMemo(w)
      <3>1. memos' = memos /\ req' = req /\ overlaps \subseteq overlaps'
        BY <1>4, <2>2 DEF Work, Regenerate, Screen, Begin, Noted, ReadClaims, SaveClaims,
                          ScoreAxes, SaveAxes, Advise, Leave
      <3>2. run'[w].pc # "save_memo" /\ \A u \in Workers : u # w => run'[u] = run[u]
        BY <1>4, <2>2, RunOfStep
      <3> QED
        BY <3>1, <3>2, MemosKept
    <2> QED
      BY <2>1, <2>2
  <1> QED
    BY <1>1, <1>2, <1>3, <1>4 DEF Next

(* The memo shown as the latest is the one that process_job generated last, as    *)
(* long as no patch_memo is committed while another edit or the insertion of a   *)
(* memo is under way.                                                           *)
THEOREM LatestMemoIsNewest == Spec => []NewestMemoIsLatest
  <1>1. MemosInv => NewestMemoIsLatest
    BY DEF MemosInv, NewestMemoIsLatest, InOrder
  <1> QED
    BY <1>1, MemosInit, MemosStep, Invariance, PTL DEF Spec

--------------------------------------------------------------------------------
(* What recommendations and trends rest on *)

(* The axes market and idea_vs_market of x are no better than the claims make them. *)
Backed(x) ==
    /\ x["market"].score <= MarketAxis(claims).score
    /\ x["idea_vs_market"].score <= IdeaAxis(claims).score

FounderOnly(trend) == \A a \in Axes : trend[a] = "declining" => a = "founder"

Holds(r) ==
    /\ r.pc = "save_claims" => claims = NoClaims
    /\ r.pc \in {"axes", "save_axes", "advise", "memo", "save_memo"} => r.claims = claims
    /\ r.pc \in {"save_axes", "advise"} =>
         /\ r.score.axes["market"] = MarketAxis(claims)
         /\ r.score.axes["idea_vs_market"] = IdeaAxis(claims)
         /\ FounderOnly(r.score.trend)
    /\ r.pc \in {"memo", "save_memo"} /\ r.advice.decision = "invest" => Traction(claims) >= 5

Alone == \A v, w \in Workers : run[v].pc # "idle" /\ run[w].pc # "idle" => v = w

ScoresBacked ==
    \A v \in 1..Len(scores) : Backed(scores[v].axes) /\ FounderOnly(scores[v].trend)

InvestsBacked ==
    \A m \in 1..Len(memos) : memos[m].advice.decision = "invest" =>
        Traction(claims) >= 5 /\ "traction_kpis" \notin memos[m].gaps

(* As long as runs do not overlap, the claims of the opportunity are those of one *)
(* deck, and a run holds exactly them.                                           *)
RunsInv ==
    "runs" \notin overlaps =>
        /\ Alone
        /\ claims \in Decks \cup {NoClaims}
        /\ \A w \in Workers : Holds(run[w])
        /\ ScoresBacked
        /\ InvestsBacked

LEMMA RunsInit == Init => RunsInv
  <1> SUFFICES ASSUME Init PROVE RunsInv
    OBVIOUS
  <1>1. Len(scores) = 0 /\ Len(memos) = 0 /\ claims = NoClaims
    BY DEF Init
  <1>2. \A w \in Workers : run[w].pc = "idle"
    BY IdleAway DEF Init
  <1> QED
    BY <1>1, <1>2 DEF RunsInv, Alone, Holds, ScoresBacked, InvestsBacked

(* Steps that add no claims and touch one run *)
LEMMA RunsKept ==
  ASSUME RunsInv, "runs" \notin overlaps', overlaps \subseteq overlaps', claims' = claims,
         ScoresBacked', InvestsBacked',
         \A w \in Workers : \/ run'[w] = run[w] \/ run'[w].pc = "idle"
                            \/ /\ Holds(run'[w])
                               /\ \A v \in Workers : v # w => run'[v].pc = "idle"
  PROVE  RunsInv'
  <1>1. Alone /\ claims \in Decks \cup {NoClaims} /\ \A w \in Workers : Holds(run[w])
    BY DEF RunsInv
  <1>2. ASSUME NEW w \in Workers PROVE Holds(run[w])'
    BY <1>1 DEF Holds
  <1>3. Alone'
    <2> SUFFICES ASSUME NEW v \in Workers, NEW w \in Workers,
                        run'[v].pc # "idle", run'[w].pc # "idle", v # w
                 PROVE  FALSE
      BY DEF Alone
    <2>1. run'[v] = run[v] /\ run'[w] = run[w]
      OBVIOUS
    <2> QED
      BY <1>1, <2>1 DEF Alone
  <1> QED
    BY <1>1, <1>2, <1>3 DEF RunsInv

LEMMA BackedKept ==
  ASSUME RunsInv, "runs" \notin overlaps, claims' = claims
  PROVE  /\ scores' = scores => ScoresBacked'
         /\ memos' = memos => InvestsBacked'
  BY DEF RunsInv, ScoresBacked, InvestsBacked, Backed, FounderOnly

(* One step of run w, which is then alone, to the state r *)
LEMMA RunsStepOf ==
  ASSUME Inv, RunsInv, "runs" \notin overlaps, overlaps' = overlaps, NEW w \in Workers,
         run[w].pc # "idle", NEW r, run' = [run EXCEPT ![w] = r], r.pc = "idle" \/ Holds(r),
         claims' = claims, scores' = scores \/ ScoresBacked', memos' = memos \/ InvestsBacked'
  PROVE  RunsInv'
  <1>1. run'[w] = r /\ \A v \in Workers : v # w => run'[v] = run[v]
    BY DEF Inv, TypeOK
  <1>2. \A v \in Workers : v # w => run'[v].pc = "idle"
    BY <1>1 DEF RunsInv, Alone
  <1> QED
    BY <1>1, <1>2, BackedKept, RunsKept

LEMMA RunsBegin ==
  ASSUME Inv, RunsInv, NEW w \in Workers, NEW deck, Begin(w, deck), "runs" \notin overlaps'
  PROVE  RunsInv'
  <1>1. /\ "runs" \notin overlaps /\ overlaps \subseteq overlaps'
        /\ \A v \in Workers \ {w} : run[v].pc = "idle"
        /\ claims' = claims /\ scores' = scores /\ memos' = memos
    BY DEF Begin, Noted
  <1>2. run'[w].pc = "claims" /\ \A v \in Workers : v # w => run'[v] = run[v]
    BY DEF Begin, Inv, TypeOK, Away
  <1>3. Holds(run'[w])
    BY <1>2 DEF Holds
  <1> QED
    BY <1>1, <1>2, <1>3, BackedKept, RunsKept

LEMMA RunsReadClaims ==
  ASSUME Inv, RunsInv, NEW w \in Workers, ReadClaims(w), "runs" \notin overlaps'
  PROVE  RunsInv'
  <1> DEFINE r == [run[w] EXCEPT !.pc = IF run[w].deck # None /\ claims = NoClaims
                                          THEN "save_claims" ELSE "axes",
                                 !.deck = IF claims = NoClaims THEN @ ELSE None,
                                 !.claims = claims]
  <1>1. run[w] \in Run
    BY SameRest
  <1>2. /\ r.pc \in {"save_claims", "axes"} /\ r.claims = claims
        /\ r.pc = "save_claims" => claims = NoClaims
    BY <1>1 DEF Run
  <1>3. run' = [run EXCEPT ![w] = r] /\ run[w].pc = "claims" /\ overlaps' = overlaps
        /\ claims' = claims /\ scores' = scores /\ memos' = memos
    BY DEF ReadClaims
  <1> HIDE DEF r
  <1>4. Holds(r)
    BY <1>2 DEF Holds
  <1> QED
    BY <1>3, <1>4, RunsStepOf

(* The first claims of an opportunity: nothing was scored above what no claims    *)
(* give, and nothing was recommended on them.                                    *)
LEMMA RunsSaveClaims ==
  ASSUME Inv, RunsInv, NEW w \in Workers, SaveClaims(w), "runs" \notin overlaps'
  PROVE  RunsInv'
  <1> DEFINE d == run[w].deck
             r == [run[w] EXCEPT !.pc = "axes", !.deck = None, !.claims = d]
  <1>1. /\ run[w] \in Run /\ run[w].pc = "save_claims" /\ d \in Decks /\ d \in Claims
        /\ overlaps' = overlaps /\ run' = [run EXCEPT ![w] = r]
        /\ scores' = scores /\ memos' = memos
    BY SameRest, ScreeningAssumption DEF SaveClaims, ValidRun
  <1>2. Alone /\ claims = NoClaims /\ ScoresBacked /\ InvestsBacked
    BY <1>1 DEF RunsInv, Holds
  <1>3. claims' = d
    <2>1. claims' = [revenue |-> 0 + d.revenue, traction |-> 0 + d.traction,
                     market |-> 0 + d.market, product |-> 0 + d.product]
      BY <1>2 DEF SaveClaims, Plus, NoClaims
    <2>2. /\ d = [revenue |-> d.revenue, traction |-> d.traction, market |-> d.market,
                  product |-> d.product]
          /\ d.revenue \in Nat /\ d.traction \in Nat /\ d.market \in Nat /\ d.product \in Nat
      BY <1>1 DEF Claims
    <2>3. 0 + d.revenue = d.revenue /\ 0 + d.traction = d.traction
          /\ 0 + d.market = d.market /\ 0 + d.product = d.product
      BY <2>2
    <2> QED
      BY <2>1, <2>2, <2>3
  <1>4. r.pc = "axes" /\ r.claims = d
    BY <1>1 DEF Run
  <1> HIDE DEF d, r
  <1>5. run'[w] = r /\ \A v \in Workers : v # w => run'[v] = run[v] /\ run[v].pc = "idle"
    BY <1>1, <1>2 DEF Inv, TypeOK, Alone
  <1>6. Alone' /\ \A v \in Workers : Holds(run[v])'
    BY <1>3, <1>4, <1>5 DEF Alone, Holds
  <1>7. ScoresBacked'
    <2> SUFFICES ASSUME NEW v \in 1..Len(scores)
                 PROVE  /\ scores[v].axes["market"].score <= MarketAxis(d).score
                        /\ scores[v].axes["idea_vs_market"].score <= IdeaAxis(d).score
                        /\ FounderOnly(scores[v].trend)
      BY <1>1, <1>3 DEF ScoresBacked, Backed, FounderOnly
    <2>1. /\ scores[v].axes["market"].score <= 480
          /\ scores[v].axes["idea_vs_market"].score <= 500
          /\ FounderOnly(scores[v].trend)
      BY <1>2, AxesOfNoClaims DEF ScoresBacked, Backed
    <2>2. /\ MarketAxis(d).score \in Nat /\ MarketAxis(d).score >= 480
          /\ IdeaAxis(d).score \in Nat /\ IdeaAxis(d).score >= 500
      BY <1>1, AxesOfClaims DEF Axis
    <2>3. scores[v] \in Score
      BY SameRest
    <2>4. /\ scores[v].axes["market"].score \in Nat
          /\ scores[v].axes["idea_vs_market"].score \in Nat
      BY <2>3 DEF Score, Axes, Axis
    <2>5. scores[v].axes["market"].score <= MarketAxis(d).score
      BY <2>1, <2>2, <2>4
    <2>6. scores[v].axes["idea_vs_market"].score <= IdeaAxis(d).score
      BY <2>1, <2>2, <2>4
    <2> QED
      BY <2>1, <2>5, <2>6
  <1>8. InvestsBacked'
    <2>1. ~(Traction(NoClaims) >= 5)
      BY DEF Traction, NoClaims
    <2> QED
      BY <1>1, <1>2, <2>1 DEF InvestsBacked
  <1> QED
    BY <1>1, <1>3, <1>6, <1>7, <1>8 DEF RunsInv

(* A score that is no lower than the previous one is not declining. *)
LEMMA NotDeclining ==
  ASSUME NEW s \in Nat, NEW p \in Nat, p <= s
  PROVE  Trend(s, p) # "declining"
  BY DEF Trend

LEMMA OnlyFounder ==
  ASSUME Inv, ScoresBacked, NEW x \in [Axes -> Axis],
         x["market"] = MarketAxis(claims), x["idea_vs_market"] = IdeaAxis(claims)
  PROVE  FounderOnly(Trended(x))
  <1> SUFFICES ASSUME NEW a \in Axes, a # "founder" PROVE Trended(x)[a] # "declining"
    BY DEF FounderOnly
  <1>1. CASE scores = <<>>
    BY <1>1 DEF Trended
  <1>2. CASE scores # <<>>
    <2> DEFINE last == scores[Len(scores)]
    <2>1. Len(scores) \in 1..Len(scores) /\ last \in Score
      BY <1>2, SameRest
    <2>2. last.axes[a].score \in Nat /\ x[a].score \in Nat
      BY <2>1 DEF Score, Axis
    <2>3. Backed(last.axes)
      BY <2>1 DEF ScoresBacked
    <2>4. last.axes[a].score <= x[a].score
      BY <2>3 DEF Backed, Axes
    <2>5. Trended(x)[a] = Trend(x[a].score, last.axes[a].score)
      BY <1>2 DEF Trended
    <2> QED
      BY <2>2, <2>4, <2>5, NotDeclining
  <1> QED
    BY <1>1, <1>2

LEMMA RunsScoreAxes ==
  ASSUME Inv, RunsInv, NEW w \in Workers, ScoreAxes(w), "runs" \notin overlaps'
  PROVE  RunsInv'
  <1>1. /\ run[w].pc = "axes" /\ overlaps' = overlaps /\ claims' = claims
        /\ scores' = scores /\ memos' = memos
    BY DEF ScoreAxes
  <1>2. run[w].claims = claims /\ ScoresBacked
    BY <1>1 DEF RunsInv, Holds
  <1>3. PICK x \in [Axes -> Axis] :
           /\ x["market"] = MarketAxis(run[w].claims)
           /\ x["idea_vs_market"] = IdeaAxis(run[w].claims)
           /\ run' = [run EXCEPT ![w] = Scored(w, x)]
    BY AxesAreScored
  <1> DEFINE r == Scored(w, x)
  <1>4. /\ r.pc = "save_axes" /\ r.claims = run[w].claims
        /\ r.score = [axes |-> x, trend |-> Trended(x)]
    BY SameRest DEF Scored, Run
  <1>5. FounderOnly(Trended(x))
    BY <1>2, <1>3, OnlyFounder
  <1> HIDE DEF r
  <1>6. Holds(r)
    BY <1>2, <1>3, <1>4, <1>5 DEF Holds
  <1> QED
    BY <1>1, <1>3, <1>6, RunsStepOf DEF r

LEMMA RunsSaveAxes ==
  ASSUME Inv, RunsInv, NEW w \in Workers, SaveAxes(w), "runs" \notin overlaps'
  PROVE  RunsInv'
  <1>1. /\ run[w].pc = "save_axes" /\ overlaps' = overlaps /\ claims' = claims
        /\ memos' = memos /\ run[w] \in Run /\ ValidRun(run[w])
    BY SameRest DEF SaveAxes
  <1>2. Holds(run[w]) /\ ScoresBacked
    BY <1>1 DEF RunsInv
  <1>3. CASE run' = [run EXCEPT ![w].pc = "advise"] /\ scores' = Append(scores, run[w].score)
    <2> DEFINE s == run[w].score
               n == Len(scores)
               r == [run[w] EXCEPT !.pc = "advise"]
    <2>1. s \in Score /\ scores \in Seq(Score) /\ n \in Nat
      BY <1>1, SameRest DEF ValidRun
    <2>2. /\ Len(scores') = n + 1 /\ \A v \in 1..n : scores'[v] = scores[v]
          /\ scores'[n + 1] = s
      BY <1>3, <2>1
    <2>3. Backed(s.axes) /\ FounderOnly(s.trend)
      <3>1. s.axes["market"] = MarketAxis(claims) /\ s.axes["idea_vs_market"] = IdeaAxis(claims)
            /\ FounderOnly(s.trend)
        BY <1>1, <1>2 DEF Holds
      <3>2. MarketAxis(claims).score \in Nat /\ IdeaAxis(claims).score \in Nat
        BY SameRest, AxesOfClaims DEF Axis
      <3> QED
        BY <3>1, <3>2 DEF Backed
    <2>4. r.pc = "advise" /\ r.claims = run[w].claims /\ r.score = s
      BY <1>1 DEF Run
    <2>5. run' = [run EXCEPT ![w] = r]
      BY <1>3
    <2> HIDE DEF s, n, r
    <2>6. \A v \in 1..(n + 1) : Backed(scores'[v].axes) /\ FounderOnly(scores'[v].trend)
      BY <1>2, <2>1, <2>2, <2>3 DEF ScoresBacked, n
    <2>7. ScoresBacked'
      BY <1>1, <2>2, <2>6 DEF ScoresBacked, Backed, FounderOnly
    <2>8. Holds(r)
      BY <1>1, <1>2, <2>4 DEF Holds, s
    <2> QED
      BY <1>1, <2>5, <2>7, <2>8, RunsStepOf
  <1>4. CASE run' = [run EXCEPT ![w] = Away] /\ scores' = scores
    BY <1>1, <1>4, IdleAway, RunsStepOf
  <1> QED
    BY <1>3, <1>4 DEF SaveAxes, Ends

(* With one claim about the product at most, an idea_vs_market axis of 70 takes    *)
(* five claims of traction or revenue.                                           *)
LEMMA BarTakesTraction ==
  ASSUME NEW c \in Claims, c.product <= 1, IdeaAxis(c).score >= 700
  PROVE  Traction(c) >= 5
  <1>1. c.product \in Nat /\ c.traction \in Nat /\ c.revenue \in Nat
    BY DEF Claims
  <1>2. PICK p \in Nat, t \in Nat : p = c.product /\ t = c.traction + c.revenue
    BY <1>1
  <1>3. LesserOf(800, 500 + p * 60 + t * 30) >= 700
    BY <1>2 DEF IdeaAxis, Traction
  <1>4. p <= 1 /\ 500 + p * 60 + t * 30 >= 700
    BY <1>2, <1>3 DEF LesserOf
  <1>5. t >= 5
    BY <1>4
  <1> QED
    BY <1>2, <1>5 DEF Traction

LEMMA RunsAdvise ==
  ASSUME Inv, RunsInv, NEW w \in Workers, Advise(w), "runs" \notin overlaps'
  PROVE  RunsInv'
  <1>1. /\ run[w].pc = "advise" /\ overlaps' = overlaps /\ claims' = claims
        /\ scores' = scores /\ memos' = memos /\ run[w] \in Run
    BY SameRest DEF Advise
  <1>2. PICK a \in Advices :
           /\ a.decision = "invest" => ClearsBar(run[w].score.axes, ThesisFit.score)
           /\ run' = [run EXCEPT ![w] = [run[w] EXCEPT !.pc = "memo", !.score = None,
                                                       !.latest = 0, !.advice = a]]
    BY Advised
  <1> DEFINE r == [run[w] EXCEPT !.pc = "memo", !.score = None, !.latest = 0, !.advice = a]
  <1>3. r.pc = "memo" /\ r.claims = run[w].claims /\ r.advice = a
    BY <1>1 DEF Run
  <1>4. Holds(run[w]) /\ claims \in Claims /\ claims.product <= 1
    <2>1. claims \in Decks \cup {NoClaims} /\ Holds(run[w])
      BY <1>1 DEF RunsInv
    <2>2. NoClaims.product = 0
      BY DEF NoClaims
    <2>3. \A d \in Decks : d.product \in 0..1
      BY ScreeningAssumption
    <2> QED
      BY <2>1, <2>2, <2>3, SameRest
  <1>5. a.decision = "invest" => IdeaAxis(claims).score >= 700
    BY <1>1, <1>2, <1>4 DEF ClearsBar, Axes, Holds
  <1>6. a.decision = "invest" => Traction(claims) >= 5
    BY <1>4, <1>5, BarTakesTraction
  <1>7. run' = [run EXCEPT ![w] = r]
    BY <1>2
  <1> HIDE DEF r
  <1>8. Holds(r)
    BY <1>1, <1>3, <1>4, <1>6 DEF Holds
  <1> QED
    BY <1>1, <1>7, <1>8, RunsStepOf

LEMMA RunsReadMemo ==
  ASSUME Inv, RunsInv, NEW w \in Workers, ReadMemo(w), "runs" \notin overlaps'
  PROVE  RunsInv'
  <1>1. /\ run[w].pc = "memo" /\ overlaps' = overlaps /\ claims' = claims
        /\ scores' = scores /\ memos' = memos /\ run[w] \in Run
    BY SameRest DEF ReadMemo
  <1>2. PICK v \in LatestVersion : run' = [run EXCEPT ![w].pc = "save_memo", ![w].latest = v]
    BY DEF ReadMemo
  <1> DEFINE r == [run[w] EXCEPT !.pc = "save_memo", !.latest = v]
  <1>3. r.pc = "save_memo" /\ r.claims = run[w].claims /\ r.advice = run[w].advice
    BY <1>1 DEF Run
  <1>4. run' = [run EXCEPT ![w] = r]
    BY <1>2
  <1> HIDE DEF r
  <1>5. Holds(r)
    BY <1>1, <1>3 DEF Holds, RunsInv
  <1> QED
    BY <1>1, <1>4, <1>5, RunsStepOf

LEMMA RunsSaveMemo ==
  ASSUME Inv, RunsInv, NEW w \in Workers, SaveMemo(w), "runs" \notin overlaps'
  PROVE  RunsInv'
  <1>1. /\ run[w].pc = "save_memo" /\ overlaps' = overlaps /\ claims' = claims
        /\ scores' = scores /\ run' = [run EXCEPT ![w] = Away] /\ claims \in Claims
    BY SameRest DEF SaveMemo, Ends
  <1>2. CASE memos' = memos
    BY <1>1, <1>2, IdleAway, RunsStepOf
  <1>3. CASE memos' = Append(memos, NewMemo(w))
    <2>1. Holds(run[w]) /\ InvestsBacked
      BY <1>1 DEF RunsInv
    <2>2. /\ Len(memos) \in Nat /\ Len(memos') = Len(memos) + 1
          /\ \A m \in 1..Len(memos) : memos'[m] = memos[m]
          /\ memos'[Len(memos) + 1] = NewMemo(w)
      BY <1>1, <1>3, MemoAdded, SameRest
    <2>3. /\ NewMemo(w).advice.decision = "invest" => Traction(claims) >= 5
          /\ NewMemo(w).gaps = Gaps(claims)
      BY <1>1, <2>1 DEF NewMemo, Holds
    <2>4. Traction(claims) >= 5 => "traction_kpis" \notin Gaps(claims)
      <3>1. RequiredSections["traction_kpis"] = {"traction", "revenue"}
        BY DEF RequiredSections
      <3>2. "traction_kpis" \in Gaps(claims) =>
              claims["traction"] = 0 /\ claims["revenue"] = 0
        BY <3>1 DEF Gaps
      <3> QED
        BY <3>2 DEF Traction
    <2>5. ASSUME NEW m \in 1..Len(memos'), memos'[m].advice.decision = "invest"
          PROVE  Traction(claims) >= 5 /\ "traction_kpis" \notin memos'[m].gaps
      <3>1. CASE m \in 1..Len(memos)
        BY <2>1, <2>2, <2>5, <3>1 DEF InvestsBacked
      <3>2. CASE m = Len(memos) + 1
        BY <2>2, <2>3, <2>4, <2>5, <3>2
      <3> QED
        BY <2>2, <3>1, <3>2
    <2>6. InvestsBacked'
      BY <1>1, <2>5 DEF InvestsBacked
    <2> QED
      BY <1>1, <2>6, IdleAway, RunsStepOf
  <1> QED
    BY <1>2, <1>3 DEF SaveMemo, NewMemo

LEMMA RunsHttp ==
  ASSUME Inv, RunsInv, NEW h \in Handlers, Http(h), "runs" \notin overlaps'
  PROVE  RunsInv'
  <1>1. /\ claims' = claims /\ scores' = scores /\ run' = run /\ overlaps \subseteq overlaps'
    BY DEF Http, CreateDefault, SetDefault, CommitCreate, CommitDefault, UpdateThesis,
           DeleteThesis, Write, CommitThesis, PatchMemo, CommitMemoPatch, Noted
  <1>2. "runs" \notin overlaps
    BY <1>1
  <1>3. InvestsBacked'
    <2>1. CASE CommitMemoPatch(h)
      <3>1. /\ Len(memos') = Len(memos)
            /\ \A m \in 1..Len(memos) : /\ memos'[m].advice = memos[m].advice
                                        /\ memos'[m].gaps = memos[m].gaps
        BY <2>1, MemoEdited DEF Edited
      <3> QED
        BY <1>1, <1>2, <3>1 DEF RunsInv, InvestsBacked
    <2>2. CASE ~CommitMemoPatch(h)
      <3>1. memos' = memos
        BY <2>2 DEF Http, CreateDefault, SetDefault, CommitCreate, CommitDefault, UpdateThesis,
                    DeleteThesis, Write, CommitThesis, PatchMemo
      <3> QED
        BY <1>1, <1>2, <3>1, BackedKept
    <2> QED
      BY <2>1, <2>2
  <1> QED
    BY <1>1, <1>2, <1>3, BackedKept, RunsKept

LEMMA RunsStep == Inv /\ RunsInv /\ [Next]_vars => RunsInv'
  <1> SUFFICES ASSUME Inv, RunsInv, [Next]_vars, "runs" \notin overlaps' PROVE RunsInv'
    BY DEF RunsInv
  <1>1. CASE CreateThesis \/ Apply \/ Enter \/ UNCHANGED vars
    <2>1. /\ claims' = claims /\ scores' = scores /\ memos' = memos /\ run' = run
          /\ overlaps \subseteq overlaps'
      BY <1>1 DEF CreateThesis, Apply, Enter, vars, Noted
    <2>2. "runs" \notin overlaps
      BY <2>1
    <2> QED
      BY <2>1, <2>2, BackedKept, RunsKept
  <1>2. ASSUME NEW h \in Handlers, Http(h) PROVE RunsInv'
    BY <1>2, RunsHttp
  <1>3. ASSUME NEW w \in Workers, Work(w) PROVE RunsInv'
    <2>1. CASE Regenerate(w) \/ Screen(w)
      BY <2>1, RunsBegin DEF Regenerate, Screen
    <2>2. CASE Leave(w)
      BY <2>2, IdleAway, RunsStepOf DEF Leave, Ends
    <2> QED
      BY <1>3, <2>1, <2>2, RunsReadClaims, RunsSaveClaims, RunsScoreAxes, RunsSaveAxes,
         RunsAdvise, RunsReadMemo, RunsSaveMemo DEF Work
  <1> QED
    BY <1>1, <1>2, <1>3 DEF Next

(* A pass is recommended by recommend() only because compute_thesis_fit closed a  *)
(* gate; as long as runs of process_job do not overlap, an investment is          *)
(* recommended only on five or more claims of traction or revenue, which the      *)
(* memo discloses.                                                              *)
THEOREM AdviceRestsOnEvidence == Spec => []AdviceIsEarned
  <1>1. Inv /\ RunsInv => AdviceIsEarned
    BY DEF Inv, MemosGated, Gated, RunsInv, InvestsBacked, AdviceIsEarned
  <1> QED
    BY <1>1, RunsInit, RunsStep, Invariance, PTL DEF Spec

(* As long as runs of process_job do not overlap, _score_axes reports only the    *)
(* founder axis as declining, whatever runs die in between.                      *)
THEOREM DeclineIsTheFounders == Spec => []OnlyFounderDeclines
  <1>1. RunsInv => OnlyFounderDeclines
    BY DEF RunsInv, ScoresBacked, FounderOnly, OnlyFounderDeclines
  <1> QED
    BY <1>1, RunsInit, RunsStep, Invariance, PTL DEF Spec

================================================================================
