------------------------------- MODULE Screening -------------------------------
(***************************************************************************)
(* An organisation's theses, one opportunity screened against them and its *)
(* memos: the handlers of app/routers/theses.py, the edit of a memo and    *)
(* the runs of process_job, with the rules of Scoring.  The order of a     *)
(* run's job row and steps is JobPipeline's, the opportunity row is        *)
(* Opportunity's and the founder scores are Founders'.                     *)
(*                                                                         *)
(* A company's profile does not change: no handler writes it.  Two runs    *)
(* that read one document, of which JobPipeline fails one on its pages,    *)
(* both go on here.                                                        *)
(***************************************************************************)
EXTENDS Scoring, Sequences

CONSTANTS
    Ids,             \* ids of theses
    Criteria,        \* what requests set: [sectors, anti_sectors, stages, geos, must_haves]
    Patches,         \* which of them a PATCH may name
    Companies,       \* profiles: [sectors, stage, country, text]
    Decks,           \* decks, each given by the claims it yields
    Levels,          \* founder scores: [score, confidence]
    Handlers,        \* HTTP requests that can be in progress together
    Workers,         \* runs of process_job that can be in progress together
    MaxRequests      \* bound on the requests and runs, one after another or together

\* The thesis an organisation is registered with.
Registered == [sectors |-> {}, anti_sectors |-> {}, stages |-> {"pre_seed", "seed"},
               geos |-> {"remote"}, must_haves |-> {}]

Policies == Criteria \cup {Registered}

VARIABLES
    theses,          \* id -> row of the theses table, None before it is created
    opp,             \* the opportunity: the company's profile and thesis_id, None before
    claims,          \* claims of the opportunity, by category
    scores,          \* opportunity_scores: version -> the three axes
    memos,           \* memos of the opportunity, in the order of their creation
    req,             \* handler -> its request and its session
    run,             \* worker -> its run of process_job and its session
    served,          \* how many requests and runs were begun
    overlaps         \* what has overlapped so far (history)

vars == <<theses, opp, claims, scores, memos, req, run, served, overlaps>>

Thesis == [sectors : {c.sectors : c \in Policies}, anti_sectors : {c.anti_sectors : c \in Policies},
           stages : {c.stages : c \in Policies}, geos : {c.geos : c \in Policies},
           must_haves : {c.must_haves : c \in Policies},
           is_default : BOOLEAN, deleted : BOOLEAN]
Opportunities == [company : Companies, thesis : Ids \cup {None}]
Axis == [score : Nat, confidence : Nat]
Trends == {"insufficient_data", "stable", "improving", "declining"}
Score == [axes : [Axes -> Axis], trend : [Axes -> Trends]]
Advices == [decision : {"invest", "watchlist", "pass", "needs_human"},
            reason : GateReasons \cup {"contradiction", "weak_axis", "clears_the_bar",
                                       "disagreement", "thin_evidence", "credible"}]
Memo == [version : Nat, advice : Advices, gaps : SUBSET DOMAIN RequiredSections]

\* rows: the theses a bulk UPDATE has found; loaded and obj: a thesis as loaded
\* and as changed; memo and version: the memo of a PATCH and the version loaded.
Request == [op : {"idle", "create", "default", "write", "memo"},
            thesis : Ids \cup {None}, rows : SUBSET Ids,
            loaded : Thesis \cup {None}, obj : Thesis \cup {None}, memo : Nat, version : Nat]
Idle == [op |-> "idle", thesis |-> None, rows |-> {}, loaded |-> None, obj |-> None,
         memo |-> 0, version |-> 0]

\* claims: the list the run scores; latest: the version read last, of the axes
\* and then of the memos.  What a run does not use again is forgotten.
Run == [pc : {"idle", "claims", "save_claims", "axes", "save_axes", "advise", "memo", "save_memo"},
        deck : Decks \cup {None}, claims : Claims, score : Score \cup {None}, latest : Nat,
        advice : Advices \cup {None}]
Away == [pc |-> "idle", deck |-> None, claims |-> NoClaims, score |-> None, latest |-> 0,
         advice |-> None]

ASSUME ScreeningAssumption ==
    /\ \A c \in Criteria : IsFiniteSet(c.must_haves)
    /\ \A p \in Patches : p \subseteq DOMAIN Registered
    /\ \A d \in Decks : d \in Claims /\ d.product \in 0..1
    /\ \A l \in Levels : l.score \in Nat /\ l.score >= 300 /\ l.confidence \in Nat
    /\ None \notin Ids /\ None \notin Decks /\ None \notin Thesis /\ None \notin GateReasons
    /\ MaxRequests \in Nat

TypeOK ==
    /\ theses \in [Ids -> Thesis \cup {None}]
    /\ opp \in Opportunities \cup {None}
    /\ claims \in Claims
    /\ scores \in Seq(Score)
    /\ memos \in Seq(Memo)
    /\ req \in [Handlers -> Request]
    /\ run \in [Workers -> Run]
    /\ served \in 0..MaxRequests
    /\ overlaps \in SUBSET {"defaults", "memos", "runs"}

ThesisOf(c, default) ==
    [sectors |-> c.sectors, anti_sectors |-> c.anti_sectors, stages |-> c.stages,
     geos |-> c.geos, must_haves |-> c.must_haves,
     is_default |-> default, deleted |-> FALSE]

\* register_user
Init ==
    /\ \E i \in Ids :
         theses = [t \in Ids |-> IF t = i THEN ThesisOf(Registered, TRUE) ELSE None]
    /\ opp = None
    /\ claims = NoClaims
    /\ scores = <<>>
    /\ memos = <<>>
    /\ req = [h \in Handlers |-> Idle]
    /\ run = [w \in Workers |-> Away]
    /\ served = 0
    /\ overlaps = {}

--------------------------------------------------------------------------------
(* Theses *)

Created == {t \in Ids : theses[t] # None}

\* Requests that have cleared the default of the rows they found.
Defaulting == {h \in Handlers : req[h].op \in {"create", "default"}}
Creating == {h \in Handlers : req[h].op = "create"}

\* One more request or run
Serve == served < MaxRequests /\ served' = served + 1

Noted(what, happens) == overlaps' = overlaps \cup IF happens THEN {what} ELSE {}

\* ThesisCreate refuses a sector that is both included and excluded.
Accepted == {c \in Criteria : c.sectors \cap c.anti_sectors = {}}

\* create_thesis, not as the default
CreateThesis ==
    /\ Serve
    /\ \E t \in Ids \ Created, c \in Accepted :
         theses' = [theses EXCEPT ![t] = ThesisOf(c, FALSE)]
    /\ Noted("defaults", Defaulting # {})
    /\ UNCHANGED <<opp, claims, scores, memos, req, run>>

\* create_thesis, as the default: its UPDATE finds the theses there are.
CreateDefault(h) ==
    /\ Serve
    /\ req[h].op = "idle"
    /\ Created # Ids
    /\ \E c \in Accepted :
         req' = [req EXCEPT ![h] = [Idle EXCEPT !.op = "create", !.rows = Created,
                                                !.obj = ThesisOf(c, TRUE)]]
    /\ Noted("defaults", Defaulting # {})
    /\ UNCHANGED <<theses, opp, claims, scores, memos, run>>

\* The theses after the bulk UPDATE of request h
Cleared(h) ==
    [t \in Ids |-> IF t \in req[h].rows /\ theses[t] # None
                   THEN [theses[t] EXCEPT !.is_default = FALSE] ELSE theses[t]]

CommitCreate(h) ==
    /\ req[h].op = "create"
    /\ \E t \in Ids \ Created : theses' = [Cleared(h) EXCEPT ![t] = req[h].obj]
    /\ req' = [req EXCEPT ![h] = Idle]
    /\ UNCHANGED <<opp, claims, scores, memos, run, served, overlaps>>

\* set_default takes a deleted thesis too.
SetDefault(h) ==
    /\ Serve
    /\ req[h].op = "idle"
    /\ \E t \in Created :
         req' = [req EXCEPT ![h] = [Idle EXCEPT !.op = "default", !.thesis = t, !.rows = Created]]
    /\ Noted("defaults", Creating # {})
    /\ UNCHANGED <<theses, opp, claims, scores, memos, run>>

CommitDefault(h) ==
    /\ req[h].op = "default"
    /\ theses' = [Cleared(h) EXCEPT ![req[h].thesis].is_default = TRUE]
    /\ req' = [req EXCEPT ![h] = Idle]
    /\ UNCHANGED <<opp, claims, scores, memos, run, served, overlaps>>

\* Request h loads thesis t and changes it to obj.
Write(h, t, obj) ==
    /\ Serve
    /\ req[h].op = "idle"
    /\ req' = [req EXCEPT ![h] = [Idle EXCEPT !.op = "write", !.thesis = t,
                                              !.loaded = theses[t], !.obj = obj]]
    /\ UNCHANGED <<theses, opp, claims, scores, memos, run, overlaps>>

\* The criteria that the PATCH names take its values.
Patched(row, c, names) == [k \in DOMAIN row |-> IF k \in names THEN c[k] ELSE row[k]]

\* update_thesis, with If-Match naming the version loaded.  ThesisUpdate compares
\* no sectors.  A null it takes for a criterion reads as an empty list, or makes
\* later runs raise as they compute the fit: to this model they are runs that Leave.
UpdateThesis(h) ==
    \E t \in Created, c \in Criteria, names \in Patches :
        Write(h, t, Patched(theses[t], c, names))

DeleteThesis(h) ==
    \E t \in Created : Write(h, t, [theses[t] EXCEPT !.deleted = TRUE, !.is_default = FALSE])

\* Mutant: the whole row is written back.
FlushAll(row, loaded, obj) == obj

\* The UPDATE of a flush names the columns that differ from the row as loaded.
Flush(row, loaded, obj) ==
    [c \in DOMAIN row |-> IF obj[c] # loaded[c] THEN obj[c] ELSE row[c]]

CommitThesis(h) ==
    /\ req[h].op = "write"
    /\ theses' = [theses EXCEPT ![req[h].thesis] = Flush(@, req[h].loaded, req[h].obj)]
    /\ req' = [req EXCEPT ![h] = Idle]
    /\ UNCHANGED <<opp, claims, scores, memos, run, served, overlaps>>

--------------------------------------------------------------------------------
(* The opportunity *)

\* create_application, for a company without a live opportunity: one of the
\* defaults that are not deleted, if there is one.
Apply ==
    LET live == {t \in Created : theses[t].is_default /\ ~theses[t].deleted} IN
    /\ opp = None
    /\ \E c \in Companies, t \in IF live = {} THEN {None} ELSE live :
         opp' = [company |-> c, thesis |-> t]
    /\ UNCHANGED <<theses, claims, scores, memos, req, run, served, overlaps>>

\* create_manual_opportunity; thesis_id is not looked up.  The opportunity of a
\* signal has none.
Enter ==
    /\ opp = None
    /\ \E c \in Companies, t \in Created \cup {None} : opp' = [company |-> c, thesis |-> t]
    /\ UNCHANGED <<theses, claims, scores, memos, req, run, served, overlaps>>

\* patch_memo loads a memo; If-Match names the version loaded.
PatchMemo(h) ==
    /\ Serve
    /\ req[h].op = "idle"
    /\ \E m \in 1..Len(memos) :
         req' = [req EXCEPT ![h] = [Idle EXCEPT !.op = "memo", !.memo = m,
                                                !.version = memos[m].version]]
    /\ UNCHANGED <<theses, opp, claims, scores, memos, run, overlaps>>

\* uq(opportunity_id, version) of memos
Taken(version) == \E m \in 1..Len(memos) : memos[m].version = version

\* The edited row keeps its recommendation and gaps; a version that another memo
\* has is refused by the constraint.
CommitMemoPatch(h) ==
    /\ req[h].op = "memo"
    /\ memos' = IF Taken(req[h].version + 1) /\ memos[req[h].memo].version # req[h].version + 1
                  THEN memos
                  ELSE [memos EXCEPT ![req[h].memo].version = req[h].version + 1]
    /\ Noted("memos", \/ \E g \in Handlers \ {h} : req[g].op = "memo"
                      \/ \E w \in Workers : run[w].pc = "save_memo")
    /\ req' = [req EXCEPT ![h] = Idle]
    /\ UNCHANGED <<theses, opp, claims, scores, run, served>>

--------------------------------------------------------------------------------
(* process_job, from the claims to the memo *)

\* A run begins, with the deck of its job or none.
Begin(w, deck) ==
    /\ run[w].pc = "idle"
    /\ opp # None
    /\ Serve
    /\ run' = [run EXCEPT ![w] = [Away EXCEPT !.pc = "claims", !.deck = deck]]
    /\ Noted("runs", \E v \in Workers \ {w} : run[v].pc # "idle")
    /\ UNCHANGED <<theses, opp, claims, scores, memos, req>>

\* regenerate_section: the job is a run like any other, whatever section it names,
\* and has no document.
Regenerate(w) == memos # <<>> /\ Begin(w, None)

\* The jobs of screen requests and applications
Screen(w) == \E d \in Decks \cup {None} : Begin(w, d)

\* Mutant: a run without a document goes on with an empty list.
ReadClaimsOfDeckOnly(w) ==
    /\ run[w].pc = "claims"
    /\ run' = [run EXCEPT ![w].pc = IF run[w].deck # None /\ claims = NoClaims
                                      THEN "save_claims" ELSE "axes",
                          ![w].deck = IF claims = NoClaims THEN @ ELSE None,
                          ![w].claims = IF run[w].deck = None THEN NoClaims ELSE claims]
    /\ UNCHANGED <<theses, opp, claims, scores, memos, req, served, overlaps>>

\* A deck is read only if the opportunity has no claims.
ReadClaims(w) ==
    /\ run[w].pc = "claims"
    /\ run' = [run EXCEPT ![w].pc = IF run[w].deck # None /\ claims = NoClaims
                                      THEN "save_claims" ELSE "axes",
                          ![w].deck = IF claims = NoClaims THEN @ ELSE None,
                          ![w].claims = claims]
    /\ UNCHANGED <<theses, opp, claims, scores, memos, req, served, overlaps>>

Plus(stored, found) == [k \in DOMAIN stored |-> stored[k] + found[k]]

\* The claims of the deck are added, and are the ones the run goes on with.
SaveClaims(w) ==
    /\ run[w].pc = "save_claims"
    /\ claims' = Plus(claims, run[w].deck)
    /\ run' = [run EXCEPT ![w].pc = "axes", ![w].deck = None, ![w].claims = run[w].deck]
    /\ UNCHANGED <<theses, opp, scores, memos, req, served, overlaps>>

\* The trend of each axis against its latest row
Trended(axes) ==
    [a \in Axes |-> IF scores = <<>> THEN "insufficient_data"
                    ELSE Trend(axes[a].score, scores[Len(scores)].axes[a].score)]

\* Founder scores change from run to run, as recompute_founder_score, signals and
\* merges have it.
ScoreAxes(w) ==
    /\ run[w].pc = "axes"
    /\ \E founders \in SUBSET Levels : \E x \in ScoredAxes(founders, run[w].claims) :
         run' = [run EXCEPT ![w].pc = "save_axes", ![w].latest = Len(scores),
                            ![w].score = [axes |-> x, trend |-> Trended(x)]]
    /\ UNCHANGED <<theses, opp, claims, scores, memos, req, served, overlaps>>

\* The run ends: it failed on a constraint or an error, or died.
Ends(w) == run' = [run EXCEPT ![w] = Away]

\* uq(opportunity_id, axis, version) lets one run add a version.
SaveAxes(w) ==
    /\ run[w].pc = "save_axes"
    /\ \/ /\ Len(scores) = run[w].latest
          /\ scores' = Append(scores, run[w].score)
          /\ run' = [run EXCEPT ![w].pc = "advise"]
       \/ /\ Len(scores) # run[w].latest
          /\ Ends(w)
          /\ UNCHANGED scores
    /\ UNCHANGED <<theses, opp, claims, memos, req, served, overlaps>>

\* _thesis_fit: a deleted thesis is applied like any other, no thesis gives 70.
ThesisFit ==
    IF opp.thesis = None THEN [score |-> 7000, gate |-> None]
    ELSE [score |-> Fit(theses[opp.thesis], opp.company),
          gate  |-> Gate(theses[opp.thesis], opp.company)]

\* compute_trust is never told of a contradiction.
Advise(w) ==
    LET axes == run[w].score.axes IN
    /\ run[w].pc = "advise"
    /\ run' = [run EXCEPT ![w].pc = "memo", ![w].score = None, ![w].latest = 0,
                 ![w].advice = Recommend(axes, ThesisFit.score, FALSE,
                                         axes["founder"].confidence < 400, ThesisFit.gate)]
    /\ UNCHANGED <<theses, opp, claims, scores, memos, req, served, overlaps>>

\* Mutant: memos are counted instead.
CountedVersion == {Len(memos)}

\* max(Memo.version), 0 without memos
LatestVersion ==
    {v \in {0} \cup {memos[m].version : m \in 1..Len(memos)} :
        \A m \in 1..Len(memos) : memos[m].version <= v}

ReadMemo(w) ==
    /\ run[w].pc = "memo"
    /\ \E v \in LatestVersion : run' = [run EXCEPT ![w].pc = "save_memo", ![w].latest = v]
    /\ UNCHANGED <<theses, opp, claims, scores, memos, req, served, overlaps>>

SaveMemo(w) ==
    /\ run[w].pc = "save_memo"
    /\ memos' = IF Taken(run[w].latest + 1) THEN memos
                ELSE Append(memos, [version |-> run[w].latest + 1, advice |-> run[w].advice,
                                    gaps |-> Gaps(run[w].claims)])
    /\ Ends(w)
    /\ UNCHANGED <<theses, opp, claims, scores, req, served, overlaps>>

Leave(w) ==
    /\ run[w].pc # "idle"
    /\ Ends(w)
    /\ UNCHANGED <<theses, opp, claims, scores, memos, req, served, overlaps>>

--------------------------------------------------------------------------------

Http(h) ==
    \/ CreateDefault(h) \/ CommitCreate(h) \/ SetDefault(h) \/ CommitDefault(h)
    \/ UpdateThesis(h) \/ DeleteThesis(h) \/ CommitThesis(h)
    \/ PatchMemo(h) \/ CommitMemoPatch(h)

Work(w) ==
    \/ Regenerate(w) \/ Screen(w) \/ ReadClaims(w) \/ SaveClaims(w) \/ ScoreAxes(w) \/ SaveAxes(w)
    \/ Advise(w) \/ ReadMemo(w) \/ SaveMemo(w) \/ Leave(w)

Next ==
    \/ CreateThesis \/ Apply \/ Enter
    \/ \E h \in Handlers : Http(h)
    \/ \E w \in Workers : Work(w)

Spec == Init /\ [][Next]_vars

--------------------------------------------------------------------------------
(* Properties *)

(* An organisation has at most one default thesis, whatever edits, deletions and  *)
(* changes of the default overlap, as long as no thesis is created while another   *)
(* request is making one the default.                                             *)
OneDefault ==
    "defaults" \notin overlaps =>
        \A t, u \in Created : theses[t].is_default /\ theses[u].is_default => t = u

(* README.md:154 "absence does not lower the point estimate": a pass is only ever  *)
(* recommended because the thesis rules the company out, never for want of         *)
(* evidence, a founder or a thesis.  As long as runs do not overlap, an investment *)
(* is recommended only on five or more claims of traction or revenue, which the    *)
(* memo discloses.                                                                *)
AdviceIsEarned ==
    \A m \in 1..Len(memos) :
        /\ memos[m].advice.decision = "pass" => memos[m].advice.reason \in GateReasons
        /\ memos[m].advice.decision = "invest" /\ "runs" \notin overlaps =>
             Traction(claims) >= 5 /\ "traction_kpis" \notin memos[m].gaps

(* The memo shown as the latest is the one generated last: edits of older memos    *)
(* never overtake it, as long as no edit is committed while another edit or the    *)
(* insertion of a memo is under way.                                              *)
NewestMemoIsLatest ==
    "memos" \notin overlaps =>
        \A m, n \in 1..Len(memos) : m < n => memos[m].version < memos[n].version

(* Evidence is only added, so as long as runs do not overlap only the founder axis *)
(* can be reported as declining, whatever runs die in between.                     *)
OnlyFounderDeclines ==
    "runs" \notin overlaps =>
        \A v \in 1..Len(scores) : \A a \in Axes :
            scores[v].trend[a] = "declining" => a = "founder"

================================================================================
