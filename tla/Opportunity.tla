------------------------------ MODULE Opportunity ------------------------------
(***************************************************************************)
(* One row of the opportunities table and those who write it: the PATCH,   *)
(* decide and archive handlers, each in a database session of its own, and *)
(* the runs of process_job, whose session keeps the row it loaded at the   *)
(* start for as long as the run lasts.  With it go the applications filed  *)
(* for the opportunity, the evidence of its claims and the audit log.      *)
(*                                                                         *)
(* The columns that no handler decides on (timestamps, rationale,          *)
(* assigned_to, thesis_fit) are left out; title stands for the freely      *)
(* edited ones.  Soft deletion of an application, which no writer of the   *)
(* row looks at, is left out.                                              *)
(***************************************************************************)
EXTENDS Naturals, Sequences

CONSTANTS
    Titles,          \* values of the columns PATCH may set besides stage
    Bodies,          \* bodies of PATCH requests
    Decisions,       \* the human decisions asked for, "pass" among them
    Keys,            \* Idempotency-Key values of decide requests
    Apps,            \* applications
    Handlers,        \* HTTP requests that can be in progress together
    Workers,         \* runs of process_job that can be in progress together
    None,
    Unset,           \* a field that the body of a PATCH leaves out
    MaxVersion,      \* bound on Opportunity.version
    MaxAudits        \* bound on the decisions recorded or under way

Stages == {"sourced", "screening", "screened", "diligence", "decision", "decided",
           "archived"}

ASSUME OpportunityAssumption ==
    /\ Bodies \subseteq [stage : Stages \cup {Unset}, title : Titles \cup {None, Unset}]
    /\ "pass" \in Decisions
    /\ None \notin Decisions \cup Apps
    /\ MaxVersion \in Nat /\ MaxAudits \in Nat

VARIABLES
    row,             \* the row of the opportunities table
    apps,            \* application -> status, "none" before it is filed
    evidence,        \* whether some claim of the opportunity has evidence
    audits,          \* audit_log rows with action opportunity.decide, in commit order
    req,             \* handler -> its request and its session
    run,             \* worker -> its run of process_job and its session
    traffic          \* whether decide requests have overlapped so far (history)

vars == <<row, apps, evidence, audits, req, run, traffic>>

\* title and decision are nullable, stage is not.
Columns == [stage : Stages, version : Nat, title : Titles \cup {None},
            decision : Decisions \cup {None}]
AppStatus == {"received", "parsing", "needs_info", "in_diligence", "decided"}
Audit == [key : Keys, decision : Decisions]

\* loaded: the columns as last synchronised with the database; obj: the object as
\* the handler has changed it.
Deciding == {"audit", "evidence", "application", "decide"}
Request == [pc : {"idle", "patch", "archive"} \cup Deciding,
            loaded : Columns \cup {None}, obj : Columns \cup {None},
            key : Keys \cup {None}, app : Apps \cup {None}]
Idle == [pc |-> "idle", loaded |-> None, obj |-> None, key |-> None, app |-> None]

Run == [pc : {"idle", "loaded", "extract", "memo"},
        loaded : Columns \cup {None}, app : Apps \cup {None}]
Away == [pc |-> "idle", loaded |-> None, app |-> None]

TypeOK ==
    /\ row \in Columns
    /\ apps \in [Apps -> AppStatus \cup {"none"}]
    /\ evidence \in BOOLEAN
    /\ audits \in Seq(Audit)
    /\ req \in [Handlers -> Request]
    /\ run \in [Workers -> Run]
    /\ traffic \in {"in_turn", "overlapping"}

\* create_manual_opportunity, or the first application of the company
Init ==
    /\ row \in [stage : {"sourced"}, version : {1}, title : Titles,
                decision : {None}]
    /\ apps = [a \in Apps |-> "none"]
    /\ evidence = FALSE
    /\ audits = <<>>
    /\ req = [h \in Handlers |-> Idle]
    /\ run = [w \in Workers |-> Away]
    /\ traffic = "in_turn"

--------------------------------------------------------------------------------
(* Sessions *)

\* Mutant: every column of the object is written back.
FlushAll(old, new) == new

\* The UPDATE of a flush names the columns that differ from the row as loaded.
Flush(old, new) ==
    [c \in DOMAIN row |-> IF new[c] # old[c] THEN new[c] ELSE row[c]]

Filed == {a \in Apps : apps[a] # "none"}

--------------------------------------------------------------------------------
(* HTTP requests *)

\* create_application files an application for the live opportunity.
File(a) ==
    /\ apps[a] = "none"
    /\ row.stage # "archived"
    /\ apps' = [apps EXCEPT ![a] = "received"]
    /\ UNCHANGED <<row, evidence, audits, req, run, traffic>>

\* request_application_info
RequestInfo(a) ==
    /\ a \in Filed
    /\ apps' = [apps EXCEPT ![a] = "needs_info"]
    /\ UNCHANGED <<row, evidence, audits, req, run, traffic>>

Set(value, old) == IF value = Unset THEN old ELSE value

\* Mutant: model_dump without exclude_unset; the fields left out are set to null.
EditedWithNulls(r) ==
    {[r EXCEPT !.stage = Set(b.stage, None), !.title = Set(b.title, None),
               !.version = @ + 1] : b \in Bodies}

\* What PATCH makes of the row: a null title that the client sent is stored.  A null
\* stage violates NOT NULL at the commit; that request changes nothing.
Edited(r) ==
    {[r EXCEPT !.stage = Set(b.stage, r.stage), !.title = Set(b.title, r.title),
               !.version = @ + 1] : b \in Bodies}

\* update_opportunity loads the row; If-Match names the version it has now, which
\* the client was shown whenever it was.  Any other version changes nothing.
Patch(h) ==
    /\ req[h].pc = "idle"
    /\ row.version < MaxVersion
    /\ \E obj \in Edited(row) :
         req' = [req EXCEPT ![h] = [Idle EXCEPT !.pc = "patch", !.loaded = row, !.obj = obj]]
    /\ UNCHANGED <<row, apps, evidence, audits, run, traffic>>

CommitPatch(h) ==
    /\ req[h].pc = "patch"
    /\ row' = Flush(req[h].loaded, req[h].obj)
    /\ req' = [req EXCEPT ![h] = Idle]
    /\ UNCHANGED <<apps, evidence, audits, run, traffic>>

\* decide_opportunity loads the row and refuses an archived one.
Decide(h) ==
    /\ req[h].pc = "idle"
    /\ row.stage # "archived"
    /\ row.version < MaxVersion
    /\ Len(audits) < MaxAudits
    /\ (\E g \in Handlers : req[g].pc \in Deciding) => Len(audits) + 1 < MaxAudits
    /\ \E d \in Decisions, k \in Keys :
         req' = [req EXCEPT ![h] =
                   [Idle EXCEPT !.pc = "audit", !.loaded = row, !.key = k,
                                !.obj = [row EXCEPT !.stage = "decided", !.decision = d,
                                                    !.version = @ + 1]]]
    /\ traffic' = IF \E g \in Handlers : req[g].pc \in Deciding THEN "overlapping" ELSE traffic
    /\ UNCHANGED <<row, apps, evidence, audits, run>>

\* Mutant: decide_opportunity without its lookup of the key.
NeverReplayed(h) == FALSE

\* The request is a replay: its key is in the audit log and the row is decided.
Replayed(h) ==
    /\ \E i \in 1..Len(audits) : audits[i].key = req[h].key
    /\ req[h].loaded.decision # None

ReadAudit(h) ==
    /\ req[h].pc = "audit"
    /\ req' = IF Replayed(h) THEN [req EXCEPT ![h] = Idle]
              ELSE [req EXCEPT ![h].pc = "evidence"]
    /\ UNCHANGED <<row, apps, evidence, audits, run, traffic>>

\* Mutant: a pass is taken without evidence.
NeverUncited(h) == FALSE

\* A pass must cite evidence rather than missing data.
Uncited(h) == req[h].obj.decision = "pass" /\ ~evidence

ReadEvidence(h) ==
    /\ req[h].pc = "evidence"
    /\ req' = IF Uncited(h) THEN [req EXCEPT ![h] = Idle]
              ELSE [req EXCEPT ![h].pc = "application"]
    /\ UNCHANGED <<row, apps, evidence, audits, run, traffic>>

\* Some application of the opportunity, in no particular order; one that is
\* already decided will not be written.
ReadApplication(h) ==
    /\ req[h].pc = "application"
    /\ \E a \in IF Filed = {} THEN {None} ELSE Filed :
         req' = [req EXCEPT ![h].pc = "decide",
                            ![h].app = IF a # None /\ apps[a] = "decided" THEN None ELSE a]
    /\ UNCHANGED <<row, apps, evidence, audits, run, traffic>>

\* Mutant: the decision without its audit_log row.
CommitDecideUnaudited(h) ==
    /\ req[h].pc = "decide"
    /\ row' = Flush(req[h].loaded, req[h].obj)
    /\ apps' = [a \in Apps |-> IF a = req[h].app THEN "decided" ELSE apps[a]]
    /\ req' = [req EXCEPT ![h] = Idle]
    /\ UNCHANGED <<evidence, audits, run, traffic>>

CommitDecide(h) ==
    /\ req[h].pc = "decide"
    /\ row' = Flush(req[h].loaded, req[h].obj)
    /\ audits' = Append(audits, [key |-> req[h].key, decision |-> req[h].obj.decision])
    /\ apps' = [a \in Apps |-> IF a = req[h].app THEN "decided" ELSE apps[a]]
    /\ req' = [req EXCEPT ![h] = Idle]
    /\ UNCHANGED <<evidence, run, traffic>>

\* archive_opportunity
Archive(h) ==
    /\ req[h].pc = "idle"
    /\ row.version < MaxVersion
    /\ req' = [req EXCEPT ![h] =
                 [Idle EXCEPT !.pc = "archive", !.loaded = row,
                              !.obj = [row EXCEPT !.stage = "archived", !.version = @ + 1]]]
    /\ UNCHANGED <<row, apps, evidence, audits, run, traffic>>

CommitArchive(h) ==
    /\ req[h].pc = "archive"
    /\ row' = Flush(req[h].loaded, req[h].obj)
    /\ req' = [req EXCEPT ![h] = Idle]
    /\ UNCHANGED <<apps, evidence, audits, run, traffic>>

--------------------------------------------------------------------------------
(* process_job, from session.get(Opportunity) to the commit of the memo.  The *)
(* row is never loaded again, so each commit builds on the one before.        *)

LoadOpportunity(w) ==
    /\ run[w].pc = "idle"
    /\ row.version < MaxVersion
    /\ \E a \in Filed \cup {None} :
         run' = [run EXCEPT ![w] = [pc |-> "loaded", loaded |-> row, app |-> a]]
    /\ UNCHANGED <<row, apps, evidence, audits, req, traffic>>

\* The changes of run w to its object are committed; the application of its job,
\* if it has one, gets status s.
Commit(w, obj, s) ==
    /\ row' = Flush(run[w].loaded, obj)
    /\ apps' = [a \in Apps |-> IF a = run[w].app THEN s ELSE apps[a]]

CommitScreening(w) ==
    LET obj == [run[w].loaded EXCEPT !.stage = "screening"] IN
    /\ run[w].pc = "loaded"
    /\ Commit(w, obj, "parsing")
    /\ run' = [run EXCEPT ![w].pc = "extract", ![w].loaded = obj]
    /\ UNCHANGED <<evidence, audits, req, traffic>>

\* The deck, if the job has one and it was not read before, yields evidence.
Extract(w) ==
    /\ run[w].pc = "extract"
    /\ evidence' \in {evidence, TRUE}
    /\ run' = [run EXCEPT ![w].pc = "memo"]
    /\ UNCHANGED <<row, apps, audits, req, traffic>>

\* With the memo.  Nothing later in process_job touches the row.
CommitMemo(w) ==
    LET obj == [run[w].loaded EXCEPT !.stage = "decision", !.version = @ + 1] IN
    /\ run[w].pc = "memo"
    /\ Commit(w, obj, "in_diligence")
    /\ run' = [run EXCEPT ![w] = Away]
    /\ UNCHANGED <<evidence, audits, req, traffic>>

\* The run dies, times out or ends in the exception handler.
Leave(w) ==
    /\ run[w].pc # "idle"
    /\ run' = [run EXCEPT ![w] = Away]
    /\ UNCHANGED <<row, apps, evidence, audits, req, traffic>>

--------------------------------------------------------------------------------

Http(h) ==
    \/ Patch(h) \/ CommitPatch(h)
    \/ Decide(h) \/ ReadAudit(h) \/ ReadEvidence(h) \/ ReadApplication(h) \/ CommitDecide(h)
    \/ Archive(h) \/ CommitArchive(h)

Work(w) ==
    \/ LoadOpportunity(w) \/ CommitScreening(w) \/ Extract(w)
    \/ CommitMemo(w) \/ Leave(w)

Next ==
    \/ \E a \in Apps : File(a) \/ RequestInfo(a)
    \/ \E h \in Handlers : Http(h)
    \/ \E w \in Workers : Work(w)

Spec == Init /\ [][Next]_vars

--------------------------------------------------------------------------------
(* Properties *)

(* A pass always rests on evidence, although the handler counts the evidence    *)
(* before it commits and other sessions commit in between.                      *)
PassCitesEvidence == row.decision = "pass" => evidence

(* A human decision is never erased: neither a PATCH nor a worker that loaded   *)
(* the row before the decision writes the column back.                          *)
DecisionKept == [][row.decision # None => row'.decision # None]_vars

(* The decision on the row is one that the audit log records, and an            *)
(* application is decided only with a decision on record.                       *)
DecisionAudited ==
    /\ row.decision # None => \E i \in 1..Len(audits) : audits[i].decision = row.decision
    /\ \A a \in Apps : apps[a] = "decided" => audits # <<>>

(* As long as decide requests do not overlap each other, the row shows the       *)
(* decision audited last, whatever edits, archivings and workers with older       *)
(* copies of the row write in the meantime.                                      *)
LastDecisionStands ==
    traffic = "in_turn" /\ audits # <<>> => row.decision = audits[Len(audits)].decision

(* A client that repeats a decide request with its key, after other decisions,    *)
(* edits or an archiving, records no second decision, as long as decide requests  *)
(* do not overlap.                                                               *)
DecideOncePerKey ==
    traffic = "in_turn" =>
        \A i, j \in 1..Len(audits) : audits[i].key = audits[j].key => i = j

================================================================================
