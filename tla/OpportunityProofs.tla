--------------------------- MODULE OpportunityProofs ---------------------------
(* Theorems about Opportunity, for any number of requests and workers. *)
EXTENDS Opportunity, TLAPS

(* The dirty-column UPDATE writes the decision only if the session changed it. *)
LEMMA FlushColumns ==
  ASSUME row \in Columns, NEW old \in Columns, NEW new \in Columns
  PROVE  /\ Flush(old, new) \in Columns
         /\ Flush(old, new).decision =
              IF new.decision # old.decision THEN new.decision ELSE row.decision
  <1>1. row = [stage |-> row.stage, version |-> row.version, title |-> row.title,
               decision |-> row.decision]
    BY DEF Columns
  <1>2. DOMAIN row = {"stage", "version", "title", "decision"}
    BY DEF Columns
  <1>3. \A c \in {"stage", "version", "title", "decision"} :
          Flush(old, new)[c] = IF new[c] # old[c] THEN new[c] ELSE row[c]
    BY <1>2 DEF Flush
  <1>4. Flush(old, new) = [stage |-> Flush(old, new).stage, version |-> Flush(old, new).version,
                           title |-> Flush(old, new).title,
                           decision |-> Flush(old, new).decision]
    BY <1>2 DEF Flush
  <1> QED
    BY <1>3, <1>4 DEF Columns

(* What a session writes into the object it loaded. *)
LEMMA Staged ==
  ASSUME NEW r \in Columns, NEW s \in Stages
  PROVE  /\ [r EXCEPT !.stage = s, !.version = @ + 1] \in Columns
         /\ [r EXCEPT !.stage = s, !.version = @ + 1].decision = r.decision
  <1>1. r.version + 1 \in Nat
    BY DEF Columns
  <1>2. \A v \in Nat : /\ [r EXCEPT !.stage = s, !.version = v] \in Columns
                       /\ [r EXCEPT !.stage = s, !.version = v].decision = r.decision
    BY DEF Columns
  <1>3. /\ [r EXCEPT !.stage = s, !.version = r.version + 1] \in Columns
        /\ [r EXCEPT !.stage = s, !.version = r.version + 1].decision = r.decision
    BY <1>1, <1>2
  <1> QED
    BY <1>3, Zenon

LEMMA Decided ==
  ASSUME NEW r \in Columns, NEW d \in Decisions
  PROVE  /\ [r EXCEPT !.stage = "decided", !.decision = d, !.version = @ + 1] \in Columns
         /\ [r EXCEPT !.stage = "decided", !.decision = d, !.version = @ + 1].decision = d
  <1>1. r.version + 1 \in Nat
    BY DEF Columns
  <1>2. \A v \in Nat :
          /\ [r EXCEPT !.stage = "decided", !.decision = d, !.version = v] \in Columns
          /\ [r EXCEPT !.stage = "decided", !.decision = d, !.version = v].decision = d
    BY DEF Columns, Stages
  <1>3. /\ [r EXCEPT !.stage = "decided", !.decision = d, !.version = r.version + 1] \in Columns
        /\ [r EXCEPT !.stage = "decided", !.decision = d, !.version = r.version + 1].decision = d
    BY <1>1, <1>2
  <1> QED
    BY <1>3, Zenon

(* What the sessions hold.  A PATCH and an archive never change the decision of *)
(* their object; a decide request past its evidence check has the evidence.     *)
Valid(q) ==
    /\ q.pc \in {"patch", "archive"} \cup Deciding => q.loaded \in Columns /\ q.obj \in Columns
    /\ q.pc \in {"patch", "archive"} => q.obj.decision = q.loaded.decision
    /\ q.pc \in Deciding => q.obj.decision \in Decisions /\ q.key \in Keys
    /\ q.pc \in {"application", "decide"} /\ q.obj.decision = "pass" => evidence

RequestSessions == \A h \in Handlers : Valid(req[h])

RunSessions == \A w \in Workers : run[w].pc # "idle" => run[w].loaded \in Columns

Inv == TypeOK /\ RequestSessions /\ RunSessions /\ PassCitesEvidence /\ DecisionAudited

LEMMA InvInit == Init => Inv
  <1> SUFFICES ASSUME Init PROVE Inv
    OBVIOUS
  <1>1. PICK t \in Titles : row = [stage |-> "sourced", version |-> 1, title |-> t,
                                   decision |-> None]
    BY DEF Init
  <1>2. row \in Columns /\ row.decision = None
    BY <1>1 DEF Columns, Stages
  <1>3. Idle \in Request /\ Away \in Run
    BY DEF Idle, Request, Away, Run
  <1>4. apps \in [Apps -> AppStatus \cup {"none"}] /\ audits \in Seq(Audit)
    BY DEF Init
  <1>5. TypeOK
    BY <1>2, <1>3, <1>4 DEF Init, TypeOK
  <1>6. RequestSessions /\ RunSessions
    BY DEF Init, RequestSessions, Valid, RunSessions, Idle, Away, Deciding
  <1>7. PassCitesEvidence /\ DecisionAudited
    BY <1>2, OpportunityAssumption DEF Init, PassCitesEvidence, DecisionAudited
  <1> QED
    BY <1>5, <1>6, <1>7 DEF Inv

(* A request goes on to hold q, and nothing else changes. *)
LEMMA MoveRequest ==
  ASSUME Inv, NEW h \in Handlers, NEW q \in Request, Valid(q),
         req' = [req EXCEPT ![h] = q], UNCHANGED <<row, apps, evidence, audits, run>>,
         traffic' \in {traffic, "overlapping"}
  PROVE  Inv'
  <1>1. TypeOK'
    BY DEF Inv, TypeOK
  <1>2. RequestSessions'
    BY DEF Inv, TypeOK, RequestSessions, Valid
  <1> QED
    BY <1>1, <1>2 DEF Inv, RunSessions, PassCitesEvidence, DecisionAudited

LEMMA IdleValid == Idle \in Request /\ Valid(Idle)
  BY DEF Idle, Request, Valid, Deciding

(* The row is written and its decision stays. *)
LEMMA WriteRow ==
  ASSUME Inv, row' \in Columns, row'.decision = row.decision, req' \in [Handlers -> Request],
         run' \in [Workers -> Run], apps' \in [Apps -> AppStatus \cup {"none"}],
         \A h \in Handlers : req'[h] = req[h] \/ req'[h] = Idle,
         RunSessions', UNCHANGED <<evidence, audits, traffic>>,
         \A a \in Apps : apps'[a] = "decided" => apps[a] = "decided"
  PROVE  Inv'
  <1>1. TypeOK'
    BY DEF Inv, TypeOK
  <1>2. RequestSessions'
    BY IdleValid DEF Inv, RequestSessions, Valid
  <1> QED
    BY <1>1, <1>2 DEF Inv, PassCitesEvidence, DecisionAudited

LEMMA HttpInv ==
  ASSUME Inv, NEW h \in Handlers, Http(h)
  PROVE  Inv'
  <1>a. TypeOK /\ req[h] \in Request /\ Valid(req[h]) /\ row \in Columns
    BY DEF Inv, TypeOK, RequestSessions
  <1>b. req[h] = [pc |-> req[h].pc, loaded |-> req[h].loaded,
                  obj |-> req[h].obj, key |-> req[h].key, app |-> req[h].app]
    BY <1>a DEF Request
  <1>c. ASSUME UNCHANGED <<row, apps, evidence, audits, run, traffic>>, req' = [req EXCEPT ![h] = Idle]
        PROVE  Inv'
    BY <1>c, IdleValid, MoveRequest
  <1>2. CASE Patch(h)
    <2>1. PICK obj \in Edited(row) :
            req' = [req EXCEPT ![h] = [Idle EXCEPT !.pc = "patch", !.loaded = row, !.obj = obj]]
      BY <1>2 DEF Patch
    <2> DEFINE q == [Idle EXCEPT !.pc = "patch", !.loaded = row, !.obj = obj]
    <2>2. obj \in Columns /\ obj.decision = row.decision
      <3>1. PICK b \in Bodies :
              obj = [row EXCEPT !.stage = Set(b.stage, row.stage),
                                !.title = Set(b.title, row.title),
                                !.version = row.version + 1]
        BY DEF Edited
      <3>2. /\ Set(b.stage, row.stage) \in Stages
            /\ Set(b.title, row.title) \in Titles \cup {None}
        BY <1>a, OpportunityAssumption DEF Set, Columns
      <3>3. PICK st \in Stages, t \in Titles \cup {None} :
              obj = [row EXCEPT !.stage = st, !.title = t, !.version = row.version + 1]
        BY <3>1, <3>2
      <3>4. row \in Columns
        BY <1>a
      <3>5. row.version + 1 \in Nat /\ row.decision \in Decisions \cup {None}
        BY <3>4 DEF Columns
      <3>6. obj = [stage |-> st, version |-> row.version + 1, title |-> t,
                   decision |-> row.decision]
        BY <3>3, <3>4 DEF Columns
      <3> QED
        BY <3>5, <3>6 DEF Columns
    <2>3. q \in Request /\ Valid(q)
      BY <1>a, <2>2 DEF Idle, Request, Valid, Deciding
    <2> HIDE DEF q
    <2> QED
      BY <1>2, <2>1, <2>3, MoveRequest DEF Patch, q
  <1>3. CASE CommitPatch(h) \/ CommitArchive(h)
    <2>1. /\ req[h].pc \in {"patch", "archive"}
          /\ row' = Flush(req[h].loaded, req[h].obj)
          /\ req' = [req EXCEPT ![h] = Idle]
          /\ UNCHANGED <<apps, evidence, audits, run, traffic>>
      BY <1>3 DEF CommitPatch, CommitArchive
    <2>2. row' \in Columns /\ row'.decision = row.decision
      BY <1>a, <2>1, FlushColumns DEF Valid
    <2>3. /\ req' \in [Handlers -> Request] /\ \A i \in Handlers : req'[i] = req[i] \/ req'[i] = Idle
          /\ run' \in [Workers -> Run] /\ apps' \in [Apps -> AppStatus \cup {"none"}]
          /\ RunSessions'
      BY <1>a, <2>1, IdleValid DEF TypeOK, Inv, RunSessions
    <2> QED
      BY <2>1, <2>2, <2>3, WriteRow
  <1>4. CASE Decide(h)
    <2>1. PICK d \in Decisions, k \in Keys :
            req' = [req EXCEPT ![h] =
                      [Idle EXCEPT !.pc = "audit", !.loaded = row, !.key = k,
                                   !.obj = [row EXCEPT !.stage = "decided", !.decision = d,
                                                       !.version = @ + 1]]]
      BY <1>4 DEF Decide
    <2> DEFINE obj == [row EXCEPT !.stage = "decided", !.decision = d, !.version = @ + 1]
               q == [Idle EXCEPT !.pc = "audit", !.loaded = row, !.key = k, !.obj = obj]
    <2>2. obj \in Columns /\ obj.decision = d
      BY <1>a, Decided
    <2> HIDE DEF obj
    <2>3. q \in Request /\ Valid(q)
      BY <1>a, <2>2 DEF Idle, Request, Valid, Deciding
    <2>4. /\ req' = [req EXCEPT ![h] = q] /\ UNCHANGED <<row, apps, evidence, audits, run>>
          /\ traffic' \in {traffic, "overlapping"}
      BY <1>4, <2>1 DEF Decide, obj
    <2> HIDE DEF q
    <2> QED
      BY <2>3, <2>4, MoveRequest
  <1>5. ASSUME NEW l \in {"evidence", "application", "decide"}, NEW a \in Apps \cup {None},
               req[h].pc \in Deciding,
               req' = [req EXCEPT ![h] = [req[h] EXCEPT !.pc = l, !.app = a]],
               l = "evidence" \/ ~Uncited(h),
               UNCHANGED <<row, apps, evidence, audits, run, traffic>>
        PROVE  Inv'
    <2> DEFINE q == [req[h] EXCEPT !.pc = l, !.app = a]
    <2>1. q \in Request
      BY <1>5, <1>a DEF Request, Deciding
    <2>2. Valid(q)
      BY <1>5, <1>a, <1>b DEF Valid, Deciding, Uncited
    <2> HIDE DEF q
    <2> QED
      BY <1>5, <2>1, <2>2, MoveRequest DEF q
  <1>6. CASE ReadAudit(h)
    <2>1. CASE ~Replayed(h)
      <3>1. req' = [req EXCEPT ![h] = [req[h] EXCEPT !.pc = "evidence", !.app = req[h].app]]
        BY <1>6, <1>a, <1>b, <2>1 DEF ReadAudit, TypeOK
      <3> QED
        BY <1>5, <1>6, <1>a, <3>1 DEF ReadAudit, Deciding, Request
    <2> QED
      BY <1>6, <1>c, <2>1 DEF ReadAudit
  <1>7. CASE ReadEvidence(h)
    <2>1. CASE ~Uncited(h)
      <3>1. req' = [req EXCEPT ![h] = [req[h] EXCEPT !.pc = "application", !.app = req[h].app]]
        BY <1>7, <1>a, <1>b, <2>1 DEF ReadEvidence, TypeOK
      <3> QED
        BY <1>5, <1>7, <1>a, <2>1, <3>1 DEF ReadEvidence, Deciding, Request
    <2> QED
      BY <1>7, <1>c, <2>1 DEF ReadEvidence
  <1>8. CASE ReadApplication(h)
    <2>1. PICK a \in Apps \cup {None} :
            req' = [req EXCEPT ![h].pc = "decide", ![h].app = a]
      BY <1>8 DEF ReadApplication, Filed
    <2>2. req' = [req EXCEPT ![h] = [req[h] EXCEPT !.pc = "decide", !.app = a]]
      BY <1>a, <2>1 DEF TypeOK
    <2>3. ~Uncited(h) /\ req[h].pc \in Deciding
      BY <1>8, <1>a DEF ReadApplication, Valid, Uncited, Deciding
    <2> QED
      BY <1>5, <1>8, <2>2, <2>3 DEF ReadApplication
  <1>9. CASE CommitDecide(h)
    <2> DEFINE d == req[h].obj.decision
               entry == [key |-> req[h].key, decision |-> d]
    <2>1. /\ req[h].pc = "decide" /\ row' = Flush(req[h].loaded, req[h].obj)
          /\ audits' = Append(audits, entry) /\ req' = [req EXCEPT ![h] = Idle]
          /\ apps' = [a \in Apps |-> IF a = req[h].app THEN "decided" ELSE apps[a]]
          /\ UNCHANGED <<evidence, run, traffic>>
      BY <1>9 DEF CommitDecide
    <2>2. d \in Decisions /\ (d = "pass" => evidence) /\ entry \in Audit
      BY <1>a, <2>1 DEF Valid, Deciding, Audit
    <2>3. row' \in Columns /\ row'.decision \in {d, row.decision}
      BY <1>a, <2>1, FlushColumns DEF Valid, Deciding
    <2>4. entry.decision = d
      OBVIOUS
    <2> HIDE DEF d, entry
    <2>5. /\ Len(audits') = Len(audits) + 1 /\ audits'[Len(audits')] = entry
          /\ \A i \in 1..Len(audits) : audits'[i] = audits[i]
          /\ audits' \in Seq(Audit) /\ Len(audits) \in Nat
      BY <1>a, <2>1, <2>2 DEF TypeOK
    <2>6. TypeOK'
      BY <1>a, <2>1, <2>3, <2>5, IdleValid DEF TypeOK, AppStatus
    <2>7. RequestSessions' /\ RunSessions'
      BY <1>a, <2>1, IdleValid DEF Inv, TypeOK, RequestSessions, Valid, RunSessions
    <2>8. PassCitesEvidence'
      BY <2>1, <2>2, <2>3 DEF Inv, PassCitesEvidence
    <2>9. DecisionAudited'
      <3>1. audits' # <<>>
        BY <2>5
      <3>2. row'.decision # None => \E i \in 1..Len(audits') : audits'[i].decision = row'.decision
        <4>1. CASE row'.decision = d
          BY <2>4, <2>5, <4>1
        <4>2. CASE row'.decision = row.decision /\ row'.decision # None
          <5>1. PICK i \in 1..Len(audits) : audits[i].decision = row.decision
            BY <4>2 DEF Inv, DecisionAudited
          <5>2. i \in 1..Len(audits') /\ audits'[i] = audits[i]
            BY <2>5, <5>1
          <5> QED
            BY <4>2, <5>1, <5>2
        <4> QED
          BY <2>3, <4>1, <4>2
      <3> QED
        BY <3>1, <3>2 DEF DecisionAudited
    <2> QED
      BY <2>6, <2>7, <2>8, <2>9 DEF Inv
  <1>10. CASE Archive(h)
    <2> DEFINE obj == [row EXCEPT !.stage = "archived", !.version = @ + 1]
               q == [Idle EXCEPT !.pc = "archive", !.loaded = row, !.obj = obj]
    <2>1. obj \in Columns /\ obj.decision = row.decision
      BY <1>a, Staged DEF Stages
    <2> HIDE DEF obj
    <2>2. q \in Request /\ Valid(q)
      BY <1>a, <2>1 DEF Idle, Request, Valid, Deciding
    <2>3. req' = [req EXCEPT ![h] = q] /\ UNCHANGED <<row, apps, evidence, audits, run, traffic>>
      BY <1>10 DEF Archive, obj
    <2> HIDE DEF q
    <2> QED
      BY <2>2, <2>3, MoveRequest
  <1> QED
    BY <1>2, <1>3, <1>4, <1>6, <1>7, <1>8, <1>9, <1>10 DEF Http

LEMMA WorkInv ==
  ASSUME Inv, NEW w \in Workers, Work(w)
  PROVE  Inv'
  <1>a. TypeOK /\ run[w] \in Run /\ row \in Columns /\ RunSessions
    BY DEF Inv, TypeOK
  <1>b. ASSUME run[w].pc # "idle" PROVE run[w].loaded \in Columns
    BY <1>a, <1>b DEF RunSessions
  <1>c. Away \in Run
    BY DEF Away, Run
  <1>1. ASSUME NEW r \in Run, r.pc # "idle" => r.loaded \in Columns,
               run' = [run EXCEPT ![w] = r], req' = req, audits' = audits, evidence' = evidence,
               traffic' = traffic,
               NEW old \in Columns, NEW obj \in Columns, obj.decision = old.decision,
               row' = Flush(old, obj) \/ row' = row,
               NEW s \in {"parsing", "in_diligence"}, NEW b \in Apps \cup {None},
               apps' = [a \in Apps |-> IF a = b THEN s ELSE apps[a]] \/ apps' = apps
        PROVE  Inv'
    <2>1. row' \in Columns /\ row'.decision = row.decision
      BY <1>1, <1>a, FlushColumns
    <2>2. apps' \in [Apps -> AppStatus \cup {"none"}]
          /\ \A a \in Apps : apps'[a] = "decided" => apps[a] = "decided"
      BY <1>1, <1>a DEF TypeOK, AppStatus
    <2>3. run' \in [Workers -> Run] /\ RunSessions'
      BY <1>1, <1>a DEF TypeOK, RunSessions
    <2>4. req' \in [Handlers -> Request]
      BY <1>1, <1>a DEF TypeOK
    <2> QED
      BY <1>1, <2>1, <2>2, <2>3, <2>4, WriteRow
  <1>2. CASE LoadOpportunity(w)
    <2>1. PICK a \in Apps \cup {None} :
            run' = [run EXCEPT ![w] = [pc |-> "loaded", loaded |-> row, app |-> a]]
      BY <1>2 DEF LoadOpportunity, Filed
    <2> DEFINE r == [pc |-> "loaded", loaded |-> row, app |-> a]
    <2>2. r \in Run /\ r.loaded \in Columns
      BY <1>a DEF Run
    <2> HIDE DEF r
    <2> QED
      BY <1>2, <1>a, <1>1, <2>1, <2>2 DEF LoadOpportunity, r
  <1>3. CASE CommitScreening(w)
    <2> DEFINE obj == [run[w].loaded EXCEPT !.stage = "screening"]
               r == [run[w] EXCEPT !.pc = "extract", !.loaded = obj]
    <2>1. run[w].loaded \in Columns
      BY <1>3, <1>b DEF CommitScreening
    <2>2. obj \in Columns /\ obj.decision = run[w].loaded.decision
      BY <2>1 DEF Columns, Stages
    <2>3. /\ row' = Flush(run[w].loaded, obj) /\ UNCHANGED <<evidence, audits, req, traffic>>
          /\ apps' = [a \in Apps |-> IF a = run[w].app THEN "parsing" ELSE apps[a]]
          /\ run' = [run EXCEPT ![w] = r]
      BY <1>3, <1>a DEF CommitScreening, Commit, TypeOK
    <2> HIDE DEF obj
    <2>4. r \in Run /\ r.loaded \in Columns /\ run[w].app \in Apps \cup {None}
      BY <1>a, <2>2 DEF Run
    <2> HIDE DEF r
    <2> QED
      BY <1>1, <2>1, <2>2, <2>3, <2>4
  <1>4. CASE Extract(w)
    <2> DEFINE r == [run[w] EXCEPT !.pc = "memo"]
    <2>1. r \in Run /\ r.loaded \in Columns
      BY <1>4, <1>a, <1>b DEF Extract, Run
    <2>2. run' = [run EXCEPT ![w] = r] /\ UNCHANGED <<row, apps, audits, req, traffic>>
      BY <1>4, <1>a DEF Extract, TypeOK
    <2>3. evidence' \in BOOLEAN /\ (evidence => evidence')
      BY <1>4, <1>a DEF Extract, TypeOK
    <2> HIDE DEF r
    <2>4. TypeOK'
      BY <1>a, <2>1, <2>2, <2>3 DEF TypeOK
    <2>5. RequestSessions' /\ RunSessions'
      BY <1>a, <2>1, <2>2, <2>3 DEF Inv, TypeOK, RequestSessions, Valid, RunSessions
    <2> QED
      BY <2>2, <2>3, <2>4, <2>5 DEF Inv, PassCitesEvidence, DecisionAudited
  <1>6. CASE CommitMemo(w)
    <2> DEFINE obj == [run[w].loaded EXCEPT !.stage = "decision", !.version = @ + 1]
    <2>1. run[w].loaded \in Columns /\ run[w].app \in Apps \cup {None}
      BY <1>6, <1>a, <1>b DEF CommitMemo, Run
    <2>2. obj \in Columns /\ obj.decision = run[w].loaded.decision
      BY <2>1, Staged DEF Stages
    <2>3. /\ row' = Flush(run[w].loaded, obj) /\ UNCHANGED <<evidence, audits, req, traffic>>
          /\ apps' = [a \in Apps |-> IF a = run[w].app THEN "in_diligence" ELSE apps[a]]
          /\ run' = [run EXCEPT ![w] = Away]
      BY <1>6 DEF CommitMemo, Commit
    <2>4. Away.pc = "idle"
      BY DEF Away
    <2> HIDE DEF obj
    <2> QED
      BY <1>1, <1>c, <2>1, <2>2, <2>3, <2>4
  <1>7. CASE Leave(w)
    <2>1. Away.pc = "idle"
      BY DEF Away
    <2> QED
      BY <1>7, <1>1, <1>a, <1>c, <2>1 DEF Leave
  <1> QED
    BY <1>2, <1>3, <1>4, <1>6, <1>7 DEF Work

LEMMA InvNext == Inv /\ [Next]_vars => Inv'
  <1> SUFFICES ASSUME Inv, [Next]_vars PROVE Inv'
    OBVIOUS
  <1>1. ASSUME NEW a \in Apps, File(a) \/ RequestInfo(a) PROVE Inv'
    <2>1. apps' \in [Apps -> AppStatus \cup {"none"}]
          /\ \A b \in Apps : apps'[b] = "decided" => apps[b] = "decided"
      BY <1>1 DEF Inv, File, RequestInfo, TypeOK, AppStatus
    <2>2. UNCHANGED <<row, evidence, audits, req, run, traffic>>
      BY <1>1 DEF File, RequestInfo
    <2>3. RunSessions' /\ TypeOK
      BY <2>2 DEF Inv, RunSessions
    <2> QED
      BY <2>1, <2>2, <2>3, WriteRow DEF TypeOK
  <1>2. CASE UNCHANGED vars
    BY <1>2 DEF vars, Inv, TypeOK, RequestSessions, Valid, RunSessions, PassCitesEvidence,
          DecisionAudited
  <1> QED
    BY <1>1, <1>2, HttpInv, WorkInv DEF Next

LEMMA Invariance == Spec => []Inv
  BY InvInit, InvNext, PTL DEF Spec

(* Types of the row, the sessions and the audit log. *)
THEOREM TypeCorrectness == Spec => []TypeOK
  <1>1. Inv => TypeOK
    BY DEF Inv
  <1> QED
    BY <1>1, Invariance, PTL

(* A pass on the row always rests on evidence, under any interleaving. *)
THEOREM PassRestsOnEvidence == Spec => []PassCitesEvidence
  <1>1. Inv => PassCitesEvidence
    BY DEF Inv
  <1> QED
    BY <1>1, Invariance, PTL

(* The decision on the row is always one of the audited ones. *)
THEOREM DecisionsAreAudited == Spec => []DecisionAudited
  <1>1. Inv => DecisionAudited
    BY DEF Inv
  <1> QED
    BY <1>1, Invariance, PTL

(* Only the commit of a decide request writes the decision. *)
LEMMA DecisionUntouched ==
  ASSUME Inv, [Next]_vars, \A h \in Handlers : ~CommitDecide(h)
  PROVE  row'.decision = row.decision
  <1>a. row \in Columns
    BY DEF Inv, TypeOK
  <1>1. ASSUME NEW old \in Columns, NEW obj \in Columns, obj.decision = old.decision,
               row' = Flush(old, obj)
        PROVE  row'.decision = row.decision
    BY <1>1, <1>a, FlushColumns
  <1>2. ASSUME NEW h \in Handlers, Http(h) PROVE row'.decision = row.decision
    <2>1. CASE CommitPatch(h) \/ CommitArchive(h)
      BY <1>1, <2>1 DEF CommitPatch, CommitArchive, Inv, RequestSessions, Valid
    <2>2. CASE Patch(h) \/ Decide(h) \/ ReadAudit(h) \/ ReadEvidence(h)
               \/ ReadApplication(h) \/ Archive(h)
      BY <2>2 DEF Patch, Decide, ReadAudit, ReadEvidence, ReadApplication, Archive
    <2> QED
      BY <1>2, <2>1, <2>2 DEF Http
  <1>3. ASSUME NEW w \in Workers, Work(w) PROVE row'.decision = row.decision
    <2>1. ASSUME run[w].pc # "idle"
          PROVE  run[w].loaded \in Columns
      BY <2>1 DEF Inv, RunSessions
    <2>2. ASSUME NEW l \in Columns
          PROVE  /\ [l EXCEPT !.stage = "screening"].decision = l.decision
                 /\ [l EXCEPT !.stage = "screening"] \in Columns
      BY DEF Columns, Stages
    <2>3. ASSUME NEW l \in Columns
          PROVE  /\ [l EXCEPT !.stage = "decision", !.version = @ + 1].decision = l.decision
                 /\ [l EXCEPT !.stage = "decision", !.version = @ + 1] \in Columns
      BY Staged DEF Stages
    <2>4. CASE CommitScreening(w)
      BY <1>1, <2>1, <2>2, <2>4 DEF CommitScreening, Commit
    <2>5. CASE CommitMemo(w)
      BY <1>1, <2>1, <2>3, <2>5 DEF CommitMemo, Commit
    <2>6. CASE LoadOpportunity(w) \/ Extract(w) \/ Leave(w)
      BY <2>6 DEF LoadOpportunity, Extract, Leave
    <2> QED
      BY <1>3, <2>4, <2>5, <2>6 DEF Work
  <1>4. ASSUME NEW a \in Apps, File(a) \/ RequestInfo(a) PROVE row'.decision = row.decision
    BY <1>4 DEF File, RequestInfo
  <1> QED
    BY <1>2, <1>3, <1>4 DEF Next, vars

(* No session erases a decision, however old the row it loaded. *)
LEMMA DecisionKeptNext ==
  ASSUME Inv, row.decision # None, [Next]_vars
  PROVE  row'.decision # None
  <1>1. ASSUME NEW h \in Handlers, CommitDecide(h) PROVE row'.decision # None
    <2>1. /\ row \in Columns /\ req[h].loaded \in Columns /\ req[h].obj \in Columns
          /\ req[h].obj.decision \in Decisions
      BY <1>1 DEF CommitDecide, Inv, TypeOK, RequestSessions, Valid, Deciding
    <2> QED
      BY <1>1, <2>1, FlushColumns, OpportunityAssumption DEF CommitDecide
  <1> QED
    BY <1>1, DecisionUntouched

(* A human decision, once made, is never erased: DecisionKept. *)
THEOREM DecisionIsKept == Spec => DecisionKept
  <1>1. Inv /\ [Next]_vars => [row.decision # None => row'.decision # None]_vars
    BY DecisionKeptNext
  <1> QED
    BY <1>1, Invariance, PTL DEF Spec, DecisionKept

--------------------------------------------------------------------------------
(* Decisions that do not overlap *)

(* As long as decide requests come in turn, the one in progress has loaded the    *)
(* decision the row still has, and once past its lookup no audit row has its key. *)
InTurn ==
    traffic = "in_turn" =>
        /\ \A g, h \in Handlers : req[g].pc \in Deciding /\ req[h].pc \in Deciding => g = h
        /\ \A h \in Handlers : req[h].pc \in Deciding => req[h].loaded.decision = row.decision
        /\ \A h \in Handlers : req[h].pc \in Deciding \ {"audit"} =>
             \A i \in 1..Len(audits) : audits[i].key # req[h].key

TurnInv == InTurn /\ LastDecisionStands /\ DecideOncePerKey

LEMMA TurnInit == Init => TurnInv
  BY DEF Init, TurnInv, InTurn, LastDecisionStands, DecideOncePerKey, Idle, Deciding

(* Neither the decision, the audit log nor the phase of a decide request changes, *)
(* or a request ends.                                                            *)
LEMMA TurnKept ==
  ASSUME TurnInv, row'.decision = row.decision, UNCHANGED <<audits, traffic>>,
         \A h \in Handlers : req'[h].pc \in Deciding =>
            /\ req[h].pc \in Deciding
            /\ req'[h].pc \in Deciding \ {"audit"} => req[h].pc \in Deciding \ {"audit"}
            /\ req'[h].loaded = req[h].loaded /\ req'[h].key = req[h].key
  PROVE  TurnInv'
  <1>1. InTurn'
    BY DEF TurnInv, InTurn
  <1> QED
    BY <1>1 DEF TurnInv, LastDecisionStands, DecideOncePerKey

LEMMA TurnNext ==
  ASSUME Inv, TurnInv, [Next]_vars
  PROVE  TurnInv'
  <1>a. TypeOK /\ \A h \in Handlers : req[h] \in Request /\ Valid(req[h])
    BY DEF Inv, TypeOK, RequestSessions
  <1>1. ASSUME NEW h \in Handlers, CommitDecide(h) PROVE TurnInv'
    <2> DEFINE d == req[h].obj.decision
               entry == [key |-> req[h].key, decision |-> d]
    <2>1. /\ req[h].pc = "decide" /\ row' = Flush(req[h].loaded, req[h].obj)
          /\ audits' = Append(audits, entry) /\ req' = [req EXCEPT ![h] = Idle]
          /\ UNCHANGED traffic
      BY <1>1 DEF CommitDecide
    <2>2. entry \in Audit /\ entry.decision = d /\ entry.key = req[h].key
      BY <1>a, <2>1 DEF Valid, Deciding, Audit
    <2>3. row'.decision = IF d # req[h].loaded.decision THEN d ELSE row.decision
      BY <1>a, <2>1, FlushColumns DEF Valid, Deciding, TypeOK
    <2> HIDE DEF d, entry
    <2>4. /\ Len(audits') = Len(audits) + 1 /\ audits'[Len(audits')] = entry
          /\ \A i \in 1..Len(audits) : audits'[i] = audits[i]
          /\ Len(audits) \in Nat
      BY <1>a, <2>1, <2>2 DEF TypeOK
    <2> SUFFICES ASSUME traffic = "in_turn" PROVE TurnInv'
      BY <2>1 DEF TurnInv, InTurn, LastDecisionStands, DecideOncePerKey
    <2>5. /\ \A g \in Handlers : req[g].pc \in Deciding => g = h
          /\ req[h].loaded.decision = row.decision
          /\ \A i \in 1..Len(audits) : audits[i].key # req[h].key
      BY <2>1 DEF TurnInv, InTurn, Deciding
    <2>6. \A g \in Handlers : req'[g].pc \notin Deciding
      BY <1>a, <2>1, <2>5 DEF TypeOK, Idle, Deciding
    <2>7. InTurn'
      BY <2>6 DEF InTurn
    <2>8. LastDecisionStands'
      BY <2>2, <2>3, <2>4, <2>5 DEF LastDecisionStands
    <2>9. DecideOncePerKey'
      <3>1. \A i, j \in 1..Len(audits) : audits[i].key = audits[j].key => i = j
        BY DEF TurnInv, DecideOncePerKey
      <3> QED
        BY <2>2, <2>4, <2>5, <3>1 DEF DecideOncePerKey
    <2> QED
      BY <2>7, <2>8, <2>9 DEF TurnInv
  <1>2. ASSUME NEW h \in Handlers, Decide(h) PROVE TurnInv'
    <2>1. /\ UNCHANGED <<row, audits>>
          /\ traffic' = IF \E g \in Handlers : req[g].pc \in Deciding THEN "overlapping"
                        ELSE traffic
          /\ \A g \in Handlers \ {h} : req'[g] = req[g]
          /\ req'[h].pc = "audit" /\ req'[h].loaded = row
      BY <1>2, <1>a DEF Decide, TypeOK, Idle
    <2>2. LastDecisionStands' /\ DecideOncePerKey'
      BY <2>1 DEF TurnInv, LastDecisionStands, DecideOncePerKey
    <2>3. InTurn'
      BY <2>1 DEF InTurn
    <2> QED
      BY <2>2, <2>3 DEF TurnInv
  <1>3. ASSUME NEW h \in Handlers, ReadAudit(h) PROVE TurnInv'
    <2>1. /\ UNCHANGED <<row, audits, traffic>>
          /\ req[h].pc = "audit"
          /\ \A g \in Handlers \ {h} : req'[g] = req[g]
          /\ \/ req'[h].pc = "idle"
             \/ /\ ~Replayed(h) /\ req'[h].pc = "evidence"
                /\ req'[h].loaded = req[h].loaded /\ req'[h].key = req[h].key
      BY <1>3, <1>a DEF ReadAudit, TypeOK, Idle, Request
    <2> SUFFICES ASSUME traffic = "in_turn" PROVE TurnInv'
      BY <2>1 DEF TurnInv, InTurn, LastDecisionStands, DecideOncePerKey
    <2>2. LastDecisionStands' /\ DecideOncePerKey'
      BY <2>1 DEF TurnInv, LastDecisionStands, DecideOncePerKey
    <2>3. /\ \A f, g \in Handlers : req[f].pc \in Deciding /\ req[g].pc \in Deciding => f = g
          /\ req[h].loaded.decision = row.decision
      BY <2>1 DEF TurnInv, InTurn, Deciding
    <2>4. audits # <<>> => row.decision # None
      <3>1. ASSUME audits # <<>> PROVE audits[Len(audits)] \in Audit
        BY <1>a, <3>1 DEF TypeOK
      <3> QED
        BY <3>1, OpportunityAssumption DEF TurnInv, LastDecisionStands, Audit
    <2>5. ~Replayed(h) => \A i \in 1..Len(audits) : audits[i].key # req[h].key
      BY <2>3, <2>4 DEF Replayed
    <2>6. InTurn'
      BY <2>1, <2>3, <2>5 DEF TurnInv, InTurn, Deciding
    <2> QED
      BY <2>2, <2>6 DEF TurnInv
  <1>4. ASSUME NEW h \in Handlers,
               Patch(h) \/ CommitPatch(h) \/ ReadEvidence(h) \/ ReadApplication(h)
                 \/ Archive(h) \/ CommitArchive(h),
               row'.decision = row.decision
        PROVE  TurnInv'
    <2>1. UNCHANGED <<audits, traffic>> /\ \A g \in Handlers \ {h} : req'[g] = req[g]
      BY <1>4, <1>a DEF Patch, CommitPatch, ReadEvidence, ReadApplication, Archive,
            CommitArchive, TypeOK
    <2>2. CASE ReadEvidence(h) \/ ReadApplication(h)
      <3>1. /\ req[h].pc \in Deciding \ {"audit"}
            /\ req'[h].pc \in Deciding =>
                 req'[h].loaded = req[h].loaded /\ req'[h].key = req[h].key
        BY <2>2, <1>a DEF ReadEvidence, ReadApplication, TypeOK, Request, Idle, Deciding
      <3> QED
        BY <1>4, <2>1, <3>1, TurnKept
    <2>3. CASE Patch(h) \/ CommitPatch(h) \/ Archive(h) \/ CommitArchive(h)
      <3>1. req'[h].pc \notin Deciding
        <4>1. CASE CommitPatch(h) \/ CommitArchive(h)
          BY <4>1, <1>a DEF CommitPatch, CommitArchive, TypeOK, Idle, Deciding
        <4>2. CASE Patch(h)
          BY <4>2, <1>a DEF Patch, TypeOK, Idle, Deciding
        <4>3. CASE Archive(h)
          BY <4>3, <1>a DEF Archive, TypeOK, Idle, Deciding
        <4> QED
          BY <2>3, <4>1, <4>2, <4>3
      <3> QED
        BY <1>4, <2>1, <3>1, TurnKept
    <2> QED
      BY <1>4, <2>2, <2>3
  <1>5. ASSUME UNCHANGED <<audits, traffic, req>>, row'.decision = row.decision PROVE TurnInv'
    BY <1>5, TurnKept
  <1>6. ASSUME \A h \in Handlers : ~CommitDecide(h) PROVE row'.decision = row.decision
    BY <1>6, DecisionUntouched
  <1>7. CASE \E h \in Handlers : Http(h)
    BY <1>1, <1>2, <1>3, <1>4, <1>6, <1>7 DEF Http
  <1>8. CASE \/ UNCHANGED vars
             \/ \E a \in Apps : File(a) \/ RequestInfo(a)
             \/ \E w \in Workers : Work(w)
    <2>1. UNCHANGED <<audits, traffic, req>>
      BY <1>8 DEF vars, File, RequestInfo, Work, LoadOpportunity, CommitScreening, Extract,
            CommitMemo, Leave
    <2> QED
      BY <1>1, <1>5, <1>6, <2>1
  <1> QED
    BY <1>7, <1>8 DEF Next

LEMMA TurnInvariance == Spec => []TurnInv
  BY Invariance, TurnInit, TurnNext, PTL DEF Spec

(* As long as decide requests do not overlap, the row shows the decision audited  *)
(* last, for any number of edits, archivings and workers with older copies of it. *)
THEOREM LatestDecisionStands == Spec => []LastDecisionStands
  <1>1. TurnInv => LastDecisionStands
    BY DEF TurnInv
  <1> QED
    BY <1>1, TurnInvariance, PTL

(* As long as decide requests do not overlap, no Idempotency-Key is recorded      *)
(* with two decisions.                                                           *)
THEOREM KeysDecideOnce == Spec => []DecideOncePerKey
  <1>1. TurnInv => DecideOncePerKey
    BY DEF TurnInv
  <1> QED
    BY <1>1, TurnInvariance, PTL

================================================================================
