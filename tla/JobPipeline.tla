------------------------------ MODULE JobPipeline ------------------------------
(***************************************************************************)
(* The screening job of Dolphin-VC, from the HTTP handlers that create,    *)
(* retry and cancel it, through the arq queue, to the worker that runs     *)
(* process_job, and the reaper that fails jobs with a stale heartbeat.     *)
(*                                                                         *)
(* One action is one database round trip whose result another process can  *)
(* interleave with: a read that process_job acts on later, or a committed  *)
(* transaction.  Values read are kept in the run's local state, because    *)
(* the SQLAlchemy session (expire_on_commit and autoflush are off) never   *)
(* reads a loaded row again.                                               *)
(*                                                                         *)
(* The opportunity row itself (stage, version, decision) is the subject of *)
(* module Opportunity; here an opportunity is only the owner of its        *)
(* prescreen row, claims, axis scores and memos.  Edits of a stored memo   *)
(* (PATCH) are left out.                                                   *)
(***************************************************************************)
EXTENDS Naturals, Sequences, FiniteSets

CONSTANTS
    Jobs,            \* identifiers of jobs, each used for at most one row
    Opps,            \* opportunities
    Docs,            \* deck documents
    BlankDocs,       \* the decks no claim can be extracted from
    ClientKeys,      \* Idempotency-Key values (with the job kind folded in)
    Workers,         \* slots in which process_job can run
    Handlers,        \* HTTP requests that can be in progress together
    None,            \* absence of a job, deck or input
    Eager,           \* settings.queue_eager: run in the API process, no arq
    Aging,           \* whether behaviours may outlast the 24 h of a key
    MaxDeliveries    \* bound on the executions of one job (arq's max_tries)

ASSUME PipelineAssumption ==
    /\ None \notin Jobs \cup Opps \cup Docs
    /\ BlankDocs \subseteq Docs
    /\ Eager \in BOOLEAN /\ Aging \in BOOLEAN
    /\ MaxDeliveries \in Nat

VARIABLES
    \* the jobs and agent_steps tables
    status,          \* job -> JobStatus, "none" for an id not used yet
    attempts,        \* job -> Job.attempts
    beating,         \* jobs whose heartbeat_at is not null
    input,           \* job -> target, idempotency key and document_id
    recent,          \* jobs created within the last 24 hours
    steps,           \* job -> the seq values of its agent_steps rows
    \* the tables process_job writes for an opportunity or a document
    prescreened,     \* opportunities with a prescreen_results row
    pages,           \* documents with document_pages rows
    claims,          \* opportunity -> the jobs whose run inserted its claims
    axisRows,        \* opportunity -> axis -> opportunity_scores rows
    memos,           \* opportunity -> memos rows
    \* arq, in Redis
    queued,          \* job ids in the queue, running ones included
    deliveries,      \* job -> number of executions started
    \* executions of process_job
    pc, cur, local,
    \* HTTP requests and the reaper
    api,
    victims          \* jobs the reaper has selected and not yet committed

jobVars == <<status, attempts, beating, input, recent>>
oppVars == <<prescreened, pages, claims, axisRows, memos>>
queueVars == <<queued, deliveries>>
runVars == <<pc, cur, local>>
vars == <<jobVars, steps, oppVars, queueVars, runVars, api, victims>>

--------------------------------------------------------------------------------
(* Types *)

JobStatus == {"queued", "running", "succeeded", "partial", "failed", "cancelled"}
Seqs == 1..6
Axes == 1..3          \* founder, market, idea_vs_market, in the order scored
Row == [version : Nat, job : Jobs]

\* retry_job builds the key "retry:{old.id}:{old.attempts}"
Keys == ClientKeys \cup (Jobs \X Nat)
Input == [opp : Opps, key : Keys, deck : Docs \cup {None}]

ASSUME NoInputAssumption == None \notin Input

Labels == {"idle", "load", "start", "step1", "prescreen",
           "add_prescreen", "claims", "extract", "save_claims", "step2", "axes",
           "save_axes", "step3", "step4", "memo", "save_memo", "step5", "done",
           "error"}

\* What one execution of process_job has read and not yet used.
Local == [status : JobStatus, attempts : Nat, pages : BOOLEAN, claims : BOOLEAN,
          axes : Seq(Nat), memo : Nat]
Fresh == [status |-> "queued", attempts |-> 0, pages |-> FALSE, claims |-> FALSE,
          axes |-> <<>>, memo |-> 0]

Request == [pc : {"idle", "insert", "dispatch", "cancel"},
            job : Jobs \cup {None}, input : Input \cup {None}]
Idle == [pc |-> "idle", job |-> None, input |-> None]

TypeOK ==
    /\ status \in [Jobs -> JobStatus \cup {"none"}]
    /\ attempts \in [Jobs -> Nat]
    /\ beating \in SUBSET Jobs
    /\ input \in [Jobs -> Input \cup {None}]
    /\ recent \in SUBSET Jobs
    /\ steps \in [Jobs -> SUBSET Seqs]
    /\ prescreened \in SUBSET Opps
    /\ pages \in SUBSET Docs
    /\ claims \in [Opps -> SUBSET Jobs]
    /\ axisRows \in [Opps -> [Axes -> SUBSET Row]]
    /\ memos \in [Opps -> SUBSET Row]
    /\ queued \in SUBSET Jobs
    /\ deliveries \in [Jobs -> Nat]
    /\ pc \in [Workers -> Labels]
    /\ cur \in [Workers -> Jobs \cup {None}]
    /\ local \in [Workers -> Local]
    /\ api \in [Handlers -> Request]
    /\ victims \in SUBSET Jobs

Init ==
    /\ status = [j \in Jobs |-> "none"]
    /\ attempts = [j \in Jobs |-> 0]
    /\ beating = {}
    /\ input = [j \in Jobs |-> None]
    /\ recent = {}
    /\ steps = [j \in Jobs |-> {}]
    /\ prescreened = {}
    /\ pages = {}
    /\ claims = [o \in Opps |-> {}]
    /\ axisRows = [o \in Opps |-> [a \in Axes |-> {}]]
    /\ memos = [o \in Opps |-> {}]
    /\ queued = {}
    /\ deliveries = [j \in Jobs |-> 0]
    /\ pc = [w \in Workers |-> "idle"]
    /\ cur = [w \in Workers |-> None]
    /\ local = [w \in Workers |-> Fresh]
    /\ api = [h \in Handlers |-> Idle]
    /\ victims = {}

--------------------------------------------------------------------------------
(* HTTP requests: create_job behind _start_job and retry_job, cancel_job *)

\* create_job's lookup: same target and key, created less than 24 hours ago.
Existing(in) ==
    {j \in recent : input[j].opp = in.opp /\ input[j].key = in.key}

\* _start_job: a replayed request returns the job it finds and dispatches
\* nothing; a new one goes on to insert its row.
StartJob(h) ==
    /\ api[h].pc = "idle"
    /\ \E in \in [opp : Opps, key : ClientKeys, deck : Docs \cup {None}] :
         /\ Existing(in) = {}
         /\ api' = [api EXCEPT ![h] = [pc |-> "insert", job |-> None, input |-> in]]
    /\ UNCHANGED <<jobVars, steps, oppVars, queueVars, runVars, victims>>

\* retry_job: only failed and partial jobs; the job found or created is
\* dispatched in both cases.
Retryable == {"failed", "partial"}

RetryJob(h) ==
    /\ api[h].pc = "idle"
    /\ \E old \in Jobs :
         /\ status[old] \in Retryable
         /\ LET in == [input[old] EXCEPT !.key = <<old, attempts[old]>>]
            IN  \/ \E j \in Existing(in) :
                     api' = [api EXCEPT ![h] =
                               [pc |-> "dispatch", job |-> j, input |-> None]]
                \/ /\ Existing(in) = {}
                   /\ api' = [api EXCEPT ![h] =
                               [pc |-> "insert", job |-> None, input |-> in]]
    /\ UNCHANGED <<jobVars, steps, oppVars, queueVars, runVars, victims>>

\* The insert of create_job and the caller's commit.  There is no uniqueness
\* constraint on the key, so a row inserted since the lookup does not matter.
InsertJob(h) ==
    /\ api[h].pc = "insert"
    /\ \E j \in Jobs :
         /\ status[j] = "none"
         /\ status' = [status EXCEPT ![j] = "queued"]
         /\ input' = [input EXCEPT ![j] = api[h].input]
         /\ recent' = recent \cup {j}
         /\ api' = [api EXCEPT ![h] = [pc |-> "dispatch", job |-> j, input |-> None]]
    /\ UNCHANGED <<attempts, beating, steps, oppVars, queueVars, runVars, victims>>

\* A run of process_job for job j begins in slot w.
Begin(w, j) ==
    /\ pc[w] = "idle"
    /\ deliveries[j] < MaxDeliveries
    /\ deliveries' = [deliveries EXCEPT ![j] = @ + 1]
    /\ pc' = [pc EXCEPT ![w] = "load"]
    /\ cur' = [cur EXCEPT ![w] = j]
    /\ UNCHANGED local

\* dispatch_job.  Eager: an asyncio task, with no deduplication.  Otherwise arq's
\* enqueue_job under _job_id, a no-op while the id is queued, and also when it
\* has been executed and its result is still kept (keep_result may have passed).
Dispatch(h) ==
    /\ api[h].pc = "dispatch"
    /\ api' = [api EXCEPT ![h] = Idle]
    /\ LET j == api[h].job
       IN  \/ /\ Eager
              /\ \E w \in Workers : Begin(w, j)
              /\ UNCHANGED queued
           \/ /\ ~Eager
              /\ \/ queued' = queued \cup {j}
                 \/ deliveries[j] > 0 /\ UNCHANGED queued
              /\ UNCHANGED <<deliveries, runVars>>
    /\ UNCHANGED <<jobVars, steps, oppVars, victims>>

\* Redis is unreachable (dispatch_job swallows the exception), or the API
\* process dies after the commit: the row is there and nothing is enqueued.
DispatchLost(h) ==
    /\ api[h].pc = "dispatch"
    /\ api' = [api EXCEPT ![h] = Idle]
    /\ UNCHANGED <<jobVars, steps, oppVars, queueVars, runVars, victims>>

\* cancel_job reads the row, refuses these statuses, and commits later.
Uncancellable == {"succeeded", "failed", "cancelled"}

CancelJob(h) ==
    /\ api[h].pc = "idle"
    /\ \E j \in Jobs :
         /\ status[j] \in JobStatus \ Uncancellable
         /\ api' = [api EXCEPT ![h] = [pc |-> "cancel", job |-> j, input |-> None]]
    /\ UNCHANGED <<jobVars, steps, oppVars, queueVars, runVars, victims>>

CommitCancel(h) ==
    /\ api[h].pc = "cancel"
    /\ status' = [status EXCEPT ![api[h].job] = "cancelled"]
    /\ api' = [api EXCEPT ![h] = Idle]
    /\ UNCHANGED <<attempts, beating, input, recent, steps, oppVars, queueVars,
                   runVars, victims>>

\* Twenty-four hours pass: the job no longer answers to its idempotency key.
ExpireKey(j) ==
    /\ Aging
    /\ j \in recent
    /\ recent' = recent \ {j}
    /\ UNCHANGED <<status, attempts, beating, input, steps, oppVars, queueVars,
                   runVars, api, victims>>

--------------------------------------------------------------------------------
(* The arq queue (external): at-least-once delivery of job ids to workers.  An
   id stays queued while it runs; it is handed out again when its in-progress
   key times out, because its worker died or its event loop stalled. *)

Deliver(w, j) ==
    /\ j \in queued
    /\ Begin(w, j)
    /\ UNCHANGED <<jobVars, steps, oppVars, queued, api, victims>>

\* arq gives up on a job after max_tries executions.
DropExhausted(j) ==
    /\ j \in queued
    /\ deliveries[j] >= MaxDeliveries
    /\ queued' = queued \ {j}
    /\ UNCHANGED <<jobVars, steps, oppVars, deliveries, runVars, api, victims>>

RedisLost ==
    /\ queued # {}
    /\ queued' = {}
    /\ UNCHANGED <<jobVars, steps, oppVars, deliveries, runVars, api, victims>>

--------------------------------------------------------------------------------
(* One execution of process_job *)

At(w, label) == pc[w] = label

Goto(w, label) ==
    /\ pc' = [pc EXCEPT ![w] = label]
    /\ UNCHANGED <<cur, queueVars>>

\* The run leaves the worker without arq hearing of it.
Vanish(w) ==
    /\ pc' = [pc EXCEPT ![w] = "idle"]
    /\ cur' = [cur EXCEPT ![w] = None]
    /\ local' = [local EXCEPT ![w] = Fresh]

\* process_job returns or raises: arq takes the id off the queue and keeps a
\* result, and does not run it again.
Return(w) ==
    /\ Vanish(w)
    /\ IF Eager
         THEN UNCHANGED queueVars
         ELSE /\ queued' = queued \ {cur[w]}
              /\ UNCHANGED deliveries

Opp(w) == input[cur[w]].opp
Deck(w) == input[cur[w]].deck

\* Mutant: no status is refused.
RefusedNothing == {}

\* session.get(Job): the only status process_job refuses is cancelled.
Refused == {"cancelled"}

LoadJob(w) ==
    /\ At(w, "load")
    /\ \/ /\ status[cur[w]] \in Refused
          /\ Return(w)
       \/ /\ status[cur[w]] \notin Refused
          /\ local' = [local EXCEPT ![w].status = status[cur[w]],
                                    ![w].attempts = attempts[cur[w]]]
          /\ Goto(w, "start")
    /\ UNCHANGED <<jobVars, steps, oppVars, api, victims>>

\* Mutant: the first commit of a run leaves heartbeat_at alone.
MarkRunningSilently(w) ==
    /\ At(w, "start")
    /\ status' = [status EXCEPT ![cur[w]] = "running"]
    /\ attempts' = [attempts EXCEPT ![cur[w]] = local[w].attempts + 1]
    /\ local' = [local EXCEPT ![w] = Fresh]
    /\ Goto(w, "step1")
    /\ UNCHANGED <<beating, input, recent, steps, oppVars, api, victims>>

\* The UPDATE carries only columns that differ from the row as it was loaded, so
\* a job loaded as running does not have its status written again.  The commit
\* that follows only touches rows of module Opportunity (stage SCREENING, the
\* application PARSING); the opportunity and its company are never deleted.
MarkRunning(w) ==
    LET j == cur[w] IN
    /\ At(w, "start")
    /\ status' = IF local[w].status = "running" THEN status
                 ELSE [status EXCEPT ![j] = "running"]
    /\ attempts' = [attempts EXCEPT ![j] = local[w].attempts + 1]
    /\ beating' = beating \cup {j}
    /\ local' = [local EXCEPT ![w] = Fresh]
    /\ Goto(w, "step1")
    /\ UNCHANGED <<input, recent, steps, oppVars, api, victims>>

\* An insert that violates a uniqueness constraint.  The exception handler of
\* process_job then commits on a session that needs a rollback, which raises
\* again: the job row keeps the status it has.
Conflict(w) ==
    /\ Return(w)
    /\ UNCHANGED <<jobVars, steps, oppVars, api, victims>>

\* Mutant: agent_steps without its uniqueness constraint.
StepNeverTaken(j, n) == FALSE

\* uq(job_id, seq) of agent_steps
StepTaken(j, n) == n \in steps[j]

\* _step: the row, the progress and the heartbeat in one transaction.
Step(w, label, n, next) ==
    /\ At(w, label)
    /\ \/ /\ StepTaken(cur[w], n)
          /\ Conflict(w)
       \/ /\ ~StepTaken(cur[w], n)
          /\ steps' = [steps EXCEPT ![cur[w]] = @ \cup {n}]
          /\ beating' = beating \cup {cur[w]}
          /\ Goto(w, next)
          /\ UNCHANGED <<status, attempts, input, recent, oppVars, local, api, victims>>

\* Mutants: the wrong number, and a step left out.
StepMisnumbered(w) == Step(w, "step2", 3, "axes")
StepSkipsMemo(w) == Step(w, "step4", 4, "step5")

StepPrescreen(w) == Step(w, "step1", 1, "prescreen")
StepExtract(w) == Step(w, "step2", 2, "axes")
StepScore(w) == Step(w, "step3", 3, "step4")
StepRecommend(w) == Step(w, "step4", 4, "memo")
StepMemo(w) == Step(w, "step5", 5, "done")

ReadPrescreen(w) ==
    /\ At(w, "prescreen")
    /\ Goto(w, IF Opp(w) \in prescreened THEN "claims" ELSE "add_prescreen")
    /\ UNCHANGED <<jobVars, steps, oppVars, local, api, victims>>

\* prescreen_results has the opportunity as its primary key.
AddPrescreen(w) ==
    /\ At(w, "add_prescreen")
    /\ \/ /\ Opp(w) \in prescreened
          /\ Conflict(w)
       \/ /\ Opp(w) \notin prescreened
          /\ prescreened' = prescreened \cup {Opp(w)}
          /\ Goto(w, "claims")
          /\ UNCHANGED <<jobVars, steps, pages, claims, axisRows, memos, local, api,
                         victims>>

\* Without a deck the claims already stored are used; with one,
\* _parse_and_extract first looks for the deck's pages.
ReadPages(w) ==
    /\ At(w, "claims")
    /\ \/ /\ Deck(w) = None
          /\ Goto(w, "step2")
          /\ UNCHANGED local
       \/ /\ Deck(w) # None
          /\ local' = [local EXCEPT ![w].pages = Deck(w) \in pages]
          /\ Goto(w, "extract")
    /\ UNCHANGED <<jobVars, steps, oppVars, api, victims>>

\* The object store or the parser raises; only a deck without pages is parsed.
ParseFails(w) ==
    /\ At(w, "extract")
    /\ ~local[w].pages
    /\ local' = [local EXCEPT ![w] = Fresh]
    /\ Goto(w, "error")
    /\ UNCHANGED <<jobVars, steps, oppVars, api, victims>>

ReadClaims(w) ==
    /\ At(w, "extract")
    /\ local' = [local EXCEPT ![w].claims = claims[Opp(w)] # {}]
    /\ Goto(w, "save_claims")
    /\ UNCHANGED <<jobVars, steps, oppVars, api, victims>>

\* Mutant: document_pages without its uniqueness constraint.
PagesNeverTaken(w) == FALSE

\* uq(document_id, page_no) of document_pages
PagesTaken(w) == Deck(w) \in pages

\* The commit after _parse_and_extract: pages, and claims with their evidence
\* unless claims were already there, in one transaction.
SaveClaims(w) ==
    /\ At(w, "save_claims")
    /\ \/ /\ ~local[w].pages /\ PagesTaken(w)
          /\ Conflict(w)
       \/ /\ local[w].pages \/ ~PagesTaken(w)
          /\ pages' = pages \cup {Deck(w)}
          /\ claims' = IF local[w].claims \/ Deck(w) \in BlankDocs THEN claims
                       ELSE [claims EXCEPT ![Opp(w)] = @ \cup {cur[w]}]
          /\ local' = [local EXCEPT ![w] = Fresh]
          /\ Goto(w, "step2")
          /\ UNCHANGED <<jobVars, steps, prescreened, axisRows, memos, api, victims>>

\* Mutant: the "or 0" after select max(version) forgotten.
LatestOrNull(rows) ==
    IF rows = {} THEN {None}
    ELSE {v \in {r.version : r \in rows} : \A r \in rows : r.version <= v}

\* What select max(version) can return, with nothing stored read as 0.
Latest(rows) ==
    IF rows = {} THEN {0}
    ELSE {v \in {r.version : r \in rows} : \A r \in rows : r.version <= v}

\* _score_axes reads the latest version of one axis after the other.
ReadAxis(w) ==
    /\ At(w, "axes")
    /\ \E v \in Latest(axisRows[Opp(w)][Len(local[w].axes) + 1]) :
         local' = [local EXCEPT ![w].axes = Append(@, v)]
    /\ Goto(w, IF Len(local[w].axes) = 2 THEN "save_axes" ELSE "axes")
    /\ UNCHANGED <<jobVars, steps, oppVars, api, victims>>

\* Mutant: opportunity_scores without its uniqueness constraint.
AxisNeverTaken(w) == FALSE

\* uq(opportunity_id, axis, version) of opportunity_scores
AxisTaken(w) ==
    \E a \in Axes : \E r \in axisRows[Opp(w)][a] : r.version = local[w].axes[a] + 1

SaveAxes(w) ==
    /\ At(w, "save_axes")
    /\ \/ /\ AxisTaken(w)
          /\ Conflict(w)
       \/ /\ ~AxisTaken(w)
          /\ axisRows' = [axisRows EXCEPT ![Opp(w)] =
                            [a \in Axes |-> @[a] \cup
                               {[version |-> local[w].axes[a] + 1, job |-> cur[w]]}]]
          /\ local' = [local EXCEPT ![w] = Fresh]
          /\ Goto(w, "step3")
          /\ UNCHANGED <<jobVars, steps, prescreened, pages, claims, memos, api, victims>>

ReadMemo(w) ==
    /\ At(w, "memo")
    /\ \E v \in Latest(memos[Opp(w)]) : local' = [local EXCEPT ![w].memo = v]
    /\ Goto(w, "save_memo")
    /\ UNCHANGED <<jobVars, steps, oppVars, api, victims>>

\* uq(opportunity_id, version) of memos
MemoTaken(w) == \E r \in memos[Opp(w)] : r.version = local[w].memo + 1

SaveMemo(w) ==
    /\ At(w, "save_memo")
    /\ \/ /\ MemoTaken(w)
          /\ Conflict(w)
       \/ /\ ~MemoTaken(w)
          /\ memos' = [memos EXCEPT ![Opp(w)] =
                         @ \cup {[version |-> local[w].memo + 1, job |-> cur[w]]}]
          /\ local' = [local EXCEPT ![w] = Fresh]
          /\ Goto(w, "step5")
          /\ UNCHANGED <<jobVars, steps, prescreened, pages, claims, axisRows, api,
                         victims>>

\* The last transaction: status, result and the step row with seq 6.
Succeed(w) ==
    /\ At(w, "done")
    /\ \/ /\ StepTaken(cur[w], 6)
          /\ Conflict(w)
       \/ /\ ~StepTaken(cur[w], 6)
          /\ steps' = [steps EXCEPT ![cur[w]] = @ \cup {6}]
          /\ status' = [status EXCEPT ![cur[w]] = "succeeded"]
          /\ Return(w)
          /\ UNCHANGED <<attempts, beating, input, recent, oppVars, api, victims>>

\* The exception handler, after an exception that left the session usable.
CommitFailed(w) ==
    /\ At(w, "error")
    /\ status' = [status EXCEPT ![cur[w]] = "failed"]
    /\ Return(w)
    /\ UNCHANGED <<attempts, beating, input, recent, steps, oppVars, api, victims>>

\* job_timeout cancels the task (CancelledError is not an Exception), or the
\* database connection is lost, or a statement or lock times out again and again:
\* open work is rolled back, the row stays as it is.
Abandon(w) ==
    /\ ~At(w, "idle")
    /\ Return(w)
    /\ UNCHANGED <<jobVars, steps, oppVars, api, victims>>

\* The worker process dies.
Crash(w) ==
    /\ ~At(w, "idle")
    /\ Vanish(w)
    /\ UNCHANGED <<jobVars, steps, oppVars, queueVars, api, victims>>

--------------------------------------------------------------------------------
(* reap_stale_jobs, which the scheduler runs every minute *)

\* Running with a heartbeat on record.  More than 90 seconds may pass between
\* any two steps of a run, so any such job can be found stale.
Stale(j) == status[j] = "running" /\ j \in beating

ReaperSelect ==
    /\ victims = {}
    /\ victims' \in SUBSET {j \in Jobs : Stale(j)}
    /\ victims' # {}
    /\ UNCHANGED <<jobVars, steps, oppVars, queueVars, runVars, api>>

\* Updates the rows by primary key, whatever they have become since.
ReaperCommit ==
    /\ victims # {}
    /\ status' = [j \in Jobs |-> IF j \in victims THEN "failed" ELSE status[j]]
    /\ victims' = {}
    /\ UNCHANGED <<attempts, beating, input, recent, steps, oppVars, queueVars,
                   runVars, api>>

--------------------------------------------------------------------------------
(* Specification *)

RunStep(w) ==
    \/ LoadJob(w) \/ MarkRunning(w)
    \/ StepPrescreen(w) \/ ReadPrescreen(w) \/ AddPrescreen(w)
    \/ ReadPages(w) \/ ParseFails(w) \/ ReadClaims(w) \/ SaveClaims(w)
    \/ StepExtract(w) \/ ReadAxis(w) \/ SaveAxes(w) \/ StepScore(w)
    \/ StepRecommend(w) \/ ReadMemo(w) \/ SaveMemo(w) \/ StepMemo(w)
    \/ Succeed(w) \/ CommitFailed(w)

RunFault(w) == Abandon(w) \/ Crash(w)

Http(h) ==
    \/ StartJob(h) \/ RetryJob(h) \/ InsertJob(h)
    \/ Dispatch(h) \/ DispatchLost(h) \/ CancelJob(h) \/ CommitCancel(h)

Queue ==
    \/ \E w \in Workers, j \in Jobs : Deliver(w, j)
    \/ \E j \in Jobs : DropExhausted(j)
    \/ RedisLost

Reaper ==
    \/ ReaperSelect \/ ReaperCommit

Next ==
    \/ \E h \in Handlers : Http(h)
    \/ Queue
    \/ \E w \in Workers : RunStep(w) \/ RunFault(w)
    \/ Reaper
    \/ \E j \in Jobs : ExpireKey(j)

Spec == Init /\ [][Next]_vars

--------------------------------------------------------------------------------
(* Fairness: workers and arq make progress, the scheduler runs the reaper   *)
(* every minute, and time passes.  Clients and faults need not act.         *)

Fairness ==
    /\ \A w \in Workers : WF_vars(RunStep(w))
    /\ \A h \in Handlers : WF_vars(InsertJob(h) \/ Dispatch(h) \/ CommitCancel(h))
    /\ \A j \in Jobs : /\ WF_vars(\E w \in Workers : Deliver(w, j))
                       /\ WF_vars(DropExhausted(j))
                       /\ WF_vars(ReaperSelect /\ j \in victims')
    /\ WF_vars(ReaperCommit)

FairSpec == Spec /\ Fairness

--------------------------------------------------------------------------------
(* Properties *)

RowsBy(rows, j) == {r \in rows : r.job = j}
Active(w, j) == cur[w] = j /\ pc[w] \notin {"idle", "load"}

(* The agent_steps rows of a job are always 1..n for some n: redeliveries,   *)
(* crashes between transactions and overlapping runs leave no gap for the    *)
(* SSE stream to skip.                                                       *)
StepsInOrder == \A j \in Jobs : \E n \in 0..6 : steps[j] = 1..n

(* However often arq delivers a job, and however its runs overlap, process_job *)
(* stores at most one memo for it.                                           *)
OneMemoPerJob ==
    \A o, p \in Opps : \A r \in memos[o], s \in memos[p] :
        r.job = s.job => o = p /\ r = s

(* Seen through the rows it leaves, every job is one sequential execution: the *)
(* specification implements JobLog, in which steps are logged in order and once, *)
(* axis scores and memo appear once, each between its two steps, nothing is    *)
(* written before a run has started the job, and the status becomes succeeded  *)
(* with step 6 and never otherwise.                                            *)
ScoresBy(j) == RowsBy(UNION {axisRows[o][1] : o \in Opps}, j)
MemosBy(j) == RowsBy(UNION {memos[o] : o \in Opps}, j)

Log == INSTANCE JobLog WITH
           log <- steps,
           scores <- [j \in Jobs |-> Cardinality(ScoresBy(j))],
           memo <- [j \in Jobs |-> Cardinality(MemosBy(j))]

ImplementsJobLog == Log!Spec

(* A succeeded job has its six steps, its memo and its three axis scores: the *)
(* status is never ahead of what process_job stored.                          *)
SucceededIsComplete ==
    \A j \in Jobs : status[j] = "succeeded" =>
        /\ steps[j] = Seqs
        /\ RowsBy(memos[input[j].opp], j) # {}
        /\ \A a \in Axes : RowsBy(axisRows[input[j].opp][a], j) # {}

(* The three axes of an opportunity are scored together: each version exists  *)
(* for all three, from one and the same job, and versions are numbered without *)
(* gaps, although _score_axes reads the three latest versions one by one.      *)
AxesInStep ==
    \A o \in Opps :
        /\ \A a, b \in Axes : axisRows[o][a] = axisRows[o][b]
        /\ \A a \in Axes : \A r \in axisRows[o][a] : \A v \in 1..r.version :
               \E s \in axisRows[o][a] : s.version = v

(* When an opportunity's jobs all read one deck, and no other opportunity uses *)
(* that deck, its claims are extracted at most once: the pages' uniqueness     *)
(* constraint serialises the runs of _parse_and_extract.                       *)
DeckOwner(o, d) ==
    \A j \in Jobs : input[j] # None /\ input[j].deck # None =>
        (input[j].deck = d <=> input[j].opp = o)

OneExtraction ==
    \A o \in Opps, d \in Docs : DeckOwner(o, d) => Cardinality(claims[o]) <= 1

(* A cancellation that finds no run of the job past its status check, and no   *)
(* reaper about to commit, is final: no later delivery of the job, retry of the *)
(* request or sweep of the reaper revives it.                                  *)
QuietlyCancelled(j) ==
    status[j] = "cancelled" /\ j \notin victims /\ \A w \in Workers : ~Active(w, j)

QuietCancelIsFinal ==
    [][\A j \in Jobs : QuietlyCancelled(j) => QuietlyCancelled(j)']_vars

(* No job runs for ever: whatever its workers do, and even when a conflict makes *)
(* the exception handler itself fail, the job is finished or reaped for good.    *)
RunningJobsSettle == \A j \in Jobs : <>[](status[j] # "running")

(* docs/frontend-revision-guide.md:321 "Treat `succeeded`, `partial`, `failed`,  *)
(* and `cancelled` as terminal states."                                          *)
TerminalIsFinal ==
    [][\A j \in Jobs :
          status[j] \in {"succeeded", "partial", "failed", "cancelled"}
          => status'[j] = status[j]]_vars

(* app/services/jobs.py:71 "Postgres remains the source of truth. The reaper can *)
(* enqueue this row later."                                                      *)
QueuedJobsRun == \A j \in Jobs : status[j] = "queued" ~> status[j] # "queued"

================================================================================
