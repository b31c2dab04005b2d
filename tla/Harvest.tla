-------------------------------- MODULE Harvest --------------------------------
(***************************************************************************)
(* The harvest job: process_job's branch for the kind ingest.harvest.  A   *)
(* run asks one source after the other for items, stores the new ones as   *)
(* signals, each with a queued screening job, commits once per source, and *)
(* hands the screening jobs to arq only after the last source.             *)
(*                                                                         *)
(* How a signal becomes a company and an opportunity is not modelled here. *)
(* A signal and its screening job are added in one transaction; one row    *)
(* stands for both.  Only a signal whose handling raised has no job; it is *)
(* never among those to dispatch.  Delivery is at least once, as module    *)
(* JobPipeline models it in detail.                                        *)
(***************************************************************************)
EXTENDS Naturals, FiniteSets

CONSTANTS
    Harvests,        \* identifiers of harvest jobs, each used for at most one row
    NumSources,      \* the sources are 1..NumSources, in the order they are asked
    NoKey,           \* the sources for which a worker may lack credentials
    Items,           \* what a source can return, told apart by hash and date
    Workers,         \* slots in which process_job can run
    None,
    MaxDeliveries    \* bound on the executions of harvests

Sources == 1..NumSources

ASSUME HarvestAssumption ==
    /\ NumSources \in Nat /\ MaxDeliveries \in Nat
    /\ NoKey \subseteq Sources
    /\ None \notin Harvests

VARIABLES
    status,          \* harvest -> JobStatus, "none" for an id not used yet
    steps,           \* harvest -> the seq values of its agent_steps rows
    known,           \* sources with their sources and sourcing_channels rows
    counts,          \* source -> SourcingChannel.discovered_count
    signals,         \* signals rows, each with its screening job
    dispatched,      \* rows whose screening job was handed to arq
    dropped,         \* rows whose dispatch failed without anybody noticing
    queued,          \* harvests in the arq queue, running ones included
    deliveries,      \* number of executions started
    run              \* worker -> its execution of process_job

dbVars == <<known, counts, signals, dispatched, dropped>>
queueVars == <<queued, deliveries>>
vars == <<status, steps, dbVars, queueVars, run>>

--------------------------------------------------------------------------------
(* Types *)

JobStatus == {"queued", "running", "succeeded", "partial", "failed"}
Row == [source : Sources, item : Items, by : Harvests]

\* seq: the source it is at; todo, fresh, base: of the current source the items to
\* check, the rows added and discovered_count as read; kids: the screening jobs to
\* dispatch; failed: the sources in failures.
Run == [pc : {"idle", "start", "source", "ask", "items", "step", "finish",
              "dispatch"},
        job : Harvests \cup {None}, seq : 0..NumSources, todo : SUBSET Items,
        fresh : SUBSET Row, knew : BOOLEAN, base : Nat, kids : SUBSET Row,
        failed : SUBSET Sources]
Away == [pc |-> "idle", job |-> None, seq |-> 0, todo |-> {}, fresh |-> {},
         knew |-> FALSE, base |-> 0, kids |-> {}, failed |-> {}]

TypeOK ==
    /\ status \in [Harvests -> JobStatus \cup {"none"}]
    /\ steps \in [Harvests -> SUBSET Sources]
    /\ known \in SUBSET Sources
    /\ counts \in [Sources -> Nat]
    /\ signals \in SUBSET Row
    /\ dispatched \in SUBSET Row
    /\ dropped \in SUBSET Row
    /\ queued \in SUBSET Harvests
    /\ deliveries \in 0..MaxDeliveries
    /\ run \in [Workers -> Run]

Init ==
    /\ status = [h \in Harvests |-> "none"]
    /\ steps = [h \in Harvests |-> {}]
    /\ known = {}
    /\ counts = [s \in Sources |-> 0]
    /\ signals = {}
    /\ dispatched = {}
    /\ dropped = {}
    /\ queued = {}
    /\ deliveries = 0
    /\ run = [w \in Workers |-> Away]

--------------------------------------------------------------------------------
(* The job from outside *)

\* POST /admin/harvest, or retry_job for a harvest that failed or was partial: in
\* both cases a new job with the same input.
Create(h) ==
    /\ status[h] = "none"
    /\ status' = [status EXCEPT ![h] = "queued"]
    /\ queued' = queued \cup {h}
    /\ UNCHANGED <<steps, dbVars, deliveries, run>>

\* arq (external) hands the job to a worker, perhaps again.
Deliver(w, h) ==
    /\ run[w].pc = "idle"
    /\ h \in queued
    /\ deliveries < MaxDeliveries
    /\ deliveries' = deliveries + 1
    /\ run' = [run EXCEPT ![w] = [Away EXCEPT !.pc = "start", !.job = h]]
    /\ UNCHANGED <<status, steps, dbVars, queued>>

\* reap_stale_jobs: _process_harvest never renews the heartbeat, so a harvest of
\* more than 90 seconds is failed while it runs.
Reap(h) ==
    /\ status[h] = "running"
    /\ status' = [status EXCEPT ![h] = "failed"]
    /\ UNCHANGED <<steps, dbVars, queueVars, run>>

\* The run ends, and arq takes the job off the queue.
Return(w) ==
    /\ run' = [run EXCEPT ![w] = Away]
    /\ queued' = queued \ {run[w].job}
    /\ UNCHANGED deliveries

\* The worker dies, or job_timeout ends the run; only in the first case the job
\* stays queued.
Crash(w) ==
    /\ run[w].pc # "idle"
    /\ \/ Return(w)
       \/ run' = [run EXCEPT ![w] = Away] /\ UNCHANGED queueVars
    /\ UNCHANGED <<status, steps, dbVars>>

--------------------------------------------------------------------------------
(* _process_harvest *)

Job(w) == run[w].job
Seq(w) == run[w].seq

\* Mutant: the loop ends one source late.
AdvancePast(r) ==
    IF r.seq > NumSources THEN [r EXCEPT !.pc = "finish"]
    ELSE [r EXCEPT !.pc = "source", !.seq = @ + 1]

\* The top of the loop over the sources, or its end.
Advance(r) ==
    IF r.seq = NumSources THEN [r EXCEPT !.pc = "finish"]
    ELSE [r EXCEPT !.pc = "source", !.seq = @ + 1]

\* Loading the job and marking it are one step here; JobPipeline has the race
\* between the two, and cancellation.
MarkRunning(w) ==
    /\ run[w].pc = "start"
    /\ status' = [status EXCEPT ![Job(w)] = "running"]
    /\ run' = [run EXCEPT ![w] = Advance(run[w])]
    /\ UNCHANGED <<steps, dbVars, queueVars>>

\* Mutant: a source without credentials is passed over in silence.
SkippedSilently(r) == Advance(r)

\* "continue" leaves the iteration before its agent_steps row.
Skipped(r) == Advance([r EXCEPT !.failed = @ \cup {r.seq}])

\* select Source; then connector.enabled
ReadSource(w) ==
    /\ run[w].pc = "source"
    /\ \/ /\ Seq(w) \in NoKey
          /\ run' = [run EXCEPT ![w] = Skipped(run[w])]
       \/ run' = [run EXCEPT ![w].pc = "ask", ![w].knew = Seq(w) \in known]
    /\ UNCHANGED <<status, steps, dbVars, queueVars>>

\* connector.harvest returns; the channel is read.
Ask(w) ==
    /\ run[w].pc = "ask"
    /\ \E found \in SUBSET Items :
         run' = [run EXCEPT ![w].pc = "items", ![w].todo = found,
                            ![w].base = counts[Seq(w)]]
    /\ UNCHANGED <<status, steps, dbVars, queueVars>>

\* connector.harvest raises: the source is degraded, which is committed only if
\* its row was there.
AskFails(w) ==
    /\ run[w].pc = "ask"
    /\ run' = [run EXCEPT ![w].pc = "step", ![w].failed = @ \cup {Seq(w)}]
    /\ UNCHANGED <<status, steps, dbVars, queueVars>>

\* uq(source_id, content_hash, observed_at) of signals
Stored(s, i) == \E r \in signals : r.source = s /\ r.item = i

\* The signal of item i, as run w stores it
Signal(w, i) == [source |-> Seq(w), item |-> i, by |-> Job(w)]

\* One item of the list: skipped when its signal exists, else added with its job.
CheckItem(w) ==
    /\ run[w].pc = "items"
    /\ \E i \in run[w].todo :
         LET new == IF Stored(Seq(w), i) THEN {} ELSE {Signal(w, i)}
         IN  run' = [run EXCEPT ![w].todo = @ \ {i},
                                ![w].fresh = @ \cup new,
                                ![w].kids = @ \cup new]
    /\ UNCHANGED <<status, steps, dbVars, queueVars>>

\* channel.discovered_count += 1 for every item added, on the row as read
Counted(w) == run[w].base + Cardinality(run[w].fresh)

\* Mutant: signals and sources without their uniqueness constraints.
NeverTaken(w, rows) == FALSE

\* A row to be inserted exists by now: one of the signals, or the source itself.
Taken(w, rows) ==
    \/ \E r \in rows : Stored(r.source, r.item)
    \/ ~run[w].knew /\ Seq(w) \in known

\* Mutant: the session is rolled back and the next source is asked.
ConflictCarriesOn(w) ==
    /\ run' = [run EXCEPT ![w] =
                 Advance([run[w] EXCEPT !.fresh = {}, !.failed = @ \cup {Seq(w)}])]
    /\ UNCHANGED <<status, steps, dbVars, queueVars>>

\* An insert violates a uniqueness constraint.  The handler of the loop commits on
\* the broken session, which raises again, and so does the handler of process_job.
Conflict(w) ==
    /\ Return(w)
    /\ UNCHANGED <<status, steps, dbVars>>

\* The session is committed, with the signals in rows.
Save(w, rows, fails) ==
    \/ /\ Taken(w, rows)
       /\ Conflict(w)
    \/ /\ ~Taken(w, rows)
       /\ known' = known \cup {Seq(w)}
       /\ signals' = signals \cup rows
       /\ counts' = IF Counted(w) = run[w].base THEN counts
                    ELSE [counts EXCEPT ![Seq(w)] = Counted(w)]
       /\ run' = [run EXCEPT ![w].pc = "step", ![w].todo = {}, ![w].fresh = {},
                             ![w].failed = @ \cup fails]
       /\ UNCHANGED <<status, steps, dispatched, dropped, queueVars>>

CommitSource(w) ==
    /\ run[w].pc = "items" /\ run[w].todo = {}
    /\ Save(w, run[w].fresh, {})

\* Handling an item raises, before its signal is added or after; the session is
\* still good.  The handler marks the source as degraded and commits what there is.
ItemFails(w) ==
    /\ run[w].pc = "items"
    /\ \E i \in run[w].todo : \E new \in {{}, {Signal(w, i)}} :
         Save(w, run[w].fresh \cup new, {Seq(w)})

\* The agent_steps row of the source, unique in (job_id, seq).
Step(w) ==
    /\ run[w].pc = "step"
    /\ \/ /\ Seq(w) \in steps[Job(w)]
          /\ Conflict(w)
       \/ /\ Seq(w) \notin steps[Job(w)]
          /\ steps' = [steps EXCEPT ![Job(w)] = @ \cup {Seq(w)}]
          /\ run' = [run EXCEPT ![w] = Advance(run[w])]
          /\ UNCHANGED <<status, dbVars, queueVars>>

Finish(w) ==
    /\ run[w].pc = "finish"
    /\ status' = [status EXCEPT ![Job(w)] =
                    IF run[w].failed = {} THEN "succeeded" ELSE "partial"]
    /\ run' = [run EXCEPT ![w].pc = "dispatch"]
    /\ UNCHANGED <<steps, dbVars, queueVars>>

\* dispatch_job for one screening job; a failure of Redis is swallowed.
DispatchChild(w) ==
    /\ run[w].pc = "dispatch"
    /\ \E r \in run[w].kids :
         /\ \/ dispatched' = dispatched \cup {r} /\ UNCHANGED dropped
            \/ dropped' = dropped \cup {r} /\ UNCHANGED dispatched
         /\ run' = [run EXCEPT ![w].kids = @ \ {r}]
    /\ UNCHANGED <<status, steps, known, counts, signals, queueVars>>

Done(w) ==
    /\ run[w].pc = "dispatch" /\ run[w].kids = {}
    /\ Return(w)
    /\ UNCHANGED <<status, steps, dbVars>>

--------------------------------------------------------------------------------

RunStep(w) ==
    \/ MarkRunning(w) \/ ReadSource(w) \/ Ask(w) \/ AskFails(w) \/ CheckItem(w)
    \/ CommitSource(w) \/ ItemFails(w) \/ Step(w) \/ Finish(w) \/ DispatchChild(w) \/ Done(w)

Next ==
    \/ \E h \in Harvests : Create(h) \/ Reap(h)
    \/ \E w \in Workers, h \in Harvests : Deliver(w, h)
    \/ \E w \in Workers : RunStep(w) \/ Crash(w)

Spec == Init /\ [][Next]_vars

--------------------------------------------------------------------------------
(* Properties *)

(* Overlapping and repeated harvests store each item of a source once.            *)
SignalsOnce ==
    \A r, s \in signals : r.source = s.source /\ r.item = s.item => r = s

(* What is reported and handed on was stored: discovered_count, incremented on a   *)
(* row read earlier, never claims more than there is, and a source whose           *)
(* transaction was rolled back leaves no job id behind in the list handed to arq.  *)
NothingInvented ==
    /\ \A s \in Sources : counts[s] <= Cardinality({r \in signals : r.source = s})
    /\ dispatched \cup dropped \subseteq signals

(* A harvest is succeeded only if every source was asked and has its step, also   *)
(* after redeliveries and reaping; a source passed over makes it partial.         *)
SucceededIsFull ==
    \A h \in Harvests : status[h] = "succeeded" => steps[h] = Sources

================================================================================
