------------------------------- MODULE JobEvents -------------------------------
(***************************************************************************)
(* The event stream of a job: GET /jobs/{id}/events polls the durable log  *)
(* of the job (module JobLog, which JobPipeline implements), sends every   *)
(* step it has not sent, and ends with a done event once the status is     *)
(* terminal.  The client reconnects with the id of the last event it got.  *)
(***************************************************************************)
EXTENDS Naturals, Sequences

CONSTANTS
    Job,             \* the job that is followed
    MaxDrops         \* bound on the connections lost

ASSUME EventsAssumption == MaxDrops \in Nat

VARIABLES
    log, scores, memo, state,   \* the record of the job, see JobLog
    phase, seq, batch,          \* the stream: where it is, its cursor, rows fetched
    wire,                       \* events sent and not yet received
    got, done,                  \* the client: ids received, whether done was received
    drops

Record == INSTANCE JobLog WITH Jobs <- {Job}, status <- state

recordVars == <<log, scores, memo, state>>
streamVars == <<phase, seq, batch>>
clientVars == <<got, done, drops>>
followVars == <<streamVars, wire, clientVars>>
eventVars == <<recordVars, followVars>>

Terminal == {"succeeded", "failed", "cancelled", "partial"}
Done == 0                \* stands for the done event, which carries no id

StreamTypeOK ==
    /\ log \in [{Job} -> SUBSET (1..6)]
    /\ scores \in [{Job} -> 0..1] /\ memo \in [{Job} -> 0..1]
    /\ state \in [{Job} -> Terminal \cup {"none", "queued", "running"}]
    /\ phase \in {"closed", "query", "send", "status"}
    /\ seq \in 0..6
    /\ batch \in SUBSET (1..6)
    /\ wire \in Seq(0..6)
    /\ got \in Seq(1..6)
    /\ done \in BOOLEAN
    /\ drops \in 0..MaxDrops

FollowInit ==
    /\ phase = "closed" /\ seq = 0 /\ batch = {}
    /\ wire = <<>>
    /\ got = <<>> /\ done = FALSE
    /\ drops = 0

--------------------------------------------------------------------------------
(* job_events *)

LastId == IF got = <<>> THEN 0 ELSE got[Len(got)]

\* Mutant: the header Last-Event-ID is ignored.
ConnectAfresh ==
    /\ Record!Created(Job)
    /\ phase = "closed" /\ ~done /\ wire = <<>>
    /\ phase' = "query" /\ seq' = 0 /\ batch' = {}
    /\ UNCHANGED <<recordVars, wire, clientVars>>

\* The client connects, naming the last event it received; _job finds no row
\* before the job is created.
Connect ==
    /\ Record!Created(Job)
    /\ phase = "closed" /\ ~done /\ wire = <<>>
    /\ phase' = "query" /\ seq' = LastId /\ batch' = {}
    /\ UNCHANGED <<recordVars, wire, clientVars>>

\* The rows with seq > cursor.
Newer(s) == {n \in log[Job] : n > s}

QuerySteps ==
    /\ phase = "query"
    /\ batch' = Newer(seq)
    /\ phase' = "send"
    /\ UNCHANGED <<recordVars, seq, wire, clientVars>>

\* The rows come in the order of seq.
SendStep ==
    /\ phase = "send"
    /\ \E n \in batch :
         /\ \A m \in batch : n <= m
         /\ seq' = n
         /\ wire' = Append(wire, n)
         /\ batch' = batch \ {n}
    /\ UNCHANGED <<recordVars, phase, clientVars>>

\* Mutant: succeeded is the only status that ends the stream.
ReadOnlySuccess ==
    /\ phase = "send" /\ batch = {}
    /\ phase' = IF state[Job] = "succeeded" THEN "status" ELSE "query"
    /\ UNCHANGED <<recordVars, seq, batch, wire, clientVars>>

\* poll_session.get(Job), after the rows of the batch have been sent; if the
\* status is not terminal the stream sleeps a second and polls again.
ReadStatus ==
    /\ phase = "send" /\ batch = {}
    /\ phase' = IF state[Job] \in Terminal THEN "status" ELSE "query"
    /\ UNCHANGED <<recordVars, seq, batch, wire, clientVars>>

\* Mutant: the done event has an id too.
SendDoneNumbered ==
    /\ phase = "status"
    /\ wire' = Append(wire, seq + 1)
    /\ phase' = "closed"
    /\ UNCHANGED <<recordVars, seq, batch, clientVars>>

SendDone ==
    /\ phase = "status"
    /\ wire' = Append(wire, Done)
    /\ phase' = "closed"
    /\ UNCHANGED <<recordVars, seq, batch, clientVars>>

--------------------------------------------------------------------------------
(* The network and the client (external) *)

Receive ==
    /\ wire # <<>>
    /\ wire' = Tail(wire)
    /\ IF Head(wire) = Done THEN done' = TRUE /\ UNCHANGED got
       ELSE got' = Append(got, Head(wire)) /\ UNCHANGED done
    /\ UNCHANGED <<recordVars, streamVars, drops>>

\* The connection is lost with everything on the wire; the stream ends when it
\* finds the client disconnected.
Drop ==
    /\ drops < MaxDrops
    /\ ~done /\ (phase # "closed" \/ wire # <<>>)
    /\ drops' = drops + 1
    /\ wire' = <<>> /\ phase' = "closed" /\ batch' = {}
    /\ UNCHANGED <<recordVars, seq, got, done>>

--------------------------------------------------------------------------------
(* Specification *)

Stream == Connect \/ QuerySteps \/ SendStep \/ ReadStatus \/ SendDone
Follow == Stream \/ Receive \/ Drop

\* The job, as far as its record shows; JobPipeline implements it.
Work == Record!Next /\ UNCHANGED followVars

StreamInit == Record!Init /\ FollowInit
StreamNext == Work \/ Follow

\* The stream polls every second and the client reads and reconnects.  The job
\* need not make progress.
StreamFairness == WF_eventVars(Stream) /\ WF_eventVars(Receive)
StreamSafety == StreamInit /\ [][StreamNext]_eventVars
StreamSpec == StreamSafety /\ StreamFairness

--------------------------------------------------------------------------------
(* Properties *)

(* Across reconnections the client gets the steps of the job in order, each once, *)
(* with none missing in between and none that is not in the log, although batches *)
(* are read while the job is still writing and connections break with events in   *)
(* flight.                                                                        *)
NoGapNoRepeat == \A i \in 1..Len(got) : got[i] = i /\ i \in log[Job]

(* Once a job stays in a terminal status, whichever it is, its client is told.   *)
DoneArrives == <>[](state[Job] \in Terminal) => <>done

================================================================================
