------------------------------ MODULE HarvestProofs ------------------------------
(* Theorems about Harvest, for any harvests, sources, items and workers. *)
EXTENDS Harvest, FiniteSetTheorems, TLAPS

--------------------------------------------------------------------------------
(* The invariant *)

Of(s, sig) == {x \in sig : x.source = s}

(* What a run of _process_harvest holds: every source it has left behind has its step *)
(* or is in failures; the rows it is about to insert are of the current source; what  *)
(* it will dispatch is stored, or about to be; and the counter it read was honest.    *)
(* sig and st are the tables signals and steps.                                       *)
RunReads(r, sig, st) ==
    /\ r.pc # "idle" => r.job \in Harvests
    /\ r.pc = "start" => r.seq = 0
    /\ r.pc \in {"source", "ask", "items", "step"} => r.seq \in Sources
    /\ r.pc # "idle" => 1..(r.seq - 1) \subseteq st[r.job] \cup r.failed
    /\ r.pc = "finish" => Sources \subseteq st[r.job] \cup r.failed
    /\ r.pc # "items" => r.fresh = {}
    /\ \A x \in r.fresh : x.source = r.seq /\ x.by = r.job
    /\ IsFiniteSet(r.fresh)
    /\ r.kids \subseteq sig \cup r.fresh
    /\ r.pc = "items" => r.base <= Cardinality(Of(r.seq, sig))

RunsRead == \A w \in Workers : RunReads(run[w], signals, steps)

Inv ==
    /\ TypeOK /\ RunsRead /\ IsFiniteSet(signals)
    /\ SignalsOnce /\ NothingInvented /\ SucceededIsFull

--------------------------------------------------------------------------------
(* Runs *)

LEMMA RunTypes ==
  ASSUME NEW r \in Run
  PROVE  /\ r.job \in Harvests \cup {None} /\ r.seq \in 0..NumSources
         /\ r.todo \subseteq Items /\ r.fresh \subseteq Row /\ r.base \in Nat
         /\ r.kids \subseteq Row /\ r.failed \subseteq Sources
  BY DEF Run

LEMMA AwayRun ==
  /\ Away \in Run /\ Away.pc = "idle" /\ Away.seq = 0 /\ Away.fresh = {} /\ Away.kids = {}
  /\ Away.failed = {}
  BY HarvestAssumption DEF Away, Run

LEMMA AwayReads ==
  ASSUME NEW sig, NEW st
  PROVE  RunReads(Away, sig, st)
  BY AwayRun, FS_EmptySet DEF RunReads

(* Tables only grow, and what a run has read of them stays true. *)
LEMMA ReadsKept ==
  ASSUME NEW r \in Run, NEW sig, NEW st, NEW sigp, NEW stp, RunReads(r, sig, st),
         sig \subseteq sigp, IsFiniteSet(sigp), \A h \in Harvests : st[h] \subseteq stp[h]
  PROVE  RunReads(r, sigp, stp)
  <1>1. r.pc = "items" => r.base <= Cardinality(Of(r.seq, sigp))
    <2> SUFFICES ASSUME r.pc = "items" PROVE r.base <= Cardinality(Of(r.seq, sigp))
      OBVIOUS
    <2>1. IsFiniteSet(Of(r.seq, sigp))
      <3>1. Of(r.seq, sigp) \in SUBSET sigp
        BY DEF Of
      <3> QED
        BY <3>1, FS_Subset
    <2>2. Of(r.seq, sig) \in SUBSET Of(r.seq, sigp)
      BY DEF Of
    <2>3. Cardinality(Of(r.seq, sig)) <= Cardinality(Of(r.seq, sigp)) /\ IsFiniteSet(Of(r.seq, sig))
      BY <2>1, <2>2, FS_Subset
    <2>4. Cardinality(Of(r.seq, sig)) \in Nat /\ Cardinality(Of(r.seq, sigp)) \in Nat
      BY <2>1, <2>3, FS_CardinalityType
    <2>5. r.base <= Cardinality(Of(r.seq, sig)) /\ r.base \in Nat
      BY RunTypes DEF RunReads
    <2> QED
      BY <2>3, <2>4, <2>5
  <1> QED
    BY <1>1 DEF RunReads

(* The end of an iteration, once its source has its step or is in failures *)
LEMMA Advanced ==
  ASSUME NEW r \in Run, NEW sig, NEW st, r.job \in Harvests, r.pc # "idle",
         r.fresh = {}, r.kids \subseteq sig, 1..r.seq \subseteq st[r.job] \cup r.failed
  PROVE  Advance(r) \in Run /\ RunReads(Advance(r), sig, st)
  <1>1. r.seq \in 0..NumSources /\ NumSources \in Nat
    BY RunTypes, HarvestAssumption
  <1>2. IsFiniteSet({})
    BY FS_EmptySet
  <1>3. CASE r.seq = NumSources
    <2> DEFINE a == [r EXCEPT !.pc = "finish"]
    <2>1. /\ a \in Run /\ a.pc = "finish" /\ a.job = r.job /\ a.seq = r.seq /\ a.fresh = r.fresh
          /\ a.kids = r.kids /\ a.failed = r.failed
      BY DEF Run
    <2>2. Advance(r) = a
      BY <1>3 DEF Advance
    <2> HIDE DEF a
    <2>3. Sources = 1..r.seq /\ 1..(r.seq - 1) \subseteq 1..r.seq
      BY <1>1, <1>3 DEF Sources
    <2> QED
      BY <1>2, <2>1, <2>2, <2>3 DEF RunReads
  <1>4. CASE r.seq # NumSources
    <2> DEFINE a == [r EXCEPT !.pc = "source", !.seq = r.seq + 1]
    <2>1. r.seq + 1 \in 0..NumSources /\ r.seq + 1 \in Sources /\ (r.seq + 1) - 1 = r.seq
      BY <1>1, <1>4 DEF Sources
    <2>2. /\ a \in Run /\ a.pc = "source" /\ a.job = r.job /\ a.seq = r.seq + 1
          /\ a.fresh = r.fresh /\ a.kids = r.kids /\ a.failed = r.failed
      BY <2>1 DEF Run
    <2>3. Advance(r) = a
      BY <1>4 DEF Advance
    <2> HIDE DEF a
    <2> QED
      BY <1>2, <2>1, <2>2, <2>3 DEF RunReads
  <1> QED
    BY <1>3, <1>4

--------------------------------------------------------------------------------
(* Steps that store nothing *)

LEMMA RunsKept ==
  ASSUME Inv, NEW w \in Workers, NEW r \in Run, run' = [run EXCEPT ![w] = r],
         RunReads(r, signals', steps'), signals \subseteq signals', IsFiniteSet(signals'),
         \A h \in Harvests : steps[h] \subseteq steps'[h]
  PROVE  run' \in [Workers -> Run] /\ RunsRead'
  <1>1. /\ run' \in [Workers -> Run] /\ run'[w] = r
        /\ \A g \in Workers : g # w => run'[g] = run[g]
    BY DEF Inv, TypeOK
  <1>2. \A g \in Workers : run[g] \in Run /\ RunReads(run[g], signals, steps)
    BY DEF Inv, TypeOK, RunsRead
  <1>3. ASSUME NEW g \in Workers PROVE RunReads(run'[g], signals', steps')
    <2>1. CASE g = w
      BY <1>1, <2>1
    <2>2. CASE g # w
      BY <1>1, <1>2, <2>2, ReadsKept
    <2> QED
      BY <2>1, <2>2
  <1> QED
    BY <1>1, <1>3 DEF RunsRead

LEMMA InvRun ==
  ASSUME Inv, NEW w \in Workers, NEW r \in Run, run' = [run EXCEPT ![w] = r],
         RunReads(r, signals, steps), UNCHANGED <<steps, known, counts, signals>>,
         dispatched' \cup dropped' \subseteq signals,
         status' \in [Harvests -> JobStatus \cup {"none"}], SucceededIsFull',
         queued' \subseteq Harvests, deliveries' \in 0..MaxDeliveries
  PROVE  Inv'
  <1>1. run' \in [Workers -> Run] /\ RunsRead'
    <2>1. RunReads(r, signals', steps') /\ signals \subseteq signals' /\ IsFiniteSet(signals')
      BY DEF Inv
    <2> QED
      BY <2>1, RunsKept
  <1>2. TypeOK'
    BY <1>1 DEF Inv, TypeOK
  <1>3. NothingInvented' /\ SignalsOnce'
    BY DEF Inv, NothingInvented, SignalsOnce
  <1> QED
    BY <1>1, <1>2, <1>3 DEF Inv

LEMMA InvMove ==
  ASSUME Inv, NEW w \in Workers, NEW r \in Run, run' = [run EXCEPT ![w] = r],
         RunReads(r, signals, steps), UNCHANGED <<status, steps, dbVars>>,
         queued' \subseteq Harvests, deliveries' \in 0..MaxDeliveries
  PROVE  Inv'
  <1>1. UNCHANGED <<status, steps, known, counts, signals, dispatched, dropped>>
    BY DEF dbVars
  <1>2. dispatched' \cup dropped' \subseteq signals
    BY <1>1 DEF Inv, NothingInvented
  <1>3. status' \in [Harvests -> JobStatus \cup {"none"}]
    BY <1>1 DEF Inv, TypeOK
  <1>4. SucceededIsFull'
    BY <1>1 DEF Inv, SucceededIsFull
  <1> QED
    BY <1>1, <1>2, <1>3, <1>4, InvRun

LEMMA RunAt ==
  ASSUME Inv, NEW w \in Workers
  PROVE  /\ run[w] \in Run /\ RunReads(run[w], signals, steps)
         /\ queued \subseteq Harvests /\ deliveries \in 0..MaxDeliveries
         /\ MaxDeliveries \in Nat /\ NumSources \in Nat
  BY HarvestAssumption DEF Inv, TypeOK, RunsRead

LEMMA InvReturn ==
  ASSUME Inv, NEW w \in Workers, Return(w), UNCHANGED <<status, steps, dbVars>>
  PROVE  Inv'
  <1>1. run' = [run EXCEPT ![w] = Away] /\ queued' \subseteq Harvests /\ deliveries' \in 0..MaxDeliveries
    BY RunAt DEF Return
  <1> QED
    BY <1>1, AwayRun, AwayReads, InvMove

LEMMA InvCrash ==
  ASSUME Inv, NEW w \in Workers, Crash(w)
  PROVE  Inv'
  <1>1. UNCHANGED <<status, steps, dbVars>>
    BY DEF Crash
  <1>2. CASE Return(w)
    BY <1>1, <1>2, InvReturn
  <1>3. CASE run' = [run EXCEPT ![w] = Away] /\ UNCHANGED queueVars
    <2>1. queued' \subseteq Harvests /\ deliveries' \in 0..MaxDeliveries
      BY <1>3, RunAt DEF queueVars
    <2> QED
      BY <1>1, <1>3, <2>1, AwayRun, AwayReads, InvMove
  <1> QED
    BY <1>2, <1>3 DEF Crash

LEMMA InvDeliver ==
  ASSUME Inv, NEW w \in Workers, NEW h \in Harvests, Deliver(w, h)
  PROVE  Inv'
  <1> DEFINE r == [Away EXCEPT !.pc = "start", !.job = h]
  <1>1. /\ run' = [run EXCEPT ![w] = r] /\ deliveries' = deliveries + 1
        /\ deliveries < MaxDeliveries /\ queued' = queued /\ UNCHANGED <<status, steps, dbVars>>
    BY DEF Deliver
  <1>2. deliveries' \in 0..MaxDeliveries /\ queued' \subseteq Harvests
    BY <1>1, RunAt
  <1>3. /\ r \in Run /\ r.pc = "start" /\ r.job = h /\ r.seq = 0 /\ r.fresh = {} /\ r.kids = {}
    BY AwayRun DEF Away, Run
  <1> HIDE DEF r
  <1>4. RunReads(r, signals, steps)
    BY <1>3, FS_EmptySet DEF RunReads
  <1> QED
    BY <1>1, <1>2, <1>3, <1>4, InvMove

LEMMA InvMarkRunning ==
  ASSUME Inv, NEW w \in Workers, MarkRunning(w)
  PROVE  Inv'
  <1>1. /\ run[w].pc = "start" /\ run' = [run EXCEPT ![w] = Advance(run[w])]
        /\ status' = [status EXCEPT ![run[w].job] = "running"]
        /\ UNCHANGED <<steps, known, counts, signals, dispatched, dropped, queued, deliveries>>
    BY DEF MarkRunning, dbVars, queueVars, Job
  <1>2. /\ run[w].job \in Harvests /\ run[w].seq = 0 /\ run[w].fresh = {}
        /\ run[w].kids \subseteq signals
    BY <1>1, RunAt DEF RunReads
  <1>3. Advance(run[w]) \in Run /\ RunReads(Advance(run[w]), signals, steps)
    <2>1. 1..run[w].seq = {}
      BY <1>2
    <2> QED
      BY <1>1, <1>2, <2>1, RunAt, Advanced
  <1>4. status' \in [Harvests -> JobStatus \cup {"none"}]
    BY <1>1 DEF Inv, TypeOK, JobStatus
  <1>5. SucceededIsFull'
    BY <1>1, <1>2 DEF Inv, TypeOK, SucceededIsFull
  <1>6. dispatched' \cup dropped' \subseteq signals /\ queued' \subseteq Harvests /\ deliveries' \in 0..MaxDeliveries
    BY <1>1, RunAt DEF Inv, NothingInvented
  <1> QED
    BY <1>1, <1>3, <1>4, <1>5, <1>6, InvRun

LEMMA InvReadSource ==
  ASSUME Inv, NEW w \in Workers, ReadSource(w)
  PROVE  Inv'
  <1>1. /\ run[w].pc = "source" /\ UNCHANGED <<status, steps, dbVars>>
        /\ queued' \subseteq Harvests /\ deliveries' \in 0..MaxDeliveries
    BY RunAt DEF ReadSource, queueVars
  <1>2. /\ run[w] \in Run /\ RunReads(run[w], signals, steps) /\ run[w].seq \in Sources
        /\ run[w].fresh = {} /\ run[w].job \in Harvests /\ run[w].kids \subseteq signals
    BY <1>1, RunAt DEF RunReads
  <1>3. CASE run' = [run EXCEPT ![w] = Skipped(run[w])]
    <2> DEFINE q == [run[w] EXCEPT !.failed = run[w].failed \cup {run[w].seq}]
    <2>1. /\ q \in Run /\ q.pc = run[w].pc /\ q.job = run[w].job /\ q.seq = run[w].seq
          /\ q.fresh = run[w].fresh /\ q.kids = run[w].kids
          /\ q.failed = run[w].failed \cup {run[w].seq}
      BY <1>2 DEF Run
    <2>2. Skipped(run[w]) = Advance(q)
      BY DEF Skipped
    <2> HIDE DEF q
    <2>3. 1..q.seq \subseteq steps[q.job] \cup q.failed
      <3>1. 1..(run[w].seq - 1) \subseteq steps[run[w].job] \cup run[w].failed
        BY <1>1, <1>2 DEF RunReads
      <3>2. 1..run[w].seq = 1..(run[w].seq - 1) \cup {run[w].seq}
        BY <1>2, HarvestAssumption DEF Sources
      <3> QED
        BY <2>1, <3>1, <3>2
    <2>4. Advance(q) \in Run /\ RunReads(Advance(q), signals, steps)
      BY <1>1, <1>2, <2>1, <2>3, Advanced
    <2> QED
      BY <1>1, <1>3, <2>2, <2>4, InvMove
  <1>4. CASE run' = [run EXCEPT ![w].pc = "ask", ![w].knew = Seq(w) \in known]
    <2> DEFINE k == Seq(w) \in known
               q == [run[w] EXCEPT !.pc = "ask", !.knew = k]
    <2>0. k \in BOOLEAN /\ run' = [run EXCEPT ![w].pc = "ask", ![w].knew = k]
      BY <1>4
    <2> HIDE DEF k
    <2>1. /\ q \in Run /\ q.pc = "ask" /\ q.job = run[w].job /\ q.seq = run[w].seq
          /\ q.fresh = run[w].fresh /\ q.kids = run[w].kids /\ q.failed = run[w].failed
      BY <1>2, <2>0 DEF Run
    <2>2. run' = [run EXCEPT ![w] = q]
      BY <2>0
    <2> HIDE DEF q
    <2>3. RunReads(q, signals, steps)
      BY <1>1, <1>2, <2>1 DEF RunReads
    <2> QED
      BY <1>1, <2>1, <2>2, <2>3, InvMove
  <1> QED
    BY <1>3, <1>4 DEF ReadSource

LEMMA InvAsk ==
  ASSUME Inv, NEW w \in Workers, Ask(w)
  PROVE  Inv'
  <1>1. /\ run[w].pc = "ask" /\ UNCHANGED <<status, steps, dbVars>>
        /\ queued' \subseteq Harvests /\ deliveries' \in 0..MaxDeliveries
    BY RunAt DEF Ask, queueVars
  <1>2. PICK found \in SUBSET Items :
          run' = [run EXCEPT ![w].pc = "items", ![w].todo = found, ![w].base = counts[Seq(w)]]
    BY DEF Ask
  <1> DEFINE q == [run[w] EXCEPT !.pc = "items", !.todo = found, !.base = counts[Seq(w)]]
  <1>3. /\ run[w] \in Run /\ RunReads(run[w], signals, steps) /\ run[w].seq \in Sources
        /\ run[w].fresh = {}
    BY <1>1, RunAt DEF RunReads
  <1>4. counts[run[w].seq] \in Nat
    BY <1>3 DEF Inv, TypeOK
  <1>5. /\ q \in Run /\ q.pc = "items" /\ q.job = run[w].job /\ q.seq = run[w].seq
        /\ q.fresh = run[w].fresh /\ q.kids = run[w].kids /\ q.failed = run[w].failed
        /\ q.base = counts[run[w].seq]
    BY <1>3, <1>4 DEF Run, Seq
  <1>6. run' = [run EXCEPT ![w] = q]
    BY <1>2
  <1> HIDE DEF q
  <1>7. q.base <= Cardinality(Of(q.seq, signals))
    BY <1>3, <1>5 DEF Inv, NothingInvented, Of
  <1>8. RunReads(q, signals, steps)
    BY <1>1, <1>3, <1>5, <1>7 DEF RunReads
  <1> QED
    BY <1>1, <1>5, <1>6, <1>8, InvMove

LEMMA InvAskFails ==
  ASSUME Inv, NEW w \in Workers, AskFails(w)
  PROVE  Inv'
  <1>1. /\ run[w].pc = "ask" /\ UNCHANGED <<status, steps, dbVars>>
        /\ queued' \subseteq Harvests /\ deliveries' \in 0..MaxDeliveries
        /\ run' = [run EXCEPT ![w].pc = "step", ![w].failed = @ \cup {Seq(w)}]
    BY RunAt DEF AskFails, queueVars
  <1> DEFINE q == [run[w] EXCEPT !.pc = "step", !.failed = run[w].failed \cup {run[w].seq}]
  <1>2. /\ run[w] \in Run /\ RunReads(run[w], signals, steps) /\ run[w].seq \in Sources
        /\ run[w].fresh = {}
    BY <1>1, RunAt DEF RunReads
  <1>3. /\ q \in Run /\ q.pc = "step" /\ q.job = run[w].job /\ q.seq = run[w].seq
        /\ q.fresh = run[w].fresh /\ q.kids = run[w].kids
        /\ q.failed = run[w].failed \cup {run[w].seq}
    BY <1>2 DEF Run
  <1>4. run' = [run EXCEPT ![w] = q]
    BY <1>1 DEF Seq
  <1> HIDE DEF q
  <1>5. RunReads(q, signals, steps)
    BY <1>1, <1>2, <1>3 DEF RunReads
  <1> QED
    BY <1>1, <1>3, <1>4, <1>5, InvMove

LEMMA InvCheckItem ==
  ASSUME Inv, NEW w \in Workers, CheckItem(w)
  PROVE  Inv'
  <1>1. /\ run[w].pc = "items" /\ UNCHANGED <<status, steps, dbVars>>
        /\ queued' \subseteq Harvests /\ deliveries' \in 0..MaxDeliveries
    BY RunAt DEF CheckItem, queueVars
  <1>2. /\ run[w] \in Run /\ RunReads(run[w], signals, steps) /\ run[w].seq \in Sources
        /\ run[w].job \in Harvests /\ run[w].todo \subseteq Items
        /\ run[w].fresh \subseteq Row /\ run[w].kids \subseteq Row
    BY <1>1, RunAt, RunTypes DEF RunReads
  <1> DEFINE row(i) == Signal(w, i)
             new(i) == IF Stored(Seq(w), i) THEN {} ELSE {row(i)}
             q(i) == [run[w] EXCEPT !.todo = run[w].todo \ {i},
                                    !.fresh = run[w].fresh \cup new(i),
                                    !.kids = run[w].kids \cup new(i)]
  <1>3. PICK i \in run[w].todo :
          run' = [run EXCEPT ![w].todo = @ \ {i}, ![w].fresh = @ \cup new(i),
                             ![w].kids = @ \cup new(i)]
    BY DEF CheckItem
  <1>4. row(i) \in Row /\ row(i).source = run[w].seq /\ row(i).by = run[w].job
    BY <1>2 DEF Signal, Row, Seq, Job
  <1>5. /\ \A x \in new(i) : x.source = run[w].seq /\ x.by = run[w].job
        /\ new(i) \subseteq Row
        /\ IsFiniteSet(run[w].fresh \cup new(i))
    <2>1. IsFiniteSet(run[w].fresh)
      BY <1>2 DEF RunReads
    <2>2. IsFiniteSet(new(i))
      BY FS_EmptySet, FS_Singleton
    <2>3. IsFiniteSet(run[w].fresh \cup new(i))
      BY <2>1, <2>2, FS_Union
    <2> HIDE DEF row
    <2> QED
      BY <1>4, <2>3
  <1> HIDE DEF new
  <1>6. /\ q(i) \in Run /\ q(i).pc = "items" /\ q(i).job = run[w].job /\ q(i).seq = run[w].seq
        /\ q(i).fresh = run[w].fresh \cup new(i) /\ q(i).kids = run[w].kids \cup new(i)
        /\ q(i).failed = run[w].failed /\ q(i).base = run[w].base
    BY <1>1, <1>2, <1>5 DEF Run
  <1>7. run' = [run EXCEPT ![w] = q(i)]
    BY <1>3
  <1> HIDE DEF q
  <1>8. RunReads(q(i), signals, steps)
    BY <1>1, <1>2, <1>5, <1>6 DEF RunReads
  <1> QED
    BY <1>1, <1>6, <1>7, <1>8, InvMove

--------------------------------------------------------------------------------
(* Steps that store *)

(* The rows of a source are new to the table, so that the count read earlier and *)
(* the number of rows added are at most what there is now.                       *)
LEMMA InvSave ==
  ASSUME Inv, NEW w \in Workers, run[w].pc = "items", NEW rows \in SUBSET Row,
         NEW fails \in SUBSET {run[w].seq}, Save(w, rows, fails), IsFiniteSet(rows),
         run[w].fresh \subseteq rows,
         \A x \in rows : x.source = run[w].seq /\ x.by = run[w].job
  PROVE  Inv'
  <1> DEFINE F == run[w].fresh
             n == run[w].seq
  <1>1. run[w].pc = "items"
    OBVIOUS
  <1>2. /\ run[w] \in Run /\ RunReads(run[w], signals, steps) /\ n \in Sources
        /\ run[w].job \in Harvests /\ F \subseteq Row /\ IsFiniteSet(F)
        /\ run[w].kids \subseteq signals \cup F /\ run[w].base \in Nat
        /\ run[w].failed \subseteq Sources
        /\ run[w].base <= Cardinality(Of(n, signals))
    BY <1>1, RunAt, RunTypes DEF RunReads
  <1>3. CASE Taken(w, rows)
    <2>1. Return(w) /\ UNCHANGED <<status, steps, dbVars>>
      BY <1>3 DEF Save, Conflict
    <2> QED
      BY <2>1, InvReturn
  <1>4. CASE ~Taken(w, rows)
    <2>1. /\ known' = known \cup {n} /\ signals' = signals \cup rows
          /\ \/ counts' = counts
             \/ counts' = [counts EXCEPT ![n] = run[w].base + Cardinality(F)]
          /\ run' = [run EXCEPT ![w].pc = "step", ![w].todo = {}, ![w].fresh = {},
                                ![w].failed = @ \cup fails]
          /\ UNCHANGED <<status, steps, dispatched, dropped, queued, deliveries>>
      BY <1>4 DEF Save, Seq, Counted, queueVars
    <2>2. ASSUME NEW x \in rows, NEW y \in signals, x.source = y.source
          PROVE  x.item # y.item
      BY <1>4, <2>2 DEF Taken, Stored
    <2> DEFINE q == [run[w] EXCEPT !.pc = "step", !.todo = {}, !.fresh = {},
                                   !.failed = run[w].failed \cup fails]
    <2>3. /\ q \in Run /\ q.pc = "step" /\ q.job = run[w].job /\ q.seq = n /\ q.fresh = {}
          /\ q.kids = run[w].kids /\ q.failed = run[w].failed \cup fails
      BY <1>2 DEF Run
    <2>4. run' = [run EXCEPT ![w] = q]
      BY <2>1
    <2> HIDE DEF q, F, n
    <2>5. RunReads(q, signals', steps')
      BY <1>1, <1>2, <2>1, <2>3, FS_EmptySet DEF RunReads, n
    <2>6. signals \subseteq signals' /\ IsFiniteSet(signals) /\ IsFiniteSet(signals')
      BY <2>1, FS_Union DEF Inv
    <2>7. run' \in [Workers -> Run] /\ RunsRead'
      BY <2>1, <2>3, <2>4, <2>5, <2>6, RunsKept
    <2>8. SignalsOnce'
      <3> SUFFICES ASSUME NEW x \in signals \cup rows, NEW y \in signals \cup rows,
                          x.source = y.source, x.item = y.item
                   PROVE  x = y
        BY <2>1 DEF SignalsOnce
      <3>1. CASE x \in signals /\ y \in signals
        BY <3>1 DEF Inv, SignalsOnce
      <3>2. CASE x \in rows /\ y \in rows
        <4>1. x \in Row /\ y \in Row /\ x.by = y.by
          BY <3>2
        <4> QED
          BY <4>1 DEF Row
      <3>3. CASE (x \in rows /\ y \in signals) \/ (x \in signals /\ y \in rows)
        BY <2>2, <3>3
      <3> QED
        BY <3>1, <3>2, <3>3
    <2>9. \A s \in Sources : counts'[s] <= Cardinality(Of(s, signals'))
      <3> SUFFICES ASSUME NEW s \in Sources PROVE counts'[s] <= Cardinality(Of(s, signals'))
        OBVIOUS
      <3>1. IsFiniteSet(Of(s, signals')) /\ Of(s, signals) \in SUBSET Of(s, signals')
        <4>1. Of(s, signals') \in SUBSET signals'
          BY DEF Of
        <4> QED
          BY <2>6, <4>1, FS_Subset DEF Of
      <3>2. IsFiniteSet(Of(s, signals)) /\ Cardinality(Of(s, signals)) <= Cardinality(Of(s, signals'))
        BY <3>1, FS_Subset
      <3>3. /\ Cardinality(Of(s, signals)) \in Nat /\ Cardinality(Of(s, signals')) \in Nat
            /\ Cardinality(F) \in Nat /\ Cardinality(rows) \in Nat
            /\ Cardinality(F) <= Cardinality(rows)
        BY <1>2, <3>1, <3>2, FS_CardinalityType, FS_Subset DEF F
      <3>4. counts[s] <= Cardinality(Of(s, signals)) /\ counts[s] \in Nat
        BY DEF Inv, NothingInvented, TypeOK, Of
      <3>5. CASE counts'[s] = counts[s]
        BY <3>2, <3>3, <3>4, <3>5
      <3>6. CASE s = n /\ counts'[s] = run[w].base + Cardinality(F)
        <4>1. Of(n, signals') = Of(n, signals) \cup rows
          BY <1>2, <2>1 DEF Of, n
        <4>2. Of(n, signals) \cap rows = {}
          BY <2>2 DEF Of, n
        <4>3. Cardinality(Of(n, signals')) = Cardinality(Of(n, signals)) + Cardinality(rows) - 0
          BY <1>2, <3>2, <3>6, <4>1, <4>2, FS_Union, FS_EmptySet
        <4> QED
          BY <1>2, <3>3, <3>6, <4>3
      <3>7. counts \in [Sources -> Nat]
        BY DEF Inv, TypeOK
      <3> QED
        BY <2>1, <3>5, <3>6, <3>7
    <2>10. NothingInvented'
      BY <2>1, <2>9 DEF Inv, NothingInvented, Of
    <2>11. TypeOK'
      <3>1. Cardinality(F) \in Nat
        BY <1>2, FS_CardinalityType
      <3>2. counts' \in [Sources -> Nat]
        BY <1>2, <2>1, <3>1 DEF Inv, TypeOK
      <3> QED
        BY <1>2, <2>1, <2>7, <3>2 DEF Inv, TypeOK
    <2>12. SucceededIsFull'
      BY <2>1 DEF Inv, SucceededIsFull
    <2> QED
      BY <2>6, <2>7, <2>8, <2>10, <2>11, <2>12 DEF Inv
  <1> QED
    BY <1>3, <1>4

LEMMA InvCommitSource ==
  ASSUME Inv, NEW w \in Workers, CommitSource(w)
  PROVE  Inv'
  <1>1. run[w].pc = "items" /\ Save(w, run[w].fresh, {})
    BY DEF CommitSource
  <1>2. /\ run[w].fresh \in SUBSET Row /\ IsFiniteSet(run[w].fresh)
        /\ \A x \in run[w].fresh : x.source = run[w].seq /\ x.by = run[w].job
    BY <1>1, RunAt, RunTypes DEF RunReads
  <1> QED
    BY <1>1, <1>2, InvSave

LEMMA InvItemFails ==
  ASSUME Inv, NEW w \in Workers, ItemFails(w)
  PROVE  Inv'
  <1>0. PICK i \in run[w].todo : \E new \in {{}, {Signal(w, i)}} :
          run[w].pc = "items" /\ Save(w, run[w].fresh \cup new, {run[w].seq})
    BY DEF ItemFails, Seq
  <1>1. PICK new \in {{}, {Signal(w, i)}} :
          run[w].pc = "items" /\ Save(w, run[w].fresh \cup new, {run[w].seq})
    BY <1>0
  <1>2. /\ run[w].fresh \in SUBSET Row /\ IsFiniteSet(run[w].fresh) /\ run[w].seq \in Sources
        /\ run[w].job \in Harvests /\ i \in Items
        /\ \A x \in run[w].fresh : x.source = run[w].seq /\ x.by = run[w].job
    BY <1>1, RunAt, RunTypes DEF RunReads
  <1>3. /\ Signal(w, i) \in Row
        /\ Signal(w, i).source = run[w].seq /\ Signal(w, i).by = run[w].job
    BY <1>2 DEF Signal, Row, Seq, Job
  <1>4. IsFiniteSet(new)
    <2>1. new = {} \/ new = {Signal(w, i)}
      OBVIOUS
    <2>2. IsFiniteSet({Signal(w, i)})
      BY FS_Singleton
    <2> QED
      BY <2>1, <2>2, FS_EmptySet
  <1>5. IsFiniteSet(run[w].fresh \cup new)
    BY <1>2, <1>4, FS_Union
  <1> QED
    BY <1>1, <1>2, <1>3, <1>5, InvSave

LEMMA InvStepRow ==
  ASSUME Inv, NEW w \in Workers, Step(w)
  PROVE  Inv'
  <1> DEFINE n == run[w].seq
             j == run[w].job
  <1>1. run[w].pc = "step"
    BY DEF Step
  <1>2. /\ run[w] \in Run /\ RunReads(run[w], signals, steps) /\ n \in Sources
        /\ j \in Harvests /\ run[w].fresh = {} /\ run[w].kids \subseteq signals
        /\ 1..(n - 1) \subseteq steps[j] \cup run[w].failed
    BY <1>1, RunAt DEF RunReads
  <1>3. CASE n \in steps[j]
    <2>1. Return(w) /\ UNCHANGED <<status, steps, dbVars>>
      BY <1>3 DEF Step, Conflict, Seq, Job
    <2> QED
      BY <2>1, InvReturn
  <1>4. CASE n \notin steps[j]
    <2>1. /\ steps' = [steps EXCEPT ![j] = @ \cup {n}]
          /\ run' = [run EXCEPT ![w] = Advance(run[w])]
          /\ UNCHANGED <<status, known, counts, signals, dispatched, dropped, queued, deliveries>>
      BY <1>4 DEF Step, Seq, Job, dbVars, queueVars
    <2>2. /\ steps \in [Harvests -> SUBSET Sources] /\ steps' \in [Harvests -> SUBSET Sources]
          /\ steps'[j] = steps[j] \cup {n} /\ \A h \in Harvests : steps[h] \subseteq steps'[h]
      BY <1>2, <2>1 DEF Inv, TypeOK
    <2>3. 1..n \subseteq steps'[j] \cup run[w].failed
      <3>1. 1..n = 1..(n - 1) \cup {n}
        BY <1>2, HarvestAssumption DEF Sources
      <3> QED
        BY <1>2, <2>2, <3>1
    <2>4. Advance(run[w]) \in Run /\ RunReads(Advance(run[w]), signals', steps')
      <3>1. run[w].kids \subseteq signals' /\ run[w].pc # "idle"
        BY <1>1, <1>2, <2>1
      <3> QED
        BY <1>2, <2>3, <3>1, Advanced
    <2>5. signals \subseteq signals' /\ IsFiniteSet(signals')
      BY <2>1 DEF Inv
    <2>6. run' \in [Workers -> Run] /\ RunsRead'
      BY <2>1, <2>2, <2>4, <2>5, RunsKept
    <2>7. TypeOK'
      BY <2>1, <2>2, <2>6 DEF Inv, TypeOK
    <2>8. SucceededIsFull'
      <3> SUFFICES ASSUME NEW h \in Harvests, status[h] = "succeeded" PROVE steps'[h] = Sources
        BY <2>1 DEF SucceededIsFull
      <3>1. steps[h] = Sources
        BY DEF Inv, SucceededIsFull
      <3>2. steps'[h] \subseteq Sources
        BY <2>2
      <3> QED
        BY <2>2, <3>1, <3>2
    <2>9. SignalsOnce' /\ NothingInvented'
      BY <2>1 DEF Inv, SignalsOnce, NothingInvented
    <2> QED
      BY <2>5, <2>6, <2>7, <2>8, <2>9 DEF Inv
  <1> QED
    BY <1>3, <1>4

LEMMA InvFinish ==
  ASSUME Inv, NEW w \in Workers, Finish(w)
  PROVE  Inv'
  <1> DEFINE j == run[w].job
             end == IF run[w].failed = {} THEN "succeeded" ELSE "partial"
             q == [run[w] EXCEPT !.pc = "dispatch"]
  <1>1. /\ run[w].pc = "finish" /\ run' = [run EXCEPT ![w].pc = "dispatch"]
        /\ status' = [status EXCEPT ![j] = end]
        /\ UNCHANGED <<steps, known, counts, signals, dispatched, dropped, queued, deliveries>>
    BY DEF Finish, Job, dbVars, queueVars
  <1>2. /\ run[w] \in Run /\ RunReads(run[w], signals, steps) /\ j \in Harvests
        /\ run[w].fresh = {} /\ run[w].kids \subseteq signals
        /\ Sources \subseteq steps[j] \cup run[w].failed
    BY <1>1, RunAt DEF RunReads
  <1>3. /\ q \in Run /\ q.pc = "dispatch" /\ q.job = j /\ q.seq = run[w].seq /\ q.fresh = {}
        /\ q.kids = run[w].kids /\ q.failed = run[w].failed
    BY <1>2 DEF Run
  <1>4. run' = [run EXCEPT ![w] = q]
    BY <1>1
  <1> HIDE DEF q
  <1>5. RunReads(q, signals, steps)
    BY <1>1, <1>2, <1>3 DEF RunReads
  <1>6. status' \in [Harvests -> JobStatus \cup {"none"}]
    BY <1>1, <1>2 DEF Inv, TypeOK, JobStatus
  <1>7. SucceededIsFull'
    <2>1. steps[j] \subseteq Sources
      BY <1>2 DEF Inv, TypeOK
    <2>2. end = "succeeded" => steps[j] = Sources
      BY <1>2, <2>1
    <2> HIDE DEF end
    <2> QED
      BY <1>1, <1>2, <2>2 DEF Inv, TypeOK, SucceededIsFull
  <1>8. dispatched' \cup dropped' \subseteq signals /\ queued' \subseteq Harvests /\ deliveries' \in 0..MaxDeliveries
    BY <1>1, RunAt DEF Inv, NothingInvented
  <1> QED
    BY <1>1, <1>3, <1>4, <1>5, <1>6, <1>7, <1>8, InvRun

LEMMA InvDispatchChild ==
  ASSUME Inv, NEW w \in Workers, DispatchChild(w)
  PROVE  Inv'
  <1>1. run[w].pc = "dispatch" /\ UNCHANGED <<status, steps, known, counts, signals, queued, deliveries>>
    BY DEF DispatchChild, queueVars
  <1>2. PICK x \in run[w].kids :
          /\ \/ dispatched' = dispatched \cup {x} /\ UNCHANGED dropped
             \/ dropped' = dropped \cup {x} /\ UNCHANGED dispatched
          /\ run' = [run EXCEPT ![w].kids = @ \ {x}]
    BY DEF DispatchChild
  <1> DEFINE q == [run[w] EXCEPT !.kids = run[w].kids \ {x}]
  <1>3. /\ run[w] \in Run /\ RunReads(run[w], signals, steps)
        /\ run[w].fresh = {} /\ run[w].kids \subseteq signals
    BY <1>1, RunAt DEF RunReads
  <1>4. /\ q \in Run /\ q.pc = "dispatch" /\ q.job = run[w].job /\ q.seq = run[w].seq
        /\ q.fresh = {} /\ q.kids = run[w].kids \ {x} /\ q.failed = run[w].failed
    BY <1>1, <1>3 DEF Run
  <1>5. run' = [run EXCEPT ![w] = q]
    BY <1>2
  <1> HIDE DEF q
  <1>6. RunReads(q, signals, steps)
    BY <1>1, <1>3, <1>4, FS_EmptySet DEF RunReads
  <1>7. dispatched' \cup dropped' \subseteq signals
    BY <1>2, <1>3 DEF Inv, NothingInvented
  <1>8. /\ status' \in [Harvests -> JobStatus \cup {"none"}] /\ SucceededIsFull'
        /\ queued' \subseteq Harvests /\ deliveries' \in 0..MaxDeliveries
    BY <1>1 DEF Inv, TypeOK, SucceededIsFull
  <1> QED
    BY <1>1, <1>4, <1>5, <1>6, <1>7, <1>8, InvRun

--------------------------------------------------------------------------------
(* All steps *)

LEMMA InvInit == Init => Inv
  <1> SUFFICES ASSUME Init PROVE Inv
    OBVIOUS
  <1>1. TypeOK
    BY AwayRun, HarvestAssumption DEF Init, TypeOK
  <1>2. RunsRead
    BY AwayReads DEF Init, RunsRead
  <1>3. IsFiniteSet(signals) /\ SignalsOnce
    BY FS_EmptySet DEF Init, SignalsOnce
  <1>4. NothingInvented
    <2>1. \A s \in Sources : {r \in signals : r.source = s} = {} /\ counts[s] = 0
      BY DEF Init
    <2>2. \A s \in Sources : counts[s] <= Cardinality({r \in signals : r.source = s})
      BY <2>1, FS_EmptySet
    <2> QED
      BY <2>2 DEF Init, NothingInvented
  <1>5. SucceededIsFull
    BY DEF Init, SucceededIsFull
  <1> QED
    BY <1>1, <1>2, <1>3, <1>4, <1>5 DEF Inv

LEMMA InvOutside ==
  ASSUME Inv, UNCHANGED <<steps, dbVars, run>>, queued' \subseteq Harvests,
         deliveries' \in 0..MaxDeliveries,
         \/ status' = status
         \/ \E h \in Harvests : \E x \in {"queued", "failed"} : status' = [status EXCEPT ![h] = x]
  PROVE  Inv'
  <1>1. UNCHANGED <<steps, known, counts, signals, dispatched, dropped, run>>
    BY DEF dbVars
  <1>2. status' \in [Harvests -> JobStatus \cup {"none"}]
    BY DEF Inv, TypeOK, JobStatus
  <1>3. TypeOK'
    BY <1>1, <1>2 DEF Inv, TypeOK
  <1>4. SucceededIsFull'
    BY <1>1 DEF Inv, TypeOK, SucceededIsFull
  <1>5. RunsRead' /\ IsFiniteSet(signals') /\ SignalsOnce' /\ NothingInvented'
    BY <1>1 DEF Inv, RunsRead, SignalsOnce, NothingInvented
  <1> QED
    BY <1>3, <1>4, <1>5 DEF Inv

LEMMA InvStep == Inv /\ [Next]_vars => Inv'
  <1> SUFFICES ASSUME Inv, [Next]_vars PROVE Inv'
    OBVIOUS
  <1>1. queued \subseteq Harvests /\ deliveries \in 0..MaxDeliveries
    BY DEF Inv, TypeOK
  <1>2. ASSUME NEW h \in Harvests, Create(h) PROVE Inv'
    BY <1>1, <1>2, InvOutside DEF Create
  <1>3. ASSUME NEW h \in Harvests, Reap(h) PROVE Inv'
    BY <1>1, <1>3, InvOutside DEF Reap, queueVars
  <1>4. ASSUME NEW w \in Workers, Done(w) PROVE Inv'
    BY <1>4, InvReturn DEF Done
  <1>5. CASE UNCHANGED vars
    BY <1>1, <1>5, InvOutside DEF vars, queueVars
  <1> QED
    BY <1>2, <1>3, <1>4, <1>5, InvDeliver, InvCrash, InvMarkRunning, InvReadSource, InvAsk,
       InvAskFails, InvCheckItem, InvCommitSource, InvItemFails, InvStepRow, InvFinish,
       InvDispatchChild
       DEF Next, RunStep

--------------------------------------------------------------------------------
(* The theorems *)

(* What runs of _process_harvest hold while they ask their sources, and what the     *)
(* tables keep, with redeliveries, crashes and reaping at any point.                 *)
THEOREM Invariance == Spec => []Inv
  BY InvInit, InvStep, PTL DEF Spec

(* Rows, counters and runs have their types; a run stays within the list of sources. *)
THEOREM TypeCorrectness == Spec => []TypeOK
  BY Invariance, PTL DEF Inv

(* An item of a source has one signal, whichever harvests, first deliveries or later *)
(* ones, found it and looked it up before the others committed.                      *)
THEOREM ItemsStoredOnce == Spec => []SignalsOnce
  BY Invariance, PTL DEF Inv

(* discovered_count, which a run increments on the value it read before it stored    *)
(* its rows, never exceeds the signals of the source; every screening job handed to  *)
(* arq, or lost on the way, belongs to a stored signal.                              *)
THEOREM CountsAreHonest == Spec => []NothingInvented
  BY Invariance, PTL DEF Inv

(* A harvest that is succeeded has the step of every source, for any number of       *)
(* sources and after any number of runs that overlapped or died.                     *)
THEOREM SuccessIsFull == Spec => []SucceededIsFull
  BY Invariance, PTL DEF Inv

==================================================================================
