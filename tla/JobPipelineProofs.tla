--------------------------- MODULE JobPipelineProofs ---------------------------
(* Theorems about JobPipeline, for every set of jobs, workers and requests, and *)
(* about JobEvents, the stream that follows one of its jobs.                    *)
EXTENDS JobPipeline, JobEvents, FiniteSetTheorems, TLAPS

--------------------------------------------------------------------------------
(* Types are not inductive by themselves: retry_job copies the input of a job  *)
(* because that job exists, _score_axes reads exactly three versions, and so   *)
(* on.  References holds what the types need: whatever names a job names a row *)
(* that has been inserted.                                                     *)

Inserted(j) == status[j] # "none" /\ input[j] \in Input

RowReferences ==
    /\ \A j \in Jobs : status[j] # "none" => Inserted(j)
    /\ \A j \in recent \cup queued \cup victims : Inserted(j)

ApiReferences ==
    \A h \in Handlers :
        /\ api[h].pc = "insert" => api[h].input \in Input
        /\ api[h].pc \in {"dispatch", "cancel"} =>
              api[h].job \in Jobs /\ Inserted(api[h].job)

RunReferences ==
    \A w \in Workers :
        /\ pc[w] # "idle" => cur[w] \in Jobs /\ Inserted(cur[w])
        /\ pc[w] \in {"extract", "save_claims"} => Deck(w) # None
        /\ pc[w] = "axes" => Len(local[w].axes) <= 2
        /\ pc[w] = "save_axes" => Len(local[w].axes) = 3
        /\ pc[w] \notin {"axes", "save_axes"} => local[w].axes = <<>>

Types == TypeOK /\ RowReferences /\ ApiReferences /\ RunReferences

LEMMA TypesInit == Init => Types
  <1> SUFFICES ASSUME Init PROVE Types
    OBVIOUS
  <1>1. TypeOK
    BY PipelineAssumption DEF Init, TypeOK, Fresh, Local, Idle, Request, JobStatus, Labels
  <1>2. RowReferences /\ ApiReferences /\ RunReferences
    BY DEF Init, RowReferences, ApiReferences, RunReferences, Idle, Fresh
  <1> QED
    BY <1>1, <1>2 DEF Types

LEMMA FreshType == Fresh \in Local /\ Idle \in Request
  BY DEF Fresh, Local, Idle, Request, JobStatus

LEMMA VanishType ==
  ASSUME Types, NEW w \in Workers, Vanish(w)
  PROVE  /\ pc' \in [Workers -> Labels]
         /\ cur' \in [Workers -> Jobs \cup {None}]
         /\ local' \in [Workers -> Local]
  BY FreshType DEF Types, TypeOK, Vanish, Labels

LEMMA ReturnType ==
  ASSUME Types, NEW w \in Workers, Return(w)
  PROVE  /\ pc' \in [Workers -> Labels]
         /\ cur' \in [Workers -> Jobs \cup {None}]
         /\ local' \in [Workers -> Local]
         /\ queued' \in SUBSET Jobs
         /\ deliveries' \in [Jobs -> Nat]
  BY VanishType DEF Types, TypeOK, Return, queueVars

(* A status update never takes a row away. *)
Kept == \A j \in Jobs : \/ status'[j] = status[j]
                        \/ status[j] # "none" /\ status'[j] \in JobStatus

(* What a run that leaves its slot, or moves on, does to the references. *)
LEMMA LeaveReferences ==
  ASSUME Types, NEW w \in Workers, Vanish(w), queued' \subseteq queued, Kept,
         UNCHANGED <<input, recent, api, victims>>
  PROVE  RowReferences' /\ ApiReferences' /\ RunReferences'
  <1>a. TypeOK /\ RowReferences /\ ApiReferences /\ RunReferences
    BY DEF Types
  <1>1. \A j \in Jobs : /\ Inserted(j) => Inserted(j)'
                        /\ status'[j] # "none" => Inserted(j)'
    BY <1>a DEF Kept, Inserted, JobStatus, RowReferences
  <1>2. RowReferences'
    BY <1>a, <1>1 DEF RowReferences, TypeOK
  <1>3. ApiReferences'
    BY <1>a, <1>1 DEF ApiReferences
  <1>4. \A v \in Workers : \/ pc'[v] = "idle" /\ local'[v] = Fresh
                           \/ pc'[v] = pc[v] /\ cur'[v] = cur[v] /\ local'[v] = local[v]
    BY <1>a DEF Vanish, TypeOK
  <1>5. RunReferences'
    BY <1>a, <1>1, <1>4 DEF RunReferences, Deck, Fresh
  <1> QED
    BY <1>2, <1>3, <1>5

LEMMA MoveReferences ==
  ASSUME Types, NEW w \in Workers, NEW l \in Labels, Goto(w, l), pc[w] # "idle",
         NEW r, local' = [local EXCEPT ![w] = r], Kept,
         UNCHANGED <<input, recent, api, victims>>,
         l \in {"extract", "save_claims"} => Deck(w) # None,
         l = "axes" => Len(r.axes) <= 2,
         l = "save_axes" => Len(r.axes) = 3,
         l \notin {"axes", "save_axes"} => r.axes = <<>>
  PROVE  RowReferences' /\ ApiReferences' /\ RunReferences'
  <1>a. TypeOK /\ RowReferences /\ ApiReferences /\ RunReferences
    BY DEF Types
  <1>1. \A j \in Jobs : /\ Inserted(j) => Inserted(j)'
                        /\ status'[j] # "none" => Inserted(j)'
    BY <1>a DEF Kept, Inserted, JobStatus, RowReferences
  <1>2. RowReferences'
    BY <1>a, <1>1 DEF RowReferences, TypeOK, Goto, queueVars
  <1>3. ApiReferences'
    BY <1>a, <1>1 DEF ApiReferences
  <1>4. \A v \in Workers : v # w => pc'[v] = pc[v] /\ local'[v] = local[v]
    BY <1>a DEF Goto, TypeOK
  <1>5. cur' = cur /\ pc'[w] = l /\ local'[w] = r
    BY <1>a DEF Goto, TypeOK
  <1>6. RunReferences'
    BY <1>a, <1>1, <1>4, <1>5 DEF RunReferences, Deck
  <1> QED
    BY <1>2, <1>3, <1>6

LEMMA TypeHttp ==
  ASSUME Types, NEW h \in Handlers, Http(h)
  PROVE  Types'
  <1>a. TypeOK /\ RowReferences /\ ApiReferences /\ RunReferences
    BY DEF Types
  <1>b. api[h] \in Request
    BY DEF Types, TypeOK
  <1> USE DEF jobVars, oppVars, queueVars, runVars
  <1>1. CASE StartJob(h)
    <2>1. PICK in \in Input : api' = [api EXCEPT ![h] = [pc |-> "insert", job |-> None, input |-> in]]
      BY <1>1 DEF StartJob, Input, Keys
    <2>2. TypeOK'
      BY <1>1, <1>a, <2>1 DEF StartJob, TypeOK, Request
    <2>3. RowReferences' /\ RunReferences'
      BY <1>1, <1>a DEF StartJob, RowReferences, RunReferences, Inserted, Deck
    <2>4. ApiReferences'
      BY <1>1, <1>a, <2>1 DEF StartJob, ApiReferences, Inserted, TypeOK
    <2> QED
      BY <2>2, <2>3, <2>4 DEF Types
  <1>2. CASE RetryJob(h)
    <2>1. PICK old \in Jobs :
            /\ status[old] \in Retryable
            /\ LET in == [input[old] EXCEPT !.key = <<old, attempts[old]>>]
               IN  \/ \E j \in Existing(in) :
                        api' = [api EXCEPT ![h] =
                                  [pc |-> "dispatch", job |-> j, input |-> None]]
                   \/ api' = [api EXCEPT ![h] =
                                  [pc |-> "insert", job |-> None, input |-> in]]
      BY <1>2 DEF RetryJob
    <2>2. input[old] \in Input
      BY <1>a, <2>1 DEF RowReferences, Inserted, Retryable
    <2>3. [input[old] EXCEPT !.key = <<old, attempts[old]>>] \in Input
      BY <1>a, <2>2 DEF TypeOK, Input, Keys
    <2>4. \E r \in Request :
            /\ api' = [api EXCEPT ![h] = r]
            /\ r.pc = "insert" => r.input \in Input
            /\ r.pc \in {"dispatch", "cancel"} => r.job \in recent
      <3>1. CASE \E j \in recent : api' = [api EXCEPT ![h] =
                                  [pc |-> "dispatch", job |-> j, input |-> None]]
        <4>1. PICK j \in recent : api' = [api EXCEPT ![h] =
                                  [pc |-> "dispatch", job |-> j, input |-> None]]
          BY <3>1
        <4> DEFINE r == [pc |-> "dispatch", job |-> j, input |-> None]
        <4>2. r \in Request /\ r.pc = "dispatch" /\ r.job = j
          BY <1>a DEF Request, TypeOK
        <4>3. api' = [api EXCEPT ![h] = r]
          BY <4>1
        <4> HIDE DEF r
        <4> QED
          BY <4>2, <4>3
      <3>2. CASE api' = [api EXCEPT ![h] = [pc |-> "insert", job |-> None,
                     input |-> [input[old] EXCEPT !.key = <<old, attempts[old]>>]]]
        <4> DEFINE r == [pc |-> "insert", job |-> None,
                     input |-> [input[old] EXCEPT !.key = <<old, attempts[old]>>]]
        <4>1. r \in Request /\ r.pc = "insert" /\ r.input \in Input
          BY <2>3 DEF Request
        <4>2. api' = [api EXCEPT ![h] = r]
          BY <3>2
        <4> HIDE DEF r
        <4> QED
          BY <4>1, <4>2
      <3> QED
        BY <2>1, <3>1, <3>2 DEF Existing
    <2>5. TypeOK'
      BY <1>2, <1>a, <2>4 DEF RetryJob, TypeOK
    <2>6. RowReferences' /\ RunReferences'
      BY <1>2, <1>a DEF RetryJob, RowReferences, RunReferences, Inserted, Deck
    <2>7. ApiReferences'
      BY <1>2, <1>a, <2>4 DEF RetryJob, ApiReferences, RowReferences, Inserted, TypeOK
    <2> QED
      BY <2>5, <2>6, <2>7 DEF Types
  <1>3. CASE InsertJob(h)
    <2>1. PICK j \in Jobs :
         /\ status[j] = "none"
         /\ status' = [status EXCEPT ![j] = "queued"]
         /\ input' = [input EXCEPT ![j] = api[h].input]
         /\ recent' = recent \cup {j}
         /\ api' = [api EXCEPT ![h] = [pc |-> "dispatch", job |-> j, input |-> None]]
      BY <1>3 DEF InsertJob
    <2>2. api[h].input \in Input
      BY <1>3, <1>a DEF InsertJob, ApiReferences
    <2>3. TypeOK'
      BY <1>3, <1>a, <2>1, <2>2 DEF InsertJob, TypeOK, Request, JobStatus
    <2>4. Inserted(j)' /\ \A i \in Jobs : Inserted(i) => Inserted(i)' /\ input'[i] = input[i]
      BY <1>a, <2>1, <2>2 DEF Inserted, TypeOK
    <2>5. RowReferences'
      BY <1>3, <1>a, <2>1, <2>4 DEF InsertJob, RowReferences, TypeOK
    <2>6. RunReferences'
      BY <1>3, <1>a, <2>4 DEF InsertJob, RunReferences, Deck
    <2>7. ApiReferences'
      BY <1>a, <2>1, <2>4 DEF ApiReferences, TypeOK
    <2> QED
      BY <2>3, <2>5, <2>6, <2>7 DEF Types
  <1>4. CASE Dispatch(h)
    <2>1. api[h].job \in Jobs /\ Inserted(api[h].job)
      BY <1>4, <1>a DEF Dispatch, ApiReferences
    <2>2. TypeOK'
      <3>1. api' \in [Handlers -> Request] /\ UNCHANGED <<jobVars, steps, oppVars, victims>>
        BY <1>4, <1>a DEF Dispatch, TypeOK, Request, Idle
      <3>2. CASE UNCHANGED <<deliveries, runVars>> /\ queued' \in SUBSET Jobs
        BY <1>a, <3>1, <3>2 DEF TypeOK, jobVars, oppVars, runVars
      <3>3. CASE UNCHANGED queued /\ \E w \in Workers : Begin(w, api[h].job)
        BY <1>a, <2>1, <3>1, <3>3 DEF Begin, TypeOK, Labels, jobVars, oppVars
      <3> QED
        BY <1>4, <1>a, <2>1, <3>2, <3>3 DEF Dispatch, TypeOK
    <2>3. RowReferences'
      BY <1>4, <1>a, <2>1 DEF Dispatch, Begin, RowReferences, Inserted
    <2>4. RunReferences'
      <3>1. \/ UNCHANGED runVars
            \/ \E w \in Workers : Begin(w, api[h].job)
        BY <1>4 DEF Dispatch
      <3>2. UNCHANGED jobVars
        BY <1>4 DEF Dispatch
      <3>3. CASE UNCHANGED runVars
        BY <1>a, <3>2, <3>3 DEF RunReferences, Inserted, Deck
      <3>4. ASSUME NEW w \in Workers, Begin(w, api[h].job) PROVE RunReferences'
        <4>1. \A v \in Workers : v # w =>
                pc'[v] = pc[v] /\ cur'[v] = cur[v] /\ local'[v] = local[v]
          BY <1>a, <3>4 DEF Begin, TypeOK
        <4>2. pc'[w] = "load" /\ cur'[w] = api[h].job /\ local'[w] = local[w] /\ pc[w] = "idle"
          BY <1>a, <3>4 DEF Begin, TypeOK
        <4> QED
          BY <1>a, <2>1, <3>2, <4>1, <4>2 DEF RunReferences, Inserted, Deck
      <3> QED
        BY <3>1, <3>3, <3>4
    <2>5. ApiReferences'
      BY <1>4, <1>a DEF Dispatch, ApiReferences, Inserted, TypeOK, Idle
    <2> QED
      BY <2>2, <2>3, <2>4, <2>5 DEF Types
  <1>5. CASE DispatchLost(h)
    BY <1>5, <1>a, FreshType DEF DispatchLost, Types, TypeOK, RowReferences, RunReferences,
          ApiReferences, Inserted, Deck, Idle
  <1>6. CASE CancelJob(h)
    <2>1. PICK j \in Jobs :
            /\ status[j] \in JobStatus \ Uncancellable
            /\ api' = [api EXCEPT ![h] = [pc |-> "cancel", job |-> j, input |-> None]]
      BY <1>6 DEF CancelJob
    <2>2. Inserted(j)
      BY <1>a, <2>1 DEF RowReferences, JobStatus
    <2>3. TypeOK'
      BY <1>6, <1>a, <2>1 DEF CancelJob, TypeOK, Request
    <2>4. RowReferences' /\ RunReferences'
      BY <1>6, <1>a DEF CancelJob, RowReferences, RunReferences, Inserted, Deck
    <2>5. ApiReferences'
      BY <1>6, <1>a, <2>1, <2>2 DEF CancelJob, ApiReferences, Inserted, TypeOK
    <2> QED
      BY <2>3, <2>4, <2>5 DEF Types
  <1>7. CASE CommitCancel(h)
    <2>1. api[h].job \in Jobs /\ Inserted(api[h].job)
      BY <1>7, <1>a DEF CommitCancel, ApiReferences
    <2>2. TypeOK'
      BY <1>7, <1>a, <2>1, FreshType DEF CommitCancel, TypeOK, JobStatus
    <2>3. \A i \in Jobs : (Inserted(i) => Inserted(i)') /\ (status'[i] # "none" => Inserted(i)')
      BY <1>7, <1>a, <2>1 DEF CommitCancel, Inserted, TypeOK, RowReferences
    <2>4. RowReferences'
      BY <1>7, <1>a, <2>3 DEF CommitCancel, RowReferences, TypeOK
    <2>5. RunReferences'
      BY <1>7, <1>a, <2>3 DEF CommitCancel, RunReferences, Deck
    <2>6. ApiReferences'
      BY <1>7, <1>a, <2>3 DEF CommitCancel, ApiReferences, TypeOK, Idle
    <2> QED
      BY <2>2, <2>4, <2>5, <2>6 DEF Types
  <1> QED
    BY <1>1, <1>2, <1>3, <1>4, <1>5, <1>6, <1>7 DEF Http

LEMMA TypeRun ==
  ASSUME Types, NEW w \in Workers, RunStep(w) \/ RunFault(w)
  PROVE  Types'
  <1>a. TypeOK /\ RunReferences
    BY DEF Types
  <1>b. Fresh \in Local /\ Fresh.axes = <<>> /\ local[w] \in Local
    BY <1>a, FreshType DEF Fresh, TypeOK
  <1>c. ASSUME pc[w] # "idle"
        PROVE  cur[w] \in Jobs /\ status[cur[w]] # "none" /\ input[cur[w]] \in Input
    BY <1>a, <1>c DEF RunReferences, Inserted
  <1>d. local = [local EXCEPT ![w] = local[w]]
    BY <1>a DEF TypeOK
  <1> USE DEF jobVars, oppVars, queueVars, At
  <1>1. ASSUME Return(w), UNCHANGED <<jobVars, steps, oppVars, api, victims>>
        PROVE  Types'
    <2>1. TypeOK'
      BY <1>a, <1>1, ReturnType DEF TypeOK
    <2>2. RowReferences' /\ ApiReferences' /\ RunReferences'
      BY <1>1, LeaveReferences DEF Return, Kept
    <2> QED
      BY <2>1, <2>2 DEF Types
  <1>2. CASE LoadJob(w)
    <2>1. CASE status[cur[w]] \notin Refused
      <3> DEFINE r == [local[w] EXCEPT !.status = status[cur[w]],
                                       !.attempts = attempts[cur[w]]]
      <3>1. r \in Local /\ r.axes = local[w].axes
        BY <1>2, <1>a, <1>b, <1>c DEF LoadJob, TypeOK, Local
      <3>2. local' = [local EXCEPT ![w] = r] /\ Goto(w, "start")
        BY <1>2, <1>a, <2>1 DEF LoadJob, TypeOK
      <3> HIDE DEF r
      <3>3. r.axes = <<>>
        BY <1>2, <1>a, <3>1 DEF LoadJob, RunReferences
      <3>4. TypeOK'
        BY <1>2, <1>a, <3>1, <3>2 DEF LoadJob, TypeOK, Goto, Labels
      <3>5. RowReferences' /\ ApiReferences' /\ RunReferences'
        BY <1>2, <3>2, <3>3, MoveReferences DEF LoadJob, Kept, Labels
      <3> QED
        BY <3>4, <3>5 DEF Types
    <2> QED
      BY <1>1, <1>2, <2>1 DEF LoadJob
  <1>3. CASE MarkRunning(w)
    <2>1. Goto(w, "step1") /\ local' = [local EXCEPT ![w] = Fresh]
      BY <1>3 DEF MarkRunning
    <2>2. TypeOK'
      <3>1. cur[w] \in Jobs /\ local[w].attempts \in Nat
        BY <1>3, <1>b, <1>c DEF MarkRunning, Local
      <3>2. status' \in [Jobs -> JobStatus \cup {"none"}]
        BY <1>3, <1>a, <3>1 DEF MarkRunning, TypeOK, JobStatus
      <3>3. attempts' \in [Jobs -> Nat] /\ beating' \in SUBSET Jobs
        BY <1>3, <1>a, <3>1 DEF MarkRunning, TypeOK
      <3>4. pc' \in [Workers -> Labels] /\ local' \in [Workers -> Local]
        BY <1>a, <2>1, FreshType DEF TypeOK, Goto, Labels
      <3> QED
        BY <1>3, <1>a, <2>1, <3>2, <3>3, <3>4
           DEF MarkRunning, TypeOK, Goto, oppVars, queueVars
    <2>3. Kept
      BY <1>3, <1>a, <1>c DEF MarkRunning, Kept, TypeOK, JobStatus
    <2>4. RowReferences' /\ ApiReferences' /\ RunReferences'
      BY <1>3, <1>b, <2>1, <2>3, MoveReferences DEF MarkRunning, Labels
    <2> QED
      BY <2>2, <2>4 DEF Types
  <1>4. ASSUME NEW label \in Labels \ {"idle", "axes", "save_axes"}, NEW n \in 1..6,
               NEW next \in Labels \ {"idle", "save_axes", "extract", "save_claims"},
               Step(w, label, n, next)
        PROVE  Types'
    <2>1. CASE ~StepTaken(cur[w], n)
      <3>1. /\ Goto(w, next) /\ pc[w] = label
            /\ UNCHANGED <<status, attempts, input, recent, oppVars, local, api, victims>>
            /\ beating' = beating \cup {cur[w]}
        BY <1>4, <2>1 DEF Step, Conflict
      <3>2. TypeOK'
        BY <1>4, <1>a, <1>c, <2>1, <3>1 DEF Step, TypeOK, Goto, Seqs
      <3>3. local[w].axes = <<>> /\ Len(<<>>) <= 2
        BY <1>a, <1>4, <3>1 DEF RunReferences
      <3>4. RowReferences' /\ ApiReferences' /\ RunReferences'
        BY <1>4, <1>d, <3>1, <3>3, MoveReferences DEF Kept
      <3> QED
        BY <3>2, <3>4 DEF Types
    <2> QED
      BY <1>1, <1>4, <2>1 DEF Step, Conflict
  <1>5. CASE StepPrescreen(w) \/ StepExtract(w) \/ StepScore(w) \/ StepRecommend(w) \/ StepMemo(w)
    BY <1>4, <1>5 DEF StepPrescreen, StepExtract, StepScore, StepRecommend, StepMemo, Labels
  <1>6. CASE ReadPrescreen(w)
    <2>1. PICK l \in {"claims", "add_prescreen"} : Goto(w, l)
      BY <1>6 DEF ReadPrescreen
    <2>2. TypeOK'
      BY <1>6, <1>a, <2>1 DEF ReadPrescreen, TypeOK, Goto, Labels
    <2>3. RowReferences' /\ ApiReferences' /\ RunReferences'
      <3>1. local[w].axes = <<>>
        BY <1>6, <1>a DEF ReadPrescreen, RunReferences
      <3> QED
        BY <1>6, <1>d, <2>1, <3>1, MoveReferences DEF ReadPrescreen, Kept, Labels
    <2> QED
      BY <2>2, <2>3 DEF Types
  <1>7. CASE AddPrescreen(w)
    <2>1. CASE Opp(w) \notin prescreened
      <3>1. Goto(w, "claims") /\ UNCHANGED <<jobVars, local, api, victims>>
        BY <1>7, <2>1 DEF AddPrescreen, Conflict
      <3>2. TypeOK'
        BY <1>7, <1>a, <1>c, <2>1 DEF AddPrescreen, TypeOK, Goto, Labels, Opp, Input
      <3>3. local[w].axes = <<>>
        BY <1>7, <1>a DEF AddPrescreen, RunReferences
      <3>4. RowReferences' /\ ApiReferences' /\ RunReferences'
        BY <1>7, <1>d, <3>1, <3>3, MoveReferences DEF AddPrescreen, Kept, Labels
      <3> QED
        BY <3>2, <3>4 DEF Types
    <2> QED
      BY <1>1, <1>7, <2>1 DEF AddPrescreen, Conflict
  <1>8. CASE ReadPages(w)
    <2>1. local[w].axes = <<>>
      BY <1>8, <1>a DEF ReadPages, RunReferences
    <2>2. CASE Deck(w) = None
      <3>1. Goto(w, "step2") /\ UNCHANGED <<jobVars, local, api, victims>>
        BY <1>8, <2>2 DEF ReadPages
      <3>2. TypeOK'
        BY <1>8, <1>a, <3>1 DEF ReadPages, TypeOK, Goto, Labels
      <3>3. RowReferences' /\ ApiReferences' /\ RunReferences'
        BY <1>8, <1>d, <2>1, <3>1, MoveReferences DEF ReadPages, Kept, Labels
      <3> QED
        BY <3>2, <3>3 DEF Types
    <2>3. CASE Deck(w) # None
      <3> DEFINE b == Deck(w) \in pages
                 r == [local[w] EXCEPT !.pages = b]
      <3>b. b \in BOOLEAN
        OBVIOUS
      <3>1. r \in Local /\ r.axes = <<>>
        <4> HIDE DEF b
        <4> QED
          BY <1>b, <2>1, <3>b DEF Local
      <3>2. local' = [local EXCEPT ![w] = r] /\ Goto(w, "extract")
        BY <1>8, <1>a, <2>3 DEF ReadPages, TypeOK
      <3> HIDE DEF r
      <3>3. TypeOK'
        BY <1>8, <1>a, <3>1, <3>2 DEF ReadPages, TypeOK, Goto, Labels
      <3>4. RowReferences' /\ ApiReferences' /\ RunReferences'
        BY <1>8, <2>3, <3>1, <3>2, MoveReferences DEF ReadPages, Kept, Labels
      <3> QED
        BY <3>3, <3>4 DEF Types
    <2> QED
      BY <2>2, <2>3
  <1>9. CASE ParseFails(w)
    <2>1. Goto(w, "error") /\ local' = [local EXCEPT ![w] = Fresh]
      BY <1>9 DEF ParseFails
    <2>2. TypeOK'
      BY <1>9, <1>a, <1>b, <2>1 DEF ParseFails, TypeOK, Goto, Labels
    <2>3. RowReferences' /\ ApiReferences' /\ RunReferences'
      BY <1>9, <1>b, <2>1, MoveReferences DEF ParseFails, Kept, Labels
    <2> QED
      BY <2>2, <2>3 DEF Types
  <1>10. CASE ReadClaims(w)
    <2> DEFINE r == [local[w] EXCEPT !.claims = claims[Opp(w)] # {}]
    <2>1. r \in Local /\ r.axes = <<>> /\ Deck(w) # None
      BY <1>10, <1>a, <1>b DEF ReadClaims, RunReferences, Local
    <2>2. local' = [local EXCEPT ![w] = r] /\ Goto(w, "save_claims")
      BY <1>10, <1>a DEF ReadClaims, TypeOK
    <2> HIDE DEF r
    <2>a. UNCHANGED <<jobVars, steps, oppVars, api, victims>>
      BY <1>10 DEF ReadClaims
    <2>3. TypeOK'
      BY <1>a, <2>1, <2>2, <2>a DEF TypeOK, Goto, Labels
    <2>4. RowReferences' /\ ApiReferences' /\ RunReferences'
      BY <1>10, <2>1, <2>2, MoveReferences DEF ReadClaims, Kept, Labels
    <2> QED
      BY <2>3, <2>4 DEF Types
  <1>11. CASE SaveClaims(w)
    <2>1. CASE local[w].pages \/ ~PagesTaken(w)
      <3>1. Goto(w, "step2") /\ local' = [local EXCEPT ![w] = Fresh]
        BY <1>11, <2>1 DEF SaveClaims, Conflict
      <3>2. Deck(w) \in Docs /\ Opp(w) \in Opps /\ cur[w] \in Jobs
        BY <1>11, <1>a, <1>c DEF SaveClaims, RunReferences, Deck, Opp, Input
      <3>a. pages' \in SUBSET Docs /\ claims' \in [Opps -> SUBSET Jobs]
        BY <1>11, <1>a, <2>1, <3>2 DEF SaveClaims, TypeOK
      <3>b. UNCHANGED <<jobVars, steps, prescreened, axisRows, memos, api, victims>>
        BY <1>11, <2>1 DEF SaveClaims, Conflict
      <3>3. TypeOK'
        BY <1>a, <1>b, <3>1, <3>a, <3>b DEF TypeOK, Goto, Labels
      <3>4. RowReferences' /\ ApiReferences' /\ RunReferences'
        BY <1>11, <1>b, <2>1, <3>1, MoveReferences DEF SaveClaims, Kept, Labels
      <3> QED
        BY <3>3, <3>4 DEF Types
    <2> QED
      BY <1>1, <1>11, <2>1 DEF SaveClaims, Conflict
  <1>12. CASE ReadAxis(w)
    <2> DEFINE axes == local[w].axes
    <2>1. axes \in Seq(Nat) /\ Len(axes) \in Nat /\ Len(axes) <= 2
      BY <1>12, <1>a, <1>b DEF ReadAxis, RunReferences, Local
    <2>2. Len(axes) + 1 \in Axes /\ Opp(w) \in Opps
      BY <1>12, <1>c, <2>1 DEF ReadAxis, Axes, Opp, Input
    <2>3. PICK v \in Latest(axisRows[Opp(w)][Len(axes) + 1]) :
            local' = [local EXCEPT ![w].axes = Append(@, v)]
      BY <1>12 DEF ReadAxis
    <2>4. axisRows[Opp(w)][Len(axes) + 1] \in SUBSET Row
      BY <1>a, <2>2 DEF TypeOK
    <2>5. v \in Nat
      BY <2>3, <2>4 DEF Latest, Row
    <2> DEFINE s == Append(axes, v)
               r == [local[w] EXCEPT !.axes = s]
    <2>s. s \in Seq(Nat) /\ Len(s) = Len(axes) + 1
      BY <2>1, <2>5
    <2>6. r \in Local /\ Len(r.axes) = Len(axes) + 1
      <3> HIDE DEF s
      <3> QED
        BY <1>b, <2>s DEF Local
    <2>7. local' = [local EXCEPT ![w] = r]
      BY <1>a, <2>3 DEF TypeOK
    <2> HIDE DEF r
    <2>8. PICK l \in {"axes", "save_axes"} :
            Goto(w, l) /\ (l = "save_axes" <=> Len(axes) = 2)
      BY <1>12 DEF ReadAxis
    <2>9. TypeOK'
      BY <1>12, <1>a, <2>6, <2>7, <2>8 DEF ReadAxis, TypeOK, Goto, Labels
    <2>10. RowReferences' /\ ApiReferences' /\ RunReferences'
      <3>1. /\ UNCHANGED <<input, recent, api, victims>> /\ Kept /\ pc[w] # "idle"
            /\ l \in Labels
        BY <1>12, <2>8 DEF ReadAxis, Kept, Labels
      <3>2. /\ l = "axes" => Len(r.axes) <= 2
            /\ l = "save_axes" => Len(r.axes) = 3
        <4>1. ASSUME NEW n \in Nat, n <= 2, NEW m, m = n + 1,
                     l = "save_axes" <=> n = 2
              PROVE  (l = "axes" => m <= 2) /\ (l = "save_axes" => m = 3)
          BY <4>1
        <4> HIDE DEF axes
        <4> QED
          BY <2>1, <2>6, <2>8, <4>1
      <3> HIDE DEF axes
      <3> QED
        BY <2>7, <2>8, <3>1, <3>2, MoveReferences
    <2> QED
      BY <2>9, <2>10 DEF Types
  <1>13. CASE SaveAxes(w)
    <2>1. CASE ~AxisTaken(w)
      <3>1. Goto(w, "step3") /\ local' = [local EXCEPT ![w] = Fresh]
        BY <1>13, <2>1 DEF SaveAxes, Conflict
      <3>2. \A a \in Axes : local[w].axes[a] \in Nat
        BY <1>13, <1>a, <1>b DEF SaveAxes, RunReferences, Local, Axes
      <3>3. Opp(w) \in Opps /\ cur[w] \in Jobs
        BY <1>13, <1>c DEF SaveAxes, Opp, Input
      <3> DEFINE added == [a \in Axes |-> axisRows[Opp(w)][a] \cup
                              {[version |-> local[w].axes[a] + 1, job |-> cur[w]]}]
      <3>a. \A a \in Axes : [version |-> local[w].axes[a] + 1, job |-> cur[w]] \in Row
        BY <3>2, <3>3 DEF Row
      <3>b. added \in [Axes -> SUBSET Row]
        BY <1>a, <3>3, <3>a DEF TypeOK
      <3>c. axisRows' = [axisRows EXCEPT ![Opp(w)] = added]
        BY <1>13, <2>1 DEF SaveAxes, Conflict
      <3> HIDE DEF added
      <3>4. axisRows' \in [Opps -> [Axes -> SUBSET Row]]
        BY <1>a, <3>3, <3>b, <3>c DEF TypeOK
      <3>5. TypeOK'
        BY <1>13, <1>a, <1>b, <2>1, <3>1, <3>4 DEF SaveAxes, Conflict, TypeOK, Goto, Labels
      <3>6. RowReferences' /\ ApiReferences' /\ RunReferences'
        BY <1>13, <1>b, <2>1, <3>1, MoveReferences DEF SaveAxes, Conflict, Kept, Labels
      <3> QED
        BY <3>5, <3>6 DEF Types
    <2> QED
      BY <1>1, <1>13, <2>1 DEF SaveAxes, Conflict
  <1>14. CASE ReadMemo(w)
    <2>1. Opp(w) \in Opps /\ local[w].axes = <<>>
      BY <1>14, <1>a, <1>c DEF ReadMemo, RunReferences, Opp, Input
    <2>2. PICK v \in Latest(memos[Opp(w)]) : local' = [local EXCEPT ![w].memo = v]
      BY <1>14 DEF ReadMemo
    <2>3. v \in Nat
      BY <1>a, <2>1, <2>2 DEF TypeOK, Latest, Row
    <2> DEFINE r == [local[w] EXCEPT !.memo = v]
    <2>4. r \in Local /\ r.axes = <<>>
      BY <1>b, <2>1, <2>3 DEF Local
    <2>5. local' = [local EXCEPT ![w] = r] /\ Goto(w, "save_memo")
      BY <1>14, <1>a, <2>2 DEF ReadMemo, TypeOK
    <2> HIDE DEF r
    <2>6. TypeOK'
      BY <1>14, <1>a, <2>4, <2>5 DEF ReadMemo, TypeOK, Goto, Labels
    <2>7. RowReferences' /\ ApiReferences' /\ RunReferences'
      BY <1>14, <2>4, <2>5, MoveReferences DEF ReadMemo, Kept, Labels
    <2> QED
      BY <2>6, <2>7 DEF Types
  <1>15. CASE SaveMemo(w)
    <2>1. CASE ~MemoTaken(w)
      <3>1. Goto(w, "step5") /\ local' = [local EXCEPT ![w] = Fresh]
        BY <1>15, <2>1 DEF SaveMemo, Conflict
      <3>2. Opp(w) \in Opps /\ cur[w] \in Jobs /\ local[w].memo \in Nat
        BY <1>15, <1>b, <1>c DEF SaveMemo, Opp, Input, Local
      <3>3. TypeOK'
        BY <1>15, <1>a, <1>b, <2>1, <3>1, <3>2 DEF SaveMemo, TypeOK, Goto, Labels, Row
      <3>4. RowReferences' /\ ApiReferences' /\ RunReferences'
        BY <1>15, <1>b, <2>1, <3>1, MoveReferences DEF SaveMemo, Conflict, Kept, Labels
      <3> QED
        BY <3>3, <3>4 DEF Types
    <2> QED
      BY <1>1, <1>15, <2>1 DEF SaveMemo, Conflict
  <1>16. CASE Succeed(w)
    <2>1. CASE ~StepTaken(cur[w], 6)
      <3>1. Return(w) /\ cur[w] \in Jobs /\ status[cur[w]] # "none"
        BY <1>16, <1>c, <2>1 DEF Succeed, Conflict
      <3>2. TypeOK'
        <4>a. status' = [status EXCEPT ![cur[w]] = "succeeded"]
              /\ steps' = [steps EXCEPT ![cur[w]] = @ \cup {6}]
          BY <1>16, <2>1 DEF Succeed
        <4>b. status' \in [Jobs -> JobStatus \cup {"none"}]
          BY <1>a, <3>1, <4>a DEF TypeOK, JobStatus
        <4>c. steps' \in [Jobs -> SUBSET Seqs]
          BY <1>a, <3>1, <4>a DEF TypeOK, Seqs
        <4>1. status' \in [Jobs -> JobStatus \cup {"none"}] /\ steps' \in [Jobs -> SUBSET Seqs]
          BY <4>b, <4>c
        <4>2. UNCHANGED <<attempts, beating, input, recent, oppVars, api, victims>>
          BY <1>16, <2>1 DEF Succeed
        <4> QED
          BY <1>a, <3>1, <4>1, <4>2, ReturnType DEF TypeOK
      <3>3. Kept
        BY <1>16, <1>a, <2>1, <3>1 DEF Succeed, Conflict, Kept, TypeOK, JobStatus
      <3>4. RowReferences' /\ ApiReferences' /\ RunReferences'
        BY <1>16, <2>1, <3>1, <3>3, LeaveReferences DEF Succeed, Conflict, Return
      <3> QED
        BY <3>2, <3>4 DEF Types
    <2> QED
      BY <1>1, <1>16, <2>1 DEF Succeed, Conflict
  <1>17. CASE CommitFailed(w)
    <2>1. Return(w) /\ cur[w] \in Jobs /\ status[cur[w]] # "none"
      BY <1>17, <1>c DEF CommitFailed
    <2>2. TypeOK'
      BY <1>17, <1>a, <2>1, ReturnType DEF CommitFailed, TypeOK, JobStatus
    <2>3. Kept
      BY <1>17, <1>a, <2>1 DEF CommitFailed, Kept, TypeOK, JobStatus
    <2>4. RowReferences' /\ ApiReferences' /\ RunReferences'
      BY <1>17, <2>1, <2>3, LeaveReferences DEF CommitFailed, Return
    <2> QED
      BY <2>2, <2>4 DEF Types
  <1>18. CASE Abandon(w)
    BY <1>1, <1>18 DEF Abandon
  <1>19. CASE Crash(w)
    <2>1. TypeOK'
      BY <1>19, <1>a, VanishType DEF Crash, TypeOK
    <2>2. RowReferences' /\ ApiReferences' /\ RunReferences'
      BY <1>19, LeaveReferences DEF Crash, Kept
    <2> QED
      BY <2>1, <2>2 DEF Types
  <1> QED
    BY <1>2, <1>3, <1>5, <1>6, <1>7, <1>8, <1>9, <1>10, <1>11, <1>12, <1>13, <1>14, <1>15,
       <1>16, <1>17, <1>18, <1>19 DEF RunStep, RunFault

LEMMA TypeRest ==
  ASSUME Types, Queue \/ Reaper \/ \E j \in Jobs : ExpireKey(j)
  PROVE  Types'
  <1>a. TypeOK /\ RowReferences /\ ApiReferences /\ RunReferences
    BY DEF Types
  <1> USE DEF jobVars, oppVars, queueVars, runVars
  <1>1. ASSUME NEW w \in Workers, NEW j \in Jobs, Deliver(w, j)
        PROVE  Types'
    <2>1. TypeOK'
      BY <1>1, <1>a DEF Deliver, Begin, TypeOK, Labels
    <2>2. RowReferences' /\ ApiReferences'
      BY <1>1, <1>a DEF Deliver, RowReferences, ApiReferences, Inserted
    <2>3. \A v \in Workers : v # w =>
            pc'[v] = pc[v] /\ cur'[v] = cur[v] /\ local'[v] = local[v]
      BY <1>1, <1>a DEF Deliver, Begin, TypeOK
    <2>4. /\ pc'[w] = "load" /\ cur'[w] = j /\ local'[w] = local[w] /\ pc[w] = "idle"
          /\ Inserted(j)
      BY <1>1, <1>a DEF Deliver, Begin, TypeOK, RowReferences
    <2>5. RunReferences'
      BY <1>1, <1>a, <2>3, <2>4 DEF Deliver, RunReferences, Inserted, Deck
    <2> QED
      BY <2>1, <2>2, <2>5 DEF Types
  <1>2. ASSUME NEW j \in Jobs, DropExhausted(j) \/ ExpireKey(j)
        PROVE  Types'
    BY <1>2, <1>a DEF DropExhausted, ExpireKey, Types, TypeOK, RowReferences, ApiReferences,
          RunReferences, Inserted, Deck
  <1>3. CASE RedisLost \/ ReaperSelect
    BY <1>3, <1>a DEF RedisLost, ReaperSelect, Types, TypeOK, RowReferences, ApiReferences,
          RunReferences, Inserted, Deck, Stale
  <1>4. CASE ReaperCommit
    <2>1. TypeOK'
      BY <1>4, <1>a DEF ReaperCommit, TypeOK, JobStatus
    <2>2. \A j \in Jobs : /\ Inserted(j) => Inserted(j)'
                          /\ status'[j] # "none" => Inserted(j)'
      BY <1>4, <1>a DEF ReaperCommit, Inserted, RowReferences, TypeOK
    <2>3. RowReferences' /\ ApiReferences' /\ RunReferences'
      BY <1>4, <1>a, <2>2 DEF ReaperCommit, RowReferences, ApiReferences, RunReferences,
            TypeOK, Deck
    <2> QED
      BY <2>1, <2>3 DEF Types
  <1> QED
    BY <1>1, <1>2, <1>3, <1>4 DEF Queue, Reaper

LEMMA TypesNext == Types /\ [Next]_vars => Types'
  <1> SUFFICES ASSUME Types, [Next]_vars PROVE Types'
    OBVIOUS
  <1>1. CASE UNCHANGED vars
    BY <1>1 DEF vars, jobVars, oppVars, queueVars, runVars, Types, TypeOK, RowReferences,
          ApiReferences, RunReferences, Inserted, Deck
  <1> QED
    BY <1>1, TypeHttp, TypeRun, TypeRest DEF Next

LEMMA TypesInvariant == Spec => []Types
  BY TypesInit, TypesNext, PTL DEF Spec

(* The type invariant holds in every behaviour of the pipeline. *)
THEOREM TypeCorrectness == Spec => []TypeOK
  <1>1. Types => TypeOK
    BY DEF Types
  <1> QED
    BY <1>1, TypesInvariant, PTL

--------------------------------------------------------------------------------
(* The history of a job.  A run that has committed step n finds the log to be  *)
(* exactly 1..n, because no other run of the job can be past step 1: the       *)
(* uniqueness of (job_id, seq) lets a single run insert step 1, ever.  From    *)
(* there on the run works alone, and its axis scores and its memo are the only *)
(* ones the job has.                                                           *)

After1 == {"prescreen", "add_prescreen", "claims", "extract", "save_claims", "step2"}
Scoring == {"axes", "save_axes"}
After2 == Scoring \cup {"step3"}
After3 == {"step4"}
Writing == {"memo", "save_memo"}
After4 == Writing \cup {"step5"}
After5 == {"done"}
Advanced == After1 \cup After2 \cup After3 \cup After4 \cup After5
Early == {"idle", "load", "start", "step1", "error"}

RunsMatchLog ==
    \A w \in Workers :
        /\ pc[w] \in After1 => steps[cur[w]] = 1..1
        /\ pc[w] \in After2 => steps[cur[w]] = 1..2
        /\ pc[w] \in After3 => steps[cur[w]] = 1..3
        /\ pc[w] \in After4 => steps[cur[w]] = 1..4
        /\ pc[w] \in After5 => steps[cur[w]] = 1..5

OneAdvancedRun ==
    \A v, w \in Workers :
        pc[v] \in Advanced /\ pc[w] \in Advanced /\ cur[v] = cur[w] => v = w

LogHistory ==
    /\ StepsInOrder
    /\ \A j \in Jobs : steps[j] # {} => Inserted(j)
    /\ \A j \in Jobs : status[j] = "succeeded" => 6 \in steps[j]

MemoHistory ==
    /\ \A o \in Opps : \A r \in memos[o] :
          Inserted(r.job) /\ input[r.job].opp = o /\ 4 \in steps[r.job]
    /\ \A o \in Opps : \A r, s \in memos[o] : r.job = s.job => r = s
    /\ \A w \in Workers : pc[w] \in Writing => \A o \in Opps : RowsBy(memos[o], cur[w]) = {}
    /\ \A w \in Workers : pc[w] = "step5" => RowsBy(memos[Opp(w)], cur[w]) # {}
    /\ \A j \in Jobs : 5 \in steps[j] => RowsBy(memos[input[j].opp], j) # {}

AxisHistory ==
    \A a \in Axes :
        /\ \A o \in Opps : \A r \in axisRows[o][a] :
              Inserted(r.job) /\ input[r.job].opp = o /\ 2 \in steps[r.job]
        /\ \A o \in Opps : \A r, s \in axisRows[o][a] : r.job = s.job => r = s
        /\ \A w \in Workers : pc[w] \in Scoring =>
              \A o \in Opps : RowsBy(axisRows[o][a], cur[w]) = {}
        /\ \A w \in Workers : pc[w] = "step3" => RowsBy(axisRows[Opp(w)][a], cur[w]) # {}
        /\ \A j \in Jobs : 3 \in steps[j] => RowsBy(axisRows[input[j].opp][a], j) # {}

History == RunsMatchLog /\ OneAdvancedRun /\ LogHistory /\ MemoHistory /\ AxisHistory

LEMMA HistoryInit == Init => History
  BY DEF Init, History, RunsMatchLog, OneAdvancedRun, LogHistory, StepsInOrder, MemoHistory,
         AxisHistory, After1, After2, After3, After4, After5, Advanced, Scoring, Writing

(* Steps that write neither the log nor scores nor memos. *)
Stays(w) ==
    \/ pc'[w] \in Early
    \/ /\ cur'[w] = cur[w]
       /\ \/ pc'[w] = pc[w]
          \/ pc[w] \in After1 /\ pc'[w] \in After1
          \/ pc[w] \in Scoring /\ pc'[w] \in Scoring
          \/ pc[w] \in Writing /\ pc'[w] \in Writing

Quiet ==
    /\ UNCHANGED <<steps, memos, axisRows>>
    /\ \A j \in Jobs : Inserted(j) => Inserted(j)' /\ input'[j] = input[j]
    /\ \A j \in Jobs : status'[j] = "succeeded" => status[j] = "succeeded"
    /\ \A w \in Workers : Stays(w)

LEMMA QuietHistory ==
  ASSUME Types, History, Quiet
  PROVE  History'
  <1>a. TypeOK /\ RunReferences
    BY DEF Types
  <1>b. \A w \in Workers : pc[w] \in Advanced => cur[w] \in Jobs /\ Inserted(cur[w])
    BY <1>a DEF RunReferences, Advanced, After1, After2, After3, After4, After5, Scoring, Writing
  <1>1. \A w \in Workers :
          /\ pc'[w] \in Advanced => pc[w] \in Advanced /\ cur'[w] = cur[w]
          /\ pc'[w] \in After1 => pc[w] \in After1
          /\ pc'[w] \in Scoring => pc[w] \in Scoring
          /\ pc'[w] = "step3" => pc[w] = "step3"
          /\ pc'[w] \in After3 => pc[w] \in After3
          /\ pc'[w] \in Writing => pc[w] \in Writing
          /\ pc'[w] = "step5" => pc[w] = "step5"
          /\ pc'[w] \in After5 => pc[w] \in After5
    BY DEF Quiet, Stays, Early, Advanced, After1, After2, After3, After4, After5, Scoring, Writing
  <1>2. RunsMatchLog'
    BY <1>1 DEF Quiet, History, RunsMatchLog, Advanced, After2, After4
  <1>3. OneAdvancedRun'
    BY <1>1 DEF History, OneAdvancedRun
  <1>4. LogHistory'
    BY DEF History, LogHistory, StepsInOrder, Quiet
  <1>5. \A w \in Workers : pc'[w] \in {"step3", "step5"} =>
          cur'[w] \in Jobs /\ Opp(w)' = Opp(w)
    BY <1>b, <1>1 DEF Opp, Quiet, Advanced, After2, After4
  <1>6. MemoHistory'
    <2>1. \A o \in Opps : \A r \in memos[o] : r.job \in Jobs
      BY <1>a DEF TypeOK, Row
    <2> QED
      BY <1>1, <1>5, <2>1 DEF History, MemoHistory, LogHistory, Quiet, RowsBy, Advanced, After4
  <1>7. AxisHistory'
    <2>1. \A o \in Opps, a \in Axes : \A r \in axisRows[o][a] : r.job \in Jobs
      BY <1>a DEF TypeOK, Row
    <2> QED
      BY <1>1, <1>5, <2>1 DEF History, AxisHistory, LogHistory, Quiet, RowsBy, Advanced, After2
  <1> QED
    BY <1>2, <1>3, <1>4, <1>6, <1>7 DEF History

LEMMA LeavesAreQuiet ==
  ASSUME Types, NEW w \in Workers, Vanish(w)
  PROVE  \A v \in Workers : Stays(v)
  BY DEF Types, TypeOK, Vanish, Stays, Early

LEMMA HttpIsQuiet ==
  ASSUME Types, NEW h \in Handlers, Http(h)
  PROVE  Quiet
  <1>a. TypeOK /\ RowReferences /\ ApiReferences
    BY DEF Types
  <1> USE DEF jobVars, oppVars, queueVars, runVars
  <1>1. CASE StartJob(h) \/ RetryJob(h) \/ DispatchLost(h) \/ CancelJob(h)
    BY <1>1 DEF StartJob, RetryJob, DispatchLost, CancelJob, Quiet, Stays, Inserted
  <1>2. CASE InsertJob(h)
    BY <1>2, <1>a DEF InsertJob, Quiet, Stays, Inserted, TypeOK
  <1>3. CASE Dispatch(h)
    <2>1. \A w \in Workers : Stays(w)
      BY <1>3, <1>a DEF Dispatch, Begin, Stays, Early, TypeOK
    <2> QED
      BY <1>3, <2>1 DEF Dispatch, Quiet, Inserted
  <1>4. CASE CommitCancel(h)
    <2>1. api[h].job \in Jobs
      BY <1>4, <1>a DEF CommitCancel, ApiReferences
    <2> QED
      BY <1>4, <1>a, <2>1 DEF CommitCancel, Quiet, Stays, Inserted, TypeOK
  <1> QED
    BY <1>1, <1>2, <1>3, <1>4 DEF Http

LEMMA RestIsQuiet ==
  ASSUME Types, Queue \/ Reaper \/ \E j \in Jobs : ExpireKey(j)
  PROVE  Quiet
  <1>a. TypeOK /\ RowReferences
    BY DEF Types
  <1> USE DEF jobVars, oppVars, queueVars, runVars
  <1>1. ASSUME NEW w \in Workers, NEW j \in Jobs, Deliver(w, j)
        PROVE  Quiet
    <2>1. \A v \in Workers : Stays(v)
      BY <1>1, <1>a DEF Deliver, Begin, Stays, Early, TypeOK
    <2> QED
      BY <1>1, <2>1 DEF Deliver, Quiet, Inserted
  <1>2. ASSUME NEW j \in Jobs, DropExhausted(j) \/ ExpireKey(j)
        PROVE  Quiet
    BY <1>2 DEF DropExhausted, ExpireKey, Quiet, Stays, Inserted
  <1>3. CASE RedisLost \/ ReaperSelect
    BY <1>3 DEF RedisLost, ReaperSelect, Quiet, Stays, Inserted
  <1>4. CASE ReaperCommit
    BY <1>4, <1>a DEF ReaperCommit, Quiet, Stays, Inserted, TypeOK
  <1> QED
    BY <1>1, <1>2, <1>3, <1>4 DEF Queue, Reaper

(* The steps of a run are quiet, except for its three kinds of writes. *)
Logs(w, label, n, next) ==
    /\ Step(w, label, n, next) /\ ~StepTaken(cur[w], n)
    /\ \/ label = "step1" /\ n = 1 /\ next = "prescreen"
       \/ label = "step2" /\ n = 2 /\ next = "axes"
       \/ label = "step3" /\ n = 3 /\ next = "step4"
       \/ label = "step4" /\ n = 4 /\ next = "memo"
       \/ label = "step5" /\ n = 5 /\ next = "done"

Writes(w) ==
    \/ \E label, next \in Labels, n \in 1..5 : Logs(w, label, n, next)
    \/ SaveAxes(w) /\ ~AxisTaken(w)
    \/ SaveMemo(w) /\ ~MemoTaken(w)
    \/ Succeed(w) /\ ~StepTaken(cur[w], 6)

LEMMA RunIsQuiet ==
  ASSUME Types, NEW w \in Workers, RunStep(w) \/ RunFault(w)
  PROVE  Quiet \/ Writes(w)
  <1>a. TypeOK /\ RunReferences
    BY DEF Types
  <1>c. ASSUME pc[w] # "idle"
        PROVE  cur[w] \in Jobs /\ status[cur[w]] # "none" /\ input[cur[w]] \in Input
    BY <1>a, <1>c DEF RunReferences, Inserted
  <1> USE DEF jobVars, oppVars, queueVars, At
  <1>1. ASSUME Vanish(w), UNCHANGED <<jobVars, steps, oppVars>>
        PROVE  Quiet
    BY <1>1, LeavesAreQuiet DEF Quiet, Inserted
  <1>2. CASE Conflict(w)
    BY <1>1, <1>2 DEF Conflict, Return
  <1>3. ASSUME NEW l \in Labels, Goto(w, l), UNCHANGED <<jobVars, steps, memos, axisRows>>,
               \/ l \in Early
               \/ pc[w] \in After1 /\ l \in After1
               \/ pc[w] \in Scoring /\ l \in Scoring
               \/ pc[w] \in Writing /\ l \in Writing
        PROVE  Quiet
    <2>1. \A v \in Workers : Stays(v)
      BY <1>3, <1>a DEF Goto, Stays, TypeOK
    <2> QED
      BY <1>3, <2>1 DEF Quiet, Inserted
  <1>4. CASE LoadJob(w)
    BY <1>1, <1>3, <1>4 DEF LoadJob, Return, Labels, Early
  <1>5. CASE MarkRunning(w)
    <2>1. \A v \in Workers : Stays(v)
      BY <1>5, <1>a DEF MarkRunning, Goto, Stays, Early, TypeOK
    <2> QED
      BY <1>5, <1>a, <1>c, <2>1 DEF MarkRunning, Quiet, Inserted, TypeOK
  <1>6. CASE StepPrescreen(w) \/ StepExtract(w) \/ StepScore(w) \/ StepRecommend(w) \/ StepMemo(w)
    <2>1. \A label, next \in Labels, n \in 1..5 :
            Step(w, label, n, next) => Conflict(w) \/ ~StepTaken(cur[w], n)
      BY DEF Step
    <2> QED
      BY <1>2, <1>6, <2>1 DEF StepPrescreen, StepExtract, StepScore, StepRecommend, StepMemo,
            Writes, Logs, Labels
  <1>7. CASE ReadPrescreen(w)
    BY <1>3, <1>7 DEF ReadPrescreen, Labels, After1
  <1>8. CASE AddPrescreen(w)
    BY <1>2, <1>3, <1>8 DEF AddPrescreen, Labels, After1
  <1>9. CASE ReadPages(w)
    BY <1>3, <1>9 DEF ReadPages, Labels, After1
  <1>10. CASE ParseFails(w)
    BY <1>3, <1>10 DEF ParseFails, Labels, Early
  <1>11. CASE ReadClaims(w)
    BY <1>3, <1>11 DEF ReadClaims, Labels, After1
  <1>12. CASE SaveClaims(w)
    BY <1>2, <1>3, <1>12 DEF SaveClaims, Labels, After1
  <1>13. CASE ReadAxis(w)
    BY <1>3, <1>13 DEF ReadAxis, Labels, Scoring
  <1>14. CASE ReadMemo(w)
    BY <1>3, <1>14 DEF ReadMemo, Labels, Writing
  <1>15. CASE SaveAxes(w) \/ SaveMemo(w) \/ Succeed(w)
    BY <1>2, <1>15 DEF SaveAxes, SaveMemo, Succeed, Writes
  <1>16. CASE CommitFailed(w)
    <2>1. \A v \in Workers : Stays(v)
      BY <1>16, LeavesAreQuiet DEF CommitFailed, Return
    <2> QED
      BY <1>16, <1>a, <1>c, <2>1 DEF CommitFailed, Quiet, Inserted, TypeOK
  <1>17. CASE Abandon(w) \/ Crash(w)
    BY <1>1, <1>17 DEF Abandon, Crash, Return
  <1> QED
    BY <1>4, <1>5, <1>6, <1>7, <1>8, <1>9, <1>10, <1>11, <1>12, <1>13, <1>14, <1>15, <1>16,
       <1>17 DEF RunStep, RunFault

(* While a run is advanced, no other advanced run has its job. *)
LEMMA AloneAtJob ==
  ASSUME Types, History, NEW w \in Workers, pc[w] # "idle",
         pc[w] \in Advanced \/ 1 \notin steps[cur[w]]
  PROVE  \A v \in Workers : v # w /\ pc[v] \in Advanced => cur[v] # cur[w]
  <1>1. \A v \in Workers : pc[v] \in Advanced => 1 \in steps[cur[v]]
    BY DEF History, RunsMatchLog, Advanced
  <1> QED
    BY <1>1 DEF History, OneAdvancedRun

(* The step continues the log of the run's job, which ends at n - 1. *)
Extends(w, n) ==
    /\ steps[cur[w]] = 1..(n - 1)
    /\ steps' = [steps EXCEPT ![cur[w]] = 1..n]

LEMMA StepHistory ==
  ASSUME Types, History, NEW w \in Workers, NEW label \in Labels, NEW next \in Labels,
         NEW n \in 1..5, Logs(w, label, n, next)
  PROVE  History' /\ Extends(w, n)
  <1> DEFINE j == cur[w]
  <1>a. TypeOK /\ RunReferences
    BY DEF Types
  <1>b. /\ pc[w] = label /\ pc' = [pc EXCEPT ![w] = next] /\ cur' = cur
        /\ UNCHANGED <<status, input, oppVars>>
        /\ steps' = [steps EXCEPT ![j] = @ \cup {n}] /\ n \notin steps[j]
    BY DEF Logs, Step, At, Goto, StepTaken, oppVars
  <1>c. label # "idle" /\ j \in Jobs /\ Inserted(j)
    BY <1>a, <1>b DEF RunReferences, Logs
  <1>d. \/ label = "step1" /\ n = 1 /\ next = "prescreen"
        \/ label = "step2" /\ n = 2 /\ next = "axes"
        \/ label = "step3" /\ n = 3 /\ next = "step4"
        \/ label = "step4" /\ n = 4 /\ next = "memo"
        \/ label = "step5" /\ n = 5 /\ next = "done"
    BY DEF Logs
  <1>1. steps[j] = 1..(n - 1)
    <2>1. CASE n = 1
      <3>1. PICK m \in 0..6 : steps[j] = 1..m
        BY <1>c DEF History, LogHistory, StepsInOrder
      <3>2. m = 0
        BY <1>b, <2>1, <3>1
      <3> QED
        BY <2>1, <3>1, <3>2
    <2>2. CASE n # 1
      <3>1. /\ label = "step2" => steps[j] = 1..1
            /\ label = "step3" => steps[j] = 1..2
            /\ label = "step4" => steps[j] = 1..3
            /\ label = "step5" => steps[j] = 1..4
        BY <1>b DEF History, RunsMatchLog, After1, After2, After3, After4
      <3>2. /\ n = 2 => label = "step2"
            /\ n = 3 => label = "step3"
            /\ n = 4 => label = "step4"
            /\ n = 5 => label = "step5"
            /\ n = 2 \/ n = 3 \/ n = 4 \/ n = 5
        BY <1>d, <2>2
      <3>3. /\ n = 2 => n - 1 = 1
            /\ n = 3 => n - 1 = 2
            /\ n = 4 => n - 1 = 3
            /\ n = 5 => n - 1 = 4
        OBVIOUS
      <3> HIDE DEF j
      <3> QED
        BY <3>1, <3>2, <3>3, Zenon
    <2> QED
      BY <2>1, <2>2
  <1>2. steps'[j] = 1..n /\ \A i \in Jobs : i # j => steps'[i] = steps[i]
    BY <1>a, <1>b, <1>c, <1>1 DEF TypeOK
  <1>3. steps' = [steps EXCEPT ![j] = 1..n]
    <2>1. 1..(n - 1) \cup {n} = 1..n
      OBVIOUS
    <2> HIDE DEF j
    <2> QED
      BY <1>b, <1>1, <2>1
  <1>4. \A v \in Workers : v # w /\ pc[v] \in Advanced => cur[v] # j
    <2>1. pc[w] \in Advanced \/ 1 \notin steps[j]
      BY <1>b, <1>d DEF Advanced, After1, After2, After3, After4
    <2> QED
      BY <1>b, <1>c, <2>1, AloneAtJob
  <1>5. \A v \in Workers : v # w => pc'[v] = pc[v]
    BY <1>a, <1>b DEF TypeOK
  <1>6. pc'[w] = next
    BY <1>a, <1>b DEF TypeOK
  <1>7. \A v \in Workers : pc[v] \in Advanced => cur[v] \in Jobs
    BY <1>a DEF RunReferences, Advanced, After1, After2, After3, After4, After5, Scoring, Writing
  <1>8. \A i \in Jobs : (Inserted(i)' <=> Inserted(i)) /\ status'[i] = status[i] /\ input'[i] = input[i]
    BY <1>b DEF Inserted
  <1>9. memos' = memos /\ axisRows' = axisRows
    BY <1>b DEF oppVars
  <1> HIDE DEF j
  <1>10. RunsMatchLog'
    <2> SUFFICES ASSUME NEW v \in Workers
                 PROVE  /\ pc'[v] \in After1 => steps'[cur'[v]] = 1..1
                        /\ pc'[v] \in After2 => steps'[cur'[v]] = 1..2
                        /\ pc'[v] \in After3 => steps'[cur'[v]] = 1..3
                        /\ pc'[v] \in After4 => steps'[cur'[v]] = 1..4
                        /\ pc'[v] \in After5 => steps'[cur'[v]] = 1..5
      BY DEF RunsMatchLog
    <2>1. CASE v = w
      BY <1>b, <1>d, <1>2, <1>6, <2>1
         DEF j, After1, After2, After3, After4, After5, Scoring, Writing
    <2>2. CASE v # w
      BY <1>b, <1>2, <1>4, <1>5, <1>7, <2>2 DEF History, RunsMatchLog, Advanced
    <2> QED
      BY <2>1, <2>2
  <1>11. OneAdvancedRun'
    BY <1>b, <1>4, <1>5 DEF History, OneAdvancedRun, j
  <1>12. \A i \in Jobs : steps[i] \subseteq steps'[i]
    BY <1>b, <1>2 DEF j
  <1>13. LogHistory'
    <2>1. n \in 0..6
      OBVIOUS
    <2>2. StepsInOrder'
      BY <1>2, <1>c, <2>1 DEF History, LogHistory, StepsInOrder
    <2>3. \A i \in Jobs : steps'[i] # {} => Inserted(i)'
      BY <1>2, <1>8, <1>c DEF History, LogHistory
    <2>4. \A i \in Jobs : status'[i] = "succeeded" => 6 \in steps'[i]
      BY <1>8, <1>12 DEF History, LogHistory
    <2> QED
      BY <2>2, <2>3, <2>4 DEF LogHistory
  <1>14. MemoHistory'
    <2>1. \A o \in Opps : \A r \in memos[o] : r.job \in Jobs
      BY <1>a DEF TypeOK, Row
    <2>2. n # 5 => (5 \in steps'[j] <=> 5 \in steps[j])
      BY <1>2, <1>1
    <2>3. n = 4 => \A o \in Opps : RowsBy(memos[o], j) = {}
      BY <1>1 DEF History, MemoHistory, RowsBy
    <2>4. n = 5 => RowsBy(memos[input[j].opp], j) # {}
      BY <1>b, <1>d DEF History, MemoHistory, Opp, j
    <2>5. \A v \in Workers : pc'[v] \in Writing => \A o \in Opps : RowsBy(memos[o], cur[v]) = {}
      BY <1>5, <1>6, <1>d, <2>3 DEF History, MemoHistory, Writing, j
    <2>6. \A v \in Workers : pc'[v] = "step5" => RowsBy(memos[Opp(v)], cur[v]) # {}
      BY <1>5, <1>6, <1>d DEF History, MemoHistory
    <2>7. \A v \in Workers : Opp(v)' = Opp(v)
      BY <1>b DEF Opp
    <2>8. \A i \in Jobs : 5 \in steps'[i] => RowsBy(memos[input[i].opp], i) # {}
      BY <1>2, <2>2, <2>4 DEF History, MemoHistory
    <2>9. \A o \in Opps : \A r \in memos[o] :
            Inserted(r.job) /\ input[r.job].opp = o /\ 4 \in steps'[r.job]
      BY <1>12, <2>1 DEF History, MemoHistory
    <2> QED
      BY <1>b, <1>8, <1>9, <2>1, <2>5, <2>6, <2>7, <2>8, <2>9 DEF History, MemoHistory, RowsBy
  <1>15. AxisHistory'
    <2>1. \A o \in Opps, a \in Axes : \A r \in axisRows[o][a] : r.job \in Jobs
      BY <1>a DEF TypeOK, Row
    <2>2. n # 3 => (3 \in steps'[j] <=> 3 \in steps[j])
      BY <1>2, <1>1
    <2>3. n = 2 => \A o \in Opps, a \in Axes : RowsBy(axisRows[o][a], j) = {}
      BY <1>1 DEF History, AxisHistory, RowsBy
    <2>4. n = 3 => \A a \in Axes : RowsBy(axisRows[input[j].opp][a], j) # {}
      BY <1>b, <1>d DEF History, AxisHistory, Opp, j
    <2>5. \A v \in Workers : pc'[v] \in Scoring =>
            \A o \in Opps, a \in Axes : RowsBy(axisRows[o][a], cur[v]) = {}
      BY <1>5, <1>6, <1>d, <2>3 DEF History, AxisHistory, Scoring, j
    <2>6. \A v \in Workers : pc'[v] = "step3" =>
            \A a \in Axes : RowsBy(axisRows[Opp(v)][a], cur[v]) # {}
      BY <1>5, <1>6, <1>d DEF History, AxisHistory
    <2>7. \A v \in Workers : Opp(v)' = Opp(v)
      BY <1>b DEF Opp
    <2>8. \A i \in Jobs : 3 \in steps'[i] => \A a \in Axes : RowsBy(axisRows[input[i].opp][a], i) # {}
      BY <1>2, <2>2, <2>4 DEF History, AxisHistory
    <2>9. \A o \in Opps, a \in Axes : \A r \in axisRows[o][a] :
            Inserted(r.job) /\ input[r.job].opp = o /\ 2 \in steps'[r.job]
      BY <1>12, <2>1 DEF History, AxisHistory
    <2> QED
      BY <1>b, <1>8, <1>9, <2>1, <2>5, <2>6, <2>7, <2>8, <2>9 DEF History, AxisHistory, RowsBy
  <1> QED
    BY <1>1, <1>3, <1>10, <1>11, <1>13, <1>14, <1>15 DEF History, Extends, j

(* The write of the axis scores. *)
AxisRow(w, a) == [version |-> local[w].axes[a] + 1, job |-> cur[w]]

LEMMA SaveAxesHistory ==
  ASSUME Types, History, NEW w \in Workers, SaveAxes(w), ~AxisTaken(w)
  PROVE  /\ History'
         /\ steps[cur[w]] = 1..2
         /\ \A o \in Opps, a \in Axes : RowsBy(axisRows[o][a], cur[w]) = {}
         /\ \A a \in Axes : axisRows'[Opp(w)][a] = axisRows[Opp(w)][a] \cup {AxisRow(w, a)}
         /\ \A o \in Opps : o # Opp(w) => axisRows'[o] = axisRows[o]
         /\ UNCHANGED <<steps, memos>>
  <1> DEFINE j == cur[w]
             row(a) == AxisRow(w, a)
             q == Opp(w)
  <1>a. TypeOK /\ RunReferences
    BY DEF Types
  <1>b. /\ pc[w] = "save_axes" /\ pc' = [pc EXCEPT ![w] = "step3"] /\ cur' = cur
        /\ UNCHANGED <<jobVars, steps, memos>>
        /\ axisRows' = [axisRows EXCEPT ![q] = [a \in Axes |-> @[a] \cup {row(a)}]]
    BY DEF SaveAxes, At, Goto, AxisRow
  <1>c. j \in Jobs /\ Inserted(j) /\ q \in Opps
    BY <1>a, <1>b DEF RunReferences, Inserted, Input, Opp
  <1>d. \A a \in Axes : row(a).job = j
    BY DEF AxisRow
  <1>1. /\ \A a \in Axes : axisRows'[q][a] = axisRows[q][a] \cup {row(a)}
        /\ \A o \in Opps : o # q => axisRows'[o] = axisRows[o]
    BY <1>a, <1>b, <1>c DEF TypeOK
  <1>2. steps[j] = 1..2
    BY <1>b DEF History, RunsMatchLog, After2, Scoring
  <1>3. \A o \in Opps, a \in Axes : RowsBy(axisRows[o][a], j) = {}
    BY <1>b DEF History, AxisHistory, Scoring
  <1>4. \A v \in Workers : v # w /\ pc[v] \in Advanced => cur[v] # j
    BY <1>b, AloneAtJob DEF Advanced, After2, Scoring
  <1>5. pc'[w] = "step3" /\ \A v \in Workers : v # w => pc'[v] = pc[v]
    BY <1>a, <1>b DEF TypeOK
  <1>6. \A i \in Jobs : (Inserted(i)' <=> Inserted(i)) /\ status'[i] = status[i] /\ input'[i] = input[i]
    BY <1>b DEF jobVars, Inserted
  <1>7. /\ cur' = cur /\ steps' = steps /\ memos' = memos
        /\ \A v \in Workers : Opp(v)' = Opp(v)
    BY <1>b DEF Opp, jobVars
  <1>8. q = input[j].opp
    BY DEF Opp
  <1> HIDE DEF j, row, q
  <1>9. RunsMatchLog'
    BY <1>2, <1>5, <1>7 DEF History, RunsMatchLog, After1, After2, After3, After4, After5,
          Scoring, Writing, j
  <1>10. OneAdvancedRun'
    <2>1. \A v \in Workers : pc'[v] \in Advanced => pc[v] \in Advanced
      BY <1>b, <1>5 DEF Advanced, After2, Scoring
    <2> QED
      BY <1>7, <2>1 DEF History, OneAdvancedRun
  <1>11. LogHistory'
    BY <1>6, <1>7 DEF History, LogHistory, StepsInOrder
  <1>12. MemoHistory'
    <2>1. \A o \in Opps : \A r \in memos[o] : r.job \in Jobs
      BY <1>a DEF TypeOK, Row
    <2>2. \A v \in Workers : (pc'[v] \in Writing => pc[v] \in Writing)
                             /\ (pc'[v] = "step5" => pc[v] = "step5")
      BY <1>5 DEF Writing
    <2> QED
      BY <1>6, <1>7, <2>1, <2>2 DEF History, MemoHistory, RowsBy
  <1>13. AxisHistory'
    <2> SUFFICES ASSUME NEW a \in Axes
                 PROVE  /\ \A o \in Opps : \A r \in axisRows'[o][a] :
                              Inserted(r.job)' /\ input'[r.job].opp = o /\ 2 \in steps'[r.job]
                        /\ \A o \in Opps : \A r, s \in axisRows'[o][a] : r.job = s.job => r = s
                        /\ \A v \in Workers : pc'[v] \in Scoring =>
                              \A o \in Opps : RowsBy(axisRows'[o][a], cur'[v]) = {}
                        /\ \A v \in Workers : pc'[v] = "step3" =>
                              RowsBy(axisRows'[Opp(v)'][a], cur'[v]) # {}
                        /\ \A i \in Jobs : 3 \in steps'[i] =>
                              RowsBy(axisRows'[input'[i].opp][a], i) # {}
      BY DEF AxisHistory, RowsBy
    <2>a. \A o \in Opps : \A r \in axisRows[o][a] : r.job \in Jobs
      BY <1>a DEF TypeOK, Row
    <2>b. /\ axisRows'[q][a] = axisRows[q][a] \cup {row(a)}
          /\ \A o \in Opps : o # q => axisRows'[o][a] = axisRows[o][a]
          /\ row(a).job = j
      BY <1>1, <1>d
    <2>c. \A o \in Opps : \A r \in axisRows'[o][a] :
              r \in axisRows[o][a] \/ (o = q /\ r = row(a))
      BY <2>b
    <2>d. \A o \in Opps : \A r \in axisRows[o][a] : r.job # j
      BY <1>3 DEF RowsBy
    <2>1. \A o \in Opps : \A r \in axisRows'[o][a] :
              Inserted(r.job)' /\ input'[r.job].opp = o /\ 2 \in steps'[r.job]
      BY <1>c, <1>2, <1>6, <1>7, <1>8, <2>a, <2>b, <2>c DEF History, AxisHistory
    <2>2. \A o \in Opps : \A r, s \in axisRows'[o][a] : r.job = s.job => r = s
      BY <2>b, <2>c, <2>d DEF History, AxisHistory
    <2>3. ASSUME NEW v \in Workers, pc'[v] \in Scoring, NEW o \in Opps
          PROVE  RowsBy(axisRows'[o][a], cur'[v]) = {}
      <3>1. v # w /\ pc[v] \in Scoring /\ cur[v] # j /\ cur'[v] = cur[v]
        BY <1>4, <1>5, <1>7, <2>3 DEF Scoring, Advanced, After2
      <3>2. RowsBy(axisRows[o][a], cur[v]) = {}
        BY <3>1 DEF History, AxisHistory
      <3> QED
        BY <2>b, <2>c, <3>1, <3>2 DEF RowsBy
    <2>4. ASSUME NEW v \in Workers, pc'[v] = "step3"
          PROVE  RowsBy(axisRows'[Opp(v)'][a], cur'[v]) # {}
      <3>1. CASE v = w
        BY <1>7, <2>b, <3>1 DEF RowsBy, q, j
      <3>2. CASE v # w
        <4>1. RowsBy(axisRows[Opp(v)][a], cur[v]) # {} /\ Opp(v) \in Opps
          BY <1>a, <1>5, <2>4, <3>2 DEF History, AxisHistory, RunReferences, Inserted, Input, Opp
        <4> QED
          BY <1>7, <2>b, <4>1 DEF RowsBy
      <3> QED
        BY <3>1, <3>2
    <2>5. ASSUME NEW i \in Jobs, 3 \in steps'[i]
          PROVE  RowsBy(axisRows'[input'[i].opp][a], i) # {}
      <3>1. RowsBy(axisRows[input[i].opp][a], i) # {} /\ input[i].opp \in Opps
        BY <1>7, <2>5 DEF History, AxisHistory, LogHistory, Inserted, Input
      <3> QED
        BY <1>6, <2>b, <3>1 DEF RowsBy
    <2> QED
      BY <2>1, <2>2, <2>3, <2>4, <2>5
  <1> QED
    BY <1>1, <1>2, <1>3, <1>7, <1>9, <1>10, <1>11, <1>12, <1>13 DEF History, j, row, q

(* The write of the memo. *)
MemoRow(w) == [version |-> local[w].memo + 1, job |-> cur[w]]

LEMMA SaveMemoHistory ==
  ASSUME Types, History, NEW w \in Workers, SaveMemo(w), ~MemoTaken(w)
  PROVE  /\ History'
         /\ steps[cur[w]] = 1..4
         /\ \A o \in Opps : RowsBy(memos[o], cur[w]) = {}
         /\ memos'[Opp(w)] = memos[Opp(w)] \cup {MemoRow(w)}
         /\ \A o \in Opps : o # Opp(w) => memos'[o] = memos[o]
         /\ UNCHANGED <<steps, axisRows>>
  <1> DEFINE j == cur[w]
             row == MemoRow(w)
             q == Opp(w)
  <1>a. TypeOK /\ RunReferences
    BY DEF Types
  <1>b. /\ pc[w] = "save_memo" /\ pc' = [pc EXCEPT ![w] = "step5"] /\ cur' = cur
        /\ UNCHANGED <<jobVars, steps, axisRows>>
        /\ memos' = [memos EXCEPT ![q] = @ \cup {row}]
    BY DEF SaveMemo, At, Goto, MemoRow
  <1>c. j \in Jobs /\ Inserted(j) /\ q \in Opps
    BY <1>a, <1>b DEF RunReferences, Inserted, Input, Opp
  <1>d. row.job = j
    BY DEF MemoRow
  <1>1. /\ memos'[q] = memos[q] \cup {row}
        /\ \A o \in Opps : o # q => memos'[o] = memos[o]
    BY <1>a, <1>b, <1>c DEF TypeOK
  <1>2. steps[j] = 1..4
    BY <1>b DEF History, RunsMatchLog, After4, Writing
  <1>3. \A o \in Opps : RowsBy(memos[o], j) = {}
    BY <1>b DEF History, MemoHistory, Writing
  <1>4. \A v \in Workers : v # w /\ pc[v] \in Advanced => cur[v] # j
    BY <1>b, AloneAtJob DEF Advanced, After4, Writing
  <1>5. pc'[w] = "step5" /\ \A v \in Workers : v # w => pc'[v] = pc[v]
    BY <1>a, <1>b DEF TypeOK
  <1>6. \A i \in Jobs : (Inserted(i)' <=> Inserted(i)) /\ status'[i] = status[i] /\ input'[i] = input[i]
    BY <1>b DEF jobVars, Inserted
  <1>7. /\ cur' = cur /\ steps' = steps /\ axisRows' = axisRows
        /\ \A v \in Workers : Opp(v)' = Opp(v)
    BY <1>b DEF Opp, jobVars
  <1>8. q = input[j].opp
    BY DEF Opp
  <1> HIDE DEF j, row, q
  <1>9. RunsMatchLog'
    BY <1>2, <1>5, <1>7 DEF History, RunsMatchLog, After1, After2, After3, After4, After5,
          Scoring, Writing, j
  <1>10. OneAdvancedRun'
    <2>1. \A v \in Workers : pc'[v] \in Advanced => pc[v] \in Advanced
      BY <1>b, <1>5 DEF Advanced, After4, Writing
    <2> QED
      BY <1>7, <2>1 DEF History, OneAdvancedRun
  <1>11. LogHistory'
    BY <1>6, <1>7 DEF History, LogHistory, StepsInOrder
  <1>12. AxisHistory'
    <2>1. \A o \in Opps, a \in Axes : \A r \in axisRows[o][a] : r.job \in Jobs
      BY <1>a DEF TypeOK, Row
    <2>2. \A v \in Workers : (pc'[v] \in Scoring => pc[v] \in Scoring)
                             /\ (pc'[v] = "step3" => pc[v] = "step3")
      BY <1>5 DEF Scoring
    <2> QED
      BY <1>6, <1>7, <2>1, <2>2 DEF History, AxisHistory, RowsBy
  <1>13. MemoHistory'
    <2>a. \A o \in Opps : \A r \in memos[o] : r.job \in Jobs
      BY <1>a DEF TypeOK, Row
    <2>c. \A o \in Opps : \A r \in memos'[o] : r \in memos[o] \/ (o = q /\ r = row)
      BY <1>1
    <2>d. \A o \in Opps : \A r \in memos[o] : r.job # j
      BY <1>3 DEF RowsBy
    <2>1. \A o \in Opps : \A r \in memos'[o] :
              Inserted(r.job)' /\ input'[r.job].opp = o /\ 4 \in steps'[r.job]
      BY <1>c, <1>d, <1>2, <1>6, <1>7, <1>8, <2>a, <2>c DEF History, MemoHistory
    <2>2. \A o \in Opps : \A r, s \in memos'[o] : r.job = s.job => r = s
      BY <1>d, <2>c, <2>d DEF History, MemoHistory
    <2>3. ASSUME NEW v \in Workers, pc'[v] \in Writing, NEW o \in Opps
          PROVE  RowsBy(memos'[o], cur'[v]) = {}
      <3>1. v # w /\ pc[v] \in Writing /\ cur[v] # j /\ cur'[v] = cur[v]
        BY <1>4, <1>5, <1>7, <2>3 DEF Writing, Advanced, After4
      <3>2. RowsBy(memos[o], cur[v]) = {}
        BY <3>1 DEF History, MemoHistory
      <3> QED
        BY <1>d, <2>c, <3>1, <3>2 DEF RowsBy
    <2>4. ASSUME NEW v \in Workers, pc'[v] = "step5"
          PROVE  RowsBy(memos'[Opp(v)'], cur'[v]) # {}
      <3>1. CASE v = w
        BY <1>d, <1>1, <1>7, <3>1 DEF RowsBy, q, j
      <3>2. CASE v # w
        <4>1. RowsBy(memos[Opp(v)], cur[v]) # {} /\ Opp(v) \in Opps
          BY <1>a, <1>5, <2>4, <3>2 DEF History, MemoHistory, RunReferences, Inserted, Input, Opp
        <4> QED
          BY <1>1, <1>7, <4>1 DEF RowsBy
      <3> QED
        BY <3>1, <3>2
    <2>5. ASSUME NEW i \in Jobs, 5 \in steps'[i]
          PROVE  RowsBy(memos'[input'[i].opp], i) # {}
      <3>1. RowsBy(memos[input[i].opp], i) # {} /\ input[i].opp \in Opps
        BY <1>7, <2>5 DEF History, MemoHistory, LogHistory, Inserted, Input
      <3> QED
        BY <1>1, <1>6, <3>1 DEF RowsBy
    <2> QED
      BY <2>1, <2>2, <2>3, <2>4, <2>5 DEF MemoHistory, RowsBy
  <1> QED
    BY <1>1, <1>2, <1>3, <1>7, <1>9, <1>10, <1>11, <1>12, <1>13 DEF History, j, row, q

(* The last step, which also makes the job succeeded. *)
LEMMA SucceedHistory ==
  ASSUME Types, History, NEW w \in Workers, Succeed(w), ~StepTaken(cur[w], 6)
  PROVE  /\ History'
         /\ cur[w] \in Jobs
         /\ steps[cur[w]] = 1..5
         /\ steps' = [steps EXCEPT ![cur[w]] = 1..6]
         /\ UNCHANGED <<memos, axisRows>>
  <1> DEFINE j == cur[w]
  <1>a. TypeOK /\ RunReferences
    BY DEF Types
  <1>b. /\ pc[w] = "done" /\ Vanish(w)
        /\ UNCHANGED <<input, oppVars>>
        /\ steps' = [steps EXCEPT ![j] = @ \cup {6}]
        /\ status' = [status EXCEPT ![j] = "succeeded"]
    BY DEF Succeed, At, Return
  <1>c. j \in Jobs /\ Inserted(j)
    BY <1>a, <1>b DEF RunReferences
  <1>1. steps[j] = 1..5
    BY <1>b DEF History, RunsMatchLog, After5
  <1>2. steps'[j] = 1..6 /\ \A i \in Jobs : i # j => steps'[i] = steps[i]
    BY <1>a, <1>b, <1>c, <1>1 DEF TypeOK
  <1>3. steps' = [steps EXCEPT ![j] = 1..6]
    <2>1. 1..5 \cup {6} = 1..6
      OBVIOUS
    <2> HIDE DEF j
    <2> QED
      BY <1>b, <1>1, <2>1
  <1>4. \A v \in Workers : v # w /\ pc[v] \in Advanced => cur[v] # j
    BY <1>b, AloneAtJob DEF Advanced, After5
  <1>5. /\ pc'[w] = "idle"
        /\ \A v \in Workers : v # w => pc'[v] = pc[v] /\ cur'[v] = cur[v]
    BY <1>a, <1>b DEF Vanish, TypeOK
  <1>6. \A i \in Jobs : /\ Inserted(i) => Inserted(i)'
                        /\ i # j => status'[i] = status[i]
    BY <1>a, <1>b, <1>c DEF Inserted, TypeOK
  <1>7. /\ memos' = memos /\ axisRows' = axisRows /\ input' = input
    BY <1>b DEF oppVars
  <1>8. \A v \in Workers : pc[v] \in Advanced => cur[v] \in Jobs
    BY <1>a DEF RunReferences, Advanced, After1, After2, After3, After4, After5, Scoring, Writing
  <1>9. \A i \in Jobs, n \in 1..5 : n \in steps'[i] <=> n \in steps[i]
    BY <1>1, <1>2
  <1>10. \A v \in Workers : pc'[v] # "idle" =>
           v # w /\ pc'[v] = pc[v] /\ cur'[v] = cur[v] /\ Opp(v)' = Opp(v)
    BY <1>5, <1>7 DEF Opp
  <1> HIDE DEF j
  <1>11. RunsMatchLog'
    <2>1. \A v \in Workers : pc'[v] \in Advanced =>
            v # w /\ pc'[v] = pc[v] /\ cur'[v] = cur[v] /\ steps'[cur[v]] = steps[cur[v]]
      BY <1>2, <1>4, <1>8, <1>10
         DEF Advanced, After1, After2, After3, After4, After5, Scoring, Writing
    <2> QED
      BY <2>1 DEF History, RunsMatchLog, Advanced
  <1>12. OneAdvancedRun'
    BY <1>10 DEF History, OneAdvancedRun, Advanced, After1, After2, After3, After4, After5,
          Scoring, Writing
  <1>13. LogHistory'
    <2>1. StepsInOrder'
      BY <1>2 DEF History, LogHistory, StepsInOrder
    <2>2. \A i \in Jobs : status'[i] = "succeeded" => 6 \in steps'[i]
      BY <1>2, <1>6 DEF History, LogHistory
    <2>3. \A i \in Jobs : steps'[i] # {} => Inserted(i)'
      BY <1>c, <1>2, <1>6 DEF History, LogHistory
    <2> QED
      BY <2>1, <2>2, <2>3 DEF LogHistory
  <1>14. MemoHistory'
    <2>1. \A o \in Opps : \A r \in memos[o] : r.job \in Jobs
      BY <1>a DEF TypeOK, Row
    <2> QED
      BY <1>6, <1>7, <1>9, <1>10, <2>1 DEF History, MemoHistory, RowsBy, Writing
  <1>15. AxisHistory'
    <2>1. \A o \in Opps, a \in Axes : \A r \in axisRows[o][a] : r.job \in Jobs
      BY <1>a DEF TypeOK, Row
    <2> QED
      BY <1>6, <1>7, <1>9, <1>10, <2>1 DEF History, AxisHistory, RowsBy, Scoring
  <1> QED
    BY <1>c, <1>1, <1>3, <1>7, <1>11, <1>12, <1>13, <1>14, <1>15 DEF History, j

(* Every step of the pipeline is quiet or one of the writes of a run. *)
LEMMA QuietOrWrites ==
  ASSUME Types, Next
  PROVE  Quiet \/ \E w \in Workers : Writes(w)
  BY HttpIsQuiet, RestIsQuiet, RunIsQuiet DEF Next

LEMMA StutterIsQuiet ==
  ASSUME UNCHANGED vars
  PROVE  Quiet
  BY DEF vars, jobVars, oppVars, runVars, Quiet, Stays, Inserted

LEMMA HistoryNext == Types /\ History /\ [Next]_vars => History'
  <1> SUFFICES ASSUME Types, History, [Next]_vars PROVE History'
    OBVIOUS
  <1>1. CASE Quiet
    BY <1>1, QuietHistory
  <1>2. ASSUME NEW w \in Workers, Writes(w) PROVE History'
    BY <1>2, StepHistory, SaveAxesHistory, SaveMemoHistory, SucceedHistory DEF Writes
  <1> QED
    BY <1>1, <1>2, QuietOrWrites, StutterIsQuiet

LEMMA HistoryInvariant == Spec => [](Types /\ History)
  <1>1. Init => Types /\ History
    BY TypesInit, HistoryInit
  <1>2. Types /\ History /\ [Next]_vars => Types' /\ History'
    BY TypesNext, HistoryNext
  <1> QED
    BY <1>1, <1>2, PTL DEF Spec

(* The agent_steps rows of every job are 1..n: no gap, whatever is redelivered. *)
THEOREM LogOrder == Spec => []StepsInOrder
  <1>1. History => StepsInOrder
    BY DEF History, LogHistory
  <1> QED
    BY <1>1, HistoryInvariant, PTL

(* process_job stores at most one memo for a job, over all its executions. *)
THEOREM MemoUniqueness == Spec => []OneMemoPerJob
  <1>1. History => OneMemoPerJob
    BY DEF History, MemoHistory, OneMemoPerJob
  <1> QED
    BY <1>1, HistoryInvariant, PTL

(* The status succeeded is never ahead of the steps, memo and scores stored. *)
THEOREM SuccessIsComplete == Spec => []SucceededIsComplete
  <1>1. ASSUME History, NEW j \in Jobs, status[j] = "succeeded"
        PROVE  /\ steps[j] = Seqs
               /\ RowsBy(memos[input[j].opp], j) # {}
               /\ \A a \in Axes : RowsBy(axisRows[input[j].opp][a], j) # {}
    <2>1. PICK n \in 0..6 : steps[j] = 1..n
      BY <1>1 DEF History, LogHistory, StepsInOrder
    <2>2. 6 \in steps[j]
      BY <1>1 DEF History, LogHistory
    <2>3. n = 6
      BY <2>1, <2>2
    <2>4. steps[j] = Seqs /\ 5 \in steps[j] /\ 3 \in steps[j]
      BY <2>1, <2>3 DEF Seqs
    <2> QED
      BY <1>1, <2>4 DEF History, MemoHistory, AxisHistory
  <1>2. History => SucceededIsComplete
    BY <1>1 DEF SucceededIsComplete
  <1> QED
    BY <1>2, HistoryInvariant, PTL

--------------------------------------------------------------------------------
(* The status.  Nothing sets a job back to queued, so that a run past its first  *)
(* commit, a run that loaded the job as running (whose first commit leaves the   *)
(* status alone) and a victim of the reaper each have a job that has been        *)
(* started, whatever else happened to it since.                                  *)

Ran(j) == status[j] \notin {"none", "queued"}

RunBegan(w) ==
    /\ pc[w] \notin {"idle", "load", "start"} => Ran(cur[w])
    /\ pc[w] = "start" /\ local[w].status = "running" => Ran(cur[w])

Began == (\A w \in Workers : RunBegan(w)) /\ (\A j \in victims : Ran(j))

LEMMA BeganInit == Init => Began
  BY DEF Init, Began, RunBegan

(* The ways in which a step changes the statuses *)
Sets(j, s) == status' = [status EXCEPT ![j] = s]

Restates ==
    \/ UNCHANGED status
    \/ \E j \in Jobs : ~Inserted(j) /\ status[j] = "none" /\ Sets(j, "queued")
    \/ \E j \in Jobs : Inserted(j) /\ (Sets(j, "running") \/ Sets(j, "cancelled"))
    \/ \E j \in Jobs : Ran(j) /\ Sets(j, "succeeded")
    \/ \E S \in (SUBSET Jobs) \ {{}} :
          /\ \A j \in S : Ran(j)
          /\ status' = [j \in Jobs |-> IF j \in S THEN "failed" ELSE status[j]]

LEMMA StatusMoves ==
  ASSUME Types, Began, [Next]_vars
  PROVE  Restates
  <1>a. TypeOK /\ RowReferences /\ ApiReferences /\ RunReferences
    BY DEF Types
  <1> USE DEF jobVars
  <1>1. ASSUME UNCHANGED status PROVE Restates
    BY <1>1 DEF Restates
  <1>2. ASSUME NEW h \in Handlers, Http(h) PROVE Restates
    <2>1. CASE InsertJob(h)
      BY <2>1 DEF InsertJob, Restates, Sets, Inserted
    <2>2. CASE CommitCancel(h)
      BY <1>a, <2>2 DEF CommitCancel, ApiReferences, Restates, Sets
    <2> QED
      BY <1>1, <1>2, <2>1, <2>2 DEF Http, StartJob, RetryJob, Dispatch, DispatchLost, CancelJob
  <1>3. ASSUME NEW w \in Workers, RunStep(w) \/ RunFault(w) PROVE Restates
    <2> USE DEF At
    <2>1. ASSUME pc[w] # "idle" PROVE cur[w] \in Jobs /\ Inserted(cur[w])
      BY <1>a, <2>1 DEF RunReferences
    <2>2. CASE MarkRunning(w)
      BY <1>1, <2>1, <2>2 DEF MarkRunning, Restates, Sets
    <2>3. CASE Succeed(w)
      <3>1. cur[w] \in Jobs /\ Ran(cur[w])
        BY <2>1, <2>3 DEF Succeed, Began, RunBegan
      <3>2. UNCHANGED status \/ Sets(cur[w], "succeeded")
        BY <2>3 DEF Succeed, Conflict, Sets
      <3> QED
        BY <3>1, <3>2 DEF Restates
    <2>4. CASE CommitFailed(w)
      <3>1. cur[w] \in Jobs /\ Ran(cur[w])
        BY <2>1, <2>4 DEF CommitFailed, Began, RunBegan
      <3>2. status' = [j \in Jobs |-> IF j \in {cur[w]} THEN "failed" ELSE status[j]]
        BY <1>a, <2>4 DEF CommitFailed, TypeOK
      <3>3. {cur[w]} \in (SUBSET Jobs) \ {{}} /\ \A j \in {cur[w]} : Ran(j)
        BY <3>1
      <3> QED
        BY <3>2, <3>3 DEF Restates
    <2> USE DEF Conflict
    <2>5. CASE LoadJob(w) \/ StepPrescreen(w) \/ StepExtract(w) \/ StepScore(w)
               \/ StepRecommend(w) \/ StepMemo(w)
      BY <1>1, <2>5 DEF LoadJob, StepPrescreen, StepExtract, StepScore, StepRecommend, StepMemo, Step
    <2>6. CASE ReadPrescreen(w) \/ AddPrescreen(w) \/ ReadPages(w) \/ ParseFails(w)
               \/ ReadClaims(w) \/ SaveClaims(w)
      BY <1>1, <2>6 DEF ReadPrescreen, AddPrescreen, ReadPages, ParseFails, ReadClaims, SaveClaims
    <2>7. CASE ReadAxis(w) \/ SaveAxes(w) \/ ReadMemo(w) \/ SaveMemo(w) \/ RunFault(w)
      BY <1>1, <2>7 DEF ReadAxis, SaveAxes, ReadMemo, SaveMemo, RunFault, Abandon, Crash
    <2> QED
      BY <1>3, <2>2, <2>3, <2>4, <2>5, <2>6, <2>7 DEF RunStep
  <1>4. CASE ReaperCommit
    <2>1. victims \in (SUBSET Jobs) \ {{}} /\ \A j \in victims : Ran(j)
      BY <1>a, <1>4 DEF ReaperCommit, TypeOK, Began
    <2>2. status' = [j \in Jobs |-> IF j \in victims THEN "failed" ELSE status[j]]
      BY <1>4 DEF ReaperCommit
    <2> QED
      BY <2>1, <2>2 DEF Restates
  <1>5. CASE Queue \/ ReaperSelect \/ UNCHANGED vars \/ \E j \in Jobs : ExpireKey(j)
    BY <1>1, <1>5 DEF Queue, Deliver, DropExhausted, RedisLost, ReaperSelect, ExpireKey, vars
  <1> QED
    BY <1>2, <1>3, <1>4, <1>5 DEF Next, Reaper

LEMMA StartedForGood ==
  ASSUME Types, Restates
  PROVE  \A j \in Jobs : Ran(j) => Ran(j)'
  BY DEF Types, TypeOK, Restates, Sets, Ran

LEMMA BeganNext == Types /\ Began /\ [Next]_vars => Began'
  <1> SUFFICES ASSUME Types, Began, [Next]_vars PROVE Began'
    OBVIOUS
  <1>a. TypeOK /\ RowReferences /\ RunReferences
    BY DEF Types
  <1>b. \A j \in Jobs : Ran(j) => Ran(j)'
    BY StatusMoves, StartedForGood
  <1>c. \A w \in Workers : pc[w] # "idle" => cur[w] \in Jobs
    BY <1>a DEF RunReferences
  <1>d. UNCHANGED victims => \A j \in victims' : Ran(j)'
    BY <1>a, <1>b DEF Began, TypeOK
  <1>e. ASSUME NEW w \in Workers, pc'[w] = pc[w], cur'[w] = cur[w], local'[w] = local[w]
        PROVE  RunBegan(w)'
    BY <1>e, <1>b, <1>c DEF Began, RunBegan, Ran
  <1> USE DEF jobVars, runVars
  <1>1. ASSUME UNCHANGED <<runVars, victims>> PROVE Began'
    BY <1>1, <1>d, <1>e DEF Began
  <1>2. ASSUME NEW w \in Workers, NEW l \in Labels, pc' = [pc EXCEPT ![w] = l],
               \A v \in Workers : v # w => cur'[v] = cur[v] /\ local'[v] = local[v],
               RunBegan(w)', UNCHANGED victims
        PROVE  Began'
    BY <1>2, <1>a, <1>d, <1>e DEF Began, TypeOK
  <1>3. ASSUME NEW w \in Workers, Vanish(w), UNCHANGED victims PROVE Began'
    BY <1>2, <1>3, <1>a DEF Vanish, RunBegan, Labels, TypeOK
  <1>4. ASSUME NEW w \in Workers, NEW j \in Jobs, Begin(w, j), UNCHANGED victims PROVE Began'
    BY <1>2, <1>4, <1>a DEF Begin, RunBegan, Labels, TypeOK
  <1>5. ASSUME NEW h \in Handlers, Http(h) PROVE Began'
    <2>1. CASE Dispatch(h)
      <3>1. api[h].job \in Jobs
        BY <2>1 DEF Dispatch, Types, ApiReferences
      <3> QED
        BY <1>1, <1>4, <2>1, <3>1 DEF Dispatch
    <2> QED
      BY <1>1, <1>5, <2>1 DEF Http, StartJob, RetryJob, InsertJob, DispatchLost, CancelJob, CommitCancel
  <1>6. ASSUME NEW w \in Workers, RunStep(w) \/ RunFault(w) PROVE Began'
    <2> USE DEF At, Conflict, Return
    <2>1. ASSUME NEW l \in Labels, Goto(w, l), UNCHANGED victims,
                 \A v \in Workers : v # w => local'[v] = local[v],
                 pc[w] \notin {"idle", "load", "start"}, l # "start"
          PROVE  Began'
      <3>1. RunBegan(w)'
        <4>1. status'[cur[w]] \notin {"none", "queued"}
          BY <1>b, <1>c, <2>1 DEF Began, RunBegan, Ran
        <4>2. cur' = cur /\ pc'[w] = l
          BY <1>a, <2>1 DEF Goto, TypeOK
        <4> QED
          BY <2>1, <4>1, <4>2 DEF RunBegan, Ran
      <3> QED
        BY <1>2, <2>1, <3>1 DEF Goto
    <2>2. CASE LoadJob(w)
      <3>1. CASE Goto(w, "start") /\ status[cur[w]] \notin Refused
        <4>1. /\ cur' = cur /\ cur[w] \in Jobs /\ UNCHANGED <<status, victims>>
              /\ local' = [local EXCEPT ![w].status = status[cur[w]],
                                        ![w].attempts = attempts[cur[w]]]
          BY <1>c, <2>2, <3>1 DEF LoadJob, Goto
        <4>2. local'[w].status = status[cur[w]] /\ \A v \in Workers : v # w => local'[v] = local[v]
          BY <1>a, <4>1 DEF TypeOK, Local
        <4>3. RunBegan(w)'
          BY <1>a, <3>1, <4>1, <4>2 DEF Goto, RunBegan, Ran, TypeOK
        <4> QED
          BY <1>2, <3>1, <4>1, <4>2, <4>3 DEF Goto, Labels
      <3> QED
        BY <1>3, <2>2, <3>1 DEF LoadJob
    <2>3. CASE MarkRunning(w)
      <3>1. cur[w] \in Jobs /\ pc[w] = "start"
        BY <1>c, <2>3 DEF MarkRunning
      <3>2. status'[cur[w]] = "running" \/ (local[w].status = "running" /\ status' = status)
        BY <1>a, <2>3, <3>1 DEF MarkRunning, TypeOK
      <3>3. status'[cur[w]] \notin {"none", "queued"}
        BY <3>1, <3>2 DEF Began, RunBegan, Ran
      <3>4. /\ pc' = [pc EXCEPT ![w] = "step1"] /\ UNCHANGED <<cur, victims>>
            /\ local' = [local EXCEPT ![w] = Fresh]
        BY <2>3 DEF MarkRunning, Goto
      <3>5. RunBegan(w)'
        BY <1>a, <3>3, <3>4 DEF RunBegan, Ran, TypeOK
      <3> QED
        BY <1>2, <1>a, <3>4, <3>5 DEF Labels, TypeOK
    <2>4. CASE StepPrescreen(w) \/ StepExtract(w) \/ StepScore(w) \/ StepRecommend(w) \/ StepMemo(w)
      BY <1>3, <2>1, <2>4 DEF StepPrescreen, StepExtract, StepScore, StepRecommend, StepMemo, Step, Labels
    <2>5. CASE ReadPrescreen(w) \/ AddPrescreen(w)
      BY <1>3, <2>1, <2>5 DEF ReadPrescreen, AddPrescreen, Labels
    <2>6. CASE ReadPages(w) \/ ParseFails(w) \/ ReadClaims(w)
      BY <1>a, <2>1, <2>6 DEF ReadPages, ParseFails, ReadClaims, Labels, TypeOK
    <2>7. CASE ReadAxis(w) \/ ReadMemo(w)
      BY <1>a, <2>1, <2>7 DEF ReadAxis, ReadMemo, Labels, TypeOK
    <2>8. CASE SaveClaims(w) \/ SaveAxes(w) \/ SaveMemo(w)
      BY <1>a, <1>3, <2>1, <2>8 DEF SaveClaims, SaveAxes, SaveMemo, Labels, TypeOK
    <2>9. CASE Succeed(w) \/ CommitFailed(w) \/ RunFault(w)
      BY <1>3, <2>9 DEF Succeed, CommitFailed, RunFault, Abandon, Crash
    <2> QED
      BY <1>6, <2>2, <2>3, <2>4, <2>5, <2>6, <2>7, <2>8, <2>9 DEF RunStep
  <1>7. CASE Queue \/ \E j \in Jobs : ExpireKey(j)
    BY <1>1, <1>4, <1>7 DEF Queue, Deliver, DropExhausted, RedisLost, ExpireKey
  <1>8. CASE Reaper
    <2>1. UNCHANGED runVars /\ \A j \in victims' : Ran(j)'
      BY <1>8 DEF Reaper, ReaperSelect, ReaperCommit, Stale, Ran
    <2> QED
      BY <1>e, <2>1 DEF Began
  <1>9. CASE UNCHANGED vars
    BY <1>1, <1>9 DEF vars
  <1> QED
    BY <1>5, <1>6, <1>7, <1>8, <1>9 DEF Next

LEMMA BeganInvariant == Spec => []Began
  BY BeganInit, BeganNext, TypesInvariant, PTL DEF Spec

--------------------------------------------------------------------------------
(* The pipeline implements JobLog. *)

LEMMA Counting ==
  ASSUME NEW S, \A r, s \in S : r = s
  PROVE  Cardinality(S) = IF S = {} THEN 0 ELSE 1
  <1>1. CASE S = {}
    BY <1>1, FS_EmptySet
  <1>2. CASE S # {}
    <2>1. PICK x : S = {x}
      BY <1>2
    <2> QED
      BY <1>2, <2>1, FS_Singleton
  <1> QED
    BY <1>1, <1>2

(* A job's scores and memos are those of its own opportunity, at most one each. *)
LEMMA Counts ==
  ASSUME Types, History, NEW j \in Jobs
  PROVE  /\ Cardinality(ScoresBy(j)) = IF ScoresBy(j) = {} THEN 0 ELSE 1
         /\ Cardinality(MemosBy(j)) = IF MemosBy(j) = {} THEN 0 ELSE 1
  <1>1. \A r, s \in ScoresBy(j) : r = s
    <2>1. 1 \in Axes
      BY DEF Axes
    <2> QED
      BY <2>1 DEF ScoresBy, RowsBy, History, AxisHistory
  <1>2. \A r, s \in MemosBy(j) : r = s
    BY DEF MemosBy, RowsBy, History, MemoHistory
  <1> QED
    BY <1>1, <1>2, Counting

LEMMA LogInit == Init => Log!Init
  <1> SUFFICES ASSUME Init PROVE Log!Init
    OBVIOUS
  <1>1. \A j \in Jobs : ScoresBy(j) = {} /\ MemosBy(j) = {}
    BY DEF Init, ScoresBy, MemosBy, RowsBy, Axes
  <1>2. \A j \in Jobs : Cardinality(ScoresBy(j)) = 0 /\ Cardinality(MemosBy(j)) = 0
    BY <1>1, FS_EmptySet
  <1> QED
    BY <1>2 DEF Init, Log!Init

LEMMA KeptCounts ==
  /\ UNCHANGED axisRows => \A j \in Jobs : ScoresBy(j)' = ScoresBy(j)
  /\ UNCHANGED memos => \A j \in Jobs : MemosBy(j)' = MemosBy(j)
  BY DEF ScoresBy, MemosBy, RowsBy

LEMMA StepImplements ==
  ASSUME Types, History, Began, NEW w \in Workers, NEW label \in Labels, NEW next \in Labels,
         NEW n \in 1..5, Logs(w, label, n, next)
  PROVE  Log!Next
  <1> DEFINE j == cur[w]
  <1>1. /\ pc[w] = label /\ axisRows' = axisRows /\ memos' = memos
        /\ j \in Jobs /\ Opp(w) \in Opps
    <2>1. pc[w] = label /\ axisRows' = axisRows /\ memos' = memos /\ label # "idle"
      BY DEF Logs, Step, StepTaken, At, oppVars
    <2> QED
      BY <2>1 DEF Types, RunReferences, Inserted, Input, Opp
  <1>2. steps[j] = 1..(n - 1) /\ steps' = [steps EXCEPT ![j] = 1..n]
    <2>1. Extends(w, n)
      BY StepHistory
    <2> QED
      BY <2>1 DEF Extends
  <1>3. n = 3 => Cardinality(ScoresBy(j)) = 1
    <2> SUFFICES ASSUME n = 3 PROVE Cardinality(ScoresBy(j)) = 1
      OBVIOUS
    <2>1. pc[w] = "step3" /\ 1 \in Axes
      BY <1>1 DEF Axes, Logs
    <2>2. RowsBy(axisRows[Opp(w)][1], j) # {}
      BY <2>1 DEF History, AxisHistory
    <2>3. ScoresBy(j) # {}
      BY <1>1, <2>2 DEF ScoresBy, RowsBy
    <2> QED
      BY <1>1, <2>3, Counts
  <1>4. n = 5 => Cardinality(MemosBy(j)) = 1
    <2> SUFFICES ASSUME n = 5 PROVE Cardinality(MemosBy(j)) = 1
      OBVIOUS
    <2>1. pc[w] = "step5"
      BY <1>1 DEF Logs
    <2>2. RowsBy(memos[Opp(w)], j) # {}
      BY <2>1 DEF History, MemoHistory
    <2>3. MemosBy(j) # {}
      BY <1>1, <2>2 DEF MemosBy, RowsBy
    <2> QED
      BY <1>1, <2>3, Counts
  <1>5. /\ [i \in Jobs |-> Cardinality(ScoresBy(i))]' = [i \in Jobs |-> Cardinality(ScoresBy(i))]
        /\ [i \in Jobs |-> Cardinality(MemosBy(i))]' = [i \in Jobs |-> Cardinality(MemosBy(i))]
    BY <1>1, KeptCounts
  <1>6. Ran(j) /\ UNCHANGED status
    BY DEF Logs, Step, StepTaken, At, Began, RunBegan
  <1> HIDE DEF j
  <1>7. Log!LogStep(j, n)
    BY <1>1, <1>2, <1>3, <1>4, <1>5, <1>6 DEF Log!LogStep, Log!Started, Ran
  <1> QED
    BY <1>1, <1>7 DEF Log!Next

LEMMA SaveAxesImplements ==
  ASSUME Types, History, Began, NEW w \in Workers, SaveAxes(w), ~AxisTaken(w)
  PROVE  Log!Next
  <1>0. cur[w] \in Jobs /\ Opp(w) \in Opps
    BY DEF SaveAxes, At, Types, RunReferences, Inserted, Input, Opp
  <1>1. PICK j \in Jobs : j = cur[w]
    BY <1>0
  <1>2. /\ steps[j] = 1..2 /\ 1 \in Axes
        /\ \A o \in Opps, a \in Axes : RowsBy(axisRows[o][a], j) = {}
        /\ \A a \in Axes : axisRows'[Opp(w)][a] = axisRows[Opp(w)][a] \cup {AxisRow(w, a)}
        /\ \A o \in Opps : o # Opp(w) => axisRows'[o] = axisRows[o]
        /\ UNCHANGED <<steps, memos>>
    BY <1>1, SaveAxesHistory DEF Axes
  <1>3. AxisRow(w, 1).job = j
    BY <1>1 DEF AxisRow
  <1>4. ScoresBy(j) = {}
    BY <1>2 DEF ScoresBy, RowsBy
  <1>5. ScoresBy(j)' = {AxisRow(w, 1)}
    BY <1>0, <1>2, <1>3 DEF ScoresBy, RowsBy
  <1>6. \A i \in Jobs : i # j => ScoresBy(i)' = ScoresBy(i)
    BY <1>0, <1>2, <1>3 DEF ScoresBy, RowsBy
  <1>7. Cardinality(ScoresBy(j)) = 0 /\ Cardinality(ScoresBy(j)') = 1
    BY <1>4, <1>5, FS_EmptySet, FS_Singleton
  <1>8. [i \in Jobs |-> Cardinality(ScoresBy(i))]' =
          [[i \in Jobs |-> Cardinality(ScoresBy(i))] EXCEPT ![j] = 1]
    BY <1>1, <1>6, <1>7
  <1>9. [i \in Jobs |-> Cardinality(MemosBy(i))]' = [i \in Jobs |-> Cardinality(MemosBy(i))]
    BY <1>2, KeptCounts
  <1>10. Ran(j) /\ UNCHANGED status
    BY <1>1 DEF SaveAxes, At, Conflict, jobVars, Began, RunBegan
  <1>11. Log!Score(j)
    BY <1>1, <1>2, <1>7, <1>8, <1>9, <1>10 DEF Log!Score, Log!Started, Ran
  <1> QED
    BY <1>1, <1>11 DEF Log!Next

LEMMA SaveMemoImplements ==
  ASSUME Types, History, Began, NEW w \in Workers, SaveMemo(w), ~MemoTaken(w)
  PROVE  Log!Next
  <1>0. cur[w] \in Jobs /\ Opp(w) \in Opps
    BY DEF SaveMemo, At, Types, RunReferences, Inserted, Input, Opp
  <1>1. PICK j \in Jobs : j = cur[w]
    BY <1>0
  <1>2. /\ steps[j] = 1..4
        /\ \A o \in Opps : RowsBy(memos[o], j) = {}
        /\ memos'[Opp(w)] = memos[Opp(w)] \cup {MemoRow(w)}
        /\ \A o \in Opps : o # Opp(w) => memos'[o] = memos[o]
        /\ UNCHANGED <<steps, axisRows>>
    BY <1>1, SaveMemoHistory
  <1>3. MemoRow(w).job = j
    BY <1>1 DEF MemoRow
  <1>4. MemosBy(j) = {}
    BY <1>2 DEF MemosBy, RowsBy
  <1>5. MemosBy(j)' = {MemoRow(w)}
    BY <1>0, <1>2, <1>3 DEF MemosBy, RowsBy
  <1>6. \A i \in Jobs : i # j => MemosBy(i)' = MemosBy(i)
    BY <1>0, <1>2, <1>3 DEF MemosBy, RowsBy
  <1>7. Cardinality(MemosBy(j)) = 0 /\ Cardinality(MemosBy(j)') = 1
    BY <1>4, <1>5, FS_EmptySet, FS_Singleton
  <1>8. [i \in Jobs |-> Cardinality(MemosBy(i))]' =
          [[i \in Jobs |-> Cardinality(MemosBy(i))] EXCEPT ![j] = 1]
    BY <1>1, <1>6, <1>7
  <1>9. [i \in Jobs |-> Cardinality(ScoresBy(i))]' = [i \in Jobs |-> Cardinality(ScoresBy(i))]
    BY <1>2, KeptCounts
  <1>10. Ran(j) /\ UNCHANGED status
    BY <1>1 DEF SaveMemo, At, Conflict, jobVars, Began, RunBegan
  <1>11. Log!Publish(j)
    BY <1>1, <1>2, <1>7, <1>8, <1>9, <1>10 DEF Log!Publish, Log!Started, Ran
  <1> QED
    BY <1>1, <1>11 DEF Log!Next

LEMMA SucceedImplements ==
  ASSUME Types, History, Began, NEW w \in Workers, Succeed(w), ~StepTaken(cur[w], 6)
  PROVE  Log!Next
  <1> DEFINE j == cur[w]
  <1>1. /\ j \in Jobs
        /\ steps[j] = 1..5 /\ steps' = [steps EXCEPT ![j] = 1..6]
        /\ UNCHANGED <<memos, axisRows>>
    BY SucceedHistory
  <1>2. /\ [i \in Jobs |-> Cardinality(ScoresBy(i))]' = [i \in Jobs |-> Cardinality(ScoresBy(i))]
        /\ [i \in Jobs |-> Cardinality(MemosBy(i))]' = [i \in Jobs |-> Cardinality(MemosBy(i))]
    BY <1>1, KeptCounts
  <1>3. Ran(j) /\ status' = [status EXCEPT ![j] = "succeeded"]
    BY DEF Succeed, At, Began, RunBegan
  <1> HIDE DEF j
  <1>4. Log!LogStep(j, 6)
    BY <1>1, <1>2, <1>3 DEF Log!LogStep, Log!Started, Ran
  <1> QED
    BY <1>1, <1>4 DEF Log!Next

(* A step that writes no row is a step of the status, or does not show. *)
LEMMA QuietImplements ==
  ASSUME Types, Quiet, Restates
  PROVE  [Log!Next]_(Log!vars)
  <1>1. UNCHANGED <<steps, memos, axisRows>>
    BY DEF Quiet
  <1>2. UNCHANGED Log!rows
    <2>1. /\ [i \in Jobs |-> Cardinality(ScoresBy(i))]' = [i \in Jobs |-> Cardinality(ScoresBy(i))]
          /\ [i \in Jobs |-> Cardinality(MemosBy(i))]' = [i \in Jobs |-> Cardinality(MemosBy(i))]
      BY <1>1, KeptCounts
    <2> QED
      BY <1>1, <2>1 DEF Log!rows
  <1> USE DEF Sets
  <1>3. CASE UNCHANGED status
    BY <1>2, <1>3 DEF Log!vars
  <1>4. ASSUME NEW j \in Jobs, status[j] = "none", Sets(j, "queued")
        PROVE  Log!Next
    <2>1. Log!Create(j)
      BY <1>2, <1>4 DEF Log!Create, Log!Created
    <2> QED
      BY <2>1 DEF Log!Next
  <1>5. ASSUME NEW j \in Jobs, Inserted(j), Sets(j, "running") \/ Sets(j, "cancelled")
        PROVE  Log!Next
    <2>1. Log!Start(j) \/ Log!Cancel(j)
      BY <1>2, <1>5 DEF Log!Start, Log!Cancel, Log!Created, Inserted
    <2> QED
      BY <2>1 DEF Log!Next
  <1>6. ASSUME NEW j \in Jobs, Sets(j, "succeeded")
        PROVE  UNCHANGED status
    <2>1. status'[j] = "succeeded" /\ status[j] = "succeeded"
      BY <1>6 DEF Quiet, Types, TypeOK
    <2> QED
      BY <1>6, <2>1 DEF Types, TypeOK
  <1>7. ASSUME NEW S \in (SUBSET Jobs) \ {{}}, \A j \in S : Ran(j),
               status' = [j \in Jobs |-> IF j \in S THEN "failed" ELSE status[j]]
        PROVE  Log!Next
    <2>1. Log!Fail(S)
      BY <1>2, <1>7 DEF Log!Fail, Log!Started, Ran
    <2> QED
      BY <2>1 DEF Log!Next
  <1> QED
    BY <1>3, <1>4, <1>5, <1>6, <1>7 DEF Restates

LEMMA LogNext == Types /\ History /\ Began /\ [Next]_vars => [Log!Next]_(Log!vars)
  <1> SUFFICES ASSUME Types, History, Began, [Next]_vars PROVE [Log!Next]_(Log!vars)
    OBVIOUS
  <1>1. CASE Quiet
    BY <1>1, StatusMoves, QuietImplements
  <1>2. ASSUME NEW w \in Workers, Writes(w) PROVE Log!Next
    BY <1>2, StepImplements, SaveAxesImplements, SaveMemoImplements, SucceedImplements DEF Writes
  <1> QED
    BY <1>1, <1>2, QuietOrWrites, StutterIsQuiet

(* Whatever the deliveries, crashes, overlaps and cancellations, the rows of a *)
(* job are those of one sequential execution of process_job, none is written   *)
(* before a run has started the job, and the status becomes succeeded with the *)
(* last of them and never otherwise.                                           *)
THEOREM Refinement == Spec => ImplementsJobLog
  BY HistoryInvariant, BeganInvariant, LogInit, LogNext, PTL DEF Spec, ImplementsJobLog, Log!Spec

--------------------------------------------------------------------------------
(* Cancellation *)

LEMMA QuietCancelNext ==
  ASSUME Types, NEW j \in Jobs, QuietlyCancelled(j), [Next]_vars
  PROVE  QuietlyCancelled(j)'
  <1>a. TypeOK /\ RunReferences
    BY DEF Types
  <1>b. status[j] = "cancelled" /\ j \notin victims
    BY DEF QuietlyCancelled
  <1>c. \A w \in Workers : pc[w] \notin {"idle", "load"} => cur[w] # j
    BY DEF QuietlyCancelled, Active
  <1>d. j # None
    BY PipelineAssumption
  <1> USE DEF jobVars, runVars
  <1>1. SUFFICES /\ status'[j] = "cancelled" /\ j \notin victims'
                 /\ \A w \in Workers : pc'[w] \notin {"idle", "load"} => cur'[w] # j
    BY <1>1 DEF QuietlyCancelled, Active
  <1>2. ASSUME UNCHANGED <<status, victims, runVars>>
        PROVE  /\ status'[j] = "cancelled" /\ j \notin victims'
               /\ \A w \in Workers : pc'[w] \notin {"idle", "load"} => cur'[w] # j
    BY <1>2, <1>b, <1>c
  <1>3. ASSUME NEW w \in Workers, NEW i \in Jobs, Begin(w, i), UNCHANGED <<status, victims>>
        PROVE  /\ status'[j] = "cancelled" /\ j \notin victims'
               /\ \A v \in Workers : pc'[v] \notin {"idle", "load"} => cur'[v] # j
    BY <1>3, <1>a, <1>b, <1>c DEF Begin, TypeOK
  <1>4. ASSUME NEW h \in Handlers, Http(h)
        PROVE  /\ status'[j] = "cancelled" /\ j \notin victims'
               /\ \A w \in Workers : pc'[w] \notin {"idle", "load"} => cur'[w] # j
    <2>1. CASE StartJob(h) \/ RetryJob(h) \/ DispatchLost(h) \/ CancelJob(h)
      BY <1>2, <2>1 DEF StartJob, RetryJob, DispatchLost, CancelJob
    <2>2. CASE InsertJob(h)
      BY <1>a, <1>b, <1>c, <2>2 DEF InsertJob, TypeOK
    <2>3. CASE Dispatch(h)
      <3>1. api[h].job \in Jobs
        BY <2>3 DEF Dispatch, Types, ApiReferences
      <3> QED
        BY <1>2, <1>3, <2>3, <3>1 DEF Dispatch
    <2>4. CASE CommitCancel(h)
      BY <1>a, <1>b, <1>c, <2>4 DEF CommitCancel, TypeOK
    <2> QED
      BY <1>4, <2>1, <2>2, <2>3, <2>4 DEF Http
  <1>5. ASSUME NEW w \in Workers, RunStep(w) \/ RunFault(w)
        PROVE  /\ status'[j] = "cancelled" /\ j \notin victims'
               /\ \A v \in Workers : pc'[v] \notin {"idle", "load"} => cur'[v] # j
    <2>1. ASSUME UNCHANGED <<status, victims>>, Vanish(w)
          PROVE  /\ status'[j] = "cancelled" /\ j \notin victims'
                 /\ \A v \in Workers : pc'[v] \notin {"idle", "load"} => cur'[v] # j
      BY <1>a, <1>b, <1>c, <2>1 DEF Vanish, TypeOK
    <2>2. ASSUME NEW l \in Labels, UNCHANGED <<status, victims>>, Goto(w, l), cur[w] # j
          PROVE  /\ status'[j] = "cancelled" /\ j \notin victims'
                 /\ \A v \in Workers : pc'[v] \notin {"idle", "load"} => cur'[v] # j
      BY <1>a, <1>b, <1>c, <2>2 DEF Goto, TypeOK
    <2> USE DEF At, Return, Conflict
    <2>3. CASE LoadJob(w)
      BY <1>b, <2>1, <2>2, <2>3 DEF LoadJob, Refused, Labels
    <2>4. ASSUME pc[w] \notin {"idle", "load"}
          PROVE  cur[w] # j
      BY <1>c, <2>4
    <2>5. CASE MarkRunning(w)
      <3>1. status'[j] = "cancelled" /\ UNCHANGED victims /\ Goto(w, "step1") /\ cur[w] # j
        BY <1>a, <1>b, <2>4, <2>5 DEF MarkRunning, TypeOK
      <3> QED
        BY <1>a, <1>b, <1>c, <3>1 DEF Goto, TypeOK
    <2>6. CASE StepPrescreen(w) \/ StepExtract(w) \/ StepScore(w) \/ StepRecommend(w) \/ StepMemo(w)
      BY <2>1, <2>2, <2>4, <2>6 DEF StepPrescreen, StepExtract, StepScore, StepRecommend,
            StepMemo, Step, Labels
    <2>7. CASE ReadPrescreen(w) \/ ReadPages(w) \/ ParseFails(w) \/ ReadClaims(w)
      BY <2>2, <2>4, <2>7 DEF ReadPrescreen, ReadPages, ParseFails, ReadClaims, Labels
    <2>8. CASE ReadAxis(w) \/ ReadMemo(w)
      BY <2>2, <2>4, <2>8 DEF ReadAxis, ReadMemo, Labels
    <2>9. CASE AddPrescreen(w) \/ SaveClaims(w)
      BY <2>1, <2>2, <2>4, <2>9 DEF AddPrescreen, SaveClaims, Labels
    <2>10. CASE SaveAxes(w) \/ SaveMemo(w)
      BY <2>1, <2>2, <2>4, <2>10 DEF SaveAxes, SaveMemo, Labels
    <2>11. CASE Abandon(w) \/ Crash(w)
      BY <2>1, <2>11 DEF Abandon, Crash
    <2>12. CASE Succeed(w) \/ CommitFailed(w)
      <3>1. status'[j] = "cancelled" /\ UNCHANGED victims /\ Vanish(w)
        BY <1>a, <1>b, <2>4, <2>12 DEF Succeed, CommitFailed, TypeOK
      <3> QED
        BY <1>a, <1>b, <1>c, <3>1 DEF Vanish, TypeOK
    <2> QED
      BY <1>5, <2>3, <2>5, <2>6, <2>7, <2>8, <2>9, <2>10, <2>11, <2>12 DEF RunStep, RunFault
  <1>6. CASE Queue \/ \E i \in Jobs : ExpireKey(i)
    BY <1>2, <1>3, <1>6 DEF Queue, Deliver, DropExhausted, RedisLost, ExpireKey
  <1>7. CASE Reaper
    BY <1>b, <1>c, <1>7 DEF Reaper, ReaperSelect, ReaperCommit, Stale
  <1>8. CASE UNCHANGED vars
    BY <1>2, <1>8 DEF vars
  <1> QED
    BY <1>4, <1>5, <1>6, <1>7, <1>8 DEF Next

(* A cancellation that races with no run past its status check and with no      *)
(* reaper is final, however often the job is delivered afterwards.              *)
THEOREM CancellationIsFinal == Spec => QuietCancelIsFinal
  <1>1. Types /\ [Next]_vars =>
          [\A j \in Jobs : QuietlyCancelled(j) => QuietlyCancelled(j)']_vars
    BY QuietCancelNext
  <1> QED
    BY <1>1, TypesInvariant, PTL DEF Spec, QuietCancelIsFinal

--------------------------------------------------------------------------------
(* Concurrent runs of one opportunity.  Scoring and extraction read in one      *)
(* transaction and write in a later one; other jobs of the opportunity may have *)
(* written in between.                                                          *)

Extracting == {"extract", "save_claims"}

Same(w) == pc'[w] = pc[w] /\ cur'[w] = cur[w] /\ local'[w] = local[w]

(* The steps that read or write axis scores, pages or claims *)
Scores(w) == ReadAxis(w) \/ (SaveAxes(w) /\ ~AxisTaken(w))
Extracts(w) ==
    \/ ReadPages(w) /\ Deck(w) # None
    \/ ReadClaims(w)
    \/ SaveClaims(w) /\ (local[w].pages \/ ~PagesTaken(w))

(* What any other step leaves of a run *)
Rests(w) == Same(w) \/ (pc'[w] \notin Extracting /\ local'[w].axes = <<>>)

InputsKept == \A j \in Jobs : Inserted(j) => Inserted(j)' /\ input'[j] = input[j]

LEMMA InputsAreKept ==
  ASSUME Types, [Next]_vars
  PROVE  InputsKept
  <1>1. CASE Quiet
    BY <1>1 DEF Quiet, InputsKept
  <1>2. ASSUME NEW w \in Workers, Writes(w) PROVE InputsKept
    <2>1. input' = input /\ (status' = status \/ status' = [status EXCEPT ![cur[w]] = "succeeded"])
      BY <1>2 DEF Writes, Logs, Step, SaveAxes, SaveMemo, Succeed, jobVars, Conflict
    <2> QED
      BY <2>1 DEF InputsKept, Inserted, Types, TypeOK
  <1> QED
    BY <1>1, <1>2, QuietOrWrites, StutterIsQuiet

LEMMA OthersRest ==
  ASSUME Types, Types', [Next]_vars
  PROVE  \/ UNCHANGED <<pages, claims, axisRows>> /\ \A v \in Workers : Rests(v)
         \/ \E w \in Workers : Scores(w) \/ Extracts(w)
  <1>a. TypeOK /\ RunReferences /\ TypeOK' /\ RunReferences'
    BY DEF Types
  <1>b. \A v \in Workers : pc'[v] \notin Scoring \cup Extracting => Rests(v)
    BY <1>a DEF RunReferences, Rests, Scoring
  <1> USE DEF jobVars, oppVars, queueVars, runVars, At
  <1>1. ASSUME UNCHANGED <<pages, claims, axisRows, runVars>>
        PROVE  UNCHANGED <<pages, claims, axisRows>> /\ \A v \in Workers : Rests(v)
    BY <1>1 DEF Rests, Same
  <1>2. ASSUME NEW w \in Workers, NEW l \in Labels, pc' = [pc EXCEPT ![w] = l],
               l \notin Scoring \cup Extracting,
               \A v \in Workers : v # w => cur'[v] = cur[v] /\ local'[v] = local[v]
        PROVE  \A v \in Workers : Rests(v)
    <2>1. ASSUME NEW v \in Workers PROVE Rests(v)
      <3>1. CASE v = w
        BY <1>2, <1>a, <1>b, <3>1 DEF TypeOK
      <3>2. CASE v # w
        BY <1>2, <1>a, <3>2 DEF TypeOK, Rests, Same
      <3> QED
        BY <3>1, <3>2
    <2> QED
      BY <2>1
  <1>3. ASSUME NEW w \in Workers, Vanish(w) PROVE \A v \in Workers : Rests(v)
    BY <1>2, <1>3, <1>a DEF Vanish, Labels, Scoring, Extracting, TypeOK
  <1>4. ASSUME NEW w \in Workers, NEW j \in Jobs, Begin(w, j) PROVE \A v \in Workers : Rests(v)
    BY <1>2, <1>4, <1>a DEF Begin, Labels, Scoring, Extracting, TypeOK
  <1>5. ASSUME NEW h \in Handlers, Http(h)
        PROVE  UNCHANGED <<pages, claims, axisRows>> /\ \A v \in Workers : Rests(v)
    <2>1. CASE StartJob(h) \/ RetryJob(h) \/ InsertJob(h) \/ DispatchLost(h) \/ CancelJob(h)
               \/ CommitCancel(h)
      BY <1>1, <2>1 DEF StartJob, RetryJob, InsertJob, DispatchLost, CancelJob, CommitCancel
    <2>2. CASE Dispatch(h)
      <3>1. api[h].job \in Jobs
        BY <2>2 DEF Dispatch, Types, ApiReferences
      <3> QED
        BY <1>1, <1>4, <2>2, <3>1 DEF Dispatch
    <2> QED
      BY <1>5, <2>1, <2>2 DEF Http
  <1>6. CASE Queue \/ Reaper \/ UNCHANGED vars \/ \E j \in Jobs : ExpireKey(j)
    BY <1>1, <1>4, <1>6 DEF Queue, Deliver, DropExhausted, RedisLost, Reaper, ReaperSelect,
          ReaperCommit, ExpireKey, vars
  <1>7. ASSUME NEW w \in Workers, RunStep(w) \/ RunFault(w), ~Scores(w), ~Extracts(w)
        PROVE  UNCHANGED <<pages, claims, axisRows>> /\ \A v \in Workers : Rests(v)
    <2>1. CASE Conflict(w)
      BY <1>3, <2>1 DEF Conflict, Return
    <2>2. ASSUME NEW l \in Labels, Goto(w, l), l \notin Scoring \cup Extracting,
                 \A v \in Workers : v # w => local'[v] = local[v]
          PROVE  \A v \in Workers : Rests(v)
      BY <1>2, <2>2 DEF Goto
    <2>3. CASE LoadJob(w)
      <3>1. CASE Goto(w, "start")
        BY <1>a, <2>2, <2>3, <3>1 DEF LoadJob, Labels, Scoring, Extracting, TypeOK, Return, Vanish
      <3> QED
        BY <1>3, <2>3, <3>1 DEF LoadJob, Return
    <2>4. CASE MarkRunning(w)
      BY <1>a, <2>2, <2>4 DEF MarkRunning, Labels, Scoring, Extracting, TypeOK
    <2>5. CASE StepPrescreen(w) \/ StepScore(w) \/ StepRecommend(w) \/ StepMemo(w)
      BY <2>1, <2>2, <2>5 DEF StepPrescreen, StepScore, StepRecommend, StepMemo, Step, Labels,
            Scoring, Extracting
    <2>6. CASE StepExtract(w)
      <3>1. CASE Goto(w, "axes") /\ UNCHANGED <<pages, claims, axisRows, local>>
        <4>1. local[w].axes = <<>>
          BY <1>a, <2>6 DEF StepExtract, Step, RunReferences
        <4>2. ASSUME NEW v \in Workers PROVE Rests(v)
          BY <1>a, <3>1, <4>1 DEF Goto, TypeOK, Rests, Same, Extracting
        <4> QED
          BY <3>1, <4>2
      <3> QED
        BY <2>1, <2>6, <3>1 DEF StepExtract, Step
    <2>7. CASE ReadPrescreen(w) \/ AddPrescreen(w)
      BY <2>1, <2>2, <2>7 DEF ReadPrescreen, AddPrescreen, Labels, Scoring, Extracting
    <2>8. CASE ReadPages(w)
      BY <1>7, <2>2, <2>8 DEF ReadPages, Extracts, Labels, Scoring, Extracting
    <2>9. CASE ParseFails(w)
      BY <1>a, <2>2, <2>9 DEF ParseFails, Labels, Scoring, Extracting, TypeOK
    <2>10. CASE ReadClaims(w) \/ SaveClaims(w) \/ ReadAxis(w) \/ SaveAxes(w)
      BY <1>7, <2>1, <2>10 DEF Extracts, Scores, SaveClaims, SaveAxes
    <2>11. CASE ReadMemo(w)
      BY <1>a, <2>2, <2>11 DEF ReadMemo, Labels, Scoring, Extracting, TypeOK
    <2>12. CASE SaveMemo(w)
      <3>1. CASE ~MemoTaken(w)
        BY <1>a, <2>2, <2>12, <3>1 DEF SaveMemo, Labels, Scoring, Extracting, TypeOK
      <3> QED
        BY <2>1, <2>12, <3>1 DEF SaveMemo
    <2>13. CASE Succeed(w) \/ CommitFailed(w) \/ Abandon(w) \/ Crash(w)
      BY <1>3, <2>1, <2>13 DEF Succeed, CommitFailed, Abandon, Crash, Return
    <2> QED
      BY <1>7, <2>3, <2>4, <2>5, <2>6, <2>7, <2>8, <2>9, <2>10, <2>11, <2>12, <2>13
         DEF RunStep, RunFault
  <1> QED
    BY <1>5, <1>6, <1>7 DEF Next

(* Versions are positive, and one that _score_axes has read is there, or was 0.  It *)
(* may no longer be the latest: then the uniqueness of (opportunity_id, axis,       *)
(* version) makes the transaction fail, because versions have no gaps.              *)
AxesRead ==
    /\ \A o \in Opps, a \in Axes : \A r \in axisRows[o][a] : r.version >= 1
    /\ \A w \in Workers : pc[w] \in Scoring =>
          \A a \in Axes : a <= Len(local[w].axes) =>
              \/ local[w].axes[a] = 0
              \/ \E r \in axisRows[Opp(w)][a] : r.version = local[w].axes[a]

LEMMA LatestVersion ==
  ASSUME NEW R \in SUBSET Row, \A r \in R : \A v \in 1..r.version : \E s \in R : s.version = v,
         NEW n \in Nat, \A r \in R : r.version # n + 1
  PROVE  \A r \in R : r.version <= n
  <1> SUFFICES ASSUME NEW r \in R, ~(r.version <= n) PROVE FALSE
    OBVIOUS
  <1>1. r.version \in Nat
    BY DEF Row
  <1>2. n + 1 \in 1..r.version
    BY <1>1
  <1> QED
    BY <1>2

LEMMA AxesRest ==
  ASSUME Types, AxesInStep, AxesRead, InputsKept, axisRows' = axisRows,
         \A w \in Workers : pc'[w] \in Scoring => Same(w) \/ local'[w].axes = <<>>
  PROVE  AxesInStep' /\ AxesRead'
  <1>1. AxesInStep'
    BY DEF AxesInStep
  <1>2. ASSUME NEW w \in Workers, pc'[w] \in Scoring, NEW a \in Axes, a <= Len(local'[w].axes)
        PROVE  \/ local'[w].axes[a] = 0
               \/ \E r \in axisRows[Opp(w)'][a] : r.version = local'[w].axes[a]
    <2>1. CASE Same(w)
      <3>1. cur[w] \in Jobs /\ Inserted(cur[w])
        BY <1>2, <2>1 DEF Types, RunReferences, Same, Scoring
      <3>2. Opp(w)' = Opp(w)
        BY <2>1, <3>1 DEF Opp, Same, InputsKept
      <3> QED
        BY <1>2, <2>1, <3>2 DEF AxesRead, Same
    <2>2. CASE local'[w].axes = <<>>
      BY <1>2, <2>2 DEF Axes
    <2> QED
      BY <1>2, <2>1, <2>2
  <1> QED
    BY <1>1, <1>2 DEF AxesRead

LEMMA ReadAxisAxes ==
  ASSUME Types, AxesInStep, AxesRead, InputsKept, NEW w \in Workers, ReadAxis(w)
  PROVE  AxesInStep' /\ AxesRead'
  <1> DEFINE axes == local[w].axes
             q == Opp(w)
  <1>a. TypeOK /\ RunReferences
    BY DEF Types
  <1>1. /\ pc[w] = "axes" /\ axisRows' = axisRows /\ cur' = cur
        /\ \E l \in Scoring : pc' = [pc EXCEPT ![w] = l]
        /\ \E v \in Latest(axisRows[q][Len(axes) + 1]) : local' = [local EXCEPT ![w].axes = Append(@, v)]
    BY DEF ReadAxis, At, Goto, Scoring, oppVars
  <1>2. PICK v \in Latest(axisRows[q][Len(axes) + 1]) : local' = [local EXCEPT ![w].axes = Append(@, v)]
    BY <1>1
  <1>3. /\ cur[w] \in Jobs /\ Inserted(cur[w]) /\ q \in Opps /\ axes \in Seq(Nat)
        /\ Len(axes) \in Nat /\ Len(axes) <= 2
    BY <1>1, <1>a DEF RunReferences, Inserted, Input, Opp, TypeOK, Local
  <1>4. Len(axes) + 1 \in Axes
    BY <1>3 DEF Axes
  <1>5. axisRows[q][Len(axes) + 1] \in SUBSET Row
    BY <1>a, <1>3, <1>4 DEF TypeOK
  <1>6. v \in Nat /\ (v = 0 \/ \E r \in axisRows[q][Len(axes) + 1] : r.version = v)
    BY <1>5 DEF Latest, Row
  <1>7. /\ local'[w].axes = Append(axes, v)
        /\ \A u \in Workers : u # w => Same(u)
    BY <1>a, <1>1, <1>2 DEF TypeOK, Local, Same
  <1>8. ASSUME NEW a \in Axes, a <= Len(local'[w].axes)
        PROVE  \/ local'[w].axes[a] = 0
               \/ \E r \in axisRows[q][a] : r.version = local'[w].axes[a]
    <2>1. CASE a = Len(axes) + 1
      <3>1. local'[w].axes[a] = v
        BY <1>3, <1>6, <1>7, <2>1
      <3> QED
        BY <1>6, <2>1, <3>1
    <2>2. CASE a # Len(axes) + 1
      <3>1. a <= Len(axes) /\ local'[w].axes[a] = axes[a]
        BY <1>3, <1>6, <1>7, <1>8, <2>2 DEF Axes
      <3>2. pc[w] \in Scoring
        BY <1>1 DEF Scoring
      <3>3. axes[a] = 0 \/ \E r \in axisRows[q][a] : r.version = axes[a]
        BY <3>1, <3>2 DEF AxesRead
      <3> QED
        BY <3>1, <3>3
    <2> QED
      BY <2>1, <2>2
  <1>9. \A u \in Workers : pc'[u] \in Scoring => cur[u] \in Jobs /\ Inserted(cur[u]) /\ cur'[u] = cur[u]
    BY <1>a, <1>1, <1>3, <1>7 DEF Same, RunReferences, Scoring
  <1>10. \A u \in Workers : pc'[u] \in Scoring => Opp(u)' = Opp(u)
    BY <1>9 DEF InputsKept, Opp
  <1>11. AxesInStep'
    BY <1>1 DEF AxesInStep
  <1> HIDE DEF axes
  <1>12. ASSUME NEW u \in Workers, pc'[u] \in Scoring, NEW a \in Axes, a <= Len(local'[u].axes)
         PROVE  \/ local'[u].axes[a] = 0
                \/ \E r \in axisRows[Opp(u)'][a] : r.version = local'[u].axes[a]
    <2>1. CASE u = w
      BY <1>8, <1>10, <1>12, <2>1
    <2>2. CASE u # w
      BY <1>7, <1>10, <1>12, <2>2 DEF Same, AxesRead
    <2> QED
      BY <2>1, <2>2
  <1> QED
    BY <1>1, <1>11, <1>12 DEF AxesRead

(* A transaction that does not conflict was computed from the latest version of     *)
(* each axis, which is the same for the three.                                      *)
LEMMA SaveAxesAxes ==
  ASSUME Types, History, AxesInStep, AxesRead, InputsKept, NEW w \in Workers,
         SaveAxes(w), ~AxisTaken(w)
  PROVE  AxesInStep' /\ AxesRead'
  <1> DEFINE axes == local[w].axes
             q == Opp(w)
             n == axes[1]
             R == axisRows[q][1]
             row == [version |-> n + 1, job |-> cur[w]]
  <1>a. TypeOK /\ RunReferences
    BY DEF Types
  <1>1. pc[w] = "save_axes" /\ pc' = [pc EXCEPT ![w] = "step3"]
        /\ cur' = cur /\ local' = [local EXCEPT ![w] = Fresh]
    BY DEF SaveAxes, At, Goto, Conflict
  <1>2. q \in Opps /\ axes \in Seq(Nat) /\ Len(axes) = 3 /\ cur[w] \in Jobs
    BY <1>1, <1>a DEF RunReferences, Inserted, Input, Opp, TypeOK, Local
  <1>3. /\ 1 \in Axes /\ \A a \in Axes : a <= Len(axes) /\ axes[a] \in Nat
    BY <1>2 DEF Axes
  <1>4. /\ R \in SUBSET Row /\ \A a \in Axes : axisRows[q][a] = R
        /\ \A r \in R : \A v \in 1..r.version : \E s \in R : s.version = v
        /\ \A r \in R : r.version >= 1
    BY <1>a, <1>2, <1>3 DEF TypeOK, AxesInStep, AxesRead
  <1>5. \A a \in Axes : \A r \in R : r.version # axes[a] + 1
    BY <1>4 DEF AxisTaken
  <1>6. \A a \in Axes : \A r \in R : r.version <= axes[a]
    BY <1>3, <1>4, <1>5, LatestVersion
  <1>7. \A a \in Axes : axes[a] = 0 \/ \E r \in R : r.version = axes[a]
    BY <1>1, <1>3, <1>4 DEF AxesRead, Scoring
  <1>8. \A a \in Axes : axes[a] = n
    <2> SUFFICES ASSUME NEW a \in Axes PROVE axes[a] = n
      OBVIOUS
    <2> DEFINE m == axes[a]
    <2>1. m \in Nat /\ n \in Nat
      BY <1>3
    <2>2. m = 0 \/ m <= n
      BY <1>3, <1>6, <1>7
    <2>3. n = 0 \/ n <= m
      BY <1>3, <1>6, <1>7
    <2> HIDE DEF m, n
    <2>4. m = n
      BY <2>1, <2>2, <2>3
    <2> QED
      BY <2>4 DEF m
  <1>9. /\ \A a \in Axes : axisRows'[q][a] = R \cup {row}
        /\ \A o \in Opps : o # q => axisRows'[o] = axisRows[o]
    BY <1>4, <1>8, SaveAxesHistory DEF AxisRow
  <1>10. n \in Nat /\ row.version = n + 1
    BY <1>3
  <1>11. (n = 0 \/ \E r \in R : r.version = n) /\ \A r \in R : r.version \in Nat
    BY <1>3, <1>4, <1>7 DEF Row
  <1> HIDE DEF n, R, row, axes, q
  <1>12. ASSUME NEW r \in R \cup {row}, NEW v \in 1..r.version
         PROVE  \E s \in R \cup {row} : s.version = v
    <2>1. CASE r \in R
      BY <1>4, <2>1
    <2>2. CASE r = row
      <3>1. CASE v = n + 1
        BY <1>10, <3>1
      <3>2. CASE v # n + 1
        <4>1. v \in 1..n /\ n # 0
          BY <1>10, <1>12, <2>2, <3>2
        <4>2. PICK t \in R : t.version = n
          BY <1>11, <4>1
        <4> QED
          BY <1>4, <4>1, <4>2
      <3> QED
        BY <3>1, <3>2
    <2> QED
      BY <2>1, <2>2
  <1>13. AxesInStep'
    <2>1. ASSUME NEW o \in Opps
          PROVE  /\ \A a, b \in Axes : axisRows'[o][a] = axisRows'[o][b]
                 /\ \A a \in Axes : \A r \in axisRows'[o][a] : \A v \in 1..r.version :
                       \E s \in axisRows'[o][a] : s.version = v
      <3>1. CASE o = q
        BY <1>9, <1>12, <3>1
      <3>2. CASE o # q
        BY <1>9, <3>2 DEF AxesInStep
      <3> QED
        BY <3>1, <3>2
    <2> QED
      BY <2>1 DEF AxesInStep
  <1>14. \A o \in Opps, a \in Axes : \A r \in axisRows'[o][a] : r.version >= 1
    <2>1. ASSUME NEW o \in Opps, NEW a \in Axes, NEW r \in axisRows'[o][a] PROVE r.version >= 1
      <3>1. CASE o = q
        BY <1>4, <1>9, <1>10, <2>1, <3>1
      <3>2. CASE o # q
        BY <1>9, <2>1, <3>2 DEF AxesRead
      <3> QED
        BY <3>1, <3>2
    <2> QED
      BY <2>1
  <1>15. \A o \in Opps, a \in Axes : axisRows[o][a] \subseteq axisRows'[o][a]
    BY <1>4, <1>9
  <1>16. ASSUME NEW u \in Workers, pc'[u] \in Scoring, NEW a \in Axes, a <= Len(local'[u].axes)
         PROVE  \/ local'[u].axes[a] = 0
                \/ \E r \in axisRows'[Opp(u)'][a] : r.version = local'[u].axes[a]
    <2>1. pc'[u] = pc[u] /\ local'[u] = local[u] /\ cur'[u] = cur[u]
      BY <1>a, <1>1, <1>16 DEF TypeOK, Scoring
    <2>2. cur[u] \in Jobs /\ Inserted(cur[u])
      BY <1>a, <1>16, <2>1 DEF RunReferences, Scoring
    <2>3. Opp(u)' = Opp(u) /\ Opp(u) \in Opps
      BY <2>1, <2>2 DEF Opp, InputsKept, Inserted, Input
    <2> QED
      BY <1>15, <1>16, <2>1, <2>3 DEF AxesRead
  <1> QED
    BY <1>13, <1>14, <1>16 DEF AxesRead

LEMMA AxesNext ==
  ASSUME Types, Types', History, AxesInStep, AxesRead, [Next]_vars
  PROVE  AxesInStep' /\ AxesRead'
  <1>1. InputsKept
    BY InputsAreKept
  <1>2. CASE UNCHANGED <<pages, claims, axisRows>> /\ \A v \in Workers : Rests(v)
    BY <1>1, <1>2, AxesRest DEF Rests
  <1>3. ASSUME NEW w \in Workers, Scores(w) PROVE AxesInStep' /\ AxesRead'
    BY <1>1, <1>3, ReadAxisAxes, SaveAxesAxes DEF Scores
  <1>4. ASSUME NEW w \in Workers, Extracts(w) PROVE AxesInStep' /\ AxesRead'
    <2>1. /\ axisRows' = axisRows /\ cur' = cur
          /\ \E l \in Extracting \cup {"step2"} : pc' = [pc EXCEPT ![w] = l]
          /\ \E r : local' = [local EXCEPT ![w] = r]
      BY <1>4 DEF Extracts, ReadPages, ReadClaims, SaveClaims, Conflict, Goto, Extracting, oppVars
    <2>2. \A v \in Workers : pc'[v] \in Scoring => Same(v)
      BY <2>1 DEF Types, TypeOK, Scoring, Extracting, Same
    <2> QED
      BY <1>1, <2>1, <2>2, AxesRest
  <1> QED
    BY <1>2, <1>3, <1>4, OthersRest

(* However the runs of an opportunity's jobs overlap, its three axes are scored in   *)
(* step: every version for all three, by one job, and no version is left out.        *)
THEOREM AxesAreInStep == Spec => []AxesInStep
  <1>1. Init => AxesInStep /\ AxesRead
    BY DEF Init, AxesInStep, AxesRead, Scoring
  <1>2. Types /\ Types' /\ History /\ AxesInStep /\ AxesRead /\ [Next]_vars => AxesInStep' /\ AxesRead'
    BY AxesNext
  <1> QED
    BY <1>1, <1>2, HistoryInvariant, PTL DEF Spec

(* Extraction.  Claims come from a deck whose pages are stored, pages of a deck that *)
(* has claims to offer come with claims, and what a run has read is still so.  For a *)
(* run that found the pages of an opportunity's only deck this includes the claims:  *)
(* it adds none.  One that did not find them stores claims only if it is first to    *)
(* store the pages, and then the opportunity has no claims yet.                      *)
Owns(o, d) ==
    \A j \in Jobs : Inserted(j) /\ input[j].deck # None =>
        (input[j].deck = d <=> input[j].opp = o)

ClaimRows ==
    \A o \in Opps : \A j \in claims[o] :
        Inserted(j) /\ input[j].opp = o /\ input[j].deck \in pages

PageRows ==
    \A d \in pages \ BlankDocs : \E j \in Jobs :
        Inserted(j) /\ input[j].deck = d /\ claims[input[j].opp] # {}

RunRead(w) ==
    /\ pc[w] \in Extracting /\ local[w].pages => Deck(w) \in pages
    /\ pc[w] = "save_claims" /\ local[w].claims => claims[Opp(w)] # {}
    /\ pc[w] = "save_claims" /\ local[w].pages /\ Deck(w) \notin BlankDocs /\ Owns(Opp(w), Deck(w))
         => local[w].claims

ExtractedOnce ==
    \A o \in Opps, d \in Docs : Owns(o, d) => \A i, j \in claims[o] : i = j

Extraction == ClaimRows /\ PageRows /\ (\A w \in Workers : RunRead(w)) /\ ExtractedOnce

LEMMA OwnsBefore ==
  ASSUME InputsKept, NEW o, NEW d,
         \A j \in Jobs : Inserted(j)' /\ input'[j].deck # None => (input'[j].deck = d <=> input'[j].opp = o)
  PROVE  Owns(o, d)
  BY DEF InputsKept, Owns

LEMMA RunIsOf ==
  ASSUME Types, NEW w \in Workers, pc[w] # "idle"
  PROVE  /\ cur[w] \in Jobs /\ Inserted(cur[w]) /\ Opp(w) \in Opps /\ Deck(w) \in Docs \cup {None}
         /\ InputsKept /\ cur'[w] = cur[w] => Opp(w)' = Opp(w) /\ Deck(w)' = Deck(w)
  BY DEF Types, RunReferences, Inserted, Input, Opp, Deck, InputsKept

LEMMA RunReadKept ==
  ASSUME Types, InputsKept, NEW w \in Workers, RunRead(w), Same(w), pages \subseteq pages',
         \A o \in Opps : claims[o] # {} => claims'[o] # {}
  PROVE  RunRead(w)'
  <1>1. CASE pc[w] \in Extracting
    <2>1. /\ Opp(w) \in Opps /\ Opp(w)' = Opp(w) /\ Deck(w)' = Deck(w)
      BY <1>1, RunIsOf DEF Same, Extracting
    <2>2. Owns(Opp(w), Deck(w))' => Owns(Opp(w), Deck(w))
      BY <2>1, OwnsBefore DEF Owns
    <2> QED
      BY <2>1, <2>2 DEF RunRead, Same
  <1>2. CASE pc[w] \notin Extracting
    BY <1>2 DEF RunRead, Same, Extracting
  <1> QED
    BY <1>1, <1>2

LEMMA RowsKept ==
  ASSUME Types, InputsKept, Extraction, UNCHANGED <<pages, claims>>, \A w \in Workers : RunRead(w)'
  PROVE  Extraction'
  <1>1. ClaimRows'
    BY DEF Extraction, ClaimRows, InputsKept, Types, TypeOK
  <1>2. PageRows'
    BY DEF Extraction, PageRows, InputsKept
  <1>3. ExtractedOnce'
    <2>1. ASSUME NEW o \in Opps, NEW d \in Docs, Owns(o, d)' PROVE Owns(o, d)
      BY <2>1, OwnsBefore DEF Owns
    <2> QED
      BY <2>1 DEF Extraction, ExtractedOnce
  <1> QED
    BY <1>1, <1>2, <1>3 DEF Extraction

LEMMA ReadPagesExtraction ==
  ASSUME Types, InputsKept, Extraction, NEW w \in Workers, ReadPages(w), Deck(w) # None
  PROVE  Extraction'
  <1>1. /\ pc[w] = "claims" /\ pc' = [pc EXCEPT ![w] = "extract"] /\ cur' = cur
        /\ local' = [local EXCEPT ![w].pages = Deck(w) \in pages] /\ UNCHANGED <<pages, claims>>
    BY DEF ReadPages, At, Goto, oppVars
  <1>2. /\ pc'[w] = "extract" /\ (local'[w].pages => Deck(w) \in pages)
        /\ \A v \in Workers : v # w => Same(v)
    BY <1>1 DEF Types, TypeOK, Local, Same
  <1>3. Deck(w)' = Deck(w)
    BY <1>1, RunIsOf
  <1>4. RunRead(w)'
    BY <1>1, <1>2, <1>3 DEF RunRead
  <1>5. \A v \in Workers : RunRead(v)'
    BY <1>1, <1>2, <1>4, RunReadKept DEF Extraction
  <1> QED
    BY <1>1, <1>5, RowsKept

LEMMA ReadClaimsExtraction ==
  ASSUME Types, InputsKept, Extraction, NEW w \in Workers, ReadClaims(w)
  PROVE  Extraction'
  <1> DEFINE d == Deck(w)
             o == Opp(w)
  <1>1. /\ pc[w] = "extract" /\ pc' = [pc EXCEPT ![w] = "save_claims"] /\ cur' = cur
        /\ local' = [local EXCEPT ![w].claims = claims[o] # {}] /\ UNCHANGED <<pages, claims>>
    BY DEF ReadClaims, At, Goto, oppVars
  <1>2. /\ pc'[w] = "save_claims" /\ local'[w].pages = local[w].pages
        /\ local'[w].claims <=> claims[o] # {}
        /\ \A v \in Workers : v # w => Same(v)
    BY <1>1 DEF Types, TypeOK, Local, Same
  <1>3. d' = d /\ o' = o /\ o \in Opps /\ d # None
    <2>1. RunReferences
      BY DEF Types
    <2> QED
      BY <1>1, <2>1, RunIsOf DEF RunReferences
  <1>4. local[w].pages => d \in pages
    BY <1>1 DEF Extraction, RunRead, Extracting
  <1>5. ASSUME local[w].pages, d \notin BlankDocs, Owns(o, d) PROVE claims[o] # {}
    <2>1. d \in pages \ BlankDocs
      BY <1>4, <1>5
    <2>2. PICK j \in Jobs : Inserted(j) /\ input[j].deck = d /\ claims[input[j].opp] # {}
      BY <2>1 DEF Extraction, PageRows
    <2>3. input[j].opp = o
      BY <1>3, <1>5, <2>2 DEF Owns
    <2> QED
      BY <2>2, <2>3
  <1>6. Owns(o, d)' => Owns(o, d)
    BY <1>3, OwnsBefore DEF Owns
  <1>7. RunRead(w)'
    BY <1>1, <1>2, <1>3, <1>4, <1>5, <1>6 DEF RunRead
  <1>8. \A v \in Workers : RunRead(v)'
    BY <1>1, <1>2, <1>7, RunReadKept DEF Extraction
  <1> QED
    BY <1>1, <1>8, RowsKept

LEMMA SaveClaimsExtraction ==
  ASSUME Types, InputsKept, Extraction, NEW w \in Workers, SaveClaims(w),
         local[w].pages \/ ~PagesTaken(w)
  PROVE  Extraction'
  <1> DEFINE d == Deck(w)
             o == Opp(w)
             j == cur[w]
  <1>1. /\ pc[w] = "save_claims" /\ pc' = [pc EXCEPT ![w] = "step2"] /\ cur' = cur
        /\ local' = [local EXCEPT ![w] = Fresh] /\ pages' = pages \cup {d}
        /\ claims' = IF local[w].claims \/ d \in BlankDocs THEN claims
                     ELSE [claims EXCEPT ![o] = @ \cup {j}]
    BY DEF SaveClaims, At, Goto
  <1>2. /\ j \in Jobs /\ Inserted(j) /\ o \in Opps /\ d \in Docs
        /\ input[j].opp = o /\ input[j].deck = d
    <2>1. RunReferences
      BY DEF Types
    <2> QED
      BY <1>1, <2>1, RunIsOf DEF RunReferences, Opp, Deck
  <1>3. /\ \A p \in Opps : p # o => claims'[p] = claims[p]
        /\ \/ claims'[o] = claims[o] /\ (local[w].claims \/ d \in BlankDocs)
           \/ claims'[o] = claims[o] \cup {j} /\ ~local[w].claims /\ d \notin BlankDocs
    BY <1>1, <1>2 DEF Types, TypeOK
  <1>4. \A p \in Opps : claims[p] \in SUBSET Jobs
    BY DEF Types, TypeOK
  <1>5. /\ local[w].claims => claims[o] # {}
        /\ local[w].pages /\ d \notin BlankDocs /\ Owns(o, d) => local[w].claims
        /\ local[w].pages \/ d \notin pages
    BY <1>1 DEF Extraction, RunRead, PagesTaken
  <1> HIDE DEF d, o, j
  <1>6. ClaimRows'
    <2>1. ASSUME NEW p \in Opps, NEW i \in claims'[p]
          PROVE  i \in Jobs /\ Inserted(i) /\ input[i].opp = p /\ input[i].deck \in pages'
      <3>1. CASE i \in claims[p]
        BY <1>1, <1>4, <3>1 DEF Extraction, ClaimRows
      <3>2. CASE i \notin claims[p]
        <4>1. p = o /\ i = j
          BY <1>3, <2>1, <3>2
        <4> QED
          BY <1>1, <1>2, <4>1
      <3> QED
        BY <3>1, <3>2
    <2> QED
      BY <2>1 DEF ClaimRows, InputsKept
  <1>7. \A p \in Opps : claims[p] # {} => claims'[p] # {}
    BY <1>3
  <1>8. PageRows'
    <2>1. ASSUME NEW e \in pages' \ BlankDocs
          PROVE  \E i \in Jobs : Inserted(i) /\ input[i].deck = e /\ claims'[input[i].opp] # {}
      <3>1. CASE e = d
        <4>1. claims'[o] # {}
          BY <1>3, <1>5, <2>1, <3>1
        <4> QED
          BY <1>2, <3>1, <4>1
      <3>2. CASE e # d
        <4>1. PICK i \in Jobs : Inserted(i) /\ input[i].deck = e /\ claims[input[i].opp] # {}
          BY <1>1, <2>1, <3>2 DEF Extraction, PageRows
        <4>2. input[i].opp \in Opps
          BY <4>1 DEF Inserted, Input
        <4> QED
          BY <1>7, <4>1, <4>2
      <3> QED
        BY <3>1, <3>2
    <2> QED
      BY <2>1 DEF PageRows, InputsKept
  <1>9. \A v \in Workers : RunRead(v)'
    <2>1. ASSUME NEW v \in Workers PROVE RunRead(v)'
      <3>1. CASE v = w
        <4>1. pc'[v] = "step2"
          BY <1>1, <3>1 DEF Types, TypeOK
        <4> QED
          BY <4>1 DEF RunRead, Extracting
      <3>2. CASE v # w
        <4>1. Same(v) /\ pages \subseteq pages' /\ RunRead(v)
          BY <1>1, <3>2 DEF Types, TypeOK, Same, Extraction
        <4> QED
          BY <1>7, <4>1, RunReadKept
      <3> QED
        BY <3>1, <3>2
    <2> QED
      BY <2>1
  <1>10. ExtractedOnce'
    <2>1. ASSUME NEW p \in Opps, NEW e \in Docs, Owns(p, e)', NEW i \in claims'[p], NEW k \in claims'[p]
          PROVE  i = k
      <3>1. Owns(p, e)
        BY <2>1, OwnsBefore DEF Owns
      <3>2. \A x, y \in claims[p] : x = y
        BY <3>1 DEF Extraction, ExtractedOnce
      <3>3. CASE claims'[p] = claims[p]
        BY <2>1, <3>2, <3>3
      <3>4. CASE claims'[p] # claims[p]
        <4>1. p = o /\ claims'[p] = claims[p] \cup {j} /\ ~local[w].claims /\ d \notin BlankDocs
          BY <1>3, <3>4
        <4>2. d # None
          BY <1>2, PipelineAssumption
        <4>3. e = d
          BY <1>2, <3>1, <4>1, <4>2 DEF Owns
        <4>4. d \notin pages
          BY <1>5, <3>1, <4>1, <4>3
        <4>5. ASSUME NEW x \in claims[p] PROVE FALSE
          <5>1. x \in Jobs /\ Inserted(x) /\ input[x].opp = p /\ input[x].deck \in pages
            BY <1>4, <4>5 DEF Extraction, ClaimRows
          <5>2. input[x].deck # None
            BY <5>1, PipelineAssumption DEF Types, TypeOK
          <5>3. input[x].deck = e
            BY <3>1, <5>1, <5>2 DEF Owns
          <5> QED
            BY <4>3, <4>4, <5>1, <5>3
        <4> QED
          BY <2>1, <4>1, <4>5
      <3> QED
        BY <3>3, <3>4
    <2> QED
      BY <2>1 DEF ExtractedOnce
  <1> QED
    BY <1>6, <1>8, <1>9, <1>10 DEF Extraction

LEMMA ExtractionNext ==
  ASSUME Types, Types', Extraction, [Next]_vars
  PROVE  Extraction'
  <1>1. InputsKept
    BY InputsAreKept
  <1>2. ASSUME UNCHANGED <<pages, claims>>, \A v \in Workers : Same(v) \/ pc'[v] \notin Extracting
        PROVE  Extraction'
    <2>1. ASSUME NEW v \in Workers PROVE RunRead(v)'
      <3>1. CASE Same(v)
        BY <1>1, <1>2, <3>1, RunReadKept DEF Extraction
      <3>2. CASE pc'[v] \notin Extracting
        BY <3>2 DEF RunRead, Extracting
      <3> QED
        BY <1>2, <3>1, <3>2
    <2> QED
      BY <1>1, <1>2, <2>1, RowsKept
  <1>3. CASE UNCHANGED <<pages, claims, axisRows>> /\ \A v \in Workers : Rests(v)
    BY <1>2, <1>3 DEF Rests
  <1>4. ASSUME NEW w \in Workers, Extracts(w) PROVE Extraction'
    BY <1>1, <1>4, ReadPagesExtraction, ReadClaimsExtraction, SaveClaimsExtraction DEF Extracts
  <1>5. ASSUME NEW w \in Workers, Scores(w) PROVE Extraction'
    <2>1. /\ UNCHANGED <<pages, claims>> /\ cur' = cur
          /\ \E l \in Scoring \cup {"step3"} : pc' = [pc EXCEPT ![w] = l]
      BY <1>5 DEF Scores, ReadAxis, SaveAxes, Goto, Scoring, oppVars
    <2>2. \A v \in Workers : v # w => local'[v] = local[v]
      BY <1>5 DEF Scores, ReadAxis, SaveAxes, Types, TypeOK
    <2>3. \A v \in Workers : Same(v) \/ pc'[v] \notin Extracting
      BY <2>1, <2>2 DEF Types, TypeOK, Same, Scoring, Extracting
    <2> QED
      BY <1>2, <2>1, <2>3
  <1> QED
    BY <1>3, <1>4, <1>5, OthersRest

(* When an opportunity and a deck belong to each other alone, the runs of its jobs   *)
(* store claims at most once, however _parse_and_extract overlaps with itself.       *)
THEOREM ClaimsAreExtractedOnce == Spec => []OneExtraction
  <1>1. Init => Extraction
    BY DEF Init, Extraction, ClaimRows, PageRows, RunRead, ExtractedOnce, Extracting
  <1>2. Types /\ Types' /\ Extraction /\ [Next]_vars => Extraction'
    BY ExtractionNext
  <1>3. Extraction => OneExtraction
    <2>1. ASSUME Extraction, NEW o \in Opps, NEW d \in Docs, DeckOwner(o, d)
          PROVE  Cardinality(claims[o]) <= 1
      <3>1. Owns(o, d)
        BY <2>1, NoInputAssumption DEF DeckOwner, Owns, Inserted
      <3>2. \A i, j \in claims[o] : i = j
        BY <2>1, <3>1 DEF Extraction, ExtractedOnce
      <3>3. Cardinality(claims[o]) \in {0, 1}
        BY <3>2, Counting
      <3> QED
        BY <3>3
    <2> QED
      BY <2>1 DEF OneExtraction
  <1> QED
    BY <1>1, <1>2, <1>3, TypesInvariant, PTL DEF Spec

--------------------------------------------------------------------------------
(* The event stream.  The types and the order of what the client receives hold   *)
(* together: what was received and what is in flight are consecutive numbers, of *)
(* which only the last event on the wire may be done; the cursor of an open      *)
(* stream is the last number sent, and the rows it has fetched follow on it.     *)

LogIsPrefix == \E n \in 0..6 : log[Job] = 1..n

Delivered == \A i \in 1..Len(got) : got[i] = i /\ i \in log[Job]

InFlight ==
    \A i \in 1..Len(wire) :
        \/ wire[i] = Len(got) + i /\ wire[i] \in log[Job]
        \/ wire[i] = Done /\ i = Len(wire) /\ phase = "closed"

Cursor == phase # "closed" => seq = Len(got) + Len(wire) /\ seq \in log[Job] \cup {0}

Fetched ==
    /\ phase = "send" => \E b \in seq..6 : batch = (seq + 1)..b /\ batch \subseteq log[Job]
    /\ phase # "send" => batch = {}

Ended == done => wire = <<>> /\ phase = "closed"

Followed == StreamTypeOK /\ LogIsPrefix /\ Delivered /\ InFlight /\ Cursor /\ Fetched /\ Ended

LEMMA FollowedInit == StreamInit => Followed
  <1> SUFFICES ASSUME StreamInit PROVE Followed
    OBVIOUS
  <1> USE DEF StreamInit, FollowInit, Record!Init
  <1>1. StreamTypeOK
    <2>1. /\ log \in [{Job} -> SUBSET (1..6)] /\ scores \in [{Job} -> 0..1] /\ memo \in [{Job} -> 0..1]
          /\ state \in [{Job} -> Terminal \cup {"none", "queued", "running"}]
      OBVIOUS
    <2>2. wire \in Seq(0..6) /\ got \in Seq(1..6)
      OBVIOUS
    <2>3. done \in BOOLEAN
      OBVIOUS
    <2>4. seq \in 0..6 /\ batch \in SUBSET (1..6) /\ drops \in 0..MaxDrops
      BY EventsAssumption
    <2> QED
      BY <2>1, <2>2, <2>3, <2>4 DEF StreamTypeOK
  <1>2. LogIsPrefix
    <2>1. log[Job] = 1..0
      OBVIOUS
    <2> QED
      BY <2>1 DEF LogIsPrefix
  <1>3. Delivered /\ InFlight /\ Cursor /\ Fetched /\ Ended
    BY DEF Delivered, InFlight, Cursor, Fetched, Ended
  <1> QED
    BY <1>1, <1>2, <1>3 DEF Followed

(* The record only grows, whoever writes it. *)
LEMMA RecordNext ==
  ASSUME StreamTypeOK, LogIsPrefix, [Record!Next]_recordVars
  PROVE  /\ log' \in [{Job} -> SUBSET (1..6)]
         /\ scores' \in [{Job} -> 0..1] /\ memo' \in [{Job} -> 0..1]
         /\ state' \in [{Job} -> Terminal \cup {"none", "queued", "running"}]
         /\ LogIsPrefix'
         /\ log[Job] \subseteq log'[Job]
  <1> USE DEF StreamTypeOK
  <1>1. CASE UNCHANGED <<log, scores, memo>> /\ (UNCHANGED state \/ \E s \in Terminal \cup {"queued", "running"} :
                                         state' = [state EXCEPT ![Job] = s])
    BY <1>1 DEF LogIsPrefix
  <1>2. CASE Record!Create(Job) \/ Record!Start(Job) \/ Record!Cancel(Job)
    BY <1>1, <1>2 DEF Record!Create, Record!Start, Record!Cancel, Record!rows, Terminal
  <1>3. ASSUME NEW S \in SUBSET {Job}, Record!Fail(S)
        PROVE  UNCHANGED <<log, scores, memo>> /\ (UNCHANGED state \/ state' = [state EXCEPT ![Job] = "failed"])
    BY <1>3 DEF Record!Fail, Record!rows
  <1>4. ASSUME NEW n \in 1..6, Record!LogStep(Job, n)
        PROVE  /\ log' \in [{Job} -> SUBSET (1..6)]
               /\ UNCHANGED <<scores, memo>>
               /\ state' \in [{Job} -> Terminal \cup {"none", "queued", "running"}]
               /\ LogIsPrefix'
               /\ log[Job] \subseteq log'[Job]
    <2>1. log[Job] = 1..(n - 1) /\ log' = [log EXCEPT ![Job] = 1..n] /\ UNCHANGED <<scores, memo>>
      BY <1>4 DEF Record!LogStep
    <2>2. log'[Job] = 1..n
      BY <2>1
    <2>3. UNCHANGED state \/ state' = [state EXCEPT ![Job] = "succeeded"]
      BY <1>4 DEF Record!LogStep
    <2>4. LogIsPrefix' /\ log[Job] \subseteq log'[Job]
      <3>1. n \in 0..6 /\ 1..(n - 1) \subseteq 1..n
        OBVIOUS
      <3> QED
        BY <2>1, <2>2, <3>1 DEF LogIsPrefix
    <2>5. log' \in [{Job} -> SUBSET (1..6)]
      BY <2>1
    <2>6. state' \in [{Job} -> Terminal \cup {"none", "queued", "running"}]
      BY <2>3 DEF Terminal
    <2> QED
      BY <2>1, <2>4, <2>5, <2>6
  <1>5. CASE Record!Score(Job) \/ Record!Publish(Job)
    <2>1. UNCHANGED <<log, state>> /\ scores' \in [{Job} -> 0..1] /\ memo' \in [{Job} -> 0..1]
      BY <1>5 DEF Record!Score, Record!Publish
    <2> QED
      BY <2>1 DEF LogIsPrefix
  <1>6. CASE UNCHANGED recordVars
    BY <1>1, <1>6 DEF recordVars
  <1> QED
    BY <1>1, <1>2, <1>3, <1>4, <1>5, <1>6 DEF Record!Next, Terminal

LEMMA WorkFollowed ==
  ASSUME Followed, [Record!Next]_recordVars, UNCHANGED followVars
  PROVE  Followed'
  <1> USE DEF followVars, streamVars, clientVars
  <1>1. StreamTypeOK' /\ LogIsPrefix' /\ log[Job] \subseteq log'[Job]
    BY RecordNext DEF Followed, StreamTypeOK
  <1>2. Delivered' /\ InFlight' /\ Cursor' /\ Ended'
    BY <1>1 DEF Followed, Delivered, InFlight, Cursor, Ended
  <1>3. Fetched'
    BY <1>1 DEF Followed, Fetched
  <1> QED
    BY <1>1, <1>2, <1>3 DEF Followed

LEMMA StreamFollowed ==
  ASSUME Followed, Stream
  PROVE  Followed'
  <1>a. StreamTypeOK /\ LogIsPrefix /\ Delivered /\ InFlight /\ Cursor /\ Fetched /\ Ended
    BY DEF Followed
  <1>b. Len(got) \in Nat /\ Len(wire) \in Nat
    BY <1>a DEF StreamTypeOK
  <1>c. UNCHANGED <<recordVars, clientVars>> => LogIsPrefix' /\ Delivered'
    BY <1>a DEF recordVars, clientVars, LogIsPrefix, Delivered
  <1> USE DEF recordVars, clientVars
  <1>1. CASE Connect
    <2>1. LastId = Len(got) /\ LastId \in log[Job] \cup {0} /\ LastId \in 0..6
      <3>1. CASE got = <<>>
        BY <3>1 DEF LastId
      <3>2. CASE got # <<>>
        <4>1. Len(got) \in 1..Len(got)
          BY <1>a, <3>2 DEF StreamTypeOK
        <4> QED
          BY <1>a, <3>2, <4>1 DEF LastId, Delivered, StreamTypeOK
      <3> QED
        BY <3>1, <3>2
    <2>2. StreamTypeOK'
      BY <1>a, <1>1, <2>1 DEF StreamTypeOK, Connect
    <2>3. Len(wire) = 0 /\ wire' = wire /\ got' = got /\ log' = log
      BY <1>1 DEF Connect
    <2>4. InFlight' /\ Cursor' /\ Fetched' /\ Ended'
      BY <1>b, <1>1, <2>1, <2>3 DEF Connect, InFlight, Cursor, Fetched, Ended
    <2> QED
      BY <1>c, <1>1, <2>2, <2>4 DEF Followed, Connect
  <1>2. CASE QuerySteps
    <2>1. batch' = {n \in log[Job] : n > seq} /\ phase' = "send" /\ phase = "query"
          /\ UNCHANGED <<recordVars, seq, wire, clientVars>>
      BY <1>2 DEF QuerySteps, Newer
    <2>2. PICK n \in 0..6 : log[Job] = 1..n
      BY <1>a DEF LogIsPrefix
    <2>3. seq \in 0..n
      BY <1>a, <2>1, <2>2 DEF Cursor, StreamTypeOK
    <2>4. batch' = (seq + 1)..n /\ n \in seq..6
      BY <2>1, <2>2, <2>3
    <2>5. Fetched'
      BY <2>1, <2>2, <2>3, <2>4 DEF Fetched
    <2>6. StreamTypeOK'
      BY <1>a, <2>1 DEF StreamTypeOK
    <2>7. InFlight' /\ Cursor' /\ Ended'
      BY <1>a, <2>1 DEF InFlight, Cursor, Ended
    <2> QED
      BY <1>c, <2>1, <2>5, <2>6, <2>7 DEF Followed
  <1>3. CASE SendStep
    <2>1. PICK n \in batch :
            /\ \A m \in batch : n <= m
            /\ seq' = n /\ wire' = Append(wire, n) /\ batch' = batch \ {n}
      BY <1>3 DEF SendStep
    <2>2. phase = "send" /\ UNCHANGED <<recordVars, phase, clientVars>>
      BY <1>3 DEF SendStep
    <2>3. PICK b \in seq..6 : batch = (seq + 1)..b /\ batch \subseteq log[Job]
      BY <1>a, <2>2 DEF Fetched
    <2>4. seq \in 0..6 /\ n = seq + 1 /\ n \in 1..6 /\ n \in log[Job]
      <3>1. seq \in 0..6 /\ n \in (seq + 1)..b /\ n \in log[Job]
        BY <1>a, <2>1, <2>3 DEF StreamTypeOK
      <3>2. seq + 1 \in batch
        BY <2>3, <3>1
      <3> QED
        BY <2>1, <3>1, <3>2
    <2>5. batch' = (n + 1)..b /\ b \in n..6
      BY <2>1, <2>3, <2>4
    <2>6. Fetched'
      BY <2>1, <2>2, <2>3, <2>5 DEF Fetched
    <2>7. n = Len(got) + Len(wire) + 1
      BY <1>a, <2>2, <2>4 DEF Cursor
    <2>8. /\ wire' \in Seq(0..6) /\ Len(wire') = Len(wire) + 1 /\ wire'[Len(wire) + 1] = n
          /\ \A i \in 1..Len(wire) : wire'[i] = wire[i]
      BY <1>a, <2>1, <2>4 DEF StreamTypeOK
    <2>9. StreamTypeOK'
      BY <1>a, <2>1, <2>2, <2>4, <2>8 DEF StreamTypeOK
    <2>10. InFlight'
      <3>1. ASSUME NEW i \in 1..Len(wire')
            PROVE  wire'[i] = Len(got) + i /\ wire'[i] \in log[Job]
        <4>1. CASE i = Len(wire) + 1
          BY <1>b, <2>4, <2>7, <2>8, <4>1
        <4>2. CASE i \in 1..Len(wire)
          BY <1>a, <2>2, <2>8, <4>2 DEF InFlight
        <4> QED
          BY <1>b, <2>8, <4>1, <4>2
      <3> QED
        BY <2>2, <3>1 DEF InFlight
    <2>11. Cursor' /\ Ended'
      BY <1>a, <1>b, <2>1, <2>2, <2>4, <2>7, <2>8 DEF Cursor, Ended
    <2> QED
      BY <1>c, <2>2, <2>6, <2>9, <2>10, <2>11 DEF Followed
  <1>4. CASE ReadStatus
    <2>1. /\ phase = "send" /\ phase' \in {"status", "query"} /\ batch = {}
          /\ UNCHANGED <<recordVars, seq, batch, wire, clientVars>>
      BY <1>4 DEF ReadStatus
    <2>2. StreamTypeOK'
      BY <1>a, <2>1 DEF StreamTypeOK
    <2>3. InFlight' /\ Cursor' /\ Fetched' /\ Ended'
      BY <1>a, <2>1 DEF InFlight, Cursor, Fetched, Ended
    <2> QED
      BY <1>c, <2>1, <2>2, <2>3 DEF Followed
  <1>5. CASE SendDone
    <2>1. /\ phase = "status" /\ phase' = "closed" /\ wire' = Append(wire, Done)
          /\ UNCHANGED <<recordVars, seq, batch, clientVars>>
      BY <1>5 DEF SendDone
    <2>2. /\ wire' \in Seq(0..6) /\ Len(wire') = Len(wire) + 1 /\ wire'[Len(wire) + 1] = Done
          /\ \A i \in 1..Len(wire) : wire'[i] = wire[i]
      BY <1>a, <2>1 DEF StreamTypeOK, Done
    <2>3. StreamTypeOK'
      BY <1>a, <2>1, <2>2 DEF StreamTypeOK
    <2>4. InFlight'
      <3>1. ASSUME NEW i \in 1..Len(wire')
            PROVE  \/ wire'[i] = Len(got) + i /\ wire'[i] \in log[Job]
                   \/ wire'[i] = Done /\ i = Len(wire')
        <4>1. CASE i = Len(wire) + 1
          BY <2>2, <4>1
        <4>2. CASE i \in 1..Len(wire)
          BY <1>a, <2>1, <2>2, <4>2 DEF InFlight
        <4> QED
          BY <1>b, <2>2, <4>1, <4>2
      <3> QED
        BY <2>1, <3>1 DEF InFlight
    <2>5. Cursor' /\ Fetched' /\ Ended'
      BY <1>a, <2>1 DEF Cursor, Fetched, Ended
    <2> QED
      BY <1>c, <2>1, <2>3, <2>4, <2>5 DEF Followed
  <1> QED
    BY <1>1, <1>2, <1>3, <1>4, <1>5 DEF Stream

LEMMA ReceiveFollowed ==
  ASSUME Followed, Receive
  PROVE  Followed'
  <1>a. StreamTypeOK /\ LogIsPrefix /\ Delivered /\ InFlight /\ Cursor /\ Fetched /\ Ended
    BY DEF Followed
  <1>b. Len(got) \in Nat /\ Len(wire) \in Nat /\ Len(wire) > 0 /\ Head(wire) = wire[1]
    BY <1>a DEF StreamTypeOK, Receive
  <1>c. /\ wire' \in Seq(0..6) /\ Len(wire') = Len(wire) - 1
        /\ \A i \in 1..Len(wire') : wire'[i] = wire[i + 1]
    BY <1>a, <1>b DEF StreamTypeOK, Receive
  <1>d. UNCHANGED <<recordVars, streamVars, drops>>
    BY DEF Receive
  <1> USE DEF recordVars, streamVars
  <1>1. CASE wire[1] = Done
    <2>1. UNCHANGED got /\ done' = TRUE
      BY <1>1, <1>b DEF Receive
    <2>2. Len(wire) = 1 /\ phase = "closed"
      <3>1. 1 \in 1..Len(wire) /\ wire[1] # Len(got) + 1
        BY <1>b, <1>1 DEF Done
      <3> QED
        BY <1>a, <1>b, <3>1 DEF InFlight
    <2>3. wire' = <<>>
      BY <1>c, <2>2
    <2>4. StreamTypeOK'
      BY <1>a, <1>c, <1>d, <2>1 DEF StreamTypeOK
    <2>5. LogIsPrefix' /\ Delivered' /\ Cursor' /\ Fetched' /\ Ended'
      BY <1>a, <1>d, <2>1, <2>2, <2>3 DEF LogIsPrefix, Delivered, Cursor, Fetched, Ended
    <2>6. InFlight'
      BY <2>3 DEF InFlight
    <2> QED
      BY <2>4, <2>5, <2>6 DEF Followed
  <1>2. CASE wire[1] # Done
    <2>1. got' = Append(got, wire[1]) /\ UNCHANGED done
      BY <1>2, <1>b DEF Receive
    <2>2. wire[1] = Len(got) + 1 /\ wire[1] \in log[Job]
      BY <1>a, <1>b, <1>2 DEF InFlight
    <2>3. wire[1] \in 1..6
      BY <1>a, <2>2 DEF StreamTypeOK
    <2>4. /\ got' \in Seq(1..6) /\ Len(got') = Len(got) + 1 /\ got'[Len(got) + 1] = wire[1]
          /\ \A i \in 1..Len(got) : got'[i] = got[i]
      BY <1>a, <2>1, <2>3 DEF StreamTypeOK
    <2>5. StreamTypeOK'
      BY <1>a, <1>c, <1>d, <2>1, <2>4 DEF StreamTypeOK
    <2>6. Delivered'
      <3>1. ASSUME NEW i \in 1..Len(got')
            PROVE  got'[i] = i /\ i \in log[Job]
        <4>1. CASE i = Len(got) + 1
          BY <2>2, <2>4, <4>1
        <4>2. CASE i \in 1..Len(got)
          BY <1>a, <2>4, <4>2 DEF Delivered
        <4> QED
          BY <1>b, <2>4, <4>1, <4>2
      <3> QED
        BY <1>d, <3>1 DEF Delivered
    <2>7. InFlight'
      <3>1. ASSUME NEW i \in 1..Len(wire')
            PROVE  \/ wire'[i] = Len(got') + i /\ wire'[i] \in log[Job]
                   \/ wire'[i] = Done /\ i = Len(wire') /\ phase = "closed"
        <4>1. i + 1 \in 1..Len(wire) /\ wire'[i] = wire[i + 1]
          BY <1>b, <1>c
        <4> QED
          BY <1>a, <1>b, <1>c, <2>4, <4>1 DEF InFlight
      <3> QED
        BY <1>d, <3>1 DEF InFlight
    <2>8. LogIsPrefix' /\ Fetched'
      BY <1>a, <1>d DEF LogIsPrefix, Fetched
    <2>9. Cursor'
      BY <1>a, <1>b, <1>c, <1>d, <2>4 DEF Cursor
    <2>10. Ended'
      BY <1>a, <1>d, <2>1 DEF Ended, Receive
    <2> QED
      BY <2>5, <2>6, <2>7, <2>8, <2>9, <2>10 DEF Followed
  <1> QED
    BY <1>1, <1>2

LEMMA DropFollowed ==
  ASSUME Followed, Drop
  PROVE  Followed'
  <1>1. StreamTypeOK'
    BY EventsAssumption DEF Followed, StreamTypeOK, Drop, recordVars
  <1>2. LogIsPrefix' /\ Delivered' /\ Cursor' /\ Fetched' /\ Ended'
    BY DEF Followed, LogIsPrefix, Delivered, Cursor, Fetched, Ended, Drop, recordVars
  <1>3. InFlight'
    <2>1. Len(wire') = 0
      BY DEF Drop
    <2> QED
      BY <2>1 DEF InFlight
  <1> QED
    BY <1>1, <1>2, <1>3 DEF Followed

LEMMA FollowedNext == Followed /\ [StreamNext]_eventVars => Followed'
  <1> SUFFICES ASSUME Followed, [StreamNext]_eventVars PROVE Followed'
    OBVIOUS
  <1>1. CASE Work \/ UNCHANGED eventVars
    BY <1>1, WorkFollowed DEF Work, eventVars
  <1> QED
    BY <1>1, StreamFollowed, ReceiveFollowed, DropFollowed DEF StreamNext, Follow

LEMMA FollowedInvariant == StreamSafety => []Followed
  BY FollowedInit, FollowedNext, PTL DEF StreamSafety

(* The stream and its client stay within their types, for any number of lost  *)
(* connections.                                                               *)
THEOREM StreamTypeCorrectness == StreamSpec => []StreamTypeOK
  <1>1. Followed => StreamTypeOK
    BY DEF Followed
  <1> QED
    BY <1>1, FollowedInvariant, PTL DEF StreamSpec

(* However often the connection is lost, and whenever the job writes, the client *)
(* of job_events gets a prefix of the log, in order and without repetition.      *)
THEOREM StreamOrder == StreamSpec => []NoGapNoRepeat
  <1>1. Followed => NoGapNoRepeat
    BY DEF Followed, Delivered, NoGapNoRepeat
  <1> QED
    BY <1>1, FollowedInvariant, PTL DEF StreamSpec

--------------------------------------------------------------------------------
(* The stream over the pipeline.  JobEvents assumes of the job only what JobLog    *)
(* promises; the pipeline keeps that promise to each of its jobs, so the stream    *)
(* delivers the steps of a job that is executed as JobPipeline says.               *)

(* The record that job_events polls is what the pipeline has stored of the job. *)
Polls ==
    /\ log = [j \in {Job} |-> steps[j]]
    /\ scores = [j \in {Job} |-> Cardinality(ScoresBy(j))]
    /\ memo = [j \in {Job} |-> Cardinality(MemosBy(j))]
    /\ state = [j \in {Job} |-> status[j]]

LEMMA OneOfTheJobs ==
  ASSUME Job \in Jobs, Types, Polls, Polls', [Log!Next]_(Log!vars)
  PROVE  [Record!Next]_recordVars
  <1> DEFINE scoresOf == [j \in Jobs |-> Cardinality(ScoresBy(j))]
             memoOf == [j \in Jobs |-> Cardinality(MemosBy(j))]
  <1>1. status \in [Jobs -> JobStatus \cup {"none"}] /\ steps \in [Jobs -> SUBSET Seqs]
    BY DEF Types, TypeOK
  <1>2. /\ log[Job] = steps[Job] /\ scores[Job] = scoresOf[Job]
        /\ memo[Job] = memoOf[Job] /\ state[Job] = status[Job]
    BY DEF Polls
  <1>3. /\ steps'[Job] = steps[Job] => UNCHANGED log
        /\ scoresOf'[Job] = scoresOf[Job] => UNCHANGED scores
        /\ memoOf'[Job] = memoOf[Job] => UNCHANGED memo
        /\ status'[Job] = status[Job] => UNCHANGED state
    BY DEF Polls
  <1>4. /\ \A x : steps'[Job] = x => log' = [log EXCEPT ![Job] = x]
        /\ \A x : scoresOf'[Job] = x => scores' = [scores EXCEPT ![Job] = x]
        /\ \A x : memoOf'[Job] = x => memo' = [memo EXCEPT ![Job] = x]
        /\ \A x : status'[Job] = x => state' = [state EXCEPT ![Job] = x]
    BY DEF Polls
  <1>5. ASSUME UNCHANGED Log!rows
        PROVE  UNCHANGED <<log, scores, memo>>
    BY <1>3, <1>5 DEF Log!rows
  <1>6. ASSUME NEW j \in Jobs, Log!Create(j) \/ Log!Start(j) \/ Log!Cancel(j)
        PROVE  [Record!Next]_recordVars
    <2>1. UNCHANGED <<log, scores, memo>>
      BY <1>5, <1>6 DEF Log!Create, Log!Start, Log!Cancel
    <2>2. CASE j = Job
      <3>1. Record!Create(Job) \/ Record!Start(Job) \/ Record!Cancel(Job)
        BY <1>1, <1>2, <1>4, <1>6, <2>1, <2>2 DEF Log!Create, Log!Start, Log!Cancel, Log!Created,
              Record!Create, Record!Start, Record!Cancel, Record!Created, Record!rows
      <3> QED
        BY <3>1 DEF Record!Next
    <2>3. CASE j # Job
      <3>1. status'[Job] = status[Job]
        BY <1>1, <1>6, <2>3 DEF Log!Create, Log!Start, Log!Cancel
      <3> QED
        BY <1>3, <2>1, <3>1 DEF recordVars
    <2> QED
      BY <2>2, <2>3
  <1>7. ASSUME NEW S \in SUBSET Jobs, Log!Fail(S)
        PROVE  [Record!Next]_recordVars
    <2>1. UNCHANGED <<log, scores, memo>>
      BY <1>5, <1>7 DEF Log!Fail
    <2>2. CASE Job \in S
      <3>1. Record!Fail({Job})
        <4>1. state' = [j \in {Job} |-> IF j \in {Job} THEN "failed" ELSE state[j]]
          BY <1>7, <2>2 DEF Log!Fail, Polls
        <4>2. \A j \in {Job} : Record!Started(j)
          BY <1>2, <1>7, <2>2 DEF Log!Fail, Log!Started, Record!Started
        <4> QED
          BY <2>1, <4>1, <4>2 DEF Record!Fail, Record!rows
      <3> QED
        BY <3>1 DEF Record!Next
    <2>3. CASE Job \notin S
      BY <1>3, <1>7, <2>1, <2>3 DEF Log!Fail, recordVars
    <2> QED
      BY <2>2, <2>3
  <1>8. ASSUME NEW j \in Jobs, NEW n \in 1..6, Log!LogStep(j, n)
        PROVE  [Record!Next]_recordVars
    <2>1. UNCHANGED <<scores, memo>>
      BY <1>3, <1>8 DEF Log!LogStep
    <2>2. CASE j = Job
      <3>1. Record!LogStep(Job, n)
        BY <1>1, <1>2, <1>3, <1>4, <1>8, <2>1, <2>2 DEF Log!LogStep, Log!Started, Record!LogStep,
              Record!Started
      <3> QED
        BY <3>1 DEF Record!Next
    <2>3. CASE j # Job
      BY <1>1, <1>3, <1>8, <2>1, <2>3 DEF Log!LogStep, recordVars
    <2> QED
      BY <2>2, <2>3
  <1>9. ASSUME NEW j \in Jobs, Log!Score(j)
        PROVE  [Record!Next]_recordVars
    <2>1. UNCHANGED <<log, memo, state>>
      BY <1>3, <1>9 DEF Log!Score
    <2>2. scoresOf' = [scoresOf EXCEPT ![j] = 1]
      BY <1>9 DEF Log!Score
    <2>3. CASE j = Job
      <3>1. scoresOf'[Job] = 1
        BY <2>2, <2>3
      <3>2. Record!Started(Job) /\ log[Job] = 1..2 /\ scores[Job] = 0
        BY <1>2, <1>9, <2>3 DEF Log!Score, Log!Started, Record!Started
      <3>3. Record!Score(Job)
        BY <1>4, <2>1, <3>1, <3>2 DEF Record!Score
      <3> QED
        BY <3>3 DEF Record!Next
    <2>4. CASE j # Job
      <3>1. scoresOf'[Job] = scoresOf[Job]
        BY <2>2, <2>4
      <3> QED
        BY <1>3, <2>1, <3>1 DEF recordVars
    <2> QED
      BY <2>3, <2>4
  <1>10. ASSUME NEW j \in Jobs, Log!Publish(j)
         PROVE  [Record!Next]_recordVars
    <2>1. UNCHANGED <<log, scores, state>>
      BY <1>3, <1>10 DEF Log!Publish
    <2>2. memoOf' = [memoOf EXCEPT ![j] = 1]
      BY <1>10 DEF Log!Publish
    <2>3. CASE j = Job
      <3>1. memoOf'[Job] = 1
        BY <2>2, <2>3
      <3>2. Record!Started(Job) /\ log[Job] = 1..4 /\ memo[Job] = 0
        BY <1>2, <1>10, <2>3 DEF Log!Publish, Log!Started, Record!Started
      <3>3. Record!Publish(Job)
        BY <1>4, <2>1, <3>1, <3>2 DEF Record!Publish
      <3> QED
        BY <3>3 DEF Record!Next
    <2>4. CASE j # Job
      <3>1. memoOf'[Job] = memoOf[Job]
        BY <2>2, <2>4
      <3> QED
        BY <1>3, <2>1, <3>1 DEF recordVars
    <2> QED
      BY <2>3, <2>4
  <1>11. CASE UNCHANGED Log!vars
    BY <1>3, <1>5, <1>11 DEF Log!vars, recordVars
  <1> QED
    BY <1>6, <1>7, <1>8, <1>9, <1>10, <1>11 DEF Log!Next

(* Stream, network and client act on what they have; the record is the pipeline's. *)
FollowSpec == FollowInit /\ [][Follow \/ UNCHANGED followVars]_eventVars

(* A client that follows a job of the pipeline gets the steps of the job in order, *)
(* once and without a gap, under every redelivery, crash, cancellation, reaping    *)
(* and lost connection.                                                            *)
THEOREM StreamOverPipeline ==
  ASSUME Job \in Jobs
  PROVE  Spec /\ []Polls /\ FollowSpec => []NoGapNoRepeat
  <1>1. Init /\ Polls /\ FollowInit => StreamInit
    <2> SUFFICES ASSUME Init, Polls, FollowInit PROVE StreamInit
      OBVIOUS
    <2>1. Log!Init
      BY LogInit
    <2>2. Record!Init
      BY <2>1 DEF Polls, Log!Init, Record!Init
    <2> QED
      BY <2>2 DEF StreamInit
  <1>2. /\ Types /\ History /\ Began /\ Polls /\ Polls' /\ [Next]_vars
        /\ [Follow \/ UNCHANGED followVars]_eventVars
        => [StreamNext]_eventVars
    <2> SUFFICES ASSUME Types, History, Began, Polls, Polls', [Next]_vars,
                        [Follow \/ UNCHANGED followVars]_eventVars
                 PROVE  [StreamNext]_eventVars
      OBVIOUS
    <2>1. [Record!Next]_recordVars
      BY LogNext, OneOfTheJobs
    <2> QED
      BY <2>1 DEF StreamNext, Work, eventVars
  <1>3. Followed => NoGapNoRepeat
    BY DEF Followed, Delivered, NoGapNoRepeat
  <1> QED
    BY <1>1, <1>2, <1>3, HistoryInvariant, BeganInvariant, FollowedInit, FollowedNext, PTL
       DEF Spec, FollowSpec

================================================================================
