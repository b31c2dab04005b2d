-------------------------------- MODULE JobLog --------------------------------
(***************************************************************************)
(* What the durable record of a job promises to those who read it (the SSE *)
(* stream, the memo views): one sequential history per job.  Steps 1 to 6  *)
(* are logged in order and once; the axis scores appear between steps 2    *)
(* and 3 and the memo between steps 4 and 5, each once.  How many workers  *)
(* run the job, and how often, does not show.                              *)
(*                                                                         *)
(* The status promises less.  A job is queued once, nothing is written     *)
(* before a run has started, and succeeded comes with step 6 and only with *)
(* it; but failed and cancelled are not final, and what a run writes goes  *)
(* on after them.                                                          *)
(***************************************************************************)
EXTENDS Naturals

CONSTANT Jobs

VARIABLES
    log,       \* job -> the steps logged
    scores,    \* job -> the number of axis score versions it stored
    memo,      \* job -> the number of memos it stored
    status     \* job -> its status, "none" before it is created

rows == <<log, scores, memo>>
vars == <<rows, status>>

Init ==
    /\ log = [j \in Jobs |-> {}]
    /\ scores = [j \in Jobs |-> 0]
    /\ memo = [j \in Jobs |-> 0]
    /\ status = [j \in Jobs |-> "none"]

Created(j) == status[j] # "none"
Started(j) == status[j] \notin {"none", "queued"}

--------------------------------------------------------------------------------
(* The status *)

Create(j) ==
    /\ ~Created(j)
    /\ status' = [status EXCEPT ![j] = "queued"]
    /\ UNCHANGED rows

\* A run starts, whatever became of the job since it was loaded.
Start(j) ==
    /\ Created(j)
    /\ status' = [status EXCEPT ![j] = "running"]
    /\ UNCHANGED rows

Cancel(j) ==
    /\ Created(j)
    /\ status' = [status EXCEPT ![j] = "cancelled"]
    /\ UNCHANGED rows

\* An exception fails the job of its run, the reaper several jobs together.
Fail(S) ==
    /\ \A j \in S : Started(j)
    /\ status' = [j \in Jobs |-> IF j \in S THEN "failed" ELSE status[j]]
    /\ UNCHANGED rows

--------------------------------------------------------------------------------
(* The rows *)

\* Step n is logged after steps 1..n-1 and after the rows it reports; the last
\* step is logged together with the status.
LogStep(j, n) ==
    /\ Started(j)
    /\ log[j] = 1..(n - 1)
    /\ n = 3 => scores[j] = 1
    /\ n = 5 => memo[j] = 1
    /\ log' = [log EXCEPT ![j] = 1..n]
    /\ status' = IF n = 6 THEN [status EXCEPT ![j] = "succeeded"] ELSE status
    /\ UNCHANGED <<scores, memo>>

Score(j) ==
    /\ Started(j)
    /\ log[j] = 1..2
    /\ scores[j] = 0
    /\ scores' = [scores EXCEPT ![j] = 1]
    /\ UNCHANGED <<log, memo, status>>

Publish(j) ==
    /\ Started(j)
    /\ log[j] = 1..4
    /\ memo[j] = 0
    /\ memo' = [memo EXCEPT ![j] = 1]
    /\ UNCHANGED <<log, scores, status>>

Next ==
    \/ \E j \in Jobs :
          \/ Create(j) \/ Start(j) \/ Cancel(j)
          \/ \E n \in 1..6 : LogStep(j, n)
          \/ Score(j)
          \/ Publish(j)
    \/ \E S \in (SUBSET Jobs) \ {{}} : Fail(S)

Spec == Init /\ [][Next]_vars

===============================================================================
