------------------------ MODULE BacktestJobsProofs ------------------------
(***************************************************************************)
(* What BacktestJobs guarantees for any number of jobs, workers, restarts  *)
(* and faults.  Its steps are steps of TaskQueue, so the invariant of the  *)
(* queue carries over; with it, JobInv is inductive, and from JobInv       *)
(* follow the safety properties and the refinement of JobLifecycle.        *)
(***************************************************************************)
EXTENDS BacktestJobs, TaskQueueProofs

USE JobsAssumption

-----------------------------------------------------------------------------
(* The queue inside *)

LEMMA QueueInside == JobNext => [Next]_vars
  <1> SUFFICES ASSUME JobNext PROVE Next \/ UNCHANGED vars
    OBVIOUS
  <1>1. ASSUME NEW j \in Jobs, ApiStep(j) PROVE PushTask \/ UNCHANGED vars
    BY <1>1 DEF ApiStep, InsertJob, QueueJob, QueueingFails, DeleteLooksUp,
       DeleteRemovesReport, DeleteRemovesRow, AdminDeletes
  <1>2. ASSUME NEW w \in Workers, JobStep(w)
        PROVE  \/ ProcessReportsRunning(w)
               \/ \E result \in {"ok", "err"} : ProcessReturns(w, result)
               \/ UNCHANGED vars
    BY <1>2 DEF JobStep, BeginJob, ComputeJob, SaveReport, CommitJob, FailJob, LeaveJob
  <1>3. QED
    BY <1>1, <1>2 DEF JobNext, KillWorker, Next

\* The composition is an instance of the queue: what is proved of TaskQueue
\* holds of the queue that the API and the workers use.
THEOREM JobsRunTheQueue == JobSpec => Spec
  <1>1. JobInit => Init
    BY DEF JobInit
  <1>2. [JobNext]_allVars => [Next]_vars
    BY QueueInside DEF allVars
  <1>3. QED
    BY <1>1, <1>2, PTL DEF JobSpec, Spec

\* The entries, their runs and the workers inside process() after a step of the
\* queue in which no job changes.
LEMMA QueueStepEffect ==
    ASSUME QueueInv, RedisStep \/ \E u \in Workers : QueueStep(u)
    PROVE  /\ UNCHANGED <<sent, outcome>>
           /\ \A e \in Entries : runs'[e] = 0 => runs[e] = 0
           /\ \A v \in Workers : pc[v] = "process" => pc'[v] = "process"
           /\ \A v \in Workers : pc'[v] = "process" => \A e \in todo'[v] :
                 \/ pc[v] = "process" /\ e \in todo[v]
                 \/ pc[v] # "process" /\ e \in Entries /\ runs[e] = 0
  <1> USE DEF QueueInv, redisVars, historyVars
  <1> DEFINE Effect ==
         /\ UNCHANGED <<sent, outcome>>
         /\ \A e \in Entries : runs'[e] = 0 => runs[e] = 0
         /\ \A v \in Workers : pc[v] = "process" => pc'[v] = "process"
         /\ \A v \in Workers : pc'[v] = "process" => \A e \in todo'[v] :
               \/ pc[v] = "process" /\ e \in todo[v]
               \/ pc[v] # "process" /\ e \in Entries /\ runs[e] = 0
  <1>1. ASSUME NEW w \in Workers, StartTask(w) PROVE Effect
    <2>1. \A e \in todo[w] : e \in Entries /\ runs[e] = 0
      BY <1>1 DEF TypeOK, StartTask, HandInv, Untouched
    <2>2. pc[w] = "mark" /\ pc' = [pc EXCEPT ![w] = "process"] /\ UNCHANGED <<sent, outcome, todo>>
      BY <1>1 DEF StartTask
    <2>3. \A e \in Entries : runs'[e] = 0 => runs[e] = 0
      BY <1>1 DEF TypeOK, StartTask
    <2>4. QED
      BY <2>1, <2>2, <2>3 DEF TypeOK
  <1>2. ASSUME NEW w \in Workers,
               pc[w] # "process", pc'[w] # "process", UNCHANGED <<sent, outcome, runs>>,
               \A v \in Workers \ {w} : pc'[v] = pc[v] /\ todo'[v] = todo[v]
        PROVE  Effect
    BY <1>2
  <1>3. ASSUME NEW w \in Workers, DeliverToWorker(w) \/ BlockExpires(w) PROVE Effect
    <2>1. /\ pc[w] # "process" /\ pc'[w] # "process" /\ UNCHANGED <<sent, outcome, runs>>
          /\ \A v \in Workers \ {w} : pc'[v] = pc[v] /\ todo'[v] = todo[v]
      BY <1>3 DEF TypeOK, DeliverToWorker, Deliver, BlockExpires
    <2>2. QED
      BY <1>2, <2>1
  <1>4. ASSUME NEW c \in orphans, DeliverToOrphan(c) \/ OrphanExpires(c) PROVE Effect
    BY <1>4 DEF DeliverToOrphan, Deliver, OrphanExpires, workerVars
  <1>5. ASSUME NEW w \in Workers,
               \/ InitConsumerGroup(w) \/ SendRead(w) \/ ListPending(w) \/ ConsumeTask(w)
               \/ ConsumeFails(w) \/ ReclaimTick(w) \/ Shutdown(w) \/ Restart(w)
               \/ AckSuccess(w)
        PROVE  Effect
    <2>1. /\ pc[w] # "process" /\ pc'[w] # "process" /\ UNCHANGED <<sent, outcome, runs>>
          /\ \A v \in Workers \ {w} : pc'[v] = pc[v] /\ todo'[v] = todo[v]
      BY <1>5 DEF TypeOK, InitConsumerGroup, SendRead, ListPending, ConsumeTask,
         ConsumeFails, ReclaimTick, Shutdown, Restart, AckSuccess
    <2>2. QED
      BY <1>2, <2>1
  <1>6. ASSUME NEW w \in Workers,
               \/ ConsumePending(w) \/ ReclaimReturns(w) \/ ClaimPending(w)
               \/ SettleSuccess(w) \/ SettleFailure(w) \/ AckFailure(w)
        PROVE  Effect
    <2>1. pc[w] # "process" /\ UNCHANGED <<sent, outcome, runs>>
      BY <1>6 DEF ConsumePending, ReclaimReturns, ClaimPending, SettleSuccess,
         SettleFailure, AckFailure
    <2>2. /\ pc'[w] # "process"
          /\ \A v \in Workers \ {w} : pc'[v] = pc[v] /\ todo'[v] = todo[v]
      BY <1>6 DEF TypeOK, ConsumePending, ReclaimReturns, ClaimPending, SettleSuccess,
         SettleFailure, AckFailure, NextTask, Leave
    <2>3. QED
      BY <1>2, <2>1, <2>2
  <1>7. ASSUME NEW w \in Workers, QueueStep(w) PROVE Effect
    BY <1>1, <1>5, <1>6, <1>7 DEF QueueStep, WorkerStep
  <1>8. QED
    BY <1>3, <1>4, <1>7 DEF RedisStep

-----------------------------------------------------------------------------
(* The invariant *)

\* The part of JobInv beyond the queue's own invariant.
JobParts ==
    /\ JobTypeOK
    /\ PushInv
    /\ RowInv
    /\ StepInv
    /\ DeleteInv
    /\ SuccessHasReport

\* A queue step leaves rows, files and requests alone and starts process() only
\* for an entry that was not run before.
LEMMA QueueStepKeeps ==
    ASSUME QueueInv, JobParts, UNCHANGED jobVars,
           RedisStep \/ \E u \in Workers : QueueStep(u)
    PROVE  JobParts'
  <1> USE DEF jobVars
  <1>1. JobTypeOK' /\ PushInv' /\ DeleteInv' /\ SuccessHasReport'
    BY QueueStepEffect DEF JobParts, JobTypeOK, PushInv, DeleteInv, SuccessHasReport
  <1>2. RowInv'
    BY QueueStepEffect DEF JobParts, RowInv, Open
  <1>3. StepInv'
    <2>1. ASSUME NEW w \in Workers PROVE step'[w] # "begin" => pc'[w] = "process"
      BY <2>1, QueueStepEffect DEF JobParts, StepInv
    <2>2. ASSUME NEW w \in Workers, pc'[w] = "process", NEW e \in todo'[w], NEW j \in Jobs,
                 payload[e] = j
          PROVE  /\ step[w] \notin {"finish", "failed"} => Open(j)
                 /\ step[w] = "commit" /\ row[j] = "pending" => j \in report
                 /\ step[w] = "finish" => row[j] \in {"success", "deleted"}
                 /\ step[w] = "failed" => row[j] # "success"
      <3>1. CASE pc[w] = "process" /\ e \in todo[w]
        BY <2>2, <3>1 DEF JobParts, StepInv
      <3>2. CASE pc[w] # "process" /\ e \in Entries /\ runs[e] = 0
        BY <2>2, <3>2 DEF JobParts, StepInv, RowInv
      <3>3. QED
        BY <2>2, <3>1, <3>2, QueueStepEffect
    <2>3. QED
      BY <2>1, <2>2 DEF StepInv, Open
  <1>4. QED
    BY <1>1, <1>2, <1>3 DEF JobParts

\* A killed worker forgets its program point, and no other worker has its task.
LEMMA KillWorkerKeeps ==
    ASSUME QueueInv, JobParts, NEW w \in Workers, KillWorker(w)
    PROVE  JobParts'
  <1>1. /\ UNCHANGED <<sent, runs, outcome, row, report, payload, submit, delete>>
        /\ pc' = [pc EXCEPT ![w] = "down"] /\ todo' = [todo EXCEPT ![w] = {}]
        /\ step' = [step EXCEPT ![w] = "begin"]
    BY DEF KillWorker, Crash, GoTo, historyVars
  <1>2. JobTypeOK' /\ PushInv' /\ DeleteInv' /\ SuccessHasReport'
    BY <1>1 DEF JobParts, JobTypeOK, Steps, PushInv, DeleteInv, SuccessHasReport
  <1>3. RowInv'
    BY <1>1 DEF JobParts, RowInv, Open
  <1>4. StepInv'
    BY <1>1 DEF QueueInv, TypeOK, JobParts, JobTypeOK, StepInv, Open
  <1>5. QED
    BY <1>2, <1>3, <1>4 DEF JobParts

-----------------------------------------------------------------------------
(* The API *)

\* An insert, a deletion and a failed push change one row, one file or one
\* request, and neither the queue nor a program point.
LEMMA InsertJobKeeps ==
    ASSUME QueueInv, JobParts, NEW j \in Jobs, InsertJob(j)
    PROVE  JobParts'
  <1>1. /\ UNCHANGED <<sent, pc, todo, runs, outcome, report, payload, delete, step>>
        /\ row' = [row EXCEPT ![j] = "pending"]
        /\ submit[j] = "idle" /\ submit' = [submit EXCEPT ![j] = "inserted"]
    BY DEF InsertJob, vars, redisVars, workerVars, historyVars
  <1>2. row[j] = "none" /\ \A e \in Entries : payload[e] # j
    BY <1>1 DEF JobParts, PushInv
  <1>3. JobTypeOK' /\ PushInv'
    BY <1>1, <1>2 DEF JobParts, JobTypeOK, PushInv
  <1>4. RowInv' /\ DeleteInv' /\ SuccessHasReport'
    BY <1>1, <1>2 DEF JobParts, JobTypeOK, RowInv, Open, DeleteInv, SuccessHasReport
  <1>5. StepInv'
    <2>1. \A w \in Workers : \A e \in todo[w] : e \in Entries
      BY DEF QueueInv, TypeOK
    <2>2. QED
      BY <1>1, <1>2, <2>1 DEF JobParts, JobTypeOK, StepInv, Open
  <1>6. QED
    BY <1>3, <1>4, <1>5 DEF JobParts

\* The new entry is nobody's yet, so only its job's request moves on.
LEMMA QueueJobKeeps ==
    ASSUME QueueInv, JobParts, NEW j \in Jobs, QueueJob(j)
    PROVE  JobParts'
  <1>1. /\ UNCHANGED <<pc, todo, runs, outcome, row, report, delete, step>>
        /\ sent < MaxTasks /\ sent' = sent + 1
        /\ payload' = [payload EXCEPT ![sent + 1] = j]
        /\ submit[j] = "inserted" /\ submit' = [submit EXCEPT ![j] = "queued"]
    BY DEF QueueJob, PushTask, workerVars, historyVars
  <1> DEFINE n == sent + 1
  <1>2. n \in Entries /\ n > cursor
    BY <1>1, TaskQueueAssumption DEF QueueInv, TypeOK, FutureInv, Entries
  <1>3. runs[n] = 0 /\ outcome[n] = "none" /\ \A w \in Workers : n \notin todo[w]
    BY <1>2 DEF QueueInv, TypeOK, FutureInv, Untouched, HandInv
  <1>4. Open(j) /\ \A e \in Entries : payload[e] # j
    BY <1>1 DEF JobParts, JobTypeOK, PushInv, RowInv, Open
  <1>5. payload'[n] = j /\ \A e \in Entries \ {n} : payload'[e] = payload[e]
    BY <1>1, <1>2 DEF JobParts, JobTypeOK
  <1>6. JobTypeOK'
    <2>1. \A e \in Entries : payload'[e] = NoJob <=> e > sent'
      BY <1>1, <1>2, <1>5, TaskQueueAssumption
      DEF JobParts, JobTypeOK, QueueInv, TypeOK, Entries
    <2>2. QED
      BY <1>1, <1>2, <2>1 DEF JobParts, JobTypeOK
  <1>7. PushInv'
    BY <1>1, <1>4, <1>5 DEF JobParts, JobTypeOK, PushInv
  <1>8. RowInv'
    BY <1>1, <1>3, <1>4, <1>5 DEF JobParts, RowInv, Open
  <1>9. StepInv'
    <2>1. \A w \in Workers : \A e \in todo[w] : e \in Entries \ {n}
      BY <1>3 DEF QueueInv, TypeOK
    <2>2. QED
      BY <1>1, <1>5, <2>1 DEF JobParts, StepInv, Open
  <1>10. DeleteInv' /\ SuccessHasReport'
    BY <1>1 DEF JobParts, DeleteInv, SuccessHasReport
  <1>11. QED
    BY <1>6, <1>7, <1>8, <1>9, <1>10 DEF JobParts

LEMMA QueueingFailsKeeps ==
    ASSUME QueueInv, JobParts, NEW j \in Jobs, QueueingFails(j)
    PROVE  JobParts'
  <1>1. /\ UNCHANGED <<sent, pc, todo, runs, outcome, row, report, payload, delete, step>>
        /\ submit[j] = "inserted" /\ submit' = [submit EXCEPT ![j] = "unqueued"]
    BY DEF QueueingFails, vars, redisVars, workerVars, historyVars
  <1>2. JobTypeOK' /\ PushInv'
    BY <1>1 DEF JobParts, JobTypeOK, PushInv
  <1>3. RowInv' /\ StepInv' /\ DeleteInv' /\ SuccessHasReport'
    BY <1>1 DEF JobParts, RowInv, StepInv, Open, DeleteInv, SuccessHasReport
  <1>4. QED
    BY <1>2, <1>3 DEF JobParts

\* The steps of a deletion: a row can only become "deleted", and the file of a
\* job goes only if its row has left "pending".
LEMMA DeletionKeeps ==
    ASSUME QueueInv, JobParts, NEW j \in Jobs,
           \/ DeleteLooksUp(j) \/ DeleteRemovesReport(j) \/ DeleteRemovesRow(j)
           \/ AdminDeletes(j)
    PROVE  JobParts'
  <1>1. /\ UNCHANGED <<sent, pc, todo, runs, outcome, payload, submit, step>>
        /\ row' = row \/ (Exists(j) /\ row' = [row EXCEPT ![j] = "deleted"])
    BY DEF DeleteLooksUp, DeleteRemovesReport, DeleteRemovesRow, AdminDeletes, UpdateRow,
       vars, redisVars, workerVars, historyVars
  <1>2. \/ UNCHANGED <<report, delete>>
        \/ /\ UNCHANGED <<report, row>> /\ row[j] = "success"
           /\ delete' = [delete EXCEPT ![j] = "remove"]
        \/ /\ UNCHANGED report
           /\ \E d \in {"delete", "failed", "done"} : delete' = [delete EXCEPT ![j] = d]
        \/ /\ report' \in {report, report \ {j}} /\ UNCHANGED row
           /\ delete[j] = "remove" /\ delete' = [delete EXCEPT ![j] = "delete"]
    BY DEF DeleteLooksUp, DeleteRemovesReport, DeleteRemovesRow, AdminDeletes
  <1>3. \A i \in Jobs : row'[i] = row[i] \/ (row'[i] = "deleted" /\ row[i] # "none")
    BY <1>1 DEF JobParts, JobTypeOK, Exists
  <1>4. JobTypeOK'
    BY <1>1, <1>2 DEF JobParts, JobTypeOK
  <1>5. PushInv'
    BY <1>1, <1>3 DEF JobParts, PushInv
  <1>6. RowInv'
    BY <1>1, <1>3 DEF JobParts, RowInv, Open
  <1>7. StepInv'
    <2>1. \A i \in Jobs : row'[i] = "pending" /\ i \in report => i \in report'
      BY <1>2 DEF JobParts, DeleteInv
    <2>2. QED
      BY <1>1, <1>3, <2>1 DEF JobParts, StepInv, Open
  <1>8. DeleteInv'
    BY <1>2, <1>3 DEF JobParts, JobTypeOK, DeleteInv
  <1>9. SuccessHasReport'
    BY <1>2, <1>3 DEF JobParts, JobTypeOK, SuccessHasReport
  <1>10. QED
    BY <1>4, <1>5, <1>6, <1>7, <1>8, <1>9 DEF JobParts

-----------------------------------------------------------------------------
(* process() *)

\* The job a worker is working on: no other entry is about it, so no other
\* worker is, and the run of its entry has not returned.
LEMMA OneJob ==
    ASSUME QueueInv, JobParts, NEW w \in Workers, pc[w] = "process",
           NEW j \in Jobs, IsJobOf(w, j)
    PROVE  \E e \in todo[w] :
              /\ e \in Entries /\ todo[w] = {e} /\ payload[e] = j
              /\ runs[e] = 1 /\ outcome[e] = "none"
              /\ \A f \in Entries : payload[f] = j => f = e
              /\ \A v \in Workers \ {w} : e \notin todo[v]
  <1>1. PICK e \in todo[w] : payload[e] = j
    BY DEF IsJobOf
  <1>2. e \in Entries /\ todo[w] = {e} /\ runs[e] = 1 /\ outcome[e] = "none"
    BY DEF QueueInv, TypeOK, HandInv
  <1>3. \A f \in Entries : payload[f] = j => f = e
    BY <1>1, <1>2 DEF JobParts, PushInv
  <1>4. \A v \in Workers \ {w} : e \notin todo[v]
    BY <1>2 DEF QueueInv, ExclusiveInv
  <1>5. QED
    BY <1>1, <1>2, <1>3, <1>4

\* A step of process() that leaves the rows and the queue alone.
LEMMA PointMoves ==
    ASSUME QueueInv, JobParts, NEW w \in Workers, pc[w] = "process", NEW next \in Steps,
           UNCHANGED <<sent, pc, todo, runs, outcome, row, payload, submit, delete>>,
           GoTo(w, next), report \subseteq report', report' \in SUBSET Jobs,
           \A e \in todo[w], j \in Jobs : payload[e] = j =>
              /\ next \notin {"finish", "failed"} => Open(j)
              /\ next = "commit" /\ row[j] = "pending" => j \in report'
              /\ next = "finish" => row[j] \in {"success", "deleted"}
              /\ next = "failed" => row[j] # "success"
    PROVE  JobParts'
  <1>1. JobTypeOK'
    BY DEF JobParts, JobTypeOK, GoTo
  <1>2. PushInv' /\ RowInv' /\ DeleteInv' /\ SuccessHasReport'
    BY DEF JobParts, PushInv, RowInv, Open, DeleteInv, SuccessHasReport
  <1>3. StepInv'
    <2>1. step'[w] = next /\ \A v \in Workers \ {w} : step'[v] = step[v]
      BY DEF JobParts, JobTypeOK, GoTo
    <2>2. QED
      BY <2>1 DEF JobParts, StepInv, Open
  <1>4. QED
    BY <1>1, <1>2, <1>3 DEF JobParts

\* An UPDATE by the worker that has the job: it finds the row pending or gone.
LEMMA RowMoves ==
    ASSUME QueueInv, JobParts, NEW w \in Workers, pc[w] = "process",
           NEW j \in Jobs, IsJobOf(w, j), Open(j), NEW new \in {"success", "failed"},
           UpdateRow(j, new), NEW next \in Steps, GoTo(w, next),
           UNCHANGED <<sent, pc, todo, runs, outcome, report, payload, submit, delete>>,
           new = "success" => next = "finish" /\ (row[j] = "pending" => j \in report),
           new = "failed" => next = "failed"
    PROVE  JobParts'
  <1>1. PICK e \in todo[w] :
           /\ e \in Entries /\ todo[w] = {e} /\ payload[e] = j
           /\ runs[e] = 1 /\ outcome[e] = "none"
           /\ \A f \in Entries : payload[f] = j => f = e
           /\ \A v \in Workers \ {w} : e \notin todo[v]
    BY OneJob
  <1>2. /\ row[j] = "pending" => row'[j] = new
        /\ row[j] = "deleted" => row'[j] = "deleted"
        /\ \A i \in Jobs \ {j} : row'[i] = row[i]
    BY DEF JobParts, JobTypeOK, UpdateRow, Exists
  <1>3. row'[j] # "none" /\ row'[j] # "pending" /\ row[j] # "none"
    BY <1>2 DEF Open
  <1>4. JobTypeOK'
    BY DEF JobParts, JobTypeOK, UpdateRow, GoTo
  <1>5. PushInv'
    BY <1>2, <1>3 DEF JobParts, PushInv
  <1>6. RowInv'
    <2>1. \A i \in Jobs : row'[i] # row[i] => i = j
      BY <1>2
    <2>2. QED
      BY <1>1, <1>3, <2>1 DEF JobParts, RowInv, Open
  <1>7. StepInv'
    <2>1. step'[w] = next /\ \A v \in Workers \ {w} : step'[v] = step[v]
      BY DEF JobParts, JobTypeOK, GoTo
    <2>2. ASSUME NEW v \in Workers \ {w}, NEW f \in todo[v], NEW i \in Jobs, payload[f] = i
          PROVE  row'[i] = row[i]
      <3>1. f \in Entries /\ f # e
        BY <1>1, <2>2 DEF QueueInv, TypeOK
      <3>2. QED
        BY <1>1, <1>2, <2>2, <3>1
    <2>3. /\ next = "finish" => row'[j] \in {"success", "deleted"}
          /\ next = "failed" => row'[j] # "success"
          /\ next \in {"finish", "failed"}
      BY <1>2 DEF Open
    <2>4. QED
      BY <1>1, <2>1, <2>2, <2>3 DEF JobParts, StepInv, Open
  <1>8. DeleteInv' /\ SuccessHasReport'
    BY <1>2 DEF JobParts, DeleteInv, SuccessHasReport, Open
  <1>9. QED
    BY <1>4, <1>5, <1>6, <1>7, <1>8 DEF JobParts

\* Every step of process() keeps the invariant.
LEMMA JobStepKeeps ==
    ASSUME QueueInv, JobParts, NEW w \in Workers, JobStep(w)
    PROVE  JobParts'
  <1> DEFINE Here == /\ UNCHANGED <<sent, pc, todo, runs, outcome, payload, submit, delete>>
                     /\ pc[w] = "process"
  <1>1. ASSUME BeginJob(w) PROVE JobParts'
    <2>1. Here /\ UNCHANGED <<row, report>> /\ step[w] = "begin"
      BY <1>1 DEF BeginJob, ProcessReportsRunning, vars, redisVars, workerVars, historyVars
    <2>2. PICK next \in {"compute", "failed"} : GoTo(w, next)
      BY <1>1 DEF BeginJob
    <2>3. \A e \in todo[w], j \in Jobs : payload[e] = j => Open(j)
      BY <2>1 DEF JobParts, StepInv
    <2>4. QED
      BY <2>1, <2>2, <2>3, PointMoves DEF JobParts, JobTypeOK, Steps, Open
  <1>2. ASSUME ComputeJob(w) PROVE JobParts'
    <2>1. Here /\ UNCHANGED <<row, report>> /\ step[w] = "compute"
      BY <1>2 DEF ComputeJob, vars, redisVars, workerVars, historyVars
    <2>2. PICK next \in {"save", "fail"} : GoTo(w, next)
      BY <1>2 DEF ComputeJob
    <2>3. \A e \in todo[w], j \in Jobs : payload[e] = j => Open(j)
      BY <2>1 DEF JobParts, StepInv
    <2>4. QED
      BY <2>1, <2>2, <2>3, PointMoves DEF JobParts, JobTypeOK, Steps
  <1>3. ASSUME SaveReport(w) PROVE JobParts'
    <2>1. Here /\ UNCHANGED row /\ step[w] = "save"
      BY <1>3 DEF SaveReport, vars, redisVars, workerVars, historyVars
    <2>2. \A e \in todo[w], j \in Jobs : payload[e] = j => Open(j)
      BY <2>1 DEF JobParts, StepInv
    <2>3. CASE GoTo(w, "fail") /\ UNCHANGED report
      BY <2>1, <2>2, <2>3, PointMoves DEF JobParts, JobTypeOK, Steps
    <2>4. CASE /\ \E j \in Jobs : IsJobOf(w, j) /\ report' = report \cup {j}
               /\ \E next \in {"commit", "fail"} : GoTo(w, next)
      <3>1. PICK j \in Jobs : IsJobOf(w, j) /\ report' = report \cup {j}
        BY <2>4
      <3>2. \A e \in todo[w] : payload[e] = j
        BY <2>1, <3>1, OneJob
      <3>3. CASE GoTo(w, "commit")
        BY <2>1, <2>2, <3>1, <3>2, <3>3, PointMoves DEF JobParts, JobTypeOK, Steps
      <3>4. CASE GoTo(w, "fail")
        BY <2>1, <2>2, <3>1, <3>2, <3>4, PointMoves DEF JobParts, JobTypeOK, Steps
      <3>5. QED
        BY <2>4, <3>3, <3>4
    <2>5. QED
      BY <1>3, <2>3, <2>4 DEF SaveReport
  <1>4. ASSUME CommitJob(w) PROVE JobParts'
    <2>1. Here /\ UNCHANGED report /\ step[w] = "commit"
      BY <1>4 DEF CommitJob, vars, redisVars, workerVars, historyVars
    <2>2. \A e \in todo[w], j \in Jobs : payload[e] = j =>
             Open(j) /\ (row[j] = "pending" => j \in report)
      BY <2>1 DEF JobParts, StepInv
    <2>3. CASE GoTo(w, "fail") /\ UNCHANGED row
      BY <2>1, <2>2, <2>3, PointMoves DEF JobParts, JobTypeOK, Steps
    <2>4. ASSUME NEW j \in Jobs, IsJobOf(w, j), UpdateRow(j, "success"), GoTo(w, "finish")
          PROVE  JobParts'
      <3>1. Open(j) /\ (row[j] = "pending" => j \in report)
        BY <2>2, <2>4 DEF IsJobOf
      <3>2. QED
        BY <2>1, <2>4, <3>1, RowMoves DEF Steps
    <2>5. QED
      BY <1>4, <2>3, <2>4 DEF CommitJob
  <1>5. ASSUME FailJob(w) PROVE JobParts'
    <2>1. Here /\ UNCHANGED report /\ step[w] = "fail" /\ GoTo(w, "failed")
      BY <1>5 DEF FailJob, vars, redisVars, workerVars, historyVars
    <2>2. \A e \in todo[w], j \in Jobs : payload[e] = j => Open(j)
      BY <2>1 DEF JobParts, StepInv
    <2>3. CASE UNCHANGED row
      BY <2>1, <2>2, <2>3, PointMoves DEF JobParts, JobTypeOK, Steps, Open
    <2>4. ASSUME NEW j \in Jobs, IsJobOf(w, j), UpdateRow(j, "failed")
          PROVE  JobParts'
      <3>1. Open(j)
        BY <2>2, <2>4 DEF IsJobOf
      <3>2. QED
        BY <2>1, <2>4, <3>1, RowMoves DEF Steps
    <2>5. QED
      BY <1>5, <2>3, <2>4 DEF FailJob
  <1>6. ASSUME LeaveJob(w) PROVE JobParts'
    <2>1. PICK result \in {"ok", "err"} :
             /\ step[w] = (IF result = "ok" THEN "finish" ELSE "failed")
             /\ ProcessReturns(w, result)
      BY <1>6 DEF LeaveJob
    <2>2. PICK e \in todo[w] : outcome' = [outcome EXCEPT ![e] = result]
      BY <2>1 DEF ProcessReturns
    <2>3. /\ UNCHANGED <<sent, todo, runs, row, report, payload, submit, delete>>
          /\ pc[w] = "process"
          /\ pc' = [pc EXCEPT ![w] = IF result = "ok" THEN "ackOk" ELSE "statusErr"]
          /\ step' = [step EXCEPT ![w] = "begin"]
      BY <1>6, <2>1 DEF LeaveJob, ProcessReturns, GoTo, redisVars
    <2>4. e \in Entries
      BY DEF QueueInv, TypeOK
    <2>5. \A j \in Jobs : payload[e] = j =>
             /\ result = "ok" => row[j] \in {"success", "deleted"}
             /\ result = "err" => row[j] # "success"
      BY <2>1, <2>3 DEF JobParts, StepInv
    <2>6. JobTypeOK' /\ PushInv' /\ DeleteInv' /\ SuccessHasReport'
      BY <2>3 DEF JobParts, JobTypeOK, Steps, PushInv, DeleteInv, SuccessHasReport
    <2>7. RowInv'
      <3>1. outcome'[e] = result /\ \A f \in Entries \ {e} : outcome'[f] = outcome[f]
        BY <2>2, <2>4 DEF QueueInv, TypeOK
      <3>2. QED
        BY <2>3, <2>5, <3>1 DEF JobParts, RowInv, Open
    <2>8. StepInv'
      <3>1. /\ pc'[w] # "process" /\ step'[w] = "begin"
            /\ \A v \in Workers \ {w} : pc'[v] = pc[v] /\ step'[v] = step[v]
        BY <2>3 DEF QueueInv, TypeOK, JobParts, JobTypeOK
      <3>2. QED
        BY <2>3, <3>1 DEF JobParts, StepInv, Open
    <2>9. QED
      BY <2>6, <2>7, <2>8 DEF JobParts
  <1>7. QED
    BY <1>1, <1>2, <1>3, <1>4, <1>5, <1>6 DEF JobStep

-----------------------------------------------------------------------------
(* Theorems *)

LEMMA JobInitInv == JobInit => JobInv
  <1> SUFFICES ASSUME JobInit PROVE JobInv
    OBVIOUS
  <1>1. QueueInv
    BY InitInv DEF JobInit
  <1>2. JobTypeOK
    BY TaskQueueAssumption DEF JobInit, Init, JobTypeOK, Steps, Entries
  <1>3. PushInv /\ RowInv /\ StepInv /\ DeleteInv /\ SuccessHasReport
    BY DEF JobInit, Init, PushInv, RowInv, StepInv, DeleteInv, SuccessHasReport
  <1>4. QED
    BY <1>1, <1>2, <1>3 DEF JobInv

LEMMA JobNextInv == JobInv /\ [JobNext]_allVars => JobInv'
  <1> SUFFICES ASSUME QueueInv, JobParts, [JobNext]_allVars
               PROVE  QueueInv' /\ JobParts'
    BY DEF JobInv, JobParts
  <1>1. [Next]_vars
    BY QueueInside DEF allVars
  <1>2. QueueInv'
    BY <1>1, NextInv
  <1>3. ASSUME NEW j \in Jobs, ApiStep(j) PROVE JobParts'
    BY <1>3, InsertJobKeeps, QueueJobKeeps, QueueingFailsKeeps, DeletionKeeps DEF ApiStep
  <1>4. CASE UNCHANGED allVars
    BY <1>2, <1>4 DEF allVars, jobVars, vars, redisVars, workerVars, historyVars, JobParts,
       JobTypeOK, PushInv, RowInv, StepInv, Open, DeleteInv, SuccessHasReport
  <1>5. CASE JobNext
    BY <1>2, <1>3, <1>5, QueueStepKeeps, KillWorkerKeeps, JobStepKeeps DEF JobNext
  <1>6. QED
    BY <1>2, <1>4, <1>5

\* The strengthened invariant of queue, rows, files and requests.
THEOREM JobInvariant == JobSpec => []JobInv
  BY JobInitInv, JobNextInv, PTL DEF JobSpec

\* A client that reads success from the row finds the report file.
THEOREM ReportsAreThere == JobSpec => []SuccessHasReport
  <1>1. JobInv => SuccessHasReport
    BY DEF JobInv
  <1>2. QED
    BY <1>1, JobInvariant, PTL

\* The status hash in Redis and the row in the database never contradict each
\* other.
THEOREM StatusAndRowAgree == JobSpec => []StatusMatchesRow
  <1>1. JobInv => StatusMatchesRow
    <2> SUFFICES ASSUME JobInv, NEW e \in Entries, payload[e] # NoJob
                 PROVE  /\ status[e] = "Success" => row[payload[e]] \in {"success", "deleted"}
                        /\ status[e] = "Failed" => row[payload[e]] # "success"
      BY DEF StatusMatchesRow
    <2>1. payload[e] \in Jobs
      BY DEF JobInv, JobTypeOK
    <2>2. /\ status[e] = "Success" => outcome[e] = "ok"
          /\ status[e] = "Failed" => outcome[e] = "err"
      BY DEF JobInv, QueueInv, StatusTellsOutcome
    <2>3. QED
      BY <2>1, <2>2 DEF JobInv, RowInv
  <1>2. QED
    BY <1>1, JobInvariant, PTL

\* The row of a finished job never changes again but to be deleted.
THEOREM RowsAreFinal == JobSpec => TerminalRowFinal
  <1> DEFINE Final == \A j \in Jobs : row[j] \in {"success", "failed", "deleted"} =>
                                      row'[j] \in {row[j], "deleted"}
  <1>1. JobInv /\ [JobNext]_allVars => [Final]_allVars
    <2> SUFFICES ASSUME QueueInv, JobParts, JobNext, NEW j \in Jobs,
                        row[j] \in {"success", "failed", "deleted"}
                 PROVE  row'[j] \in {row[j], "deleted"}
      BY DEF JobInv, JobParts
    <2>1. ASSUME NEW i \in Jobs, ApiStep(i) PROVE row'[j] \in {row[j], "deleted"}
      <3>1. row[j] # "none" /\ submit[j] # "idle"
        BY DEF JobParts, PushInv
      <3>2. QED
        BY <2>1, <3>1 DEF JobParts, JobTypeOK, ApiStep, InsertJob, QueueJob, QueueingFails,
           DeleteLooksUp, DeleteRemovesReport, DeleteRemovesRow, AdminDeletes, UpdateRow
    <2>2. ASSUME NEW w \in Workers, CommitJob(w) \/ FailJob(w)
          PROVE  row'[j] \in {row[j], "deleted"}
      <3>1. pc[w] = "process" /\ step[w] \in {"commit", "fail"}
        BY <2>2 DEF CommitJob, FailJob
      <3>2. \A i \in Jobs : IsJobOf(w, i) => Open(i)
        BY <3>1 DEF JobParts, StepInv, IsJobOf
      <3>3. QED
        BY <2>2, <3>2 DEF JobParts, JobTypeOK, CommitJob, FailJob, UpdateRow, Exists, Open
    <2>3. ASSUME NEW w \in Workers, JobStep(w) PROVE row'[j] \in {row[j], "deleted"}
      BY <2>2, <2>3 DEF JobStep, BeginJob, ComputeJob, SaveReport, LeaveJob
    <2>4. QED
      BY <2>1, <2>3 DEF JobNext, KillWorker, jobVars
  <1>2. QED
    BY <1>1, JobInvariant, PTL DEF JobSpec, TerminalRowFinal

-----------------------------------------------------------------------------
(* Refinement of JobLifecycle *)

\* The refinement mapping of the readable results.
Readable == {j \in Jobs : row[j] = "success" /\ j \in report}

LEMMA SameView ==
    ASSUME UNCHANGED row, \A j \in Jobs : row[j] = "success" => (j \in report <=> j \in report')
    PROVE  UNCHANGED Lifecycle!vars
  BY DEF Lifecycle!vars

LEMMA DeletionOfRow ==
    ASSUME JobParts, NEW j \in Jobs, UpdateRow(j, "deleted"), UNCHANGED report
    PROVE  Lifecycle!Delete(j) \/ UNCHANGED Lifecycle!vars
  <1>1. CASE Exists(j)
    <2>1. row' = [row EXCEPT ![j] = "deleted"] /\ row[j] \in {"pending", "success", "failed"}
      BY <1>1 DEF UpdateRow, Exists, JobParts, JobTypeOK
    <2>2. Readable' = Readable \ {j}
      BY <2>1 DEF JobParts, JobTypeOK, Readable
    <2>3. QED
      BY <2>1, <2>2 DEF Lifecycle!Delete, Readable
  <1>2. CASE ~Exists(j)
    BY <1>2, SameView DEF UpdateRow
  <1>3. QED
    BY <1>1, <1>2

\* Every step of the API, the queue and the workers is one that a client of
\* JobLifecycle may see.
LEMMA JobSimulation ==
    ASSUME QueueInv, JobParts, [JobNext]_allVars
    PROVE  Lifecycle!Next \/ UNCHANGED Lifecycle!vars
  <1> DEFINE Simulated == Lifecycle!Next \/ UNCHANGED Lifecycle!vars
  <1>1. ASSUME UNCHANGED <<row, report>> PROVE Simulated
    BY <1>1, SameView
  <1>2. ASSUME NEW j \in Jobs, InsertJob(j) PROVE Simulated
    <2>1. row[j] = "none" /\ row' = [row EXCEPT ![j] = "pending"] /\ report' = report
      BY <1>2 DEF InsertJob, JobParts, PushInv
    <2>2. Readable' = Readable
      BY <2>1 DEF JobParts, JobTypeOK, Readable
    <2>3. Lifecycle!Submit(j)
      BY <2>1, <2>2 DEF Lifecycle!Submit, Readable
    <2>4. QED
      BY <2>3 DEF Lifecycle!Next
  <1>3. ASSUME NEW j \in Jobs, DeleteRemovesReport(j) PROVE Simulated
    <2>1. UNCHANGED row /\ report' \in {report, report \ {j}}
      BY <1>3 DEF DeleteRemovesReport
    <2>2. CASE j \in Readable /\ report' = report \ {j}
      <3>1. Readable' = Readable \ {j}
        BY <2>1, <2>2 DEF Readable
      <3>2. Lifecycle!Withdraw(j)
        BY <2>1, <2>2, <3>1 DEF Lifecycle!Withdraw, Readable
      <3>3. QED
        BY <3>2 DEF Lifecycle!Next
    <2>3. CASE ~(j \in Readable /\ report' = report \ {j})
      BY <2>1, <2>3, SameView DEF Readable
    <2>4. QED
      BY <2>2, <2>3
  <1>4. ASSUME NEW j \in Jobs, DeleteRemovesRow(j) \/ AdminDeletes(j) PROVE Simulated
    <2>1. UNCHANGED report /\ (UpdateRow(j, "deleted") \/ UNCHANGED row)
      BY <1>4 DEF DeleteRemovesRow, AdminDeletes, UpdateRow
    <2>2. QED
      BY <1>1, <2>1, DeletionOfRow DEF Lifecycle!Next
  <1>5. ASSUME NEW w \in Workers, SaveReport(w) PROVE Simulated
    <2>1. UNCHANGED row /\ pc[w] = "process" /\ step[w] = "save"
      BY <1>5 DEF SaveReport
    <2>2. report' = report \/ \E j \in Jobs : IsJobOf(w, j) /\ report' = report \cup {j}
      BY <1>5 DEF SaveReport
    <2>3. \A j \in Jobs : IsJobOf(w, j) => row[j] # "success"
      BY <2>1 DEF JobParts, StepInv, IsJobOf, Open
    <2>4. QED
      BY <2>1, <2>2, <2>3, SameView
  <1>6. ASSUME NEW w \in Workers, NEW j \in Jobs, IsJobOf(w, j), pc[w] = "process",
               step[w] = "commit", UpdateRow(j, "success"), UNCHANGED report
        PROVE  Simulated
    <2>1. Open(j) /\ (row[j] = "pending" => j \in report)
      BY <1>6 DEF JobParts, StepInv, IsJobOf
    <2>2. CASE row[j] = "pending"
      <3>1. row' = [row EXCEPT ![j] = "success"] /\ j \in report
        BY <1>6, <2>1, <2>2 DEF UpdateRow, Exists
      <3>2. Readable' = Readable \cup {j}
        BY <1>6, <3>1 DEF JobParts, JobTypeOK, Readable
      <3>3. Lifecycle!Succeed(j)
        BY <2>2, <3>1, <3>2 DEF Lifecycle!Succeed, Readable
      <3>4. QED
        BY <3>3 DEF Lifecycle!Next
    <2>3. CASE row[j] = "deleted"
      BY <1>1, <1>6, <2>3 DEF UpdateRow, Exists
    <2>4. QED
      BY <2>1, <2>2, <2>3 DEF Open
  <1>7. ASSUME NEW w \in Workers, NEW j \in Jobs, IsJobOf(w, j), pc[w] = "process",
               step[w] = "fail", UpdateRow(j, "failed"), UNCHANGED report
        PROVE  Simulated
    <2>1. Open(j)
      BY <1>7 DEF JobParts, StepInv, IsJobOf
    <2>2. CASE row[j] = "pending"
      <3>1. row' = [row EXCEPT ![j] = "failed"]
        BY <1>7, <2>2 DEF UpdateRow, Exists
      <3>2. Readable' = Readable
        BY <1>7, <2>2, <3>1 DEF JobParts, JobTypeOK, Readable
      <3>3. Lifecycle!Fail(j)
        BY <2>2, <3>1, <3>2 DEF Lifecycle!Fail, Readable
      <3>4. QED
        BY <3>3 DEF Lifecycle!Next
    <2>3. CASE row[j] = "deleted"
      BY <1>1, <1>7, <2>3 DEF UpdateRow, Exists
    <2>4. QED
      BY <2>1, <2>2, <2>3 DEF Open
  <1>8. ASSUME NEW j \in Jobs, ApiStep(j) PROVE Simulated
    <2>1. CASE QueueJob(j) \/ QueueingFails(j) \/ DeleteLooksUp(j)
      BY <1>1, <2>1 DEF QueueJob, QueueingFails, DeleteLooksUp
    <2>2. QED
      BY <1>2, <1>3, <1>4, <1>8, <2>1 DEF ApiStep
  <1>9. ASSUME NEW w \in Workers, JobStep(w) PROVE Simulated
    <2>1. CASE BeginJob(w) \/ ComputeJob(w) \/ LeaveJob(w)
      BY <1>1, <2>1 DEF BeginJob, ComputeJob, LeaveJob
    <2>2. CASE CommitJob(w)
      BY <1>1, <1>6, <2>2 DEF CommitJob
    <2>3. CASE FailJob(w)
      BY <1>1, <1>7, <2>3 DEF FailJob
    <2>4. QED
      BY <1>5, <1>9, <2>1, <2>2, <2>3 DEF JobStep
  <1>10. CASE UNCHANGED <<row, report>>
    BY <1>1, <1>10
  <1>11. QED
    BY <1>8, <1>9, <1>10 DEF JobNext, KillWorker, jobVars, allVars

\* Rows, report files, tasks and workers together implement JobLifecycle.
THEOREM JobsImplementLifecycle == JobSpec => LifecycleSpec
  <1>1. JobInit => Lifecycle!Init
    <2> SUFFICES ASSUME JobInit PROVE Lifecycle!Init
      OBVIOUS
    <2>1. Readable = {}
      BY DEF JobInit, Readable
    <2>2. QED
      BY <2>1 DEF JobInit, Lifecycle!Init, Readable
  <1>2. JobInv /\ [JobNext]_allVars => [Lifecycle!Next]_(Lifecycle!vars)
    BY JobSimulation DEF JobInv, JobParts
  <1>3. QED
    BY <1>1, <1>2, JobInvariant, PTL DEF JobSpec, LifecycleSpec, Lifecycle!Spec
=============================================================================
