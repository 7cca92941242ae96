--------------------------- MODULE BacktestJobs ---------------------------
(***************************************************************************)
(* A backtest job from POST /backtest to its deletion: the row of          *)
(* backtest_jobs, the report file, and the task in the queue, written by   *)
(* the API's handlers (api/backtest.rs, api/admin.rs) and by the worker's  *)
(* process() (backtest/worker.rs), with no transaction around them.        *)
(*                                                                         *)
(* The queue is TaskQueue, step by step: an action here is an action of    *)
(* TaskQueue with the job's part conjoined, or leaves the queue alone.     *)
(* The database and the file system may fail at every call.                *)
(***************************************************************************)
EXTENDS TaskQueue

CONSTANT Jobs

VARIABLES
    row,        \* backtest_jobs.status; result_report_path is set iff "success"
    report,     \* the jobs whose report file exists
    payload,    \* the job that an entry of the stream is about
    submit,     \* where submit_backtest is
    delete,     \* where delete_backtest is
    step        \* where process() is, for every worker

jobVars == <<row, report, payload, submit, delete, step>>
allVars == <<vars, jobVars>>

NoJob == "no job"
ASSUME JobsAssumption == NoJob \notin Jobs

Steps == {"begin", "compute", "save", "commit", "finish", "fail", "failed"}

JobTypeOK ==
    /\ row \in [Jobs -> {"none", "pending", "success", "failed", "deleted"}]
    /\ report \in SUBSET Jobs
    /\ payload \in [Entries -> Jobs \cup {NoJob}]
    /\ submit \in [Jobs -> {"idle", "inserted", "queued", "unqueued"}]
    /\ delete \in [Jobs -> {"idle", "remove", "delete", "failed", "done"}]
    /\ step \in [Workers -> Steps]
    /\ \A e \in Entries : payload[e] = NoJob <=> e > sent

JobInit ==
    /\ Init
    /\ row = [j \in Jobs |-> "none"]
    /\ report = {}
    /\ payload = [e \in Entries |-> NoJob]
    /\ submit = [j \in Jobs |-> "idle"]
    /\ delete = [j \in Jobs |-> "idle"]
    /\ step = [w \in Workers |-> "begin"]

Exists(j) == row[j] \notin {"none", "deleted"}

\* Mutant: an UPSERT, which brings a deleted row back.
UpsertRow(j, new) == row' = [row EXCEPT ![j] = new]

\* UPDATE backtest_jobs .. WHERE id = $j: no effect on a row that is gone, and
\* no look at the status it had.
UpdateRow(j, new) == row' = IF Exists(j) THEN [row EXCEPT ![j] = new] ELSE row

-----------------------------------------------------------------------------
(* submit_backtest *)

\* INSERT with status pending; when it fails the request is refused.
InsertJob(j) ==
    /\ submit[j] = "idle"
    /\ row' = [row EXCEPT ![j] = "pending"]
    /\ submit' = [submit EXCEPT ![j] = "inserted"]
    /\ UNCHANGED <<vars, report, payload, delete, step>>

\* Mutant: a lost reply makes the handler push again.
QueueAgain(j) ==
    /\ submit[j] = "inserted"
    /\ PushTask
    /\ payload' = [payload EXCEPT ![sent + 1] = j]
    /\ \E seen \in {"queued", "inserted"} : submit' = [submit EXCEPT ![j] = seen]
    /\ UNCHANGED <<row, report, delete, step>>

\* push_task; that a lost reply is logged as a failure makes no difference.
QueueJob(j) ==
    /\ submit[j] = "inserted"
    /\ PushTask
    /\ payload' = [payload EXCEPT ![sent + 1] = j]
    /\ submit' = [submit EXCEPT ![j] = "queued"]
    /\ UNCHANGED <<row, report, delete, step>>

\* push_task fails, which is logged, or the API process is killed here: the
\* row stays.
QueueingFails(j) ==
    /\ submit[j] = "inserted"
    /\ submit' = [submit EXCEPT ![j] = "unqueued"]
    /\ UNCHANGED <<vars, row, report, payload, delete, step>>

-----------------------------------------------------------------------------
(* delete_backtest *)

\* SELECT: the handler remembers whether there was a result_report_path.
DeleteLooksUp(j) ==
    /\ delete[j] \in {"idle", "failed"}
    /\ Exists(j)
    /\ delete' = [delete EXCEPT ![j] = IF row[j] = "success" THEN "remove" ELSE "delete"]
    /\ UNCHANGED <<vars, row, report, payload, submit, step>>

\* remove_file; a failure is logged only.
DeleteRemovesReport(j) ==
    /\ delete[j] = "remove"
    /\ report' \in {report, report \ {j}}
    /\ delete' = [delete EXCEPT ![j] = "delete"]
    /\ UNCHANGED <<vars, row, payload, submit, step>>

\* DELETE: when it fails, the error goes to the client, who may try again.  One that
\* finds no row any more is answered with 404; it is "done" here as well, for the job
\* is gone either way.
DeleteRemovesRow(j) ==
    /\ delete[j] = "delete"
    /\ \/ /\ UpdateRow(j, "deleted")
          /\ delete' = [delete EXCEPT ![j] = "done"]
       \/ /\ delete' = [delete EXCEPT ![j] = "failed"]
          /\ UNCHANGED row
    /\ UNCHANGED <<vars, report, payload, submit, step>>

\* delete_backtest_job of the admin API: the row only.
AdminDeletes(j) ==
    /\ Exists(j)
    /\ row' = [row EXCEPT ![j] = "deleted"]
    /\ UNCHANGED <<vars, report, payload, submit, delete, step>>

-----------------------------------------------------------------------------
(* process() at worker w *)

\* The job of the task that w has in hand.
IsJobOf(w, j) == \E e \in todo[w] : IsNext(w, e) /\ payload[e] = j

GoTo(w, next) == step' = [step EXCEPT ![w] = next]

\* Status Running; `?` returns from process() when it cannot be written,
\* before the closure whose errors are recorded in the row.
BeginJob(w) ==
    /\ pc[w] = "process"
    /\ step[w] = "begin"
    /\ \/ ProcessReportsRunning(w) /\ GoTo(w, "compute")
       \/ GoTo(w, "failed") /\ UNCHANGED vars
    /\ UNCHANGED <<row, report, payload, submit, delete>>

\* Mutant: the report is not saved.
ComputeWithoutReport(w) ==
    /\ pc[w] = "process"
    /\ step[w] = "compute"
    /\ \E next \in {"commit", "fail"} : GoTo(w, next)
    /\ UNCHANGED <<vars, row, report, payload, submit, delete>>

\* The input is checked, bars are loaded, and the strategy runs: in the engine,
\* the sandbox or the scanner.  All of them may return an error.
ComputeJob(w) ==
    /\ pc[w] = "process"
    /\ step[w] = "compute"
    /\ \E next \in {"save", "fail"} : GoTo(w, next)
    /\ UNCHANGED <<vars, row, report, payload, submit, delete>>

\* save_report or save_json_report, which may fail before or after the file has
\* come into being; the parts appended afterwards (trades, equity curve, K
\* lines) rewrite it and are best effort, and what they may spoil is left out.
SaveReport(w) ==
    /\ pc[w] = "process"
    /\ step[w] = "save"
    /\ \/ /\ \E j \in Jobs : IsJobOf(w, j) /\ report' = report \cup {j}
          /\ \E next \in {"commit", "fail"} : GoTo(w, next)
       \/ GoTo(w, "fail") /\ UNCHANGED report
    /\ UNCHANGED <<vars, row, payload, submit, delete>>

\* Mutant: the error of the UPDATE is dropped.
CommitUnchecked(w) ==
    /\ pc[w] = "process"
    /\ step[w] = "commit"
    /\ \/ \E j \in Jobs : IsJobOf(w, j) /\ UpdateRow(j, "success")
       \/ UNCHANGED row
    /\ GoTo(w, "finish")
    /\ UNCHANGED <<vars, report, payload, submit, delete>>

\* UPDATE: status success, the summary and the path of the report.  One that fails is
\* taken to have had no effect.
CommitJob(w) ==
    /\ pc[w] = "process"
    /\ step[w] = "commit"
    /\ \/ /\ \E j \in Jobs : IsJobOf(w, j) /\ UpdateRow(j, "success")
          /\ GoTo(w, "finish")
       \/ GoTo(w, "fail") /\ UNCHANGED row
    /\ UNCHANGED <<vars, report, payload, submit, delete>>

\* The closure returned an error: UPDATE with status failed, whose own error
\* is dropped.
FailJob(w) ==
    /\ pc[w] = "process"
    /\ step[w] = "fail"
    /\ \/ \E j \in Jobs : IsJobOf(w, j) /\ UpdateRow(j, "failed")
       \/ UNCHANGED row
    /\ GoTo(w, "failed")
    /\ UNCHANGED <<vars, report, payload, submit, delete>>

\* Mutant: an error is recorded and process() does not return.
LeaveAfterSuccess(w) ==
    /\ step[w] = "finish"
    /\ ProcessReturns(w, "ok")
    /\ GoTo(w, "begin")
    /\ UNCHANGED <<row, report, payload, submit, delete>>

\* process() returns; after success the result cache and the last progress
\* message were written, with errors dropped.
LeaveJob(w) ==
    /\ \/ step[w] = "finish" /\ ProcessReturns(w, "ok")
       \/ step[w] = "failed" /\ ProcessReturns(w, "err")
    /\ GoTo(w, "begin")
    /\ UNCHANGED <<row, report, payload, submit, delete>>

JobStep(w) ==
    \/ BeginJob(w)
    \/ ComputeJob(w)
    \/ SaveReport(w)
    \/ CommitJob(w)
    \/ FailJob(w)
    \/ LeaveJob(w)

-----------------------------------------------------------------------------
\* A kill forgets where process() was; row and report stay as they are.
KillWorker(w) ==
    /\ Crash(w)
    /\ GoTo(w, "begin")
    /\ UNCHANGED <<row, report, payload, submit, delete>>

ApiStep(j) ==
    \/ InsertJob(j)
    \/ QueueJob(j)
    \/ QueueingFails(j)
    \/ DeleteLooksUp(j)
    \/ DeleteRemovesReport(j)
    \/ DeleteRemovesRow(j)
    \/ AdminDeletes(j)

JobNext ==
    \/ \E j \in Jobs : ApiStep(j)
    \/ RedisStep /\ UNCHANGED jobVars
    \/ \E w \in Workers :
          \/ QueueStep(w) /\ UNCHANGED jobVars
          \/ KillWorker(w)
          \/ JobStep(w)

JobSpec == JobInit /\ [][JobNext]_allVars

\* The queue's fairness, with process() spelled out: strategies terminate.
JobFairness ==
    /\ WF_allVars(RedisStep /\ UNCHANGED jobVars)
    /\ \A w \in Workers :
          /\ WF_allVars((WorkerStep(w) /\ UNCHANGED jobVars) \/ JobStep(w))
          /\ SF_allVars(SendRead(w) /\ UNCHANGED jobVars)
          /\ SF_allVars(ReclaimTick(w) /\ UNCHANGED jobVars)
          /\ WF_allVars(Restart(w) /\ UNCHANGED jobVars)

FairJobSpec == JobSpec /\ JobFairness

-----------------------------------------------------------------------------
(* Safety *)

\* A finished job is never run again to another end: its row keeps its terminal
\* status until it is deleted, and a deleted row does not come back.
TerminalRowFinal ==
    [][\A j \in Jobs : row[j] \in {"success", "failed", "deleted"} =>
                           row'[j] \in {row[j], "deleted"}]_allVars

\* Whoever reads success from the row finds the report file, as long as nobody
\* has tried to delete the job: the file is written before the row.
SuccessHasReport ==
    \A j \in Jobs : row[j] = "success" /\ delete[j] = "idle" => j \in report

\* The two places a client can ask never contradict each other: Redis says
\* Success only of a job whose row says so, and Failed of none whose row says
\* success.
StatusMatchesRow ==
    \A e \in Entries : payload[e] # NoJob =>
       /\ status[e] = "Success" => row[payload[e]] \in {"success", "deleted"}
       /\ status[e] = "Failed" => row[payload[e]] # "success"

\* backtest/worker.rs:224: errors are caught "and on failure the DB status is
\* updated so that the job does not stay pending".
FailedRunRecorded ==
    \A e \in Entries : outcome[e] = "err" => row[payload[e]] # "pending"

\* api/backtest.rs:499 and 510: the record is looked up for the path of its
\* report "so that it can be deleted", "if it exists".  So no report survives
\* a deletion that was answered with success.
DeletedJobLeavesNoReport ==
    \A j \in Jobs : delete[j] = "done" => j \notin report

-----------------------------------------------------------------------------
(* The inductive invariant behind the safety properties *)

\* A job is pushed once, by its own request, and has a row from then on.
PushInv ==
    /\ \A e, f \in Entries : payload[e] = payload[f] /\ payload[e] # NoJob => e = f
    /\ \A e \in Entries, j \in Jobs : payload[e] = j => submit[j] = "queued"
    /\ \A j \in Jobs : row[j] = "none" <=> submit[j] = "idle"

Open(j) == row[j] \in {"pending", "deleted"}

\* The row of a job follows its one run.
RowInv ==
    /\ \A j \in Jobs :
          (\A e \in Entries : payload[e] # j) => row[j] \in {"none", "pending", "deleted"}
    /\ \A e \in Entries, j \in Jobs : payload[e] = j =>
          /\ runs[e] = 0 => Open(j)
          /\ outcome[e] = "ok" => row[j] \in {"success", "deleted"}
          /\ outcome[e] = "err" => row[j] # "success"

\* What the program point of process() says about the job it is working on.
StepInv ==
    \A w \in Workers :
       /\ step[w] # "begin" => pc[w] = "process"
       /\ pc[w] = "process" => \A e \in todo[w], j \in Jobs : payload[e] = j =>
             /\ step[w] \notin {"finish", "failed"} => Open(j)
             /\ step[w] = "commit" /\ row[j] = "pending" => j \in report
             /\ step[w] = "finish" => row[j] \in {"success", "deleted"}
             /\ step[w] = "failed" => row[j] # "success"

\* delete_backtest removes only the report of a job that has succeeded.
DeleteInv == \A j \in Jobs : delete[j] = "remove" => row[j] \in {"success", "deleted"}

JobInv ==
    /\ QueueInv
    /\ JobTypeOK
    /\ PushInv
    /\ RowInv
    /\ StepInv
    /\ DeleteInv
    /\ SuccessHasReport

-----------------------------------------------------------------------------
(* Refinement *)

Lifecycle == INSTANCE JobLifecycle
    WITH state <- row, readable <- {j \in Jobs : row[j] = "success" /\ j \in report}

\* Rows, files and tasks together give a client the lifecycle of JobLifecycle.
LifecycleSpec == Lifecycle!Spec

-----------------------------------------------------------------------------
(* Liveness *)

\* With a real process() in it, the queue still is TaskQueue, also in what it
\* assumes to go on: every call of process() returns or its worker dies.
QueueSpec == FairSpec
=============================================================================
