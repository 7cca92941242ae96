----------------------------- MODULE ChartCache -----------------------------
(***************************************************************************)
(* The charts of one backtest job (api/backtest.rs): get_backtest_chart    *)
(* looks into a cache before it asks for the row, then reads the report    *)
(* file and fills the cache, in steps between which the job may end or be  *)
(* deleted and the API server may restart.                                 *)
(***************************************************************************)
EXTENDS Naturals

CONSTANTS
    Readers,        \* get_backtest_chart requests under way at once
    Aggs,           \* values of the parameter agg
    Fresh           \* how long a cached chart is served; "300 seconds"

ASSUME ChartAssumption == Fresh \in Nat \ {0}

VARIABLES
    running,        \* process() has not written its last UPDATE
    jobRow,         \* "pending", "success", "failed" or "gone"
    report,         \* the report file exists
    deletion,       \* the next step of a delete_backtest: "row" to look up,
                    \* "file" or "delete"; "idle" without one
    named,          \* the row that it looked up names a report
    reader,         \* the next step of each request: "row", "file" or "cache"
    agg,            \* what each request asks for; "none" at first
    age             \* of the chart cached for each agg; Fresh if that is older,
                    \* or if there is none

deletionVars == <<deletion, named>>
requestVars == <<reader, agg>>
chartVars == <<running, jobRow, report, deletionVars, requestVars, age>>

NoAgg == "none"

ChartInit ==
    /\ running = TRUE
    /\ jobRow = "pending"
    /\ report = FALSE
    /\ deletion = "idle"
    /\ named = FALSE
    /\ reader = [r \in Readers |-> "idle"]
    /\ agg = [r \in Readers |-> NoAgg]
    /\ age = [a \in Aggs |-> Fresh]

-----------------------------------------------------------------------------
(* The worker *)

\* Whether the row is still there or not.
WriteReport ==
    /\ running
    /\ report' = TRUE
    /\ UNCHANGED <<running, jobRow, deletionVars, requestVars, age>>

\* The UPDATE at the end of process(); an error may come after the report, too.
EndRow ==
    /\ running
    /\ running' = FALSE
    /\ IF jobRow = "gone"
       THEN UNCHANGED jobRow
       ELSE jobRow' \in {"failed"} \cup (IF report THEN {"success"} ELSE {})
    /\ UNCHANGED <<report, deletionVars, requestVars, age>>

-----------------------------------------------------------------------------
(* get_backtest_chart *)

GoOn(r, step) == reader' = [reader EXCEPT ![r] = step]

\* Mutant: a chart that is served is as good as new.
MissCacheOrTouch(r, a) ==
    /\ reader[r] = "idle"
    /\ \/ age[a] = Fresh /\ GoOn(r, "row") /\ agg' = [agg EXCEPT ![r] = a] /\ UNCHANGED age
       \/ age[a] < Fresh /\ age' = [age EXCEPT ![a] = 0] /\ UNCHANGED requestVars
    /\ UNCHANGED <<running, jobRow, report, deletionVars>>

\* The cache has no chart that is fresh enough; to serve one changes nothing.
MissCache(r, a) ==
    /\ reader[r] = "idle"
    /\ age[a] = Fresh
    /\ GoOn(r, "row")
    /\ agg' = [agg EXCEPT ![r] = a]
    /\ UNCHANGED <<running, jobRow, report, deletionVars, age>>

\* Mutant: the status of the row is not looked at.
ReadAnyRow(r) ==
    /\ reader[r] = "row"
    /\ GoOn(r, IF jobRow # "gone" THEN "file" ELSE "idle")
    /\ UNCHANGED <<running, jobRow, report, deletionVars, agg, age>>

\* No row, or one that is not "success", is an error.
ReadRow(r) ==
    /\ reader[r] = "row"
    /\ GoOn(r, IF jobRow = "success" THEN "file" ELSE "idle")
    /\ UNCHANGED <<running, jobRow, report, deletionVars, agg, age>>

\* Without a report that can be read there are no points, and the answer is not
\* cached.
ReadReport(r) ==
    /\ reader[r] = "file"
    /\ \/ report /\ GoOn(r, "cache")
       \/ GoOn(r, "idle")
    /\ UNCHANGED <<running, jobRow, report, deletionVars, agg, age>>

FillCache(r) ==
    /\ reader[r] = "cache"
    /\ GoOn(r, "idle")
    /\ age' = [age EXCEPT ![agg[r]] = 0]
    /\ UNCHANGED <<running, jobRow, report, deletionVars, agg>>

GrowOld ==
    /\ age' = [a \in Aggs |-> IF age[a] < Fresh THEN age[a] + 1 ELSE Fresh]
    /\ UNCHANGED <<running, jobRow, report, deletionVars, requestVars>>

-----------------------------------------------------------------------------
(* delete_backtest, its administrator's version, and a restart *)

LookUpRow ==
    /\ deletion = "idle"
    /\ jobRow # "gone"
    /\ deletion' = "file"
    /\ named' = (jobRow = "success")
    /\ UNCHANGED <<running, jobRow, report, requestVars, age>>

\* An error of remove_file is logged, and the row is deleted all the same.
RemoveReport ==
    /\ deletion = "file"
    /\ deletion' = "row"
    /\ report' \in {report, report /\ ~named}
    /\ UNCHANGED <<running, jobRow, named, requestVars, age>>

DeleteJobRow ==
    /\ deletion = "row"
    /\ deletion' = "idle"
    /\ jobRow' \in {"gone", jobRow}
    /\ UNCHANGED <<running, report, named, requestVars, age>>

\* delete_backtest_job leaves the report.
DeleteRowOnly ==
    /\ jobRow' = "gone"
    /\ UNCHANGED <<running, report, deletionVars, requestVars, age>>

\* The cache and the requests are in the memory of the API server.
RestartServer ==
    /\ deletion' = "idle"
    /\ named' = FALSE
    /\ reader' = [r \in Readers |-> "idle"]
    /\ age' = [a \in Aggs |-> Fresh]
    /\ UNCHANGED <<running, jobRow, report, agg>>

ChartNext ==
    \/ WriteReport
    \/ EndRow
    \/ \E r \in Readers, a \in Aggs : MissCache(r, a)
    \/ \E r \in Readers : ReadRow(r) \/ ReadReport(r) \/ FillCache(r)
    \/ GrowOld
    \/ LookUpRow
    \/ RemoveReport
    \/ DeleteJobRow
    \/ DeleteRowOnly
    \/ RestartServer

ChartSpec == ChartInit /\ [][ChartNext]_chartVars

-----------------------------------------------------------------------------
ChartTypeOK ==
    /\ running \in BOOLEAN
    /\ jobRow \in {"pending", "success", "failed", "gone"}
    /\ report \in BOOLEAN
    /\ deletion \in {"idle", "file", "row"} /\ named \in BOOLEAN
    /\ reader \in [Readers -> {"idle", "row", "file", "cache"}]
    /\ agg \in [Readers -> Aggs \cup {NoAgg}]
    /\ \A r \in Readers : reader[r] # "idle" => agg[r] \in Aggs
    /\ age \in [Aggs -> 0..Fresh]

\* No chart is cached, or read to be cached, of a job that did not succeed,
\* although its report may be on the disk long before that or in spite of it
\* (api/backtest.rs:289-321 against worker.rs:459-614).
ChartsOfFinishedJobs ==
    /\ ChartTypeOK
    /\ running => jobRow \in {"pending", "gone"}
    /\ \A r \in Readers : reader[r] \in {"file", "cache"} => jobRow \in {"success", "gone"}
    /\ \A a \in Aggs : age[a] < Fresh => jobRow \in {"success", "gone"}

\* The chart of a deleted job goes away: when the last request that found the row
\* has ended, the cached charts only grow old, whoever asks for them (the cache is
\* asked before the row, api/backtest.rs:298-318).
DeletedChartsFade ==
    [][(jobRow = "gone" /\ \A r \in Readers : reader[r] \notin {"file", "cache"})
          => /\ \A r \in Readers : reader'[r] \notin {"file", "cache"}
             /\ \A a \in Aggs : age'[a] >= age[a]]_chartVars
=============================================================================
