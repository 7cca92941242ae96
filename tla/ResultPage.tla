----------------------------- MODULE ResultPage -----------------------------
(***************************************************************************)
(* How a result page learns that its job has ended: process() publishes    *)
(* progress (backtest/worker.rs, backtest/scanner.rs, queue.rs), the API   *)
(* server forwards it over a WebSocket (websocket.rs), and the page also   *)
(* polls the job (client, BacktestResultPage.tsx).  One job, one page.     *)
(***************************************************************************)
EXTENDS Naturals, Sequences

CONSTANTS
    Gets,           \* GET requests of the page under way at once
    FirstGet,       \* the one that loadJob sends
    MaxRetries,     \* maxRetries of the page
    MaxRunning,     \* bound: progress messages of status "running"
    MaxFaults       \* bound: requests, publications and connections that fail

ASSUME PageAssumption ==
    /\ FirstGet \in Gets
    /\ MaxRetries \in Nat /\ MaxRunning \in Nat /\ MaxFaults \in Nat

VARIABLES
    \* the worker process
    job,        \* status of the row: "pending", "success" or "failed"
    run,        \* process(): "computing", "scanning", "saved" or "returned"
    scanner,    \* the Python process of a scan and the tasks that forward its
                \* progress: "none", "alive" or "done"
    published,  \* messages "running" so far
    \* the API server
    handler,    \* handle_ws_socket: "none", "accepted" or "subscribed"
    wire,       \* messages sent to the page and not received
    \* the page
    shown,      \* the status it shows; "none" while there is no job
    loaded,     \* resultLoadedRef
    result,     \* "none", "requested", "shown" or "lost"
    polling,    \* the interval of 500 ms exists
    get,        \* each GET: "none", "sent", or the status it brings back
    socket,     \* "connecting", "open", "waiting" or "closed"
    retries,    \* retryCount
    faults

workerVars == <<job, run, scanner, published>>
serverVars == <<handler, wire>>
pageVars == <<shown, loaded, result, polling, get, socket, retries>>
vars == <<workerVars, serverVars, pageVars, faults>>

Ends == {"success", "failed"}

PageTypeOK ==
    /\ job \in {"pending"} \cup Ends
    /\ run \in {"computing", "scanning", "saved", "returned"}
    /\ scanner \in {"none", "alive", "done"}
    /\ published \in 0..MaxRunning
    /\ handler \in {"none", "accepted", "subscribed"}
    /\ wire \in Seq({"running", "success"})
    /\ shown \in {"none", "pending", "running"} \cup Ends
    /\ loaded \in BOOLEAN
    /\ result \in {"none", "requested", "shown", "lost"}
    /\ polling \in BOOLEAN
    /\ get \in [Gets -> {"none", "sent", "pending"} \cup Ends]
    /\ socket \in {"connecting", "open", "waiting", "closed"}
    /\ retries \in 0..MaxRetries
    /\ faults \in 0..MaxFaults

\* The page is opened while the job runs: loadJob has sent its GET, the interval
\* is set, and connect() has been called.
Init ==
    /\ job = "pending"
    /\ run = "computing"
    /\ scanner = "none"
    /\ published = 0
    /\ handler = "none"
    /\ wire = <<>>
    /\ shown = "none"
    /\ loaded = FALSE
    /\ result = "none"
    /\ polling = TRUE
    /\ get = [g \in Gets |-> IF g = FirstGet THEN "sent" ELSE "none"]
    /\ socket = "connecting"
    /\ retries = 0
    /\ faults = 0

Fault == faults < MaxFaults /\ faults' = faults + 1

-----------------------------------------------------------------------------
(* The worker process *)

\* PUBLISH reaches those who have subscribed by now; its errors are ignored.
Publish(status) ==
    \/ /\ wire' = IF handler = "subscribed" THEN Append(wire, status) ELSE wire
       /\ UNCHANGED faults
    \/ Fault /\ UNCHANGED wire

PublishRunning ==
    /\ run \in {"computing", "scanning"}
    /\ published < MaxRunning
    /\ published' = published + 1
    /\ Publish("running")
    /\ UNCHANGED <<job, run, scanner, handler, pageVars>>

\* A job of scope "scan" starts a Python process.
StartScan ==
    /\ run = "computing"
    /\ scanner = "none"
    /\ run' = "scanning"
    /\ scanner' = "alive"
    /\ UNCHANGED <<job, published, serverVars, pageVars, faults>>

\* A line of the Python process's stderr goes through the channel to PUBLISH,
\* whether process() still waits for the scan or not.
ForwardScan ==
    /\ scanner = "alive"
    /\ published < MaxRunning
    /\ published' = published + 1
    /\ Publish("running")
    /\ UNCHANGED <<job, run, scanner, handler, pageVars>>

\* The Python process ends; process() goes on when it has waited for it and for
\* the forwarder.
ScanEnds ==
    /\ scanner = "alive"
    /\ scanner' = "done"
    /\ run' = IF run = "scanning" THEN "computing" ELSE run
    /\ UNCHANGED <<job, published, serverVars, pageVars, faults>>

\* Mutant: the completion is published before it is recorded.
PublishBeforeSaving ==
    /\ run = "computing"
    /\ run' = "saved"
    /\ Publish("success")
    /\ UNCHANGED <<job, scanner, published, handler, pageVars>>

\* The UPDATE that records success.
SaveSuccess ==
    /\ run = "computing"
    /\ run' = "saved"
    /\ job' = "success"
    /\ UNCHANGED <<scanner, published, serverVars, pageVars, faults>>

\* Mutant: the completion is not published.
ReturnQuietly ==
    /\ run = "saved"
    /\ run' = "returned"
    /\ UNCHANGED <<job, scanner, published, serverVars, pageVars, faults>>

PublishSuccess ==
    /\ run = "saved"
    /\ run' = "returned"
    /\ Publish("success")
    /\ UNCHANGED <<job, scanner, published, handler, pageVars>>

\* An error anywhere before, the scan's timeout included, which leaves the Python
\* process and the forwarder alone.  Nothing is published.  The UPDATE drops its own
\* error, and the row stays pending.
RecordFailure ==
    /\ run \in {"computing", "scanning"}
    /\ run' = "returned"
    /\ \/ job' = "failed" /\ UNCHANGED faults
       \/ Fault /\ UNCHANGED job
    /\ UNCHANGED <<scanner, published, serverVars, pageVars>>

WorkerStep == StartScan \/ ScanEnds \/ SaveSuccess \/ PublishSuccess \/ RecordFailure

-----------------------------------------------------------------------------
(* GET requests: loadJob and the fallback poll *)

\* A status comes in with a result to load, unless it has been loaded.
ShowSuccess(again) ==
    /\ loaded' = TRUE
    /\ result' = IF loaded /\ ~again THEN result ELSE "requested"

\* Mutant: the interval is cleared by whatever the first poll brings.
ReceiveAndStop(g) ==
    /\ get[g] \in {"pending"} \cup Ends
    /\ get' = [get EXCEPT ![g] = "none"]
    /\ shown' = get[g]
    /\ IF get[g] = "success" THEN ShowSuccess(g = FirstGet) ELSE UNCHANGED <<loaded, result>>
    /\ polling' = FALSE
    /\ UNCHANGED <<workerVars, serverVars, socket, retries, faults>>

PollTick(g) ==
    /\ polling
    /\ g # FirstGet
    /\ get[g] = "none"
    /\ get' = [get EXCEPT ![g] = "sent"]
    /\ UNCHANGED <<workerVars, serverVars, shown, loaded, result, polling,
                   socket, retries, faults>>

\* get_backtest reads the row.
AnswerGet(g) ==
    /\ get[g] = "sent"
    /\ get' = [get EXCEPT ![g] = job]
    /\ UNCHANGED <<workerVars, serverVars, shown, loaded, result, polling,
                   socket, retries, faults>>

GetFails(g) ==
    /\ get[g] # "none"
    /\ Fault
    /\ get' = [get EXCEPT ![g] = "none"]
    /\ UNCHANGED <<workerVars, serverVars, shown, loaded, result, polling,
                   socket, retries>>

\* Whatever comes back is shown, also when something newer is shown already.
\* loadJob loads the result of a finished job in any case; a poll does so once,
\* and clears the interval.
ReceiveGet(g) ==
    /\ get[g] \in {"pending"} \cup Ends
    /\ get' = [get EXCEPT ![g] = "none"]
    /\ shown' = get[g]
    /\ IF get[g] = "success" THEN ShowSuccess(g = FirstGet) ELSE UNCHANGED <<loaded, result>>
    /\ polling' = (polling /\ ~(g # FirstGet /\ get[g] \in Ends))
    /\ UNCHANGED <<workerVars, serverVars, socket, retries, faults>>

\* get_backtest_result; an error is not tried again.
LoadResult ==
    /\ result = "requested"
    /\ \/ result' = "shown" /\ UNCHANGED faults
       \/ result' = "lost" /\ Fault
    /\ UNCHANGED <<workerVars, serverVars, shown, loaded, polling, get, socket, retries>>

-----------------------------------------------------------------------------
(* The WebSocket *)

\* The upgrade, onopen, and the server's handler with its greeting.
OpenSocket ==
    /\ socket = "connecting"
    /\ socket' = "open"
    /\ retries' = 0
    /\ polling' = FALSE
    /\ handler' = "accepted"
    /\ UNCHANGED <<workerVars, wire, shown, loaded, result, get, faults>>

\* onclose: at most MaxRetries attempts since the last one that succeeded.
Closed ==
    /\ handler' = "none"
    /\ wire' = <<>>
    /\ IF retries < MaxRetries
       THEN socket' = "waiting" /\ retries' = retries + 1
       ELSE socket' = "closed" /\ UNCHANGED retries

\* There is no server, no token that the handshake could carry, or the
\* connection is lost; the handler's own errors close it, too.
CloseSocket ==
    /\ socket \in {"connecting", "open"}
    /\ Fault
    /\ Closed
    /\ UNCHANGED <<workerVars, shown, loaded, result, polling, get>>

Reconnect ==
    /\ socket = "waiting"
    /\ socket' = "connecting"
    /\ UNCHANGED <<workerVars, serverVars, shown, loaded, result, polling, get,
                   retries, faults>>

\* subscribe_progress; nothing published before is sent.
Subscribe ==
    /\ handler = "accepted"
    /\ handler' = "subscribed"
    /\ UNCHANGED <<workerVars, wire, pageVars, faults>>

\* onmessage; a page without a job shows no status, but loads the result.
ReceiveMessage ==
    /\ wire # <<>>
    /\ wire' = Tail(wire)
    /\ shown' = IF shown = "none" THEN shown ELSE Head(wire)
    /\ IF Head(wire) = "success" THEN ShowSuccess(FALSE) ELSE UNCHANGED <<loaded, result>>
    /\ UNCHANGED <<workerVars, handler, polling, get, socket, retries, faults>>

-----------------------------------------------------------------------------
Next ==
    \/ PublishRunning
    \/ StartScan
    \/ ForwardScan
    \/ ScanEnds
    \/ SaveSuccess
    \/ PublishSuccess
    \/ RecordFailure
    \/ \E g \in Gets : PollTick(g) \/ AnswerGet(g) \/ GetFails(g) \/ ReceiveGet(g)
    \/ LoadResult
    \/ OpenSocket
    \/ CloseSocket
    \/ Reconnect
    \/ Subscribe
    \/ ReceiveMessage

Spec == Init /\ [][Next]_vars

\* process() returns, requests are answered, messages arrive, the interval and
\* the timer of the next attempt fire.
Fairness ==
    /\ WF_vars(WorkerStep)
    /\ \A g \in Gets :
          WF_vars(PollTick(g)) /\ WF_vars(AnswerGet(g)) /\ WF_vars(ReceiveGet(g))
    /\ WF_vars(LoadResult)
    /\ WF_vars(OpenSocket)
    /\ WF_vars(Reconnect)
    /\ WF_vars(Subscribe)
    /\ WF_vars(ReceiveMessage)

FairSpec == Spec /\ Fairness

-----------------------------------------------------------------------------
(* Safety *)

\* Neither what the page shows nor what is on its way to it is ahead of the row,
\* so the result is never asked for before get_backtest_result would give it.
NeverAhead ==
    /\ PageTypeOK
    /\ \A i \in 1..Len(wire) : wire[i] = "success" => job = "success"
    /\ \A g \in Gets : get[g] \in Ends => get[g] = job
    /\ shown \in Ends => shown = job
    /\ loaded \/ result # "none" => job = "success"

-----------------------------------------------------------------------------
(* Liveness *)

\* A page that polls comes to show the end of its job, or stops polling because
\* a socket was opened.
PollingShowsEnd == (polling /\ job \in Ends) ~> (shown = job \/ handler # "none")

\* A page whose socket has subscribed while the job was computed gets the result
\* of a job that succeeds, as long as nothing fails.
SocketBringsResult ==
    (handler = "subscribed" /\ run = "computing")
        ~> (job = "failed" \/ result \in {"requested", "shown", "lost"} \/ faults > 0)

\* BacktestResultPage.tsx:92: "Fallback polling if WebSocket not available", and
\* 213: "Max retries reached, falling back to polling".  So a page that stays
\* open comes to show the end of its job, and goes on to show it.
EndIsShown == (job \in Ends) ~> [](shown = job)
=============================================================================
