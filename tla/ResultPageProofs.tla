-------------------------- MODULE ResultPageProofs --------------------------
(***************************************************************************)
(* Proofs about ResultPage: a page is never ahead of the row of its job,   *)
(* whatever is lost and however many requests are under way.               *)
(***************************************************************************)
EXTENDS ResultPage, TLAPS

\* Where process() is tells the status of the row: it publishes "success" only
\* after it has recorded it, and no step after that changes the row.
RunInv ==
    /\ run \in {"computing", "scanning"} => job = "pending"
    /\ run = "saved" => job = "success"

PageInv == NeverAhead /\ RunInv

LEMMA Initially ==
    ASSUME Init
    PROVE  PageInv
<1>1. PageTypeOK
    <2>1. /\ published \in 0..MaxRunning /\ retries \in 0..MaxRetries /\ faults \in 0..MaxFaults
          /\ wire \in Seq({"running", "success"})
        BY PageAssumption DEF PageAssumption, Init
    <2>2. loaded \in BOOLEAN /\ polling \in BOOLEAN
        BY DEF Init
    <2>3. get \in [Gets -> {"none", "sent", "pending"} \cup Ends]
        BY DEF Init
    <2> QED BY <2>1, <2>2, <2>3 DEF Init, PageTypeOK
<1>2. /\ wire = <<>> /\ shown = "none" /\ ~loaded /\ result = "none"
      /\ \A g \in Gets : get[g] \in {"sent", "none"}
    BY DEF Init
<1>3. RunInv
    BY DEF Init, RunInv
<1> QED BY <1>1, <1>2, <1>3 DEF PageInv, NeverAhead, Ends

\* A publication adds at most one message to the wire.
LEMMA PublishStep ==
    ASSUME PageTypeOK, NEW status \in {"running", "success"}, Publish(status)
    PROVE  /\ faults' \in 0..MaxFaults
           /\ wire' \in Seq({"running", "success"})
           /\ \A i \in 1..Len(wire') :
                 \/ i \in 1..Len(wire) /\ wire'[i] = wire[i]
                 \/ wire'[i] = status
<1>1. wire \in Seq({"running", "success"}) /\ faults \in 0..MaxFaults
    BY DEF PageTypeOK
<1>2. faults' \in 0..MaxFaults
    BY <1>1, PageAssumption DEF Publish, Fault, PageAssumption
<1>3. wire' = wire \/ wire' = Append(wire, status)
    BY DEF Publish
<1>4. CASE wire' = wire
    BY <1>1, <1>2, <1>4
<1>5. CASE wire' = Append(wire, status)
    BY <1>1, <1>2, <1>5
<1> QED BY <1>3, <1>4, <1>5

LEMMA WorkerKeepsInv ==
    ASSUME PageInv,
           \/ PublishRunning \/ StartScan \/ ForwardScan \/ ScanEnds
           \/ SaveSuccess \/ PublishSuccess \/ RecordFailure
    PROVE  PageInv'
<1> USE PageAssumption DEF PageAssumption, PageInv
<1>0. PageTypeOK
    BY DEF NeverAhead
<1>1. CASE PublishRunning \/ ForwardScan
    <2>1. /\ UNCHANGED <<job, run, scanner, handler, pageVars>>
          /\ published < MaxRunning /\ published' = published + 1 /\ Publish("running")
        BY <1>1 DEF PublishRunning, ForwardScan
    <2>2. PageTypeOK'
        BY <1>0, <2>1, PublishStep DEF PageTypeOK, pageVars
    <2>3. \A i \in 1..Len(wire') : wire'[i] = "success" => job' = "success"
        BY <1>0, <2>1, PublishStep DEF NeverAhead
    <2> QED BY <2>1, <2>2, <2>3 DEF NeverAhead, RunInv, pageVars
<1>2. CASE StartScan \/ ScanEnds
    <2>1. /\ UNCHANGED <<job, published, serverVars, pageVars, faults>>
          /\ scanner' \in {"alive", "done"}
          /\ \/ run' \in {"computing", "scanning"} /\ run \in {"computing", "scanning"}
             \/ run' = run
        BY <1>2 DEF StartScan, ScanEnds
    <2>2. PageTypeOK'
        BY <1>0, <2>1 DEF PageTypeOK, pageVars, serverVars
    <2> QED BY <2>1, <2>2 DEF NeverAhead, RunInv, pageVars, serverVars
<1>3. CASE SaveSuccess
    <2>1. /\ UNCHANGED <<scanner, published, serverVars, pageVars, faults>>
          /\ run = "computing" /\ run' = "saved" /\ job' = "success" /\ job = "pending"
        BY <1>3 DEF SaveSuccess, RunInv
    <2>2. PageTypeOK'
        BY <1>0, <2>1 DEF PageTypeOK, pageVars, serverVars, Ends
    <2> QED BY <2>1, <2>2 DEF NeverAhead, RunInv, pageVars, serverVars, Ends
<1>4. CASE PublishSuccess
    <2>1. /\ UNCHANGED <<job, scanner, published, handler, pageVars>>
          /\ run' = "returned" /\ job = "success" /\ Publish("success")
        BY <1>4 DEF PublishSuccess, RunInv
    <2>2. PageTypeOK'
        BY <1>0, <2>1, PublishStep DEF PageTypeOK, pageVars
    <2> QED BY <2>1, <2>2 DEF NeverAhead, RunInv, pageVars, Ends
<1>5. CASE RecordFailure
    <2>1. /\ UNCHANGED <<scanner, published, serverVars, pageVars>>
          /\ run' = "returned" /\ job' \in {"pending", "failed"} /\ job = "pending"
          /\ faults' \in 0..MaxFaults
        BY <1>0, <1>5 DEF RecordFailure, RunInv, Fault, PageTypeOK
    <2>2. PageTypeOK'
        BY <1>0, <2>1 DEF PageTypeOK, pageVars, serverVars, Ends
    <2> QED BY <2>1, <2>2 DEF NeverAhead, RunInv, pageVars, serverVars, Ends
<1> QED BY <1>1, <1>2, <1>3, <1>4, <1>5

LEMMA RequestsKeepInv ==
    ASSUME PageInv,
           \/ \E g \in Gets : PollTick(g) \/ AnswerGet(g) \/ GetFails(g) \/ ReceiveGet(g)
           \/ LoadResult
    PROVE  PageInv'
<1> USE PageAssumption DEF PageAssumption, PageInv
<1>0. PageTypeOK
    BY DEF NeverAhead
<1>1. ASSUME NEW g \in Gets, PollTick(g) \/ AnswerGet(g) \/ GetFails(g)
      PROVE  PageInv'
    <2>1. /\ UNCHANGED <<workerVars, serverVars, shown, loaded, result, polling, socket, retries>>
          /\ faults' \in 0..MaxFaults
          /\ \E v \in {"none", "sent", job} : get' = [get EXCEPT ![g] = v]
        BY <1>0, <1>1 DEF PollTick, AnswerGet, GetFails, Fault, PageTypeOK
    <2>2. PageTypeOK'
        BY <1>0, <2>1 DEF PageTypeOK, workerVars, serverVars
    <2>3. \A h \in Gets : get'[h] \in Ends => get'[h] = job'
        BY <1>0, <2>1 DEF NeverAhead, PageTypeOK, workerVars, Ends
    <2> QED BY <2>1, <2>2, <2>3 DEF NeverAhead, RunInv, workerVars, serverVars
<1>2. ASSUME NEW g \in Gets, ReceiveGet(g)
      PROVE  PageInv'
    <2>1. /\ UNCHANGED <<workerVars, serverVars, socket, retries, faults>>
          /\ get' = [get EXCEPT ![g] = "none"]
          /\ shown' = get[g] /\ get[g] \in {"pending"} \cup Ends
          /\ \/ get[g] = "success" /\ loaded' = TRUE /\ result' \in {result, "requested"}
             \/ UNCHANGED <<loaded, result>>
        BY <1>2 DEF ReceiveGet, ShowSuccess
    <2>2. PageTypeOK'
        <3>1. polling' \in BOOLEAN
            BY <1>2 DEF ReceiveGet
        <3>2. loaded' \in BOOLEAN /\ result' \in {"none", "requested", "shown", "lost"}
            BY <1>0, <2>1 DEF PageTypeOK
        <3> QED BY <1>0, <2>1, <3>1, <3>2 DEF PageTypeOK, workerVars, serverVars, Ends
    <2>3. \A h \in Gets : get'[h] \in Ends => get'[h] = job'
        BY <1>0, <2>1 DEF NeverAhead, PageTypeOK, workerVars, Ends
    <2>4. /\ shown' \in Ends => shown' = job'
          /\ loaded' \/ result' # "none" => job' = "success"
        BY <2>1 DEF NeverAhead, workerVars, Ends
    <2> QED BY <2>1, <2>2, <2>3, <2>4 DEF NeverAhead, RunInv, workerVars, serverVars
<1>3. CASE LoadResult
    <2>1. /\ UNCHANGED <<workerVars, serverVars, shown, loaded, polling, get, socket, retries>>
          /\ result = "requested" /\ result' \in {"shown", "lost"} /\ faults' \in 0..MaxFaults
        BY <1>0, <1>3 DEF LoadResult, Fault, PageTypeOK
    <2>2. PageTypeOK'
        BY <1>0, <2>1 DEF PageTypeOK, workerVars, serverVars
    <2> QED BY <2>1, <2>2 DEF NeverAhead, RunInv, workerVars, serverVars
<1> QED BY <1>1, <1>2, <1>3

LEMMA SocketKeepsInv ==
    ASSUME PageInv, OpenSocket \/ CloseSocket \/ Reconnect \/ Subscribe \/ ReceiveMessage
    PROVE  PageInv'
<1> USE PageAssumption DEF PageAssumption, PageInv
<1>0. PageTypeOK
    BY DEF NeverAhead
<1>1. CASE OpenSocket \/ CloseSocket \/ Reconnect \/ Subscribe
    <2>1. UNCHANGED <<workerVars, shown, loaded, result, get>>
        BY <1>1 DEF OpenSocket, CloseSocket, Closed, Reconnect, Subscribe, pageVars
    <2>2. wire' = wire \/ wire' = <<>>
        BY <1>1 DEF OpenSocket, CloseSocket, Closed, Reconnect, Subscribe, serverVars
    <2>3. polling' = polling \/ polling' = FALSE
        BY <1>1 DEF OpenSocket, CloseSocket, Reconnect, Subscribe, pageVars
    <2>4. /\ handler' \in {"none", "accepted", "subscribed"}
          /\ socket' \in {"connecting", "open", "waiting", "closed"}
        BY <1>0, <1>1 DEF OpenSocket, CloseSocket, Closed, Reconnect, Subscribe, pageVars,
            serverVars, PageTypeOK
    <2>5. retries' \in 0..MaxRetries /\ faults' \in 0..MaxFaults
        BY <1>0, <1>1 DEF OpenSocket, CloseSocket, Closed, Reconnect, Subscribe, Fault, pageVars,
            PageTypeOK
    <2>6. PageTypeOK'
        <3>1. wire' \in Seq({"running", "success"})
            <4>1. wire \in Seq({"running", "success"})
                BY <1>0 DEF PageTypeOK
            <4>2. CASE wire' = wire
                BY <4>1, <4>2
            <4>3. CASE wire' = <<>>
                BY <4>3
            <4> QED BY <2>2, <4>2, <4>3
        <3>2. polling' \in BOOLEAN
            BY <1>0, <2>3 DEF PageTypeOK
        <3> QED BY <1>0, <2>1, <2>4, <2>5, <3>1, <3>2 DEF PageTypeOK, workerVars
    <2>7. \A i \in 1..Len(wire') : wire'[i] = "success" => job' = "success"
        BY <2>1, <2>2 DEF NeverAhead, workerVars
    <2> QED BY <2>1, <2>6, <2>7 DEF NeverAhead, RunInv, workerVars
<1>2. CASE ReceiveMessage
    <2>1. /\ UNCHANGED <<workerVars, handler, polling, get, socket, retries, faults>>
          /\ wire # <<>> /\ wire' = Tail(wire)
          /\ shown' \in {shown, Head(wire)}
          /\ \/ Head(wire) = "success" /\ loaded' = TRUE /\ result' \in {result, "requested"}
             \/ UNCHANGED <<loaded, result>>
        BY <1>2 DEF ReceiveMessage, ShowSuccess
    <2>2. /\ Head(wire) \in {"running", "success"}
          /\ Head(wire) = "success" => job = "success"
          /\ wire' \in Seq({"running", "success"})
          /\ \A i \in 1..Len(wire') : i + 1 \in 1..Len(wire) /\ wire'[i] = wire[i + 1]
        BY <1>0, <2>1 DEF NeverAhead, PageTypeOK
    <2>3. PageTypeOK'
        <3>1. /\ loaded' \in BOOLEAN /\ result' \in {"none", "requested", "shown", "lost"}
              /\ shown' \in {"none", "pending", "running"} \cup Ends
            BY <1>0, <2>1, <2>2 DEF PageTypeOK, Ends
        <3> QED BY <1>0, <2>1, <2>2, <3>1 DEF PageTypeOK, workerVars
    <2>4. \A i \in 1..Len(wire') : wire'[i] = "success" => job' = "success"
        BY <2>1, <2>2 DEF NeverAhead, workerVars
    <2>5. /\ shown' \in Ends => shown' = job'
          /\ loaded' \/ result' # "none" => job' = "success"
        BY <2>1, <2>2 DEF NeverAhead, workerVars, Ends
    <2> QED BY <2>1, <2>3, <2>4, <2>5 DEF NeverAhead, RunInv, workerVars
<1> QED BY <1>1, <1>2

\* What a page shows of the end of its job is what the row says, and it asks for
\* a result only when get_backtest_result has one to give.
THEOREM PageIsNeverAhead == Spec => []NeverAhead
<1>1. PageInv /\ [Next]_vars => PageInv'
    <2>1. PageInv /\ UNCHANGED vars => PageInv'
        BY DEF PageInv, NeverAhead, RunInv, PageTypeOK, vars, workerVars, serverVars, pageVars
    <2> QED BY <2>1, WorkerKeepsInv, RequestsKeepInv, SocketKeepsInv DEF Next
<1>2. PageInv => NeverAhead
    BY DEF PageInv
<1> QED BY Initially, <1>1, <1>2, PTL DEF Spec
=============================================================================
