-------------------------- MODULE TaskQueueProofs --------------------------
(***************************************************************************)
(* What TaskQueue guarantees for any number of workers, tasks, restarts    *)
(* and ignored Redis errors: QueueInv is inductive, and the safety         *)
(* properties and the refinement of TaskDelivery follow from it; and for   *)
(* replies of any length, what the parsing loops take out of them.         *)
(***************************************************************************)
EXTENDS MCTaskQueue, Sequences, SumTheorems

USE DEF Entries, NoOwner

\* The part of QueueInv that relates tasks, workers and history.
Accounting ==
    /\ FutureInv
    /\ HandInv
    /\ ExclusiveInv
    /\ HistoryInv
    /\ PendingUntilReturned
    /\ StatusTellsOutcome
    /\ SuccessAfterAck

-----------------------------------------------------------------------------
(* Lemmas about the helpers of the actions *)

\* A worker that leaves a stage goes to the next command or to select!.
LEMMA LeaveEffect ==
    ASSUME TypeOK, NEW w \in Workers, Leave(w)
    PROVE  /\ stage' \in [Workers -> Stages]
           /\ \/ pc' = [pc EXCEPT ![w] = "select"]
              \/ pc' = [pc EXCEPT ![w] = "fetch"]
  <1>1. After(stage[w]) \in Stages
    BY DEF TypeOK, Stages, After
  <1>2. QED
    BY <1>1 DEF TypeOK, Leave

\* A branch has one entry in hand, so after it the worker leaves the stage.
LEMMA NextTaskEffect ==
    ASSUME TypeOK, HandInv, NEW w \in Workers, NEW e \in todo[w], NextTask(w, e)
    PROVE  /\ todo' = [todo EXCEPT ![w] = {}]
           /\ Leave(w)
  <1>1. todo[w] \ {e} = {}
    BY DEF HandInv
  <1>2. QED
    BY <1>1 DEF TypeOK, NextTask

\* Counting an ignored error keeps the counter within its bound.
LEMMA IgnoringEffect ==
    ASSUME TypeOK, NEW ok, Ignoring(ok)
    PROVE  /\ ok \in BOOLEAN
           /\ faults' \in 0..MaxFaults
           /\ faults' = 0 => faults = 0 /\ ok
  BY TaskQueueAssumption DEF TypeOK, Ignoring

\* Only a busy worker holds a task, only a worker with a reply holds entries of one.
LEMMA HandsFree ==
    ASSUME Accounting, NEW w \in Workers
    PROVE  /\ pc[w] \notin BusyPhases => todo[w] = {}
           /\ pc[w] # "replied" => reply[w] = {}
  BY DEF Accounting, HandInv

\* A step after which w holds neither a reply nor a task, and which changes
\* nothing of any other worker, of the tasks or of their history.
LEMMA EmptyHanded ==
    ASSUME TypeOK, Accounting, NEW w \in Workers,
           UNCHANGED <<sent, cursor, owner, status, runs, outcome>>,
           faults' = 0 => faults = 0,
           \A v \in Workers \ {w} :
              pc'[v] = pc[v] /\ todo'[v] = todo[v] /\ reply'[v] = reply[v],
           todo'[w] = {}, reply'[w] = {}, pc'[w] \notin BusyPhases
    PROVE  Accounting'
  <1>1. HandInv'
    BY DEF TypeOK, Accounting, HandInv, Untouched, BusyPhases
  <1>2. ExclusiveInv'
    BY DEF TypeOK, Accounting, ExclusiveInv
  <1>3. FutureInv' /\ HistoryInv'
    BY DEF Accounting, FutureInv, HistoryInv, Untouched
  <1>4. PendingUntilReturned' /\ StatusTellsOutcome' /\ SuccessAfterAck'
    BY DEF Accounting, PendingUntilReturned, StatusTellsOutcome, SuccessAfterAck
  <1>5. QED
    BY <1>1, <1>2, <1>3, <1>4 DEF Accounting

-----------------------------------------------------------------------------
(* Start of a worker, reclaim, select!: steps that leave the tasks alone *)

LEMMA PushTaskKeeps ==
    ASSUME TypeOK, Accounting, PushTask
    PROVE  TypeOK' /\ Accounting'
  <1>1. TypeOK'
    BY TaskQueueAssumption DEF TypeOK, PushTask, workerVars, historyVars
  <1>2. HandInv' /\ ExclusiveInv'
    BY DEF Accounting, PushTask, workerVars, historyVars, HandInv, ExclusiveInv, Untouched
  <1>3. FutureInv' /\ HistoryInv'
    BY DEF TypeOK, Accounting, PushTask, historyVars, FutureInv, HistoryInv, Untouched
  <1>4. PendingUntilReturned' /\ StatusTellsOutcome' /\ SuccessAfterAck'
    BY DEF Accounting, PushTask, historyVars, PendingUntilReturned, StatusTellsOutcome,
           SuccessAfterAck
  <1>5. QED
    BY <1>1, <1>2, <1>3, <1>4 DEF Accounting

LEMMA InitConsumerGroupKeeps ==
    ASSUME TypeOK, Accounting, NEW w \in Workers, InitConsumerGroup(w)
    PROVE  TypeOK' /\ Accounting'
  <1>1. TypeOK'
    BY IgnoringEffect DEF TypeOK, Phases, Stages, InitConsumerGroup, historyVars
  <1>2. Accounting'
    BY IgnoringEffect, HandsFree, EmptyHanded
    DEF TypeOK, BusyPhases, InitConsumerGroup, historyVars
  <1>3. QED
    BY <1>1, <1>2

LEMMA ConsumePendingKeeps ==
    ASSUME TypeOK, Accounting, NEW w \in Workers, ConsumePending(w)
    PROVE  TypeOK' /\ Accounting'
  <1>a. /\ todo' = [todo EXCEPT ![w] = {}]
        /\ stage' \in [Workers -> Stages]
        /\ pc' = [pc EXCEPT ![w] = "select"] \/ pc' = [pc EXCEPT ![w] = "fetch"]
    BY LeaveEffect DEF TypeOK, ConsumePending, PendingReturned
  <1>1. TypeOK'
    BY <1>a DEF TypeOK, Phases, redisVars, historyVars, ConsumePending
  <1>2. Accounting'
    BY <1>a, HandsFree, EmptyHanded
    DEF TypeOK, BusyPhases, redisVars, historyVars, ConsumePending
  <1>3. QED
    BY <1>1, <1>2

LEMMA ListPendingKeeps ==
    ASSUME TypeOK, Accounting, NEW w \in Workers, ListPending(w)
    PROVE  TypeOK' /\ Accounting'
  <1>a. claims' \in [Workers -> SUBSET Entries]
    BY DEF TypeOK, ListPending, Pending
  <1>1. TypeOK'
    BY <1>a DEF TypeOK, Phases, ListPending, redisVars, historyVars
  <1>2. Accounting'
    BY HandsFree, EmptyHanded
    DEF TypeOK, BusyPhases, ListPending, redisVars, historyVars
  <1>3. QED
    BY <1>1, <1>2

LEMMA ReclaimReturnsKeeps ==
    ASSUME TypeOK, Accounting, NEW w \in Workers, ReclaimReturns(w)
    PROVE  TypeOK' /\ Accounting'
  <1>a. /\ todo' = todo /\ todo'[w] = {}
        /\ stage' \in [Workers -> Stages]
        /\ pc' = [pc EXCEPT ![w] = "select"] \/ pc' = [pc EXCEPT ![w] = "fetch"]
        /\ faults' \in 0..MaxFaults /\ (faults' = 0 => faults = 0)
    <2>1. todo[w] = {}
      BY HandsFree DEF BusyPhases, ReclaimReturns
    <2>2. todo' = todo
      BY <2>1 DEF TypeOK, ReclaimReturns
    <2>3. Leave(w)
      BY <2>1, <2>2 DEF ReclaimReturns
    <2>4. faults' \in 0..MaxFaults /\ (faults' = 0 => faults = 0)
      BY IgnoringEffect DEF TypeOK, ReclaimReturns
    <2>5. QED
      BY <2>1, <2>2, <2>3, <2>4, LeaveEffect
  <1>1. TypeOK'
    BY <1>a DEF TypeOK, Phases, ReclaimReturns, historyVars
  <1>2. Accounting'
    BY <1>a, HandsFree, EmptyHanded
    DEF TypeOK, BusyPhases, ReclaimReturns, historyVars
  <1>3. QED
    BY <1>1, <1>2

LEMMA SendReadKeeps ==
    ASSUME TypeOK, Accounting, NEW w \in Workers, SendRead(w)
    PROVE  TypeOK' /\ Accounting'
  <1>1. TypeOK'
    BY DEF TypeOK, Phases, SendRead, redisVars, historyVars
  <1>2. Accounting'
    BY HandsFree, EmptyHanded
    DEF TypeOK, BusyPhases, SendRead, redisVars, historyVars
  <1>3. QED
    BY <1>1, <1>2

LEMMA BlockExpiresKeeps ==
    ASSUME TypeOK, Accounting, NEW w \in Workers, BlockExpires(w)
    PROVE  TypeOK' /\ Accounting'
  <1>1. TypeOK'
    BY DEF TypeOK, Phases, BlockExpires, redisVars, historyVars
  <1>2. Accounting'
    BY HandsFree, EmptyHanded
    DEF TypeOK, BusyPhases, BlockExpires, redisVars, historyVars
  <1>3. QED
    BY <1>1, <1>2

LEMMA ReclaimTickKeeps ==
    ASSUME TypeOK, Accounting, NEW w \in Workers, ReclaimTick(w)
    PROVE  TypeOK' /\ Accounting'
  <1>a. orphans' \in SUBSET Consumers
    BY DEF TypeOK, ReclaimTick, Forget, Name, Consumers
  <1>1. TypeOK'
    BY <1>a, TaskQueueAssumption DEF TypeOK, Phases, Stages, ReclaimTick, Forget, historyVars
  <1>2. Accounting'
    BY HandsFree, EmptyHanded
    DEF TypeOK, BusyPhases, ReclaimTick, Forget, historyVars
  <1>3. QED
    BY <1>1, <1>2

LEMMA ShutdownKeeps ==
    ASSUME TypeOK, Accounting, NEW w \in Workers, Shutdown(w)
    PROVE  TypeOK' /\ Accounting'
  <1>a. orphans' \in SUBSET Consumers
    BY DEF TypeOK, Shutdown, Forget, Name, Consumers
  <1>1. TypeOK'
    BY <1>a, TaskQueueAssumption DEF TypeOK, Phases, Stages, Shutdown, Forget, historyVars
  <1>2. Accounting'
    BY HandsFree, EmptyHanded
    DEF TypeOK, BusyPhases, Shutdown, Forget, historyVars
  <1>3. QED
    BY <1>1, <1>2

LEMMA CrashKeeps ==
    ASSUME TypeOK, Accounting, NEW w \in Workers, Crash(w)
    PROVE  TypeOK' /\ Accounting'
  <1>a. orphans' \in SUBSET Consumers
    BY DEF TypeOK, Crash, Forget, Name, Consumers
  <1>1. TypeOK'
    BY <1>a, TaskQueueAssumption DEF TypeOK, Phases, Stages, Crash, Forget, historyVars
  <1>2. Accounting'
    BY HandsFree, EmptyHanded
    DEF TypeOK, BusyPhases, Crash, Forget, historyVars
  <1>3. QED
    BY <1>1, <1>2

LEMMA ConsumeFailsKeeps ==
    ASSUME TypeOK, Accounting, NEW w \in Workers, ConsumeFails(w)
    PROVE  TypeOK' /\ Accounting'
  <1>a. orphans' \in SUBSET Consumers /\ faults' \in 0..MaxFaults /\ faults' # 0
    BY TaskQueueAssumption DEF TypeOK, ConsumeFails, Forget, Name, Consumers
  <1>1. TypeOK'
    BY <1>a DEF TypeOK, Phases, ConsumeFails, Forget, historyVars
  <1>2. Accounting'
    BY <1>a, HandsFree, EmptyHanded
    DEF TypeOK, BusyPhases, ConsumeFails, Forget, historyVars
  <1>3. QED
    BY <1>1, <1>2

LEMMA RestartKeeps ==
    ASSUME TypeOK, Accounting, NEW w \in Workers, Restart(w)
    PROVE  TypeOK' /\ Accounting'
  <1>1. TypeOK'
    BY TaskQueueAssumption DEF TypeOK, Phases, Restart, redisVars, historyVars
  <1>2. Accounting'
    BY HandsFree, EmptyHanded
    DEF TypeOK, BusyPhases, Restart, redisVars, historyVars
  <1>3. QED
    BY <1>1, <1>2

LEMMA OrphanExpiresKeeps ==
    ASSUME TypeOK, Accounting, NEW c \in Consumers, OrphanExpires(c)
    PROVE  TypeOK' /\ Accounting'
  <1>1. TypeOK'
    BY DEF TypeOK, OrphanExpires, workerVars, historyVars
  <1>2. HandInv' /\ ExclusiveInv'
    BY DEF Accounting, OrphanExpires, workerVars, historyVars, HandInv, ExclusiveInv, Untouched
  <1>3. FutureInv' /\ HistoryInv'
    BY DEF Accounting, OrphanExpires, historyVars, FutureInv, HistoryInv, Untouched
  <1>4. PendingUntilReturned' /\ StatusTellsOutcome' /\ SuccessAfterAck'
    BY DEF Accounting, OrphanExpires, historyVars, PendingUntilReturned,
           StatusTellsOutcome, SuccessAfterAck
  <1>5. QED
    BY <1>1, <1>2, <1>3, <1>4 DEF Accounting

\* XCLAIM only moves entries that are pending already, and since its reply is
\* misread, the worker has nothing to process afterwards.
LEMMA ClaimPendingKeeps ==
    ASSUME TypeOK, Accounting, NEW w \in Workers, ClaimPending(w)
    PROVE  TypeOK' /\ Accounting'
  <1>1. PICK e \in claims[w] :
           /\ claims' = [claims EXCEPT ![w] = @ \ {e}]
           /\ \/ owner[e] # NoOwner /\ owner' = [owner EXCEPT ![e] = Name(w)]
              \/ UNCHANGED owner
           /\ todo' = todo
    <2>1. PICK e \in claims[w] :
             /\ claims' = [claims EXCEPT ![w] = @ \ {e}]
             /\ \/ /\ owner[e] # NoOwner
                   /\ owner' = [owner EXCEPT ![e] = Name(w)]
                   /\ todo' = [todo EXCEPT ![w] = @ \cup ClaimReturned(e)]
                \/ UNCHANGED <<owner, todo>>
      BY DEF ClaimPending
    <2>2. [todo EXCEPT ![w] = @ \cup ClaimReturned(e)] = todo
      BY DEF TypeOK, ClaimReturned
    <2>3. QED
      BY <2>1, <2>2
  <1>2. e \in Entries /\ Name(w) \in Consumers /\ Name(w) # NoOwner
    BY DEF TypeOK, Name, Consumers
  <1>3. UNCHANGED <<sent, cursor, group, orphans, status, faults, pc, stage, starts, reply,
                    runs, outcome>>
    BY DEF ClaimPending, historyVars
  <1>4. \A f \in Entries : owner'[f] = NoOwner <=> owner[f] = NoOwner
    BY <1>1, <1>2 DEF TypeOK
  <1>5. TypeOK'
    BY <1>1, <1>2, <1>3 DEF TypeOK
  <1>6. HandInv' /\ ExclusiveInv'
    BY <1>1, <1>3, <1>4 DEF TypeOK, Accounting, HandInv, ExclusiveInv, Untouched
  <1>7. FutureInv' /\ HistoryInv'
    BY <1>3, <1>4 DEF Accounting, FutureInv, HistoryInv, Untouched
  <1>8. PendingUntilReturned' /\ StatusTellsOutcome' /\ SuccessAfterAck'
    BY <1>3, <1>4 DEF Accounting, PendingUntilReturned, StatusTellsOutcome, SuccessAfterAck
  <1>9. QED
    BY <1>5, <1>6, <1>7, <1>8 DEF Accounting

-----------------------------------------------------------------------------
(* Delivery *)

\* The entries Redis delivers were unknown to everybody: the new reply shares
\* no entry with what any worker holds.
LEMMA DeliverKeeps ==
    ASSUME TypeOK, Accounting, NEW c \in Consumers, Deliver(c)
    PROVE  /\ owner' \in [Entries -> Consumers \cup {NoOwner}]
           /\ cursor' \in 0..MaxTasks
           /\ \A e \in Undelivered : /\ e \in Entries /\ e > cursor /\ e <= cursor'
                                     /\ owner'[e] # NoOwner /\ Untouched(e)
           /\ \A e \in Entries \ Undelivered : owner'[e] = owner[e]
           /\ \A e \in Entries : e <= cursor => e <= cursor' /\ e \notin Undelivered
           /\ FutureInv' /\ HistoryInv'
           /\ PendingUntilReturned' /\ StatusTellsOutcome' /\ SuccessAfterAck'
  <1>1. UNCHANGED <<sent, status, faults, runs, outcome>> /\ cursor' = sent
    BY DEF Deliver, historyVars
  <1>2. owner' = [e \in Entries |-> IF e \in Undelivered THEN c ELSE owner[e]]
    BY DEF Deliver
  <1>3. c # NoOwner
    BY DEF Consumers
  <1>4. sent \in Nat /\ cursor \in Nat /\ MaxTasks \in Nat /\ cursor <= sent /\ sent <= MaxTasks
    BY TaskQueueAssumption DEF TypeOK, Accounting, FutureInv
  <1>5. \A e \in Entries : e \in Undelivered <=> cursor < e /\ e <= sent
    BY <1>4 DEF Undelivered
  <1>6. Undelivered \in SUBSET Entries
    BY <1>4 DEF Undelivered
  <1>7. \A e \in Undelivered : Untouched(e) /\ owner[e] = NoOwner
    BY <1>4, <1>5, <1>6 DEF Accounting, FutureInv
  <1>8. owner' \in [Entries -> Consumers \cup {NoOwner}] /\ cursor' \in 0..MaxTasks
    BY <1>1, <1>2 DEF TypeOK
  <1>9. FutureInv' /\ HistoryInv'
    BY <1>1, <1>2, <1>4, <1>5 DEF Accounting, FutureInv, HistoryInv, Untouched
  <1>10. PendingUntilReturned' /\ StatusTellsOutcome' /\ SuccessAfterAck'
    <2>1. \A e \in Entries : e <= sent /\ owner'[e] = NoOwner => e <= cursor /\ owner[e] = NoOwner
      BY <1>2, <1>3, <1>4, <1>5
    <2>2. \A e \in Entries : status[e] = "Success" => e \notin Undelivered
      BY <1>7 DEF Untouched
    <2>3. QED
      BY <1>1, <1>2, <2>1, <2>2
      DEF Accounting, PendingUntilReturned, StatusTellsOutcome, SuccessAfterAck
  <1>11. QED
    BY <1>1, <1>2, <1>3, <1>4, <1>5, <1>6, <1>7, <1>8, <1>9, <1>10

LEMMA DeliverToWorkerKeeps ==
    ASSUME TypeOK, Accounting, NEW w \in Workers, DeliverToWorker(w)
    PROVE  TypeOK' /\ Accounting'
  <1>1. Name(w) \in Consumers /\ Deliver(Name(w))
    BY DEF TypeOK, Name, Consumers, DeliverToWorker
  <1>2. UNCHANGED <<sent, group, status, faults, stage, starts, claims, todo, orphans,
                    runs, outcome>>
    BY DEF DeliverToWorker, Deliver, historyVars
  <1>3. /\ pc[w] = "blocked" /\ pc' = [pc EXCEPT ![w] = "replied"]
        /\ reply' = [reply EXCEPT ![w] = Undelivered]
    BY DEF DeliverToWorker
  <1>4. todo[w] = {}
    BY <1>3, HandsFree DEF BusyPhases
  <1>5. TypeOK'
    BY <1>1, <1>2, <1>3, DeliverKeeps DEF TypeOK, Phases
  <1>6. HandInv'
    BY SMTT(60), <1>1, <1>2, <1>3, <1>4, DeliverKeeps
    DEF TypeOK, Accounting, HandInv, Untouched, BusyPhases
  <1>7. ExclusiveInv'
    BY <1>1, <1>2, <1>3, <1>4, DeliverKeeps DEF TypeOK, Accounting, HandInv, ExclusiveInv
  <1>8. QED
    BY <1>1, <1>5, <1>6, <1>7, DeliverKeeps DEF Accounting

LEMMA DeliverToOrphanKeeps ==
    ASSUME TypeOK, Accounting, NEW c \in Consumers, DeliverToOrphan(c)
    PROVE  TypeOK' /\ Accounting'
  <1>1. Deliver(c)
    BY DEF DeliverToOrphan
  <1>2. /\ UNCHANGED <<sent, group, status, faults, pc, stage, starts, claims, todo, reply,
                       runs, outcome>>
        /\ orphans' = orphans \ {c}
    BY DEF DeliverToOrphan, Deliver, historyVars
  <1>3. TypeOK'
    BY <1>1, <1>2, DeliverKeeps DEF TypeOK
  <1>4. HandInv'
    BY <1>1, <1>2, DeliverKeeps DEF TypeOK, Accounting, HandInv, Untouched
  <1>5. ExclusiveInv'
    BY <1>2 DEF Accounting, ExclusiveInv
  <1>6. QED
    BY <1>1, <1>3, <1>4, <1>5, DeliverKeeps DEF Accounting

LEMMA ConsumeTaskKeeps ==
    ASSUME TypeOK, Accounting, NEW w \in Workers, ConsumeTask(w)
    PROVE  TypeOK' /\ Accounting'
  <1>1. /\ pc[w] = "replied"
        /\ todo' = [todo EXCEPT ![w] = NewReturned(reply[w])]
        /\ reply' = [reply EXCEPT ![w] = {}]
        /\ pc' = [pc EXCEPT ![w] = IF todo'[w] = {} THEN "select" ELSE "mark"]
        /\ UNCHANGED <<sent, cursor, group, owner, orphans, status, faults, stage, starts,
                       claims, runs, outcome>>
    BY DEF ConsumeTask, redisVars, historyVars
  <1>2. /\ NewReturned(reply[w]) \subseteq reply[w]
        /\ \A e, f \in NewReturned(reply[w]) : e = f
    BY DEF NewReturned
  <1>3. todo'[w] = NewReturned(reply[w])
    BY <1>1 DEF TypeOK
  <1>4. TypeOK'
    BY <1>1, <1>2 DEF TypeOK, Phases
  <1>5. HandInv'
    <2>1. ASSUME NEW v \in Workers, v # w
          PROVE  pc'[v] = pc[v] /\ todo'[v] = todo[v] /\ reply'[v] = reply[v]
      BY <1>1, <2>1 DEF TypeOK
    <2>2. pc'[w] = (IF todo'[w] = {} THEN "select" ELSE "mark") /\ reply'[w] = {}
      BY <1>1 DEF TypeOK
    <2>3. \A e \in todo'[w] : e <= cursor /\ owner[e] # NoOwner /\ Untouched(e)
      BY <1>2, <1>3 DEF Accounting, HandInv
    <2>4. QED
      BY <1>1, <1>2, <1>3, <2>1, <2>2, <2>3 DEF Accounting, HandInv, Untouched, BusyPhases
  <1>6. ExclusiveInv'
    BY <1>1, <1>2, <1>3 DEF TypeOK, Accounting, ExclusiveInv
  <1>7. FutureInv' /\ HistoryInv'
    BY <1>1 DEF Accounting, FutureInv, HistoryInv, Untouched
  <1>8. PendingUntilReturned' /\ StatusTellsOutcome' /\ SuccessAfterAck'
    BY <1>1 DEF Accounting, PendingUntilReturned, StatusTellsOutcome, SuccessAfterAck
  <1>9. QED
    BY <1>4, <1>5, <1>6, <1>7, <1>8 DEF Accounting

-----------------------------------------------------------------------------
(* One task *)

\* A step of the processing of e at w that keeps e in hand changes the status,
\* the history and the ownership of no other entry; what it does to e has to
\* fit the new program point.
LEMMA TaskStep ==
    ASSUME TypeOK, TypeOK', Accounting, NEW w \in Workers, NEW e \in todo[w],
           UNCHANGED <<sent, cursor, reply>>,
           faults' = 0 => faults = 0,
           todo' = todo \/ todo' = [todo EXCEPT ![w] = {}],
           \A v \in Workers \ {w} : pc'[v] = pc[v],
           todo'[w] # {} <=> pc'[w] \in BusyPhases,
           \A f \in Entries \ {e} : /\ owner'[f] = owner[f] /\ status'[f] = status[f]
                                    /\ runs'[f] = runs[f] /\ outcome'[f] = outcome[f],
           todo'[w] # {} =>
              /\ pc'[w] # "mark"
              /\ pc'[w] = "process" => outcome'[e] = "none"
              /\ pc'[w] \in {"ackOk", "statusOk"} => outcome'[e] = "ok"
              /\ pc'[w] \in {"statusErr", "ackErr"} => outcome'[e] = "err"
              /\ pc'[w] # "statusOk" => owner'[e] # NoOwner
              /\ pc'[w] = "statusOk" /\ faults' = 0 => owner'[e] = NoOwner,
           runs'[e] = 1,
           owner'[e] = NoOwner => outcome'[e] # "none",
           status'[e] = "Success" =>
              outcome'[e] = "ok" /\ (faults' = 0 => owner'[e] = NoOwner),
           status'[e] = "Failed" => outcome'[e] = "err"
    PROVE  Accounting'
  <1>1. todo[w] = {e} /\ e \in Entries /\ e <= cursor /\ reply[w] = {}
    <2>1. e \in Entries
      BY DEF TypeOK
    <2>2. todo[w] = {e} /\ e <= cursor /\ pc[w] \in BusyPhases
      BY DEF Accounting, HandInv
    <2>3. reply[w] = {}
      BY <2>2, HandsFree DEF BusyPhases
    <2>4. QED
      BY <2>1, <2>2, <2>3
  <1>2. \A v \in Workers \ {w} : todo'[v] = todo[v] /\ e \notin todo[v] \cup reply[v]
    BY <1>1 DEF TypeOK, Accounting, ExclusiveInv
  <1>3. todo'[w] \subseteq {e}
    BY <1>1 DEF TypeOK
  <1>4. HandInv'
    <2>1. ASSUME NEW v \in Workers, v # w
          PROVE  \A f \in reply[v] \cup todo[v] :
                    /\ owner'[f] = owner[f] /\ status'[f] = status[f]
                    /\ runs'[f] = runs[f] /\ outcome'[f] = outcome[f]
      BY <1>2, <2>1 DEF TypeOK
    <2>2. QED
      BY <1>1, <1>2, <1>3, <2>1 DEF Accounting, HandInv, Untouched, BusyPhases
  <1>5. ExclusiveInv'
    BY <1>1, <1>2, <1>3 DEF Accounting, ExclusiveInv
  <1>6. FutureInv'
    BY <1>1 DEF TypeOK, Accounting, FutureInv, Untouched
  <1>7. HistoryInv'
    BY <1>1 DEF Accounting, HistoryInv, Untouched
  <1>8. PendingUntilReturned' /\ StatusTellsOutcome' /\ SuccessAfterAck'
    BY <1>1 DEF Accounting, PendingUntilReturned, StatusTellsOutcome, SuccessAfterAck
  <1>9. QED
    BY <1>4, <1>5, <1>6, <1>7, <1>8 DEF Accounting

LEMMA StartTaskKeeps ==
    ASSUME TypeOK, Accounting, NEW w \in Workers, StartTask(w)
    PROVE  TypeOK' /\ Accounting'
  <1>1. PICK e \in todo[w], ok \in BOOLEAN :
           /\ Ignoring(ok)
           /\ status' = IF ok THEN [status EXCEPT ![e] = "Running"] ELSE status
           /\ runs' = [runs EXCEPT ![e] = @ + 1]
    BY DEF StartTask
  <1>2. /\ pc[w] = "mark" /\ pc' = [pc EXCEPT ![w] = "process"]
        /\ UNCHANGED <<sent, cursor, group, owner, orphans, stage, starts, reply, claims,
                       todo, outcome>>
    BY DEF StartTask
  <1>3. faults' \in 0..MaxFaults /\ (faults' = 0 => faults = 0)
    BY <1>1, IgnoringEffect
  <1>4. e \in Entries /\ owner[e] # NoOwner /\ Untouched(e)
    BY <1>2 DEF TypeOK, Accounting, HandInv
  <1>5. TypeOK'
    BY <1>1, <1>2, <1>3, <1>4 DEF TypeOK, Phases
  <1>6. /\ runs'[e] = 1 /\ outcome'[e] = "none" /\ owner'[e] # NoOwner
        /\ status'[e] \in {"none", "Running"}
    BY <1>1, <1>2, <1>4 DEF TypeOK, Untouched
  <1>7. \A f \in Entries \ {e} : status'[f] = status[f] /\ runs'[f] = runs[f]
    BY <1>1 DEF TypeOK
  <1>8. Accounting'
    BY <1>2, <1>3, <1>4, <1>5, <1>6, <1>7, TaskStep DEF TypeOK, BusyPhases
  <1>9. QED
    BY <1>5, <1>8

LEMMA ProcessReportsRunningKeeps ==
    ASSUME TypeOK, Accounting, NEW w \in Workers, ProcessReportsRunning(w)
    PROVE  TypeOK' /\ Accounting'
  <1>1. PICK e \in todo[w] : status' = [status EXCEPT ![e] = "Running"]
    BY DEF ProcessReportsRunning
  <1>2. /\ pc[w] = "process"
        /\ UNCHANGED <<sent, cursor, group, owner, orphans, faults, pc, stage, starts, reply,
                       claims, todo, runs, outcome>>
    BY DEF ProcessReportsRunning, workerVars, historyVars
  <1>3. e \in Entries /\ owner[e] # NoOwner /\ runs[e] = 1 /\ outcome[e] = "none"
    BY <1>2 DEF TypeOK, Accounting, HandInv
  <1>4. TypeOK'
    BY <1>1, <1>2 DEF TypeOK
  <1>5. status'[e] = "Running" /\ \A f \in Entries \ {e} : status'[f] = status[f]
    BY <1>1, <1>3 DEF TypeOK
  <1>6. Accounting'
    BY <1>2, <1>3, <1>4, <1>5, TaskStep DEF TypeOK, BusyPhases
  <1>7. QED
    BY <1>4, <1>6

LEMMA ProcessReturnsKeeps ==
    ASSUME TypeOK, Accounting, NEW w \in Workers, NEW result \in {"ok", "err"},
           ProcessReturns(w, result)
    PROVE  TypeOK' /\ Accounting'
  <1>1. PICK e \in todo[w] : outcome' = [outcome EXCEPT ![e] = result]
    BY DEF ProcessReturns
  <1>2. /\ pc[w] = "process"
        /\ pc' = [pc EXCEPT ![w] = IF result = "ok" THEN "ackOk" ELSE "statusErr"]
        /\ UNCHANGED <<sent, cursor, group, owner, orphans, status, faults, stage, starts,
                       reply, claims, todo, runs>>
    BY DEF ProcessReturns, redisVars
  <1>3. e \in Entries /\ owner[e] # NoOwner /\ runs[e] = 1 /\ outcome[e] = "none"
    BY <1>2 DEF TypeOK, Accounting, HandInv
  <1>4. TypeOK'
    BY <1>1, <1>2, <1>3 DEF TypeOK, Phases
  <1>5. status[e] \notin {"Success", "Failed"}
    BY <1>3 DEF Accounting, StatusTellsOutcome
  <1>6. Accounting'
    BY <1>1, <1>2, <1>3, <1>4, <1>5, TaskStep DEF TypeOK, BusyPhases
  <1>7. QED
    BY <1>4, <1>6

LEMMA AckSuccessKeeps ==
    ASSUME TypeOK, Accounting, NEW w \in Workers, AckSuccess(w)
    PROVE  TypeOK' /\ Accounting'
  <1>1. PICK e \in todo[w], ok \in BOOLEAN : Ignoring(ok) /\ AckTask(e, ok)
    BY DEF AckSuccess
  <1>2. /\ pc[w] = "ackOk" /\ pc' = [pc EXCEPT ![w] = "statusOk"]
        /\ UNCHANGED <<sent, cursor, group, orphans, status, stage, starts, reply, claims,
                       todo, runs, outcome>>
    BY DEF AckSuccess, historyVars
  <1>3. faults' \in 0..MaxFaults /\ (faults' = 0 => faults = 0 /\ ok)
    BY <1>1, IgnoringEffect
  <1>4. e \in Entries /\ owner[e] # NoOwner /\ runs[e] = 1 /\ outcome[e] = "ok"
    BY <1>2 DEF TypeOK, Accounting, HandInv
  <1>5. owner' = IF ok THEN [owner EXCEPT ![e] = NoOwner] ELSE owner
    BY <1>1 DEF AckTask
  <1>6. TypeOK'
    BY <1>2, <1>3, <1>4, <1>5 DEF TypeOK, Phases
  <1>7. status[e] # "Failed" /\ (status[e] = "Success" /\ faults = 0 => owner[e] = NoOwner)
    BY <1>4 DEF Accounting, StatusTellsOutcome, SuccessAfterAck
  <1>8. Accounting'
    BY <1>2, <1>3, <1>4, <1>5, <1>6, <1>7, TaskStep DEF TypeOK, BusyPhases
  <1>9. QED
    BY <1>6, <1>8

LEMMA SettleSuccessKeeps ==
    ASSUME TypeOK, Accounting, NEW w \in Workers, SettleSuccess(w)
    PROVE  TypeOK' /\ Accounting'
  <1>1. PICK e \in todo[w], ok \in BOOLEAN :
           Ignoring(ok) /\ UpdateStatus(e, "Success", ok) /\ NextTask(w, e)
    BY DEF SettleSuccess
  <1>2. /\ pc[w] = "statusOk"
        /\ UNCHANGED <<sent, cursor, group, owner, orphans, starts, reply, claims, runs,
                       outcome>>
    BY DEF SettleSuccess, historyVars
  <1>3. /\ todo' = [todo EXCEPT ![w] = {}]
        /\ stage' \in [Workers -> Stages]
        /\ pc' = [pc EXCEPT ![w] = "select"] \/ pc' = [pc EXCEPT ![w] = "fetch"]
    BY <1>1, NextTaskEffect, LeaveEffect DEF Accounting
  <1>4. faults' \in 0..MaxFaults /\ (faults' = 0 => faults = 0 /\ ok)
    BY <1>1, IgnoringEffect
  <1>5. /\ e \in Entries /\ runs[e] = 1 /\ outcome[e] = "ok"
        /\ faults = 0 => owner[e] = NoOwner
    BY <1>2 DEF TypeOK, Accounting, HandInv
  <1>6. status' = IF ok THEN [status EXCEPT ![e] = "Success"] ELSE status
    BY <1>1 DEF UpdateStatus
  <1>7. TypeOK'
    BY <1>2, <1>3, <1>4, <1>5, <1>6 DEF TypeOK, Phases
  <1>8. status[e] # "Failed"
    BY <1>5 DEF Accounting, StatusTellsOutcome
  <1>9. Accounting'
    <2>1. /\ \A v \in Workers \ {w} : pc'[v] = pc[v]
          /\ todo'[w] = {} /\ pc'[w] \notin BusyPhases
      BY <1>3 DEF TypeOK, BusyPhases
    <2>2. \A f \in Entries \ {e} : /\ owner'[f] = owner[f] /\ status'[f] = status[f]
                                   /\ runs'[f] = runs[f] /\ outcome'[f] = outcome[f]
      BY <1>2, <1>6 DEF TypeOK
    <2>3. /\ runs'[e] = 1 /\ outcome'[e] = "ok" /\ status'[e] # "Failed"
          /\ faults' = 0 => owner'[e] = NoOwner
      BY <1>2, <1>4, <1>5, <1>6, <1>8 DEF TypeOK
    <2>4. QED
      BY <1>2, <1>3, <1>4, <1>7, <2>1, <2>2, <2>3, TaskStep
  <1>10. QED
    BY <1>7, <1>9

LEMMA SettleFailureKeeps ==
    ASSUME TypeOK, Accounting, NEW w \in Workers, SettleFailure(w)
    PROVE  TypeOK' /\ Accounting'
  <1>1. PICK e \in todo[w], ok \in BOOLEAN :
           /\ Ignoring(ok)
           /\ UpdateStatus(e, "Failed", ok)
           /\ \/ NextTask(w, e)
              \/ pc' = [pc EXCEPT ![w] = "ackErr"] /\ UNCHANGED <<stage, todo>>
    BY DEF SettleFailure
  <1>2. /\ pc[w] = "statusErr"
        /\ UNCHANGED <<sent, cursor, group, owner, orphans, starts, reply, claims, runs,
                       outcome>>
    BY DEF SettleFailure, historyVars
  <1>3. \/ /\ todo' = [todo EXCEPT ![w] = {}]
           /\ stage' \in [Workers -> Stages]
           /\ pc' = [pc EXCEPT ![w] = "select"] \/ pc' = [pc EXCEPT ![w] = "fetch"]
        \/ pc' = [pc EXCEPT ![w] = "ackErr"] /\ UNCHANGED <<stage, todo>>
    BY <1>1, NextTaskEffect, LeaveEffect DEF Accounting
  <1>4. faults' \in 0..MaxFaults /\ (faults' = 0 => faults = 0 /\ ok)
    BY <1>1, IgnoringEffect
  <1>5. e \in Entries /\ runs[e] = 1 /\ outcome[e] = "err" /\ owner[e] # NoOwner
    BY <1>2 DEF TypeOK, Accounting, HandInv
  <1>6. status' = IF ok THEN [status EXCEPT ![e] = "Failed"] ELSE status
    BY <1>1 DEF UpdateStatus
  <1>7. TypeOK'
    BY <1>2, <1>3, <1>4, <1>5, <1>6 DEF TypeOK, Phases
  <1>8. status[e] # "Success"
    BY <1>5 DEF Accounting, StatusTellsOutcome
  <1>9. Accounting'
    <2>1. /\ \A v \in Workers \ {w} : pc'[v] = pc[v]
          /\ todo' = todo \/ todo' = [todo EXCEPT ![w] = {}]
      BY <1>3 DEF TypeOK
    <2>2. /\ todo'[w] # {} <=> pc'[w] \in BusyPhases
          /\ todo'[w] # {} => pc'[w] = "ackErr"
      BY <1>3 DEF TypeOK, BusyPhases
    <2>3. \A f \in Entries \ {e} : /\ owner'[f] = owner[f] /\ status'[f] = status[f]
                                   /\ runs'[f] = runs[f] /\ outcome'[f] = outcome[f]
      BY <1>2, <1>6 DEF TypeOK
    <2>4. /\ runs'[e] = 1 /\ outcome'[e] = "err" /\ status'[e] # "Success"
          /\ owner'[e] # NoOwner
      BY <1>2, <1>5, <1>6, <1>8 DEF TypeOK
    <2>5. QED
      BY <1>2, <1>4, <1>7, <2>1, <2>2, <2>3, <2>4, TaskStep
  <1>10. QED
    BY <1>7, <1>9

LEMMA AckFailureKeeps ==
    ASSUME TypeOK, Accounting, NEW w \in Workers, AckFailure(w)
    PROVE  TypeOK' /\ Accounting'
  <1>1. PICK e \in todo[w], ok \in BOOLEAN :
           Ignoring(ok) /\ AckTask(e, ok) /\ NextTask(w, e)
    BY DEF AckFailure
  <1>2. /\ pc[w] = "ackErr"
        /\ UNCHANGED <<sent, cursor, group, orphans, status, starts, reply, claims, runs,
                       outcome>>
    BY DEF AckFailure, historyVars
  <1>3. /\ todo' = [todo EXCEPT ![w] = {}]
        /\ stage' \in [Workers -> Stages]
        /\ pc' = [pc EXCEPT ![w] = "select"] \/ pc' = [pc EXCEPT ![w] = "fetch"]
    BY <1>1, NextTaskEffect, LeaveEffect DEF Accounting
  <1>4. faults' \in 0..MaxFaults /\ (faults' = 0 => faults = 0 /\ ok)
    BY <1>1, IgnoringEffect
  <1>5. e \in Entries /\ runs[e] = 1 /\ outcome[e] = "err"
    BY <1>2 DEF TypeOK, Accounting, HandInv
  <1>6. owner' = IF ok THEN [owner EXCEPT ![e] = NoOwner] ELSE owner
    BY <1>1 DEF AckTask
  <1>7. TypeOK'
    BY <1>2, <1>3, <1>4, <1>5, <1>6 DEF TypeOK, Phases
  <1>8. status[e] # "Success"
    BY <1>5 DEF Accounting, StatusTellsOutcome
  <1>9. Accounting'
    BY <1>2, <1>3, <1>4, <1>5, <1>6, <1>7, <1>8, TaskStep DEF TypeOK, BusyPhases
  <1>10. QED
    BY <1>7, <1>9

-----------------------------------------------------------------------------
(* Theorems *)

LEMMA InitInv == Init => QueueInv
  <1> SUFFICES ASSUME Init PROVE QueueInv
    OBVIOUS
  <1>1. TypeOK
    BY TaskQueueAssumption DEF Init, TypeOK, Phases, Stages
  <1>2. HandInv /\ ExclusiveInv
    BY DEF Init, HandInv, ExclusiveInv, BusyPhases
  <1>3. FutureInv /\ HistoryInv /\ PendingUntilReturned /\ StatusTellsOutcome /\ SuccessAfterAck
    BY DEF Init, FutureInv, HistoryInv, PendingUntilReturned, StatusTellsOutcome,
           SuccessAfterAck, Untouched
  <1>4. QED
    BY <1>1, <1>2, <1>3 DEF QueueInv

LEMMA NextInv == QueueInv /\ [Next]_vars => QueueInv'
  <1> SUFFICES ASSUME TypeOK, Accounting, [Next]_vars
               PROVE  TypeOK' /\ Accounting'
    BY DEF QueueInv, Accounting
  <1>1. CASE PushTask
    BY <1>1, PushTaskKeeps
  <1>2. CASE RedisStep
    <2>1. ASSUME NEW w \in Workers, DeliverToWorker(w) \/ BlockExpires(w)
          PROVE  TypeOK' /\ Accounting'
      BY <2>1, DeliverToWorkerKeeps, BlockExpiresKeeps
    <2>2. ASSUME NEW c \in orphans, DeliverToOrphan(c) \/ OrphanExpires(c)
          PROVE  TypeOK' /\ Accounting'
      BY <2>2, DeliverToOrphanKeeps, OrphanExpiresKeeps DEF TypeOK
    <2>3. QED
      BY <1>2, <2>1, <2>2 DEF RedisStep
  <1>3. ASSUME NEW w \in Workers, WorkerStep(w)
        PROVE  TypeOK' /\ Accounting'
    BY <1>3, InitConsumerGroupKeeps, ConsumePendingKeeps, ListPendingKeeps,
       ClaimPendingKeeps, ReclaimReturnsKeeps, SendReadKeeps, ConsumeTaskKeeps,
       StartTaskKeeps, AckSuccessKeeps, SettleSuccessKeeps, SettleFailureKeeps,
       AckFailureKeeps DEF WorkerStep
  <1>4. ASSUME NEW w \in Workers, QueueStep(w)
        PROVE  TypeOK' /\ Accounting'
    BY <1>3, <1>4, ConsumeFailsKeeps, ReclaimTickKeeps, ShutdownKeeps, RestartKeeps
    DEF QueueStep
  <1>5. ASSUME NEW w \in Workers,
               \/ Crash(w) \/ ProcessReportsRunning(w)
               \/ \E result \in {"ok", "err"} : ProcessReturns(w, result)
        PROVE  TypeOK' /\ Accounting'
    BY <1>5, CrashKeeps, ProcessReportsRunningKeeps, ProcessReturnsKeeps
  <1>6. CASE UNCHANGED vars
    BY <1>6 DEF vars, redisVars, workerVars, historyVars, TypeOK, Accounting, FutureInv,
       HandInv, ExclusiveInv, HistoryInv, PendingUntilReturned, StatusTellsOutcome,
       SuccessAfterAck, Untouched
  <1>7. QED
    BY <1>1, <1>2, <1>4, <1>5, <1>6 DEF Next

\* The strengthened invariant of the queue holds in every reachable state.
THEOREM QueueInvariant == Spec => []QueueInv
  BY InitInv, NextInv, PTL DEF Spec

\* Every variable keeps its type.
THEOREM TypeCorrect == Spec => []TypeOK
  <1>1. QueueInv => TypeOK
    BY DEF QueueInv
  <1>2. QED
    BY <1>1, QueueInvariant, PTL

\* start_worker never calls process() twice for an entry.
THEOREM ProcessedAtMostOnce == Spec => []AtMostOnce
  <1>1. QueueInv => AtMostOnce
    BY DEF QueueInv, HistoryInv, AtMostOnce
  <1>2. QED
    BY <1>1, QueueInvariant, PTL

\* Two workers never have the same task in hand.
THEOREM TasksNotShared == Spec => []NoSharedTask
  <1>1. QueueInv => NoSharedTask
    BY DEF QueueInv, ExclusiveInv, NoSharedTask
  <1>2. QED
    BY <1>1, QueueInvariant, PTL

\* No task leaves the pending list before its process() has returned,
\* whatever crashes, reads and claims come in between.
THEOREM PendingTasksStay == Spec => []PendingUntilReturned
  <1>1. QueueInv => PendingUntilReturned
    BY DEF QueueInv
  <1>2. QED
    BY <1>1, QueueInvariant, PTL

\* The status hash says what process() returned, or not yet that much.
THEOREM StatusIsTrue == Spec => []StatusTellsOutcome
  <1>1. QueueInv => StatusTellsOutcome
    BY DEF QueueInv
  <1>2. QED
    BY <1>1, QueueInvariant, PTL

\* A task that the status hash calls a success has been acknowledged, unless a
\* Redis call failed unnoticed.
THEOREM SuccessIsAcknowledged == Spec => []SuccessAfterAck
  <1>1. QueueInv => SuccessAfterAck
    BY DEF QueueInv
  <1>2. QED
    BY <1>1, QueueInvariant, PTL

-----------------------------------------------------------------------------
(* A terminal status is final *)

\* Four actions write the status of an entry, and each has in hand an entry whose
\* status its outcome still leaves open.
LEMMA TerminalStays ==
    ASSUME QueueInv, [Next]_vars, NEW e \in Entries, status[e] \in {"Success", "Failed"}
    PROVE  status'[e] = status[e]
  <1> USE DEF QueueInv
  <1>1. ASSUME NEW w \in Workers, StartTask(w) PROVE status'[e] = status[e]
    <2>1. PICK f \in todo[w], ok \in BOOLEAN :
             status' = IF ok THEN [status EXCEPT ![f] = "Running"] ELSE status
      BY <1>1 DEF StartTask
    <2>2. status[f] = "none"
      BY <1>1 DEF StartTask, HandInv, Untouched
    <2>3. QED
      BY <2>1, <2>2 DEF TypeOK
  <1>2. ASSUME NEW w \in Workers, SettleSuccess(w) PROVE status'[e] = status[e]
    <2>1. PICK f \in todo[w], ok \in BOOLEAN :
             status' = IF ok THEN [status EXCEPT ![f] = "Success"] ELSE status
      BY <1>2 DEF SettleSuccess, UpdateStatus
    <2>2. status[f] # "Failed"
      BY <1>2 DEF SettleSuccess, HandInv, StatusTellsOutcome, TypeOK
    <2>3. QED
      BY <2>1, <2>2 DEF TypeOK
  <1>3. ASSUME NEW w \in Workers, SettleFailure(w) PROVE status'[e] = status[e]
    <2>1. PICK f \in todo[w], ok \in BOOLEAN :
             status' = IF ok THEN [status EXCEPT ![f] = "Failed"] ELSE status
      BY <1>3 DEF SettleFailure, UpdateStatus
    <2>2. status[f] # "Success"
      BY <1>3 DEF SettleFailure, HandInv, StatusTellsOutcome, TypeOK
    <2>3. QED
      BY <2>1, <2>2 DEF TypeOK
  <1>4. CASE PushTask
    BY <1>4 DEF PushTask
  <1>5. CASE RedisStep
    BY <1>5 DEF RedisStep, DeliverToWorker, DeliverToOrphan, Deliver, BlockExpires,
       OrphanExpires, redisVars
  <1>6. ASSUME NEW w \in Workers, QueueStep(w) PROVE status'[e] = status[e]
    BY <1>1, <1>2, <1>3, <1>6
    DEF QueueStep, WorkerStep, InitConsumerGroup, ConsumePending, ListPending, ClaimPending,
        ReclaimReturns, SendRead, ConsumeTask, AckSuccess, AckFailure, ConsumeFails,
        ReclaimTick, Shutdown, Restart, redisVars
  <1>7. ASSUME NEW w \in Workers,
               Crash(w) \/ \E result \in {"ok", "err"} : ProcessReturns(w, result)
        PROVE  status'[e] = status[e]
    BY <1>7 DEF Crash, ProcessReturns, redisVars
  <1>8. ASSUME NEW w \in Workers, ProcessReportsRunning(w) PROVE status'[e] = status[e]
    <2>1. PICK f \in todo[w] : status' = [status EXCEPT ![f] = "Running"]
      BY <1>8 DEF ProcessReportsRunning
    <2>2. status[f] \notin {"Success", "Failed"}
      BY <1>8 DEF ProcessReportsRunning, HandInv, StatusTellsOutcome, TypeOK
    <2>3. QED
      BY <2>1, <2>2 DEF TypeOK
  <1>9. CASE UNCHANGED vars
    BY <1>9 DEF vars, redisVars
  <1>10. QED
    BY <1>4, <1>5, <1>6, <1>7, <1>8, <1>9 DEF Next

\* A client that polled Success or Failed never sees another status later.
THEOREM StatusIsFinal == Spec => TerminalStatusFinal
  <1>1. QueueInv /\ [Next]_vars
        => [\A e \in Entries : status[e] \in {"Success", "Failed"} => status'[e] = status[e]]_vars
    BY TerminalStays
  <1>2. QED
    BY <1>1, QueueInvariant, PTL DEF Spec, TerminalStatusFinal

-----------------------------------------------------------------------------
(* Refinement of TaskDelivery *)

\* A step that starts and ends no processing and delivers nothing is a stutter.
LEMMA Stutter ==
    ASSUME TypeOK, UNCHANGED <<sent, cursor, runs, outcome>>,
           \A w \in Workers, e \in Entries :
              (pc'[w] = "process" /\ e \in todo'[w]) <=> (pc[w] = "process" /\ e \in todo[w])
    PROVE  UNCHANGED Delivery!vars
  <1>1. Running' = Running
    BY DEF Running
  <1>2. Finished' = Finished /\ Abandoned' = Abandoned
    BY <1>1 DEF Finished, Abandoned
  <1>3. QED
    BY <1>1, <1>2 DEF Delivery!vars

\* So is a step of w outside process().
LEMMA OutsideProcess ==
    ASSUME TypeOK, UNCHANGED <<sent, cursor, runs, outcome>>, NEW w \in Workers,
           pc[w] # "process", pc'[w] # "process",
           \A v \in Workers \ {w} : pc'[v] = pc[v] /\ todo'[v] = todo[v]
    PROVE  UNCHANGED Delivery!vars
  <1>1. \A v \in Workers, e \in Entries :
           (pc'[v] = "process" /\ e \in todo'[v]) <=> (pc[v] = "process" /\ e \in todo[v])
    OBVIOUS
  <1>2. QED
    BY <1>1, Stutter

LEMMA PushIsSubmit ==
    ASSUME TypeOK, PushTask
    PROVE  Delivery!Submit
  <1>1. UNCHANGED <<cursor, pc, todo, runs, outcome>>
    BY DEF PushTask, workerVars, historyVars
  <1>2. Running' = Running
    BY <1>1 DEF Running
  <1>3. Finished' = Finished /\ Abandoned' = Abandoned
    BY <1>1, <1>2 DEF Finished, Abandoned
  <1>4. QED
    BY <1>1, <1>2, <1>3 DEF PushTask, Delivery!Submit

LEMMA DeliverIsTakeAll ==
    ASSUME TypeOK, NEW c, Deliver(c),
           \A w \in Workers : pc'[w] = "process" <=> pc[w] = "process"
    PROVE  Delivery!TakeAll
  <1>1. UNCHANGED <<sent, todo, runs, outcome>> /\ cursor' = sent
    BY DEF Deliver, historyVars
  <1>2. cursor < sent
    BY DEF TypeOK, Deliver, Undelivered
  <1>3. Running' = Running
    BY <1>1 DEF Running
  <1>4. Finished' = Finished /\ Abandoned' = Abandoned
    BY <1>1, <1>3 DEF Finished, Abandoned
  <1>5. QED
    BY <1>1, <1>2, <1>3, <1>4 DEF Delivery!TakeAll

LEMMA StartIsStart ==
    ASSUME QueueInv, NEW w \in Workers, StartTask(w)
    PROVE  \E e \in Entries : Delivery!StartProcessing(w, e)
  <1>1. PICK e \in todo[w] : runs' = [runs EXCEPT ![e] = @ + 1]
    BY DEF StartTask
  <1>2. /\ pc[w] = "mark" /\ pc' = [pc EXCEPT ![w] = "process"]
        /\ UNCHANGED <<sent, cursor, todo, outcome>>
    BY DEF StartTask
  <1>3. e \in Entries /\ todo[w] = {e} /\ e <= cursor /\ Untouched(e)
    BY <1>2 DEF QueueInv, TypeOK, HandInv
  <1>4. \A v \in Workers \ {w} : e \notin todo[v] /\ pc'[v] = pc[v]
    BY <1>2, <1>3 DEF QueueInv, TypeOK, ExclusiveInv
  <1>5. Running' = Running \cup {<<w, e>>}
    BY <1>2, <1>3, <1>4 DEF QueueInv, TypeOK, Running
  <1>6. Finished' = Finished
    BY <1>2 DEF Finished
  <1>7. Abandoned' = Abandoned
    <2>1. \A f \in Entries \ {e} : runs'[f] = runs[f]
      BY <1>1 DEF QueueInv, TypeOK
    <2>2. \A f \in Entries \ {e}, v \in Workers : <<v, f>> \in Running' <=> <<v, f>> \in Running
      BY <1>5
    <2>3. e \notin Abandoned
      BY <1>3 DEF Abandoned, Untouched
    <2>4. e \notin Abandoned'
      BY <1>5 DEF Abandoned
    <2>5. QED
      BY <1>2, <2>1, <2>2, <2>3, <2>4 DEF Abandoned
  <1>8. e \notin Finished \cup Abandoned
    BY <1>3 DEF Finished, Abandoned, Untouched
  <1>9. \A r \in Running : r[1] # w /\ r[2] # e
    BY <1>2, <1>4 DEF Running
  <1>10. Delivery!StartProcessing(w, e)
    BY <1>2, <1>3, <1>5, <1>6, <1>7, <1>8, <1>9 DEF Delivery!StartProcessing
  <1>11. QED
    BY <1>3, <1>10

\* What w's leaving process() does to the pairs of workers and tasks.
LEMMA EndOfProcess ==
    ASSUME QueueInv, NEW w \in Workers, NEW e \in todo[w],
           pc[w] = "process", pc'[w] # "process",
           \A v \in Workers \ {w} : pc'[v] = pc[v] /\ todo'[v] = todo[v]
    PROVE  /\ e \in Entries /\ runs[e] = 1 /\ outcome[e] = "none"
           /\ <<w, e>> \in Running
           /\ Running' = Running \ {<<w, e>>}
           /\ \A v \in Workers : <<v, e>> \notin Running'
  <1>1. e \in Entries /\ todo[w] = {e} /\ runs[e] = 1 /\ outcome[e] = "none"
    BY DEF QueueInv, TypeOK, HandInv
  <1>2. \A v \in Workers \ {w} : e \notin todo[v]
    BY <1>1 DEF QueueInv, ExclusiveInv
  <1>3. <<w, e>> \in Running
    BY <1>1 DEF Running
  <1>4. Running' = Running \ {<<w, e>>}
    BY <1>1 DEF Running
  <1>5. QED
    BY <1>1, <1>2, <1>3, <1>4 DEF Running

LEMMA ReturnIsFinish ==
    ASSUME QueueInv, NEW w \in Workers, NEW result \in {"ok", "err"}, ProcessReturns(w, result)
    PROVE  \E e \in Entries : Delivery!Finish(w, e)
  <1>1. PICK e \in todo[w] : outcome' = [outcome EXCEPT ![e] = result]
    BY DEF ProcessReturns
  <1>2. /\ pc[w] = "process" /\ pc'[w] # "process"
        /\ \A v \in Workers \ {w} : pc'[v] = pc[v] /\ todo'[v] = todo[v]
        /\ UNCHANGED <<sent, cursor, runs>>
    BY DEF QueueInv, TypeOK, ProcessReturns, redisVars
  <1>3. /\ e \in Entries /\ runs[e] = 1 /\ outcome[e] = "none"
        /\ <<w, e>> \in Running
        /\ Running' = Running \ {<<w, e>>}
    BY <1>2, EndOfProcess
  <1>4. Finished' = Finished \cup {e}
    BY <1>1, <1>3 DEF QueueInv, TypeOK, Finished
  <1>5. Abandoned' = Abandoned
    <2>1. \A f \in Entries \ {e} : outcome'[f] = outcome[f]
      BY <1>1 DEF QueueInv, TypeOK
    <2>2. \A f \in Entries \ {e}, v \in Workers : <<v, f>> \in Running' <=> <<v, f>> \in Running
      BY <1>3
    <2>3. e \notin Abandoned /\ e \notin Abandoned'
      BY <1>1, <1>3 DEF QueueInv, TypeOK, Abandoned
    <2>4. QED
      BY <1>2, <2>1, <2>2, <2>3 DEF Abandoned
  <1>6. Delivery!Finish(w, e)
    BY <1>2, <1>3, <1>4, <1>5 DEF Delivery!Finish
  <1>7. QED
    BY <1>3, <1>6

LEMMA CrashIsAbandon ==
    ASSUME QueueInv, NEW w \in Workers, Crash(w)
    PROVE  (\E e \in Entries : Delivery!Abandon(w, e)) \/ UNCHANGED Delivery!vars
  <1>1. /\ pc'[w] # "process"
        /\ \A v \in Workers \ {w} : pc'[v] = pc[v] /\ todo'[v] = todo[v]
        /\ UNCHANGED <<sent, cursor, runs, outcome>>
    BY DEF QueueInv, TypeOK, Crash, historyVars
  <1>2. CASE pc[w] # "process"
    BY <1>1, <1>2, OutsideProcess DEF QueueInv
  <1>3. CASE pc[w] = "process"
    <2>1. PICK e \in todo[w] : TRUE
      BY <1>3 DEF QueueInv, HandInv, BusyPhases
    <2>2. /\ e \in Entries /\ runs[e] = 1 /\ outcome[e] = "none"
          /\ <<w, e>> \in Running
          /\ Running' = Running \ {<<w, e>>}
          /\ \A v \in Workers : <<v, e>> \notin Running'
      BY <1>1, <1>3, EndOfProcess
    <2>3. Finished' = Finished
      BY <1>1 DEF Finished
    <2>4. Abandoned' = Abandoned \cup {e}
      <3>1. \A f \in Entries \ {e}, v \in Workers : <<v, f>> \in Running' <=> <<v, f>> \in Running
        BY <2>2
      <3>2. e \in Abandoned'
        BY <1>1, <2>2 DEF Abandoned
      <3>3. QED
        BY <1>1, <3>1, <3>2 DEF Abandoned
    <2>5. Delivery!Abandon(w, e)
      BY <1>1, <2>2, <2>3, <2>4 DEF Delivery!Abandon
    <2>6. QED
      BY <2>2, <2>5
  <1>4. QED
    BY <1>2, <1>3

\* Every step of the queue is a step of TaskDelivery or changes nothing there.
LEMMA StepSimulation ==
    ASSUME QueueInv, QueueInv', [Next]_vars
    PROVE  Delivery!Next \/ UNCHANGED Delivery!vars
  <1> DEFINE Simulated == Delivery!Next \/ UNCHANGED Delivery!vars
  <1>1. CASE PushTask
    BY <1>1, PushIsSubmit DEF QueueInv, Delivery!Next
  <1>2. ASSUME NEW w \in Workers, DeliverToWorker(w) PROVE Simulated
    <2>1. \A v \in Workers : pc'[v] = "process" <=> pc[v] = "process"
      BY <1>2 DEF QueueInv, TypeOK, DeliverToWorker
    <2>2. Delivery!TakeAll
      BY <1>2, <2>1, DeliverIsTakeAll DEF QueueInv, DeliverToWorker
    <2>3. QED
      BY <2>2 DEF Delivery!Next
  <1>3. ASSUME NEW c \in orphans, DeliverToOrphan(c) PROVE Simulated
    BY <1>3, DeliverIsTakeAll DEF QueueInv, DeliverToOrphan, Delivery!Next
  <1>4. ASSUME NEW c \in orphans, OrphanExpires(c) PROVE Simulated
    BY <1>4, Stutter DEF QueueInv, OrphanExpires, workerVars, historyVars
  <1>4a. ASSUME NEW w \in Workers, ProcessReportsRunning(w) PROVE Simulated
    BY <1>4a, Stutter DEF QueueInv, ProcessReportsRunning, workerVars, historyVars
  <1>5. ASSUME NEW w \in Workers, StartTask(w) PROVE Simulated
    BY <1>5, StartIsStart DEF Delivery!Next, Delivery!Tasks
  <1>6. ASSUME NEW w \in Workers, NEW result \in {"ok", "err"}, ProcessReturns(w, result)
        PROVE  Simulated
    BY <1>6, ReturnIsFinish DEF Delivery!Next, Delivery!Tasks
  <1>7. ASSUME NEW w \in Workers, Crash(w) PROVE Simulated
    BY <1>7, CrashIsAbandon DEF Delivery!Next, Delivery!Tasks
  <1>8. ASSUME NEW w \in Workers,
               \/ InitConsumerGroup(w) \/ SendRead(w) \/ BlockExpires(w) \/ ListPending(w)
               \/ ConsumeTask(w) \/ ConsumeFails(w) \/ ReclaimTick(w) \/ Shutdown(w)
               \/ Restart(w) \/ AckSuccess(w)
        PROVE  Simulated
    <2>1. /\ UNCHANGED <<sent, cursor, runs, outcome>>
          /\ pc[w] # "process" /\ pc'[w] # "process"
          /\ \A v \in Workers \ {w} : pc'[v] = pc[v] /\ todo'[v] = todo[v]
      BY <1>8 DEF QueueInv, TypeOK, InitConsumerGroup, SendRead, BlockExpires, ListPending,
         ConsumeTask, ConsumeFails, ReclaimTick, Shutdown, Restart, AckSuccess, redisVars,
         historyVars
    <2>2. QED
      BY <2>1, OutsideProcess DEF QueueInv
  <1>9. ASSUME NEW w \in Workers,
               \/ ConsumePending(w) \/ ReclaimReturns(w) \/ ClaimPending(w)
               \/ SettleSuccess(w) \/ SettleFailure(w) \/ AckFailure(w)
        PROVE  Simulated
    <2>1. /\ UNCHANGED <<sent, cursor, runs, outcome>>
          /\ pc[w] # "process"
      BY <1>9 DEF ConsumePending, ReclaimReturns, ClaimPending, SettleSuccess, SettleFailure,
         AckFailure, redisVars, historyVars
    <2>2. /\ pc'[w] # "process"
          /\ \A v \in Workers \ {w} : pc'[v] = pc[v] /\ todo'[v] = todo[v]
      BY <1>9 DEF QueueInv, TypeOK, ConsumePending, ReclaimReturns, ClaimPending,
         SettleSuccess, SettleFailure, AckFailure, NextTask, Leave
    <2>3. QED
      BY <2>1, <2>2, OutsideProcess DEF QueueInv
  <1>10. CASE UNCHANGED vars
    BY <1>10, Stutter DEF QueueInv, vars, redisVars, workerVars, historyVars
  <1>11. CASE RedisStep
    BY <1>2, <1>3, <1>4, <1>8, <1>11 DEF RedisStep
  <1>12. ASSUME NEW w \in Workers, QueueStep(w) PROVE Simulated
    BY <1>5, <1>8, <1>9, <1>12 DEF QueueStep, WorkerStep
  <1>13. QED
    BY <1>1, <1>4a, <1>6, <1>7, <1>10, <1>11, <1>12 DEF Next

\* The queue of queue.rs implements TaskDelivery.
THEOREM QueueImplementsDelivery == Spec => DeliverySpec
  <1>1. Init => Delivery!Init
    <2> SUFFICES ASSUME Init PROVE Delivery!Init
      OBVIOUS
    <2>1. Running = {}
      BY DEF Init, Running
    <2>2. Finished = {} /\ Abandoned = {}
      BY DEF Init, Finished, Abandoned
    <2>3. QED
      BY <2>1, <2>2 DEF Init, Delivery!Init
  <1>2. QueueInv /\ QueueInv' /\ [Next]_vars => [Delivery!Next]_(Delivery!vars)
    BY StepSimulation
  <1>3. QED
    BY <1>1, <1>2, QueueInvariant, PTL DEF Spec, DeliverySpec, Delivery!Spec

-----------------------------------------------------------------------------
(* The replies and the loops that parse them *)

\* A finite set of entries can be listed in the order of their ids.
LEMMA Listed ==
    ASSUME NEW S, S \subseteq Nat, IsFiniteSet(S)
    PROVE  /\ Cardinality(S) \in Nat
           /\ InOrder(S) \in [1..Cardinality(S) -> S]
           /\ \A i, j \in 1..Cardinality(S) : i < j => InOrder(S)[i] < InOrder(S)[j]
<1> DEFINE Listing(s, ids) ==
             /\ ids \in [1..Cardinality(s) -> s]
             /\ \A i, j \in 1..Cardinality(s) : i < j => ids[i] < ids[j]
           T == {s \in SUBSET S : \E ids : Listing(s, ids)}
<1>1. ASSUME NEW s \in SUBSET S, \A x \in s : s \ {x} \in T
      PROVE  s \in T
  <2>0. IsFiniteSet(s) /\ Cardinality(s) \in Nat
    BY FS_Subset, FS_CardinalityType
  <2>1. CASE s = {}
    <3>1. 1..Cardinality(s) = {}
      BY <2>1, FS_EmptySet
    <3>2. Listing(s, [i \in 1..Cardinality(s) |-> 0])
      BY <3>1
    <3> QED  BY <3>2
  <2>2. CASE s # {}
    <3>1. PICK m \in s : \A x \in s : m <= x
      BY <2>2, LeastNatural
    <3> DEFINE c == Cardinality(s)
               rest == s \ {m}
    <3>2. c \in Nat /\ Cardinality(rest) = c - 1 /\ rest \in T
      BY <1>1, <2>0, FS_RemoveElement, FS_CardinalityType
    <3>3. PICK ids : /\ ids \in [1..(c - 1) -> rest]
                     /\ \A i, j \in 1..(c - 1) : i < j => ids[i] < ids[j]
      BY <3>2
    <3> HIDE DEF c
    <3> DEFINE new == [i \in 1..c |-> IF i = 1 THEN m ELSE ids[i - 1]]
    <3>4. \A i \in 1..c : i # 1 => i - 1 \in 1..(c - 1)
      BY <3>2
    <3>5. \A i \in 1..c : i # 1 => new[i] \in rest /\ new[i] = ids[i - 1] /\ m < new[i]
      <4>1. \A x \in rest : x \in Nat /\ m < x
        BY <3>1
      <4> QED  BY <3>3, <3>4, <4>1
    <3>6. new \in [1..c -> s]
      BY <3>1, <3>5
    <3>7. ASSUME NEW i \in 1..c, NEW j \in 1..c, i < j
          PROVE  new[i] < new[j]
      <4>1. j # 1
        BY <3>7
      <4>2. CASE i = 1
        BY <3>5, <4>1, <4>2
      <4>3. CASE i # 1
        <5>1. i - 1 < j - 1
          BY <3>7
        <5>2. ids[i - 1] < ids[j - 1]
          BY <3>3, <3>4, <4>1, <4>3, <5>1
        <5> QED  BY <3>5, <4>1, <4>3, <5>2
      <4> QED  BY <4>2, <4>3
    <3> HIDE DEF new
    <3>8. Listing(s, new)
      BY <3>6, <3>7 DEF c
    <3> QED  BY <3>8
  <2> QED  BY <2>1, <2>2
<1>2. T = SUBSET S
  <2>1. T \subseteq SUBSET S
    OBVIOUS
  <2> HIDE DEF T
  <2> QED  BY <1>1, <2>1, SubsetInduction
<1>3. \E ids : Listing(S, ids)
  BY <1>2
<1>4. \E ids \in [1..Cardinality(S) -> S] : \A i, j \in DOMAIN ids : i < j => ids[i] < ids[j]
  BY <1>3
<1>5. /\ InOrder(S) \in [1..Cardinality(S) -> S]
      /\ \A i, j \in DOMAIN InOrder(S) : i < j => InOrder(S)[i] < InOrder(S)[j]
  BY <1>4 DEF InOrder
<1> QED  BY <1>5, FS_CardinalityType

\* The entries of an XREADGROUP reply are what its nested loops take for one entry.
LEMMA EntriesTakenForOne ==
    ASSUME NEW ids
    PROVE  /\ Reply!ItemLists(Reply!StreamsReply(ids)) = {<<1, 2>>}
           /\ Reply!At(Reply!StreamsReply(ids), <<1, 2>>) = Reply!EntryList(ids)
<1> DEFINE list == Reply!EntryList(ids)
           stream == Reply!Bulk(<<Reply!Data("stream", 0), list>>)
           answer == Reply!StreamsReply(ids)
<1>1. /\ Reply!IsBulk(list)
      /\ Reply!Elements(stream) = <<Reply!Data("stream", 0), list>>
      /\ Reply!Elements(answer) = <<stream>>
  BY DEF Reply!EntryList, Reply!StreamsReply, Reply!Elements, Reply!IsBulk, Reply!Bulk
<1>2. ~Reply!IsBulk(Reply!Data("stream", 0))
  BY DEF Reply!IsBulk, Reply!Data
<1> HIDE DEF list, stream, answer
<1> DEFINE head == Reply!Data("stream", 0)
<1> HIDE DEF head
<1>3. Reply!Elements(answer) = <<stream>> /\ Reply!Elements(stream) = <<head, list>>
  BY <1>1 DEF head
<1>4. Reply!Places(answer) = {<<1, 1>>, <<1, 2>>}
  BY <1>3 DEF Reply!Places
<1>5. Reply!At(answer, <<1, 1>>) = head /\ Reply!At(answer, <<1, 2>>) = list
  BY <1>3 DEF Reply!At
<1>6. Reply!ItemLists(answer) = {<<1, 2>>}
  BY <1>1, <1>2, <1>4, <1>5 DEF Reply!ItemLists, head
<1> QED  BY <1>5, <1>6 DEF list, answer

\* What stands under the id and the fields of one entry.
LEMMA EntryYields ==
    ASSUME NEW e
    PROVE  /\ Reply!IsBulk(Reply!EntryValue(e)) /\ ~Reply!IsData(Reply!EntryValue(e))
           /\ Reply!TasksUnder(Reply!EntryValue(e).items) = {e}
           /\ Reply!TaskValues(Reply!EntryValue(e).items) = {}
<1> DEFINE fields == <<Reply!Data("task", 0), Reply!Data("json", e)>>
           items == <<Reply!Data("id", e), Reply!Bulk(fields)>>
<1>1. /\ Reply!EntryValue(e).items = items
      /\ Reply!IsBulk(Reply!EntryValue(e)) /\ ~Reply!IsData(Reply!EntryValue(e))
  BY DEF Reply!EntryValue, Reply!Bulk, Reply!IsBulk, Reply!IsData
<1>2. /\ Len(fields) = 2 /\ Reply!IsData(fields[1]) /\ Reply!IsData(fields[2])
      /\ fields[1].text = "task" /\ fields[2].of = e
  BY DEF Reply!Data, Reply!IsData
<1>3. /\ Len(items) = 2 /\ Reply!IsData(items[1]) /\ Reply!IsBulk(items[2])
      /\ items[2].items = fields /\ items[1].text # "task"
  BY DEF Reply!Data, Reply!IsData, Reply!Bulk, Reply!IsBulk
<1> HIDE DEF fields, items
<1>4. 1..(2 - 1) = {1} /\ 1 % 2 = 1
  OBVIOUS
<1>5. Reply!TaskValues(fields) = {e}
  BY <1>2, <1>4 DEF Reply!TaskValues
<1>6. Reply!TaskValues(items) = {}
  BY <1>3, <1>4 DEF Reply!TaskValues
<1>7. Reply!TasksUnder(items) = {e}
  BY <1>3, <1>5 DEF Reply!TasksUnder
<1> QED  BY <1>1, <1>6, <1>7

\* The list of n entries, read as if it were one.
LEMMA ListTakenForEntry ==
    ASSUME NEW n \in Nat, NEW ids, DOMAIN ids = 1..n,
           NEW items, items = Reply!EntryList(ids).items
    PROVE  /\ Reply!TasksUnder(items) = {}
           /\ Reply!ConsumeEntry(items) = IF n = 1 THEN {ids[1]} ELSE {}
<1>1. items = [i \in 1..n |-> Reply!EntryValue(ids[i])]
  BY DEF Reply!EntryList, Reply!Bulk
<1>2. items \in Seq({Reply!EntryValue(ids[i]) : i \in 1..n}) /\ Len(items) = n
  BY <1>1
<1>3. n >= 1 => items[1] = Reply!EntryValue(ids[1])
  BY <1>1
<1>4. n >= 1 => Reply!IsBulk(items[1]) /\ ~Reply!IsData(items[1])
  BY <1>3, EntryYields
<1>5. Reply!TasksUnder(items) = {}
  BY <1>2, <1>4 DEF Reply!TasksUnder
<1>6. CASE n = 1
  <2>1. items[1] = Reply!EntryValue(ids[1]) /\ Reply!IsBulk(items[1])
    BY <1>3, <1>4, <1>6
  <2>2. Reply!TasksUnder(items[1].items) = {ids[1]}
    BY <2>1, EntryYields
  <2>3. Reply!ConsumeEntry(items) = Reply!TasksUnder(items[1].items)
    <3>1. Len(items) = 1
      BY <1>2, <1>6
    <3> QED  BY <2>1, <3>1 DEF Reply!ConsumeEntry
  <2> QED  BY <1>5, <1>6, <2>2, <2>3
<1>7. CASE n # 1
  BY <1>2, <1>5, <1>7 DEF Reply!ConsumeEntry
<1> QED  BY <1>5, <1>6, <1>7

LEMMA NewRepliesAgree ==
    ASSUME NEW n \in Nat, NEW ids \in [1..n -> Nat],
           \A i, j \in 1..n : i < j => ids[i] < ids[j]
    PROVE  Reply!NewAgrees(ids)
<1>1. CASE ids = <<>>
  <2>1. Reply!Elements(Reply!NewReply(ids)) = <<>>
    BY <1>1 DEF Reply!NewReply, Reply!Nil, Reply!Elements, Reply!IsBulk
  <2>2. Reply!ItemLists(Reply!NewReply(ids)) = {}
    BY <2>1 DEF Reply!ItemLists, Reply!Places
  <2>3. Reply!ConsumeTaskReturns(Reply!NewReply(ids)) = {}
    BY <2>2 DEF Reply!ConsumeTaskReturns
  <2>4. Reply!Range(ids) = {}
    BY <1>1 DEF Reply!Range
  <2>5. Reply!NewReturned({}) = {}
    BY DEF Reply!NewReturned
  <2> QED  BY <2>3, <2>4, <2>5 DEF Reply!NewAgrees
<1>2. CASE ids # <<>>
  <2> DEFINE answer == Reply!StreamsReply(ids)
             items == Reply!EntryList(ids).items
             got == Reply!ConsumeEntry(items)
  <2>1. n >= 1
    BY <1>2
  <2>2. Reply!NewReply(ids) = answer
    BY <1>2 DEF Reply!NewReply
  <2>3. /\ Reply!ItemLists(answer) = {<<1, 2>>}
        /\ Reply!At(answer, <<1, 2>>).items = items
    BY EntriesTakenForOne
  <2>4. got = IF n = 1 THEN {ids[1]} ELSE {}
    BY ListTakenForEntry
  <2> HIDE DEF answer, items, got
  <2>5. Reply!ConsumeTaskReturns(answer) = got
    BY <2>3 DEF Reply!ConsumeTaskReturns, got
  <2>6. Reply!NewReturned(Reply!Range(ids)) = got
    <3>1. Reply!Range(ids) = {ids[i] : i \in 1..n}
      BY DEF Reply!Range
    <3>2. CASE n = 1
      <4>1. Reply!Range(ids) = {ids[1]}
        BY <3>1, <3>2
      <4> QED  BY <2>4, <3>2, <4>1 DEF Reply!NewReturned
    <3>3. CASE n # 1
      <4>1. ids[1] < ids[2] /\ ids[1] \in Nat /\ ids[2] \in Nat
            /\ ids[1] \in Reply!Range(ids) /\ ids[2] \in Reply!Range(ids)
        BY <2>1, <3>1, <3>3
      <4> QED  BY <2>4, <3>3, <4>1 DEF Reply!NewReturned
    <3> QED  BY <3>2, <3>3
  <2> QED  BY <2>2, <2>5, <2>6 DEF Reply!NewAgrees
<1> QED  BY <1>1, <1>2

LEMMA PendingRepliesAgree ==
    ASSUME NEW n \in Nat, NEW ids \in [1..n -> Nat]
    PROVE  Reply!PendingAgrees(ids)
<1> DEFINE answer == Reply!StreamsReply(ids)
           items == Reply!EntryList(ids).items
<1>1. Reply!PendingReply(ids) = answer
  BY DEF Reply!PendingReply
<1>2. /\ Reply!ItemLists(answer) = {<<1, 2>>}
      /\ Reply!At(answer, <<1, 2>>).items = items
  BY EntriesTakenForOne
<1>3. Reply!TasksUnder(items) = {}
  BY ListTakenForEntry
<1> HIDE DEF answer, items
<1>4. Reply!ConsumePendingReturns(answer) = {}
  BY <1>2, <1>3 DEF Reply!ConsumePendingReturns, Reply!PendingEntry
<1> QED  BY <1>1, <1>4 DEF Reply!PendingAgrees, Reply!PendingReturned

LEMMA ClaimRepliesAgree ==
    ASSUME NEW ids
    PROVE  Reply!ClaimAgrees(ids)
<1>1. Reply!ReclaimReturns(Reply!ClaimReply(<<>>)) = {}
  <2>1. DOMAIN Reply!Elements(Reply!ClaimReply(<<>>)) = {}
    BY DEF Reply!ClaimReply, Reply!EntryList, Reply!Elements, Reply!Bulk, Reply!IsBulk
  <2> QED  BY <2>1 DEF Reply!ReclaimReturns, Reply!Claimed, Reply!Range
<1>2. ASSUME NEW e
      PROVE  Reply!ReclaimReturns(Reply!ClaimReply(<<e>>)) = {}
  <2> DEFINE v == Reply!EntryValue(e)
             claim == Reply!ClaimReply(<<e>>)
  <2>1. Reply!Elements(claim) = [i \in DOMAIN <<e>> |-> Reply!EntryValue(<<e>>[i])]
    BY DEF Reply!ClaimReply, Reply!EntryList, Reply!Elements, Reply!Bulk, Reply!IsBulk
  <2>2. Reply!Claimed(claim) = {v}
    <3>1. Reply!Range(Reply!Elements(claim)) = {v}
      BY <2>1 DEF Reply!Range
    <3>2. Reply!IsBulk(v)
      BY EntryYields
    <3> HIDE DEF v, claim
    <3> QED  BY <3>1, <3>2 DEF Reply!Claimed
  <2>3. Reply!TaskValues(v.items) = {}
    BY EntryYields
  <2> HIDE DEF v, claim
  <2>4. Reply!ReclaimReturns(claim) = {}
    BY <2>2, <2>3 DEF Reply!ReclaimReturns
  <2> QED  BY <2>4 DEF claim
<1> QED  BY <1>1, <1>2 DEF Reply!ClaimAgrees, Reply!ClaimReturned

\* The parsing loops take out of every reply what the queue's steps say.
LEMMA RepliesAlwaysAgree ==
    ASSUME TypeOK
    PROVE  RepliesAgree
<1>1. \A S \in SUBSET Nat : IsFiniteSet(S) =>
         Reply!NewAgrees(InOrder(S)) /\ Reply!PendingAgrees(InOrder(S))
  <2> SUFFICES ASSUME NEW S \in SUBSET Nat, IsFiniteSet(S)
               PROVE  Reply!NewAgrees(InOrder(S)) /\ Reply!PendingAgrees(InOrder(S))
    OBVIOUS
  <2> DEFINE n == Cardinality(S)
             ids == InOrder(S)
  <2>1. /\ n \in Nat /\ ids \in [1..n -> Nat]
        /\ \A i, j \in 1..n : i < j => ids[i] < ids[j]
    BY Listed
  <2> HIDE DEF n, ids
  <2>2. Reply!NewAgrees(ids) /\ Reply!PendingAgrees(ids)
    BY <2>1, NewRepliesAgree, PendingRepliesAgree
  <2> QED  BY <2>2 DEF ids
<1>2. Undelivered \in SUBSET Nat /\ IsFiniteSet(Undelivered)
  <2>1. cursor + 1 \in Nat /\ sent \in Nat
    BY TaskQueueAssumption DEF TypeOK
  <2> QED  BY <2>1, FS_Interval DEF Undelivered
<1>3. \A w \in Workers : PendingOf(w) \in SUBSET Nat /\ IsFiniteSet(PendingOf(w))
  <2>1. IsFiniteSet(Entries) /\ Entries \subseteq Nat
    BY TaskQueueAssumption, FS_Interval DEF Entries
  <2>2. \A w \in Workers : PendingOf(w) \subseteq Entries
    BY DEF PendingOf
  <2> QED  BY <2>1, <2>2, FS_Subset
<1> QED  BY <1>1, <1>2, <1>3, ClaimRepliesAgree DEF RepliesAgree

\* Whatever is pending or undelivered, the loops of consume_task, consume_pending
\* and reclaim_pending return of its reply what the queue is said to return.
THEOREM RepliesAreRead == Spec => []RepliesAgree
  <1>1. QueueInv => RepliesAgree
    BY RepliesAlwaysAgree DEF QueueInv
  <1>2. QED
    BY <1>1, QueueInvariant, PTL
=============================================================================
