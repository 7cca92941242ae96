---------------------------- MODULE TaskQueue ----------------------------
(***************************************************************************)
(* The Redis Streams task queue of server-rust/src/queue.rs: one stream,   *)
(* one consumer group, and the worker processes that run start_worker().   *)
(*                                                                         *)
(* Entries are numbered in the order of their XADD, so the stream is the   *)
(* interval 1..sent and the group's last-delivered id is the number        *)
(* cursor.  The pending entries list (PEL) of the group is the function    *)
(* owner: the consumer an unacknowledged entry was delivered to.  What     *)
(* process() does with a task belongs to BacktestJobs; here it only        *)
(* returns Ok or Err.                                                      *)
(***************************************************************************)
EXTENDS Naturals, ReturnedTasks

CONSTANTS Workers,      \* the worker processes (`acda-q-server --worker`)
          MaxTasks,     \* bound: how many tasks are ever pushed
          MaxRestarts,  \* bound: how often each worker process is started again
          MaxFaults     \* bound: how many Redis calls fail with an ignored error

ASSUME TaskQueueAssumption ==
    /\ MaxTasks \in Nat
    /\ MaxRestarts \in Nat
    /\ MaxFaults \in Nat

Entries == 1..MaxTasks

\* A process names itself worker_{uuid} when it starts, so the name is new
\* after every restart: the process and the number of the start stand for it.
Consumers == Workers \X (0..MaxRestarts)
NoOwner == <<>>

\* Where in start_worker() the entries at hand came from.
Stages == {"startPending", "startReclaim", "tickPending", "tickReclaim", "new"}
Phases == {"down", "init", "fetch", "claim", "select", "blocked", "replied",
           "mark", "process", "ackOk", "statusOk", "statusErr", "ackErr"}

VARIABLES
    \* Redis
    sent,       \* entries in the stream
    cursor,     \* last entry delivered to the group
    group,      \* whether the consumer group exists
    owner,      \* the pending entries list
    orphans,    \* consumers whose abandoned XREADGROUP still blocks in Redis
    status,     \* the hashes task:status:{id}
    faults,     \* ignored Redis errors so far
    \* the worker processes
    pc, stage, starts,
    reply,      \* entries in the XREADGROUP reply not yet polled by select!
    claims,     \* entries XPENDING listed and XCLAIM has not yet been sent for
    todo,       \* entries the current branch has in hand
    \* history, read by properties only
    runs,       \* how often process() was called for an entry
    outcome     \* what its last process() call returned

redisVars == <<sent, cursor, group, owner, orphans, status, faults>>
workerVars == <<pc, stage, starts, reply, claims, todo>>
historyVars == <<runs, outcome>>
vars == <<redisVars, workerVars, historyVars>>

TypeOK ==
    /\ sent \in 0..MaxTasks
    /\ cursor \in 0..MaxTasks
    /\ group \in BOOLEAN
    /\ owner \in [Entries -> Consumers \cup {NoOwner}]
    /\ orphans \in SUBSET Consumers
    /\ status \in [Entries -> {"none", "Running", "Success", "Failed"}]
    /\ faults \in 0..MaxFaults
    /\ pc \in [Workers -> Phases]
    /\ stage \in [Workers -> Stages]
    /\ starts \in [Workers -> 0..MaxRestarts]
    /\ reply \in [Workers -> SUBSET Entries]
    /\ claims \in [Workers -> SUBSET Entries]
    /\ todo \in [Workers -> SUBSET Entries]
    /\ runs \in [Entries -> Nat]
    /\ outcome \in [Entries -> {"none", "ok", "err"}]

\* The API process creates the group as well when it starts, and goes on when
\* that fails, so workers may find the group or not.
Init ==
    /\ sent = 0
    /\ cursor = 0
    /\ group \in BOOLEAN
    /\ owner = [e \in Entries |-> NoOwner]
    /\ orphans = {}
    /\ status = [e \in Entries |-> "none"]
    /\ faults = 0
    /\ pc = [w \in Workers |-> "init"]
    /\ stage = [w \in Workers |-> "startPending"]
    /\ starts = [w \in Workers |-> 0]
    /\ reply = [w \in Workers |-> {}]
    /\ claims = [w \in Workers |-> {}]
    /\ todo = [w \in Workers |-> {}]
    /\ runs = [e \in Entries |-> 0]
    /\ outcome = [e \in Entries |-> "none"]

-----------------------------------------------------------------------------
(* Helpers *)

Name(w) == <<w, starts[w]>>

Pending == {e \in Entries : owner[e] # NoOwner}
PendingOf(w) == {e \in Entries : owner[e] = Name(w)}
Undelivered == (cursor + 1)..sent

\* The entries of a branch are processed one after the other, in id order.
IsNext(w, e) == e \in todo[w] /\ \A f \in todo[w] : e <= f

\* The stage after all entries of a stage have been processed.
After(s) == CASE s = "startPending" -> "startReclaim"
              [] s = "tickPending"  -> "tickReclaim"
              [] OTHER              -> "new"

\* w leaves its stage for the next one: the main loop is the stage "new".
Leave(w) ==
    /\ stage' = [stage EXCEPT ![w] = After(@)]
    /\ pc' = [pc EXCEPT ![w] = IF After(stage[w]) = "new" THEN "select" ELSE "fetch"]

\* A Redis call whose error the caller drops with .ok(): it succeeds or not.
Ignoring(ok) ==
    /\ ok \in BOOLEAN
    /\ ok \/ faults < MaxFaults
    /\ faults' = IF ok THEN faults ELSE faults + 1

\* Mutant: the future of consume_task survives, with the reply it holds.
ForgetNothing(w) ==
    /\ orphans' = IF pc[w] = "blocked" THEN orphans \cup {Name(w)} ELSE orphans
    /\ UNCHANGED reply

\* w's process is gone: what it held in memory is lost, and a read it was
\* blocked in is left to Redis.
Forget(w) ==
    /\ orphans' = IF pc[w] = "blocked" THEN orphans \cup {Name(w)} ELSE orphans
    /\ reply' = [reply EXCEPT ![w] = {}]

-----------------------------------------------------------------------------
(* Producers *)

\* push_task: XADD; no status hash is written for a new task.
PushTask ==
    /\ sent < MaxTasks
    /\ sent' = sent + 1
    /\ UNCHANGED <<cursor, group, owner, orphans, status, faults, workerVars, historyVars>>

-----------------------------------------------------------------------------
(* Start of a worker *)

\* Mutant: the group is created at "$", the current end of the stream.
InitConsumerGroupAtEnd(w) ==
    /\ pc[w] = "init"
    /\ pc' = [pc EXCEPT ![w] = "fetch"]
    /\ stage' = [stage EXCEPT ![w] = "startPending"]
    /\ \E ok \in BOOLEAN :
          /\ Ignoring(ok)
          /\ group' = (group \/ ok)
          /\ cursor' = IF ok /\ ~group THEN sent ELSE cursor
    /\ UNCHANGED <<sent, owner, orphans, status, starts, reply, claims, todo, historyVars>>

\* init_consumer_group: creates the group at id 0 unless it exists; the result
\* is dropped and never tried again.
InitConsumerGroup(w) ==
    /\ pc[w] = "init"
    /\ pc' = [pc EXCEPT ![w] = "fetch"]
    /\ stage' = [stage EXCEPT ![w] = "startPending"]
    /\ \E ok \in BOOLEAN :
          /\ Ignoring(ok)
          /\ group' = (group \/ ok)
    /\ UNCHANGED <<sent, cursor, owner, orphans, status, starts, reply, claims, todo,
                   historyVars>>

\* consume_pending at start-up and at every tick: reads the consumer's own
\* pending entries, changes no ownership.  An error counts as no entries.
ConsumePending(w) ==
    /\ pc[w] = "fetch"
    /\ stage[w] \in {"startPending", "tickPending"}
    /\ todo' = [todo EXCEPT ![w] = PendingReturned(PendingOf(w))]
    /\ IF todo'[w] = {}
       THEN Leave(w)
       ELSE pc' = [pc EXCEPT ![w] = "mark"] /\ UNCHANGED stage
    /\ UNCHANGED <<redisVars, starts, reply, claims, historyVars>>

\* reclaim_pending, first half: XPENDING lists the pending entries of every
\* consumer, and those idle for min_idle_ms are kept.  At start-up min_idle_ms
\* is 0: all are kept; at a tick it is 5000: any of them may be that old.  An
\* XPENDING that fails keeps none.  (It lists 100 entries at most, which no bound here
\* reaches.)
ListPending(w) ==
    /\ pc[w] = "fetch"
    /\ stage[w] \in {"startReclaim", "tickReclaim"}
    /\ \E idle \in IF stage[w] = "startReclaim" THEN {Pending, {}} ELSE SUBSET Pending :
          claims' = [claims EXCEPT ![w] = idle]
    /\ pc' = [pc EXCEPT ![w] = "claim"]
    /\ UNCHANGED <<redisVars, stage, starts, reply, todo, historyVars>>

\* reclaim_pending, second half: one XCLAIM per listed entry, which has no
\* effect on an entry acknowledged meanwhile and, with a positive
\* min_idle_ms, on one another consumer touched meanwhile.
ClaimPending(w) ==
    /\ pc[w] = "claim"
    /\ \E e \in claims[w] :
          /\ \A f \in claims[w] : e <= f
          /\ claims' = [claims EXCEPT ![w] = @ \ {e}]
          /\ \/ /\ owner[e] # NoOwner
                /\ owner' = [owner EXCEPT ![e] = Name(w)]
                /\ todo' = [todo EXCEPT ![w] = @ \cup ClaimReturned(e)]
             \/ /\ owner[e] = NoOwner \/ stage[w] = "tickReclaim"
                /\ UNCHANGED <<owner, todo>>
    /\ UNCHANGED <<sent, cursor, group, orphans, status, faults, pc, stage, starts, reply,
                   historyVars>>

\* reclaim_pending returns: after the last XCLAIM with what it collected, or
\* at the first one that fails with nothing.
ReclaimReturns(w) ==
    /\ pc[w] = "claim"
    /\ \/ claims[w] = {} /\ UNCHANGED <<faults, todo>>
       \/ /\ claims[w] # {}
          /\ Ignoring(FALSE)
          /\ todo' = [todo EXCEPT ![w] = {}]
    /\ claims' = [claims EXCEPT ![w] = {}]
    /\ IF todo'[w] = {}
       THEN Leave(w)
       ELSE pc' = [pc EXCEPT ![w] = "mark"] /\ UNCHANGED stage
    /\ UNCHANGED <<sent, cursor, group, owner, orphans, status, starts, reply, historyVars>>

-----------------------------------------------------------------------------
(* The select! loop *)

\* The branch consume_task(500) is polled: XREADGROUP BLOCK 500 is sent.
\* Without a group it is an error and the loop sleeps and tries again.
SendRead(w) ==
    /\ pc[w] = "select"
    /\ group
    /\ pc' = [pc EXCEPT ![w] = "blocked"]
    /\ UNCHANGED <<redisVars, stage, starts, reply, claims, todo, historyVars>>

\* Mutant: XREADGROUP with NOACK, which keeps no pending entry.
DeliverNoAck(c) ==
    /\ Undelivered # {}
    /\ cursor' = sent
    /\ UNCHANGED <<sent, group, owner, status, faults, stage, starts, claims, todo,
                   historyVars>>

\* Redis answers a blocked XREADGROUP: it has no COUNT, so all new entries go
\* to the pending list of its consumer.
Deliver(c) ==
    /\ Undelivered # {}
    /\ owner' = [e \in Entries |-> IF e \in Undelivered THEN c ELSE owner[e]]
    /\ cursor' = sent
    /\ UNCHANGED <<sent, group, status, faults, stage, starts, claims, todo, historyVars>>

DeliverToWorker(w) ==
    /\ pc[w] = "blocked"
    /\ Deliver(Name(w))
    /\ reply' = [reply EXCEPT ![w] = Undelivered]
    /\ pc' = [pc EXCEPT ![w] = "replied"]
    /\ UNCHANGED orphans

\* The same for a read whose caller is gone: nobody sees the reply.
DeliverToOrphan(c) ==
    /\ c \in orphans
    /\ Deliver(c)
    /\ orphans' = orphans \ {c}
    /\ UNCHANGED <<pc, reply>>

\* 500 ms pass without a new entry: consume_task returns Ok(None).
BlockExpires(w) ==
    /\ pc[w] = "blocked"
    /\ Undelivered = {}
    /\ pc' = [pc EXCEPT ![w] = "select"]
    /\ UNCHANGED <<redisVars, stage, starts, reply, claims, todo, historyVars>>

OrphanExpires(c) ==
    /\ c \in orphans
    /\ Undelivered = {}
    /\ orphans' = orphans \ {c}
    /\ UNCHANGED <<sent, cursor, group, owner, status, faults, workerVars, historyVars>>

\* select! completes the consume_task branch: the reply is parsed, and what
\* the parser returns is the task in hand.
ConsumeTask(w) ==
    /\ pc[w] = "replied"
    /\ todo' = [todo EXCEPT ![w] = NewReturned(reply[w])]
    /\ reply' = [reply EXCEPT ![w] = {}]
    /\ pc' = [pc EXCEPT ![w] = IF todo'[w] = {} THEN "select" ELSE "mark"]
    /\ UNCHANGED <<redisVars, stage, starts, claims, historyVars>>

\* consume_task fails (lost connection): logged, one second of sleep, loop.
ConsumeFails(w) ==
    /\ pc[w] \in {"blocked", "replied"}
    /\ faults < MaxFaults
    /\ faults' = faults + 1
    /\ Forget(w)
    /\ pc' = [pc EXCEPT ![w] = "select"]
    /\ UNCHANGED <<sent, cursor, group, owner, status, stage, starts, claims, todo,
                   historyVars>>

\* select! completes the five-second tick: the future of consume_task is
\* dropped wherever it was, its command stays blocked in Redis.
ReclaimTick(w) ==
    /\ pc[w] \in {"select", "blocked", "replied"}
    /\ Forget(w)
    /\ pc' = [pc EXCEPT ![w] = "fetch"]
    /\ stage' = [stage EXCEPT ![w] = "tickPending"]
    /\ UNCHANGED <<sent, cursor, group, owner, status, faults, starts, claims, todo,
                   historyVars>>

\* select! completes the shutdown branch: break, and the process ends.
Shutdown(w) ==
    /\ pc[w] \in {"select", "blocked", "replied"}
    /\ Forget(w)
    /\ pc' = [pc EXCEPT ![w] = "down"]
    /\ UNCHANGED <<sent, cursor, group, owner, status, faults, stage, starts, claims, todo,
                   historyVars>>

-----------------------------------------------------------------------------
(* One task: the body that start_worker repeats for every source of tasks *)

\* Status Running (an error is ignored), then process() is called.
StartTask(w) ==
    /\ pc[w] = "mark"
    /\ \E e \in todo[w], ok \in BOOLEAN :
          /\ IsNext(w, e)
          /\ Ignoring(ok)
          /\ status' = IF ok THEN [status EXCEPT ![e] = "Running"] ELSE status
          /\ runs' = [runs EXCEPT ![e] = @ + 1]
    /\ pc' = [pc EXCEPT ![w] = "process"]
    /\ UNCHANGED <<sent, cursor, group, owner, orphans, stage, starts, reply, claims, todo,
                   outcome>>

\* process() begins with writing status Running itself; the rest of what it
\* does touches nothing of the queue.
ProcessReportsRunning(w) ==
    /\ pc[w] = "process"
    /\ \E e \in todo[w] : IsNext(w, e) /\ status' = [status EXCEPT ![e] = "Running"]
    /\ UNCHANGED <<sent, cursor, group, owner, orphans, faults, workerVars, historyVars>>

\* Mutants: the error of process() is dropped; the status is written before
\* the acknowledgement.
ProcessErrorDropped(w, result) ==
    /\ pc[w] = "process"
    /\ \E e \in todo[w] : IsNext(w, e) /\ outcome' = [outcome EXCEPT ![e] = result]
    /\ pc' = [pc EXCEPT ![w] = "ackOk"]
    /\ UNCHANGED <<redisVars, stage, starts, reply, claims, todo, runs>>

StatusBeforeAck(w, result) ==
    /\ pc[w] = "process"
    /\ \E e \in todo[w] : IsNext(w, e) /\ outcome' = [outcome EXCEPT ![e] = result]
    /\ pc' = [pc EXCEPT ![w] = IF result = "ok" THEN "statusOk" ELSE "statusErr"]
    /\ UNCHANGED <<redisVars, stage, starts, reply, claims, todo, runs>>

\* process() returns.
ProcessReturns(w, result) ==
    /\ pc[w] = "process"
    /\ \E e \in todo[w] : IsNext(w, e) /\ outcome' = [outcome EXCEPT ![e] = result]
    /\ pc' = [pc EXCEPT ![w] = IF result = "ok" THEN "ackOk" ELSE "statusErr"]
    /\ UNCHANGED <<redisVars, stage, starts, reply, claims, todo, runs>>

\* The entry is done with: the next one of the branch, or the next stage.
NextTask(w, e) ==
    /\ todo' = [todo EXCEPT ![w] = @ \ {e}]
    /\ IF todo'[w] = {}
       THEN Leave(w)
       ELSE pc' = [pc EXCEPT ![w] = "mark"] /\ UNCHANGED stage

\* ack_task: XACK removes the entry from the pending list, whoever owns it.
AckTask(e, ok) == owner' = IF ok THEN [owner EXCEPT ![e] = NoOwner] ELSE owner

\* update_task_status: HSET of the status.
UpdateStatus(e, new, ok) == status' = IF ok THEN [status EXCEPT ![e] = new] ELSE status

\* After Ok: first the acknowledgement, then status Success.
AckSuccess(w) ==
    /\ pc[w] = "ackOk"
    /\ \E e \in todo[w], ok \in BOOLEAN :
          IsNext(w, e) /\ Ignoring(ok) /\ AckTask(e, ok)
    /\ pc' = [pc EXCEPT ![w] = "statusOk"]
    /\ UNCHANGED <<sent, cursor, group, orphans, status, stage, starts, reply, claims, todo,
                   historyVars>>

SettleSuccess(w) ==
    /\ pc[w] = "statusOk"
    /\ \E e \in todo[w], ok \in BOOLEAN :
          IsNext(w, e) /\ Ignoring(ok) /\ UpdateStatus(e, "Success", ok) /\ NextTask(w, e)
    /\ UNCHANGED <<sent, cursor, group, owner, orphans, starts, reply, claims, historyVars>>

\* Mutant: a failed task is never acknowledged.
SettleFailureOnly(w) ==
    /\ pc[w] = "statusErr"
    /\ \E e \in todo[w], ok \in BOOLEAN :
          IsNext(w, e) /\ Ignoring(ok) /\ UpdateStatus(e, "Failed", ok) /\ NextTask(w, e)
    /\ UNCHANGED <<sent, cursor, group, owner, orphans, starts, reply, claims, historyVars>>

\* After Err: first status Failed, then the acknowledgement, which start_worker
\* leaves out for the tasks it picks up at start.
SettleFailure(w) ==
    /\ pc[w] = "statusErr"
    /\ \E e \in todo[w], ok \in BOOLEAN :
          /\ IsNext(w, e)
          /\ Ignoring(ok)
          /\ UpdateStatus(e, "Failed", ok)
          /\ IF stage[w] \in {"startPending", "startReclaim"}
             THEN NextTask(w, e)
             ELSE pc' = [pc EXCEPT ![w] = "ackErr"] /\ UNCHANGED <<stage, todo>>
    /\ UNCHANGED <<sent, cursor, group, owner, orphans, starts, reply, claims, historyVars>>

AckFailure(w) ==
    /\ pc[w] = "ackErr"
    /\ \E e \in todo[w], ok \in BOOLEAN :
          IsNext(w, e) /\ Ignoring(ok) /\ AckTask(e, ok) /\ NextTask(w, e)
    /\ UNCHANGED <<sent, cursor, group, orphans, status, starts, reply, claims, historyVars>>

-----------------------------------------------------------------------------
(* Processes *)

\* The process is killed between any two of its steps.
Crash(w) ==
    /\ pc[w] # "down"
    /\ Forget(w)
    /\ pc' = [pc EXCEPT ![w] = "down"]
    /\ claims' = [claims EXCEPT ![w] = {}]
    /\ todo' = [todo EXCEPT ![w] = {}]
    /\ UNCHANGED <<sent, cursor, group, owner, status, faults, stage, starts, historyVars>>

\* `restart: unless-stopped`: a new process with a new consumer name.
Restart(w) ==
    /\ pc[w] = "down"
    /\ starts[w] < MaxRestarts
    /\ starts' = [starts EXCEPT ![w] = @ + 1]
    /\ pc' = [pc EXCEPT ![w] = "init"]
    /\ UNCHANGED <<redisVars, stage, reply, claims, todo, historyVars>>

\* What a running worker does of its own accord; crashes, shutdowns, ticks and
\* faults come from outside.
WorkerStep(w) ==
    \/ InitConsumerGroup(w)
    \/ ConsumePending(w)
    \/ ListPending(w)
    \/ ClaimPending(w)
    \/ ReclaimReturns(w)
    \/ SendRead(w)
    \/ ConsumeTask(w)
    \/ StartTask(w)
    \/ AckSuccess(w)
    \/ SettleSuccess(w)
    \/ SettleFailure(w)
    \/ AckFailure(w)

RedisStep ==
    \/ \E w \in Workers : DeliverToWorker(w) \/ BlockExpires(w)
    \/ \E c \in orphans : DeliverToOrphan(c) \/ OrphanExpires(c)

\* Everything but the inside of process() and the API's pushes.
QueueStep(w) ==
    \/ WorkerStep(w)
    \/ ConsumeFails(w)
    \/ ReclaimTick(w)
    \/ Shutdown(w)
    \/ Restart(w)

Next ==
    \/ PushTask
    \/ RedisStep
    \/ \E w \in Workers :
          \/ QueueStep(w)
          \/ Crash(w)
          \/ ProcessReportsRunning(w)
          \/ \E result \in {"ok", "err"} : ProcessReturns(w, result)

Spec == Init /\ [][Next]_vars

\* Redis answers, the supervisor restarts, and a live worker keeps running.
\* select! polls its branches in random order, so neither the read nor a due
\* tick is passed over for ever.  Nothing makes the API push, an operator shut
\* a worker down, or a process crash.
Fairness ==
    /\ WF_vars(RedisStep)
    /\ \A w \in Workers :
          /\ WF_vars(WorkerStep(w) \/ \E result \in {"ok", "err"} : ProcessReturns(w, result))
          /\ SF_vars(SendRead(w))
          /\ SF_vars(ReclaimTick(w))
          /\ WF_vars(Restart(w))

FairSpec == Spec /\ Fairness

-----------------------------------------------------------------------------
(* Safety *)

\* No task is processed twice: whatever crashes, ticks, shutdowns and swallowed
\* errors interleave, process() is called at most once for an entry.
AtMostOnce == \A e \in Entries : runs[e] <= 1

\* Two workers never have the same task in hand.
NoSharedTask ==
    \A v, w \in Workers : v # w => todo[v] \cap todo[w] = {}

\* A task stays in the pending list until its process() has returned, so a
\* crash in the middle leaves a trace of it in Redis.
PendingUntilReturned ==
    \A e \in Entries : e <= cursor /\ owner[e] = NoOwner => outcome[e] # "none"

\* A poller of task:status never sees Success for a task whose process()
\* failed or did not return, nor Failed for one that succeeded.
StatusTellsOutcome ==
    \A e \in Entries :
       /\ status[e] = "Success" => outcome[e] = "ok"
       /\ status[e] = "Failed" => outcome[e] = "err"

\* A terminal status is final: no second run reports Running again.
TerminalStatusFinal ==
    [][\A e \in Entries : status[e] \in {"Success", "Failed"} => status'[e] = status[e]]_vars

\* The order of the two last steps: a task is reported Success only once it
\* has left the pending list, unless a Redis call failed unnoticed.
SuccessAfterAck ==
    faults = 0 => \A e \in Entries : status[e] = "Success" => owner[e] = NoOwner

-----------------------------------------------------------------------------
(* The inductive invariant behind the safety properties *)

BusyPhases == {"mark", "process", "ackOk", "statusOk", "statusErr", "ackErr"}

Untouched(e) == runs[e] = 0 /\ outcome[e] = "none" /\ status[e] = "none"

\* Nobody knows of an entry before Redis delivers it.
FutureInv ==
    /\ cursor <= sent
    /\ \A e \in Entries : e > cursor => owner[e] = NoOwner /\ Untouched(e)

\* What the program point of a worker says about the entry it has in hand.
HandInv ==
    \A w \in Workers :
       /\ todo[w] # {} <=> pc[w] \in BusyPhases
       /\ \A e, f \in todo[w] : e = f
       /\ reply[w] # {} => pc[w] = "replied"
       /\ \A e \in reply[w] : e <= cursor /\ owner[e] # NoOwner /\ Untouched(e)
       /\ \A e \in todo[w] :
             /\ e <= cursor
             /\ pc[w] = "mark" => Untouched(e)
             /\ pc[w] # "mark" => runs[e] = 1
             /\ pc[w] = "process" => outcome[e] = "none"
             /\ pc[w] \in {"ackOk", "statusOk"} => outcome[e] = "ok"
             /\ pc[w] \in {"statusErr", "ackErr"} => outcome[e] = "err"
             /\ pc[w] # "statusOk" => owner[e] # NoOwner
             /\ pc[w] = "statusOk" /\ faults = 0 => owner[e] = NoOwner

\* An entry reaches at most one worker, also while its reply is on the way.
ExclusiveInv ==
    \A v, w \in Workers :
       v # w => (reply[v] \cup todo[v]) \cap (reply[w] \cup todo[w]) = {}

HistoryInv == \A e \in Entries : runs[e] <= 1 /\ (runs[e] = 0 => Untouched(e))

QueueInv ==
    /\ TypeOK
    /\ FutureInv
    /\ HandInv
    /\ ExclusiveInv
    /\ HistoryInv
    /\ PendingUntilReturned
    /\ StatusTellsOutcome
    /\ SuccessAfterAck

-----------------------------------------------------------------------------
(* Refinement *)

Running == {r \in Workers \X Entries : pc[r[1]] = "process" /\ r[2] \in todo[r[1]]}
Finished == {e \in Entries : outcome[e] # "none"}
Abandoned ==
    {e \in Entries : runs[e] > 0 /\ outcome[e] = "none" /\ \A w \in Workers : <<w, e>> \notin Running}

Delivery == INSTANCE TaskDelivery
    WITH submitted <- sent, taken <- cursor, running <- Running,
         finished <- Finished, abandoned <- Abandoned

\* The queue implements TaskDelivery: whatever Redis, the ticks and the crashes
\* do, a task is taken once, in order, and processed by one worker or nobody.
DeliverySpec == Delivery!Spec

-----------------------------------------------------------------------------
(* Liveness *)

\* A pushed task does not stay unread in the stream, also when it was pushed
\* before the group existed or a read failed: Redis hands it to some consumer,
\* unless every worker has crashed for good, or the one call that creates the
\* group failed at every start and there never is one.
EveryTaskDelivered ==
    \A e \in Entries :
       (e <= sent) ~> \/ owner[e] # NoOwner \/ runs[e] > 0
                      \/ \A w \in Workers : pc[w] = "down" /\ starts[w] = MaxRestarts
                      \/ [](~group /\ faults > 0)

\* A task a worker has in hand is settled and acknowledged, or the worker dies;
\* an acknowledgement that failed is not repeated.
TaskInHandFinishes ==
    \A w \in Workers, e \in Entries :
       (e \in todo[w]) ~> \/ pc[w] = "down"
                          \/ outcome[e] # "none" /\ (owner[e] = NoOwner \/ faults > 0)

\* queue.rs:543, 498 and 573: every five seconds a worker first handles the
\* pending messages of its own consumer and then, as when it starts, reclaims
\* those of dead consumers.  So what Redis delivered to a live consumer or to a
\* dead one is processed by any worker that keeps running.
PendingRecovered ==
    \A c \in Consumers, w \in Workers, e \in Entries :
       (owner[e] = c /\ pc[w] # "down" /\ (c = Name(w) \/ starts[c[1]] > c[2]))
           ~> (runs[e] > 0 \/ pc[w] = "down")
=============================================================================
