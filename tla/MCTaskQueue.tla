--------------------------- MODULE MCTaskQueue ---------------------------
(* Small instances of TaskQueue for TLC. *)
EXTENDS TaskQueue, FiniteSets, TLC

\* The worker processes are interchangeable; used by the safety run only.
WorkerSymmetry == Permutations(Workers)

-----------------------------------------------------------------------------
(* The replies behind the queue's reads, as trees of redis::Value *)

Reply == INSTANCE RedisReply

\* Redis lists entries in the order of their ids.
InOrder(entries) ==
    CHOOSE ids \in [1..Cardinality(entries) -> entries] :
       \A i, j \in DOMAIN ids : i < j => ids[i] < ids[j]

\* For every reply that Redis can send, the three loops take out of it what
\* TaskQueue says they return: consume_task the one task of a single entry, and
\* nothing of a batch, whose shape it mistakes; consume_pending nothing, whatever
\* a live or dead consumer has pending; reclaim_pending nothing of any entry that
\* XCLAIM can claim (queue.rs:173-230, 257-296, 430-455).
RepliesAgree ==
    /\ Reply!NewAgrees(InOrder(Undelivered))
    /\ \A w \in Workers : Reply!PendingAgrees(InOrder(PendingOf(w)))
    /\ Reply!ClaimAgrees(InOrder(Pending))
=============================================================================
