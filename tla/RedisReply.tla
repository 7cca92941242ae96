---------------------------- MODULE RedisReply ----------------------------
(***************************************************************************)
(* The replies of XREADGROUP and XCLAIM as redis::Value trees (RESP2), and *)
(* the loops of consume_task, consume_pending and reclaim_pending in       *)
(* server-rust/src/queue.rs that take tasks out of them.                   *)
(*                                                                         *)
(* A module of functions: MCTaskQueue evaluates them, in every state of    *)
(* the queue, on the replies that Redis would send in that state.          *)
(***************************************************************************)
EXTENDS Naturals, Sequences, Functions, ReturnedTasks

-----------------------------------------------------------------------------
(* Values *)

Data(text, of) == [kind |-> "data", text |-> text, of |-> of]
Bulk(items) == [kind |-> "bulk", items |-> items]
Nil == [kind |-> "nil"]

IsData(v) == v.kind = "data"
IsBulk(v) == v.kind = "bulk"

\* Redis: an entry is its id and the list of its fields; XADD of push_task
\* writes the one field "task".  Entries come in a list, and XREADGROUP wraps
\* the list with the name of its stream, in a list of streams.
EntryValue(e) == Bulk(<<Data("id", e), Bulk(<<Data("task", 0), Data("json", e)>>)>>)
EntryList(ids) == Bulk([i \in DOMAIN ids |-> EntryValue(ids[i])])
StreamsReply(ids) == Bulk(<<Bulk(<<Data("stream", 0), EntryList(ids)>>)>>)

\* Redis: reading new entries answers Nil when the block time runs out, reading
\* pending ones an empty list; XCLAIM answers the list of claimed entries.
NewReply(ids) == IF ids = <<>> THEN Nil ELSE StreamsReply(ids)
PendingReply(ids) == StreamsReply(ids)
ClaimReply(ids) == EntryList(ids)

-----------------------------------------------------------------------------
(* Loops *)

\* `if let Value::Bulk(xs) = v { for x in xs .. }`
Elements(v) == IF IsBulk(v) THEN v.items ELSE <<>>

\* The values two levels down, by the positions of the two outer loops.
At(reply, p) == Elements(Elements(reply)[p[1]])[p[2]]
Places(reply) ==
    UNION {{<<i, j>> : j \in DOMAIN Elements(Elements(reply)[i])} : i \in DOMAIN Elements(reply)}

\* Those that the loops call an entry and destructure as `items`.
ItemLists(reply) == {p \in Places(reply) : IsBulk(At(reply, p))}

\* `for i in (0..fields.len()).step_by(2)`: the values under the key "task".
TaskValues(fields) ==
    {fields[i + 1].of : i \in {k \in 1..(Len(fields) - 1) :
                                 /\ k % 2 = 1
                                 /\ IsData(fields[k]) /\ fields[k].text = "task"
                                 /\ IsData(fields[k + 1])}}

\* Destructures an id and a list of fields; nothing where the code `continue`s.
TasksUnder(items) ==
    IF Len(items) >= 2 /\ IsData(items[1]) /\ IsBulk(items[2])
    THEN TaskValues(items[2].items) ELSE {}

\* consume_task looks one level deeper when items has a single element, which
\* consume_pending does not.
ConsumeEntry(items) ==
    IF Len(items) = 1 /\ IsBulk(items[1]) THEN TasksUnder(items[1].items) ELSE TasksUnder(items)
PendingEntry(items) == TasksUnder(items)

\* consume_task returns at the first entry with a task.
ConsumeTaskReturns(reply) ==
    LET Tasks(p) == ConsumeEntry(At(reply, p).items)
        found == {p \in ItemLists(reply) : Tasks(p) # {}}
    IN  UNION {Tasks(p) : p \in {q \in found :
                  \A r \in found : q[1] < r[1] \/ (q[1] = r[1] /\ q[2] <= r[2])}}

\* consume_pending collects all.
ConsumePendingReturns(reply) ==
    UNION {PendingEntry(At(reply, p).items) : p \in ItemLists(reply)}

Claimed(reply) == {v \in Range(Elements(reply)) : IsBulk(v)}

\* Mutant: reclaim_pending that looks for "task" in the field list.
ReclaimReturnsFields(reply) == UNION {TaskValues(Elements(v.items[2])) : v \in Claimed(reply)}

\* reclaim_pending takes the elements of each claimed item for its fields.
ReclaimReturns(reply) == UNION {TaskValues(v.items) : v \in Claimed(reply)}

-----------------------------------------------------------------------------
(* What TaskQueue assumes of the loops, for a reply that carries batch *)

\* consume_task returns the task of a reply with one entry and nothing of a
\* reply with more.
NewAgrees(batch) == ConsumeTaskReturns(NewReply(batch)) = NewReturned(Range(batch))

\* consume_pending returns nothing, whatever its reply carries.
PendingAgrees(batch) == ConsumePendingReturns(PendingReply(batch)) = PendingReturned(Range(batch))

\* reclaim_pending returns nothing, whether XCLAIM claimed the entry or not.
ClaimAgrees(batch) ==
    /\ ReclaimReturns(ClaimReply(<<>>)) = {}
    /\ \A e \in Range(batch) : ReclaimReturns(ClaimReply(<<e>>)) = ClaimReturned(e)
=============================================================================
