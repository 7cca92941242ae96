-------------------------- MODULE ReturnedTasks --------------------------
(***************************************************************************)
(* Which of the entries that a Redis reply carries reach the caller of the *)
(* three reading functions of queue.rs.  TaskQueue uses these; RedisReply  *)
(* derives them from the replies' shape and the functions' parsing loops.  *)
(***************************************************************************)

\* Mutants: the two recovery loops with the nesting they take for granted
\* corrected, so that recovery starts to work.
PendingReturnedWhole(batch) == batch
ClaimReturnedWhole(e) == {e}

\* consume_task: the entry of a reply that carries exactly one.  With two or
\* more the loop meets a list where it expects an entry id, and skips it.
NewReturned(batch) == {e \in batch : batch = {e}}

\* consume_pending: its loop does not look inside the list of entries, so no
\* entry of a reply is ever returned.
PendingReturned(batch) == {}

\* reclaim_pending: its loop looks for the key "task" among the two elements
\* of a claimed entry, its id and its field list, and does not find it.
ClaimReturned(e) == {}
=============================================================================
