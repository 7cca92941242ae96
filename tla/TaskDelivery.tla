--------------------------- MODULE TaskDelivery ---------------------------
(***************************************************************************)
(* What the task queue of queue.rs gives its users, without streams,       *)
(* consumer groups or replies: tasks leave the queue in order, a worker    *)
(* processes one task at a time, and a task is processed at most once - a  *)
(* task that was taken out and not started, or started by a process that   *)
(* died, is never given to anybody again.                                  *)
(***************************************************************************)
EXTENDS Naturals

CONSTANTS Workers, MaxTasks

VARIABLES
    submitted,  \* tasks submitted
    taken,      \* tasks taken out of the queue
    running,    \* pairs of a worker and the task it is processing
    finished,   \* tasks whose processing has returned
    abandoned   \* tasks whose worker died while it processed them

vars == <<submitted, taken, running, finished, abandoned>>

Tasks == 1..MaxTasks

Init ==
    /\ submitted = 0
    /\ taken = 0
    /\ running = {}
    /\ finished = {}
    /\ abandoned = {}

Submit ==
    /\ submitted < MaxTasks
    /\ submitted' = submitted + 1
    /\ UNCHANGED <<taken, running, finished, abandoned>>

\* All submitted tasks go at once.
TakeAll ==
    /\ taken < submitted
    /\ taken' = submitted
    /\ UNCHANGED <<submitted, running, finished, abandoned>>

StartProcessing(w, e) ==
    /\ e <= taken
    /\ e \notin finished \cup abandoned
    /\ \A r \in running : r[1] # w /\ r[2] # e
    /\ running' = running \cup {<<w, e>>}
    /\ UNCHANGED <<submitted, taken, finished, abandoned>>

Finish(w, e) ==
    /\ <<w, e>> \in running
    /\ running' = running \ {<<w, e>>}
    /\ finished' = finished \cup {e}
    /\ UNCHANGED <<submitted, taken, abandoned>>

Abandon(w, e) ==
    /\ <<w, e>> \in running
    /\ running' = running \ {<<w, e>>}
    /\ abandoned' = abandoned \cup {e}
    /\ UNCHANGED <<submitted, taken, finished>>

Next ==
    \/ Submit
    \/ TakeAll
    \/ \E w \in Workers, e \in Tasks :
          StartProcessing(w, e) \/ Finish(w, e) \/ Abandon(w, e)

Spec == Init /\ [][Next]_vars
=============================================================================
