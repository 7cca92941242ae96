-------------------------- MODULE JobLifecycle --------------------------
(***************************************************************************)
(* What a client of the backtest API sees of a job: it is pending, then it *)
(* succeeds or fails once, its result can be read from the moment it has   *)
(* succeeded until somebody deletes it, and a deleted job stays deleted.   *)
(***************************************************************************)
CONSTANT Jobs

VARIABLES
    state,      \* what GET /backtest/{id} answers
    readable    \* the jobs with a result to read

vars == <<state, readable>>

Init ==
    /\ state = [j \in Jobs |-> "none"]
    /\ readable = {}

Submit(j) ==
    /\ state[j] = "none"
    /\ state' = [state EXCEPT ![j] = "pending"]
    /\ UNCHANGED readable

Succeed(j) ==
    /\ state[j] = "pending"
    /\ state' = [state EXCEPT ![j] = "success"]
    /\ readable' = readable \cup {j}

Fail(j) ==
    /\ state[j] = "pending"
    /\ state' = [state EXCEPT ![j] = "failed"]
    /\ UNCHANGED readable

\* A deletion removes the result, and then, unless the database fails, the job.
Withdraw(j) ==
    /\ j \in readable
    /\ readable' = readable \ {j}
    /\ UNCHANGED state

Delete(j) ==
    /\ state[j] \in {"pending", "success", "failed"}
    /\ state' = [state EXCEPT ![j] = "deleted"]
    /\ readable' = readable \ {j}

Next == \E j \in Jobs : Submit(j) \/ Succeed(j) \/ Fail(j) \/ Withdraw(j) \/ Delete(j)

Spec == Init /\ [][Next]_vars
=============================================================================
