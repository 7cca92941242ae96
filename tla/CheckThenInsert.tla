-------------------------- MODULE CheckThenInsert --------------------------
(***************************************************************************)
(* What a limit is worth that is enforced by counting rows in one          *)
(* statement and adding a row in another, with no lock in between.  The    *)
(* rate limiter's window, the daily quota and the device limit are all     *)
(* enforced like this (RateLimiter, DailyQuota, Devices).                  *)
(***************************************************************************)
EXTENDS Integers, FiniteSets

CONSTANTS
    Requests,   \* the requests that may be under way at once
    Limit       \* the number of rows from which on requests are refused

\* Every module that instantiates this one assumes it of its own constants.
LimitAssumption == Limit \in Nat /\ IsFiniteSet(Requests) /\ Requests # {}

VARIABLES
    used,       \* rows that a count would find
    passed,     \* requests that have counted and have not added their row
    uncounted   \* requests over the limit that a failed query let through

limitVars == <<used, passed, uncounted>>

LimitInit == used = 0 /\ passed = {} /\ uncounted = 0

\* The count finds room.
Pass(r) ==
    /\ r \notin passed
    /\ used < Limit
    /\ passed' = passed \cup {r}
    /\ UNCHANGED <<used, uncounted>>

\* The count or the limit cannot be read, and what is taken for it leaves room.
PassUncounted(r) ==
    /\ r \notin passed
    /\ passed' = passed \cup {r}
    /\ uncounted' = uncounted + 1
    /\ UNCHANGED used

\* The row is added; or it was there before, or adding it failed.
Add(r) ==
    /\ r \in passed
    /\ passed' = passed \ {r}
    /\ used' \in {used, used + 1}
    /\ UNCHANGED uncounted

\* Rows leave the count: they are deleted, revoked or too old.
Drop ==
    /\ used' \in 0..used
    /\ UNCHANGED <<passed, uncounted>>

LimitNext ==
    \/ \E r \in Requests : Pass(r) \/ PassUncounted(r) \/ Add(r)
    \/ Drop

LimitSpec == LimitInit /\ [][LimitNext]_limitVars

-----------------------------------------------------------------------------
LimitTypeOK ==
    /\ used \in Nat
    /\ passed \in SUBSET Requests
    /\ uncounted \in Nat

\* The limit is exceeded by the other requests under way at most, and by one for
\* each request that a failed query let through.
LimitInv ==
    /\ LimitTypeOK
    /\ used + Cardinality(passed) <= Limit + Cardinality(Requests) - 1 + uncounted
=============================================================================
