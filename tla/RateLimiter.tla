---------------------------- MODULE RateLimiter ----------------------------
(***************************************************************************)
(* rate_limit_middleware (middleware/rate_limit.rs) for one key: a sorted  *)
(* set in Redis with one member per request of the last window.  Members   *)
(* are told apart by their age only.                                       *)
(***************************************************************************)
EXTENDS Integers, FiniteSets

CONSTANTS
    Handlers,       \* requests under way at once
    MaxRequests,    \* config.max_requests
    MaxMembers      \* bound: members of the sorted set

ASSUME RateAssumption ==
    MaxRequests \in Nat /\ MaxMembers \in Nat /\ IsFiniteSet(Handlers) /\ Handlers # {}

VARIABLES
    fresh,      \* members younger than the window
    stale,      \* older members that nobody has removed yet
    adding,     \* handlers between their count and their ZADD
    overdue     \* the last EXPIRE failed: the key has an older time to live, or none

rateVars == <<fresh, stale, adding, overdue>>

RateInit == fresh = 0 /\ stale = 0 /\ adding = {} /\ overdue = FALSE

\* Mutant: a request is refused above the limit and not at it.
AdmitAtLimit(h) ==
    /\ h \notin adding
    /\ fresh <= MaxRequests
    /\ adding' = adding \cup {h}
    /\ stale' = 0
    /\ UNCHANGED <<fresh, overdue>>

\* ZREMRANGEBYSCORE and ZCARD in one pipe; a request below the limit goes on.
\* When the pipe fails, the request is let through and leaves no trace here.
Admit(h) ==
    /\ h \notin adding
    /\ fresh < MaxRequests
    /\ adding' = adding \cup {h}
    /\ stale' = 0
    /\ UNCHANGED <<fresh, overdue>>

\* 429, or 500 when there is no connection to ask on.
Refuse(h) ==
    /\ h \notin adding
    /\ fresh >= MaxRequests
    /\ stale' = 0
    /\ UNCHANGED <<fresh, adding, overdue>>

\* ZADD and EXPIRE, both with their errors ignored.
Record(h) ==
    /\ h \in adding
    /\ adding' = adding \ {h}
    /\ \/ fresh + stale < MaxMembers /\ fresh' = fresh + 1
       \/ UNCHANGED fresh
    /\ overdue' \in BOOLEAN
    /\ UNCHANGED stale

\* A member leaves the window; nobody removes it before the next request comes.
Age ==
    /\ fresh > 0
    /\ fresh' = fresh - 1
    /\ stale' = stale + 1
    /\ UNCHANGED <<adding, overdue>>

\* The key's time to live is the window and a second from the last EXPIRE: the
\* members are all older then, unless that EXPIRE failed.
Expire ==
    /\ fresh = 0 \/ overdue
    /\ fresh + stale > 0
    /\ fresh' = 0
    /\ stale' = 0
    /\ overdue' = FALSE
    /\ UNCHANGED adding

RateNext ==
    \/ \E h \in Handlers : Admit(h) \/ Refuse(h) \/ Record(h)
    \/ Age
    \/ Expire

RateSpec == RateInit /\ [][RateNext]_rateVars

-----------------------------------------------------------------------------
RateTypeOK ==
    fresh \in Nat /\ stale \in Nat /\ adding \in SUBSET Handlers /\ overdue \in BOOLEAN

RateLimit == INSTANCE CheckThenInsert
    WITH Requests <- Handlers, Limit <- MaxRequests,
         used <- fresh, passed <- adding, uncounted <- 0

\* The requests of one window that Redis has on record exceed max_requests by the
\* other requests under way at most, also when the key expires with young members
\* in it: the window is a CheckThenInsert limit.
RateLimited == RateLimit!LimitSpec
=============================================================================
