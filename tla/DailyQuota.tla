----------------------------- MODULE DailyQuota -----------------------------
(***************************************************************************)
(* The daily quota of submit_backtest (api/backtest.rs) for one user: it   *)
(* counts the rows of today and inserts one more, in two statements.       *)
(***************************************************************************)
EXTENDS Integers, FiniteSets

CONSTANTS
    Submissions,    \* calls of submit_backtest under way at once
    Quota,          \* backtest_quota_daily
    DefaultQuota,   \* what an unreadable quota is taken for: 10
    MaxRows,        \* bound: rows of the day
    MaxDefaulted    \* bound: submissions over the quota that the default lets pass

ASSUME QuotaAssumption ==
    /\ Quota \in Nat /\ DefaultQuota \in Nat /\ MaxRows \in Nat /\ MaxDefaulted \in Nat
    /\ IsFiniteSet(Submissions) /\ Submissions # {}

VARIABLES
    today,      \* the user's rows in backtest_jobs created today
    inserting,  \* submissions between the count and the INSERT
    defaulted   \* submissions over the quota that the default let pass

quotaVars == <<today, inserting, defaulted>>

QuotaInit == today = 0 /\ inserting = {} /\ defaulted = 0

\* Mutant: a count that fails lets the submission pass.
CountOrPass(s) ==
    /\ s \notin inserting
    /\ inserting' = inserting \cup {s}
    /\ UNCHANGED <<today, defaulted>>

\* A count below the quota, or below the default when the quota cannot be read; a
\* failed count refuses the submission.
CountToday(s) ==
    /\ s \notin inserting
    /\ \/ today < Quota /\ UNCHANGED defaulted
       \/ /\ today \in Quota..(DefaultQuota - 1)
          /\ defaulted < MaxDefaulted
          /\ defaulted' = defaulted + 1
    /\ inserting' = inserting \cup {s}
    /\ UNCHANGED today

InsertRow(s) ==
    /\ s \in inserting
    /\ inserting' = inserting \ {s}
    /\ \/ today < MaxRows /\ today' = today + 1
       \/ UNCHANGED today
    /\ UNCHANGED defaulted

\* A deleted job is not counted any more: the user may submit another one.
DeleteRow ==
    /\ today > 0
    /\ today' = today - 1
    /\ UNCHANGED <<inserting, defaulted>>

\* CURRENT_DATE moves on.  A submission that has counted yesterday's rows adds
\* its row to today's.
Midnight ==
    /\ today' = 0
    /\ UNCHANGED <<inserting, defaulted>>

QuotaNext ==
    \/ \E s \in Submissions : CountToday(s) \/ InsertRow(s)
    \/ DeleteRow
    \/ Midnight

QuotaSpec == QuotaInit /\ [][QuotaNext]_quotaVars

-----------------------------------------------------------------------------
QuotaTypeOK == today \in Nat /\ inserting \in SUBSET Submissions /\ defaulted \in Nat

QuotaLimit == INSTANCE CheckThenInsert
    WITH Requests <- Submissions, Limit <- Quota,
         used <- today, passed <- inserting, uncounted <- defaulted

\* A user's jobs of a day exceed the quota by the other submissions under way at
\* most and by those that a failed query let pass, also across midnight: the quota
\* is a CheckThenInsert limit.
QuotaKept == QuotaLimit!LimitSpec
=============================================================================
