------------------------------ MODULE BarSync ------------------------------
(***************************************************************************)
(* Synchronising the daily bars of one symbol (data/tushare.rs,            *)
(* sync_daily_bars): what Tushare answers replaces what the table holds of *)
(* the range, by one DELETE and one INSERT for each day, in no             *)
(* transaction.  Administrators may ask for the same range at once.        *)
(***************************************************************************)
EXTENDS Naturals

CONSTANTS
    Syncs,          \* the synchronisations of the range
    LastDay         \* its trading days are 1..LastDay

ASSUME BarAssumption == LastDay \in Nat \ {0}

VARIABLES
    bars,           \* the days of which the table holds a bar
    sync,           \* the step of each synchronisation
    day             \* the day that each inserts next

barVars == <<bars, sync, day>>

Days == 1..LastDay

BarInit ==
    /\ bars \in SUBSET Days
    /\ sync = [s \in Syncs |-> "ask"]
    /\ day = [s \in Syncs |-> LastDay]

-----------------------------------------------------------------------------
SyncTo(s, step) == sync' = [sync EXCEPT ![s] = step]

\* An error and an answer without a bar change nothing: there is no such step.
FetchBars(s) ==
    /\ sync[s] = "ask"
    /\ SyncTo(s, "delete")
    /\ UNCHANGED <<bars, day>>

\* Mutant: the range ends at the beginning of its last day.
DeleteBeforeLastDay(s) ==
    /\ sync[s] = "delete"
    /\ bars' = bars \cap {LastDay}
    /\ SyncTo(s, "insert")
    /\ UNCHANGED day

DeleteRange(s) ==
    /\ sync[s] = "delete"
    /\ bars' = bars \ Days
    /\ SyncTo(s, "insert")
    /\ UNCHANGED day

\* Tushare lists the latest day first.
InsertBar(s) ==
    /\ sync[s] = "insert"
    /\ day[s] \notin bars
    /\ bars' = bars \cup {day[s]}
    /\ day' = [day EXCEPT ![s] = @ - 1]
    /\ SyncTo(s, IF day[s] = 1 THEN "done" ELSE "insert")

\* (symbol, datetime) is the primary key, and the INSERT has no ON CONFLICT.
BarRefused(s) ==
    /\ sync[s] = "insert"
    /\ day[s] \in bars
    /\ SyncTo(s, "refused")
    /\ UNCHANGED <<bars, day>>

\* A statement fails, a value does not parse, or the API server stops.
AbortSync(s) ==
    /\ sync[s] \in {"delete", "insert"}
    /\ SyncTo(s, "aborted")
    /\ UNCHANGED <<bars, day>>

BarNext ==
    \E s \in Syncs :
        \/ FetchBars(s)
        \/ DeleteRange(s)
        \/ InsertBar(s)
        \/ BarRefused(s)
        \/ AbortSync(s)

BarSpec == BarInit /\ [][BarNext]_barVars

-----------------------------------------------------------------------------
BarTypeOK ==
    /\ bars \in SUBSET Days
    /\ sync \in [Syncs -> {"ask", "delete", "insert", "done", "refused", "aborted"}]
    /\ day \in [Syncs -> 0..LastDay]
    /\ \A s \in Syncs : sync[s] = "insert" => day[s] \in Days

\* Synchronisations of one range may delete each other's bars, and the primary key
\* may stop all of them but one; when no one inserts any more and none was aborted,
\* the table has a bar of every day (data/tushare.rs:162-206).
EqualSyncsComplete ==
    /\ BarTypeOK
    /\ \/ \A s \in Syncs : sync[s] \in {"ask", "delete"}
       \/ \E s \in Syncs : sync[s] \in {"insert", "aborted"}
       \/ bars = Days
=============================================================================
