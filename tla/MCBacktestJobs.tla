-------------------------- MODULE MCBacktestJobs --------------------------
(* Small instances of BacktestJobs for TLC. *)
EXTENDS BacktestJobs, TLC

\* Jobs are interchangeable, and so are worker processes; used by the safety
\* run only.
JobSymmetry == Permutations(Workers) \cup Permutations(Jobs)
=============================================================================
