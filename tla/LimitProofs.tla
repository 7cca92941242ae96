---------------------------- MODULE LimitProofs ----------------------------
(***************************************************************************)
(* What a limit is worth that is counted first and taken up later, for     *)
(* every limit and every number of requests (CheckThenInsert).             *)
(***************************************************************************)
EXTENDS CheckThenInsert, FiniteSetTheorems, TLAPS

\* A request that is not between its count and its row leaves room for one more.
LEMMA RoomLeft ==
    ASSUME IsFiniteSet(Requests), NEW S \in SUBSET Requests, NEW r \in Requests \ S
    PROVE  /\ IsFiniteSet(S)
           /\ Cardinality(S) \in Nat /\ Cardinality(Requests) \in Nat
           /\ Cardinality(S) + 1 <= Cardinality(Requests)
           /\ Cardinality(S \cup {r}) = Cardinality(S) + 1
<1>1. IsFiniteSet(S)
    BY FS_Subset
<1>2. IsFiniteSet(S \cup {r}) /\ Cardinality(S \cup {r}) = Cardinality(S) + 1
    BY <1>1, FS_AddElement
<1>3. Cardinality(S \cup {r}) <= Cardinality(Requests)
    BY FS_Subset
<1>4. Cardinality(S) \in Nat /\ Cardinality(Requests) \in Nat
    BY <1>1, FS_CardinalityType
<1> QED BY <1>1, <1>2, <1>3, <1>4

LEMMA LimitInitially ==
    ASSUME LimitAssumption, LimitInit
    PROVE  LimitInv
<1>1. Cardinality({}) = 0
    BY FS_EmptySet
<1>2. PICK r \in Requests : TRUE
    BY DEF LimitAssumption
<1>3. Cardinality(Requests) \in Nat /\ 0 + 1 <= Cardinality(Requests)
    BY <1>1, RoomLeft DEF LimitAssumption
<1> QED BY <1>1, <1>3 DEF LimitAssumption, LimitInit, LimitInv, LimitTypeOK

LEMMA LimitStep ==
    ASSUME LimitAssumption, LimitInv, [LimitNext]_limitVars
    PROVE  LimitInv'
<1> USE DEF LimitInv, LimitTypeOK
<1>1. /\ IsFiniteSet(passed)
      /\ Cardinality(passed) \in Nat /\ Cardinality(Requests) \in Nat
    BY FS_Subset, FS_CardinalityType DEF LimitAssumption
<1>2. ASSUME NEW r \in Requests, Pass(r)
      PROVE  LimitInv'
    <2>1. /\ Cardinality(passed) + 1 <= Cardinality(Requests)
          /\ Cardinality(passed') = Cardinality(passed) + 1
        BY <1>2, RoomLeft DEF Pass, LimitAssumption
    <2> QED BY <1>1, <1>2, <2>1 DEF Pass, LimitAssumption
<1>3. ASSUME NEW r \in Requests, PassUncounted(r)
      PROVE  LimitInv'
    <2>1. Cardinality(passed') = Cardinality(passed) + 1
        BY <1>3, RoomLeft DEF PassUncounted, LimitAssumption
    <2> QED BY <1>1, <1>3, <2>1 DEF PassUncounted, LimitAssumption
<1>4. ASSUME NEW r \in Requests, Add(r)
      PROVE  LimitInv'
    <2>1. Cardinality(passed') = Cardinality(passed) - 1
        BY <1>1, <1>4, FS_RemoveElement DEF Add
    <2> QED BY <1>1, <1>4, <2>1 DEF Add, LimitAssumption
<1>5. ASSUME Drop
      PROVE  LimitInv'
    BY <1>1, <1>5 DEF Drop, LimitAssumption
<1>6. CASE UNCHANGED limitVars
    BY <1>6 DEF limitVars
<1> QED BY <1>2, <1>3, <1>4, <1>5, <1>6 DEF LimitNext

\* A limit that is checked before it is taken up is exceeded by no more than the
\* other requests under way, and by one for each count that failed (the window
\* of rate_limit.rs:117-146, the quota of backtest.rs:155-204, the devices of
\* subscription.rs:107-148).
THEOREM LimitNeverFarExceeded ==
    ASSUME LimitAssumption
    PROVE  LimitSpec => []LimitInv
<1>1. LimitInit => LimitInv
    BY LimitInitially
<1>2. LimitInv /\ [LimitNext]_limitVars => LimitInv'
    BY LimitStep
<1> QED BY <1>1, <1>2, PTL DEF LimitSpec
=============================================================================
