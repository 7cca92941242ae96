-------------------------- MODULE ApiServerProofs --------------------------
(***************************************************************************)
(* Proofs about the parts of the API server: the three limits              *)
(* (RateLimiter, DailyQuota, Devices), the sessions (RefreshTokens), the   *)
(* payment orders (Payments), the charts of a job (ChartCache) and the     *)
(* synchronisation of daily bars (BarSync); and that MCApiServer, which    *)
(* runs one of them, runs each by its own specification.                   *)
(***************************************************************************)
EXTENDS MCApiServer, FiniteSetTheorems, TLAPS

RateTheorem == INSTANCE LimitProofs
    WITH Requests <- Handlers, Limit <- MaxRequests,
         used <- fresh, passed <- adding, uncounted <- 0

-----------------------------------------------------------------------------
(* The window of the rate limiter *)

LEMMA RateTypes == RateSpec => []RateTypeOK
<1>1. RateInit => RateTypeOK
    <2>1. RateInit => fresh \in Nat /\ stale \in Nat /\ adding \in SUBSET Handlers
        BY DEF RateInit
    <2>2. RateInit => overdue \in BOOLEAN
        BY Zenon DEF RateInit
    <2> QED BY <2>1, <2>2 DEF RateTypeOK
<1>2. RateTypeOK /\ [RateNext]_rateVars => RateTypeOK'
    <2> SUFFICES ASSUME RateTypeOK, [RateNext]_rateVars PROVE RateTypeOK'
        OBVIOUS
    <2>1. overdue' = overdue \/ overdue' = FALSE \/ overdue' \in BOOLEAN
        BY Zenon DEF RateNext, rateVars, Admit, Refuse, Record, Age, Expire
    <2>2. overdue' \in BOOLEAN
        BY <2>1, Zenon DEF RateTypeOK
    <2>3. fresh' \in Nat /\ stale' \in Nat /\ adding' \in SUBSET Handlers
        BY DEF RateTypeOK, RateNext, rateVars, Admit, Refuse, Record, Age, Expire
    <2> QED BY <2>2, <2>3 DEF RateTypeOK
<1> QED BY <1>1, <1>2, PTL DEF RateSpec

\* Every step of the middleware is a step of the limit, for any number of
\* requests under way and any limit (rate_limit.rs:77-152).
THEOREM WindowIsALimit == RateSpec => RateLimited
<1> USE DEF RateTypeOK
<1>1. RateInit => RateLimit!LimitInit
    BY DEF RateInit, RateLimit!LimitInit
<1>2. RateTypeOK /\ [RateNext]_rateVars => [RateLimit!LimitNext]_(RateLimit!limitVars)
    <2> SUFFICES ASSUME RateTypeOK, [RateNext]_rateVars
                 PROVE  [RateLimit!LimitNext]_(RateLimit!limitVars)
        OBVIOUS
    <2> USE DEF RateLimit!LimitNext, RateLimit!limitVars
    <2>1. ASSUME NEW h \in Handlers, Admit(h)
          PROVE  RateLimit!Pass(h)
        BY <2>1 DEF Admit, RateLimit!Pass
    <2>2. ASSUME NEW h \in Handlers, Refuse(h)
          PROVE  UNCHANGED RateLimit!limitVars
        BY <2>2 DEF Refuse
    <2>3. ASSUME NEW h \in Handlers, Record(h)
          PROVE  RateLimit!Add(h)
        BY <2>3 DEF Record, RateLimit!Add
    <2>4. ASSUME Age
          PROVE  RateLimit!Drop
        BY <2>4 DEF Age, RateLimit!Drop
    <2>5. ASSUME Expire
          PROVE  RateLimit!Drop
        BY <2>5 DEF Expire, RateLimit!Drop
    <2>6. CASE UNCHANGED rateVars
        BY <2>6 DEF rateVars
    <2> QED BY <2>1, <2>2, <2>3, <2>4, <2>5, <2>6 DEF RateNext
<1> QED BY <1>1, <1>2, RateTypes, PTL DEF RateSpec, RateLimited, RateLimit!LimitSpec

\* The requests of one window that Redis has on record never exceed max_requests
\* by more than the other requests under way.
THEOREM WindowNeverFarExceeded == RateSpec => []RateLimit!LimitInv
<1>1. RateTheorem!LimitAssumption
    BY RateAssumption DEF RateAssumption, RateTheorem!LimitAssumption, RateTheorem!IsFiniteSet, IsFiniteSet
<1>2. RateTheorem!LimitSpec => []RateTheorem!LimitInv
    BY <1>1, RateTheorem!LimitNeverFarExceeded
<1>3. RateLimit!LimitInit => RateTheorem!LimitInit
    BY DEF RateLimit!LimitInit, RateTheorem!LimitInit
<1>4. [RateLimit!LimitNext]_(RateLimit!limitVars)
         => [RateTheorem!LimitNext]_(RateTheorem!limitVars)
    BY DEF RateLimit!LimitNext, RateTheorem!LimitNext, RateLimit!limitVars, RateTheorem!limitVars,
           RateLimit!Pass, RateTheorem!Pass, RateLimit!PassUncounted, RateTheorem!PassUncounted,
           RateLimit!Add, RateTheorem!Add, RateLimit!Drop, RateTheorem!Drop
<1>5. RateTheorem!LimitInv => RateLimit!LimitInv
    BY DEF RateLimit!LimitInv, RateTheorem!LimitInv, RateLimit!LimitTypeOK, RateTheorem!LimitTypeOK,
           RateLimit!Cardinality, RateTheorem!Cardinality
<1> QED
    BY <1>2, <1>3, <1>4, <1>5, WindowIsALimit, PTL
    DEF RateLimited, RateLimit!LimitSpec, RateTheorem!LimitSpec

-----------------------------------------------------------------------------
(* The daily quota *)

QuotaTheorem == INSTANCE LimitProofs
    WITH Requests <- Submissions, Limit <- Quota,
         used <- today, passed <- inserting, uncounted <- defaulted

LEMMA QuotaTypes == QuotaSpec => []QuotaTypeOK
<1>1. QuotaInit => QuotaTypeOK
    BY DEF QuotaInit, QuotaTypeOK
<1>2. QuotaTypeOK /\ [QuotaNext]_quotaVars => QuotaTypeOK'
    BY DEF QuotaTypeOK, QuotaNext, quotaVars, CountToday, InsertRow, DeleteRow, Midnight
<1> QED BY <1>1, <1>2, PTL DEF QuotaSpec

\* Every step of submit_backtest, a deletion and midnight are steps of the limit,
\* for any number of submissions and any quota (backtest.rs:136-204).
THEOREM QuotaIsALimit == QuotaSpec => QuotaKept
<1> USE DEF QuotaTypeOK
<1>1. QuotaInit => QuotaLimit!LimitInit
    BY DEF QuotaInit, QuotaLimit!LimitInit
<1>2. QuotaTypeOK /\ [QuotaNext]_quotaVars => [QuotaLimit!LimitNext]_(QuotaLimit!limitVars)
    <2> SUFFICES ASSUME QuotaTypeOK, [QuotaNext]_quotaVars
                 PROVE  [QuotaLimit!LimitNext]_(QuotaLimit!limitVars)
        OBVIOUS
    <2> USE DEF QuotaLimit!LimitNext, QuotaLimit!limitVars
    <2>1. ASSUME NEW s \in Submissions, CountToday(s)
          PROVE  QuotaLimit!Pass(s) \/ QuotaLimit!PassUncounted(s)
        BY <2>1 DEF CountToday, QuotaLimit!Pass, QuotaLimit!PassUncounted
    <2>2. ASSUME NEW s \in Submissions, InsertRow(s)
          PROVE  QuotaLimit!Add(s)
        BY <2>2 DEF InsertRow, QuotaLimit!Add
    <2>3. ASSUME DeleteRow
          PROVE  QuotaLimit!Drop
        BY <2>3 DEF DeleteRow, QuotaLimit!Drop
    <2>4. ASSUME Midnight
          PROVE  QuotaLimit!Drop
        BY <2>4 DEF Midnight, QuotaLimit!Drop
    <2>5. CASE UNCHANGED quotaVars
        BY <2>5 DEF quotaVars
    <2> QED BY <2>1, <2>2, <2>3, <2>4, <2>5 DEF QuotaNext
<1> QED BY <1>1, <1>2, QuotaTypes, PTL DEF QuotaSpec, QuotaKept, QuotaLimit!LimitSpec

\* A user's jobs of a day never exceed the quota by more than the other
\* submissions under way and those that an unreadable quota let pass.
THEOREM QuotaNeverFarExceeded == QuotaSpec => []QuotaLimit!LimitInv
<1>1. QuotaTheorem!LimitAssumption
    BY QuotaAssumption
    DEF QuotaAssumption, QuotaTheorem!LimitAssumption, QuotaTheorem!IsFiniteSet, IsFiniteSet
<1>2. QuotaTheorem!LimitSpec => []QuotaTheorem!LimitInv
    BY <1>1, QuotaTheorem!LimitNeverFarExceeded
<1>3. QuotaLimit!LimitInit => QuotaTheorem!LimitInit
    BY DEF QuotaLimit!LimitInit, QuotaTheorem!LimitInit
<1>4. [QuotaLimit!LimitNext]_(QuotaLimit!limitVars)
         => [QuotaTheorem!LimitNext]_(QuotaTheorem!limitVars)
    BY DEF QuotaLimit!LimitNext, QuotaTheorem!LimitNext, QuotaLimit!limitVars, QuotaTheorem!limitVars,
           QuotaLimit!Pass, QuotaTheorem!Pass, QuotaLimit!PassUncounted, QuotaTheorem!PassUncounted,
           QuotaLimit!Add, QuotaTheorem!Add, QuotaLimit!Drop, QuotaTheorem!Drop
<1>5. QuotaTheorem!LimitInv => QuotaLimit!LimitInv
    BY DEF QuotaLimit!LimitInv, QuotaTheorem!LimitInv, QuotaLimit!LimitTypeOK,
           QuotaTheorem!LimitTypeOK, QuotaLimit!Cardinality, QuotaTheorem!Cardinality
<1> QED
    BY <1>2, <1>3, <1>4, <1>5, QuotaIsALimit, PTL
    DEF QuotaKept, QuotaLimit!LimitSpec, QuotaTheorem!LimitSpec

-----------------------------------------------------------------------------
(* Payment orders *)

\* An order has a time of payment exactly when its status says that it is paid,
\* for any number of orders and buyers (subscription.rs:231-319,
\* admin.rs:263-291).
THEOREM OrdersAreDated == PaymentSpec => []PaidIsDated
<1> USE DEF PaidIsDated, PaymentTypeOK
<1>1. PaymentInit => PaidIsDated
    BY PaymentAssumption DEF PaymentInit, PaymentAssumption, Seconds, Statuses
<1>2. PaidIsDated /\ [PaymentNext]_paymentVars => PaidIsDated'
    <2> SUFFICES ASSUME PaidIsDated, [PaymentNext]_paymentVars
                 PROVE  PaidIsDated'
        OBVIOUS
    <2>1. ASSUME NEW u \in Buyers, CreatePayment(u)
          PROVE  PaidIsDated'
        BY <2>1 DEF CreatePayment, Statuses
    <2>2. ASSUME NEW u \in Buyers, NEW o \in Seconds, CancelPayment(u, o)
          PROVE  PaidIsDated'
        BY <2>2 DEF CancelPayment, Statuses
    <2>3. ASSUME NEW o \in Seconds, NEW to \in Statuses, UpdatePayment(o, to)
          PROVE  PaidIsDated'
        BY <2>3 DEF UpdatePayment
    <2>4. ASSUME Second
          PROVE  PaidIsDated'
        BY <2>4, PaymentAssumption DEF Second, PaymentAssumption, Seconds
    <2>5. CASE UNCHANGED paymentVars
        BY <2>5 DEF paymentVars
    <2> QED BY <2>1, <2>2, <2>3, <2>4, <2>5 DEF PaymentNext
<1> QED BY <1>1, <1>2, PTL DEF PaymentSpec

-----------------------------------------------------------------------------
(* Sessions *)

LEMMA SessionInitially ==
    ASSUME SessionInit
    PROVE  SessionInv
BY TokenAssumption
DEF TokenAssumption, SessionInit, SessionInv, SessionTypeOK, MintedInv, OnlyNewestLive, LiveHasUser,
    Tokens

\* A token of a family that exists, or of a new one, gets the next number.
LEMMA MintKeepsInv ==
    ASSUME SessionInv, NEW u \in Users, NEW first \in 1..(minted + 1), NEW from \in 0..minted,
           Mint(u, first, from), users' \in SUBSET Users, u \in users', users \subseteq users',
           from # 0 => row[from] # "live",
           \/ UNCHANGED refreshVars
           \/ \E r \in Refreshes : Answers(r)
    PROVE  SessionInv'
<1> USE TokenAssumption DEF TokenAssumption, SessionInv, Tokens
<1>0. /\ refresh' \in [Refreshes -> {"idle", "revoke", "insert", "punish"}]
      /\ claims' \in [Refreshes -> 0..MaxTokens]
      /\ \A r \in Refreshes : \/ refresh'[r] = refresh[r] /\ claims'[r] = claims[r]
                              \/ refresh'[r] = "idle" /\ claims'[r] = 0
    <2>1. CASE UNCHANGED refreshVars
        BY <2>1 DEF SessionTypeOK, refreshVars
    <2>2. ASSUME NEW r \in Refreshes, Answers(r)
          PROVE  <1>0!:
        BY <2>2 DEF SessionTypeOK, Answers
    <2> QED BY <2>1, <2>2
<1>1. SessionTypeOK'
    <2>1. minted + 1 \in Tokens /\ minted' = minted + 1 /\ minted' \in 0..MaxTokens
        BY DEF SessionTypeOK, Mint
    <2>2. /\ owner' \in [Tokens -> Users \cup {NoUser}]
          /\ row' \in [Tokens -> {"none", "live", "revoked", "gone"}]
        BY <2>1 DEF SessionTypeOK, Mint
    <2>3. /\ first \in 0..MaxTokens
          /\ from \in 0..MaxTokens
        BY <2>1 DEF SessionTypeOK
    <2>4. /\ family' \in [Tokens -> 0..MaxTokens]
          /\ parent' \in [Tokens -> 0..MaxTokens]
        BY <2>1, <2>3 DEF SessionTypeOK, Mint
    <2> QED BY <1>0, <2>1, <2>2, <2>4 DEF SessionTypeOK
<1>2. MintedInv'
    <2>1. ASSUME NEW t \in Tokens
          PROVE  /\ t > minted' => row'[t] = "none" /\ family'[t] = 0 /\ owner'[t] = NoUser
                 /\ t <= minted' => family'[t] \in 1..t /\ parent'[t] < t
        <3>1. CASE t = minted + 1
            BY <3>1 DEF SessionTypeOK, Mint
        <3>2. CASE t # minted + 1
            BY <3>2 DEF SessionTypeOK, MintedInv, Mint
        <3> QED BY <3>1, <3>2
    <2>2. ASSUME NEW r \in Refreshes
          PROVE  claims'[r] <= minted' /\ (refresh'[r] = "idle" <=> claims'[r] = 0)
        BY <1>0 DEF SessionTypeOK, MintedInv, Mint
    <2> QED BY <2>1, <2>2 DEF MintedInv
<1>3. OnlyNewestLive'
    <2>1. ASSUME NEW t \in Tokens, t <= minted', parent'[t] # 0
          PROVE  row'[parent'[t]] # "live"
        <3>1. CASE t = minted + 1
            BY <2>1, <3>1 DEF SessionTypeOK, Mint
        <3>2. CASE t <= minted
            BY <2>1, <3>2 DEF SessionTypeOK, MintedInv, OnlyNewestLive, Mint
        <3> QED BY <2>1, <3>1, <3>2 DEF SessionTypeOK, Mint
    <2>2. ASSUME NEW r \in Refreshes, refresh'[r] = "insert"
          PROVE  row'[claims'[r]] # "live"
        <3>1. refresh[r] = "insert" /\ claims'[r] = claims[r]
            BY <2>2 DEF SessionTypeOK, Answers, refreshVars
        <3>2. claims[r] \in 1..minted
            BY <3>1 DEF SessionTypeOK, MintedInv
        <3> QED BY <3>1, <3>2 DEF SessionTypeOK, OnlyNewestLive, Mint
    <2> QED BY <2>1, <2>2 DEF OnlyNewestLive
<1>4. LiveHasUser'
    <2>1. ASSUME NEW t \in Tokens, row'[t] = "live"
          PROVE  owner'[t] \in users'
        <3>1. CASE t = minted + 1
            BY <3>1 DEF SessionTypeOK, Mint
        <3>2. CASE t # minted + 1
            BY <2>1, <3>2 DEF SessionTypeOK, LiveHasUser, Mint
        <3> QED BY <3>1, <3>2
    <2> QED BY <2>1 DEF LiveHasUser
<1> QED BY <1>1, <1>2, <1>3, <1>4

\* Rows only lose "live": no step that mints nothing can break the invariant.
LEMMA RevokeKeepsInv ==
    ASSUME SessionInv, users' \in SUBSET Users, UNCHANGED <<minted, owner, family, parent>>,
           row' \in [Tokens -> {"none", "live", "revoked", "gone"}],
           \A t \in Tokens : row'[t] = row[t] \/ (t <= minted /\ row'[t] # "live"),
           \A t \in Tokens : row'[t] = "live" => owner[t] \in users',
           \/ UNCHANGED refreshVars
           \/ \E r \in Refreshes : Answers(r)
           \/ \E r \in Refreshes : /\ refresh[r] = "revoke"
                                   /\ Proceeds(r, "insert")
                                   /\ row'[claims[r]] # "live"
    PROVE  SessionInv'
<1> USE TokenAssumption DEF TokenAssumption, SessionInv, Tokens
<1>0. /\ refresh' \in [Refreshes -> {"idle", "revoke", "insert", "punish"}]
      /\ claims' \in [Refreshes -> 0..MaxTokens]
      /\ \A r \in Refreshes : claims'[r] <= minted /\ (refresh'[r] = "idle" <=> claims'[r] = 0)
    <2>1. CASE UNCHANGED refreshVars
        BY <2>1 DEF SessionTypeOK, MintedInv, refreshVars
    <2>2. ASSUME NEW r \in Refreshes, Answers(r)
          PROVE  <1>0!:
        BY <2>2 DEF SessionTypeOK, MintedInv, Answers
    <2>3. ASSUME NEW r \in Refreshes, refresh[r] = "revoke", Proceeds(r, "insert")
          PROVE  <1>0!:
        BY <2>3 DEF SessionTypeOK, MintedInv, Proceeds
    <2> QED BY <2>1, <2>2, <2>3
<1>1. SessionTypeOK'
    BY <1>0 DEF SessionTypeOK
<1>2. MintedInv'
    BY <1>0 DEF SessionTypeOK, MintedInv
<1>3. OnlyNewestLive'
    <2>1. ASSUME NEW t \in Tokens, t <= minted', parent'[t] # 0
          PROVE  row'[parent'[t]] # "live"
        <3>1. parent[t] \in Tokens
            BY <2>1 DEF SessionTypeOK, MintedInv
        <3> QED BY <2>1, <3>1 DEF OnlyNewestLive
    <2>2. ASSUME NEW r \in Refreshes, refresh'[r] = "insert"
          PROVE  row'[claims'[r]] # "live"
        <3>1. claims'[r] = claims[r] /\ (refresh[r] = "insert" \/ row'[claims[r]] # "live")
            BY <2>2 DEF SessionTypeOK, Answers, Proceeds, refreshVars
        <3>2. CASE refresh[r] = "insert"
            <4>1. claims[r] \in Tokens
                BY <3>2 DEF SessionTypeOK, MintedInv
            <4> QED BY <3>1, <3>2, <4>1 DEF OnlyNewestLive
        <3> QED BY <3>1, <3>2
    <2> QED BY <2>1, <2>2 DEF OnlyNewestLive
<1>4. LiveHasUser'
    BY DEF LiveHasUser
<1> QED BY <1>1, <1>2, <1>3, <1>4

LEMMA SessionStep ==
    ASSUME SessionInv, [SessionNext]_sessionVars
    PROVE  SessionInv'
<1> USE TokenAssumption DEF TokenAssumption
<1>0. SessionTypeOK /\ MintedInv /\ \A t \in Tokens : row[t] = "live" => owner[t] \in users
    BY DEF SessionInv, LiveHasUser
<1>1. ASSUME NEW u \in Users, Register(u)
      PROVE  SessionInv'
    <2>1. CASE Mint(u, minted + 1, 0)
        BY <1>0, <1>1, <2>1, MintKeepsInv DEF Register, SessionTypeOK
    <2>2. CASE UNCHANGED tokenVars
        BY <1>0, <1>1, <2>2, RevokeKeepsInv DEF Register, SessionTypeOK, tokenVars
    <2> QED BY <1>1, <2>1, <2>2 DEF Register
<1>2. ASSUME NEW u \in Users, Login(u)
      PROVE  SessionInv'
    BY <1>0, <1>2, MintKeepsInv DEF Login, SessionTypeOK
<1>3. ASSUME NEW u \in Users, DeleteUser(u)
      PROVE  SessionInv'
    <2>1. /\ \A t \in Tokens : row'[t] = row[t] \/ (t <= minted /\ row'[t] # "live")
          /\ \A t \in Tokens : row'[t] = "live" => owner[t] \in users'
        BY <1>0, <1>3 DEF DeleteUser, SessionTypeOK, MintedInv, Tokens
    <2>2. row' \in [Tokens -> {"none", "live", "revoked", "gone"}]
        BY <1>0, <1>3 DEF DeleteUser, SessionTypeOK
    <2> QED BY <1>0, <1>3, <2>1, <2>2, RevokeKeepsInv DEF DeleteUser, SessionTypeOK
<1>4. ASSUME NEW r \in Refreshes, NEW t \in Tokens, LookUpToken(r, t)
      PROVE  SessionInv'
    <2>1. SessionTypeOK'
        BY <1>0, <1>4 DEF LookUpToken, SessionTypeOK, Tokens, tokenVars
    <2>2. MintedInv'
        BY <1>0, <1>4 DEF LookUpToken, SessionTypeOK, MintedInv, Tokens, tokenVars
    <2>3. OnlyNewestLive'
        BY <1>0, <1>4 DEF LookUpToken, SessionTypeOK, SessionInv, OnlyNewestLive, tokenVars
    <2>4. LiveHasUser'
        BY <1>0, <1>4 DEF LookUpToken, LiveHasUser, tokenVars
    <2> QED BY <2>1, <2>2, <2>3, <2>4 DEF SessionInv
<1>5. ASSUME NEW r \in Refreshes, RevokeFamily(r)
      PROVE  SessionInv'
    <2>1. \A t \in Tokens : row'[t] = row[t] \/ (t <= minted /\ row'[t] # "live")
        BY <1>0, <1>5 DEF RevokeFamily, RevokeAll, SessionTypeOK, MintedInv, Tokens
    <2>2. row' \in [Tokens -> {"none", "live", "revoked", "gone"}]
        BY <1>0, <1>5 DEF RevokeFamily, RevokeAll, SessionTypeOK
    <2> QED BY <1>0, <1>5, <2>1, <2>2, RevokeKeepsInv DEF RevokeFamily, SessionTypeOK
<1>6. ASSUME NEW r \in Refreshes, RevokeToken(r)
      PROVE  SessionInv'
    <2>0. claims[r] \in Tokens /\ claims[r] <= minted /\ refresh[r] = "revoke"
        BY <1>0, <1>6 DEF RevokeToken, SessionTypeOK, MintedInv, Tokens
    <2>1. \A t \in Tokens : row'[t] = row[t] \/ (t <= minted /\ row'[t] # "live")
        BY <1>0, <1>6, <2>0 DEF RevokeToken, RevokeOne, SessionTypeOK
    <2>2. row' \in [Tokens -> {"none", "live", "revoked", "gone"}]
        BY <1>0, <1>6 DEF RevokeToken, RevokeOne, SessionTypeOK
    <2>3. CASE RevokeOne(claims[r]) /\ Proceeds(r, "insert")
        <3>1. row'[claims[r]] # "live"
            BY <1>0, <2>0, <2>3 DEF RevokeOne, SessionTypeOK
        <3> QED BY <1>0, <1>6, <2>0, <2>1, <2>2, <2>3, <3>1, RevokeKeepsInv
                DEF RevokeToken, SessionTypeOK
    <2>4. CASE Answers(r)
        BY <1>0, <1>6, <2>1, <2>2, <2>4, RevokeKeepsInv DEF RevokeToken, SessionTypeOK
    <2> QED BY <1>6, <2>3, <2>4 DEF RevokeToken
<1>7. ASSUME NEW r \in Refreshes, InsertSuccessor(r)
      PROVE  SessionInv'
    <2>0. claims[r] \in Tokens /\ claims[r] \in 1..minted /\ row[claims[r]] # "live"
        BY <1>0, <1>7 DEF InsertSuccessor, SessionTypeOK, MintedInv, SessionInv, OnlyNewestLive, Tokens
    <2>1. CASE owner[claims[r]] \in users
               /\ Mint(owner[claims[r]], family[claims[r]], claims[r])
        <3>1. /\ family[claims[r]] \in 1..(minted + 1)
              /\ claims[r] \in 0..minted
              /\ owner[claims[r]] \in Users
              /\ users' \in SUBSET Users
            BY <1>0, <1>7, <2>0, <2>1 DEF InsertSuccessor, SessionTypeOK, MintedInv, Tokens
        <3> QED BY <1>7, <2>0, <2>1, <3>1, MintKeepsInv DEF InsertSuccessor
    <2>2. CASE UNCHANGED tokenVars
        BY <1>0, <1>7, <2>2, RevokeKeepsInv DEF InsertSuccessor, SessionTypeOK, tokenVars
    <2> QED BY <1>7, <2>1, <2>2 DEF InsertSuccessor
<1>8. ASSUME NEW t \in Tokens, Logout(t)
      PROVE  SessionInv'
    <2>1. \A s \in Tokens : row'[s] = row[s] \/ (s <= minted /\ row'[s] # "live")
        BY <1>0, <1>8 DEF Logout, RevokeAll, RevokeOne, SessionTypeOK, MintedInv, Tokens
    <2>2. row' \in [Tokens -> {"none", "live", "revoked", "gone"}]
        BY <1>0, <1>8 DEF Logout, RevokeAll, RevokeOne, SessionTypeOK
    <2> QED BY <1>0, <1>8, <2>1, <2>2, RevokeKeepsInv DEF Logout, SessionTypeOK
<1>9. CASE UNCHANGED sessionVars
    BY <1>9 DEF sessionVars, tokenVars, refreshVars, SessionInv, SessionTypeOK, MintedInv,
                OnlyNewestLive, LiveHasUser
<1> QED BY <1>1, <1>2, <1>3, <1>4, <1>5, <1>6, <1>7, <1>8, <1>9 DEF SessionNext

\* Only the newest tokens of a family can be live, and only those of users that exist,
\* for any number of users and of refreshes under way, although SELECT .. FOR UPDATE
\* holds no lock (auth.rs:138-189).
THEOREM OnlyNewestTokensLive == SessionSpec => []SessionInv
<1>1. SessionInit => SessionInv
    BY SessionInitially
<1>2. SessionInv /\ [SessionNext]_sessionVars => SessionInv'
    BY SessionStep
<1> QED BY <1>1, <1>2, PTL DEF SessionSpec

\* What can put a live token into a family that has none: the refreshes that were
\* under way when the last one was revoked, each once, and nothing else (auth.rs:122-215).
\* A logout does not stop those.
THEOREM RevivalNeedsARefresh ==
    SessionSpec => OnlyRefreshesUnderWayRevive
<1>1. SessionInv /\ [SessionNext]_sessionVars
         => [\A f \in 1..minted :
                Dead(f) => /\ UnderWay(f)' \subseteq UnderWay(f)
                           /\ Dead(f)' \/ UnderWay(f)' # UnderWay(f)]_sessionVars
    <2> SUFFICES ASSUME SessionInv, SessionNext, NEW f \in 1..minted, Dead(f)
                 PROVE  /\ UnderWay(f)' \subseteq UnderWay(f)
                        /\ Dead(f)' \/ UnderWay(f)' # UnderWay(f)
        OBVIOUS
    <2> USE TokenAssumption DEF TokenAssumption, SessionInv, Tokens
    <2>0. SessionTypeOK /\ MintedInv
        OBVIOUS
    <2>1. ASSUME NEW u \in Users, Register(u) \/ Login(u)
          PROVE  Dead(f)' /\ UnderWay(f)' \subseteq UnderWay(f)
        <3>1. CASE UNCHANGED tokenVars
            BY <2>1, <3>1 DEF Register, Login, tokenVars, refreshVars, Dead, UnderWay
        <3>2. CASE Mint(u, minted + 1, 0)
            <4>1. Dead(f)'
                BY <2>0, <3>2 DEF Mint, Dead, SessionTypeOK
            <4>2. UnderWay(f)' \subseteq UnderWay(f)
                BY <2>0, <2>1, <3>2
                DEF Register, Login, Mint, refreshVars, UnderWay, SessionTypeOK, MintedInv
            <4> QED BY <4>1, <4>2
        <3> QED BY <2>1, <3>1, <3>2 DEF Register, Login
    <2>2. ASSUME NEW u \in Users, DeleteUser(u)
          PROVE  Dead(f)' /\ UnderWay(f)' \subseteq UnderWay(f)
        BY <2>0, <2>2 DEF DeleteUser, refreshVars, SessionTypeOK, Dead, UnderWay
    <2>3. ASSUME NEW r \in Refreshes, NEW t \in Tokens, LookUpToken(r, t)
          PROVE  Dead(f)' /\ UnderWay(f)' \subseteq UnderWay(f)
        BY <2>0, <2>3 DEF LookUpToken, tokenVars, SessionTypeOK, Dead, UnderWay
    <2>4. ASSUME NEW r \in Refreshes, RevokeFamily(r) \/ RevokeToken(r)
          PROVE  Dead(f)' /\ UnderWay(f)' \subseteq UnderWay(f)
        <3>1. Dead(f)'
            BY <2>0, <2>4 DEF RevokeFamily, RevokeToken, RevokeAll, RevokeOne, SessionTypeOK, Dead
        <3>2. UnderWay(f)' \subseteq UnderWay(f)
            BY <2>0, <2>4 DEF RevokeFamily, RevokeToken, Answers, Proceeds, SessionTypeOK, UnderWay
        <3> QED BY <3>1, <3>2
    <2>5. ASSUME NEW r \in Refreshes, InsertSuccessor(r)
          PROVE  /\ UnderWay(f)' \subseteq UnderWay(f)
                 /\ Dead(f)' \/ UnderWay(f)' # UnderWay(f)
        <3>1. /\ refresh[r] = "insert" /\ refresh'[r] = "idle"
              /\ \A q \in Refreshes \ {r} : refresh'[q] = refresh[q] /\ claims'[q] = claims[q]
            BY <2>0, <2>5 DEF InsertSuccessor, Answers, SessionTypeOK
        <3>2. UnderWay(f)' \subseteq UnderWay(f)
            <4>1. SUFFICES ASSUME NEW q \in Refreshes, refresh'[q] \in {"revoke", "insert"},
                                  family'[claims'[q]] = f
                           PROVE  q \in UnderWay(f)
                BY DEF UnderWay
            <4>2. q # r /\ refresh'[q] = refresh[q] /\ claims'[q] = claims[q]
                BY <3>1, <4>1
            <4>3. claims[q] \in 1..minted
                BY <2>0, <4>1, <4>2 DEF SessionTypeOK, MintedInv
            <4>4. family'[claims[q]] = family[claims[q]]
                BY <2>0, <2>5, <4>3 DEF InsertSuccessor, Mint, tokenVars, SessionTypeOK
            <4> QED BY <4>1, <4>2, <4>4 DEF UnderWay
        <3>3. CASE UNCHANGED tokenVars
            BY <3>2, <3>3 DEF tokenVars, Dead
        <3>4. CASE Mint(owner[claims[r]], family[claims[r]], claims[r]) /\ family[claims[r]] # f
            <4>1. Dead(f)'
                BY <2>0, <3>4 DEF Mint, Dead, SessionTypeOK
            <4> QED BY <3>2, <4>1
        <3>5. CASE family[claims[r]] = f
            <4>1. r \in UnderWay(f) /\ r \notin UnderWay(f)'
                BY <3>1, <3>5 DEF UnderWay
            <4> QED BY <3>2, <4>1
        <3> QED BY <2>5, <3>3, <3>4, <3>5 DEF InsertSuccessor
    <2>6. ASSUME NEW t \in Tokens, Logout(t)
          PROVE  Dead(f)' /\ UnderWay(f)' \subseteq UnderWay(f)
        BY <2>0, <2>6
        DEF Logout, RevokeAll, RevokeOne, refreshVars, SessionTypeOK, Dead, UnderWay
    <2> QED BY <2>1, <2>2, <2>3, <2>4, <2>5, <2>6 DEF SessionNext
<1> QED BY <1>1, OnlyNewestTokensLive, PTL DEF SessionSpec, OnlyRefreshesUnderWayRevive

-----------------------------------------------------------------------------
(* Devices *)

DeviceTheorem == INSTANCE LimitProofs
    WITH Requests <- Registrations, Limit <- DeviceLimit,
         used <- Cardinality(Counted),
         passed <- {r \in Registrations : registering[r] = "insert"},
         uncounted <- failedCounts

LEMMA DeviceStep ==
    ASSUME DeviceInv, [DeviceNext]_deviceVars
    PROVE  DeviceInv'
<1> USE DEF DeviceInv, DeviceTypeOK
<1>1. ASSUME NEW r \in Registrations, CountDevices(r)
      PROVE  DeviceInv'
    BY <1>1 DEF CountDevices, Goes, Answer
<1>2. ASSUME NEW r \in Registrations, UpsertDevice(r)
      PROVE  DeviceInv'
    <2>1. wanted[r] \in Fingerprints
        BY <1>2 DEF UpsertDevice
    <2>2. /\ registering' \in [Registrations -> {"idle", "count", "insert"}]
          /\ wanted' \in [Registrations -> Fingerprints \cup {NoDevice}]
          /\ \A q \in Registrations : registering'[q] # "idle" => wanted'[q] \in Fingerprints
        BY <1>2 DEF UpsertDevice, Answer
    <2> QED BY <1>2, <2>1, <2>2 DEF UpsertDevice
<1>3. ASSUME NEW r \in Registrations, NEW d \in Fingerprints, RevokeSilent(r, d)
      PROVE  DeviceInv'
    BY <1>3 DEF RevokeSilent, Counted
<1>4. ASSUME NEW d \in Fingerprints,
             Heartbeat(d) \/ RevokeDevice(d) \/ DeleteDevice(d) \/ FallSilent(d)
      PROVE  DeviceInv'
    BY <1>4 DEF Heartbeat, RevokeDevice, DeleteDevice, FallSilent
<1>5. CASE UNCHANGED deviceVars
    BY <1>5 DEF deviceVars
<1> QED BY <1>1, <1>2, <1>3, <1>4, <1>5 DEF DeviceNext

\* A device that is not active is revoked, so that no heartbeat revives one that
\* the count does not see (subscription.rs:92-229).
THEOREM InactiveIsRevoked == DeviceSpec => []DeviceInv
<1>1. DeviceInit => DeviceInv
    BY DeviceAssumption DEF DeviceInit, DeviceInv, DeviceTypeOK
<1>2. DeviceInv /\ [DeviceNext]_deviceVars => DeviceInv'
    BY DeviceStep
<1> QED BY <1>1, <1>2, PTL DEF DeviceSpec

LEMMA CountedIsFinite ==
    ASSUME DeviceInv
    PROVE  IsFiniteSet(Counted) /\ Cardinality(Counted) \in Nat
BY DeviceAssumption, FS_Subset, FS_CardinalityType
DEF DeviceAssumption, DeviceInv, DeviceTypeOK, Counted

LEMMA FewerCounted ==
    ASSUME DeviceInv, Counted' \subseteq Counted,
           UNCHANGED <<registering, failedCounts>>
    PROVE  DeviceLimits!Drop
<1>1. Cardinality(Counted') \in Nat /\ Cardinality(Counted') <= Cardinality(Counted)
    BY CountedIsFinite, FS_Subset, FS_CardinalityType
<1> QED BY <1>1, CountedIsFinite DEF DeviceLimits!Drop

\* Every step of the handlers is a step of the limit, for any number of devices
\* and registrations; it needs that inactive devices are revoked.
THEOREM DevicesAreLimited == DeviceSpec => DevicesLimited
<1>1. DeviceInit => DeviceLimits!LimitInit
    <2> SUFFICES ASSUME DeviceInit PROVE DeviceLimits!LimitInit
        OBVIOUS
    <2>1. Counted = {} /\ Cardinality({}) = 0
        BY FS_EmptySet DEF DeviceInit, Counted
    <2> QED BY <2>1 DEF DeviceInit, DeviceLimits!LimitInit
<1>2. DeviceInv /\ [DeviceNext]_deviceVars
         => [DeviceLimits!LimitNext]_(DeviceLimits!limitVars)
    <2> SUFFICES ASSUME DeviceInv, [DeviceNext]_deviceVars
                 PROVE  [DeviceLimits!LimitNext]_(DeviceLimits!limitVars)
        OBVIOUS
    <2> USE DEF DeviceLimits!LimitNext, DeviceLimits!limitVars
    <2>0. DeviceTypeOK /\ known \ isActive \subseteq revokedAt
        BY DEF DeviceInv
    <2>1. ASSUME NEW r \in Registrations, CountDevices(r)
          PROVE  [DeviceLimits!LimitNext]_(DeviceLimits!limitVars)
        <3>1. Counted' = Counted /\ registering[r] = "count"
            BY <2>1 DEF CountDevices, Counted
        <3>2. CASE Cardinality(Counted) < DeviceLimit /\ Goes(r, "insert")
                   /\ UNCHANGED failedCounts
            BY <2>0, <3>1, <3>2 DEF Goes, DeviceTypeOK, DeviceLimits!Pass
        <3>3. CASE Answer(r) /\ UNCHANGED failedCounts
            BY <2>0, <3>1, <3>3 DEF Answer, DeviceTypeOK
        <3>4. CASE failedCounts' = failedCounts + 1 /\ Goes(r, "insert")
            BY <2>0, <3>1, <3>4 DEF Goes, DeviceTypeOK, DeviceLimits!PassUncounted
        <3> QED BY <2>1, <3>2, <3>3, <3>4 DEF CountDevices
    <2>2. ASSUME NEW r \in Registrations, UpsertDevice(r)
          PROVE  DeviceLimits!Add(r)
        <3>1. /\ registering[r] = "insert"
              /\ {q \in Registrations : registering'[q] = "insert"}
                    = {q \in Registrations : registering[q] = "insert"} \ {r}
            BY <2>0, <2>2 DEF UpsertDevice, Answer, DeviceTypeOK
        <3>2. Counted' = Counted \/ Counted' = Counted \cup {wanted[r]}
            BY <2>2 DEF UpsertDevice, Counted
        <3>3. Cardinality(Counted') \in {Cardinality(Counted), Cardinality(Counted) + 1}
            <4>1. CASE Counted' = Counted
                BY <4>1
            <4>2. CASE Counted' = Counted \cup {wanted[r]}
                BY <4>2, CountedIsFinite, FS_AddElement
            <4> QED BY <3>2, <4>1, <4>2
        <3>4. UNCHANGED failedCounts
            BY <2>2 DEF UpsertDevice
        <3> QED BY <3>1, <3>3, <3>4 DEF DeviceLimits!Add
    <2>3. ASSUME NEW r \in Registrations, NEW d \in Fingerprints, RevokeSilent(r, d)
          PROVE  DeviceLimits!Drop
        <3>1. Counted' \subseteq Counted /\ UNCHANGED failedCounts
            BY <2>3 DEF RevokeSilent, Counted
        <3>2. {q \in Registrations : registering'[q] = "insert"}
                 = {q \in Registrations : registering[q] = "insert"}
            BY <2>0, <2>3 DEF RevokeSilent, DeviceTypeOK
        <3>3. Cardinality(Counted') \in Nat /\ Cardinality(Counted') <= Cardinality(Counted)
            BY <3>1, CountedIsFinite, FS_Subset, FS_CardinalityType
        <3> QED BY <3>1, <3>2, <3>3, CountedIsFinite DEF DeviceLimits!Drop
    <2>4. ASSUME NEW d \in Fingerprints, Heartbeat(d)
          PROVE  UNCHANGED DeviceLimits!limitVars
        <3>1. Counted' = Counted
            BY <2>0, <2>4 DEF Heartbeat, Counted, DeviceTypeOK
        <3> QED BY <2>4, <3>1 DEF Heartbeat
    <2>5. ASSUME NEW d \in Fingerprints, RevokeDevice(d) \/ DeleteDevice(d)
          PROVE  DeviceLimits!Drop
        <3>1. Counted' \subseteq Counted /\ UNCHANGED <<registering, failedCounts>>
            BY <2>5 DEF RevokeDevice, DeleteDevice, Counted
        <3> QED BY <3>1, FewerCounted
    <2>6. ASSUME NEW d \in Fingerprints, FallSilent(d)
          PROVE  UNCHANGED DeviceLimits!limitVars
        BY <2>6 DEF FallSilent, Counted
    <2>7. CASE UNCHANGED deviceVars
        BY <2>7 DEF deviceVars, Counted
    <2> QED BY <2>1, <2>2, <2>3, <2>4, <2>5, <2>6, <2>7 DEF DeviceNext
<1> QED BY <1>1, <1>2, InactiveIsRevoked, PTL DEF DeviceSpec, DevicesLimited, DeviceLimits!LimitSpec

\* Active devices never exceed max_devices by more than the other registrations
\* under way and the registrations that a failed query let pass.
THEOREM DevicesNeverFarExceeded == DeviceSpec => []DeviceLimits!LimitInv
<1>1. DeviceTheorem!LimitAssumption
    BY DeviceAssumption
    DEF DeviceAssumption, DeviceTheorem!LimitAssumption, DeviceTheorem!IsFiniteSet, IsFiniteSet
<1>2. DeviceTheorem!LimitSpec => []DeviceTheorem!LimitInv
    BY <1>1, DeviceTheorem!LimitNeverFarExceeded
<1>3. DeviceLimits!LimitInit => DeviceTheorem!LimitInit
    BY DEF DeviceLimits!LimitInit, DeviceTheorem!LimitInit
<1>4. [DeviceLimits!LimitNext]_(DeviceLimits!limitVars)
         => [DeviceTheorem!LimitNext]_(DeviceTheorem!limitVars)
    BY DEF DeviceLimits!LimitNext, DeviceTheorem!LimitNext, DeviceLimits!limitVars,
           DeviceTheorem!limitVars, DeviceLimits!Pass, DeviceTheorem!Pass,
           DeviceLimits!PassUncounted, DeviceTheorem!PassUncounted,
           DeviceLimits!Add, DeviceTheorem!Add, DeviceLimits!Drop, DeviceTheorem!Drop
<1>5. DeviceTheorem!LimitInv => DeviceLimits!LimitInv
    BY DEF DeviceLimits!LimitInv, DeviceTheorem!LimitInv, DeviceLimits!LimitTypeOK,
           DeviceTheorem!LimitTypeOK, DeviceLimits!Cardinality, DeviceTheorem!Cardinality
<1> QED
    BY <1>2, <1>3, <1>4, <1>5, DevicesAreLimited, PTL
    DEF DevicesLimited, DeviceLimits!LimitSpec, DeviceTheorem!LimitSpec

-----------------------------------------------------------------------------
(* The charts of a job *)


LEMMA ChartStep ==
    ASSUME ChartsOfFinishedJobs, [ChartNext]_chartVars
    PROVE  ChartsOfFinishedJobs'
<1> USE ChartAssumption DEF ChartAssumption, ChartsOfFinishedJobs, ChartTypeOK,
                           deletionVars, requestVars, GoOn
<1>1. ASSUME WriteReport \/ EndRow
      PROVE  ChartsOfFinishedJobs'
    BY <1>1 DEF WriteReport, EndRow
<1>2. ASSUME NEW r \in Readers, NEW a \in Aggs, MissCache(r, a)
      PROVE  ChartsOfFinishedJobs'
    BY <1>2 DEF MissCache
<1>3. ASSUME NEW r \in Readers, ReadRow(r) \/ ReadReport(r)
      PROVE  ChartsOfFinishedJobs'
    BY <1>3 DEF ReadRow, ReadReport
<1>4. ASSUME NEW r \in Readers, FillCache(r)
      PROVE  ChartsOfFinishedJobs'
    BY <1>4 DEF FillCache
<1>5. ASSUME GrowOld
      PROVE  ChartsOfFinishedJobs'
    BY <1>5 DEF GrowOld
<1>6. ASSUME LookUpRow \/ RemoveReport \/ DeleteJobRow \/ DeleteRowOnly
      PROVE  ChartsOfFinishedJobs'
    <2>1. CASE LookUpRow
        BY <2>1 DEF LookUpRow
    <2>2. CASE RemoveReport
        BY <2>2 DEF RemoveReport
    <2>3. CASE DeleteJobRow
        BY <2>3 DEF DeleteJobRow
    <2>4. CASE DeleteRowOnly
        BY <2>4 DEF DeleteRowOnly
    <2> QED BY <1>6, <2>1, <2>2, <2>3, <2>4
<1>7. ASSUME RestartServer
      PROVE  ChartsOfFinishedJobs'
    <2>1. Fresh \in 0..Fresh
        OBVIOUS
    <2>2. /\ reader' \in [Readers -> {"idle", "row", "file", "cache"}]
          /\ \A r \in Readers : reader'[r] = "idle"
        BY <1>7 DEF RestartServer
    <2>3. age' \in [Aggs -> 0..Fresh] /\ \A a \in Aggs : age'[a] = Fresh
        BY <1>7, <2>1 DEF RestartServer
    <2>4. deletion' = "idle" /\ named' = FALSE /\ UNCHANGED <<running, jobRow, report, agg>>
        BY <1>7 DEF RestartServer
    <2>5. \A r \in Readers : reader'[r] \notin {"file", "cache"}
        BY <2>2
    <2>6. \A a \in Aggs : ~(age'[a] < Fresh)
        BY <2>3
    <2>7. running' \in BOOLEAN /\ (running' => jobRow' \in {"pending", "gone"})
        BY <2>4
    <2>8. ChartTypeOK'
        BY <2>2, <2>3, <2>4, <2>7
    <2> QED BY <2>5, <2>6, <2>7, <2>8
<1>8. CASE UNCHANGED chartVars
    BY <1>8 DEF chartVars
<1> QED BY <1>1, <1>2, <1>3, <1>4, <1>5, <1>6, <1>7, <1>8 DEF ChartNext

\* No chart of a job that has not succeeded is served or about to be cached, for
\* any number of requests (backtest.rs:298-444).
THEOREM OnlyFinishedCharts == ChartSpec => []ChartsOfFinishedJobs
<1>1. ChartInit => ChartsOfFinishedJobs
    <2>1. Fresh \in 0..Fresh
        BY ChartAssumption DEF ChartAssumption
    <2>2. ChartInit => age \in [Aggs -> 0..Fresh] /\ \A a \in Aggs : ~(age[a] < Fresh)
        BY <2>1, ChartAssumption DEF ChartAssumption, ChartInit
    <2> QED BY <2>2 DEF ChartInit, ChartsOfFinishedJobs, ChartTypeOK
<1>2. ChartsOfFinishedJobs /\ [ChartNext]_chartVars => ChartsOfFinishedJobs'
    BY ChartStep
<1> QED BY <1>1, <1>2, PTL DEF ChartSpec

\* The chart of a deleted job is not refreshed: it grows old and goes away
\* (backtest.rs:305-316, 432-441).
THEOREM ChartsFade == ChartSpec => DeletedChartsFade
<1>1. ChartsOfFinishedJobs /\ [ChartNext]_chartVars
         => [(jobRow = "gone" /\ \A r \in Readers : reader[r] \notin {"file", "cache"})
                => /\ \A r \in Readers : reader'[r] \notin {"file", "cache"}
                   /\ \A a \in Aggs : age'[a] >= age[a]]_chartVars
    <2> SUFFICES ASSUME ChartsOfFinishedJobs, ChartNext, jobRow = "gone",
                        \A r \in Readers : reader[r] \notin {"file", "cache"}
                 PROVE  /\ \A r \in Readers : reader'[r] \notin {"file", "cache"}
                        /\ \A a \in Aggs : age'[a] >= age[a]
        OBVIOUS
    <2> USE ChartAssumption DEF ChartAssumption, ChartsOfFinishedJobs, ChartTypeOK,
                               deletionVars, requestVars, GoOn
    <2>0. \A a \in Aggs : age[a] \in Nat /\ age[a] <= Fresh
        OBVIOUS
    <2>1. CASE WriteReport \/ EndRow
        BY <2>0, <2>1 DEF WriteReport, EndRow
    <2>2. CASE \E r \in Readers, a \in Aggs : MissCache(r, a)
        BY <2>0, <2>2 DEF MissCache
    <2>3. CASE \E r \in Readers : ReadRow(r) \/ ReadReport(r) \/ FillCache(r)
        BY <2>0, <2>3 DEF ReadRow, ReadReport, FillCache
    <2>4. CASE GrowOld
        BY <2>0, <2>4 DEF GrowOld
    <2>5. CASE LookUpRow \/ RemoveReport \/ DeleteJobRow \/ DeleteRowOnly
        BY <2>0, <2>5 DEF LookUpRow, RemoveReport, DeleteJobRow, DeleteRowOnly
    <2>6. CASE RestartServer
        BY <2>0, <2>6 DEF RestartServer
    <2> QED BY <2>1, <2>2, <2>3, <2>4, <2>5, <2>6 DEF ChartNext
<1> QED BY <1>1, OnlyFinishedCharts, PTL DEF ChartSpec, DeletedChartsFade

-----------------------------------------------------------------------------
(* Synchronising bars.  Below every bar that is there, and below the end   *)
(* of the range, some synchronisation comes down to each missing day: it   *)
(* is the one, or one of those, that inserted the bar.                     *)

Untouched == \A s \in Syncs : sync[s] \in {"ask", "delete"}

Aborted == \E s \in Syncs : sync[s] = "aborted"

ComesTo(m, d) == \E s \in Syncs : sync[s] = "insert" /\ m <= day[s] /\ day[s] < d

MissingDaysCovered ==
    \A d \in bars \cup {LastDay + 1}, m \in Days \ bars : m < d => ComesTo(m, d)

SyncTypes ==
    /\ BarTypeOK
    /\ \A s \in Syncs : sync[s] \in {"ask", "delete"} => day[s] = LastDay

BarInv ==
    /\ SyncTypes
    /\ Untouched \/ Aborted \/ MissingDaysCovered

LEMMA SyncTypesStep ==
    ASSUME SyncTypes, [BarNext]_barVars
    PROVE  SyncTypes'
<1> USE BarAssumption DEF BarAssumption, SyncTypes, BarTypeOK, SyncTo, Days
<1>1. ASSUME NEW s \in Syncs, FetchBars(s) \/ BarRefused(s) \/ AbortSync(s)
      PROVE  SyncTypes'
    BY <1>1 DEF FetchBars, BarRefused, AbortSync
<1>2. ASSUME NEW s \in Syncs, DeleteRange(s)
      PROVE  SyncTypes'
    BY <1>2 DEF DeleteRange
<1>3. ASSUME NEW s \in Syncs, InsertBar(s)
      PROVE  SyncTypes'
    <2>0. day[s] \in Days /\ day[s] - 1 \in 0..LastDay
        BY <1>3 DEF InsertBar
    <2>1. bars' \in SUBSET Days /\ day' \in [Syncs -> 0..LastDay] /\ day'[s] = day[s] - 1
        BY <1>3, <2>0 DEF InsertBar
    <2>2. /\ sync' \in [Syncs -> {"ask", "delete", "insert", "done", "refused", "aborted"}]
          /\ sync'[s] = IF day[s] = 1 THEN "done" ELSE "insert"
          /\ \A t \in Syncs \ {s} : sync'[t] = sync[t] /\ day'[t] = day[t]
        BY <1>3 DEF InsertBar
    <2> QED BY <1>3, <2>1, <2>2
<1>4. CASE UNCHANGED barVars
    BY <1>4 DEF barVars
<1> QED BY <1>1, <1>2, <1>3, <1>4 DEF BarNext

LEMMA InsertKeepsCovered ==
    ASSUME SyncTypes, MissingDaysCovered, NEW s \in Syncs, InsertBar(s)
    PROVE  MissingDaysCovered'
<1> USE BarAssumption DEF BarAssumption, SyncTypes, BarTypeOK, SyncTo, Days
<1>1. ASSUME NEW d \in bars' \cup {LastDay + 1}, NEW m \in Days \ bars', m < d
      PROVE  ComesTo(m, d)'
    <2>1. m \in Days \ bars /\ m # day[s] /\ day[s] \in Days /\ sync[s] = "insert"
        BY <1>1 DEF InsertBar
    <2>0. m \in Nat /\ d \in Nat /\ day[s] \in Nat
        BY <1>1, <2>1 DEF InsertBar
    <2>2. ASSUME m < day[s], day[s] <= d
          PROVE  ComesTo(m, d)'
        <3>1. sync'[s] = "insert" /\ day'[s] = day[s] - 1
            BY <2>1, <2>2 DEF InsertBar
        <3> QED BY <2>0, <2>2, <3>1 DEF ComesTo
    <2>3. CASE d = day[s]
        BY <1>1, <2>0, <2>1, <2>2, <2>3
    <2>4. CASE d # day[s]
        <3>1. d \in bars \cup {LastDay + 1}
            BY <1>1, <2>4 DEF InsertBar
        <3>2. PICK t \in Syncs : sync[t] = "insert" /\ m <= day[t] /\ day[t] < d
            BY <1>1, <2>1, <3>1 DEF MissingDaysCovered, ComesTo
        <3>3. CASE t = s
            BY <2>0, <2>1, <2>2, <3>2, <3>3
        <3>4. CASE t # s
            <4>1. sync'[t] = sync[t] /\ day'[t] = day[t]
                BY <3>4 DEF InsertBar
            <4> QED BY <3>2, <4>1 DEF ComesTo
        <3> QED BY <3>3, <3>4
    <2> QED BY <2>3, <2>4
<1> QED BY <1>1 DEF MissingDaysCovered

LEMMA RefusalKeepsCovered ==
    ASSUME SyncTypes, MissingDaysCovered, NEW s \in Syncs, BarRefused(s)
    PROVE  MissingDaysCovered'
<1> USE BarAssumption DEF BarAssumption, SyncTypes, BarTypeOK, SyncTo, Days
<1>1. /\ UNCHANGED <<bars, day>> /\ day[s] \in bars /\ sync[s] = "insert"
      /\ \A t \in Syncs \ {s} : sync'[t] = sync[t]
    BY DEF BarRefused
<1>2. ASSUME NEW d \in bars \cup {LastDay + 1}, NEW m \in Days \ bars, m < d
      PROVE  ComesTo(m, d)'
    <2>1. PICK t \in Syncs : sync[t] = "insert" /\ m <= day[t] /\ day[t] < d
        BY <1>2 DEF MissingDaysCovered, ComesTo
    <2>2. CASE t # s
        BY <1>1, <2>1, <2>2 DEF ComesTo
    <2>3. CASE t = s
        <3>1. m < day[s]
            BY <1>1, <1>2, <2>1, <2>3
        <3>2. PICK q \in Syncs : sync[q] = "insert" /\ m <= day[q] /\ day[q] < day[s]
            BY <1>1, <1>2, <3>1 DEF MissingDaysCovered, ComesTo
        <3>3. q # s
            BY <1>1, <3>2
        <3>4. day[q] < d
            BY <1>2, <2>1, <2>3, <3>2
        <3> QED BY <1>1, <3>2, <3>3, <3>4 DEF ComesTo
    <2> QED BY <2>2, <2>3
<1> QED BY <1>1, <1>2 DEF MissingDaysCovered

LEMMA BarStep ==
    ASSUME BarInv, [BarNext]_barVars
    PROVE  BarInv'
<1> USE BarAssumption DEF BarAssumption
<1>0. SyncTypes /\ SyncTypes'
    BY SyncTypesStep DEF BarInv
<1>1. CASE Aborted \/ Aborted'
    <2>1. Aborted => Aborted'
        <3>1. ASSUME NEW t \in Syncs, sync[t] = "aborted", NEW s \in Syncs,
                     \/ FetchBars(s) \/ DeleteRange(s) \/ InsertBar(s)
                     \/ BarRefused(s) \/ AbortSync(s)
              PROVE  sync'[t] = "aborted"
            BY <1>0, <3>1 DEF SyncTypes, BarTypeOK, SyncTo, FetchBars, DeleteRange, InsertBar,
                              BarRefused, AbortSync
        <3> QED BY <3>1 DEF Aborted, BarNext, barVars
    <2> QED BY <1>0, <1>1, <2>1 DEF BarInv
<1>2. CASE ~Aborted /\ ~Aborted'
    <2>1. ASSUME NEW s \in Syncs, FetchBars(s)
          PROVE  Untouched' \/ MissingDaysCovered'
        <3>1. /\ UNCHANGED <<bars, day>> /\ sync'[s] = "delete" /\ sync[s] = "ask"
              /\ \A t \in Syncs \ {s} : sync'[t] = sync[t]
            BY <1>0, <2>1 DEF FetchBars, SyncTypes, BarTypeOK, SyncTo
        <3>2. CASE Untouched
            BY <3>1, <3>2 DEF Untouched
        <3>3. CASE MissingDaysCovered
            <4>1. ASSUME NEW m, NEW d, ComesTo(m, d)
                  PROVE  ComesTo(m, d)'
                BY <3>1, <4>1 DEF ComesTo
            <4> QED BY <3>1, <3>3, <4>1 DEF MissingDaysCovered, Days
        <3> QED BY <1>2, <3>2, <3>3 DEF BarInv
    <2>2. ASSUME NEW s \in Syncs, DeleteRange(s)
          PROVE  MissingDaysCovered'
        <3>1. bars' = {} /\ sync'[s] = "insert" /\ day'[s] = LastDay
            BY <1>0, <2>2 DEF DeleteRange, SyncTypes, BarTypeOK, SyncTo
        <3> QED BY <3>1 DEF MissingDaysCovered, ComesTo, Days
    <2>3. ASSUME NEW s \in Syncs, InsertBar(s) \/ BarRefused(s)
          PROVE  MissingDaysCovered'
        <3>1. MissingDaysCovered
            BY <1>2, <2>3 DEF BarInv, Untouched, InsertBar, BarRefused
        <3> QED BY <1>0, <2>3, <3>1, InsertKeepsCovered, RefusalKeepsCovered
    <2>4. ASSUME NEW s \in Syncs, AbortSync(s)
          PROVE  Aborted'
        BY <1>0, <2>4 DEF AbortSync, SyncTypes, BarTypeOK, SyncTo, Aborted
    <2>5. CASE UNCHANGED barVars
        BY <1>2, <2>5 DEF barVars, BarInv, SyncTypes, BarTypeOK, Untouched, Aborted,
                          MissingDaysCovered, ComesTo
    <2> QED BY <1>0, <1>2, <2>1, <2>2, <2>3, <2>4, <2>5 DEF BarNext, BarInv
<1> QED BY <1>1, <1>2

\* Any number of synchronisations of one range of any length leave it complete,
\* unless one is aborted (tushare.rs:162-206).
THEOREM RangeIsComplete == BarSpec => []EqualSyncsComplete
<1>1. BarInit => BarInv
    BY BarAssumption
    DEF BarAssumption, BarInit, BarInv, SyncTypes, BarTypeOK, Untouched, Days
<1>2. BarInv /\ [BarNext]_barVars => BarInv'
    BY BarStep
<1>3. BarInv => EqualSyncsComplete
    <2> SUFFICES ASSUME BarInv PROVE EqualSyncsComplete
        OBVIOUS
    <2>1. ASSUME MissingDaysCovered, \A s \in Syncs : sync[s] # "insert"
          PROVE  bars = Days
        <3>1. \A m \in Days : m < LastDay + 1
            BY BarAssumption DEF BarAssumption, Days
        <3> QED BY <2>1, <3>1 DEF MissingDaysCovered, ComesTo, BarInv, SyncTypes, BarTypeOK
    <2> QED BY <2>1 DEF EqualSyncsComplete, BarInv, SyncTypes, Untouched, Aborted
<1> QED BY <1>1, <1>2, <1>3, PTL DEF BarSpec

-----------------------------------------------------------------------------
(* MCApiServer *)

\* Whichever part a behaviour of MCApiServer runs, it is one of that part, and the
\* other parts stand still: what is proved of a part holds of the whole.
THEOREM PartsAreSeparate ==
    PartsSpec => /\ SessionSpec /\ DeviceSpec /\ RateSpec /\ QuotaSpec
                 /\ PaymentSpec /\ ChartSpec /\ BarSpec
<1>1. PartsInit => /\ SessionInit /\ DeviceInit /\ RateInit /\ QuotaInit
                   /\ PaymentInit /\ ChartInit /\ BarInit
    BY DEF PartsInit
<1>2. [PartsNext]_partVars => [SessionNext]_sessionVars
    BY DEF PartsNext, partVars
<1>3. [PartsNext]_partVars => [DeviceNext]_deviceVars
    BY DEF PartsNext, partVars
<1>4. [PartsNext]_partVars => [RateNext]_rateVars
    BY DEF PartsNext, partVars
<1>5. [PartsNext]_partVars => [QuotaNext]_quotaVars
    BY DEF PartsNext, partVars
<1>6. [PartsNext]_partVars => [PaymentNext]_paymentVars
    BY DEF PartsNext, partVars
<1>7. [PartsNext]_partVars => [ChartNext]_chartVars
    BY DEF PartsNext, partVars
<1>8. [PartsNext]_partVars => [BarNext]_barVars
    BY DEF PartsNext, partVars
<1> QED
    BY <1>1, <1>2, <1>3, <1>4, <1>5, <1>6, <1>7, <1>8, PTL
    DEF PartsSpec, SessionSpec, DeviceSpec, RateSpec, QuotaSpec, PaymentSpec, ChartSpec, BarSpec

\* Window, quota and devices never exceed their limits by more than the other
\* requests under way and those that failed queries let pass, for every limit and every
\* number of requests (rate_limit.rs:117-146, backtest.rs:155-204,
\* subscription.rs:107-148).
THEOREM LimitsAreKept == PartsSpec => []LimitsHold
<1> QED
    BY PartsAreSeparate, WindowNeverFarExceeded, QuotaNeverFarExceeded,
       DevicesNeverFarExceeded, PTL
    DEF LimitsHold
=============================================================================
