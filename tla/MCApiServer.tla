---------------------------- MODULE MCApiServer ----------------------------
(***************************************************************************)
(* Small instances of parts of the API server.  They share no state, and   *)
(* every property is about one of them; so each behaviour runs one part,   *)
(* and the others stay as they start.                                      *)
(***************************************************************************)
EXTENDS RefreshTokens, Devices, RateLimiter, DailyQuota, Payments, ChartCache, BarSync, TLC

VARIABLE part

partVars == <<part, sessionVars, deviceVars, rateVars, quotaVars, paymentVars, chartVars, barVars>>

PartsInit ==
    /\ part \in {"sessions", "devices", "window", "quota", "payments", "charts", "bars"}
    /\ SessionInit
    /\ DeviceInit
    /\ RateInit
    /\ QuotaInit
    /\ PaymentInit
    /\ ChartInit
    /\ BarInit
    /\ part # "bars" => bars = Days

PartsNext ==
    \/ part = "sessions" /\ SessionNext
       /\ UNCHANGED <<part, deviceVars, rateVars, quotaVars, paymentVars, chartVars, barVars>>
    \/ part = "devices" /\ DeviceNext
       /\ UNCHANGED <<part, sessionVars, rateVars, quotaVars, paymentVars, chartVars, barVars>>
    \/ part = "window" /\ RateNext
       /\ UNCHANGED <<part, sessionVars, deviceVars, quotaVars, paymentVars, chartVars, barVars>>
    \/ part = "quota" /\ QuotaNext
       /\ UNCHANGED <<part, sessionVars, deviceVars, rateVars, paymentVars, chartVars, barVars>>
    \/ part = "payments" /\ PaymentNext
       /\ UNCHANGED <<part, sessionVars, deviceVars, rateVars, quotaVars, chartVars, barVars>>
    \/ part = "charts" /\ ChartNext
       /\ UNCHANGED <<part, sessionVars, deviceVars, rateVars, quotaVars, paymentVars, barVars>>
    \/ part = "bars" /\ BarNext
       /\ UNCHANGED <<part, sessionVars, deviceVars, rateVars, quotaVars, paymentVars, chartVars>>

PartsSpec == PartsInit /\ [][PartsNext]_partVars

PartsSymmetry == Permutations(Users) \cup Permutations(Refreshes)

\* What a limit is worth, for each of the three that are counted first and
\* taken up later.
LimitsHold ==
    /\ RateLimit!LimitInv
    /\ QuotaLimit!LimitInv
    /\ DeviceLimits!LimitInv
=============================================================================
