CONSTANTS
    Users = {u1, u2}
    Refreshes = {r1, r2}
    MaxTokens = 5
    Fingerprints = {d1, d2, d3}
    Registrations = {g1, g2}
    DeviceLimit = 1
    MaxUncounted = 1
    Handlers = {h1, h2, h3}
    MaxRequests = 2
    MaxMembers = 6
    Submissions = {s1, s2, s3}
    Quota = 2
    DefaultQuota = 4
    MaxDefaulted = 1
    MaxRows = 5
    Buyers = {b1, b2}
    LastSecond = 2
    Readers = {q1, q2}
    Aggs = {month, auto}
    Fresh = 2
    Syncs = {y1, y2, y3}
    LastDay = 3
SPECIFICATION PartsSpec
INVARIANTS
    SessionInv
    DeviceInv
    LimitsHold
    PaidIsDated
    ChartsOfFinishedJobs
    EqualSyncsComplete
PROPERTIES
    OnlyRefreshesUnderWayRevive
    RateLimited
    QuotaKept
    DevicesLimited
    DeletedChartsFade
SYMMETRY PartsSymmetry
CHECK_DEADLOCK FALSE
