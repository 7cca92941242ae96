SPECIFICATION Spec
CONSTANTS
    Symbols = {s1}
    NoBar = NoBar
    Bars <- MCBars
    Percents <- MCPercents
    LimitPct <- MCLimitPct
    InitialCash = 400
    Scale = 10
    Cent = 10
    Slippage = 2
    CommissionRate = 1
    StampDutyRate = 2
    TransferFeeRate = 1
    MaxDays = 2
    Parts = 60
    MaxOrders = 1
INVARIANT SnapshotAtMarket
CHECK_DEADLOCK FALSE
