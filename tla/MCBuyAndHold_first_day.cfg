SPECIFICATION HoldSpec
CONSTANTS
    Symbols = {s1}
    NoBar = NoBar
    Bars <- MCBars
    Percents <- MCPercents
    LimitPct <- MCLimitPct
    InitialCash = 1000000
    Scale = 1000
    Cent = 10
    Slippage = 1
    CommissionRate = 0
    StampDutyRate = 0
    TransferFeeRate = 0
    MaxDays = 2
    MaxOrders = 2
INVARIANT HeldFromTheFirstDay
CHECK_DEADLOCK FALSE
