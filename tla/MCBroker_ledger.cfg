SPECIFICATION Spec
CONSTANTS
    Symbols = {s1, s2}
    NoBar = NoBar
    Bars <- MCBars
    Percents <- MCPercents
    LimitPct <- MCLimitPct
    InitialCash = 400
    Scale = 10
    Cent = 10
    Slippage = 2
    CommissionRate = 1
    StampDutyRate = 2
    TransferFeeRate = 1
    MaxDays = 2
    Parts = 60
    MaxOrders = 3
INVARIANTS
    BrokerInv
    TradesExplainAccount
    SoldAfterTheDayOfPurchase
    FifoAgrees
PROPERTIES
    TradesCostMoney
    AccountSpec
CHECK_DEADLOCK FALSE
