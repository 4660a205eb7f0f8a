SPECIFICATION Spec
CONSTANTS
    A = A
    B = B
    Symbols <- MCSymbols
    StartingCash = 10000
    SlippageBps = 500
    Commission = 10
    OrderPct = 50
    PositionPct = 60
    TargetCashPct = 10
    MinTradeValue = 400
    StopLossPct = 25
    TrailingPct = 25
    MaxDrawdownPct = 20
    MaxOpenPositions = 2
    MaxDailyOrders = 2
    CooldownDays = 1
    AllowPositionAdds = TRUE
    Days = 5
    TradeStart = 2
    BarChoices <- MCBarChoices
    SignalChoices <- MCSignalChoices
    ActionChoices <- MCActionChoices
    MaxActions = 2
INVARIANTS
    HaltedHoldingsOnSale
PROPERTIES
    OpeningBuysKeepLimits
    CorporateActionsAreNeutral
    SameAsTradingEngine
CHECK_DEADLOCK FALSE
