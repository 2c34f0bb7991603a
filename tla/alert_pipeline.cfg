\* Two live symbols, two alerts, one restart, four seconds of clock.
SPECIFICATION FairSpec
CONSTANTS
    None = None
    btc = btc
    eth = eth
    doge = doge
    Symbols <- MCSymbols
    AllowSymbols = {}
    DenySymbols <- MCDeny
    SpotPrices <- MCSpotPrices
    MarkPrices <- MCMarkPrices
    EnableAlerts = TRUE
    Credentials = TRUE
    Threshold = 2
    MinPrice = 50
    Cooldown = 2
    SendFloor = 1
    SendCeiling = 2
    Start = 3
    MaxTime = 3
    MaxAlerts = 2
    MaxRuns = 1
INVARIANT TypeOK
INVARIANT CooldownPerSymbol
INVARIANT NoMissedAlert
INVARIANT ThrottleSpacing
INVARIANT RefusedOnlyAfterSuccess
PROPERTY SendsResolve
PROPERTY ImplementsGate
CHECK_DEADLOCK FALSE
