\* Two selector processes, three symbols of which one is denied, a limit of two.
SPECIFICATION Spec
CONSTANTS
    Procs = {a, b}
    Symbols = {1, 2, 3}
    Markets <- MCMarkets
    AllowList = {}
    DenyList = {3}
    MinPrice = 1
    MinVol = 10
    MinDepth = 100
    WindowPct = 2
    MinLevels = 3
    Threshold = 2
    Limit = 2
    Cooldown = 1
    SweepAge = 1
    MaintAge = 2
    MaxTime = 3
    MaxRuns = 3
INVARIANT SpacedUpToLag
INVARIANT NothingBetterPassedOver
SYMMETRY Sym
CHECK_DEADLOCK FALSE
