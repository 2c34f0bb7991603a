\* Two calls of the alerter and three clients of the gate, one restart.
SPECIFICATION Spec
CONSTANTS
    c1 = c1
    c2 = c2
    k1 = k1
    k2 = k2
    k3 = k3
    BTC = BTC
    Calls = {c1, c2}
    Clients = {k1, k2, k3}
    Symbols = {BTC}
    SymbolOf <- MCSymbolOf
    Cooldown = 2
    GateCooldown = 2
    Epoch = 2
    MaxTime = 5
    MaxLives = 2
INVARIANT DoubleOnlyAfterFailure
INVARIANT HistoryFaithful
INVARIANT GateSurvivesRestart
SYMMETRY Sym
CHECK_DEADLOCK FALSE
