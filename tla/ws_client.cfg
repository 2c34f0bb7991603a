\* Two clients, stopped, cancelled and run again at any point.
SPECIFICATION ClientFairSpec
CONSTANTS
    spot = spot
    linear = linear
    Clients <- MCClients
    Base = 10
    MaxDelay = 30
    Jitters <- MCJitters
    MaxExponent = 3
INVARIANT ClientTypeOK
INVARIANT BackoffMatchesOutage
INVARIANT FailsOnlyAfterLongOutage
PROPERTY StopIsFinal
PROPERTY StopEndsRun
