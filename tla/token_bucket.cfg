\* Three callers that acquire again and again; the clock ends when all are served.
SPECIFICATION BucketFairSpec
CONSTANTS
    c1 = c1
    c2 = c2
    c3 = c3
    Nobody = Nobody
    Callers <- MCCallers
    Cost = 2
    Burst = 2
    Late = 1
    LastArrival = 5
    MaxTime = 14
INVARIANT BucketTypeOK
INVARIANT AtMostTwiceTheRate
INVARIANT SleepBounded
PROPERTY AcquireReturns
CHECK_DEADLOCK FALSE
