\* Three runs over two days, and one listing.
SPECIFICATION DigestSpec
CONSTANTS
    p1 = p1
    p2 = p2
    p3 = p3
    Procs <- MCProcs
    Days <- MCDays
    MaxRetries = 3
    MaxPages = 2
    MaxSleep = 60
    Backoff <- MCBackoff
    Resets <- MCResets
    RetryAfters <- MCRetryAfters
SYMMETRY Sym
INVARIANT SentOncePerDay
INVARIANT ListingFaithful
\* Runs and listings end.
CHECK_DEADLOCK FALSE
