\* A signed and an unsigned call, three retries each.
SPECIFICATION FairSpec
CONSTANTS
    order = order
    ticker = ticker
    Requests <- MCRequests
    MaxRetries = 3
    Unit = 1
    Private <- MCPrivate
    RecvWindow = 10
    Slow = 4
INVARIANT DuplicatesOnlyAfterDoubt
INVARIANT FreshWhenPrompt
PROPERTY ExecutedFresh
PROPERTY CallsEnd
CHECK_DEADLOCK FALSE
