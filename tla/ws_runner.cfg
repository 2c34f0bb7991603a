\* Both programs, every set of tasks, three frames, refreshes without bound.
SPECIFICATION Spec
CONSTANTS
    btc = btc
    eth = eth
    None = None
    Broken = Broken
    NoFrame = NoFrame
    Symbols <- MCSymbols
    Admitted <- MCAdmitted
    Prices <- MCPrices
    Frames <- MCFrames
    Listings <- MCListings
    PollingTakesSignals = TRUE
    MaxFrames = 3
INVARIANT PricesAgree
PROPERTY FramesHandled
PROPERTY FailureEndsAll
\* The program ends, or runs on after Ctrl+C has stopped only the polling.
CHECK_DEADLOCK FALSE
