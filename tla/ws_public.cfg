\* One client, one stop, one cancellation, and failures past the cap of the backoff.
SPECIFICATION Spec
CONSTANTS
    Step = 5
    Cap = 10
    MaxAttempt = 4
INVARIANT PingConfined
PROPERTY StopEndsRun
\* A client ends.
CHECK_DEADLOCK FALSE
