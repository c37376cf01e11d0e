\* The ESP-IDF polling task: delays longer than the cap, a tick of 2 ms.
SPECIFICATION TaskSpec
CONSTANTS
    Half = 8
    MsPerSecond = 2
    MaxShift = 1
    AttemptsCap = 2
    IdMax = 1
    DefaultRetryMs = 7
    FallbackRetryMs = 3
    ReadTimeoutMs = 2
    FallbackReadMs = 1
    MaxRetryMs = 0
    JitterPct = 0
    IdleTimeoutMs = 3
    SkipContentTypeCheck = TRUE
    IdBufLen = 2
    Installed <- SomeCallbacks
    ClockStarts = {9}
    Statuses = {200, 204}
    RetryAfters <- NoRetryAfter
    Ids = {}
    RetryFields = {1}
    OpenMs = 2
    CallbackMs = 0
    Lag = 1
    DelayCap = 2
    TickMs = 2
INVARIANTS StopLatency TaskEndsClosed TaskPunctual
PROPERTIES TaskStops RetryConnects DeadConnectionLeft
CHECK_DEADLOCK FALSE
