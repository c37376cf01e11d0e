\* A callback closes the client in the middle of a chunk.
SPECIFICATION XSpec
CONSTANTS
    Half = 2
    MsPerSecond = 1
    MaxShift = 0
    AttemptsCap = 1
    IdMax = 3
    DefaultRetryMs = 1
    FallbackRetryMs = 1
    ReadTimeoutMs = 1
    FallbackReadMs = 1
    MaxRetryMs = 0
    JitterPct = 0
    IdleTimeoutMs = 0
    SkipContentTypeCheck = FALSE
    IdBufLen = 4
    Installed <- StreamCallbacks
    ClockStarts = {0}
    Statuses = {200, 503}
    RetryAfters <- NoRetryAfter
    Ids = {1, 2, 3}
    RetryFields = {1}
    OpenMs = 0
    CallbackMs = 0
    Lag = 0
    DataBufLen = 4
    EventBufLen = 2
    RxBufLen = 16
    Events = 3
    Big = {2}
PROPERTY BorrowedUntilClosed
CHECK_DEADLOCK FALSE
