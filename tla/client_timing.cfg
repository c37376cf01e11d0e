\* Deadlines, jitter, the clamp and the idle timeout on a wrapping clock.
SPECIFICATION Spec
CONSTANTS
    Half = 5
    MsPerSecond = 2
    MaxShift = 2
    AttemptsCap = 3
    IdMax = 1
    DefaultRetryMs = 1
    FallbackRetryMs = 3
    ReadTimeoutMs = 1
    FallbackReadMs = 1
    MaxRetryMs = 3
    JitterPct = 50
    IdleTimeoutMs = 2
    SkipContentTypeCheck = FALSE
    IdBufLen = 2
    Installed <- NoPolicy
    ClockStarts = {8}
    Statuses = {200, 503}
    RetryAfters <- SomeRetryAfters
    Ids = {0}
    RetryFields = {0, 9}
    OpenMs = 1
    CallbackMs = 1
    Lag = 1
INVARIANTS PunctualReconnect SilenceBounded
PROPERTIES NoEarlyReconnect IdleIsReal
