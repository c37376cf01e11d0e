\* Every control path: all callbacks and the policy hook, each may close.
SPECIFICATION Spec
CONSTANTS
    Half = 4
    MsPerSecond = 2
    MaxShift = 2
    AttemptsCap = 3
    IdMax = 1
    DefaultRetryMs = 1
    FallbackRetryMs = 1
    ReadTimeoutMs = 1
    FallbackReadMs = 1
    MaxRetryMs = 3
    JitterPct = 0
    IdleTimeoutMs = 0
    SkipContentTypeCheck = FALSE
    IdBufLen = 2
    Installed <- AllCallbacks
    ClockStarts = {6}
    Statuses = {200, 204, 404, 429, 503}
    RetryAfters <- SomeRetryAfters
    Ids = {0, 1}
    RetryFields = {0, 1}
    OpenMs = 0
    CallbackMs = 0
    Lag = 1
INVARIANTS TypeOK FinalSignal  StopHonoured ReconnectCounted ResumesFromLastId NoOversleep
PROPERTIES ClosedIsFinal SameInvocation ContractKept
