SPECIFICATION Spec
CONSTANTS
    RingCap = 2
    MaxHops = 1
    OpenTimeout = 2
    PumpMs = 1
    Half = 2
    ReadLen = 1
    Home <- HomeUrl
    MaxChunk = 1
    BodyMax = 1
    Statuses = {103, 200, 302, 503}
    RetryAfters = {1, 2, 3}
    Locations <- HomeOnly
INVARIANT RetryAfterDelivered
