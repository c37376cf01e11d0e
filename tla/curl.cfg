\* Redirect chains, header blocks, and a ring that chunks of its own size fill.
SPECIFICATION FairSpec
CONSTANTS
    RingCap = 4
    MaxHops = 2
    OpenTimeout = 2
    PumpMs = 1
    Half = 2
    ReadLen = 3
    Home <- HomeUrl
    MaxChunk = 4
    BodyMax = 8
    Statuses = {103, 200, 302, 503}
    RetryAfters = {1}
    Locations <- AllLocations
INVARIANTS TypeOK ReportsFinalResponse OriginKept OpenBounded PauseKnown
PROPERTIES StreamKept OpenReturns AllDelivered
