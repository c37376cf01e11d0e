\* Redirect chains over every kind of Location, then reads of the body.
SPECIFICATION FairSpec
CONSTANTS
    MaxHops = 2
    HeaderTimeout = 2
    ReadTimeout = 5
    IntMax = 3
    ReadLen = 2
    Home <- HomeUrl
    BodyMax = 4
    Statuses = {200, 302, 304}
    ContentTypes = {"", "sse"}
    RetryAfters = {1, 5}
    Locations <- AllLocations
INVARIANTS TypeOK ReportsFinalResponse OriginKept ReadTimeoutApplied
PROPERTIES FailureReported StreamKept OpenReturns
