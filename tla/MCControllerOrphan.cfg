SPECIFICATION ControllerSpec
CONSTANTS
    s1 = s1
    s2 = s2
    a = a
    b = b
    Records = {1}
    Revisions = {a, b}
    Locations = {here}
    NoRevision = NoRevision
    NoLocation = NoLocation
    MaxVersion = 2
    MaxSequence = 2
    Subscriptions = {s1}
    Config <- Retrying
    Times = {0, 1}
    Durations = {1}
    Runs = {p, q}
    Size <- Sizes
    MaxDeliveries = 2
    MaxPayloadBytes = 2
    Unavailable = "retry"
    Roots = {here}
    SharedCache = TRUE
    ImportersOutlive = TRUE
    LookupFails = FALSE
    MaxClock = 1
INVARIANTS StaleAttemptsRejected
CHECK_DEADLOCK FALSE
