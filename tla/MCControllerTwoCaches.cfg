SPECIFICATION ControllerSpec
CONSTANTS
    s1 = s1
    s2 = s2
    a = a
    b = b
    Records = {1}
    Revisions = {a, b}
    Locations = {here, there}
    NoRevision = NoRevision
    NoLocation = NoLocation
    MaxVersion = 2
    MaxSequence = 2
    Subscriptions = {s1}
    Config <- Retrying
    Times = {0, 1}
    Durations = {1}
    Runs = {p, q}
    Size <- Sizes
    MaxDeliveries = 2
    MaxPayloadBytes = 1
    Unavailable = "block"
    Roots = {here}
    SharedCache = FALSE
    ImportersOutlive = TRUE
    LookupFails = TRUE
    MaxClock = 1
INVARIANTS AcknowledgedIsApplied OneWorker EffectsBounded
CHECK_DEADLOCK FALSE
SYMMETRY RunSymmetry
