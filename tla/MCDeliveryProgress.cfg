SPECIFICATION ProgressSpec
CONSTANTS
    s1 = s1
    s2 = s2
    Records = {1, 2}
    Revisions = {a, b}
    Locations = {here}
    NoRevision = NoRevision
    NoLocation = NoLocation
    MaxVersion = 2
    MaxSequence = 2
    Subscriptions = {s1}
    Config <- OneAtATime
    Times = {0}
    Durations = {1}
INVARIANTS LeaseCap
PROPERTIES EventuallySettled
CHECK_DEADLOCK FALSE
