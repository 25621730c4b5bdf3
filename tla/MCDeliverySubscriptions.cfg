SPECIFICATION Spec
CONSTANTS
    s1 = s1
    s2 = s2
    Records = {1}
    Revisions = {a, b}
    Locations = {here, there}
    NoRevision = NoRevision
    NoLocation = NoLocation
    MaxVersion = 3
    MaxSequence = 3
    Subscriptions = {s1, s2}
    Config <- RebuildAndReplay
    Times = {0}
    Durations = {1}
INVARIANTS NothingMissed UnsupportedWithheld
SYMMETRY Symmetry
CHECK_DEADLOCK FALSE
