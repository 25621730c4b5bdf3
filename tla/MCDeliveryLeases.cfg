SPECIFICATION Spec
CONSTANTS
    s1 = s1
    s2 = s2
    Records = {1, 2}
    Revisions = {a, b}
    Locations = {here}
    NoRevision = NoRevision
    NoLocation = NoLocation
    MaxVersion = 2
    MaxSequence = 2
    Subscriptions = {s1}
    Config <- OneReplay
    Times = {0, 1, 2}
    Durations = {1}
INVARIANTS TypeOK RecordOrder LeaseExclusive SettledByLastHolder RedeliveryBounded
PROPERTIES SettledIsFinal IsRecordFeed
SYMMETRY Symmetry
CHECK_DEADLOCK FALSE
