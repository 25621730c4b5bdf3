SPECIFICATION SourceSpec
CONSTANTS
    a = a
    b = b
    Records = {1}
    Revisions = {a, b}
    Locations = {here, there}
    NoRevision = NoRevision
    NoLocation = NoLocation
    MaxVersion = 12
    Scanners = {p}
    Nobody = Nobody
    NoRow = NoRow
    NoFile = NoFile
    Stamps = {1}
    Size <- Sizes
    MinUnchanged = 1
    MaxCandidate = 2
    HashBudget = 1
    Guarded = TRUE
    MinScans = 2
    MinElapsed = 0
    Times = {0}
    MaxChanges = 2
PROPERTIES StableIsDescribed
CHECK_DEADLOCK FALSE
