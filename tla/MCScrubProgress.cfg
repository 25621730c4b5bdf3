SPECIFICATION ProgressUpToNames
CONSTANTS
    a = a
    b = b
    here = here
    there = there
    Records = {1, 2}
    Revisions = {a, b}
    Locations = {here, there}
    NoRevision = NoRevision
    NoLocation = NoLocation
    MaxVersion = 12
    Scanners = {p}
    Nobody = Nobody
    NoRow = NoRow
    NoFile = NoFile
    Stamps = {1}
    Size <- SameSize
    MinUnchanged = 2
    MaxCandidate = 2
    HashBudget = 1
    Guarded = TRUE
    MinScans = 2
    MinElapsed = 0
    Times = {0}
    MaxChanges = 1
    Scrubbers = {s}
    Rank <- RankOf
    ScrubBudget = 1
PROPERTIES Converges
CHECK_DEADLOCK FALSE
