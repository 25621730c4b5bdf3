SPECIFICATION InstancesSpec
CONSTANTS
    a = a
    p = p
    q = q
    s = s
    b = b
    here = here
    there = there
    Records = {1}
    Revisions = {a, b}
    Locations = {here, there}
    NoRevision = NoRevision
    NoLocation = NoLocation
    MaxVersion = 12
    Scanners = {p, q}
    Nobody = Nobody
    NoRow = NoRow
    NoFile = NoFile
    Stamps = {1}
    Size <- Sizes
    MinUnchanged = 2
    MaxCandidate = 1
    HashBudget = 1
    Guarded = TRUE
    MinScans = 2
    MinElapsed = 1
    Times = {0, 1}
    MaxChanges = 3
    Scrubbers = {s}
    Rank <- RankOf
    ScrubBudget = 1
INVARIANTS SourceTypeOK AdmittedWasCommitted SightingCancels EventChain
PROPERTIES SteadyFileSurvives CycleCoversAll
CHECK_DEADLOCK FALSE
