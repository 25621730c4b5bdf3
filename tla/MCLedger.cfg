SPECIFICATION BackupSpec
CONSTANTS
    o = o
    u = u
    x = x
    y = y
    Records = {1}
    Revisions = {a, b}
    Locations = {here, there}
    NoRevision = NoRevision
    NoLocation = NoLocation
    MaxVersion = 4
    Operators = {o, u}
    Paths = {x, y}
    Targets <- TargetsOf
    Absent = Absent
INVARIANTS BackupTypeOK LedgerReplays EventChain CatalogIsPast ManifestNotAhead
PROPERTIES AppendOnly KnownGoodKept RestoreValidates
SYMMETRY Symmetry
CHECK_DEADLOCK FALSE
