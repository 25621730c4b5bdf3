SPECIFICATION CacheSpec
CONSTANTS
    p = p
    q = q
    a = a
    b = b
    Threads = {1, 2}
    Processes = {p, q}
    Home <- Homes
    Nobody = Nobody
    Nonces = {n1, n2, n3}
    Revisions = {a, b}
    Torn = Torn
    Size <- Sizes
    MaxEntryBytes = 2
    MaxEntries = 2
    MaxBytes = 3
    LeasesOutlive = TRUE
INVARIANTS CacheTypeOK EntriesAccounted BytesAccounted DiskIsReserved DiskBounded LeaseKeepsFile
SYMMETRY Symmetry
