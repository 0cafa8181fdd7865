CONSTANTS
    p1 = p1  p2 = p2
    i1 = i1  i2 = i2  a1 = a1
    c1 = c1
    None = None
    Publishers = {p1, p2}
    Items = {i1, i2}
    Archives = {a1}
    ArchiveOf <- OneArchive
    Channels = {c1}
    Parts = 2
    MaxCalls = 3
    MaxFaults = 2
    MaxEdits = 1
SPECIFICATION FairSpec
INVARIANTS TypeOK SeenIsDeliverable AbandonedOnlyByFaults
PROPERTIES ArchivesImmutable RetrySucceeds
CHECK_DEADLOCK FALSE
