CONSTANTS
    None = None
    Files <- MCFiles
    Links <- MCLinks
    SizeOf <- MCSizeOf
    MaxEdits = 2
    MaxFaults = 1
SPECIFICATION FairSpec
INVARIANTS TypeOK SuccessIsSnapshot ManifestHasArchive
PROPERTY RetrySucceeds
CHECK_DEADLOCK FALSE
