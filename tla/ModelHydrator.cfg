CONSTANTS
    v1 = v1  v2 = v2  v3 = v3
    Versions = {v1, v2, v3}
    SizeOf <- Sizes
    Headroom = 1
    Capacity = 7
    MaxFaults = 3
    Mixed = Mixed
    None = None
SPECIFICATION FairSpec
INVARIANTS TypeOK OnlyVerifiedBytes
PROPERTIES ArtifactNeverRemoved RetrySucceeds
