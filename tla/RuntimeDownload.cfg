CONSTANTS
    c1 = c1  c2 = c2
    r1 = r1
    None = None
    Calls = {c1, c2}
    Runtimes = {r1}
    Ranges = 2
    MaxFaults = 2
    MaxEdits = 1
SPECIFICATION FairSpec
INVARIANTS TypeOK OkMeansDurable
PROPERTIES RetrySucceeds
