CONSTANTS
    o1 = o1  t1 = t1  t2 = t2  void = void  text = text  gif = gif
    n1 = n1  n2 = n2
    Files = {o1, t1, t2, void, text, gif}
    Entry <- Entered
    FileType <- Types
    NameOf <- Names
    Inlined <- Sizes
    Threshold = 3
    MaxAttempts = 2
    MaxListed = 2
    MaxPolls = 2
    Jobs <- SomeJobs
    MaxFaults = 2
    None = None
SPECIFICATION FairSpec
INVARIANTS TypeOK OneLastChunk CleanResultIsSuccess NothingDropped ResultRecovered
PROPERTIES JobEndsUnlessMissed
CHECK_DEADLOCK FALSE
