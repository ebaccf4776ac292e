SPECIFICATION Spec
CONSTANTS
    b1 = b1
    v1 = v1
    v2 = v2
    v3 = v3
    x1 = x1
    x2 = x2
    x3 = x3
    latest1 = latest1
    release = release
    None = None
    Buckets = {b1}
    Versions = {v1, v2}
    Builds = {x1, x2}
    Channels = {latest1, release}
    BucketOfVersion <- TwoBucketOfVersion
    BucketOfChannel <- OneBucketOfChannel
    VersionOfBuild <- TwoVersionOfBuild
    Latest <- OneLatest
    Edges = {}
    Delays = {0, 2}
    MaxClock = 4
    MaxSequence = 3
INVARIANTS AssignedComplete SequencesDistinct
PROPERTIES HistoryAppendOnly RollbackLandsOnValid EligibleQueued LatestNeverRevoked
CHECK_DEADLOCK FALSE
