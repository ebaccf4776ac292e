SPECIFICATION Spec
CONSTANTS
    b1 = b1
    v1 = v1
    v2 = v2
    v3 = v3
    x1 = x1
    x2 = x2
    x3 = x3
    latest1 = latest1
    release = release
    None = None
    Buckets = {b1}
    Versions = {v1, v2, v3}
    Builds = {x2, x3}
    Channels = {latest1}
    BucketOfVersion <- OneBucketOfVersion
    BucketOfChannel <- ManagedBucketOfChannel
    VersionOfBuild <- ChainVersionOfBuild
    Latest <- OneLatest
    Edges <- Chain
    Delays = {0}
    MaxClock = 3
    MaxSequence = 3
PROPERTIES FirstRevocationStands InheritedLiftedWithAncestor DescendantsRevoked
PROPERTIES RevokedChannelsRollBack
CHECK_DEADLOCK FALSE
