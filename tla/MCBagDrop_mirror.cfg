SPECIFICATION Spec
CONSTANTS
    Buckets <- MCBuckets
    Components = {"image", "disk"}
    Gone = Gone
    Unread = Unread
    NoChannel = NoChannel
    Unassigned = Unassigned
    Ancestry <- MCAncestry
    Associated <- MCAssociated
    Contents <- MCContents
    MaxVersions = 2
    MaxCalls = 2
    MaxEdits = 1
    MaxFaults = 1
INVARIANTS
    NoOrphanMirror
PROPERTIES
    SyncedMirrors
    RemovalCompletes
