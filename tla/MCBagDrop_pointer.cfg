SPECIFICATION Spec
CONSTANTS
    Buckets <- MCBuckets
    Components = {"image", "disk"}
    Gone = Gone
    Unread = Unread
    NoChannel = NoChannel
    Unassigned = Unassigned
    Ancestry <- MCAncestry
    Associated <- MCAssociated
    Contents <- MCContents
    MaxVersions = 2
    MaxCalls = 1
    MaxEdits = 1
    MaxFaults = 0
INVARIANT
    AssignmentTargetExists
