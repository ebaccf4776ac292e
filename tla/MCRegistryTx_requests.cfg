SPECIFICATION TxSpec
CONSTANTS
    v1 = v1
    v2 = v2
    x1 = x1
    y1 = y1
    x2 = x2
    latest = latest
    release = release
    Null = Null
    Sessions = {s1, s2}
    Versions = {v1, v2}
    Builds = {x1, x2}
    Channels = {latest, release}
    Latest = latest
    VersionOfBuild <- OneBuildEach
    Requests <- AllRequests
    StartVersions <- BothIncomplete
    StartBuilds <- OneRunning
    StartHistory <- NoHistory
    MaxClock = 5
INVARIANTS AllottedStillFree AssignedComplete BuildsHaveVersions
PROPERTIES CompletionStands
SYMMETRY Replicas
CHECK_DEADLOCK FALSE
