SPECIFICATION Spec
CONSTANTS
    v1 = v1
    v2 = v2
    p1 = p1
    p2 = p2
    j1 = j1
    j2 = j2
    w2 = w2
    Versions = {v1, v2}
    Platforms = {p1, p2}
    Sources = {releases, upload}
    Releases = releases
    Uploaded = upload
    Jobs = {j1, j2}
    Workers = {w1, w2}
    Callers = {c1}
    Requests <- Imports
    None = None
    MaxFaults = 1
    MaxRemovals = 1
    MaxExports = 3
INVARIANTS
    OneSource
    BundleHasBytes
PROPERTIES
    ImportsFinish
ACTION_CONSTRAINT Bounds
CHECK_DEADLOCK FALSE
