SPECIFICATION Spec
CONSTANTS
    Builds = {b1}
    Workers = {w1, w2}
    None = None
    MaxInventory = 1
    MaxRuns = 7
    MaxChanges = 3
    MaxFaults = 1
INVARIANTS CurrentOfLiveInventory LatestIsNewest
PROPERTIES CurrentMovesForward QueueDrains
CHECK_DEADLOCK FALSE
