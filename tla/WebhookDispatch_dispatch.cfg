SPECIFICATION Spec
CONSTANTS
    Replicas = {r1}
    Hooks = {h1, h2}
    URLs = {url1}
    None = None
    MaxAttempts = 2
    Ring = 1
    MaxId = 3
    MaxCalls = 1
    MaxAborts = 1
INVARIANTS QueuedUntilFinished SentAtMost
PROPERTIES FinishedStands OutboxDrains
CHECK_DEADLOCK FALSE
