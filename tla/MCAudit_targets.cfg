SPECIFICATION Spec
CONSTANTS
    First = s1
    Second = s2
    Sinks <- Handles
    Requests = {q1}
    Rotations = {r1}
    Close = Close
    QueueDepth = 1
    MaxSinks = 2
INVARIANTS
    RemovalSpares
PROPERTIES
    KeepsTrail
    RemovalEnds
CHECK_DEADLOCK FALSE
ACTION_CONSTRAINT Bounds
