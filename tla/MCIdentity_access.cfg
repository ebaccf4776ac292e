SPECIFICATION Spec
CONSTANTS
    a = a
    b = b
    a1 = a1
    a2 = a2
    ax = ax
    b1 = b1
    q1 = q1
    q2 = q2
    r1 = r1
    r2 = r2
    Principals = {a, b}
    Roots = {a, b}
    Secrets = {a1, a2, ax, b1}
    Owner <- Owners
    Permanent = {a1, a2, b1}
    Replicas = {r1, r2}
    Requests = {q1, q2}
    None = None
    MaxActiveSecrets = 2
    MaxFaults = 1
INVARIANTS
    ClaimedOnce
    RootsKeepKey
    RevokedHere
PROPERTIES
    RefusedEverywhere
ACTION_CONSTRAINT Bounds
CHECK_DEADLOCK FALSE
