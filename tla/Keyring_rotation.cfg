SPECIFICATION Spec
CONSTANTS
    Replicas = {r1, r2}
    Purposes = {audit_hmac, payload}
    Payload = payload
    FirstPurpose = audit_hmac
    MaxVersion = 2
    MaxBatch = 3
    MaxKEK = 2
    MaxFaults = 1
INVARIANTS Agreement SealedStaysOpenable ServesAsRecorded
PROPERTIES ImplementsKeyTable PeersAdopt
CHECK_DEADLOCK FALSE
