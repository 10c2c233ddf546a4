\* Two transfers under one idempotency key.
CONSTANTS
    r1 = r1
    r2 = r2
    k = k
    None = None
    Requests <- MCRequests
    Workloads <- KeyWorkloads
SPECIFICATION Spec
INVARIANTS
    SameKeySameTransfer
CHECK_DEADLOCK FALSE
