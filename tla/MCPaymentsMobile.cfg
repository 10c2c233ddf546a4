\* Payments with numbers that are spellings of a mobile, and others that are none.
CONSTANTS
    r1 = r1
    r2 = r2
    k = k
    None = None
    Requests <- MCRequests
    Workloads <- MobileWorkloads
SPECIFICATION Spec
INVARIANTS
    MobilesAreValidated
CHECK_DEADLOCK FALSE
