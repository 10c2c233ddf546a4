\* A leader and a joiner of a fallback that never settles.
CONSTANTS
    c1 = c1
    c2 = c2
    c3 = c3
    k1 = k1
    k2 = k2
    Calls <- MCCalls
    Keys <- MCKeys
    Workloads <- MCWorkloads
SPECIFICATION FairSpec
PROPERTY NoHangingRequests
\* Calls are made once: the instance stops when all have returned.
CHECK_DEADLOCK FALSE
