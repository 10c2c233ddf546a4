\* A leader whose fallback fails and two joiners.
CONSTANTS
    c1 = c1
    c2 = c2
    c3 = c3
    k1 = k1
    k2 = k2
    Calls <- MCCalls
    Keys <- MCKeys
    Workloads <- MCWorkloads
SPECIFICATION Spec
INVARIANT NoStampede
\* Calls are made once: the instance stops when all have returned.
CHECK_DEADLOCK FALSE
