\* Three calls: a leader and two joiners of one key, or two calls of one key next to a
\* call of another.
CONSTANTS
    c1 = c1
    c2 = c2
    c3 = c3
    k1 = k1
    k2 = k2
    Calls <- MCCalls
    Keys <- MCKeys
    Workloads <- MCWorkloads
    MaxChanges = 1
SPECIFICATION FairValuesSpec
INVARIANTS
    TypeOK
    RegisteredIsAirborne
    SingleFlightUntilFailure
PROPERTIES
    NeverOlder
    LeaderReturns
    CallsReturn
\* Calls are made once: the instance stops when all have returned.
CHECK_DEADLOCK FALSE
