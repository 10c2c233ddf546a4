\* Three keys in a cache for two; the breaker opens on the second failure; the clock
\* covers a failure, the cool-down, a probe, a second opening and two sweeps.
CONSTANTS
    k1 = k1
    k2 = k2
    k3 = k3
    Keys <- MCKeys
    Prefixes <- MCPrefixes
    Ttls = {0, 1}
    Versions = {1, 2}
    MAX_ENTRIES = 2
    EVICTION_DIVISOR = 2
    CIRCUIT_BREAKER_THRESHOLD = 2
    CIRCUIT_BREAKER_TIMEOUT = 2
    CLEANUP_INTERVAL = 2
    MaxTime = 6

SPECIFICATION Spec

INVARIANTS
    TypeOK
    CapacityBound
    BreakerConsistent
    OpenIsBounded
    DeadEntriesSwept

PROPERTY ImplementsCircuitBreaker
