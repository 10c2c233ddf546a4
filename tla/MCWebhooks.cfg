\* Three events whose markers compete for two entries, two requests at a time, and a clock
\* that outlives two markers.
CONSTANTS
    generic1 = generic1
    generic2 = generic2
    autopost = autopost
    d1 = d1
    d2 = d2
    Events <- MCEvents
    Autoposts <- MCAutoposts
    Deliveries <- MCDeliveries
    WEBHOOK_TTL = 2
    MAX_ENTRIES = 2
    EVICTION_DIVISOR = 2
    CIRCUIT_BREAKER_THRESHOLD = 1
    CIRCUIT_BREAKER_TIMEOUT = 1
    CLEANUP_INTERVAL = 2
    MaxTime = 6

SPECIFICATION Spec

SYMMETRY MCSymmetry

INVARIANTS
    TypeOK
    DuplicatesWereRouted
    RoutedStaysMarked
    RepeatsAreExplained
