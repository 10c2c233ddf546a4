\* The instance of MCWebhooks with a single request at a time: what repeats is not a race.
CONSTANTS
    generic1 = generic1
    generic2 = generic2
    autopost = autopost
    d1 = d1
    d2 = d2
    Events <- MCEvents
    Autoposts <- MCAutoposts
    Deliveries <- OneDelivery
    WEBHOOK_TTL = 2
    MAX_ENTRIES = 2
    EVICTION_DIVISOR = 2
    CIRCUIT_BREAKER_THRESHOLD = 1
    CIRCUIT_BREAKER_TIMEOUT = 1
    CLEANUP_INTERVAL = 2
    MaxTime = 6

SPECIFICATION DedupSpec

INVARIANT AutopostsRoutedOnce
