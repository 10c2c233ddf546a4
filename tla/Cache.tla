------------------------------- MODULE Cache -------------------------------
(***************************************************************************)
(* The in-memory cache of the gateway (CacheService): a map of entries     *)
(* with time to live, least-recently-used eviction, versions, a periodic   *)
(* sweep of dead entries and a circuit breaker around reads and writes.    *)
(*                                                                         *)
(* Every public method runs to completion without yielding (it only wraps  *)
(* its result in a promise), so each is one action.  Values are left out:  *)
(* no property depends on them, and whether a value is encrypted decides   *)
(* only which calls can fail.  Time is counted in ticks.                   *)
(***************************************************************************)
EXTENDS Integers, FiniteSets

CONSTANTS
    Keys,                       \* the keys clients use
    Prefixes,                   \* a prefix is the set of keys that start with it
    Ttls,                       \* times to live clients ask for; 0 is "for ever"
    Versions,                   \* versions clients give to entries
    MAX_ENTRIES,                \* capacity
    EVICTION_DIVISOR,           \* a full cache evicts 1/EVICTION_DIVISOR of its capacity
    CIRCUIT_BREAKER_THRESHOLD,  \* failures that open the breaker
    CIRCUIT_BREAKER_TIMEOUT,    \* ticks before an open breaker is probed
    CLEANUP_INTERVAL,           \* ticks between two sweeps
    MaxTime                     \* bound on the clock

ASSUME CacheAssumption ==
    /\ IsFiniteSet(Keys)
    /\ Prefixes \subseteq SUBSET Keys
    /\ Ttls \subseteq Nat
    /\ Versions \subseteq Nat
    /\ MAX_ENTRIES \in Nat \ {0}
    /\ EVICTION_DIVISOR \in Nat \ {0}
    /\ CIRCUIT_BREAKER_THRESHOLD \in Nat \ {0}
    /\ CIRCUIT_BREAKER_TIMEOUT \in Nat \ {0}
    /\ CLEANUP_INTERVAL \in Nat \ {0}
    /\ MaxTime \in Nat

VARIABLES
    now,        \* Date.now()
    cache,      \* the map from keys to entries
    breaker,    \* circuitBreaker
    nextSweep   \* when the cleanup interval fires next

vars == <<now, cache, breaker, nextSweep>>

NEVER == 0      \* the null of expiresAt and openedAt; the clock starts at 1

NoEntries == [k \in {} |-> NEVER]

Entries == [expiresAt : Nat, lastAccessedAt : Nat, version : Nat, isEncrypted : BOOLEAN]

Breakers == [state : {"CLOSED", "OPEN", "HALF_OPEN"}, failures : Nat, openedAt : Nat]

NewBreaker == [state |-> "CLOSED", failures |-> 0, openedAt |-> NEVER]

Init ==
    /\ now = 1
    /\ cache = NoEntries
    /\ breaker = NewBreaker
    /\ nextSweep = now + CLEANUP_INTERVAL

----------------------------------------------------------------------------
(* Entries *)

Expired(e) == e.expiresAt # NEVER /\ now > e.expiresAt

\* exists() answers true.
Live(k) == k \in DOMAIN cache /\ ~Expired(cache[k])

Without(S) == [k \in DOMAIN cache \ S |-> cache[k]]

EntriesToEvict == (MAX_ENTRIES + EVICTION_DIVISOR - 1) \div EVICTION_DIVISOR

(***************************************************************************)
(* The sets evict() may remove: as many of the least recently used keys as *)
(* EntriesToEvict says.  Ties go to insertion order in the code and to     *)
(* either side here.                                                       *)
(***************************************************************************)
LeastRecentlyUsed ==
    {S \in SUBSET DOMAIN cache :
        /\ Cardinality(S) = EntriesToEvict
        /\ \A k \in S, kept \in DOMAIN cache \ S :
              cache[k].lastAccessedAt <= cache[kept].lastAccessedAt}

\* Mutant of Victims: a full cache still accepts one more entry (> for >=).
VictimsTooLate ==
    IF Cardinality(DOMAIN cache) > MAX_ENTRIES THEN LeastRecentlyUsed ELSE {{}}

\* set() evicts when the map is full, also when it only overwrites a key.
Victims ==
    IF Cardinality(DOMAIN cache) >= MAX_ENTRIES THEN LeastRecentlyUsed ELSE {{}}

----------------------------------------------------------------------------
(* Circuit breaker *)

\* Mutant of Cooled: the probe is let through one tick early.
CooledEarly(b) ==
    /\ b.state = "OPEN"
    /\ b.openedAt # NEVER
    /\ now - b.openedAt >= CIRCUIT_BREAKER_TIMEOUT - 1

Cooled(b) ==
    /\ b.state = "OPEN"
    /\ b.openedAt # NEVER
    /\ now - b.openedAt >= CIRCUIT_BREAKER_TIMEOUT

\* isCircuitClosed(): the answer, and the breaker it leaves behind.
IsCircuitClosed(b) == b.state # "OPEN" \/ Cooled(b)

CheckCircuitBreaker(b) == IF Cooled(b) THEN [b EXCEPT !.state = "HALF_OPEN"] ELSE b

\* Mutants of RecordSuccess: the failures survive the recovery; each success takes one back.
RecordSuccessKeepsFailures(b) ==
    IF b.state = "HALF_OPEN" THEN [b EXCEPT !.state = "CLOSED"] ELSE b

RecordSuccessForgives(b) == [b EXCEPT !.state = "CLOSED", !.failures = b.failures - 1]

RecordSuccess(b) ==
    IF b.state = "HALF_OPEN" THEN [b EXCEPT !.state = "CLOSED", !.failures = 0] ELSE b

RecordFailure(b) ==
    IF b.failures + 1 >= CIRCUIT_BREAKER_THRESHOLD
    THEN [state |-> "OPEN", failures |-> b.failures + 1, openedAt |-> now]
    ELSE [b EXCEPT !.failures = b.failures + 1]

----------------------------------------------------------------------------
(* Operations.  A request the breaker rejects changes nothing. *)

Rejected == ~IsCircuitClosed(breaker) /\ UNCHANGED vars

\* A miss, the lazy removal of a dead entry, a hit, or a hit whose decryption throws.
Get(k) ==
    \/ Rejected
    \/ /\ IsCircuitClosed(breaker)
       /\ \/ /\ k \notin DOMAIN cache
             /\ breaker' = CheckCircuitBreaker(breaker)
             /\ UNCHANGED cache
          \/ /\ k \in DOMAIN cache
             /\ Expired(cache[k])
             /\ cache' = Without({k})
             /\ breaker' = CheckCircuitBreaker(breaker)
          \/ /\ Live(k)
             /\ cache' = [cache EXCEPT ![k].lastAccessedAt = now]
             /\ \/ breaker' = CheckCircuitBreaker(breaker)
                \/ /\ cache[k].isEncrypted
                   /\ breaker' = RecordFailure(CheckCircuitBreaker(breaker))
       /\ UNCHANGED <<now, nextSweep>>

NewEntry(ttl, version, encrypt) ==
    [expiresAt      |-> IF ttl > 0 THEN now + ttl ELSE NEVER,
     lastAccessedAt |-> now,
     version        |-> version,
     isEncrypted    |-> encrypt]

\* The eviction comes first, so a write whose encryption throws has evicted all the same.
Set(k, ttl, version, encrypt) ==
    \/ Rejected
    \/ /\ IsCircuitClosed(breaker)
       /\ \E S \in Victims :
             \/ /\ cache' = [j \in (DOMAIN cache \ S) \cup {k} |->
                                IF j = k THEN NewEntry(ttl, version, encrypt) ELSE cache[j]]
                /\ breaker' = RecordSuccess(CheckCircuitBreaker(breaker))
             \/ /\ encrypt
                /\ cache' = Without(S)
                /\ breaker' = RecordFailure(CheckCircuitBreaker(breaker))
       /\ UNCHANGED <<now, nextSweep>>

\* exists() asks the map alone: it neither consults the breaker nor counts as a use.
Exists(k) ==
    /\ cache' = IF Live(k) THEN cache ELSE Without({k})
    /\ UNCHANGED <<now, breaker, nextSweep>>

Delete(k) ==
    /\ cache' = Without({k})
    /\ UNCHANGED <<now, breaker, nextSweep>>

DeleteByPrefix(prefix) ==
    /\ cache' = Without(prefix)
    /\ UNCHANGED <<now, breaker, nextSweep>>

InvalidateVersion(k, version) ==
    /\ k \in DOMAIN cache
    /\ cache[k].version < version
    /\ cache' = Without({k})
    /\ UNCHANGED <<now, breaker, nextSweep>>

Clear ==
    /\ cache' = NoEntries
    /\ UNCHANGED <<now, breaker, nextSweep>>

\* Mutants of CleanupExpired: the breaker is not checked; nothing is swept while it is open.
CleanupIgnoresBreaker ==
    /\ now >= nextSweep
    /\ cache' = Without({k \in DOMAIN cache : Expired(cache[k])})
    /\ nextSweep' = now + CLEANUP_INTERVAL
    /\ UNCHANGED <<now, breaker>>

CleanupWhenClosed ==
    /\ now >= nextSweep
    /\ cache' = IF IsCircuitClosed(breaker)
                THEN Without({k \in DOMAIN cache : Expired(cache[k])})
                ELSE cache
    /\ breaker' = CheckCircuitBreaker(breaker)
    /\ nextSweep' = now + CLEANUP_INTERVAL
    /\ UNCHANGED now

\* The interval's callback: dead entries go, then the breaker is checked.
CleanupExpired ==
    /\ now >= nextSweep
    /\ cache' = Without({k \in DOMAIN cache : Expired(cache[k])})
    /\ breaker' = CheckCircuitBreaker(breaker)
    /\ nextSweep' = now + CLEANUP_INTERVAL
    /\ UNCHANGED now

\* The process stops (onModuleDestroy, or a crash) and a new one is constructed.
Restart ==
    /\ cache' = NoEntries
    /\ breaker' = NewBreaker
    /\ nextSweep' = now + CLEANUP_INTERVAL
    /\ UNCHANGED now

\* The clock advances; a sweep that is due runs first.
Tick ==
    /\ now < MaxTime
    /\ now < nextSweep
    /\ now' = now + 1
    /\ UNCHANGED <<cache, breaker, nextSweep>>

Next ==
    \/ \E k \in Keys :
          \/ Get(k)
          \/ \E ttl \in Ttls, version \in Versions, encrypt \in BOOLEAN :
                Set(k, ttl, version, encrypt)
          \/ Exists(k)
          \/ Delete(k)
          \/ \E version \in Versions : InvalidateVersion(k, version)
    \/ \E prefix \in Prefixes : DeleteByPrefix(prefix)
    \/ Clear
    \/ CleanupExpired
    \/ Restart
    \/ Tick

Spec == Init /\ [][Next]_vars

----------------------------------------------------------------------------
(* Properties *)

\* Every variable ranges over what the code can store in it.
TypeOK ==
    /\ now \in Nat \ {0}
    /\ DOMAIN cache \subseteq Keys
    /\ cache \in [DOMAIN cache -> Entries]
    /\ breaker \in Breakers
    /\ nextSweep \in Nat

\* The map never holds more than MAX_ENTRIES entries, whatever mix of writes, failed
\* writes, evictions and sweeps came before: set() makes room before it stores.
CapacityBound == Cardinality(DOMAIN cache) <= MAX_ENTRIES

\* State and failure count of the breaker agree: closed exactly below the threshold, and
\* once it has opened it knows when.  A breaker that were open without openedAt could
\* never be probed again.
BreakerConsistent ==
    /\ breaker.state = "CLOSED" <=> breaker.failures < CIRCUIT_BREAKER_THRESHOLD
    /\ breaker.state # "CLOSED" => breaker.openedAt \in 1..now

\* The breaker recovers without any traffic: the sweep probes it, so it is never OPEN
\* longer than its timeout and one sweep period.
OpenIsBounded ==
    breaker.state = "OPEN" =>
        now < breaker.openedAt + CIRCUIT_BREAKER_TIMEOUT + CLEANUP_INTERVAL

\* A dead entry that nobody asks for is gone at most one sweep period after it expired,
\* also while the breaker is open.
DeadEntriesSwept ==
    \A k \in DOMAIN cache :
        cache[k].expiresAt # NEVER => now <= cache[k].expiresAt + CLEANUP_INTERVAL

----------------------------------------------------------------------------
(* The breaker inside the cache implements the abstract one. *)

Abstract == INSTANCE CircuitBreaker WITH
    Threshold <- CIRCUIT_BREAKER_THRESHOLD,
    state     <- breaker.state,
    strikes   <- IF breaker.failures < CIRCUIT_BREAKER_THRESHOLD
                 THEN breaker.failures ELSE CIRCUIT_BREAKER_THRESHOLD,
    cooled    <- breaker.state = "OPEN" /\ now >= breaker.openedAt + CIRCUIT_BREAKER_TIMEOUT

\* However reads, writes, failures and sweeps interleave, the breaker goes only through the
\* transitions CircuitBreaker allows: in particular it is never probed before its timeout.
ImplementsCircuitBreaker == Abstract!Spec
=============================================================================
