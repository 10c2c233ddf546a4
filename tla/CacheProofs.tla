---------------------------- MODULE CacheProofs ----------------------------
(***************************************************************************)
(* Proofs about Cache for every set of keys, capacity, threshold, timeout  *)
(* and sweep period.  The inductive invariant CacheInv puts the deadlines  *)
(* of the breaker and of the entries in terms of the next sweep: the       *)
(* bounds that Cache states in terms of the clock follow because the sweep *)
(* is never late.                                                          *)
(***************************************************************************)
EXTENDS Cache, FiniteSetTheorems, TLAPS

\* Timers fire on time: the sweep is at most one period away and never overdue.
SweepInv ==
    /\ now \in Nat \ {0}
    /\ nextSweep \in Nat
    /\ now <= nextSweep
    /\ nextSweep <= now + CLEANUP_INTERVAL

\* What holds of the breaker, and of each value it takes within a step.
BreakerInv(b) ==
    /\ b \in Breakers
    /\ b.state = "CLOSED" <=> b.failures < CIRCUIT_BREAKER_THRESHOLD
    /\ b.state # "CLOSED" => b.openedAt \in 1..now
    /\ b.state = "OPEN" =>
          nextSweep < b.openedAt + CIRCUIT_BREAKER_TIMEOUT + CLEANUP_INTERVAL

\* What holds of the map, and of each value it takes within a step.
EntriesInv(c) ==
    /\ DOMAIN c \subseteq Keys
    /\ c \in [DOMAIN c -> Entries]
    /\ \A k \in DOMAIN c :
          c[k].expiresAt # NEVER => nextSweep <= c[k].expiresAt + CLEANUP_INTERVAL

CacheInv == SweepInv /\ BreakerInv(breaker) /\ EntriesInv(cache)

----------------------------------------------------------------------------
(* The helpers preserve the parts of the invariant. *)

\* isCircuitClosed, recordSuccess and recordFailure each leave a sound breaker.
LEMMA BreakerHelpers ==
    ASSUME SweepInv, NEW b, BreakerInv(b)
    PROVE  /\ BreakerInv(CheckCircuitBreaker(b))
           /\ BreakerInv(RecordSuccess(b))
           /\ BreakerInv(RecordFailure(b))
<1> USE CacheAssumption DEF SweepInv, BreakerInv, Breakers, NEVER
<1>1. BreakerInv(CheckCircuitBreaker(b))
  BY DEF CheckCircuitBreaker, Cooled
<1>2. BreakerInv(RecordSuccess(b))
  <2>1. CASE b.state = "HALF_OPEN"
    <3>1. RecordSuccess(b) =
            [state |-> "CLOSED", failures |-> 0, openedAt |-> b.openedAt]
      BY <2>1 DEF RecordSuccess
    <3>2. QED
      BY <3>1
  <2>2. CASE b.state # "HALF_OPEN"
    BY <2>2 DEF RecordSuccess
  <2>3. QED
    BY <2>1, <2>2
<1>3. BreakerInv(RecordFailure(b))
  BY DEF RecordFailure
<1>4. QED
  BY <1>1, <1>2, <1>3

\* Removing entries keeps the map sound, whichever are removed.
LEMMA WithoutEntries ==
    ASSUME EntriesInv(cache), NEW S
    PROVE  /\ EntriesInv(Without(S))
           /\ DOMAIN Without(S) = DOMAIN cache \ S
BY DEF EntriesInv, Without

\* The entry set() builds is well typed and dies no earlier than the current tick.
LEMMA NewEntryIsSound ==
    ASSUME SweepInv, NEW ttl \in Ttls, NEW version \in Versions, NEW encrypt \in BOOLEAN
    PROVE  /\ NewEntry(ttl, version, encrypt) \in Entries
           /\ NewEntry(ttl, version, encrypt).expiresAt # NEVER
                 => nextSweep <= NewEntry(ttl, version, encrypt).expiresAt + CLEANUP_INTERVAL
BY CacheAssumption DEF SweepInv, NewEntry, Entries, NEVER

----------------------------------------------------------------------------
(* The invariant. *)

LEMMA CacheInvInit == Init => CacheInv
BY CacheAssumption
   DEF Init, CacheInv, SweepInv, BreakerInv, EntriesInv, NewBreaker, NoEntries, Breakers, NEVER

\* A step that leaves the clock and the sweep timer alone preserves the invariant as soon as
\* it leaves a sound breaker and a sound map.
LEMMA RequestStep ==
    ASSUME CacheInv, UNCHANGED <<now, nextSweep>>,
           NEW b, BreakerInv(b), breaker' = b,
           NEW c, EntriesInv(c), cache' = c
    PROVE  CacheInv'
BY DEF CacheInv, SweepInv, BreakerInv, EntriesInv

LEMMA CacheInvGet ==
    ASSUME CacheInv, NEW k \in Keys, Get(k)
    PROVE  CacheInv'
<1> DEFINE checked == CheckCircuitBreaker(breaker)
<1> DEFINE touched == [cache EXCEPT ![k].lastAccessedAt = now]
<1>1. BreakerInv(checked) /\ BreakerInv(RecordFailure(checked))
  BY BreakerHelpers DEF CacheInv
<1>2. EntriesInv(cache) /\ EntriesInv(Without({k}))
  BY WithoutEntries DEF CacheInv
<1>3. ASSUME k \in DOMAIN cache PROVE EntriesInv(touched)
  BY <1>3 DEF CacheInv, EntriesInv, Entries, SweepInv
<1> HIDE DEF checked, touched
<1>4. CASE Rejected
  BY <1>4 DEF Rejected, vars, CacheInv, SweepInv, BreakerInv, EntriesInv
<1>5. CASE ~Rejected
  <2>1. UNCHANGED <<now, nextSweep>>
    BY <1>5 DEF Get
  <2>2. BreakerInv(breaker') /\ EntriesInv(cache')
    BY <1>1, <1>2, <1>3, <1>5 DEF Get, Live, checked, touched
  <2>3. QED
    BY <2>1, <2>2, RequestStep
<1>6. QED
  BY <1>4, <1>5

LEMMA CacheInvSet ==
    ASSUME CacheInv, NEW k \in Keys, NEW ttl \in Ttls, NEW version \in Versions,
           NEW encrypt \in BOOLEAN, Set(k, ttl, version, encrypt)
    PROVE  CacheInv'
<1> DEFINE checked == CheckCircuitBreaker(breaker)
<1> DEFINE new == NewEntry(ttl, version, encrypt)
<1> DEFINE stored(S) ==
        [j \in (DOMAIN cache \ S) \cup {k} |-> IF j = k THEN new ELSE cache[j]]
<1>1. BreakerInv(RecordSuccess(checked)) /\ BreakerInv(RecordFailure(checked))
  BY BreakerHelpers DEF CacheInv
<1>2. ASSUME NEW S PROVE EntriesInv(Without(S))
  BY WithoutEntries DEF CacheInv
<1>3. ASSUME NEW S PROVE EntriesInv(stored(S))
  <2>1. /\ new \in Entries
        /\ new.expiresAt # NEVER => nextSweep <= new.expiresAt + CLEANUP_INTERVAL
    BY NewEntryIsSound DEF CacheInv
  <2> HIDE DEF new
  <2>2. QED
    BY <2>1 DEF CacheInv, EntriesInv
<1>4. CASE Rejected
  BY <1>4 DEF Rejected, vars, CacheInv, SweepInv, BreakerInv, EntriesInv
<1>5. CASE ~Rejected
  <2>1. UNCHANGED <<now, nextSweep>>
    BY <1>5 DEF Set
  <2>2. PICK S \in Victims :
           \/ cache' = stored(S) /\ breaker' = RecordSuccess(checked)
           \/ cache' = Without(S) /\ breaker' = RecordFailure(checked)
    BY <1>5, Zenon DEF Set
  <2> HIDE DEF stored, checked
  <2>3. BreakerInv(breaker') /\ EntriesInv(cache')
    BY <1>1, <1>2, <1>3, <2>2
  <2>4. QED
    BY <2>1, <2>3, RequestStep
<1>6. QED
  BY <1>4, <1>5

\* Every operation that only removes entries.
LEMMA CacheInvRemoval ==
    ASSUME CacheInv, NEW S, cache' = Without(S), UNCHANGED <<now, breaker, nextSweep>>
    PROVE  CacheInv'
<1>1. BreakerInv(breaker') /\ EntriesInv(cache')
  BY WithoutEntries DEF CacheInv
<1>2. QED
  BY <1>1, RequestStep

LEMMA CacheInvExists ==
    ASSUME CacheInv, NEW k \in Keys, Exists(k)
    PROVE  CacheInv'
<1>1. CASE cache' = Without({k})
  BY <1>1, CacheInvRemoval DEF Exists
<1>2. CASE cache' = cache
  BY <1>2 DEF Exists, CacheInv, SweepInv, BreakerInv, EntriesInv
<1>3. QED
  BY <1>1, <1>2 DEF Exists

\* The sweep leaves no entry that is dead and no breaker that is due, so what survives it
\* can wait for the next one.
LEMMA CacheInvCleanup ==
    ASSUME CacheInv, CleanupExpired
    PROVE  CacheInv'
<1> USE CacheAssumption DEF CacheInv, CleanupExpired
<1>1. SweepInv'
  BY DEF SweepInv
<1>2. now = nextSweep /\ now' = now /\ nextSweep' = now + CLEANUP_INTERVAL
  BY DEF SweepInv
<1>3. BreakerInv(breaker)'
  BY <1>2 DEF SweepInv, BreakerInv, Breakers, CheckCircuitBreaker, Cooled, NEVER
<1>4. EntriesInv(cache)'
  <2>1. /\ DOMAIN cache' = {k \in DOMAIN cache : ~Expired(cache[k])}
        /\ cache' = [k \in DOMAIN cache' |-> cache[k]]
    BY DEF Without
  <2>2. ASSUME NEW k \in DOMAIN cache', cache'[k].expiresAt # NEVER
        PROVE  nextSweep' <= cache'[k].expiresAt + CLEANUP_INTERVAL
    BY <1>2, <2>1, <2>2 DEF Expired, EntriesInv, Entries, SweepInv
  <2>3. QED
    BY <2>1, <2>2 DEF EntriesInv
<1>5. QED
  BY <1>1, <1>3, <1>4

LEMMA CacheInvRestart ==
    ASSUME CacheInv, Restart
    PROVE  CacheInv'
BY CacheAssumption
   DEF Restart, CacheInv, SweepInv, BreakerInv, EntriesInv, NewBreaker, NoEntries, Breakers,
       NEVER

LEMMA CacheInvTick ==
    ASSUME CacheInv, Tick
    PROVE  CacheInv'
BY CacheAssumption DEF Tick, CacheInv, SweepInv, BreakerInv, EntriesInv, Breakers

LEMMA CacheInvNext == CacheInv /\ [Next]_vars => CacheInv'
<1> SUFFICES ASSUME CacheInv, [Next]_vars PROVE CacheInv'
  OBVIOUS
<1>1. ASSUME NEW k \in Keys, Get(k) PROVE CacheInv'
  BY <1>1, CacheInvGet
<1>2. ASSUME NEW k \in Keys, NEW ttl \in Ttls, NEW version \in Versions,
             NEW encrypt \in BOOLEAN, Set(k, ttl, version, encrypt)
      PROVE  CacheInv'
  BY <1>2, CacheInvSet
<1>3. ASSUME NEW k \in Keys, Exists(k) PROVE CacheInv'
  BY <1>3, CacheInvExists
<1>4. ASSUME NEW k \in Keys, Delete(k) PROVE CacheInv'
  BY <1>4, CacheInvRemoval DEF Delete
<1>5. ASSUME NEW k \in Keys, NEW version \in Versions, InvalidateVersion(k, version)
      PROVE  CacheInv'
  BY <1>5, CacheInvRemoval DEF InvalidateVersion
<1>6. ASSUME NEW prefix \in Prefixes, DeleteByPrefix(prefix) PROVE CacheInv'
  BY <1>6, CacheInvRemoval DEF DeleteByPrefix
<1>7. CASE Clear
  BY <1>7 DEF Clear, CacheInv, SweepInv, BreakerInv, EntriesInv, NoEntries
<1>8. CASE CleanupExpired
  BY <1>8, CacheInvCleanup
<1>9. CASE Restart
  BY <1>9, CacheInvRestart
<1>10. CASE Tick
  BY <1>10, CacheInvTick
<1>11. CASE UNCHANGED vars
  BY <1>11 DEF vars, CacheInv, SweepInv, BreakerInv, EntriesInv
<1>12. QED
  BY <1>1, <1>2, <1>3, <1>4, <1>5, <1>6, <1>7, <1>8, <1>9, <1>10, <1>11 DEF Next

LEMMA CacheInvariant == Spec => []CacheInv
<1>1. QED
  BY CacheInvInit, CacheInvNext, PTL DEF Spec

\* Every variable of the cache stays well typed (circuitBreaker, the map, the timer).
THEOREM CacheTypeOK == Spec => []TypeOK
<1>1. CacheInv => TypeOK
  BY DEF CacheInv, SweepInv, BreakerInv, EntriesInv, TypeOK
<1>2. QED
  BY <1>1, CacheInvariant, PTL

\* recordSuccess and recordFailure keep the state of the breaker and its failure count in
\* step, and an open breaker always knows when it opened.
THEOREM CacheBreakerConsistent == Spec => []BreakerConsistent
<1>1. CacheInv => BreakerConsistent
  BY DEF CacheInv, BreakerInv, BreakerConsistent
<1>2. QED
  BY <1>1, CacheInvariant, PTL

\* Without any request the sweep still probes an open breaker in bounded time.
THEOREM CacheOpenIsBounded == Spec => []OpenIsBounded
<1>1. CacheInv => OpenIsBounded
  BY CacheAssumption DEF CacheInv, SweepInv, BreakerInv, Breakers, OpenIsBounded
<1>2. QED
  BY <1>1, CacheInvariant, PTL

\* Dead entries are removed in bounded time even if nobody asks for them.
THEOREM CacheDeadEntriesSwept == Spec => []DeadEntriesSwept
<1>1. CacheInv => DeadEntriesSwept
  BY CacheAssumption DEF CacheInv, SweepInv, EntriesInv, Entries, DeadEntriesSwept
<1>2. QED
  BY <1>1, CacheInvariant, PTL

----------------------------------------------------------------------------
(* Capacity. *)

\* A full cache evicts at least one entry: the ceiling of a positive fraction.
LEMMA EvictsSomething == EntriesToEvict \in Nat \ {0}
BY CacheAssumption DEF EntriesToEvict

\* The keys after a write: evicting Victims makes room for the one key that is stored.
LEMMA WriteFits ==
    ASSUME CacheInv, CapacityBound, NEW S \in Victims, NEW k
    PROVE  Cardinality((DOMAIN cache \ S) \cup {k}) <= MAX_ENTRIES
<1> DEFINE D == DOMAIN cache
<1>1. IsFiniteSet(D) /\ Cardinality(D) \in Nat
  BY CacheAssumption, FS_Subset, FS_CardinalityType DEF CacheInv, EntriesInv
<1>2. /\ Cardinality(D) <= MAX_ENTRIES
      /\ \/ Cardinality(D) < MAX_ENTRIES /\ S = {}
         \/ S \subseteq D /\ Cardinality(S) = EntriesToEvict
  BY <1>1, CacheAssumption DEF CapacityBound, Victims, LeastRecentlyUsed
<1> HIDE DEF D
<1>3. ASSUME NEW T, IsFiniteSet(T)
      PROVE  /\ Cardinality(T) \in Nat
             /\ Cardinality(T \cup {k}) \in Nat
             /\ Cardinality(T \cup {k}) <= Cardinality(T) + 1
  <2>1. Cardinality(T) \in Nat
    BY <1>3, FS_CardinalityType
  <2>2. Cardinality(T \cup {k}) = IF k \in T THEN Cardinality(T) ELSE Cardinality(T) + 1
    BY <1>3, FS_AddElement
  <2>3. QED
    BY <2>1, <2>2
<1>4. CASE Cardinality(D) < MAX_ENTRIES /\ S = {}
  <2>1. D \ S = D
    BY <1>4
  <2>2. QED
    BY <1>1, <1>3, <1>4, <2>1, CacheAssumption DEF D
<1>5. CASE S \subseteq D /\ Cardinality(S) = EntriesToEvict
  <2>1. PICK x : x \in S
    BY <1>5, EvictsSomething, FS_EmptySet
  <2>2. /\ IsFiniteSet(D \ {x})
        /\ Cardinality(D \ {x}) = Cardinality(D) - 1
    BY <1>1, <1>5, <2>1, FS_RemoveElement
  <2>3. /\ IsFiniteSet(D \ S)
        /\ Cardinality(D \ S) <= Cardinality(D) - 1
    BY <2>1, <2>2, FS_Subset, D \ S \subseteq D \ {x}
  <2>4. /\ Cardinality(D \ S) \in Nat
        /\ Cardinality((D \ S) \cup {k}) \in Nat
        /\ Cardinality((D \ S) \cup {k}) <= Cardinality(D \ S) + 1
    BY <1>3, <2>3
  <2>5. QED
    BY <1>1, <1>2, <2>3, <2>4, CacheAssumption DEF D
<1>6. QED
  BY <1>2, <1>4, <1>5

\* What a step does to the set of keys: nothing is added, or a write stores one key after
\* making room.
LEMMA KeysStep ==
    ASSUME CacheInv, [Next]_vars
    PROVE  \/ DOMAIN cache' \subseteq DOMAIN cache
           \/ \E S \in Victims, k \in Keys : DOMAIN cache' = (DOMAIN cache \ S) \cup {k}
<1>1. ASSUME NEW k \in Keys, Get(k)
      PROVE  DOMAIN cache' \subseteq DOMAIN cache
  BY <1>1 DEF Get, Rejected, vars, Without
<1>2. ASSUME NEW k \in Keys, NEW ttl \in Ttls, NEW version \in Versions,
             NEW encrypt \in BOOLEAN, Set(k, ttl, version, encrypt)
      PROVE  \/ DOMAIN cache' \subseteq DOMAIN cache
             \/ \E S \in Victims : DOMAIN cache' = (DOMAIN cache \ S) \cup {k}
  BY <1>2 DEF Set, Rejected, vars, Without
<1>3. ASSUME NEW k \in Keys, Exists(k) PROVE DOMAIN cache' \subseteq DOMAIN cache
  BY <1>3 DEF Exists, Without
<1>4. ASSUME NEW k \in Keys, \/ Delete(k)
                            \/ \E version \in Versions : InvalidateVersion(k, version)
      PROVE  DOMAIN cache' \subseteq DOMAIN cache
  BY <1>4 DEF Delete, InvalidateVersion, Without
<1>5. ASSUME NEW prefix \in Prefixes, DeleteByPrefix(prefix)
      PROVE  DOMAIN cache' \subseteq DOMAIN cache
  BY <1>5 DEF DeleteByPrefix, Without
<1>6. CASE Clear \/ Restart
  BY <1>6 DEF Clear, Restart, NoEntries
<1>7. CASE CleanupExpired
  BY <1>7 DEF CleanupExpired, Without
<1>8. CASE Tick \/ UNCHANGED vars
  BY <1>8 DEF Tick, vars
<1>9. CASE \E k \in Keys :
              \/ Get(k)
              \/ \E ttl \in Ttls, version \in Versions, encrypt \in BOOLEAN :
                    Set(k, ttl, version, encrypt)
              \/ Exists(k)
              \/ Delete(k)
              \/ \E version \in Versions : InvalidateVersion(k, version)
  <2>1. PICK k \in Keys :
              \/ Get(k)
              \/ \E ttl \in Ttls, version \in Versions, encrypt \in BOOLEAN :
                    Set(k, ttl, version, encrypt)
              \/ Exists(k)
              \/ Delete(k)
              \/ \E version \in Versions : InvalidateVersion(k, version)
    BY <1>9
  <2>2. ASSUME NEW ttl \in Ttls, NEW version \in Versions, NEW encrypt \in BOOLEAN,
               Set(k, ttl, version, encrypt)
        PROVE  \/ DOMAIN cache' \subseteq DOMAIN cache
               \/ \E S \in Victims : DOMAIN cache' = (DOMAIN cache \ S) \cup {k}
    BY <1>2, <2>2
  <2>3. CASE Get(k) \/ Exists(k)
    BY <1>1, <1>3, <2>3
  <2>4. CASE Delete(k) \/ \E version \in Versions : InvalidateVersion(k, version)
    BY <1>4, <2>4
  <2>5. QED
    BY <2>1, <2>2, <2>3, <2>4
<1>10. CASE Next
  BY <1>5, <1>6, <1>7, <1>8, <1>9, <1>10 DEF Next
<1>11. QED
  BY <1>8, <1>10

\* Room is made before an entry is stored, so no history of writes, failed writes, sweeps
\* and restarts takes the map over its capacity.
THEOREM CacheCapacityBound == Spec => []CapacityBound
<1>1. Init => CapacityBound
  BY CacheAssumption, FS_EmptySet DEF Init, NoEntries, CapacityBound
<1>2. CacheInv /\ CapacityBound /\ [Next]_vars => CapacityBound'
  <2> SUFFICES ASSUME CacheInv, CapacityBound, [Next]_vars PROVE CapacityBound'
    OBVIOUS
  <2>1. IsFiniteSet(DOMAIN cache) /\ Cardinality(DOMAIN cache) \in Nat
    BY CacheAssumption, FS_Subset, FS_CardinalityType DEF CacheInv, EntriesInv
  <2>2. CASE DOMAIN cache' \subseteq DOMAIN cache
    <3>1. /\ Cardinality(DOMAIN cache') <= Cardinality(DOMAIN cache)
          /\ Cardinality(DOMAIN cache') \in Nat
      BY <2>1, <2>2, FS_Subset, FS_CardinalityType
    <3>2. QED
      BY <2>1, <3>1, CacheAssumption DEF CapacityBound
  <2>3. CASE \E S \in Victims, k \in Keys : DOMAIN cache' = (DOMAIN cache \ S) \cup {k}
    BY <2>3, WriteFits DEF CapacityBound
  <2>4. QED
    BY <2>2, <2>3, KeysStep
<1>3. QED
  BY <1>1, <1>2, CacheInvariant, PTL DEF Spec

----------------------------------------------------------------------------
(* The breaker implements CircuitBreaker. *)

\* What a step does to the breaker and the clock.
LEMMA BreakerStep ==
    ASSUME [Next]_vars
    PROVE  \/ breaker' = breaker /\ now' = now
           \/ breaker' = CheckCircuitBreaker(breaker) /\ now' = now
           \/ /\ IsCircuitClosed(breaker)
              /\ breaker' = RecordSuccess(CheckCircuitBreaker(breaker))
              /\ now' = now
           \/ /\ IsCircuitClosed(breaker)
              /\ breaker' = RecordFailure(CheckCircuitBreaker(breaker))
              /\ now' = now
           \/ breaker' = NewBreaker /\ now' = now
           \/ breaker' = breaker /\ now' = now + 1
<1> DEFINE Goal ==
           \/ breaker' = breaker /\ now' = now
           \/ breaker' = CheckCircuitBreaker(breaker) /\ now' = now
           \/ /\ IsCircuitClosed(breaker)
              /\ breaker' = RecordSuccess(CheckCircuitBreaker(breaker))
              /\ now' = now
           \/ /\ IsCircuitClosed(breaker)
              /\ breaker' = RecordFailure(CheckCircuitBreaker(breaker))
              /\ now' = now
           \/ breaker' = NewBreaker /\ now' = now
           \/ breaker' = breaker /\ now' = now + 1
<1>1. ASSUME NEW k \in Keys, Get(k) PROVE Goal
  BY <1>1 DEF Get, Rejected, vars
<1>2. ASSUME NEW k \in Keys, NEW ttl \in Ttls, NEW version \in Versions,
             NEW encrypt \in BOOLEAN, Set(k, ttl, version, encrypt)
      PROVE  Goal
  BY <1>2 DEF Set, Rejected, vars
<1>3. ASSUME NEW k \in Keys, Exists(k) \/ Delete(k) PROVE Goal
  BY <1>3 DEF Exists, Delete
<1>4. ASSUME NEW k \in Keys, NEW version \in Versions, InvalidateVersion(k, version)
      PROVE  Goal
  BY <1>4 DEF InvalidateVersion
<1>5. ASSUME NEW prefix \in Prefixes, DeleteByPrefix(prefix) PROVE Goal
  BY <1>5 DEF DeleteByPrefix
<1>6. ASSUME Clear \/ CleanupExpired \/ Restart \/ Tick PROVE Goal
  BY <1>6 DEF Clear, CleanupExpired, Restart, Tick
<1>7. ASSUME UNCHANGED vars PROVE Goal
  BY <1>7 DEF vars
<1> HIDE DEF Goal
<1>8. Goal
  BY <1>1, <1>2, <1>3, <1>4, <1>5, <1>6, <1>7 DEF Next
<1>9. QED
  BY <1>8 DEF Goal

\* Every behaviour of the cache's breaker, under any traffic, is one of CircuitBreaker: no
\* request is let through before the timeout, one failed probe opens the breaker again, and
\* only a successful write closes it.
THEOREM CacheImplementsCircuitBreaker == Spec => ImplementsCircuitBreaker
<1> USE DEF Breakers, NEVER
<1>1. Init => Abstract!Init
  BY CacheAssumption DEF Init, NewBreaker, Abstract!Init
<1>2. CacheInv /\ [Next]_vars => [Abstract!Next]_Abstract!vars
  <2> SUFFICES ASSUME CacheInv, [Next]_vars
               PROVE  Abstract!Next \/ UNCHANGED Abstract!vars
    OBVIOUS
  <2> USE CacheAssumption DEF CacheInv, SweepInv, BreakerInv
  <2>1. CASE breaker' = breaker /\ now' = now
    BY <2>1 DEF Abstract!vars
  <2>2. CASE breaker' = CheckCircuitBreaker(breaker) /\ now' = now
    <3>1. CASE Cooled(breaker)
      <4>1. Abstract!HalfOpen
        BY <2>2, <3>1 DEF Abstract!HalfOpen, CheckCircuitBreaker, Cooled
      <4>2. QED
        BY <4>1 DEF Abstract!Next
    <3>2. CASE ~Cooled(breaker)
      BY <2>1, <2>2, <3>2 DEF CheckCircuitBreaker
    <3>3. QED
      BY <3>1, <3>2
  <2>3. CASE /\ IsCircuitClosed(breaker)
             /\ breaker' = RecordSuccess(CheckCircuitBreaker(breaker))
             /\ now' = now
    <3>1. CASE breaker.state = "CLOSED"
      BY <2>1, <2>3, <3>1 DEF RecordSuccess, CheckCircuitBreaker, Cooled
    <3>2. CASE breaker.state # "CLOSED"
      <4>1. breaker' = [state |-> "CLOSED", failures |-> 0, openedAt |-> breaker.openedAt]
        BY <2>3, <3>2 DEF RecordSuccess, CheckCircuitBreaker, Cooled, IsCircuitClosed
      <4>2. Abstract!Recover
        BY <2>3, <3>2, <4>1
           DEF Abstract!Recover, Abstract!Admits, IsCircuitClosed, Cooled
      <4>3. QED
        BY <4>2 DEF Abstract!Next
    <3>3. QED
      BY <3>1, <3>2
  <2>4. CASE /\ IsCircuitClosed(breaker)
             /\ breaker' = RecordFailure(CheckCircuitBreaker(breaker))
             /\ now' = now
    <3>1. Abstract!Fail
      BY <2>4 DEF Abstract!Fail, Abstract!Admits, RecordFailure, CheckCircuitBreaker,
                  IsCircuitClosed, Cooled
    <3>2. QED
      BY <3>1 DEF Abstract!Next
  <2>5. CASE breaker' = NewBreaker /\ now' = now
    BY <2>5 DEF NewBreaker, Abstract!Next, Abstract!Reset
  <2>6. CASE breaker' = breaker /\ now' = now + 1
    BY <2>6 DEF Abstract!Next, Abstract!Cool, Abstract!vars
  <2>7. QED
    BY <2>1, <2>2, <2>3, <2>4, <2>5, <2>6, BreakerStep
<1>3. QED
  BY <1>1, <1>2, CacheInvariant, PTL DEF Spec, ImplementsCircuitBreaker, Abstract!Spec
=============================================================================
