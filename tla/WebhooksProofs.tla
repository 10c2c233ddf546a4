--------------------------- MODULE WebhooksProofs ---------------------------
(***************************************************************************)
(* Proofs about Webhooks for every set of events and deliveries, every     *)
(* capacity and every time to live.  Markers are never encrypted, so the   *)
(* cache never counts a failure: its breaker stays new and rejects no      *)
(* marker (Sound).  A marker dies exactly its time to live after its event *)
(* was last routed (Dated), which is what the answers "already processed"  *)
(* rest on.  The composition implements Cache, so that what CacheProofs    *)
(* shows holds for the markers.                                            *)
(***************************************************************************)
EXTENDS Webhooks, TLAPS

\* The cache without a failure, and the deliveries.
Sound ==
    /\ now \in Nat \ {0} /\ nextSweep \in Nat
    /\ breaker = C!NewBreaker
    /\ DOMAIN cache \subseteq Events /\ cache \in [DOMAIN cache -> C!Entries]
    /\ pc \in [Deliveries -> {"idle", "checked"}]
    /\ event \in [Deliveries -> Events]
    /\ routed \in [Events -> Nat]
    /\ raced \subseteq {d \in Deliveries : pc[d] = "checked"}
    /\ lost \subseteq Events

\* The marker of an event lives from its last routing on.
Dated == \A e \in DOMAIN cache : routed[e] # NEVER /\ cache[e].expiresAt = routed[e] + WEBHOOK_TTL

WebhooksInv == Sound /\ Dated /\ RoutedStaysMarked /\ RepeatsAreExplained

-----------------------------------------------------------------------------
(* The operations of the cache, as far as the deliveries see them. *)

\* A new breaker lets every operation through and is not changed by a success.
LEMMA NewBreakerIsClosed ==
    /\ C!IsCircuitClosed(C!NewBreaker)
    /\ C!CheckCircuitBreaker(C!NewBreaker) = C!NewBreaker
    /\ C!RecordSuccess(C!NewBreaker) = C!NewBreaker
    /\ C!NewBreaker.state = "CLOSED"
BY DEF C!NewBreaker, C!IsCircuitClosed, C!Cooled, C!CheckCircuitBreaker, C!RecordSuccess

\* A marker lives as long as its event is recent.
LEMMA LiveIsRecent ==
    ASSUME Sound, Dated, NEW e \in DOMAIN cache
    PROVE  e \in Events /\ (C!Live(e) <=> Recent(e))
<1>1. /\ e \in Events /\ cache[e].expiresAt = routed[e] + WEBHOOK_TTL
      /\ routed[e] \in Nat /\ routed[e] # 0 /\ now \in Nat
  BY DEF Sound, Dated, NEVER
<1>2. cache[e].expiresAt \in Nat /\ cache[e].expiresAt # 0
  BY <1>1, WebhooksAssumption
<1>3. QED
  BY <1>1, <1>2 DEF C!Live, C!Expired, C!NEVER, Recent, NEVER

\* Whatever only removes dead markers, and lets time pass, keeps what is said of the markers.
LEMMA DeadMarkersGo ==
    ASSUME WebhooksInv, UNCHANGED <<routed, lost>>,
           now' \in Nat \ {0}, now' >= now,
           DOMAIN cache' \subseteq DOMAIN cache,
           cache' = [e \in DOMAIN cache' |-> cache[e]],
           \A e \in DOMAIN cache \ DOMAIN cache' : ~C!Live(e)
    PROVE  Dated' /\ RoutedStaysMarked' /\ \A e \in Events : Recent(e)' => Recent(e)
<1>1. Sound /\ Dated /\ RoutedStaysMarked
  BY DEF WebhooksInv
<1>2. \A e \in Events : Recent(e)' => Recent(e)
  BY <1>1, WebhooksAssumption DEF Recent, Sound
<1>3. Dated'
  BY <1>1 DEF Dated
<1>4. ASSUME NEW e \in Events, Recent(e)' PROVE C!Live(e)' \/ e \in lost
  <2>1. CASE C!Live(e)
    <3>1. e \in DOMAIN cache' /\ cache'[e] = cache[e]
      BY <2>1 DEF C!Live
    <3>2. cache'[e].expiresAt = routed'[e] + WEBHOOK_TTL /\ now' <= routed'[e] + WEBHOOK_TTL
      BY <1>3, <1>4, <3>1 DEF Dated, Recent
    <3>3. now' \in Nat /\ routed'[e] \in Nat
      BY <1>1 DEF Sound
    <3>4. QED
      BY <3>1, <3>2, <3>3, WebhooksAssumption DEF C!Live, C!Expired
  <2>2. CASE ~C!Live(e)
    BY <1>1, <1>2, <1>4, <2>2 DEF RoutedStaysMarked
  <2>3. QED
    BY <2>1, <2>2
<1>5. QED
  BY <1>2, <1>3, <1>4 DEF RoutedStaysMarked

\* A marker is stored, and others may be evicted.
LEMMA MarkerIsStored ==
    ASSUME Sound, NEW e \in Events, MarkProcessed(e)
    PROVE  /\ UNCHANGED <<now, breaker, nextSweep>>
           /\ DOMAIN cache' \subseteq DOMAIN cache \cup {e} /\ e \in DOMAIN cache'
           /\ cache' \in [DOMAIN cache' -> C!Entries]
           /\ cache'[e].expiresAt = now + WEBHOOK_TTL
           /\ \A o \in DOMAIN cache' \ {e} : o \in DOMAIN cache /\ cache'[o] = cache[o]
<1> DEFINE entry == C!NewEntry(WEBHOOK_TTL, 1, FALSE)
<1>1. entry \in C!Entries /\ entry.expiresAt = now + WEBHOOK_TTL
  BY WebhooksAssumption DEF C!NewEntry, C!Entries, Sound
<1> HIDE DEF entry
<1>2. PICK S \in C!Victims :
        cache' = [j \in (DOMAIN cache \ S) \cup {e} |-> IF j = e THEN entry ELSE cache[j]]
  BY NewBreakerIsClosed DEF MarkProcessed, C!Set, C!Rejected, entry, Sound
<1>3. UNCHANGED <<now, breaker, nextSweep>>
  BY NewBreakerIsClosed DEF MarkProcessed, C!Set, C!Rejected, C!vars, Sound
<1>4. QED
  BY <1>1, <1>2, <1>3 DEF Sound

-----------------------------------------------------------------------------
\* No event was routed and no marker stored yet.
LEMMA WebhooksInvInit == Init => WebhooksInv
<1> SUFFICES ASSUME Init PROVE WebhooksInv
  OBVIOUS
<1>1. Sound
  BY WebhooksAssumption DEF Init, C!Init, C!NoEntries, C!NewBreaker, C!NEVER, Sound, NEVER
<1>2. Dated
  BY DEF Init, C!Init, C!NoEntries, Dated
<1>3. \A e \in Events : ~Recent(e)
  BY DEF Init, Recent
<1>4. QED
  BY <1>1, <1>2, <1>3 DEF WebhooksInv, RoutedStaysMarked, RepeatsAreExplained, Sound

\* exists() drops a dead marker and lets a delivery go on without a live one.
LEMMA InvReceive ==
    ASSUME WebhooksInv, NEW d \in Deliveries, NEW e \in Events, Receive(d, e)
    PROVE  WebhooksInv'
<1>1. /\ UNCHANGED <<now, breaker, nextSweep, routed, raced, lost>>
      /\ cache' = IF C!Live(e) THEN cache ELSE C!Without({e})
  BY DEF Receive, C!Exists, history
<1>2. Sound /\ RoutedStaysMarked /\ RepeatsAreExplained
  BY DEF WebhooksInv
<1>3. /\ DOMAIN cache' \subseteq DOMAIN cache
      /\ cache' = [o \in DOMAIN cache' |-> cache[o]]
      /\ \A o \in DOMAIN cache \ DOMAIN cache' : ~C!Live(o)
  BY <1>1, <1>2 DEF Sound, C!Without
<1>4. Dated' /\ RoutedStaysMarked' /\ \A o \in Events : Recent(o)' => Recent(o)
  <2>1. now' \in Nat \ {0} /\ now' >= now /\ UNCHANGED <<routed, lost>>
    BY <1>1, <1>2 DEF Sound
  <2>2. QED
    BY <1>3, <2>1, DeadMarkersGo
<1>5. CASE C!Live(e)
  <2>1. UNCHANGED <<pc, event>>
    BY <1>5 DEF Receive, deliveryVars
  <2>2. Sound'
    BY <1>1, <1>2, <1>3, <2>1 DEF Sound
  <2>3. RepeatsAreExplained'
    BY <1>1, <1>2, <1>4, <2>1 DEF Sound, RepeatsAreExplained
  <2>4. QED
    BY <1>4, <2>2, <2>3 DEF WebhooksInv
<1>6. CASE ~C!Live(e)
  <2>1. /\ event' = [event EXCEPT ![d] = e] /\ pc' = [pc EXCEPT ![d] = "checked"]
        /\ pc[d] = "idle"
    BY <1>6 DEF Receive
  <2>2. Sound'
    BY <1>1, <1>2, <1>3, <2>1 DEF Sound
  <2>3. ASSUME NEW o \in Deliveries, pc'[o] = "checked", NEW x \in Events, x = event'[o], Recent(x)'
        PROVE  o \in raced \/ x \in lost
    <3>1. CASE o = d
      BY <1>2, <1>4, <1>6, <2>1, <2>3, <3>1 DEF Sound, RoutedStaysMarked
    <3>2. CASE o # d
      BY <1>2, <1>4, <2>1, <2>3, <3>2 DEF Sound, RepeatsAreExplained
    <3>3. QED
      BY <3>1, <3>2
  <2>4. RepeatsAreExplained'
    BY <1>1, <2>2, <2>3 DEF Sound, RepeatsAreExplained
  <2>5. QED
    BY <1>4, <2>2, <2>4 DEF WebhooksInv
<1>7. QED
  BY <1>5, <1>6

\* Routing an event dates its marker anew; whoever else had checked it is in a race.
LEMMA InvProcess == ASSUME WebhooksInv, NEW d \in Deliveries, Process(d) PROVE WebhooksInv'
<1>0. PICK e \in Events : e = event[d]
  BY DEF WebhooksInv, Sound
<1> DEFINE racing == {o \in Deliveries : pc[o] = "checked" /\ event[o] = e}
           evicted == {o \in Events : C!Live(o) /\ o \notin DOMAIN cache'}
<1>1. /\ pc[d] = "checked" /\ MarkProcessed(e)
      /\ pc' = [pc EXCEPT ![d] = "idle"] /\ UNCHANGED event
      /\ routed' = [routed EXCEPT ![e] = now]
      /\ raced' = (raced \cup racing) \ {d}
      /\ lost' = (lost \cup evicted) \ {e}
  BY <1>0 DEF Process
<1>2. Sound /\ Dated /\ RoutedStaysMarked /\ RepeatsAreExplained
  BY DEF WebhooksInv
<1>3. /\ UNCHANGED <<now, breaker, nextSweep>>
      /\ DOMAIN cache' \subseteq DOMAIN cache \cup {e} /\ e \in DOMAIN cache'
      /\ cache' \in [DOMAIN cache' -> C!Entries]
      /\ cache'[e].expiresAt = now + WEBHOOK_TTL
      /\ \A o \in DOMAIN cache' \ {e} : o \in DOMAIN cache /\ cache'[o] = cache[o]
  BY <1>1, <1>2, MarkerIsStored
<1>4. /\ routed'[e] = now /\ now \in Nat \ {0}
      /\ \A o \in Events \ {e} : routed'[o] = routed[o]
  BY <1>1, <1>2 DEF Sound
<1>5. Sound'
  BY <1>1, <1>2, <1>3, <1>4 DEF Sound
<1>6. Dated'
  BY <1>2, <1>3, <1>4 DEF Sound, Dated, NEVER
<1>7. /\ C!Live(e)'
      /\ \A o \in Events \ {e} : Recent(o)' => Recent(o)
      /\ \A o \in Events \ {e} : C!Live(o) => C!Live(o)' \/ o \in evicted
  <2>1. Recent(e)'
    BY <1>3, <1>4, WebhooksAssumption DEF Recent, NEVER
  <2>2. C!Live(e)'
    <3>1. C!Live(e)' <=> Recent(e)'
      BY <1>3, <1>4, <2>1, WebhooksAssumption DEF C!Live, C!Expired, C!NEVER
    <3>2. QED
      BY <2>1, <3>1
  <2>3. ASSUME NEW o \in Events \ {e} PROVE Recent(o)' => Recent(o)
    BY <1>3, <1>4 DEF Recent
  <2>4. ASSUME NEW o \in Events \ {e}, C!Live(o) PROVE C!Live(o)' \/ o \in evicted
    BY <1>3, <2>4 DEF C!Live, C!Expired
  <2>5. QED
    BY <2>2, <2>3, <2>4
<1>8. RoutedStaysMarked'
  <2>1. ASSUME NEW o \in Events, Recent(o)' PROVE C!Live(o)' \/ o \in lost'
    <3>1. CASE o = e
      BY <1>7, <3>1
    <3>2. CASE o # e
      BY <1>1, <1>2, <1>7, <2>1, <3>2 DEF RoutedStaysMarked
    <3>3. QED
      BY <3>1, <3>2
  <2>2. QED
    BY <2>1 DEF RoutedStaysMarked
<1>9. RepeatsAreExplained'
  <2>1. ASSUME NEW o \in Deliveries, pc'[o] = "checked", Recent(event[o])'
        PROVE  o \in raced' \/ event[o] \in lost'
    <3>1. o # d /\ pc[o] = "checked" /\ event[o] \in Events
      BY <1>1, <1>2, <2>1 DEF Sound
    <3>2. CASE event[o] = e
      BY <1>1, <3>1, <3>2
    <3>3. CASE event[o] # e
      BY <1>1, <1>2, <1>7, <2>1, <3>1, <3>3 DEF RepeatsAreExplained
    <3>4. QED
      BY <3>2, <3>3
  <2>2. QED
    BY <1>1, <2>1 DEF RepeatsAreExplained
<1>10. QED
  BY <1>5, <1>6, <1>8, <1>9 DEF WebhooksInv

\* A failed handler leaves the markers alone.
LEMMA InvFail == ASSUME WebhooksInv, NEW d \in Deliveries, Fail(d) PROVE WebhooksInv'
<1>1. /\ pc' = [pc EXCEPT ![d] = "idle"] /\ raced' = raced \ {d}
      /\ UNCHANGED <<cacheVars, event, routed, lost>>
  BY DEF Fail
<1>2. \A o : C!Live(o)' = C!Live(o) /\ Recent(o)' = Recent(o)
  BY <1>1 DEF C!Live, C!Expired, Recent, cacheVars
<1>3. Sound'
  BY <1>1 DEF WebhooksInv, Sound, cacheVars
<1>4. Dated' /\ RoutedStaysMarked'
  BY <1>1, <1>2 DEF WebhooksInv, Dated, RoutedStaysMarked, cacheVars
<1>5. RepeatsAreExplained'
  BY <1>1, <1>2 DEF WebhooksInv, Sound, RepeatsAreExplained
<1>6. QED
  BY <1>3, <1>4, <1>5 DEF WebhooksInv

\* A restart loses all markers and says so.
LEMMA InvRestart == ASSUME WebhooksInv, Restart PROVE WebhooksInv'
<1>1. /\ C!Restart /\ pc' = [d \in Deliveries |-> "idle"] /\ raced' = {}
      /\ lost' = lost \cup {e \in Events : C!Live(e)} /\ UNCHANGED <<event, routed>>
  BY DEF Restart
<1>2. /\ cache' = C!NoEntries /\ DOMAIN cache' = {} /\ breaker' = C!NewBreaker
      /\ now' = now /\ nextSweep' = now + CLEANUP_INTERVAL
  BY <1>1 DEF C!Restart, C!NoEntries
<1>3. Sound'
  BY <1>1, <1>2, WebhooksAssumption DEF WebhooksInv, Sound, C!NoEntries
<1>4. Dated'
  BY <1>2 DEF Dated
<1>5. RoutedStaysMarked'
  BY <1>1, <1>2 DEF WebhooksInv, RoutedStaysMarked, Recent
<1>6. RepeatsAreExplained'
  BY <1>1 DEF RepeatsAreExplained
<1>7. QED
  BY <1>3, <1>4, <1>5, <1>6 DEF WebhooksInv

\* The sweep and the clock only ever end markers that are no longer recent.
LEMMA InvTimers == ASSUME WebhooksInv, CacheTimers PROVE WebhooksInv'
<1>1. Sound /\ Dated /\ RoutedStaysMarked /\ RepeatsAreExplained
  BY DEF WebhooksInv
<1>2. UNCHANGED <<pc, event, routed, raced, lost>>
  BY DEF CacheTimers, deliveryVars, history
<1>3. /\ now' \in Nat \ {0} /\ now' >= now /\ nextSweep' \in Nat /\ breaker' = breaker
      /\ DOMAIN cache' \subseteq DOMAIN cache
      /\ cache' = [e \in DOMAIN cache' |-> cache[e]]
      /\ \A e \in DOMAIN cache \ DOMAIN cache' : ~C!Live(e)
  <2>1. CASE C!CleanupExpired
    BY <1>1, <2>1, NewBreakerIsClosed, WebhooksAssumption
       DEF C!CleanupExpired, C!Without, C!Live, Sound
  <2>2. CASE C!Tick
    BY <1>1, <2>2 DEF C!Tick, Sound
  <2>3. QED
    BY <2>1, <2>2 DEF CacheTimers
<1>4. Dated' /\ RoutedStaysMarked' /\ \A e \in Events : Recent(e)' => Recent(e)
  BY <1>2, <1>3, DeadMarkersGo
<1>5. Sound'
  BY <1>1, <1>2, <1>3 DEF Sound
<1>6. RepeatsAreExplained'
  BY <1>1, <1>2, <1>4 DEF RepeatsAreExplained, Sound
<1>7. QED
  BY <1>4, <1>5, <1>6 DEF WebhooksInv

\* Every step preserves the invariant.
LEMMA WebhooksInvNext == WebhooksInv /\ [Next]_vars => WebhooksInv'
<1> SUFFICES ASSUME WebhooksInv, [Next]_vars PROVE WebhooksInv'
  OBVIOUS
<1>1. CASE UNCHANGED vars
  <2>1. UNCHANGED <<now, cache, breaker, nextSweep, pc, event, routed, raced, lost>>
    BY <1>1 DEF vars, cacheVars, deliveryVars, history
  <2>2. QED
    BY <2>1 DEF WebhooksInv, Sound, Dated, RoutedStaysMarked, RepeatsAreExplained,
                Recent, C!Live, C!Expired
<1>2. QED
  BY <1>1, InvReceive, InvProcess, InvFail, InvRestart, InvTimers DEF Next

\* WebhooksInv holds in every reachable state.
THEOREM WebhooksInvariant == Spec => []WebhooksInv
BY WebhooksInvInit, WebhooksInvNext, PTL DEF Spec

\* Deliveries and cache stay well typed, and every entry is the marker of an event.
THEOREM WebhooksTypeOK == Spec => []TypeOK
<1>1. WebhooksInv => TypeOK
  BY DEF WebhooksInv, Sound, TypeOK, C!TypeOK, C!NewBreaker, C!Breakers, C!NEVER
<1>2. QED
  BY <1>1, WebhooksInvariant, PTL

\* An event answered "already processed" was handled within the time to live of its marker.
THEOREM WebhooksDuplicatesWereRouted == Spec => []DuplicatesWereRouted
<1>1. WebhooksInv => DuplicatesWereRouted
  BY LiveIsRecent DEF WebhooksInv, DuplicatesWereRouted, C!Live
<1>2. QED
  BY <1>1, WebhooksInvariant, PTL

\* A routed event keeps its marker unless it is evicted or the process stops.
THEOREM WebhooksRoutedStaysMarked == Spec => []RoutedStaysMarked
<1>1. WebhooksInv => RoutedStaysMarked
  BY DEF WebhooksInv
<1>2. QED
  BY <1>1, WebhooksInvariant, PTL

\* An event is routed again in time only after a race of two checks or a lost marker.
THEOREM WebhooksRepeatsAreExplained == Spec => []RepeatsAreExplained
<1>1. WebhooksInv => RepeatsAreExplained
  BY DEF WebhooksInv
<1>2. QED
  BY <1>1, WebhooksInvariant, PTL

\* The service uses the cache as any client may: every step of a delivery, a restart and the
\* timers are operations of the cache or leave it alone, so that the cache never sees a
\* state here that Cache does not describe.
THEOREM WebhooksImplementsCache == Spec => C!Spec
<1>1. Init => C!Init
  BY DEF Init
<1>2. ASSUME WebhooksInv, [Next]_vars PROVE [C!Next]_C!vars
  <2>1. CASE UNCHANGED vars
    BY <2>1 DEF vars, cacheVars, C!vars
  <2>2. CASE \E d \in Deliveries, e \in Events : Receive(d, e)
    BY <2>2 DEF Receive, C!Next
  <2>3. ASSUME NEW d \in Deliveries, Process(d) PROVE C!Next
    <3>1. event[d] \in Events
      BY <1>2, <2>3 DEF WebhooksInv, Sound
    <3>2. C!Set(event[d], WEBHOOK_TTL, 1, FALSE)
      BY <2>3 DEF Process, MarkProcessed
    <3>3. QED
      BY <3>1, <3>2 DEF C!Next
  <2>4. CASE \E d \in Deliveries : Fail(d)
    BY <2>4 DEF Fail, cacheVars, C!vars
  <2>5. CASE Restart
    BY <2>5 DEF Restart, C!Next
  <2>6. CASE CacheTimers
    BY <2>6 DEF CacheTimers, C!Next
  <2>7. QED
    BY <1>2, <2>1, <2>2, <2>3, <2>4, <2>5, <2>6 DEF Next
<1>3. QED
  BY <1>1, <1>2, WebhooksInvariant, PTL DEF Spec, C!Spec

-----------------------------------------------------------------------------
(***************************************************************************)
(* What CacheProofs shows of the cache holds for the markers, because the  *)
(* composition implements Cache.  The prover keeps the definitions of the  *)
(* two instances apart, so each operation is first shown to be the same.   *)
(***************************************************************************)
Markers == INSTANCE CacheProofs WITH
    Keys <- Events, Prefixes <- {}, Ttls <- {WEBHOOK_TTL}, Versions <- {1}

\* Reading an entry is the same step in both instances.
LEMMA SameGet == ASSUME NEW k PROVE C!Get(k) <=> Markers!Get(k)
BY DEF C!Get, C!Rejected, C!IsCircuitClosed, C!CheckCircuitBreaker, C!Cooled, C!RecordFailure,
       C!Live, C!Expired, C!NEVER, C!Without, C!vars,
       Markers!Get, Markers!Rejected, Markers!IsCircuitClosed, Markers!CheckCircuitBreaker,
       Markers!Cooled, Markers!RecordFailure, Markers!Live, Markers!Expired, Markers!NEVER,
       Markers!Without, Markers!vars

\* So is storing one, with the eviction that precedes it.
LEMMA SameSet ==
    ASSUME NEW k, NEW ttl, NEW version, NEW encrypt
    PROVE  C!Set(k, ttl, version, encrypt) <=> Markers!Set(k, ttl, version, encrypt)
<1>1. C!LeastRecentlyUsed = Markers!LeastRecentlyUsed
  BY DEF C!LeastRecentlyUsed, C!EntriesToEvict, C!Cardinality,
         Markers!LeastRecentlyUsed, Markers!EntriesToEvict, Markers!Cardinality
<1>2. C!Victims = Markers!Victims
  BY <1>1 DEF C!Victims, C!Cardinality, Markers!Victims, Markers!Cardinality
<1>3. QED
  BY <1>2
     DEF C!Set, C!Rejected, C!IsCircuitClosed, C!CheckCircuitBreaker, C!Cooled, C!RecordSuccess,
         C!RecordFailure, C!NewEntry, C!NEVER, C!Without, C!vars,
         Markers!Set, Markers!Rejected, Markers!IsCircuitClosed, Markers!CheckCircuitBreaker,
         Markers!Cooled, Markers!RecordSuccess, Markers!RecordFailure, Markers!NewEntry,
         Markers!NEVER, Markers!Without, Markers!vars

\* So are the operations that at most remove entries.
LEMMA SameRemovals ==
    /\ \A k : C!Exists(k) <=> Markers!Exists(k)
    /\ \A k : C!Delete(k) <=> Markers!Delete(k)
    /\ \A k, version : C!InvalidateVersion(k, version) <=> Markers!InvalidateVersion(k, version)
    /\ C!Clear <=> Markers!Clear
BY DEF C!Exists, C!Live, C!Expired, C!NEVER, C!Without, C!Delete, C!InvalidateVersion, C!Clear,
       C!NoEntries, Markers!Exists, Markers!Live, Markers!Expired, Markers!NEVER,
       Markers!Without, Markers!Delete, Markers!InvalidateVersion, Markers!Clear, Markers!NoEntries

\* So are the start, the restart, the sweep and the clock.
LEMMA SameTimers ==
    /\ C!Init <=> Markers!Init
    /\ C!Restart <=> Markers!Restart
    /\ C!CleanupExpired <=> Markers!CleanupExpired
    /\ C!Tick <=> Markers!Tick
BY DEF C!Init, C!Restart, C!CleanupExpired, C!Tick, C!NoEntries, C!NewBreaker, C!NEVER,
       C!Without, C!Expired, C!CheckCircuitBreaker, C!Cooled,
       Markers!Init, Markers!Restart, Markers!CleanupExpired, Markers!Tick, Markers!NoEntries,
       Markers!NewBreaker, Markers!NEVER, Markers!Without, Markers!Expired,
       Markers!CheckCircuitBreaker, Markers!Cooled

\* However many events arrive, their markers never exceed the capacity of the cache, and none
\* outlives its time to live by more than a sweep period (set() evicts before it stores, the
\* sweep runs without traffic), for finitely many events and the cache's own constants.
THEOREM WebhooksMarkersAreBounded ==
    ASSUME Markers!CacheAssumption
    PROVE  Spec => [](C!CapacityBound /\ C!DeadEntriesSwept)
<1>1. [C!Next]_C!vars => [Markers!Next]_Markers!vars
  BY SameGet, SameSet, SameRemovals, SameTimers DEF C!Next, Markers!Next, C!vars, Markers!vars
<1>2. Markers!CapacityBound /\ Markers!DeadEntriesSwept => C!CapacityBound /\ C!DeadEntriesSwept
  BY DEF C!CapacityBound, C!DeadEntriesSwept, C!Cardinality, C!NEVER, Markers!CapacityBound,
         Markers!DeadEntriesSwept, Markers!Cardinality, Markers!NEVER
<1>3. Markers!Spec => []Markers!CapacityBound
  BY Markers!CacheCapacityBound, PTL
<1>4. Markers!Spec => []Markers!DeadEntriesSwept
  BY Markers!CacheDeadEntriesSwept, PTL
<1>5. QED
  BY <1>1, <1>2, <1>3, <1>4, SameTimers, WebhooksImplementsCache, PTL DEF C!Spec, Markers!Spec
=============================================================================
