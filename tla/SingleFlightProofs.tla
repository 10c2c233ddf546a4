------------------------- MODULE SingleFlightProofs -------------------------
(***************************************************************************)
(* Proofs about SingleFlight for any number of calls and keys.  That at    *)
(* most one flight per key is in the air is not inductive by itself; it    *)
(* becomes so with LastRegistered, which names that flight: unless one has *)
(* failed, a flight in the air is the one that is registered.              *)
(*                                                                         *)
(* Single flight is what keeps the cache from going back in time, which is *)
(* the second half, about FlightValues, for any number of changes too: a   *)
(* running flight was launched when the cache had nothing newer than the   *)
(* source (ValuesInv), and until it lands nobody else stores, because the  *)
(* flight in the air is the registered one (FlightInv).                    *)
(***************************************************************************)
EXTENDS FlightValues, FiniteSetTheorems, TLAPS

\* A call launches at most one flight, and only flights that exist can have failed.
LaunchOnce == \A c \in Calls : pc[c] \in {"idle", "joined"} => flight[c] = "none"

\* A caller never awaits a flight for another key, and one that launched a flight
\* awaits its own.
AwaitsOwnKey ==
    \A c \in Calls :
        /\ pc[c] = "joined" => key[awaits[c]] = key[c] /\ flight[awaits[c]] # "none"
        /\ pc[c] = "leading" => awaits[c] = c

LastRegistered ==
    \A c \in Calls :
        flight[c] \in Airborne =>
            \/ HasFailed(key[c])
            \/ key[c] \in DOMAIN inFlight /\ inFlight[key[c]] = c

FlightInv ==
    /\ TypeOK
    /\ RegisteredIsAirborne
    /\ AwaitsOwnKey
    /\ LaunchOnce
    /\ LastRegistered

LEMMA FlightInvInit == Init => FlightInv
BY SingleFlightAssumption
   DEF Init, FlightInv, TypeOK, RegisteredIsAirborne, AwaitsOwnKey, LaunchOnce,
       LastRegistered, FlightStates, Airborne, Returned

\* A flight that has failed stays failed as long as no call launches twice.
LEMMA FailuresStay ==
    ASSUME key' = key,
           \A c \in Calls : flight[c] \in Failed => flight'[c] = flight[c]
    PROVE  \A k : HasFailed(k) => HasFailed(k)'
BY DEF HasFailed, Failed

----------------------------------------------------------------------------
(* One lemma for each kind of step. *)

\* A call may launch when its key has no registered flight or has seen one fail.
LEMMA FlightInvLaunch ==
    ASSUME FlightInv, NEW c \in Calls, pc[c] \in {"idle", "joined"}, Launch(c),
           key' = key, key[c] \in DOMAIN inFlight => HasFailed(key[c])
    PROVE  FlightInv'
<1> USE DEF FlightInv
<1>1. PICK outcome \in {"running", "thrown"} : flight' = [flight EXCEPT ![c] = outcome]
  BY DEF Launch
<1>2. /\ flight[c] = "none"
      /\ flight'[c] = outcome
      /\ \A d \in Calls \ {c} : flight'[d] = flight[d]
  BY <1>1 DEF LaunchOnce, TypeOK
<1>3. /\ DOMAIN inFlight' = DOMAIN inFlight \cup {key[c]}
      /\ inFlight'[key[c]] = c
      /\ \A k \in DOMAIN inFlight \ {key[c]} : inFlight'[k] = inFlight[k]
      /\ inFlight' = [k \in DOMAIN inFlight' |-> inFlight'[k]]
  BY DEF Launch, Register
<1>4. \A k : HasFailed(k) => HasFailed(k)'
  BY <1>2, FailuresStay DEF Failed
<1>5. /\ pc' = [pc EXCEPT ![c] = "leading"]
      /\ awaits' = [awaits EXCEPT ![c] = c]
  BY DEF Launch
<1>6. TypeOK'
  <2>1. flight' \in [Calls -> FlightStates]
    BY <1>1 DEF TypeOK, FlightStates
  <2>2. pc' \in [Calls -> {"idle", "leading", "joined"} \cup Returned]
    BY <1>5 DEF TypeOK
  <2>3. awaits' \in [Calls -> Calls]
    BY <1>5 DEF TypeOK
  <2>4. DOMAIN inFlight' \subseteq Keys /\ inFlight' \in [DOMAIN inFlight' -> Calls]
    BY <1>3 DEF TypeOK
  <2>5. QED
    BY <2>1, <2>2, <2>3, <2>4 DEF TypeOK
<1>7. RegisteredIsAirborne'
  BY <1>2, <1>3 DEF RegisteredIsAirborne, Airborne, TypeOK
<1>8. AwaitsOwnKey'
  BY <1>2, <1>5 DEF AwaitsOwnKey, TypeOK
<1>9. LaunchOnce'
  BY <1>2, <1>5 DEF LaunchOnce, TypeOK
<1>10. LastRegistered'
  <2> SUFFICES ASSUME NEW d \in Calls, flight'[d] \in Airborne, ~HasFailed(key[d])'
               PROVE  key[d] \in DOMAIN inFlight' /\ inFlight'[key[d]] = d
    BY DEF LastRegistered
  <2>1. CASE d = c
    BY <1>3, <2>1
  <2>2. CASE d # c
    <3>1. key[d] \in DOMAIN inFlight /\ inFlight[key[d]] = d
      BY <1>2, <1>4, <2>2 DEF LastRegistered
    <3>2. key[d] # key[c]
      BY <1>4, <3>1
    <3>3. QED
      BY <1>3, <3>1, <3>2
  <2>3. QED
    BY <2>1, <2>2
<1>11. QED
  BY <1>6, <1>7, <1>8, <1>9, <1>10

\* A flight ends: its registration goes, and nothing else under its key was registered
\* unless a flight for the key has failed.
LEMMA FlightInvLanding ==
    ASSUME FlightInv, NEW c \in Calls, flight[c] \in Airborne,
           NEW outcome \in {"resolved", "rejected"},
           flight' = [flight EXCEPT ![c] = outcome], Unregister(c),
           UNCHANGED <<pc, key, awaits>>
    PROVE  FlightInv'
<1> USE DEF FlightInv
<1>1. /\ flight'[c] = outcome
      /\ \A d \in Calls \ {c} : flight'[d] = flight[d]
  BY DEF TypeOK
<1>2. /\ DOMAIN inFlight' = DOMAIN inFlight \ {key[c]}
      /\ \A k \in DOMAIN inFlight' : inFlight'[k] = inFlight[k]
      /\ inFlight' = [k \in DOMAIN inFlight' |-> inFlight'[k]]
  BY DEF Unregister
<1>3. \A k : HasFailed(k) => HasFailed(k)'
  BY <1>1, FailuresStay DEF Failed, Airborne
<1>4. TypeOK'
  <2>1. flight' \in [Calls -> FlightStates]
    BY DEF TypeOK, FlightStates
  <2>2. DOMAIN inFlight' \subseteq Keys /\ inFlight' \in [DOMAIN inFlight' -> Calls]
    BY <1>2 DEF TypeOK
  <2>3. QED
    BY <2>1, <2>2 DEF TypeOK
<1>5. RegisteredIsAirborne'
  BY <1>1, <1>2 DEF RegisteredIsAirborne, TypeOK
<1>6. AwaitsOwnKey'
  BY <1>1 DEF AwaitsOwnKey, TypeOK
<1>7. LaunchOnce'
  BY <1>1 DEF LaunchOnce, Airborne
<1>8. LastRegistered'
  <2> SUFFICES ASSUME NEW d \in Calls, flight'[d] \in Airborne, ~HasFailed(key[d])'
               PROVE  key[d] \in DOMAIN inFlight' /\ inFlight'[key[d]] = d
    BY DEF LastRegistered
  <2>1. d # c
    BY <1>1 DEF Airborne
  <2>2. key[d] \in DOMAIN inFlight /\ inFlight[key[d]] = d
    BY <1>1, <1>3, <2>1 DEF LastRegistered
  <2>3. key[d] # key[c]
    BY <1>3, <2>1, <2>2 DEF LastRegistered
  <2>4. QED
    BY <1>2, <2>2, <2>3
<1>9. QED
  BY <1>4, <1>5, <1>6, <1>7, <1>8

LEMMA FlightInvStored ==
    ASSUME FlightInv, NEW c \in Calls, FallbackResolves(c)
    PROVE  FlightInv'
<1> USE DEF FlightInv, FallbackResolves
<1>1. /\ flight'[c] = "stored"
      /\ \A d \in Calls \ {c} : flight'[d] = flight[d]
  BY DEF TypeOK
<1>2. \A k : HasFailed(k) => HasFailed(k)'
  BY <1>1, FailuresStay DEF Failed
<1>3. TypeOK'
  BY DEF TypeOK, FlightStates
<1>4. RegisteredIsAirborne'
  BY <1>1 DEF RegisteredIsAirborne, Airborne, TypeOK
<1>5. AwaitsOwnKey'
  BY <1>1 DEF AwaitsOwnKey, TypeOK
<1>6. LaunchOnce'
  BY <1>1 DEF LaunchOnce
<1>7. LastRegistered'
  BY <1>1, <1>2 DEF LastRegistered, Airborne
<1>8. QED
  BY <1>3, <1>4, <1>5, <1>6, <1>7

\* A step of a caller that touches no flight.
LEMMA FlightInvCaller ==
    ASSUME FlightInv, NEW c \in Calls, Hit(c) \/ Join(c) \/ Return(c) \/ Timeout(c)
    PROVE  FlightInv'
<1> USE DEF FlightInv
<1>1. UNCHANGED <<inFlight, key, flight>>
  BY DEF Hit, Join, Return, Timeout
<1>2. TypeOK'
  BY DEF Hit, Join, Return, Timeout, TypeOK, Returned
<1>3. RegisteredIsAirborne' /\ LastRegistered'
  BY <1>1 DEF RegisteredIsAirborne, LastRegistered, HasFailed
<1>4. AwaitsOwnKey'
  BY <1>1 DEF AwaitsOwnKey, Hit, Join, Return, Timeout, RegisteredIsAirborne, TypeOK, Airborne
<1>5. LaunchOnce'
  BY DEF LaunchOnce, Hit, Join, Return, Timeout, TypeOK
<1>6. QED
  BY <1>2, <1>3, <1>4, <1>5

LEMMA FlightInvNext == FlightInv /\ [Next]_vars => FlightInv'
<1> SUFFICES ASSUME FlightInv, [Next]_vars PROVE FlightInv'
  OBVIOUS
<1>1. ASSUME NEW c \in Calls, Hit(c) \/ Join(c) \/ Return(c) \/ Timeout(c)
      PROVE  FlightInv'
  BY <1>1, FlightInvCaller
<1>2. ASSUME NEW c \in Calls, Lead(c) PROVE FlightInv'
  BY <1>2, FlightInvLaunch DEF Lead
<1>3. ASSUME NEW c \in Calls, Retry(c) PROVE FlightInv'
  <2>1. HasFailed(key[c])
    BY <1>3 DEF Retry, HasFailed, FlightInv, AwaitsOwnKey, TypeOK
  <2>2. QED
    BY <1>3, <2>1, FlightInvLaunch DEF Retry
<1>4. ASSUME NEW c \in Calls, FallbackResolves(c) PROVE FlightInv'
  BY <1>4, FlightInvStored
<1>5. ASSUME NEW c \in Calls, Finish(c) \/ FallbackRejects(c) PROVE FlightInv'
  BY <1>5, FlightInvLanding DEF Finish, FallbackRejects, Airborne
<1>6. CASE UNCHANGED vars
  BY <1>6 DEF vars, FlightInv, TypeOK, RegisteredIsAirborne, AwaitsOwnKey, LaunchOnce,
              LastRegistered, HasFailed
<1>7. QED
  BY <1>1, <1>2, <1>3, <1>4, <1>5, <1>6 DEF Next

LEMMA FlightInvariant == Spec => []FlightInv
<1>1. QED
  BY FlightInvInit, FlightInvNext, PTL DEF Spec

----------------------------------------------------------------------------

\* Registrations, calls and flights stay well typed (inFlightRequests and the promises).
THEOREM FlightTypeOK == Spec => []TypeOK
<1>1. FlightInv => TypeOK
  BY DEF FlightInv
<1>2. QED
  BY <1>1, FlightInvariant, PTL

\* Nobody joins a finished flight: the finally clause of executeWithSingleFlight removes
\* the registration in the step that settles the flight.
THEOREM FlightRegisteredIsAirborne == Spec => []RegisteredIsAirborne
<1>1. FlightInv => RegisteredIsAirborne
  BY DEF FlightInv
<1>2. QED
  BY <1>1, FlightInvariant, PTL

\* Until one fails, the flights of getOrSet are single: any number of callers, timeouts and
\* evictions lead to one fallback at a time for a key.
THEOREM FlightSingleUntilFailure == Spec => []SingleFlightUntilFailure
<1>1. FlightInv => SingleFlightUntilFailure
  <2> SUFFICES ASSUME FlightInv, NEW k \in Keys, ~HasFailed(k)
               PROVE  Cardinality(FlightsOf(k)) <= 1
    BY DEF SingleFlightUntilFailure
  <2>1. \A c, d \in FlightsOf(k) : c = d
    BY DEF FlightInv, LastRegistered, FlightsOf
  <2>2. CASE FlightsOf(k) = {}
    <3>1. Cardinality(FlightsOf(k)) = 0
      BY <2>2, FS_EmptySet
    <3>2. QED
      BY <3>1
  <2>3. CASE FlightsOf(k) # {}
    <3>1. PICK c : FlightsOf(k) = {c}
      BY <2>1, <2>3
    <3>2. Cardinality({c}) = 1
      BY FS_Singleton
    <3>3. QED
      BY <3>1, <3>2
  <2>4. QED
    BY <2>2, <2>3
<1>2. QED
  BY <1>1, FlightInvariant, PTL

-----------------------------------------------------------------------------
\* The cache was not given what the source does not have yet, and nothing newer than what
\* a running flight will bring, unless single flight is lost or others wrote.
ValuesInv ==
    /\ FlightInv
    /\ source \in [Keys -> Nat] /\ entry \in [Keys -> Nat] /\ fetched \in [Calls -> Nat]
    /\ \A k \in Keys : entry[k] <= source[k]
    /\ \A c \in Calls :
        flight[c] = "running" =>
            /\ fetched[c] <= source[key[c]]
            /\ entry[key[c]] <= fetched[c] \/ HasFailed(key[c]) \/ key[c] \in crossed

\* Every step is one of SingleFlight, or leaves the flights alone.
LEMMA ValuesStepIsFlightStep ==
    ASSUME ValuesNext PROVE Next \/ UNCHANGED vars
BY DEF ValuesNext, Fetch, Resolve, Reject, Change, Write, Next

\* What is known of the flights before and after a step.
LEMMA FlightFacts ==
    ASSUME ValuesInv, ValuesNext
    PROVE  /\ FlightInv' /\ key' = key /\ key \in [Calls -> Keys]
           /\ \A k : HasFailed(k) => HasFailed(k)'
           /\ \A c, d \in Calls :
                flight[c] = "running" /\ flight[d] = "running" /\ key[c] = key[d] =>
                    c = d \/ HasFailed(key[c])
<1>1. FlightInv /\ TypeOK
  BY DEF ValuesInv, FlightInv
<1>2. [Next]_vars
  BY ValuesStepIsFlightStep
<1>3. FlightInv'
  BY <1>1, <1>2, FlightInvNext
<1>4. key' = key /\ \A c \in Calls : flight[c] \in Failed => flight'[c] = flight[c]
  <2>1. CASE UNCHANGED vars
    BY <2>1 DEF vars
  <2>2. ASSUME NEW c \in Calls, Lead(c) \/ Retry(c)
        PROVE  key' = key /\ \A d \in Calls : flight[d] \in Failed => flight'[d] = flight[d]
    <3>1. flight[c] = "none"
      BY <1>1, <2>2 DEF Lead, Retry, FlightInv, LaunchOnce
    <3>2. QED
      BY <1>1, <2>2, <3>1 DEF Lead, Retry, Launch, Failed, TypeOK
  <2>3. ASSUME NEW c \in Calls,
               \/ Hit(c) \/ Join(c) \/ FallbackResolves(c) \/ Finish(c)
               \/ FallbackRejects(c) \/ Return(c) \/ Timeout(c)
        PROVE  key' = key /\ \A d \in Calls : flight[d] \in Failed => flight'[d] = flight[d]
    BY <1>1, <2>3 DEF Hit, Join, FallbackResolves, Finish, FallbackRejects, Return, Timeout,
                      Failed, TypeOK
  <2>4. QED
    BY <1>2, <2>1, <2>2, <2>3 DEF Next
<1>5. \A k : HasFailed(k) => HasFailed(k)'
  BY <1>4, FailuresStay
<1>6. ASSUME NEW c \in Calls, NEW d \in Calls, flight[c] = "running", flight[d] = "running",
             key[c] = key[d], ~HasFailed(key[c])
      PROVE  c = d
  BY <1>1, <1>6 DEF FlightInv, LastRegistered, Airborne
<1>7. QED
  BY <1>1, <1>3, <1>4, <1>5, <1>6 DEF TypeOK

\* Nothing flies and every version is 0 at the start.
LEMMA ValuesInvInit == ValuesInit => ValuesInv
BY FlightInvInit DEF ValuesInit, ValuesInv, Init

\* The flight of c lands: its value is not older than what the cache was given.
LEMMA InvResolve ==
    ASSUME ValuesInv, ValuesNext, NEW c \in Calls, Resolve(c)
    PROVE  /\ ValuesInv'
           /\ \A k \in Keys : entry'[k] >= entry[k] \/ HasFailed(k) \/ k \in crossed
<1>1. /\ FlightInv' /\ key' = key /\ key[c] \in Keys
      /\ \A k : HasFailed(k) => HasFailed(k)'
      /\ crossed' = crossed /\ source' = source
  BY FlightFacts DEF Resolve
<1>2. /\ flight[c] = "running" /\ flight' = [flight EXCEPT ![c] = "stored"]
      /\ fetched' = [fetched EXCEPT ![c] = 0]
  BY DEF Resolve, FallbackResolves
<1>3. PICK v \in Nat : /\ v <= source[key[c]]
                       /\ entry' = [entry EXCEPT ![key[c]] = v]
                       /\ v = entry[key[c]] \/ v >= fetched[c]
  <2>1. CASE UNCHANGED entry
    <3>1. entry' = [entry EXCEPT ![key[c]] = entry[key[c]]] /\ entry[key[c]] \in Nat
      BY <1>1, <2>1 DEF ValuesInv
    <3>2. QED
      BY <1>1, <3>1 DEF ValuesInv
  <2>2. CASE \E v \in fetched[c] .. source[key[c]] : entry' = [entry EXCEPT ![key[c]] = v]
    <3>1. fetched[c] \in Nat /\ source[key[c]] \in Nat
      BY <1>1 DEF ValuesInv
    <3>2. PICK v \in fetched[c] .. source[key[c]] : entry' = [entry EXCEPT ![key[c]] = v]
      BY <2>2
    <3>3. v \in Nat /\ v >= fetched[c] /\ v <= source[key[c]]
      BY <3>1, <3>2
    <3>4. QED
      BY <3>2, <3>3
  <2>3. QED
    BY <2>1, <2>2 DEF Resolve
<1>4. \A k \in Keys : entry'[k] = IF k = key[c] THEN v ELSE entry[k]
  BY <1>3 DEF ValuesInv
<1>5. v >= entry[key[c]] \/ HasFailed(key[c]) \/ key[c] \in crossed
  BY <1>1, <1>2, <1>3 DEF ValuesInv
<1>6. \A d \in Calls \ {c} : flight'[d] = flight[d] /\ fetched'[d] = fetched[d]
  BY <1>2 DEF ValuesInv, FlightInv, TypeOK
<1>7. flight'[c] = "stored"
  BY <1>2 DEF ValuesInv, FlightInv, TypeOK
<1>8. ASSUME NEW d \in Calls, flight'[d] = "running"
      PROVE  /\ fetched'[d] <= source'[key'[d]]
             /\ entry'[key'[d]] <= fetched'[d] \/ HasFailed(key[d])' \/ key'[d] \in crossed'
  <2>1. d # c /\ flight[d] = "running" /\ fetched'[d] = fetched[d]
    BY <1>6, <1>7, <1>8
  <2>2. /\ fetched[d] <= source[key[d]]
        /\ entry[key[d]] <= fetched[d] \/ HasFailed(key[d]) \/ key[d] \in crossed
    BY <2>1 DEF ValuesInv
  <2>3. CASE key[d] = key[c]
    <3>1. HasFailed(key[d])
      BY <1>2, <2>1, <2>3, FlightFacts
    <3>2. QED
      BY <1>1, <2>1, <2>2, <3>1
  <2>4. CASE key[d] # key[c]
    <3>1. key[d] \in Keys
      BY FlightFacts
    <3>2. entry'[key[d]] = entry[key[d]]
      BY <1>4, <2>4, <3>1
    <3>3. QED
      BY <1>1, <2>1, <2>2, <3>2
  <2>5. QED
    BY <2>3, <2>4
<1>9. /\ source' \in [Keys -> Nat] /\ entry' \in [Keys -> Nat] /\ fetched' \in [Calls -> Nat]
      /\ \A k \in Keys : entry'[k] <= source'[k]
  BY <1>1, <1>2, <1>3, <1>4 DEF ValuesInv
<1>10. ValuesInv'
  <2> HIDE DEF FlightInv, HasFailed
  <2>1. QED
    BY <1>1, <1>8, <1>9 DEF ValuesInv
<1>11. ASSUME NEW k \in Keys PROVE entry'[k] >= entry[k] \/ HasFailed(k) \/ k \in crossed
  BY <1>4, <1>5 DEF ValuesInv
<1>12. QED
  BY <1>10, <1>11

\* A flight starts, with all that the source has, or ends without a value, or a call does
\* something else.
LEMMA InvCallStep ==
    ASSUME ValuesInv, ValuesNext, NEW c \in Calls, UNCHANGED <<source, entry, crossed>>,
           fetched' \in [Calls -> Nat],
           \A d \in Calls : flight'[d] = "running" =>
               \/ flight[d] = "running" /\ fetched'[d] = fetched[d]
               \/ fetched'[d] = source[key[d]]
    PROVE  ValuesInv'
<1>1. /\ FlightInv' /\ key' = key /\ key \in [Calls -> Keys]
      /\ \A k : HasFailed(k) => HasFailed(k)'
  BY FlightFacts
<1>2. ASSUME NEW d \in Calls, flight'[d] = "running"
      PROVE  /\ fetched'[d] <= source'[key'[d]]
             /\ entry'[key'[d]] <= fetched'[d] \/ HasFailed(key[d])' \/ key'[d] \in crossed'
  <2>1. key[d] \in Keys /\ source[key[d]] \in Nat /\ entry[key[d]] <= source[key[d]]
    BY <1>1 DEF ValuesInv
  <2>2. CASE flight[d] = "running" /\ fetched'[d] = fetched[d]
    BY <1>1, <2>2 DEF ValuesInv
  <2>3. CASE fetched'[d] = source[key[d]]
    BY <1>1, <2>1, <2>3
  <2>4. QED
    BY <1>2, <2>2, <2>3
<1>3. QED
  BY <1>1, <1>2 DEF ValuesInv

\* What changes at the source is newer than all that was given to the cache.
LEMMA InvChange ==
    ASSUME ValuesInv, ValuesNext, NEW k \in Keys, Change(k) PROVE ValuesInv'
<1>1. /\ FlightInv' /\ key \in [Calls -> Keys]
      /\ UNCHANGED <<vars, entry, fetched, crossed>>
      /\ \A j : HasFailed(j) => HasFailed(j)'
  BY FlightFacts DEF Change
<1>2. /\ source' \in [Keys -> Nat]
      /\ \A j \in Keys : source'[j] >= source[j]
  BY DEF Change, ValuesInv
<1>3. \A c \in Calls : source[key[c]] <= source'[key[c]] /\ source[key[c]] \in Nat
  BY <1>1, <1>2 DEF ValuesInv
<1>4. \A j \in Keys : entry'[j] <= source'[j]
  BY <1>1, <1>2 DEF ValuesInv
<1>5. QED
  BY <1>1, <1>2, <1>3, <1>4 DEF ValuesInv, vars

\* What others write is current, and what a running flight will bring is no longer vouched for.
LEMMA InvWrite ==
    ASSUME ValuesInv, ValuesNext, NEW k \in Keys, Write(k)
    PROVE  ValuesInv' /\ \A j \in Keys : entry'[j] >= entry[j]
<1>1. /\ FlightInv' /\ key \in [Calls -> Keys]
      /\ UNCHANGED <<vars, source, fetched>>
      /\ \A j : HasFailed(j) => HasFailed(j)'
  BY FlightFacts DEF Write
<1>2. /\ entry' \in [Keys -> Nat]
      /\ \A j \in Keys : entry'[j] = IF j = k THEN source[k] ELSE entry[j]
  BY DEF Write, ValuesInv
<1>3. /\ crossed \subseteq crossed'
      /\ \A c \in Calls : key[c] = k /\ flight[c] = "running" => k \in crossed'
  BY DEF Write
<1>4. \A j \in Keys : entry'[j] >= entry[j] /\ entry'[j] <= source'[j]
  BY <1>1, <1>2 DEF ValuesInv
<1>5. ASSUME NEW c \in Calls, flight'[c] = "running"
      PROVE  /\ fetched'[c] <= source'[key'[c]]
             /\ entry'[key'[c]] <= fetched'[c] \/ HasFailed(key[c])' \/ key'[c] \in crossed'
  <2>1. flight[c] = "running" /\ key' = key /\ key[c] \in Keys
    BY <1>1, <1>5 DEF vars
  <2>2. QED
    BY <1>1, <1>2, <1>3, <2>1 DEF ValuesInv
<1>6. QED
  BY <1>1, <1>2, <1>4, <1>5 DEF ValuesInv

\* Every step preserves the invariant and takes no key back in time.
LEMMA ValuesInvNext ==
    ASSUME ValuesInv, ValuesNext
    PROVE  /\ ValuesInv'
           /\ \A k \in Keys : entry'[k] >= entry[k] \/ HasFailed(k) \/ k \in crossed
<1>1. TypeOK /\ fetched \in [Calls -> Nat] /\ source \in [Keys -> Nat] /\ entry \in [Keys -> Nat]
  BY DEF ValuesInv, FlightInv
<1>2. ASSUME UNCHANGED entry
      PROVE  \A k \in Keys : entry'[k] >= entry[k]
  BY <1>1, <1>2
<1>3. ASSUME NEW c \in Calls, Fetch(c) PROVE ValuesInv'
  <2>1. /\ UNCHANGED <<source, entry, crossed>> /\ key[c] \in Keys
        /\ fetched' = [fetched EXCEPT ![c] = IF flight'[c] = "running" THEN source[key[c]] ELSE 0]
    BY <1>1, <1>3 DEF Fetch, TypeOK
  <2>2. \A d \in Calls \ {c} : flight'[d] = flight[d]
    BY <1>1, <1>3 DEF Fetch, Lead, Retry, Launch, TypeOK
  <2>3. fetched' \in [Calls -> Nat]
    BY <1>1, <2>1
  <2>4. \A d \in Calls : flight'[d] = "running" =>
               \/ flight[d] = "running" /\ fetched'[d] = fetched[d]
               \/ fetched'[d] = source[key[d]]
    BY <1>1, <2>1, <2>2
  <2>5. QED
    BY <2>1, <2>3, <2>4, InvCallStep
<1>4. ASSUME NEW c \in Calls, Reject(c) PROVE ValuesInv'
  <2>1. /\ UNCHANGED <<source, entry, crossed>>
        /\ fetched' = [fetched EXCEPT ![c] = 0]
        /\ flight' = [flight EXCEPT ![c] = "rejected"]
    BY <1>4 DEF Reject, FallbackRejects
  <2>2. /\ fetched' \in [Calls -> Nat]
        /\ \A d \in Calls : flight'[d] = "running" => flight[d] = "running" /\ fetched'[d] = fetched[d]
    BY <1>1, <2>1 DEF TypeOK
  <2>3. QED
    BY <2>1, <2>2, InvCallStep
<1>5. ASSUME NEW c \in Calls, Hit(c) \/ Join(c) \/ Finish(c) \/ Return(c) \/ Timeout(c),
             UNCHANGED values
      PROVE  ValuesInv'
  <2>1. UNCHANGED <<source, entry, crossed>> /\ fetched' = fetched
    BY <1>5 DEF values
  <2>2. \A d \in Calls : flight'[d] = "running" => flight[d] = "running"
    BY <1>1, <1>5 DEF Hit, Join, Finish, Return, Timeout, TypeOK
  <2>3. QED
    BY <1>1, <1>5, <2>1, <2>2, InvCallStep
<1>6. CASE \E c \in Calls : Fetch(c) \/ Reject(c)
  BY <1>2, <1>3, <1>4, <1>6 DEF Fetch, Reject
<1>7. CASE \E c \in Calls : /\ Hit(c) \/ Join(c) \/ Finish(c) \/ Return(c) \/ Timeout(c)
                            /\ UNCHANGED values
  BY <1>2, <1>5, <1>7 DEF values
<1>8. CASE \E c \in Calls : Resolve(c)
  BY <1>8, InvResolve
<1>9. CASE \E k \in Keys : Change(k)
  BY <1>2, <1>9, InvChange DEF Change
<1>10. CASE \E k \in Keys : Write(k)
  BY <1>10, InvWrite
<1>11. QED
  BY <1>6, <1>7, <1>8, <1>9, <1>10 DEF ValuesNext

\* The invariant holds in every behaviour of the flights and the other writers.
THEOREM FlightValuesInvariant == ValuesSpec => []ValuesInv
<1>1. ValuesInv /\ [ValuesNext]_<<vars, values>> => ValuesInv'
  <2>1. CASE UNCHANGED <<vars, values>>
    BY <2>1 DEF vars, values, ValuesInv, FlightInv, TypeOK, RegisteredIsAirborne, AwaitsOwnKey,
                LaunchOnce, LastRegistered, HasFailed
  <2>2. QED
    BY <2>1, ValuesInvNext
<1>2. QED
  BY <1>1, ValuesInvInit, PTL DEF ValuesSpec

\* getOrSet never makes the cache go back in time, however late a timed out flight lands,
\* unless a flight for the key failed or another client wrote during one.
THEOREM FlightValuesNeverOlder == ValuesSpec => NeverOlder
<1>1. ValuesInv /\ [ValuesNext]_<<vars, values>> =>
        [\A k \in Keys : entry'[k] >= entry[k] \/ HasFailed(k) \/ k \in crossed]_<<vars, values>>
  BY ValuesInvNext
<1>2. QED
  BY <1>1, FlightValuesInvariant, PTL DEF ValuesSpec, NeverOlder


\* Whatever else writes to the cache, the flights of getOrSet behave as SingleFlight says:
\* executeWithSingleFlight keeps its registrations by itself, so that what is proved of the
\* flights alone holds next to every other client of the cache.
THEOREM FlightValuesImplementSingleFlight == ValuesSpec => Spec
<1>1. ValuesInit => Init
  BY DEF ValuesInit
<1>2. [ValuesNext]_<<vars, values>> => [Next]_vars
  BY ValuesStepIsFlightStep
<1>3. QED
  BY <1>1, <1>2, PTL DEF ValuesSpec, Spec
=============================================================================
