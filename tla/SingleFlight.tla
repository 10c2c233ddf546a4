---------------------------- MODULE SingleFlight ----------------------------
(***************************************************************************)
(* CacheService.getOrSet: a read that falls back to a slow source, shared  *)
(* by the concurrent callers of one key.  The first caller that misses     *)
(* launches a flight (the promise of its fallback) and registers it under  *)
(* the key; later callers that miss join the registered flight.            *)
(*                                                                         *)
(* An action is what runs between two suspension points of the code.  The  *)
(* map of Cache is left out: an entry may be there or not at any moment,   *)
(* because other clients write, delete and evict it and an open breaker    *)
(* hides it, so a lookup may always hit and may always miss.  The lookup   *)
(* and the test of inFlightRequests are therefore one action: what another *)
(* call does in the microtask between them cannot change the outcomes.     *)
(***************************************************************************)
EXTENDS Naturals, FiniteSets

CONSTANTS
    Calls,      \* calls of getOrSet; a flight is named after the call that launches it
    Keys,
    Workloads   \* which key each call asks for

ASSUME SingleFlightAssumption == IsFiniteSet(Calls) /\ Workloads \subseteq [Calls -> Keys]

VARIABLES
    inFlight,   \* inFlightRequests: the flight registered under a key
    pc,         \* where each call is suspended, or how it ended
    key,        \* the key each call asks for
    awaits,     \* the flight each suspended call awaits (its own when there is none)
    flight      \* what became of the flight of each call

vars == <<inFlight, pc, key, awaits, flight>>

Returned == {"value", "null", "error"}

(***************************************************************************)
(* A flight is "running" until its fallback settles, "stored" between the  *)
(* write to the cache and the finally clause, and "thrown" when its        *)
(* fallback threw before it returned a promise.                            *)
(***************************************************************************)
FlightStates == {"none", "running", "stored", "resolved", "rejected", "thrown"}

Airborne == {"running", "stored"}
Failed == {"rejected", "thrown"}

Init ==
    /\ inFlight = [k \in {} |-> k]
    /\ pc = [c \in Calls |-> "idle"]
    /\ key \in Workloads
    /\ awaits = [c \in Calls |-> c]
    /\ flight = [c \in Calls |-> "none"]

Register(c) ==
    inFlight' = [k \in DOMAIN inFlight \cup {key[c]} |-> IF k = key[c] THEN c ELSE inFlight[k]]

\* Mutant of Unregister: the entry is emptied, not deleted.
UnregisterLeavesHole(c) ==
    inFlight' = [k \in DOMAIN inFlight |-> IF k = key[c] THEN "none" ELSE inFlight[k]]

\* The finally clause removes what is registered under the key, whose flight ever it is.
Unregister(c) == inFlight' = [k \in DOMAIN inFlight \ {key[c]} |-> inFlight[k]]

(***************************************************************************)
(* executeWithSingleFlight up to its first suspension.  A fallback that    *)
(* throws at once runs the finally clause before the flight is registered, *)
(* and the registration stays.                                             *)
(***************************************************************************)
Launch(c) ==
    /\ flight' = [flight EXCEPT ![c] = "running"] \/ flight' = [flight EXCEPT ![c] = "thrown"]
    /\ Register(c)
    /\ pc' = [pc EXCEPT ![c] = "leading"]
    /\ awaits' = [awaits EXCEPT ![c] = c]

Hit(c) ==
    /\ pc[c] = "idle"
    /\ pc' = [pc EXCEPT ![c] = "value"]
    /\ UNCHANGED <<inFlight, key, awaits, flight>>

Join(c) ==
    /\ pc[c] = "idle"
    /\ key[c] \in DOMAIN inFlight
    /\ pc' = [pc EXCEPT ![c] = "joined"]
    /\ awaits' = [awaits EXCEPT ![c] = inFlight[key[c]]]
    /\ UNCHANGED <<inFlight, key, flight>>

\* Mutant of Lead: nobody looks for a registered flight.
LeadUnchecked(c) ==
    /\ pc[c] = "idle"
    /\ Launch(c)
    /\ UNCHANGED key

Lead(c) ==
    /\ pc[c] = "idle"
    /\ key[c] \notin DOMAIN inFlight
    /\ Launch(c)
    /\ UNCHANGED key

\* Mutant of Retry: the caller looks for a registered flight again before it launches one.
RetryRejoins(c) ==
    /\ pc[c] = "joined"
    /\ flight[awaits[c]] \in Failed
    /\ \/ /\ key[c] \in DOMAIN inFlight
          /\ awaits' = [awaits EXCEPT ![c] = inFlight[key[c]]]
          /\ UNCHANGED <<inFlight, pc, flight>>
       \/ /\ key[c] \notin DOMAIN inFlight
          /\ Launch(c)
    /\ UNCHANGED key

\* A joined flight that fails sends its caller on to a flight of its own.
Retry(c) ==
    /\ pc[c] = "joined"
    /\ flight[awaits[c]] \in Failed
    /\ Launch(c)
    /\ UNCHANGED key

\* The fallback answers and its value goes to set().
FallbackResolves(c) ==
    /\ flight[c] = "running"
    /\ flight' = [flight EXCEPT ![c] = "stored"]
    /\ UNCHANGED <<inFlight, pc, key, awaits>>

\* The finally clause after a stored value; the flight resolves.
Finish(c) ==
    /\ flight[c] = "stored"
    /\ flight' = [flight EXCEPT ![c] = "resolved"]
    /\ Unregister(c)
    /\ UNCHANGED <<pc, key, awaits>>

\* Mutant of FallbackRejects: only a success unregisters the flight (no finally).
RejectsRegistered(c) ==
    /\ flight[c] = "running"
    /\ flight' = [flight EXCEPT ![c] = "rejected"]
    /\ UNCHANGED <<inFlight, pc, key, awaits>>

FallbackRejects(c) ==
    /\ flight[c] = "running"
    /\ flight' = [flight EXCEPT ![c] = "rejected"]
    /\ Unregister(c)
    /\ UNCHANGED <<pc, key, awaits>>

\* The awaited flight settles and its caller returns; only the leader passes errors on.
Return(c) ==
    /\ pc[c] \in {"leading", "joined"}
    /\ \/ /\ flight[awaits[c]] = "resolved"
          /\ pc' = [pc EXCEPT ![c] = "value"]
       \/ /\ pc[c] = "leading"
          /\ flight[awaits[c]] \in Failed
          /\ pc' = [pc EXCEPT ![c] = "error"]
    /\ awaits' = [awaits EXCEPT ![c] = c]
    /\ UNCHANGED <<inFlight, key, flight>>

\* Mutants of Timeout: it gives the flight up; it is armed only after the flight settled.
TimeoutUnregisters(c) ==
    /\ pc[c] = "leading"
    /\ flight[c] = "running"
    /\ pc' = [pc EXCEPT ![c] = "null"]
    /\ Unregister(c)
    /\ UNCHANGED <<key, awaits, flight>>

TimeoutArmedLate(c) ==
    /\ pc[c] = "leading"
    /\ flight[c] \notin Airborne
    /\ pc' = [pc EXCEPT ![c] = "null"]
    /\ UNCHANGED <<inFlight, key, awaits, flight>>

\* SINGLE_FLIGHT_TIMEOUT passes; the leader returns null and its flight goes on.
Timeout(c) ==
    /\ pc[c] = "leading"
    /\ flight[c] = "running"
    /\ pc' = [pc EXCEPT ![c] = "null"]
    /\ UNCHANGED <<inFlight, key, awaits, flight>>

Next ==
    \E c \in Calls :
        \/ Hit(c)
        \/ Join(c)
        \/ Lead(c)
        \/ Retry(c)
        \/ FallbackResolves(c)
        \/ Finish(c)
        \/ FallbackRejects(c)
        \/ Return(c)
        \/ Timeout(c)

Spec == Init /\ [][Next]_vars

(***************************************************************************)
(* Promise reactions run and armed timers fire.  Nothing makes a fallback  *)
(* settle: it is another service.                                          *)
(***************************************************************************)
Fairness ==
    \A c \in Calls :
        /\ WF_vars(Retry(c))
        /\ WF_vars(Finish(c))
        /\ WF_vars(Return(c))
        /\ WF_vars(Timeout(c))

FairSpec == Spec /\ Fairness

----------------------------------------------------------------------------
(* Properties *)

\* Calls, flights and registrations range over what the code can store.
TypeOK ==
    /\ DOMAIN inFlight \subseteq Keys
    /\ inFlight \in [DOMAIN inFlight -> Calls]
    /\ pc \in [Calls -> {"idle", "leading", "joined"} \cup Returned]
    /\ key \in [Calls -> Keys]
    /\ awaits \in [Calls -> Calls]
    /\ flight \in [Calls -> FlightStates]

FlightsOf(k) == {c \in Calls : key[c] = k /\ flight[c] \in Airborne}

HasFailed(k) == \E c \in Calls : key[c] = k /\ flight[c] \in Failed

\* What is registered under a key is a flight for that key that has not settled: nobody
\* joins a finished one.  The exception is a fallback that threw before it returned a
\* promise, whose registration nobody removes.
RegisteredIsAirborne ==
    \A k \in DOMAIN inFlight :
        /\ key[inFlight[k]] = k
        /\ flight[inFlight[k]] \in Airborne \cup {"thrown"}

\* As long as no flight for a key has failed, at most one is in the air, however callers,
\* timeouts and evictions interleave: a timed out leader leaves its flight registered.
SingleFlightUntilFailure ==
    \A k \in Keys : HasFailed(k) \/ Cardinality(FlightsOf(k)) <= 1

\* The caller that launched a flight returns even if its fallback never settles.
LeaderReturns == \A c \in Calls : pc[c] = "leading" ~> pc[c] \in Returned

\* A call launches one flight at most, so this is every fallback there ever is.
FallbacksSettle == <>[](\A c \in Calls : flight[c] # "running")

\* If every fallback settles, no caller waits for ever, whatever fails and whoever retries.
CallsReturn ==
    FallbacksSettle => \A c \in Calls : pc[c] \in {"leading", "joined"} ~> pc[c] \in Returned

----------------------------------------------------------------------------
(* What comments in the code claim, and the code does not do. *)

\* "Set timeout to prevent hanging requests": no caller waits for ever.
NoHangingRequests == \A c \in Calls : pc[c] \in {"leading", "joined"} ~> pc[c] \in Returned

\* "Implements single-flight for cache stampede prevention": one fallback per key at a time.
NoStampede == \A k \in Keys : Cardinality(FlightsOf(k)) <= 1
=============================================================================
