---------------------------- MODULE FlightValues ----------------------------
(***************************************************************************)
(* The values that the flights of getOrSet bring into the cache, next to   *)
(* other writers.  A value is known by its version: how often the source   *)
(* of the fallbacks was changed before the value was read there.  Each     *)
(* action of SingleFlight goes with what it does to the values.  Whether   *)
(* the cache still has what it was given is left open, as there: any       *)
(* lookup may hit and may miss.                                            *)
(***************************************************************************)
EXTENDS SingleFlight

CONSTANT MaxChanges   \* bound: how often the source of a key is changed

ASSUME FlightValuesAssumption == MaxChanges \in Nat

VARIABLES
    source,    \* the version of each key at the source
    entry,     \* the version the cache was given last for each key
    fetched,   \* the version at the source when a running flight was launched
    crossed    \* history: keys that another client wrote while a fallback was running

values == <<source, entry, fetched, crossed>>

ValuesInit ==
    /\ Init
    /\ source = [k \in Keys |-> 0]
    /\ entry = [k \in Keys |-> 0]
    /\ fetched = [c \in Calls |-> 0]
    /\ crossed = {}

\* The fallback reads the source at this moment or later.
Fetch(c) ==
    /\ Lead(c) \/ Retry(c)
    /\ fetched' = [fetched EXCEPT ![c] = IF flight'[c] = "running" THEN source[key[c]] ELSE 0]
    /\ UNCHANGED <<source, entry, crossed>>

\* What the fallback read since its launch goes to set(), which an open breaker or a failed
\* encryption may make do nothing.
Resolve(c) ==
    /\ FallbackResolves(c)
    /\ \/ \E v \in fetched[c] .. source[key[c]] : entry' = [entry EXCEPT ![key[c]] = v]
       \/ UNCHANGED entry
    /\ fetched' = [fetched EXCEPT ![c] = 0]
    /\ UNCHANGED <<source, crossed>>

Reject(c) ==
    /\ FallbackRejects(c)
    /\ fetched' = [fetched EXCEPT ![c] = 0]
    /\ UNCHANGED <<source, entry, crossed>>

\* Somebody changes what the fallbacks read, and perhaps has the cache forget its value: no
\* deletion, invalidation or clear stops a flight.
Change(k) ==
    /\ source[k] < MaxChanges
    /\ source' = [source EXCEPT ![k] = @ + 1]
    /\ UNCHANGED <<vars, entry, fetched, crossed>>

\* Another client calls set() with what is current.
Write(k) ==
    /\ entry' = [entry EXCEPT ![k] = source[k]]
    /\ crossed' = IF \E c \in Calls : key[c] = k /\ flight[c] = "running"
                  THEN crossed \cup {k} ELSE crossed
    /\ UNCHANGED <<vars, source, fetched>>

ValuesNext ==
    \/ \E c \in Calls :
        \/ Fetch(c) \/ Resolve(c) \/ Reject(c)
        \/ /\ Hit(c) \/ Join(c) \/ Finish(c) \/ Return(c) \/ Timeout(c)
           /\ UNCHANGED values
    \/ \E k \in Keys : Change(k) \/ Write(k)

ValuesSpec == ValuesInit /\ [][ValuesNext]_<<vars, values>>

FairValuesSpec == ValuesSpec /\ Fairness

-----------------------------------------------------------------------------
(***************************************************************************)
(* A flight may store a value that is out of date, for no deletion reaches *)
(* it, but the cache never goes back in time: it is not given a value that *)
(* is older than the one it was given before, forgotten or not, unless a   *)
(* flight for the key failed, and with it single flight, or another client *)
(* wrote while a fallback was running (executeWithSingleFlight: a flight   *)
(* whose leader timed out keeps others from overtaking it).                *)
(***************************************************************************)
NeverOlder ==
    [][\A k \in Keys : entry'[k] >= entry[k] \/ HasFailed(k) \/ k \in crossed]_<<vars, values>>
=============================================================================
