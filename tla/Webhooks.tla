------------------------------ MODULE Webhooks ------------------------------
(***************************************************************************)
(* WebhooksService over CacheService: deliveries of UnionBank events, each *)
(* of which is checked against a marker in the cache, routed to its        *)
(* handler and marked.  An event stands for its marker's key, which has a  *)
(* prefix of its own for generic webhooks and for autoposts.               *)
(*                                                                         *)
(* A delivery is suspended once, while it awaits exists(); from there to   *)
(* the stored marker the code runs without yielding.  The awaited promise  *)
(* is already settled, so only deliveries that the server takes up in the  *)
(* same turn of the event loop interleave there.  The sender may deliver   *)
(* an event any number of times.                                           *)
(*                                                                         *)
(* `routed', `raced' and `lost' are history: no code reads them.           *)
(***************************************************************************)
EXTENDS Integers, FiniteSets

CONSTANTS
    Events,             \* what UnionBank may deliver
    Autoposts,          \* those of them that are autopost notifications
    Deliveries,         \* requests the server may be handling at a time
    WEBHOOK_TTL,        \* time to live of a marker
    MAX_ENTRIES, EVICTION_DIVISOR, CIRCUIT_BREAKER_THRESHOLD,
    CIRCUIT_BREAKER_TIMEOUT, CLEANUP_INTERVAL, MaxTime

ASSUME WebhooksAssumption ==
    /\ Autoposts \subseteq Events
    /\ WEBHOOK_TTL \in Nat \ {0}
    /\ CLEANUP_INTERVAL \in Nat \ {0}

VARIABLES
    now, cache, breaker, nextSweep,     \* the cache service
    pc,         \* a delivery is "idle", or "checked": exists() has answered false
    event,      \* the event a delivery carries
    routed,     \* when each event was last routed
    raced,      \* deliveries whose event another one routed after they had checked
    lost        \* routed events whose marker was evicted or went down with the process

C == INSTANCE Cache WITH
    Keys <- Events, Prefixes <- {}, Ttls <- {WEBHOOK_TTL}, Versions <- {1}

cacheVars == <<now, cache, breaker, nextSweep>>
deliveryVars == <<pc, event>>
history == <<routed, raced, lost>>
vars == <<cacheVars, deliveryVars, history>>

NEVER == 0

Init ==
    /\ C!Init
    /\ pc = [d \in Deliveries |-> "idle"]
    /\ event \in [Deliveries -> Events]
    /\ routed = [e \in Events |-> NEVER]
    /\ raced = {}
    /\ lost = {}

\* The last routing of an event is not older than the marker's time to live.
Recent(e) == routed[e] # NEVER /\ now <= routed[e] + WEBHOOK_TTL

----------------------------------------------------------------------------

\* Mutant of Receive: nobody asks whether the event is a duplicate.
ReceiveUnchecked(d, e) ==
    /\ pc[d] = "idle"
    /\ C!Exists(e)
    /\ event' = [event EXCEPT ![d] = e]
    /\ pc' = [pc EXCEPT ![d] = "checked"]
    /\ UNCHANGED history

\* A request arrives and exists() is asked; a duplicate is answered "already processed".
Receive(d, e) ==
    /\ pc[d] = "idle"
    /\ C!Exists(e)
    /\ IF C!Live(e)
       THEN UNCHANGED deliveryVars
       ELSE /\ event' = [event EXCEPT ![d] = e]
            /\ pc' = [pc EXCEPT ![d] = "checked"]
    /\ UNCHANGED history

\* Mutants of MarkProcessed: the marker goes under another key than exists() asks for; it is
\* encrypted, which may fail.
MarkElsewhere(e) == C!Set("unprefixed", WEBHOOK_TTL, 1, FALSE)

MarkEncrypted(e) == C!Set(e, WEBHOOK_TTL, 1, TRUE)

MarkProcessed(e) == C!Set(e, WEBHOOK_TTL, 1, FALSE)

\* The event is routed to its handler, which succeeds, and marked.
Process(d) ==
    LET e == event[d] IN
    /\ pc[d] = "checked"
    /\ MarkProcessed(e)
    /\ pc' = [pc EXCEPT ![d] = "idle"]
    /\ routed' = [routed EXCEPT ![e] = now]
    /\ raced' = (raced \cup {o \in Deliveries : pc[o] = "checked" /\ event[o] = e}) \ {d}
    /\ lost' = (lost \cup {o \in Events : C!Live(o) /\ o \notin DOMAIN cache'}) \ {e}
    /\ UNCHANGED event

\* Mutant of Fail: the event is marked although its handler threw.
FailMarks(d) ==
    /\ pc[d] = "checked"
    /\ event[d] \notin Autoposts
    /\ MarkProcessed(event[d])
    /\ pc' = [pc EXCEPT ![d] = "idle"]
    /\ raced' = raced \ {d}
    /\ UNCHANGED <<event, routed, lost>>

\* The handler of a generic webhook throws: the event stays unmarked, the answer is 200.
Fail(d) ==
    /\ pc[d] = "checked"
    /\ event[d] \notin Autoposts
    /\ pc' = [pc EXCEPT ![d] = "idle"]
    /\ raced' = raced \ {d}
    /\ UNCHANGED <<cacheVars, event, routed, lost>>

\* The process stops and starts: markers and requests in progress are gone.
Restart ==
    /\ C!Restart
    /\ pc' = [d \in Deliveries |-> "idle"]
    /\ raced' = {}
    /\ lost' = lost \cup {e \in Events : C!Live(e)}
    /\ UNCHANGED <<event, routed>>

CacheTimers == (C!CleanupExpired \/ C!Tick) /\ UNCHANGED <<deliveryVars, history>>

Next ==
    \/ \E d \in Deliveries :
          \/ \E e \in Events : Receive(d, e)
          \/ Process(d)
          \/ Fail(d)
    \/ Restart
    \/ CacheTimers

Spec == Init /\ [][Next]_vars

----------------------------------------------------------------------------
(* Properties *)

\* Every variable ranges over what the code can store in it; every entry of the cache is
\* the marker of an event.
TypeOK ==
    /\ C!TypeOK
    /\ pc \in [Deliveries -> {"idle", "checked"}]
    /\ event \in [Deliveries -> Events]
    /\ routed \in [Events -> Nat]
    /\ raced \subseteq {d \in Deliveries : pc[d] = "checked"}
    /\ lost \subseteq Events

\* An event that would be answered "already processed" has been handled successfully, within
\* the time to live of its marker: no failed or half-done delivery swallows its redelivery.
DuplicatesWereRouted == \A e \in Events : C!Live(e) => Recent(e)

\* A routed event keeps its marker for the whole time to live, whatever the sweep, the
\* breaker and the writes of other events do, unless the marker is evicted or the process
\* stops: the cache never drops the marker's write in silence.
RoutedStaysMarked == \A e \in Events : Recent(e) => C!Live(e) \/ e \in lost

\* A delivery that is about to route an event once more within the time to live either
\* checked before the other one had routed it, or found that the marker had been lost.
RepeatsAreExplained ==
    \A d \in Deliveries :
        pc[d] = "checked" /\ Recent(event[d]) => d \in raced \/ event[d] \in lost
=============================================================================
