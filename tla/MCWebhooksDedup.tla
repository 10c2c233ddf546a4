-------------------------- MODULE MCWebhooksDedup --------------------------
(***************************************************************************)
(* Webhooks with a history variable that records the events routed again   *)
(* within the time to live of their marker, for the claim the              *)
(* documentation makes about them.                                         *)
(***************************************************************************)
EXTENDS MCWebhooks

VARIABLE repeated   \* events routed twice within WEBHOOK_TTL

dedupVars == <<vars, repeated>>

\* One request at a time: no overlap of deliveries is needed.
OneDelivery == {d1}

DedupInit == Init /\ repeated = {}

DedupNext ==
    \/ \E d \in Deliveries :
          /\ Process(d)
          /\ repeated' = IF Recent(event[d]) THEN repeated \cup {event[d]} ELSE repeated
    \/ /\ \/ \E d \in Deliveries : Fail(d) \/ \E e \in Events : Receive(d, e)
          \/ Restart
          \/ CacheTimers
       /\ UNCHANGED repeated

DedupSpec == DedupInit /\ [][DedupNext]_dedupVars

\* "Notifications with the same transactionId and senderRefId are deduplicated (Redis key,
\* 7-day TTL)": within that time, however often an autopost is delivered, it is routed once.
AutopostsRoutedOnce == repeated \cap Autoposts = {}
=============================================================================
