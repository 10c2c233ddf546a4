--------------------------- MODULE CircuitBreaker ---------------------------
(***************************************************************************)
(* What the circuit breaker of the cache promises to its clients, without  *)
(* the clock: requests are admitted unless the breaker is OPEN and has not *)
(* cooled down, enough failures open it, only a successful write closes    *)
(* it again, and it never admits anything before its cool-down.            *)
(* Cache.tla is shown to implement this specification.                     *)
(***************************************************************************)
EXTENDS Naturals

CONSTANT Threshold      \* failures that open the breaker, at least 1

VARIABLES state,        \* CircuitState
          strikes,      \* failures counted so far, up to Threshold
          cooled        \* OPEN for at least the breaker's timeout

vars == <<state, strikes, cooled>>

States == {"CLOSED", "OPEN", "HALF_OPEN"}

TypeOK ==
    /\ state \in States
    /\ strikes \in 0..Threshold
    /\ cooled \in BOOLEAN

Init ==
    /\ state = "CLOSED"
    /\ strikes = 0
    /\ cooled = FALSE

Admits == state = "OPEN" => cooled

(***************************************************************************)
(* An admitted request fails.  After the breaker has opened once, the      *)
(* strikes stay at the threshold until a success, so a single failure in   *)
(* HALF_OPEN opens it again.                                               *)
(***************************************************************************)
Fail ==
    /\ Admits
    /\ strikes' = IF strikes < Threshold THEN strikes + 1 ELSE Threshold
    /\ state' = IF strikes' = Threshold THEN "OPEN" ELSE state
    /\ cooled' = FALSE

\* An admitted write succeeds in a breaker that had opened.
Recover ==
    /\ Admits
    /\ state # "CLOSED"
    /\ state' = "CLOSED"
    /\ strikes' = 0
    /\ cooled' = FALSE

\* A request or the periodic sweep finds the breaker cooled down.
HalfOpen ==
    /\ state = "OPEN"
    /\ cooled
    /\ state' = "HALF_OPEN"
    /\ cooled' = FALSE
    /\ UNCHANGED strikes

Cool ==
    /\ state = "OPEN"
    /\ cooled' = TRUE
    /\ UNCHANGED <<state, strikes>>

\* The process is replaced: a new breaker is built.
Reset ==
    /\ state' = "CLOSED"
    /\ strikes' = 0
    /\ cooled' = FALSE

Next == Fail \/ Recover \/ HalfOpen \/ Cool \/ Reset

Spec == Init /\ [][Next]_vars
=============================================================================
