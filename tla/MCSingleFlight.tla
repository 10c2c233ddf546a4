--------------------------- MODULE MCSingleFlight ---------------------------
(* The instances of SingleFlight that TLC checks. *)
EXTENDS SingleFlight

CONSTANTS c1, c2, c3, k1, k2

MCCalls == {c1, c2, c3}
MCKeys == {k1, k2}

\* All calls for one key, or one of them for another; the rest are these up to renaming.
MCWorkloads == {[c \in MCCalls |-> k1], [c \in MCCalls |-> IF c = c3 THEN k2 ELSE k1]}
=============================================================================
