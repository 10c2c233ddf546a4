--------------------------- MODULE MCFlightValues ---------------------------
(* The instance of FlightValues that TLC checks. *)
EXTENDS FlightValues, MCSingleFlight
=============================================================================
