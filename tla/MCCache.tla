------------------------------ MODULE MCCache ------------------------------
(* The instance of Cache that TLC checks. *)
EXTENDS Cache

CONSTANTS k1, k2, k3

MCKeys == {k1, k2, k3}
MCPrefixes == {{k1, k2}}
=============================================================================
