-------------------------- MODULE PartialFunctions --------------------------
(***************************************************************************)
(* Objects with optional fields, and Maps, as functions.  The two          *)
(* operators are :> and @@ of the module TLC with definitions that a proof *)
(* can expand.                                                             *)
(***************************************************************************)

\* The one entry of x, whose value is v.
Entry(x, v) == [y \in {x} |-> v]

\* { ...g, ...f }: an entry of f replaces that of g.
f ++ g == [x \in DOMAIN f \cup DOMAIN g |-> IF x \in DOMAIN f THEN f[x] ELSE g[x]]
=============================================================================
