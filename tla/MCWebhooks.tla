----------------------------- MODULE MCWebhooks -----------------------------
(* The instance of Webhooks that TLC checks. *)
EXTENDS Webhooks, TLC

CONSTANTS generic1, generic2, autopost, d1, d2

MCEvents == {generic1, generic2, autopost}
MCAutoposts == {autopost}
MCDeliveries == {d1, d2}

MCSymmetry == Permutations({generic1, generic2}) \cup Permutations(MCDeliveries)
=============================================================================
