------------------------------ MODULE MCDeposits ------------------------------
(* The instance of Deposits that TLC checks. *)
EXTENDS Deposits, TLC

CONSTANTS i1, i2, r1, r2, r3, r4

MCIds == {i1, i2}
MCRequests == {r1, r2, r3, r4}

Symmetry == Permutations(MCIds) \cup Permutations(MCRequests)
=============================================================================
