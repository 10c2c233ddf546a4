---------------------------- MODULE MCBankClient ----------------------------
(* The instance of BankClient that TLC checks. *)
EXTENDS BankClient, TLC

CONSTANTS c1, c2, c3

MCCalls == {c1, c2, c3}

MCSymmetry == Permutations(MCCalls)
=============================================================================
