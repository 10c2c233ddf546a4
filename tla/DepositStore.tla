---------------------------- MODULE DepositStore ----------------------------
(***************************************************************************)
(* What the deposits promise whoever reads them: a deposit begins pending, *)
(* changes by whole updates, each an atomic merge into what is there, and  *)
(* once removed it never comes back.                                       *)
(***************************************************************************)
EXTENDS PartialFunctions

CONSTANTS Ids, Updates

VARIABLES
    deposits,   \* the deposits there are: their fields, by id
    removed     \* ids of deposits there were

Init == deposits = [i \in {} |-> i] /\ removed = {}

Create(i) ==
    /\ i \notin DOMAIN deposits \cup removed
    /\ deposits' = Entry(i, Entry("status", "PENDING")) ++ deposits
    /\ UNCHANGED removed

Merge(i, u) ==
    /\ i \in DOMAIN deposits
    /\ deposits' = [deposits EXCEPT ![i] = u ++ @]
    /\ UNCHANGED removed

Remove(i) ==
    /\ deposits' = [j \in DOMAIN deposits \ {i} |-> deposits[j]]
    /\ removed' = removed \cup ({i} \cap DOMAIN deposits)

Next == \E i \in Ids : Create(i) \/ Remove(i) \/ \E u \in Updates : Merge(i, u)

Spec == Init /\ [][Next]_<<deposits, removed>>
=============================================================================
