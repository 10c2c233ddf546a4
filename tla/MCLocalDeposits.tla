--------------------------- MODULE MCLocalDeposits ---------------------------
(* The instance of LocalDeposits that TLC checks. *)
EXTENDS LocalDeposits

CONSTANTS i1, i2, c1, c2

MCNames == {"deposits"}
MCIds == {i1, i2}
MCCalls == {c1, c2}
MCIntervals == {0, 1}

\* The two fields that updateStatus writes together, each alone.
MCUpdates == {Entry("status", "COMPLETED"), Entry("completedAt", "set")}
MCNewStatuses == {"COMPLETED"}

\* Two overlapping calls, or two deposits, but not both at once; at most one deposit of which a
\* property says nothing (its calls did overlap, or it was asked to be completed without a time),
\* and for one of these reasons; at most one reason for a stale file.
Small ==
    /\ Cardinality({c \in Calls : Active(c)}) + Cardinality(DOMAIN Current) <= 3
    /\ Cardinality(tainted) + Cardinality(undated) <= 1
    /\ Cardinality(unwritten) <= 1

Symmetry == Permutations(MCIds) \cup Permutations(MCCalls)
=============================================================================
