--------------------------- MODULE PersistentStore ---------------------------
(***************************************************************************)
(* What a store kept in memory and written out as one file promises: every *)
(* step changes one thing in memory, the file only ever becomes the whole  *)
(* content of the memory or garbage, and a restart begins with the file,   *)
(* or with nothing when it cannot be read.                                 *)
(***************************************************************************)
EXTENDS PartialFunctions

CONSTANTS Names, Ids, Values, Garbage

VARIABLES
    memory,   \* collections by name; a collection maps ids to values
    disk      \* the memory as last written, or Garbage

Nothing == [n \in {} |-> n]

Init == memory = Nothing /\ disk \in {Nothing, Garbage}

With(n, documents) == Entry(n, documents) ++ memory

Without(f, x) == [y \in DOMAIN f \ {x} |-> f[y]]

Change ==
    \/ UNCHANGED memory
    \/ memory' = Nothing
    \/ \E n \in Names \ DOMAIN memory : memory' = With(n, Nothing)
    \/ \E n \in DOMAIN memory :
        \/ memory' = Without(memory, n)
        \/ memory' = With(n, Nothing)
        \/ \E i \in DOMAIN memory[n] : memory' = With(n, Without(memory[n], i))
        \/ \E i \in Ids, v \in Values : memory' = With(n, Entry(i, v) ++ memory[n])

\* A change, the write of the memory it leaves, or both in one step.
Work == disk' \in {disk, memory', Garbage} /\ Change

Recover ==
    /\ disk' \in {disk, Garbage}
    /\ memory' = IF disk' = Garbage THEN Nothing ELSE disk'

Spec == Init /\ [][Work \/ Recover]_<<memory, disk>>
=============================================================================
