---------------------------- MODULE LocalStorage ----------------------------
(***************************************************************************)
(* LocalStorageService and its LocalCollection: documents kept in memory   *)
(* and written as one JSON file, at once or by a timer.  The module gives  *)
(* the state and one operator per operation; LocalDeposits composes them   *)
(* with the repository that uses the store.                                *)
(*                                                                         *)
(* Timestamps, versions and the JSON text are left out.  Saving is         *)
(* synchronous, so no other step sees a half-written file; a write that    *)
(* fails or a process that dies in it leaves the old file or an unreadable *)
(* one, because the file is written in place.                              *)
(***************************************************************************)
EXTENDS Naturals, Sequences, SequencesExt, PartialFunctions

CONSTANTS
    Names,       \* names of collections
    Ids,         \* ids of documents
    Intervals,   \* the values of autoSaveInterval (ticks); 0 saves at once
    Missing,     \* there is no file yet
    Corrupt      \* the file cannot be parsed

ASSUME LocalStorageAssumption == Intervals \subseteq Nat /\ Missing # Corrupt

VARIABLES
    data,                \* data.collections
    file,                \* the content of the file, Missing or Corrupt
    autoSaveInterval,
    saveTimeout,         \* "null", "armed", or "cleared": the handle of a cancelled timer
    remaining,           \* ticks until an armed timer is due
    unwritten,           \* why the file may differ: a save that "failed", a "clear"
    age                  \* 0, or 1 + the ticks the oldest change waits for its save

storage == <<data, file, autoSaveInterval, saveTimeout, remaining, unwritten, age>>

NoDocuments == [i \in {} |-> i]
createEmptyStorage == [n \in {} |-> n]
createEmptyCollection == [documents |-> NoDocuments, documentCount |-> 0]

_getCollection(n) == IF n \in DOMAIN data THEN data[n] ELSE createEmptyCollection

\* The documents a LocalCollection finds: none when its collection is gone.
Documents(n) == _getCollection(n).documents

loadOrCreateStorage(f) == IF f \in {Missing, Corrupt} THEN createEmptyStorage ELSE f

\* The constructor, in a process that finds the file f.
Construct(f) ==
    /\ data' = loadOrCreateStorage(f)
    /\ file' = f
    /\ autoSaveInterval' \in Intervals
    /\ saveTimeout' = "null"
    /\ remaining' = 0
    /\ unwritten' = {}
    /\ age' = 0

InitStorage ==
    /\ file \in {Missing, Corrupt}
    /\ data = loadOrCreateStorage(file)
    /\ autoSaveInterval \in Intervals
    /\ saveTimeout = "null"
    /\ remaining = 0
    /\ unwritten = {}
    /\ age = 0

\* save() of the memory d.
Save(d) ==
    /\ \/ file' = d /\ unwritten' = {}
       \/ file' \in {file, Corrupt} /\ unwritten' = unwritten \cup {"failed"}
    /\ age' = 0

\* Mutant of scheduleSave: a change postpones the save that is already due.
scheduleSaveDebounced(d) ==
    IF autoSaveInterval = 0
    THEN Save(d) /\ UNCHANGED <<saveTimeout, remaining>>
    ELSE /\ saveTimeout' = "armed"
         /\ remaining' = autoSaveInterval
         /\ age' = IF age = 0 THEN 1 ELSE age
         /\ UNCHANGED <<file, unwritten>>

(***************************************************************************)
(* scheduleSave() after a change to d.  It tests the handle of the timer,  *)
(* which stays set when onModuleDestroy cancels it.                        *)
(***************************************************************************)
scheduleSave(d) ==
    IF autoSaveInterval = 0
    THEN Save(d) /\ UNCHANGED <<saveTimeout, remaining>>
    ELSE /\ IF saveTimeout = "null"
            THEN saveTimeout' = "armed" /\ remaining' = autoSaveInterval
            ELSE UNCHANGED <<saveTimeout, remaining>>
         /\ age' = IF age = 0 THEN 1 ELSE age
         /\ UNCHANGED <<file, unwritten>>

\* The callback of the timer; a failure is only logged.
SaveDue ==
    /\ saveTimeout = "armed" /\ remaining = 0
    /\ saveTimeout' = "null"
    /\ Save(data)
    /\ UNCHANGED <<data, autoSaveInterval, remaining>>

\* A tick of the clock; a timer that is due fires first.
Tick ==
    /\ saveTimeout = "armed" => remaining > 0
    /\ age > 0 /\ saveTimeout # "cleared"
    /\ age' = age + 1
    /\ remaining' = IF saveTimeout = "armed" THEN remaining - 1 ELSE remaining
    /\ UNCHANGED <<data, file, autoSaveInterval, saveTimeout, unwritten>>

\* healthCheck(), or any caller of save().
healthCheck == Save(data) /\ UNCHANGED <<data, autoSaveInterval, saveTimeout, remaining>>

onModuleDestroy ==
    /\ saveTimeout' = IF saveTimeout = "armed" THEN "cleared" ELSE saveTimeout
    /\ Save(data)
    /\ UNCHANGED <<data, autoSaveInterval, remaining>>

-----------------------------------------------------------------------------
(* The operations.  A change is made in memory and then scheduled.         *)

\* Mutant of Change: the save comes before the change.
ChangeSavedFirst(d) == data' = d /\ scheduleSave(data) /\ UNCHANGED autoSaveInterval

Change(d) == data' = d /\ scheduleSave(d) /\ UNCHANGED autoSaveInterval

With(n, documents, count) ==
    [m \in DOMAIN data \cup {n} |->
        IF m = n THEN [documents |-> documents, documentCount |-> count] ELSE data[m]]

collection(n) ==
    /\ n \notin DOMAIN data
    /\ Change(With(n, createEmptyCollection.documents, createEmptyCollection.documentCount))

deleteCollection(n) ==
    /\ n \in DOMAIN data
    /\ Change([m \in DOMAIN data \ {n} |-> data[m]])

clearAll == Change(createEmptyStorage)

\* Mutant of _setDocument: the change is not scheduled to be saved.
_setDocumentUnscheduled(n, i, v) ==
    IF n \in DOMAIN data
    THEN LET documents == [j \in DOMAIN Documents(n) \cup {i} |-> IF j = i THEN v ELSE Documents(n)[j]]
         IN /\ data' = With(n, documents, Cardinality(DOMAIN documents))
            /\ UNCHANGED <<file, autoSaveInterval, saveTimeout, remaining, unwritten, age>>
    ELSE UNCHANGED storage

\* A document of a collection that was deleted is dropped without an error.
_setDocument(n, i, v) ==
    IF n \in DOMAIN data
    THEN LET documents == [j \in DOMAIN Documents(n) \cup {i} |-> IF j = i THEN v ELSE Documents(n)[j]]
         IN Change(With(n, documents, Cardinality(DOMAIN documents)))
    ELSE UNCHANGED storage

_deleteDocument(n, i) ==
    IF i \in DOMAIN Documents(n)
    THEN LET documents == [j \in DOMAIN Documents(n) \ {i} |-> Documents(n)[j]]
         IN Change(With(n, documents, Cardinality(DOMAIN documents)))
    ELSE UNCHANGED storage

\* Mutant of clear: the count of the documents stays.
clearKeepsCount(n) ==
    /\ n \in DOMAIN data
    /\ data' = With(n, NoDocuments, data[n].documentCount)
    /\ unwritten' = unwritten \cup {"clear"}
    /\ UNCHANGED <<file, autoSaveInterval, saveTimeout, remaining, age>>

\* LocalCollection.clear() schedules no save.
clear(n) ==
    /\ n \in DOMAIN data
    /\ data' = With(n, NoDocuments, 0)
    /\ unwritten' = unwritten \cup {"clear"}
    /\ UNCHANGED <<file, autoSaveInterval, saveTimeout, remaining, age>>

getData(n, i) == Documents(n)[i]
exists(n, i) == i \in DOMAIN Documents(n)

\* LocalCollection.update(), without a suspension between what it reads and writes.
update(n, i, u) == exists(n, i) /\ _setDocument(n, i, u ++ getData(n, i))

getAll(n) == SetToSeq(DOMAIN Documents(n))

\* The elements of s that are in S, in their order: the m-th one is where m of them have
\* been found.  It is SelectSeq, in a form that can be reasoned about without recursion.
Select(s, S) ==
    LET found == {p \in DOMAIN s : s[p] \in S}
        position(m) == CHOOSE p \in found : Cardinality({q \in found : q <= p}) = m
    IN [m \in 1..Cardinality(found) |-> s[position(m)]]

\* Mutant of query: the limit is applied before the offset.
queryLimitsFirst(n, where, offset, limit) ==
    LET found == Select(getAll(n), where)
        head == IF limit > 0 /\ limit < Len(found) THEN SubSeq(found, 1, limit) ELSE found
    IN SubSeq(head, offset + 1, Len(head))

\* query(): the ids of the documents the filter accepts (where), in the order of the
\* collection; a limit of 0 is no limit.
query(n, where, offset, limit) ==
    LET found == Select(getAll(n), where)
        rest == SubSeq(found, offset + 1, Len(found))
    IN IF limit > 0 /\ limit < Len(rest) THEN SubSeq(rest, 1, limit) ELSE rest

\* count() without a filter trusts the stored count.
count(n) == _getCollection(n).documentCount
=============================================================================
