---------------------------- MODULE LocalDeposits ----------------------------
(***************************************************************************)
(* DepositLocalRepository on top of LocalStorage: deposits in a collection *)
(* of the local store.  A call runs in microtasks, so calls started in the *)
(* same turn of the event loop overlap, in any order here; timers and      *)
(* callers of the store itself wait for the turn to end; a crash does not. *)
(* A deposit is the partial function of its fields that change after its   *)
(* creation.                                                               *)
(***************************************************************************)
EXTENDS LocalStorage

CONSTANTS
    Collection,   \* DEPOSITS_COLLECTION
    Calls,        \* calls of the repository under way
    Updates,      \* the UpdateDepositData of callers of update
    NewStatuses   \* the statuses callers of updateStatus give

VARIABLES
    opened,   \* the repository was constructed: it holds a handle of its collection
    calls,    \* each call: idle, or where it is suspended with what it read
    ideal,    \* history: the deposits if every update were atomic
    tainted,  \* history: deposits with overlapping calls, no longer in ideal
    undated   \* history: deposits that somebody asked to complete without a time

vars == <<storage, opened, calls, ideal, tainted, undated>>

Fields == {"status", "externalReferenceId", "completedAt"}

Deposits == {Entry("status", status) ++ [field \in fields |-> "set"] :
    status \in {"PENDING"} \cup NewStatuses, fields \in SUBSET (Fields \ {"status"})}

\* An UpdateDepositData: any of its fields, a status without the time that belongs to it too.
UpdateData ==
    {u \in UNION {[fields -> NewStatuses \cup {"set"}] : fields \in SUBSET Fields} :
        \A field \in DOMAIN u : u[field] \in IF field = "status" THEN NewStatuses ELSE {"set"}}

\* It completes a deposit and says nothing of the time.
Undated(u) == "status" \in DOMAIN u /\ u["status"] = "COMPLETED" /\ "completedAt" \notin DOMAIN u

\* What memory and file may hold; what it promises to hold.
Maps(names, values) == UNION {[some -> values] : some \in SUBSET names}
Storages == Maps(Names, [documents : Maps(Ids, Deposits), documentCount : 0 .. Cardinality(Ids)])
Memories == Maps(Names, Maps(Ids, Deposits))

ASSUME LocalDepositsAssumption ==
    /\ IsFiniteSet(Ids)
    /\ Collection \in Names
    /\ Updates \subseteq UpdateData
    /\ Missing \notin Storages
    /\ Corrupt \notin Storages \cup Memories

Idle == [at |-> "idle"]
Active(c) == calls[c] # Idle
EndOfTurn == \A c \in Calls : ~Active(c)
Current == Documents(Collection)

\* The deposits the calls S work on.
Touched(S) == {calls[c].id : c \in {d \in S : Active(d)}}

Begin(c, call) ==
    /\ ~Active(c) /\ opened
    /\ calls' = [calls EXCEPT ![c] = call]
    /\ tainted' = tainted \cup ({call.id} \cap Touched(Calls \ {c}))
    /\ ideal' = [i \in DOMAIN ideal \ tainted' |-> ideal[i]]
    /\ UNCHANGED <<storage, opened>>

End(c) == calls' = [calls EXCEPT ![c] = Idle] /\ UNCHANGED <<opened, tainted, undated>>

\* A caller of its own accord asks for the updates u of the deposit i.
Ask(i, u) == undated' = IF Undated(u) THEN undated \cup {i} ELSE undated

Init ==
    /\ InitStorage
    /\ opened = FALSE
    /\ calls = [c \in Calls |-> Idle]
    /\ ideal = NoDocuments
    /\ tainted = {}
    /\ undated = {}

\* The constructor; or anyone who asks for the collection again.
Open ==
    /\ opened' = TRUE
    /\ IF Collection \in DOMAIN data THEN UNCHANGED storage ELSE collection(Collection)
    /\ UNCHANGED <<calls, ideal, tainted, undated>>

\* create() has no suspension before its write.
Create(i) ==
    LET deposit == Entry("status", "PENDING")
    IN /\ opened
       /\ i \notin DOMAIN Current \cup DOMAIN ideal \cup tainted
       /\ \A c \in Calls : Active(c) => calls[c].id # i
       /\ _setDocument(Collection, i, deposit)
       /\ ideal' = IF Collection \in DOMAIN data THEN Entry(i, deposit) ++ ideal ELSE ideal
       /\ UNCHANGED <<opened, calls, tainted, undated>>

\* Mutant of updateStatus: the time of the completion is forgotten.
updateStatusOnly(status) == Entry("status", status)

updateStatus(status) ==
    Entry("status", status) ++ (IF status = "COMPLETED" THEN Entry("completedAt", "set") ELSE <<>>)

findById(i) == getData(Collection, i)

\* The ids of the deposits of a status, at most limit of them.
findByStatus(status, limit) ==
    query(Collection, {i \in DOMAIN Current : Current[i]["status"] = status}, 0, limit)

\* update() reads the deposit; a missing one ends the call.
ReadForUpdate(c, i, u) ==
    /\ exists(Collection, i)
    /\ Begin(c, [at |-> "update", id |-> i, updates |-> u, read |-> findById(i)])

Update(c, i, u) == ReadForUpdate(c, i, u) /\ Ask(i, u)

\* updateStatus() calls update().
UpdateStatus(c, i, status) == ReadForUpdate(c, i, updateStatus(status)) /\ UNCHANGED undated

\* Mutant of WriteUpdate: fields that are not updated are not written back.
WriteUpdateOnly(c) ==
    /\ calls[c].at = "update"
    /\ LET i == calls[c].id
           u == calls[c].updates
       IN /\ _setDocument(Collection, i, u)
          /\ ideal' = [j \in DOMAIN ideal |-> IF j = i THEN u ++ ideal[j] ELSE ideal[j]]
    /\ End(c)

\* Mutant of WriteUpdate: what was read overwrites the updates.
WriteUpdateSwapped(c) ==
    /\ calls[c].at = "update"
    /\ LET i == calls[c].id
           u == calls[c].updates
       IN /\ _setDocument(Collection, i, calls[c].read ++ u)
          /\ ideal' = [j \in DOMAIN ideal |-> IF j = i THEN u ++ ideal[j] ELSE ideal[j]]
    /\ End(c)

\* update() writes back the whole deposit it read, with its updates.
WriteUpdate(c) ==
    /\ calls[c].at = "update"
    /\ LET i == calls[c].id
           u == calls[c].updates
       IN /\ _setDocument(Collection, i, u ++ calls[c].read)
          /\ ideal' = [j \in DOMAIN ideal |-> IF j = i THEN u ++ ideal[j] ELSE ideal[j]]
    /\ End(c)

\* delete() asks whether the deposit exists, then deletes it.
FindForDelete(c, i) ==
    exists(Collection, i) /\ Begin(c, [at |-> "delete", id |-> i]) /\ UNCHANGED undated

Delete(c) ==
    /\ calls[c].at = "delete"
    /\ _deleteDocument(Collection, calls[c].id)
    /\ ideal' = [j \in DOMAIN ideal \ {calls[c].id} |-> ideal[j]]
    /\ End(c)

\* Somebody else updates a document of the same collection.
Patch(i, u) ==
    /\ update(Collection, i, u)
    /\ Ask(i, u)
    /\ tainted' = tainted \cup ({i} \cap Touched(Calls))
    /\ ideal' = [j \in DOMAIN ideal \ tainted' |-> IF j = i THEN u ++ ideal[j] ELSE ideal[j]]
    /\ UNCHANGED <<opened, calls>>

\* A step that empties the store under the calls that are under way.
Emptied ==
    /\ tainted' = tainted \cup Touched(Calls)
    /\ ideal' = NoDocuments
    /\ UNCHANGED <<opened, calls, undated>>

ClearAll == opened /\ clear(Collection) /\ Emptied
DeleteCollection == deleteCollection(Collection) /\ Emptied
ClearStorage == clearAll /\ Emptied

\* What the store does between two turns, or on a call of its own.
StoreStep ==
    /\ SaveDue \/ Tick \/ healthCheck \/ onModuleDestroy
    /\ UNCHANGED <<opened, calls, ideal, tainted, undated>>

\* The process dies, perhaps in the middle of a save, and starts again.
Restart ==
    /\ \E f \in {file, Corrupt} : Construct(f)
    /\ opened' = FALSE
    /\ calls' = [c \in Calls |-> Idle]
    /\ ideal' = IF Collection \in DOMAIN data' THEN data'[Collection].documents ELSE NoDocuments
    /\ tainted' = {}
    /\ UNCHANGED undated

Next ==
    \/ Open
    \/ \E i \in Ids :
        \/ Create(i)
        \/ \E c \in Calls :
            \/ \E u \in Updates : Update(c, i, u)
            \/ \E status \in NewStatuses : UpdateStatus(c, i, status)
            \/ FindForDelete(c, i)
        \/ \E u \in Updates : Patch(i, u)
    \/ \E c \in Calls : WriteUpdate(c) \/ Delete(c)
    \/ ClearAll \/ DeleteCollection \/ ClearStorage
    \/ EndOfTurn /\ StoreStep
    \/ Restart

Spec == Init /\ [][Next]_vars

-----------------------------------------------------------------------------
TypeOK ==
    /\ DOMAIN data \subseteq Names
    /\ \A n \in DOMAIN data :
        /\ DOMAIN data[n].documents \subseteq Ids
        /\ \A i \in DOMAIN data[n].documents : data[n].documents[i] \in Deposits
    /\ saveTimeout \in {"null", "armed", "cleared"}
    /\ remaining \in 0..autoSaveInterval
    /\ unwritten \subseteq {"failed", "clear"}
    /\ age \in Nat
    /\ tainted \cap DOMAIN ideal = {}
    /\ undated \subseteq Ids

(***************************************************************************)
(* count() answers from a counter kept beside the documents, in memory and *)
(* across restarts from the file: it never differs from what getAll finds. *)
(***************************************************************************)
CountMatches == \A n \in Names : count(n) = Len(getAll(n))

(***************************************************************************)
(* What a crash may lose: the file gives back the memory unless a save is  *)
(* due, the last one failed, clear() ran (it schedules none), or a timer   *)
(* that was cancelled at shutdown keeps later changes from being saved.    *)
(***************************************************************************)
StaleFileIsExplained ==
    loadOrCreateStorage(file) # data =>
        saveTimeout = "armed" \/ unwritten # {} \/ saveTimeout = "cleared"

(***************************************************************************)
(* autoSaveInterval bounds how long a change waits for the attempt to save *)
(* it, however many changes follow: saves are throttled, not postponed.    *)
(***************************************************************************)
SavedInTime == saveTimeout # "cleared" => age <= autoSaveInterval + 1

(***************************************************************************)
(* An update is an atomic merge, and a deletion or creation final, for     *)
(* every deposit whose calls did not overlap, whatever happened to the     *)
(* collection, the timers and the process in between.                      *)
(***************************************************************************)
AtomicUnlessOverlapped ==
    [i \in DOMAIN Current \ tainted |-> Current[i]] = ideal

(***************************************************************************)
(* A deposit is found completed without the time of its completion only if *)
(* a caller of update() completed it so: no overlap, lost update, crash or *)
(* start from an older file takes the time that updateStatus sets away.    *)
(***************************************************************************)
CompletedHasTime ==
    \A i \in DOMAIN Current \ undated :
        Current[i]["status"] = "COMPLETED" => "completedAt" \in DOMAIN Current[i]

(***************************************************************************)
(* All deposits of a status, which a limit of 0 asks for, and paging       *)
(* through them with a limit and growing offsets agree: every deposit of   *)
(* the status exactly once, and then nothing.                              *)
(***************************************************************************)
PagesTile ==
    \A status \in {Current[i]["status"] : i \in DOMAIN Current} :
        LET ofStatus == {i \in DOMAIN Current : Current[i]["status"] = status}
            all == findByStatus(status, 0)
            Page(k) == query(Collection, ofStatus, k, 1)
        IN /\ Len(all) = Cardinality(ofStatus)
           /\ {all[k] : k \in 1..Cardinality(ofStatus)} = ofStatus
           /\ \A k \in 1..Cardinality(ofStatus) : Page(k - 1) = <<all[k]>>
           /\ Page(Cardinality(ofStatus)) = <<>>

Contents(d) == [n \in DOMAIN d |-> d[n].documents]

Store == INSTANCE PersistentStore WITH
    Values <- Deposits,
    Garbage <- Corrupt,
    memory <- Contents(data),
    disk <- IF file = Corrupt THEN Corrupt ELSE Contents(loadOrCreateStorage(file))

(***************************************************************************)
(* The store is a persistent map: one change at a time, a file that is a   *)
(* whole content of the memory or garbage, restarts from the file alone.   *)
(***************************************************************************)
ImplementsPersistentStore == Store!Spec
=============================================================================
