------------------------ MODULE LocalDepositsProofs ------------------------
(***************************************************************************)
(* Proofs about LocalDeposits for every set of ids, collections, calls and *)
(* updates and every save interval.  The invariant has three parts.        *)
(* StorageInv: memory and file are well formed (IsStorage, IsFile), the    *)
(* timer is as old as what it waits for (Timer), and only a timer or a     *)
(* recorded reason lets the file differ from the memory (Written).         *)
(* CallsInv: an update writes back a whole deposit, which is the stored    *)
(* one unless calls overlapped (ReadInv), and overlapping calls are known. *)
(* DatedInv: whatever memory, file and calls hold as completed has its     *)
(* time, but for the deposits somebody asked to complete without one.      *)
(* Steps on documents go through Replaced, so that the parts, and the      *)
(* refinement of PersistentStore, are shown once per kind of change.       *)
(***************************************************************************)
EXTENDS LocalDeposits, FiniteSetTheorems, SequenceTheorems, TLAPS

-----------------------------------------------------------------------------
(* Deposits and their updates. *)

\* A deposit has a status and some of the other fields.
LEMMA DepositsAre ==
    ASSUME NEW d
    PROVE  d \in Deposits <=>
             /\ d = [x \in DOMAIN d |-> d[x]]
             /\ "status" \in DOMAIN d /\ DOMAIN d \subseteq Fields
             /\ d["status"] \in {"PENDING"} \cup NewStatuses
             /\ \A x \in DOMAIN d \ {"status"} : d[x] = "set"
<1>1. ASSUME NEW status, NEW fields \in SUBSET (Fields \ {"status"})
      PROVE  LET e == Entry("status", status) ++ [field \in fields |-> "set"]
             IN  /\ e = [x \in DOMAIN e |-> e[x]]
                 /\ DOMAIN e = {"status"} \cup fields
                 /\ e["status"] = status
                 /\ \A x \in fields : e[x] = "set"
  BY DEF Entry, ++
<1>2. ASSUME d \in Deposits
      PROVE  /\ d = [x \in DOMAIN d |-> d[x]]
             /\ "status" \in DOMAIN d /\ DOMAIN d \subseteq Fields
             /\ d["status"] \in {"PENDING"} \cup NewStatuses
             /\ \A x \in DOMAIN d \ {"status"} : d[x] = "set"
  <2>1. PICK status \in {"PENDING"} \cup NewStatuses, fields \in SUBSET (Fields \ {"status"}) :
          d = Entry("status", status) ++ [field \in fields |-> "set"]
    BY <1>2 DEF Deposits
  <2> DEFINE e == Entry("status", status) ++ [field \in fields |-> "set"]
  <2>2. /\ e = [x \in DOMAIN e |-> e[x]] /\ DOMAIN e = {"status"} \cup fields
        /\ e["status"] = status /\ \A x \in fields : e[x] = "set"
    BY <1>1
  <2> HIDE DEF e
  <2>3. d = e /\ "status" \in Fields
    BY <2>1 DEF Fields, e
  <2>4. QED
    BY <2>2, <2>3
<1>3. ASSUME d = [x \in DOMAIN d |-> d[x]],
             "status" \in DOMAIN d, DOMAIN d \subseteq Fields,
             d["status"] \in {"PENDING"} \cup NewStatuses,
             \A x \in DOMAIN d \ {"status"} : d[x] = "set"
      PROVE  d \in Deposits
  <2> DEFINE fields == DOMAIN d \ {"status"}
             e == Entry("status", d["status"]) ++ [field \in fields |-> "set"]
  <2>1. fields \in SUBSET (Fields \ {"status"})
    BY <1>3
  <2>2. /\ e = [x \in DOMAIN e |-> e[x]] /\ DOMAIN e = {"status"} \cup fields
        /\ e["status"] = d["status"] /\ \A x \in fields : e[x] = "set"
    BY <1>1, <2>1
  <2> HIDE DEF e
  <2>3. DOMAIN e = DOMAIN d /\ \A x \in DOMAIN d : e[x] = d[x]
    BY <1>3, <2>2
  <2>4. d = e
    BY <1>3, <2>2, <2>3
  <2>5. QED
    BY <1>3, <2>1, <2>4 DEF Deposits, e
<1>4. QED
  BY <1>2, <1>3

\* An update gives some of the fields a value.
LEMMA UpdateDataAre ==
    ASSUME NEW u \in UpdateData
    PROVE  /\ u = [x \in DOMAIN u |-> u[x]] /\ DOMAIN u \subseteq Fields
           /\ \A x \in DOMAIN u \ {"status"} : u[x] = "set"
           /\ "status" \in DOMAIN u => u["status"] \in NewStatuses
BY DEF UpdateData

\* What is read or found, with updates, is a deposit.
LEMMA UpdatedIsDeposit ==
    ASSUME NEW u \in UpdateData, NEW d \in Deposits
    PROVE  u ++ d \in Deposits
<1> DEFINE e == u ++ d
<1>1. /\ e = [x \in DOMAIN e |-> e[x]] /\ DOMAIN e = DOMAIN u \cup DOMAIN d
      /\ \A x \in DOMAIN u : e[x] = u[x]
      /\ \A x \in DOMAIN d \ DOMAIN u : e[x] = d[x]
  BY DEF ++
<1> HIDE DEF e
<1>2. e \in Deposits
  BY <1>1, DepositsAre, UpdateDataAre
<1>3. QED
  BY <1>2 DEF e

\* What updateStatus passes on is an update, with the time of a completion.
LEMMA StatusIsUpdate ==
    ASSUME NEW status \in NewStatuses
    PROVE  updateStatus(status) \in UpdateData /\ ~Undated(updateStatus(status))
<1> DEFINE u == updateStatus(status)
<1>1. /\ u = [x \in DOMAIN u |-> u[x]]
      /\ DOMAIN u = IF status = "COMPLETED" THEN {"status", "completedAt"} ELSE {"status"}
      /\ u["status"] = status
      /\ "completedAt" \in DOMAIN u => u["completedAt"] = "set"
  BY DEF updateStatus, Entry, ++
<1> HIDE DEF u
<1>2. DOMAIN u \in SUBSET Fields /\ \A x \in DOMAIN u \ {"status"} : u[x] = "set"
  BY <1>1 DEF Fields
<1>3. u \in [DOMAIN u -> NewStatuses \cup {"set"}]
  BY <1>1, <1>2
<1>4. u \in UNION {[fields -> NewStatuses \cup {"set"}] : fields \in SUBSET Fields}
  BY <1>2, <1>3
<1>5. \A x \in DOMAIN u : u[x] \in IF x = "status" THEN NewStatuses ELSE {"set"}
  BY <1>1, <1>2
<1>6. ~Undated(u)
  BY <1>1 DEF Undated
<1>7. QED
  BY <1>4, <1>5, <1>6 DEF UpdateData, u

\* A deposit as create() stores it.
LEMMA PendingIsDeposit == Entry("status", "PENDING") \in Deposits
BY DepositsAre DEF Entry, Fields

-----------------------------------------------------------------------------
(* The store. *)

\* Documents of a collection, each of them a deposit.
AreDocuments(documents) ==
    /\ documents = [i \in DOMAIN documents |-> documents[i]] /\ DOMAIN documents \subseteq Ids
    /\ \A i \in DOMAIN documents : documents[i] \in Deposits

IsStorage(d) ==
    /\ d \in Storages
    /\ \A n \in DOMAIN d :
        /\ AreDocuments(d[n].documents)
        /\ d[n].documentCount = Cardinality(DOMAIN d[n].documents)

\* Membership in the partial functions from some names to values.
LEMMA MapsAre ==
    ASSUME NEW names, NEW values, NEW f
    PROVE  f \in Maps(names, values) <=>
             /\ f = [x \in DOMAIN f |-> f[x]]
             /\ DOMAIN f \subseteq names
             /\ \A x \in DOMAIN f : f[x] \in values
<1>1. ASSUME f \in Maps(names, values)
      PROVE  f = [x \in DOMAIN f |-> f[x]] /\ DOMAIN f \subseteq names /\ \A x \in DOMAIN f : f[x] \in values
  BY <1>1 DEF Maps
<1>2. ASSUME f = [x \in DOMAIN f |-> f[x]], DOMAIN f \in SUBSET names, \A x \in DOMAIN f : f[x] \in values
      PROVE  f \in Maps(names, values)
  <2>1. f \in [DOMAIN f -> values]
    BY <1>2
  <2>2. QED
    BY <1>2, <2>1 DEF Maps
<1>3. QED
  BY <1>1, <1>2

\* A collection of well-formed documents is within the bounds of a storage.
LEMMA CollectionIs ==
    ASSUME NEW documents, AreDocuments(documents)
    PROVE  /\ documents \in Maps(Ids, Deposits)
           /\ Cardinality(DOMAIN documents) \in 0 .. Cardinality(Ids)
<1>1. documents \in Maps(Ids, Deposits)
  BY MapsAre DEF AreDocuments
<1>2. Cardinality(DOMAIN documents) \in Nat /\ Cardinality(Ids) \in Nat
      /\ Cardinality(DOMAIN documents) <= Cardinality(Ids)
  BY LocalDepositsAssumption, FS_Subset, FS_CardinalityType DEF AreDocuments
<1>3. QED
  BY <1>1, <1>2

\* createEmptyStorage and an empty collection are well formed.
LEMMA EmptyIsStorage == IsStorage(createEmptyStorage) /\ AreDocuments(NoDocuments)
BY MapsAre DEF IsStorage, Storages, AreDocuments, createEmptyStorage, NoDocuments

\* A storage with the documents of one collection replaced.
LEMMA WithIs ==
    ASSUME IsStorage(data), NEW n \in Names, NEW documents, AreDocuments(documents),
           NEW number, number = Cardinality(DOMAIN documents)
    PROVE  LET d == With(n, documents, number)
           IN  /\ IsStorage(d) /\ DOMAIN d = DOMAIN data \cup {n}
               /\ d = [m \in DOMAIN d |-> d[m]]
               /\ d[n].documents = documents
               /\ \A m \in DOMAIN data \ {n} : d[m] = data[m]
<1> DEFINE col == [documents |-> documents, documentCount |-> number]
           d == With(n, documents, number)
           cols == [documents : Maps(Ids, Deposits), documentCount : 0 .. Cardinality(Ids)]
<1>1. col \in cols /\ col.documents = documents /\ col.documentCount = number
  BY CollectionIs
<1>2. /\ data = [m \in DOMAIN data |-> data[m]] /\ DOMAIN data \subseteq Names
      /\ \A m \in DOMAIN data : data[m] \in cols
  <2>1. data \in Maps(Names, cols)
    BY DEF IsStorage, Storages
  <2> HIDE DEF cols
  <2>2. QED
    BY <2>1, MapsAre
<1>3. /\ DOMAIN d = DOMAIN data \cup {n} /\ d = [m \in DOMAIN d |-> d[m]]
      /\ d[n] = col /\ \A m \in DOMAIN data \ {n} : d[m] = data[m]
  BY DEF With
<1> HIDE DEF d, col
<1>4. d \in Storages
  <2>1. \A m \in DOMAIN d : d[m] \in cols
    BY <1>1, <1>2, <1>3
  <2>2. DOMAIN d \subseteq Names
    BY <1>2, <1>3
  <2> HIDE DEF cols
  <2>3. QED
    BY <1>3, <2>1, <2>2, MapsAre DEF Storages, cols
<1>5. IsStorage(d)
  BY <1>1, <1>3, <1>4 DEF IsStorage
<1>6. QED
  BY <1>1, <1>3, <1>5 DEF d

-----------------------------------------------------------------------------
(* Memory, file and timer. *)

Timer ==
    /\ autoSaveInterval \in Nat /\ remaining \in 0 .. autoSaveInterval /\ age \in Nat
    /\ saveTimeout \in {"null", "armed", "cleared"} /\ unwritten \subseteq {"failed", "clear"}
    /\ saveTimeout = "null" => age = 0
    /\ saveTimeout = "armed" => age <= autoSaveInterval - remaining + 1

IsFile(f) == f \in {Missing, Corrupt} \/ IsStorage(f)

\* Without a timer and a reason the file gives back the memory.
Written == saveTimeout = "null" /\ unwritten = {} => loadOrCreateStorage(file) = data

StorageInv == IsStorage(data) /\ IsFile(file) /\ Timer /\ Written

\* Before the first start nothing is stored and nothing is due.
LEMMA StorageInvInit == InitStorage => StorageInv
BY EmptyIsStorage, LocalStorageAssumption
   DEF InitStorage, StorageInv, IsFile, Timer, Written, loadOrCreateStorage

\* What a save leaves in the file, and what it says of it.
LEMMA SaveIs ==
    ASSUME NEW d, IsStorage(d), IsFile(file), unwritten \subseteq {"failed", "clear"}, Save(d)
    PROVE  /\ age' = 0 /\ file' \in {d, file, Corrupt} /\ IsFile(file')
           /\ unwritten' \subseteq {"failed", "clear"}
           /\ unwritten' = {} => loadOrCreateStorage(file') = d
<1>1. d \notin {Missing, Corrupt}
  BY LocalDepositsAssumption DEF IsStorage
<1>2. CASE file' = d /\ unwritten' = {}
  BY <1>1, <1>2 DEF Save, IsFile, loadOrCreateStorage
<1>3. CASE file' \in {file, Corrupt} /\ unwritten' = unwritten \cup {"failed"}
  BY <1>3 DEF Save, IsFile
<1>4. QED
  BY <1>2, <1>3 DEF Save

\* A change is saved at once or waits for the timer that is armed.
LEMMA ChangeIs ==
    ASSUME StorageInv, NEW d, IsStorage(d), Change(d)
    PROVE  StorageInv' /\ data' = d /\ file' \in {data', file, Corrupt}
<1>1. data' = d /\ scheduleSave(d) /\ UNCHANGED autoSaveInterval
  BY DEF Change
<1>2. CASE autoSaveInterval = 0
  <2>1. Save(d) /\ UNCHANGED <<saveTimeout, remaining>>
    BY <1>1, <1>2 DEF scheduleSave
  <2>2. /\ age' = 0 /\ file' \in {d, file, Corrupt} /\ IsFile(file')
        /\ unwritten' \subseteq {"failed", "clear"}
        /\ unwritten' = {} => loadOrCreateStorage(file') = d
    BY <2>1, SaveIs DEF StorageInv, Timer
  <2>3. Timer'
    BY <1>1, <2>1, <2>2 DEF StorageInv, Timer
  <2>4. QED
    BY <1>1, <2>2, <2>3 DEF StorageInv, Written
<1>3. CASE autoSaveInterval # 0
  <2>1. /\ IF saveTimeout = "null"
            THEN saveTimeout' = "armed" /\ remaining' = autoSaveInterval
            ELSE UNCHANGED <<saveTimeout, remaining>>
        /\ age' = IF age = 0 THEN 1 ELSE age
        /\ UNCHANGED <<file, unwritten>>
    BY <1>1, <1>3 DEF scheduleSave
  <2>2. Timer'
    BY <1>1, <2>1 DEF StorageInv, Timer
  <2>3. QED
    BY <1>1, <2>1, <2>2 DEF StorageInv, Timer, Written
<1>4. QED
  BY <1>2, <1>3

\* clear() changes the memory and nothing else, and says so.
LEMMA ClearIs ==
    ASSUME StorageInv, NEW n \in Names, clear(n)
    PROVE  StorageInv' /\ data' = With(n, NoDocuments, 0) /\ file' \in {data', file, Corrupt}
<1>1. /\ data' = With(n, NoDocuments, 0) /\ unwritten' = unwritten \cup {"clear"}
      /\ UNCHANGED <<file, autoSaveInterval, saveTimeout, remaining, age>>
  BY DEF clear
<1>2. IsStorage(data')
  <2>1. Cardinality(DOMAIN NoDocuments) = 0
    BY FS_EmptySet DEF NoDocuments
  <2>2. QED
    BY <1>1, <2>1, WithIs, EmptyIsStorage DEF StorageInv
<1>3. Timer' /\ Written'
  BY <1>1 DEF StorageInv, Timer, Written
<1>4. QED
  BY <1>1, <1>2, <1>3 DEF StorageInv

\* The steps of the store itself keep the memory.
LEMMA StoreStepIs ==
    ASSUME StorageInv, SaveDue \/ Tick \/ healthCheck \/ onModuleDestroy
    PROVE  StorageInv' /\ data' = data /\ file' \in {data', file, Corrupt}
<1>1. CASE Tick
  <2>1. Timer'
    BY <1>1 DEF Tick, StorageInv, Timer
  <2>2. QED
    BY <1>1, <2>1 DEF Tick, StorageInv, Written
<1>2. ASSUME Save(data), UNCHANGED <<data, autoSaveInterval, remaining>>,
             saveTimeout' \in {saveTimeout, "null", "cleared"}
      PROVE  StorageInv' /\ data' = data /\ file' \in {data', file, Corrupt}
  <2>1. /\ age' = 0 /\ file' \in {data, file, Corrupt} /\ IsFile(file')
        /\ unwritten' \subseteq {"failed", "clear"}
        /\ unwritten' = {} => loadOrCreateStorage(file') = data
    BY <1>2, SaveIs DEF StorageInv, Timer
  <2>2. Timer'
    BY <1>2, <2>1 DEF StorageInv, Timer
  <2>3. QED
    BY <1>2, <2>1, <2>2 DEF StorageInv, Written
<1>3. CASE SaveDue \/ healthCheck \/ onModuleDestroy
  BY <1>2, <1>3 DEF SaveDue, healthCheck, onModuleDestroy
<1>4. QED
  BY <1>1, <1>3

\* A new process has what the file holds.
LEMMA ConstructIs ==
    ASSUME StorageInv, NEW f \in {file, Corrupt}, Construct(f)
    PROVE  StorageInv' /\ data' = loadOrCreateStorage(f) /\ file' = f
<1>1. IsFile(f)
  BY DEF StorageInv, IsFile
<1>2. IsStorage(loadOrCreateStorage(f))
  BY <1>1, EmptyIsStorage DEF IsFile, loadOrCreateStorage
<1>3. Timer'
  BY LocalStorageAssumption DEF Construct, Timer
<1>4. QED
  BY <1>1, <1>2, <1>3 DEF Construct, StorageInv, Written

-----------------------------------------------------------------------------
(* The deposits in the store. *)

\* What the repository finds.
LEMMA CurrentIs ==
    ASSUME IsStorage(data)
    PROVE  /\ AreDocuments(Current)
           /\ Current = IF Collection \in DOMAIN data THEN data[Collection].documents ELSE NoDocuments
<1>1. Current = IF Collection \in DOMAIN data THEN data[Collection].documents ELSE NoDocuments
  BY DEF Current, Documents, _getCollection, createEmptyCollection
<1>2. QED
  BY <1>1, EmptyIsStorage DEF IsStorage

\* The documents of a collection are replaced by others.
Replaced(documents) ==
    /\ StorageInv' /\ file' \in {data', file, Corrupt}
    /\ \E number : data' = With(Collection, documents, number)

\* A change of one collection that keeps count and documents together replaces it.
LEMMA ReplacedIs ==
    ASSUME StorageInv, NEW documents, AreDocuments(documents),
           Change(With(Collection, documents, Cardinality(DOMAIN documents)))
    PROVE  Replaced(documents)
<1> DEFINE number == Cardinality(DOMAIN documents)
           d == With(Collection, documents, number)
<1>1. IsStorage(d) /\ Change(d)
  BY WithIs, LocalDepositsAssumption DEF StorageInv
<1> HIDE DEF d
<1>2. StorageInv' /\ data' = d /\ file' \in {data', file, Corrupt}
  BY <1>1, ChangeIs
<1> HIDE DEF number
<1>3. QED
  BY <1>2 DEF Replaced, d

\* After it the repository finds the new documents.
LEMMA ReplacedCurrent ==
    ASSUME NEW documents, Replaced(documents)
    PROVE  Current' = documents /\ Collection \in DOMAIN data'
<1>1. PICK number : data' = With(Collection, documents, number)
  BY DEF Replaced
<1>2. Collection \in DOMAIN data' /\ data'[Collection].documents = documents
  BY <1>1 DEF With
<1>3. QED
  BY <1>2 DEF Current, Documents, _getCollection

\* The documents with v under i.
Put(i, v) == [j \in DOMAIN Current \cup {i} |-> IF j = i THEN v ELSE Current[j]]

\* _setDocument puts one document, or does nothing without a collection.
LEMMA SetDocumentIs ==
    ASSUME StorageInv, NEW i \in Ids, NEW v \in Deposits, _setDocument(Collection, i, v)
    PROVE  IF Collection \in DOMAIN data THEN Replaced(Put(i, v)) ELSE UNCHANGED storage
<1>1. CASE Collection \in DOMAIN data
  <2>1. AreDocuments(Put(i, v))
    <3>1. AreDocuments(Current)
      BY CurrentIs DEF StorageInv
    <3>2. /\ DOMAIN Put(i, v) = DOMAIN Current \cup {i}
          /\ \A j \in DOMAIN Put(i, v) : Put(i, v)[j] = IF j = i THEN v ELSE Current[j]
          /\ Put(i, v) = [j \in DOMAIN Put(i, v) |-> Put(i, v)[j]]
      BY DEF Put
    <3>3. QED
      BY <3>1, <3>2 DEF AreDocuments
  <2>2. Change(With(Collection, Put(i, v), Cardinality(DOMAIN Put(i, v))))
    BY <1>1 DEF _setDocument, Put, Current
  <2>3. QED
    BY <1>1, <2>1, <2>2, ReplacedIs
<1>2. CASE Collection \notin DOMAIN data
  BY <1>2 DEF _setDocument
<1>3. QED
  BY <1>1, <1>2

\* _deleteDocument removes one document, or does nothing.
LEMMA DeleteDocumentIs ==
    ASSUME StorageInv, NEW i, _deleteDocument(Collection, i)
    PROVE  IF i \in DOMAIN Current THEN Replaced([j \in DOMAIN Current \ {i} |-> Current[j]])
                                   ELSE UNCHANGED storage
<1>1. CASE i \in DOMAIN Current
  <2> DEFINE documents == [j \in DOMAIN Current \ {i} |-> Current[j]]
  <2>1. AreDocuments(documents)
    BY CurrentIs DEF StorageInv, AreDocuments
  <2>2. Change(With(Collection, documents, Cardinality(DOMAIN documents)))
    BY <1>1 DEF _deleteDocument, Current
  <2>3. QED
    BY <1>1, <2>1, <2>2, ReplacedIs
<1>2. CASE i \notin DOMAIN Current
  BY <1>2 DEF _deleteDocument, Current
<1>3. QED
  BY <1>1, <1>2

-----------------------------------------------------------------------------
(* The calls under way. *)

CallShapes ==
    {Idle} \cup [at : {"update"}, id : Ids, updates : UpdateData, read : Deposits]
           \cup [at : {"delete"}, id : Ids]

\* What an update writes back is still there unless calls did overlap.
ReadInv(c) ==
    calls[c].at = "update" /\ calls[c].id \notin tainted =>
        calls[c].id \in DOMAIN Current /\ calls[c].read = Current[calls[c].id]

Overlapping(c, d) == c # d /\ Active(c) /\ Active(d) /\ calls[c].id = calls[d].id

CallsInv ==
    /\ calls \in [Calls -> CallShapes]
    /\ \A c \in Calls : ReadInv(c)
    /\ \A c, d \in Calls : Overlapping(c, d) => calls[c].id \in tainted
    /\ ideal = [i \in DOMAIN Current \ tainted |-> Current[i]]

LocalDepositsInv == StorageInv /\ CallsInv

\* What a call that is under way has read so far.
LEMMA CallsAre ==
    ASSUME CallsInv, NEW c \in Calls
    PROVE  /\ Active(c) => calls[c].id \in Ids /\ calls[c].at \in {"update", "delete"}
           /\ calls[c].at = "update" =>
                Active(c) /\ calls[c].updates \in UpdateData /\ calls[c].read \in Deposits
           /\ calls[c].at = "delete" => Active(c)
<1>1. calls[c] \in CallShapes
  BY DEF CallsInv
<1>2. QED
  BY <1>1 DEF CallShapes, Active, Idle

\* The invariant holds before the first start.
LEMMA LocalDepositsInvInit == Init => LocalDepositsInv
<1> SUFFICES ASSUME Init PROVE LocalDepositsInv
  OBVIOUS
<1>1. StorageInv
  BY StorageInvInit DEF Init
<1>2. data = createEmptyStorage
  BY DEF Init, InitStorage, loadOrCreateStorage
<1>3. Current = NoDocuments
  BY <1>2 DEF Current, Documents, _getCollection, createEmptyStorage, createEmptyCollection
<1>4. \A c \in Calls : calls[c] = Idle /\ calls[c].at = "idle"
  BY DEF Init, Idle
<1>5. calls \in [Calls -> CallShapes]
  BY DEF Init, CallShapes
<1>6. CallsInv
  BY <1>3, <1>4, <1>5 DEF Init, CallsInv, ReadInv, Overlapping, Active, NoDocuments
<1>7. QED
  BY <1>1, <1>6 DEF LocalDepositsInv

\* Steps without a change of the deposits.
LEMMA QuietCalls ==
    ASSUME CallsInv, UNCHANGED <<calls, ideal, tainted>>, Current' = Current
    PROVE  CallsInv'
BY DEF CallsInv, ReadInv, Overlapping, Active

\* A call of the repository begins with what it finds.
LEMMA InvBegin ==
    ASSUME LocalDepositsInv, NEW c \in Calls, NEW call \in CallShapes, call # Idle, Begin(c, call),
           call.at = "update" => call.id \in DOMAIN Current /\ call.read = Current[call.id]
    PROVE  LocalDepositsInv'
<1>1. /\ ~Active(c) /\ calls' = [calls EXCEPT ![c] = call] /\ UNCHANGED storage
      /\ tainted' = tainted \cup ({call.id} \cap Touched(Calls \ {c}))
      /\ ideal' = [i \in DOMAIN ideal \ tainted' |-> ideal[i]]
  BY DEF Begin
<1>2. StorageInv' /\ Current' = Current
  BY <1>1 DEF LocalDepositsInv, StorageInv, IsFile, Timer, Written, storage,
              Current, Documents, _getCollection
<1>3. calls' \in [Calls -> CallShapes] /\ calls'[c] = call
      /\ \A d \in Calls \ {c} : calls'[d] = calls[d]
  BY <1>1 DEF LocalDepositsInv, CallsInv
<1>4. \A d \in Calls : ReadInv(d)'
  <2>1. ReadInv(c)'
    BY <1>2, <1>3 DEF ReadInv
  <2>2. ASSUME NEW d \in Calls \ {c} PROVE ReadInv(d)'
    BY <1>1, <1>2, <1>3 DEF LocalDepositsInv, CallsInv, ReadInv
  <2>3. QED
    BY <2>1, <2>2
<1>5. ASSUME NEW d \in Calls, NEW e \in Calls, Overlapping(d, e)' PROVE calls'[d].id \in tainted'
  <2>1. CASE d # c /\ e # c
    BY <1>1, <1>3, <1>5, <2>1 DEF LocalDepositsInv, CallsInv, Overlapping, Active
  <2>2. ASSUME NEW o \in Calls \ {c}, Active(o), calls[o].id = call.id PROVE call.id \in tainted'
    BY <1>1, <2>2 DEF Touched
  <2>3. CASE d = c
    BY <1>3, <1>5, <2>2, <2>3 DEF Overlapping, Active
  <2>4. CASE e = c
    BY <1>3, <1>5, <2>2, <2>4 DEF Overlapping, Active
  <2>5. QED
    BY <2>1, <2>3, <2>4
<1>6. ideal' = [i \in DOMAIN Current' \ tainted' |-> Current'[i]]
  BY <1>1, <1>2 DEF LocalDepositsInv, CallsInv
<1>7. QED
  BY <1>2, <1>3, <1>4, <1>5, <1>6 DEF LocalDepositsInv, CallsInv

\* The call c ends, having changed the deposit i at most.
LEMMA EndOfCall ==
    ASSUME CallsInv, NEW c \in Calls, Active(c), calls' = [calls EXCEPT ![c] = Idle],
           UNCHANGED tainted,
           \A j \in DOMAIN Current \ {calls[c].id} : j \in DOMAIN Current' /\ Current'[j] = Current[j],
           ideal' = [j \in DOMAIN Current' \ tainted |-> Current'[j]]
    PROVE  CallsInv'
<1>1. /\ calls' \in [Calls -> CallShapes] /\ calls'[c] = Idle
      /\ \A d \in Calls \ {c} : calls'[d] = calls[d]
  BY DEF CallsInv, CallShapes
<1>2. ASSUME NEW d \in Calls PROVE ReadInv(d)'
  <2>1. CASE d = c
    BY <1>1, <2>1 DEF ReadInv, Idle
  <2>2. ASSUME d # c, calls[d].at = "update", calls[d].id \notin tainted
        PROVE  /\ calls[d].id \in DOMAIN Current' /\ calls[d].read = Current'[calls[d].id]
    <3>1. calls[d].id # calls[c].id
      BY <2>2, CallsAre DEF CallsInv, Overlapping
    <3>2. QED
      BY <2>2, <3>1 DEF CallsInv, ReadInv
  <2>3. QED
    BY <1>1, <2>1, <2>2 DEF CallsInv, ReadInv
<1>3. ASSUME NEW d \in Calls, NEW e \in Calls, Overlapping(d, e)' PROVE calls'[d].id \in tainted'
  BY <1>1, <1>3 DEF CallsInv, Overlapping, Active
<1>4. QED
  BY <1>1, <1>2, <1>3 DEF CallsInv

\* An update writes back what it read, with its fields.
LEMMA InvWriteUpdate == ASSUME LocalDepositsInv, NEW c \in Calls, WriteUpdate(c) PROVE LocalDepositsInv'
<1> DEFINE i == calls[c].id
           u == calls[c].updates
           v == u ++ calls[c].read
<1>1. /\ calls[c].at = "update" /\ _setDocument(Collection, i, v)
      /\ ideal' = [j \in DOMAIN ideal |-> IF j = i THEN u ++ ideal[j] ELSE ideal[j]]
      /\ calls' = [calls EXCEPT ![c] = Idle] /\ UNCHANGED tainted
  BY DEF WriteUpdate, End
<1>2. Active(c) /\ i \in Ids /\ v \in Deposits
      /\ (i \notin tainted => i \in DOMAIN Current /\ v = u ++ Current[i])
  BY <1>1, CallsAre, UpdatedIsDeposit DEF LocalDepositsInv, CallsInv, ReadInv
<1>3. ideal = [j \in DOMAIN Current \ tainted |-> Current[j]]
  BY DEF LocalDepositsInv, CallsInv
<1> HIDE DEF v
<1>4. CASE Collection \in DOMAIN data
  <2>1. Replaced(Put(i, v))
    BY <1>1, <1>2, <1>4, SetDocumentIs DEF LocalDepositsInv
  <2>2. Current' = Put(i, v) /\ StorageInv'
    BY <2>1, ReplacedCurrent DEF Replaced
  <2>3. /\ DOMAIN Current' = DOMAIN Current \cup {i} /\ Current'[i] = v
        /\ \A j \in DOMAIN Current \ {i} : Current'[j] = Current[j]
    BY <2>2 DEF Put
  <2>4. ideal' = [j \in DOMAIN Current' \ tainted |-> Current'[j]]
    BY <1>1, <1>2, <1>3, <2>3
  <2>5. CallsInv'
    BY <1>1, <1>2, <2>3, <2>4, EndOfCall DEF LocalDepositsInv
  <2>6. QED
    BY <2>2, <2>5 DEF LocalDepositsInv
<1>5. CASE Collection \notin DOMAIN data
  <2>1. UNCHANGED storage
    BY <1>1, <1>2, <1>5, SetDocumentIs DEF LocalDepositsInv
  <2>2. StorageInv' /\ Current' = Current
    BY <2>1 DEF LocalDepositsInv, StorageInv, IsFile, Timer, Written, storage,
                Current, Documents, _getCollection
  <2>3. DOMAIN Current = {}
    BY <1>5, CurrentIs DEF LocalDepositsInv, StorageInv, NoDocuments
  <2>4. ideal' = [j \in DOMAIN Current' \ tainted |-> Current'[j]]
    BY <1>1, <1>3, <2>2, <2>3
  <2>5. CallsInv'
    BY <1>1, <1>2, <2>2, <2>4, EndOfCall DEF LocalDepositsInv
  <2>6. QED
    BY <2>2, <2>5 DEF LocalDepositsInv
<1>6. QED
  BY <1>4, <1>5

\* A deletion removes its deposit, found or not.
LEMMA InvDelete == ASSUME LocalDepositsInv, NEW c \in Calls, Delete(c) PROVE LocalDepositsInv'
<1> DEFINE i == calls[c].id
<1>1. /\ calls[c].at = "delete" /\ _deleteDocument(Collection, i)
      /\ ideal' = [j \in DOMAIN ideal \ {i} |-> ideal[j]]
      /\ calls' = [calls EXCEPT ![c] = Idle] /\ UNCHANGED tainted /\ Active(c)
  BY CallsAre DEF Delete, End, LocalDepositsInv
<1>2. ideal = [j \in DOMAIN Current \ tainted |-> Current[j]]
  BY DEF LocalDepositsInv, CallsInv
<1>3. StorageInv' /\ Current' = [j \in DOMAIN Current \ {i} |-> Current[j]]
  <2>1. CASE i \in DOMAIN Current
    BY <1>1, <2>1, DeleteDocumentIs, ReplacedCurrent DEF LocalDepositsInv, Replaced
  <2>2. CASE i \notin DOMAIN Current
    <3>1. UNCHANGED storage
      BY <1>1, <2>2, DeleteDocumentIs DEF LocalDepositsInv
    <3>2. StorageInv' /\ Current' = Current
      BY <3>1 DEF LocalDepositsInv, StorageInv, IsFile, Timer, Written, storage,
                  Current, Documents, _getCollection
    <3>3. Current = [j \in DOMAIN Current |-> Current[j]]
      BY CurrentIs DEF LocalDepositsInv, StorageInv, AreDocuments
    <3>4. QED
      BY <2>2, <3>2, <3>3
  <2>3. QED
    BY <2>1, <2>2
<1>4. ideal' = [j \in DOMAIN Current' \ tainted |-> Current'[j]]
  BY <1>1, <1>2, <1>3
<1>5. CallsInv'
  BY <1>1, <1>3, <1>4, EndOfCall DEF LocalDepositsInv
<1>6. QED
  BY <1>3, <1>5 DEF LocalDepositsInv

\* The deposit i, with which no call is under way that is not tainted, becomes v.
LEMMA PutByOthers ==
    ASSUME LocalDepositsInv, NEW i \in Ids, NEW v \in Deposits, _setDocument(Collection, i, v),
           Collection \in DOMAIN data, UNCHANGED calls,
           tainted' = tainted \cup ({i} \cap Touched(Calls)),
           ideal' = [j \in (DOMAIN Current \cup {i}) \ tainted' |-> IF j = i THEN v ELSE Current[j]]
    PROVE  LocalDepositsInv'
<1>1. Current' = Put(i, v) /\ StorageInv'
  BY SetDocumentIs, ReplacedCurrent DEF LocalDepositsInv, Replaced
<1>2. /\ DOMAIN Current' = DOMAIN Current \cup {i} /\ Current'[i] = v
      /\ \A j \in DOMAIN Current \ {i} : Current'[j] = Current[j]
  BY <1>1 DEF Put
<1>3. ideal' = [j \in DOMAIN Current' \ tainted' |-> Current'[j]]
  BY <1>2
<1>4. ASSUME NEW c \in Calls PROVE ReadInv(c)'
  <2>1. CASE calls[c].at = "update" /\ calls[c].id = i
    <3>1. i \in tainted'
      BY <2>1, CallsAre DEF LocalDepositsInv, Touched
    <3>2. QED
      BY <2>1, <3>1 DEF LocalDepositsInv, CallsInv, ReadInv
  <2>2. CASE calls[c].at = "update" /\ calls[c].id # i
    BY <1>2, <2>2 DEF LocalDepositsInv, CallsInv, ReadInv
  <2>3. CASE calls[c].at # "update"
    BY <2>3 DEF ReadInv
  <2>4. QED
    BY <2>1, <2>2, <2>3
<1>5. CallsInv'
  BY <1>3, <1>4 DEF LocalDepositsInv, CallsInv, Overlapping, Active
<1>6. QED
  BY <1>1, <1>5 DEF LocalDepositsInv

\* A new deposit has no calls on it.
LEMMA InvCreate == ASSUME LocalDepositsInv, NEW i \in Ids, Create(i) PROVE LocalDepositsInv'
<1> DEFINE v == Entry("status", "PENDING")
<1>1. /\ i \notin DOMAIN Current \cup DOMAIN ideal \cup tainted
      /\ \A c \in Calls : Active(c) => calls[c].id # i
      /\ _setDocument(Collection, i, v)
      /\ ideal' = IF Collection \in DOMAIN data THEN Entry(i, v) ++ ideal ELSE ideal
      /\ UNCHANGED <<opened, calls, tainted>>
  BY DEF Create
<1>2. v \in Deposits
  BY PendingIsDeposit
<1> HIDE DEF v
<1>3. CASE Collection \in DOMAIN data
  <2>1. Touched(Calls) \cap {i} = {}
    BY <1>1 DEF Touched
  <2>2. ideal' = [j \in (DOMAIN Current \cup {i}) \ tainted |-> IF j = i THEN v ELSE Current[j]]
    BY <1>1, <1>3 DEF LocalDepositsInv, CallsInv, Entry, ++
  <2>3. QED
    BY <1>1, <1>2, <1>3, <2>1, <2>2, PutByOthers
<1>4. CASE Collection \notin DOMAIN data
  <2>1. UNCHANGED storage
    BY <1>1, <1>2, <1>4, SetDocumentIs DEF LocalDepositsInv
  <2>2. StorageInv' /\ Current' = Current
    BY <2>1 DEF LocalDepositsInv, StorageInv, IsFile, Timer, Written, storage,
                Current, Documents, _getCollection
  <2>3. QED
    BY <1>1, <1>4, <2>2, QuietCalls DEF LocalDepositsInv
<1>5. QED
  BY <1>3, <1>4

\* An update that bypasses the repository taints the deposits under calls.
LEMMA InvPatch ==
    ASSUME LocalDepositsInv, NEW i \in Ids, NEW u \in UpdateData, Patch(i, u)
    PROVE  LocalDepositsInv'
<1>1. /\ i \in DOMAIN Current /\ _setDocument(Collection, i, u ++ Current[i])
      /\ tainted' = tainted \cup ({i} \cap Touched(Calls))
      /\ ideal' = [j \in DOMAIN ideal \ tainted' |-> IF j = i THEN u ++ ideal[j] ELSE ideal[j]]
      /\ UNCHANGED calls
  BY DEF Patch, update, exists, getData, Current
<1>2. u ++ Current[i] \in Deposits
  BY <1>1, CurrentIs, UpdatedIsDeposit DEF LocalDepositsInv, StorageInv, AreDocuments
<1>3. Collection \in DOMAIN data
  BY <1>1, CurrentIs DEF LocalDepositsInv, StorageInv, NoDocuments
<1>4. ideal' = [j \in (DOMAIN Current \cup {i}) \ tainted' |->
                    IF j = i THEN u ++ Current[i] ELSE Current[j]]
  BY <1>1 DEF LocalDepositsInv, CallsInv
<1>5. QED
  BY <1>1, <1>2, <1>3, <1>4, PutByOthers

\* Somebody empties the collection, or removes it.
LEMMA InvEmptied ==
    ASSUME LocalDepositsInv, StorageInv', Current' = NoDocuments, Emptied
    PROVE  LocalDepositsInv'
<1>1. /\ tainted' = tainted \cup Touched(Calls) /\ ideal' = NoDocuments /\ UNCHANGED calls
  BY DEF Emptied
<1>2. ideal' = [j \in DOMAIN Current' \ tainted' |-> Current'[j]]
  BY <1>1 DEF NoDocuments
<1>3. \A c \in Calls : Active(c) => calls[c].id \in tainted'
  BY <1>1 DEF Touched
<1>4. \A c \in Calls : ReadInv(c)'
  BY <1>1, <1>3, CallsAre DEF LocalDepositsInv, CallsInv, ReadInv
<1>5. CallsInv'
  BY <1>1, <1>2, <1>3, <1>4 DEF LocalDepositsInv, CallsInv, Overlapping, Active
<1>6. QED
  BY <1>5 DEF LocalDepositsInv

\* The three ways to empty it.
LEMMA EmptiedIs ==
    ASSUME StorageInv, clear(Collection) \/ deleteCollection(Collection) \/ clearAll
    PROVE  /\ StorageInv' /\ Current' = NoDocuments /\ file' \in {data', file, Corrupt}
           /\ \/ Collection \in DOMAIN data /\ data' = With(Collection, NoDocuments, 0)
              \/ Collection \in DOMAIN data /\ data' = [m \in DOMAIN data \ {Collection} |-> data[m]]
              \/ data' = createEmptyStorage
<1>1. CASE clear(Collection)
  <2>1. /\ StorageInv' /\ data' = With(Collection, NoDocuments, 0) /\ file' \in {data', file, Corrupt}
    BY <1>1, ClearIs, LocalDepositsAssumption
  <2>2. Current' = NoDocuments
    BY <2>1, ReplacedCurrent DEF Replaced
  <2>3. QED
    BY <1>1, <2>1, <2>2 DEF clear
<1>2. CASE deleteCollection(Collection)
  <2> DEFINE d == [m \in DOMAIN data \ {Collection} |-> data[m]]
  <2>1. IsStorage(d)
    BY MapsAre DEF StorageInv, IsStorage, Storages
  <2>2. Change(d)
    BY <1>2 DEF deleteCollection
  <2>3. StorageInv' /\ data' = d /\ file' \in {data', file, Corrupt}
    BY <2>1, <2>2, ChangeIs
  <2>4. Current' = NoDocuments
    BY <2>3 DEF Current, Documents, _getCollection, createEmptyCollection
  <2>5. QED
    BY <1>2, <2>3, <2>4 DEF deleteCollection
<1>3. CASE clearAll
  <2>1. StorageInv' /\ data' = createEmptyStorage /\ file' \in {data', file, Corrupt}
    BY <1>3, ChangeIs, EmptyIsStorage DEF clearAll
  <2>2. Current' = NoDocuments
    BY <2>1 DEF Current, Documents, _getCollection, createEmptyCollection, createEmptyStorage
  <2>3. QED
    BY <2>1, <2>2
<1>4. QED
  BY <1>1, <1>2, <1>3

\* The constructor makes an empty collection, or finds the one there is.
LEMMA OpenIs ==
    ASSUME StorageInv, Open
    PROVE  /\ StorageInv' /\ Current' = Current /\ file' \in {data', file, Corrupt}
           /\ data' = data \/ \E number : data' = With(Collection, NoDocuments, number)
<1>1. CASE Collection \in DOMAIN data
  BY <1>1 DEF Open, StorageInv, IsFile, Timer, Written, storage, Current, Documents, _getCollection
<1>2. CASE Collection \notin DOMAIN data
  <2>1. Change(With(Collection, NoDocuments, 0))
    BY <1>2 DEF Open, collection, createEmptyCollection
  <2>2. Cardinality(DOMAIN NoDocuments) = 0
    BY FS_EmptySet DEF NoDocuments
  <2>3. Replaced(NoDocuments)
    BY <2>1, <2>2, ReplacedIs, EmptyIsStorage
  <2>4. Current = NoDocuments
    BY <1>2, CurrentIs DEF StorageInv
  <2>5. QED
    BY <2>3, <2>4, ReplacedCurrent DEF Replaced
<1>3. QED
  BY <1>1, <1>2

\* A restart ends all calls and starts from the file.
LEMMA InvRestart == ASSUME LocalDepositsInv, Restart PROVE LocalDepositsInv'
<1>1. StorageInv'
  BY ConstructIs DEF Restart, LocalDepositsInv
<1>2. /\ calls' = [c \in Calls |-> Idle] /\ tainted' = {}
      /\ ideal' = IF Collection \in DOMAIN data' THEN data'[Collection].documents ELSE NoDocuments
  BY DEF Restart
<1>3. Current' = ideal' /\ ideal' = [i \in DOMAIN ideal' |-> ideal'[i]]
  <2>1. Current' = ideal'
    BY <1>2 DEF Current, Documents, _getCollection, createEmptyCollection
  <2>2. AreDocuments(ideal')
    BY <1>1, <1>2, EmptyIsStorage DEF StorageInv, IsStorage
  <2>3. QED
    BY <2>1, <2>2 DEF AreDocuments
<1>4. \A c \in Calls : calls'[c] = Idle /\ calls'[c].at = "idle"
  BY <1>2 DEF Idle
<1>5. calls' \in [Calls -> CallShapes]
  BY <1>2 DEF CallShapes
<1>6. CallsInv'
  BY <1>2, <1>3, <1>4, <1>5 DEF CallsInv, ReadInv, Overlapping, Active
<1>7. QED
  BY <1>1, <1>6 DEF LocalDepositsInv

\* An update begins with the deposit it finds.
LEMMA InvReadForUpdate ==
    ASSUME LocalDepositsInv, NEW c \in Calls, NEW i \in Ids, NEW u \in UpdateData, ReadForUpdate(c, i, u)
    PROVE  LocalDepositsInv'
<1> DEFINE call == [at |-> "update", id |-> i, updates |-> u, read |-> Current[i]]
<1>1. i \in DOMAIN Current /\ Begin(c, call)
  BY DEF ReadForUpdate, exists, findById, getData, Current
<1>2. Current[i] \in Deposits
  BY <1>1, CurrentIs DEF LocalDepositsInv, StorageInv, AreDocuments
<1>3. call \in CallShapes /\ call # Idle
  BY <1>2 DEF CallShapes, Idle
<1>4. call.id = i /\ call.read = Current[i]
  OBVIOUS
<1> HIDE DEF call
<1>5. QED
  BY <1>1, <1>3, <1>4, InvBegin

\* A deletion begins when it finds the deposit.
LEMMA InvFindForDelete ==
    ASSUME LocalDepositsInv, NEW c \in Calls, NEW i \in Ids, FindForDelete(c, i)
    PROVE  LocalDepositsInv'
<1> DEFINE call == [at |-> "delete", id |-> i]
<1>1. Begin(c, call)
  BY DEF FindForDelete
<1>2. call \in CallShapes /\ call # Idle /\ call.at # "update"
  BY DEF CallShapes, Idle
<1> HIDE DEF call
<1>3. QED
  BY <1>1, <1>2, InvBegin

\* Every step of the repository and the store preserves the invariant.
LEMMA LocalDepositsInvNext == LocalDepositsInv /\ [Next]_vars => LocalDepositsInv'
<1> SUFFICES ASSUME LocalDepositsInv, [Next]_vars PROVE LocalDepositsInv'
  OBVIOUS
<1>1. CASE UNCHANGED vars
  <2>1. StorageInv' /\ Current' = Current
    BY <1>1 DEF vars, LocalDepositsInv, StorageInv, IsFile, Timer, Written, storage,
                Current, Documents, _getCollection
  <2>2. QED
    BY <1>1, <2>1, QuietCalls DEF vars, LocalDepositsInv
<1>2. CASE Open
  BY <1>2, OpenIs, QuietCalls DEF Open, LocalDepositsInv
<1>3. ASSUME NEW i \in Ids, NEW u \in Updates, Patch(i, u) PROVE LocalDepositsInv'
  BY <1>3, InvPatch, LocalDepositsAssumption
<1>4. ASSUME NEW i \in Ids, NEW c \in Calls,
             \/ \E u \in Updates : Update(c, i, u)
             \/ \E status \in NewStatuses : UpdateStatus(c, i, status)
             \/ FindForDelete(c, i)
      PROVE  LocalDepositsInv'
  BY <1>4, InvReadForUpdate, InvFindForDelete, StatusIsUpdate, LocalDepositsAssumption
     DEF Update, UpdateStatus
<1>5. CASE ClearAll \/ DeleteCollection \/ ClearStorage
  BY <1>5, EmptiedIs, InvEmptied DEF ClearAll, DeleteCollection, ClearStorage, LocalDepositsInv
<1>6. CASE EndOfTurn /\ StoreStep
  <2>1. StorageInv' /\ data' = data
    BY <1>6, StoreStepIs DEF StoreStep, LocalDepositsInv
  <2>2. Current' = Current
    BY <2>1 DEF Current, Documents, _getCollection
  <2>3. QED
    BY <1>6, <2>1, <2>2, QuietCalls DEF StoreStep, LocalDepositsInv
<1>7. QED
  BY <1>1, <1>2, <1>3, <1>4, <1>5, <1>6, InvCreate, InvWriteUpdate, InvDelete, InvRestart DEF Next

\* LocalDepositsInv holds in every reachable state.
THEOREM LocalDepositsInvariant == Spec => []LocalDepositsInv
BY LocalDepositsInvInit, LocalDepositsInvNext, PTL DEF Spec

-----------------------------------------------------------------------------
(* Times of completion. *)

\* A deposit that is completed has its time, but for the ids U.
Dated(i, d, U) == i \in U \/ d["status"] # "COMPLETED" \/ "completedAt" \in DOMAIN d
DatedAll(documents, U) == \A i \in DOMAIN documents : Dated(i, documents[i], U)

\* What the repository would find in a storage.
DocumentsIn(d) == IF Collection \in DOMAIN d THEN d[Collection].documents ELSE NoDocuments

DatedCall(call, U) ==
    call.at = "update" =>
        Dated(call.id, call.read, U) /\ (Undated(call.updates) => call.id \in U)

\* Memory, file and calls have the times that nobody left out.
DatedInv ==
    /\ undated \subseteq Ids
    /\ DatedAll(Current, undated)
    /\ DatedAll(DocumentsIn(loadOrCreateStorage(file)), undated)
    /\ \A c \in Calls : DatedCall(calls[c], undated)

\* An update without its time was asked for, so that any other leaves the deposit dated.
LEMMA UpdatedIsDated ==
    ASSUME NEW u \in UpdateData, NEW d \in Deposits, NEW i, NEW U,
           Dated(i, d, U), Undated(u) => i \in U
    PROVE  Dated(i, u ++ d, U)
<1> DEFINE e == u ++ d
<1>1. /\ DOMAIN e = DOMAIN u \cup DOMAIN d
      /\ \A x \in DOMAIN u : e[x] = u[x]
      /\ \A x \in DOMAIN d \ DOMAIN u : e[x] = d[x]
  BY DEF ++
<1>2. "status" \in DOMAIN d
  BY DepositsAre
<1> HIDE DEF e
<1>3. CASE "status" \in DOMAIN u
  BY <1>1, <1>3 DEF Dated, Undated, e
<1>4. CASE "status" \notin DOMAIN u
  BY <1>1, <1>2, <1>4 DEF Dated, e
<1>5. QED
  BY <1>3, <1>4

\* Documents that were dated, or are said to be, after a step that writes memory to the file
\* at most.
LEMMA DatedStep ==
    ASSUME DatedInv, StorageInv', file' \in {data', file, Corrupt},
           undated \subseteq undated', undated' \subseteq Ids,
           DatedAll(Current', undated'), \A c \in Calls : DatedCall(calls'[c], undated')
    PROVE  DatedInv'
<1>1. Current' = DocumentsIn(data') /\ data' \notin {Missing, Corrupt}
  BY LocalDepositsAssumption
     DEF StorageInv, IsStorage, Current, Documents, _getCollection, createEmptyCollection, DocumentsIn
<1>2. CASE file' = data'
  BY <1>1, <1>2 DEF DatedInv, loadOrCreateStorage, DocumentsIn
<1>3. CASE file' = file
  <2>1. DatedAll(DocumentsIn(loadOrCreateStorage(file)), undated')
    BY DEF DatedInv, DatedAll, Dated
  <2>2. QED
    BY <1>3, <2>1 DEF DatedInv, loadOrCreateStorage, DocumentsIn
<1>4. CASE file' = Corrupt
  BY <1>4 DEF DatedInv, DatedAll, DocumentsIn, loadOrCreateStorage, createEmptyStorage, NoDocuments
<1>5. QED
  BY <1>2, <1>3, <1>4

\* The store is left, but for the file and an empty collection.
LEMMA DatedQuiet ==
    ASSUME DatedInv, StorageInv', file' \in {data', file, Corrupt},
           Current' = Current, UNCHANGED <<calls, undated>>
    PROVE  DatedInv'
BY DatedStep DEF DatedInv

\* _setDocument puts the document i or nothing.
LEMMA DatedSetDocument ==
    ASSUME StorageInv, NEW i \in Ids, NEW v \in Deposits, _setDocument(Collection, i, v),
           NEW U, DatedAll(Current, U), Dated(i, v, U)
    PROVE  DatedAll(Current', U) /\ file' \in {data', file, Corrupt}
<1>1. CASE Collection \in DOMAIN data
  <2>1. Replaced(Put(i, v))
    BY <1>1, SetDocumentIs
  <2>2. Current' = Put(i, v)
    BY <2>1, ReplacedCurrent
  <2>3. QED
    BY <2>1, <2>2 DEF Put, DatedAll, Replaced
<1>2. CASE Collection \notin DOMAIN data
  <2>1. UNCHANGED storage
    BY <1>2, SetDocumentIs
  <2>2. QED
    BY <2>1 DEF storage, Current, Documents, _getCollection
<1>3. QED
  BY <1>1, <1>2

\* _deleteDocument leaves the others as they are.
LEMMA DatedDeleteDocument ==
    ASSUME StorageInv, NEW i, _deleteDocument(Collection, i), NEW U, DatedAll(Current, U)
    PROVE  DatedAll(Current', U) /\ file' \in {data', file, Corrupt}
<1>1. CASE i \in DOMAIN Current
  <2> DEFINE documents == [j \in DOMAIN Current \ {i} |-> Current[j]]
  <2>1. Replaced(documents)
    BY <1>1, DeleteDocumentIs
  <2>2. DatedAll(documents, U)
    BY DEF DatedAll
  <2> HIDE DEF documents
  <2>3. Current' = documents /\ file' \in {data', file, Corrupt}
    BY <2>1, ReplacedCurrent DEF Replaced
  <2>4. QED
    BY <2>2, <2>3
<1>2. CASE i \notin DOMAIN Current
  <2>1. UNCHANGED storage
    BY <1>2, DeleteDocumentIs
  <2>2. QED
    BY <2>1 DEF storage, Current, Documents, _getCollection
<1>3. QED
  BY <1>1, <1>2

\* Asking adds to undated alone what is asked for without its time.
LEMMA AskIs ==
    ASSUME DatedInv, NEW i \in Ids, NEW u, Ask(i, u)
    PROVE  /\ undated \subseteq undated' /\ undated' \subseteq Ids
           /\ Undated(u) => i \in undated'
           /\ DatedAll(Current, undated')
           /\ \A c \in Calls : DatedCall(calls[c], undated')
<1>1. undated \subseteq undated' /\ undated' \subseteq Ids /\ (Undated(u) => i \in undated')
  BY DEF DatedInv, Ask
<1>2. QED
  BY <1>1 DEF DatedInv, DatedAll, Dated, DatedCall

\* A call begins with a deposit that is as dated as the store.
LEMMA DatedBegin ==
    ASSUME LocalDepositsInv, DatedInv, StorageInv', NEW c \in Calls, NEW call, Begin(c, call),
           undated \subseteq undated', undated' \subseteq Ids,
           DatedAll(Current, undated'), \A d \in Calls : DatedCall(calls[d], undated'),
           DatedCall(call, undated')
    PROVE  DatedInv'
<1>1. UNCHANGED storage /\ calls' = [calls EXCEPT ![c] = call]
  BY DEF Begin
<1>2. Current' = Current /\ file' = file
  BY <1>1 DEF storage, Current, Documents, _getCollection
<1>3. \A d \in Calls : DatedCall(calls'[d], undated')
  BY <1>1 DEF LocalDepositsInv, CallsInv
<1>4. QED
  BY <1>2, <1>3, DatedStep

\* An update begins, of a caller or of updateStatus.
LEMMA DatedReadForUpdate ==
    ASSUME LocalDepositsInv, DatedInv, StorageInv', NEW c \in Calls, NEW i \in Ids,
           NEW u \in UpdateData, ReadForUpdate(c, i, u),
           Ask(i, u) \/ (UNCHANGED undated /\ ~Undated(u))
    PROVE  DatedInv'
<1> DEFINE call == [at |-> "update", id |-> i, updates |-> u, read |-> Current[i]]
<1>1. i \in DOMAIN Current /\ Begin(c, call)
  BY DEF ReadForUpdate, exists, findById, getData, Current
<1>2. /\ undated \subseteq undated' /\ undated' \subseteq Ids /\ (Undated(u) => i \in undated')
      /\ DatedAll(Current, undated') /\ \A d \in Calls : DatedCall(calls[d], undated')
  BY AskIs DEF DatedInv
<1>3. DatedCall(call, undated')
  BY <1>1, <1>2 DEF DatedCall, DatedAll
<1> HIDE DEF call
<1>4. QED
  BY <1>1, <1>2, <1>3, DatedBegin

\* An update writes a deposit that is dated if what it read was, or it was asked for.
LEMMA DatedWriteUpdate ==
    ASSUME LocalDepositsInv, DatedInv, StorageInv', NEW c \in Calls, WriteUpdate(c)
    PROVE  DatedInv'
<1> DEFINE i == calls[c].id
           v == calls[c].updates ++ calls[c].read
<1>1. /\ calls[c].at = "update" /\ _setDocument(Collection, i, v)
      /\ calls' = [calls EXCEPT ![c] = Idle] /\ UNCHANGED undated
  BY DEF WriteUpdate, End
<1>2. i \in Ids /\ v \in Deposits /\ Dated(i, v, undated)
  BY <1>1, CallsAre, UpdatedIsDeposit, UpdatedIsDated DEF LocalDepositsInv, DatedInv, DatedCall
<1> HIDE DEF v
<1>3. DatedAll(Current', undated) /\ file' \in {data', file, Corrupt}
  BY <1>1, <1>2, DatedSetDocument DEF LocalDepositsInv, DatedInv
<1>4. \A d \in Calls : DatedCall(calls'[d], undated)
  BY <1>1 DEF LocalDepositsInv, CallsInv, DatedInv, DatedCall, Idle
<1>5. QED
  BY <1>1, <1>3, <1>4, DatedStep DEF DatedInv

\* A deletion takes its deposit away.
LEMMA DatedDelete ==
    ASSUME LocalDepositsInv, DatedInv, StorageInv', NEW c \in Calls, Delete(c)
    PROVE  DatedInv'
<1>1. /\ _deleteDocument(Collection, calls[c].id)
      /\ calls' = [calls EXCEPT ![c] = Idle] /\ UNCHANGED undated
  BY DEF Delete, End
<1>2. DatedAll(Current', undated) /\ file' \in {data', file, Corrupt}
  BY <1>1, DatedDeleteDocument DEF LocalDepositsInv, DatedInv
<1>3. \A d \in Calls : DatedCall(calls'[d], undated)
  BY <1>1 DEF LocalDepositsInv, CallsInv, DatedInv, DatedCall, Idle
<1>4. QED
  BY <1>1, <1>2, <1>3, DatedStep DEF DatedInv

\* A new deposit is not completed.
LEMMA DatedCreate ==
    ASSUME LocalDepositsInv, DatedInv, StorageInv', NEW i \in Ids, Create(i)
    PROVE  DatedInv'
<1> DEFINE v == Entry("status", "PENDING")
<1>1. _setDocument(Collection, i, v) /\ UNCHANGED <<calls, undated>>
  BY DEF Create
<1>2. v \in Deposits /\ Dated(i, v, undated)
  BY PendingIsDeposit DEF Dated, Entry
<1> HIDE DEF v
<1>3. DatedAll(Current', undated) /\ file' \in {data', file, Corrupt}
  BY <1>1, <1>2, DatedSetDocument DEF LocalDepositsInv, DatedInv
<1>4. QED
  BY <1>1, <1>3, DatedStep DEF DatedInv

\* An update that bypasses the repository asks and writes at once.
LEMMA DatedPatch ==
    ASSUME LocalDepositsInv, DatedInv, StorageInv', NEW i \in Ids, NEW u \in UpdateData, Patch(i, u)
    PROVE  DatedInv'
<1> DEFINE v == u ++ Current[i]
<1>1. /\ i \in DOMAIN Current /\ _setDocument(Collection, i, v)
      /\ Ask(i, u) /\ UNCHANGED calls
  BY DEF Patch, update, exists, getData, Current
<1>2. /\ undated \subseteq undated' /\ undated' \subseteq Ids /\ (Undated(u) => i \in undated')
      /\ DatedAll(Current, undated') /\ \A c \in Calls : DatedCall(calls[c], undated')
  BY <1>1, AskIs
<1>3. Current[i] \in Deposits
  BY <1>1, CurrentIs DEF LocalDepositsInv, StorageInv, AreDocuments
<1>4. v \in Deposits /\ Dated(i, v, undated')
  BY <1>1, <1>2, <1>3, UpdatedIsDeposit, UpdatedIsDated DEF DatedAll
<1> HIDE DEF v
<1>5. DatedAll(Current', undated') /\ file' \in {data', file, Corrupt}
  BY <1>1, <1>2, <1>4, DatedSetDocument DEF LocalDepositsInv
<1>6. QED
  BY <1>1, <1>2, <1>5, DatedStep

\* A restart finds what the file holds, and no calls.
LEMMA DatedRestart ==
    ASSUME LocalDepositsInv, DatedInv, StorageInv', Restart
    PROVE  DatedInv'
<1>1. PICK f \in {file, Corrupt} : Construct(f)
  BY DEF Restart
<1>2. data' = loadOrCreateStorage(f) /\ file' = f /\ UNCHANGED undated
  BY <1>1 DEF Construct, Restart
<1>3. Current' = DocumentsIn(loadOrCreateStorage(f))
  BY <1>2 DEF Current, Documents, _getCollection, createEmptyCollection, DocumentsIn
<1>4. DatedAll(DocumentsIn(loadOrCreateStorage(f)), undated)
  BY DEF DatedInv, DatedAll, DocumentsIn, loadOrCreateStorage, createEmptyStorage, NoDocuments
<1>5. \A c \in Calls : DatedCall(calls'[c], undated)
  BY DEF Restart, DatedCall, Idle
<1>6. QED
  BY <1>2, <1>3, <1>4, <1>5 DEF DatedInv, loadOrCreateStorage, DocumentsIn

\* DatedInv holds before the first start, and every step preserves it.
LEMMA DatedInvInit == Init => DatedInv
<1> SUFFICES ASSUME Init PROVE DatedInv
  OBVIOUS
<1>1. loadOrCreateStorage(file) = createEmptyStorage /\ data = createEmptyStorage
  BY DEF Init, InitStorage, loadOrCreateStorage
<1>2. Current = NoDocuments /\ DocumentsIn(createEmptyStorage) = NoDocuments
  BY <1>1 DEF Current, Documents, _getCollection, createEmptyStorage, createEmptyCollection, DocumentsIn
<1>3. DatedAll(NoDocuments, undated)
  BY DEF DatedAll, NoDocuments
<1>4. \A c \in Calls : DatedCall(calls[c], undated)
  BY DEF Init, DatedCall, Idle
<1>5. QED
  BY <1>1, <1>2, <1>3, <1>4 DEF Init, DatedInv

LEMMA DatedInvNext ==
    LocalDepositsInv /\ LocalDepositsInv' /\ DatedInv /\ [Next]_vars => DatedInv'
<1> SUFFICES ASSUME LocalDepositsInv, StorageInv', DatedInv, [Next]_vars PROVE DatedInv'
  BY DEF LocalDepositsInv
<1>1. CASE UNCHANGED vars
  <2>1. Current' = Current /\ UNCHANGED <<file, calls, undated>>
    BY <1>1 DEF vars, storage, Current, Documents, _getCollection
  <2>2. QED
    BY <2>1, DatedQuiet
<1>2. CASE Open
  BY <1>2, OpenIs, DatedQuiet DEF Open, LocalDepositsInv
<1>3. ASSUME NEW i \in Ids, NEW u \in Updates, Patch(i, u) PROVE DatedInv'
  BY <1>3, DatedPatch, LocalDepositsAssumption
<1>4. ASSUME NEW i \in Ids, NEW c \in Calls, NEW u \in Updates, Update(c, i, u) PROVE DatedInv'
  BY <1>4, DatedReadForUpdate, LocalDepositsAssumption DEF Update
<1>5. ASSUME NEW i \in Ids, NEW c \in Calls, NEW status \in NewStatuses, UpdateStatus(c, i, status)
      PROVE  DatedInv'
  BY <1>5, DatedReadForUpdate, StatusIsUpdate DEF UpdateStatus
<1>6. ASSUME NEW i \in Ids, NEW c \in Calls, FindForDelete(c, i) PROVE DatedInv'
  <2> DEFINE call == [at |-> "delete", id |-> i]
  <2>1. Begin(c, call) /\ UNCHANGED undated
    BY <1>6 DEF FindForDelete
  <2>2. DatedCall(call, undated')
    BY DEF DatedCall
  <2> HIDE DEF call
  <2>3. QED
    BY <2>1, <2>2, DatedBegin DEF DatedInv
<1>7. CASE ClearAll \/ DeleteCollection \/ ClearStorage
  <2>1. Current' = NoDocuments /\ file' \in {data', file, Corrupt} /\ UNCHANGED <<calls, undated>>
    BY <1>7, EmptiedIs DEF ClearAll, DeleteCollection, ClearStorage, Emptied, LocalDepositsInv
  <2>2. DatedAll(NoDocuments, undated)
    BY DEF DatedAll, NoDocuments
  <2>3. QED
    BY <2>1, <2>2, DatedStep DEF DatedInv
<1>8. CASE EndOfTurn /\ StoreStep
  <2>1. data' = data /\ file' \in {data', file, Corrupt} /\ UNCHANGED <<calls, undated>>
    BY <1>8, StoreStepIs DEF StoreStep, LocalDepositsInv
  <2>2. Current' = Current
    BY <2>1 DEF Current, Documents, _getCollection
  <2>3. QED
    BY <2>1, <2>2, DatedQuiet
<1>9. QED
  BY <1>1, <1>2, <1>3, <1>4, <1>5, <1>6, <1>7, <1>8,
     DatedCreate, DatedWriteUpdate, DatedDelete, DatedRestart DEF Next

\* Both invariants hold in every reachable state.
THEOREM LocalDepositsDatedInvariant == Spec => []DatedInv
BY DatedInvInit, DatedInvNext, LocalDepositsInvariant, PTL DEF Spec

-----------------------------------------------------------------------------
(* What follows from the invariant. *)

\* TypeOK, of memory, timer and histories in every reachable state.
THEOREM LocalDepositsTypeOK == Spec => []TypeOK
<1>1. LocalDepositsInv /\ DatedInv => TypeOK
  <2> SUFFICES ASSUME LocalDepositsInv, DatedInv PROVE TypeOK
    OBVIOUS
  <2>1. DOMAIN data \subseteq Names
    BY MapsAre DEF LocalDepositsInv, StorageInv, IsStorage, Storages
  <2>2. \A n \in DOMAIN data :
          /\ DOMAIN data[n].documents \subseteq Ids
          /\ \A i \in DOMAIN data[n].documents : data[n].documents[i] \in Deposits
    BY DEF LocalDepositsInv, StorageInv, IsStorage, AreDocuments
  <2>3. tainted \cap DOMAIN ideal = {}
    BY DEF LocalDepositsInv, CallsInv
  <2>4. undated \subseteq Ids
    BY DEF DatedInv
  <2>5. QED
    BY <2>1, <2>2, <2>3, <2>4 DEF LocalDepositsInv, StorageInv, Timer, TypeOK
<1>2. QED
  BY <1>1, LocalDepositsInvariant, LocalDepositsDatedInvariant, PTL

\* SetToSeq lists every element of a finite set once.
LEMMA SequenceOfSet ==
    ASSUME NEW S, IsFiniteSet(S)
    PROVE  /\ Cardinality(S) \in Nat /\ Len(SetToSeq(S)) = Cardinality(S)
           /\ SetToSeq(S) \in Injection(1 .. Cardinality(S), S)
           /\ SetToSeq(S) \in Surjection(1 .. Cardinality(S), S)
<1>1. Cardinality(S) \in Nat /\ \E f \in [1 .. Cardinality(S) -> S] : IsInjective(f)
  BY FS_CardinalityType DEF ExistsBijection, Bijection, Injection, IsInjective
<1>2. SetToSeq(S) \in [1 .. Cardinality(S) -> S] /\ IsInjective(SetToSeq(S))
  BY <1>1 DEF SetToSeq
<1>3. SetToSeq(S) \in Injection(1 .. Cardinality(S), S)
  BY <1>2 DEF Injection
<1>4. IsFiniteSet(1 .. Cardinality(S)) /\ Cardinality(1 .. Cardinality(S)) = Cardinality(S)
  BY <1>1, FS_Interval
<1>5. SetToSeq(S) \in Surjection(1 .. Cardinality(S), S)
  BY <1>3, <1>4, FS_Injection
<1>6. QED
  BY <1>1, <1>2, <1>3, <1>5

\* Among the positions F of a sequence exactly one has m of them up to it.
LEMMA Ranks ==
    ASSUME NEW F, IsFiniteSet(F), F \subseteq Nat
    PROVE  /\ \A p \in F : Cardinality({q \in F : q <= p}) \in 1 .. Cardinality(F)
           /\ \A p, r \in F : Cardinality({q \in F : q <= p}) = Cardinality({q \in F : q <= r}) => p = r
           /\ \A m \in 1 .. Cardinality(F) : \E p \in F : Cardinality({q \in F : q <= p}) = m
<1> DEFINE upTo(p) == {q \in F : q <= p}
           rank == [p \in F |-> Cardinality(upTo(p))]
<1>1. Cardinality(F) \in Nat
  BY FS_CardinalityType
<1>2. ASSUME NEW p \in F
      PROVE  IsFiniteSet(upTo(p)) /\ Cardinality(upTo(p)) \in 1 .. Cardinality(F)
  <2>1. IsFiniteSet(upTo(p)) /\ Cardinality(upTo(p)) <= Cardinality(F)
    BY FS_Subset
  <2>2. Cardinality(upTo(p)) \in Nat
    BY <2>1, FS_CardinalityType
  <2>3. p \in upTo(p)
    OBVIOUS
  <2>4. Cardinality(upTo(p)) # 0
    BY <2>1, <2>3, FS_EmptySet
  <2> HIDE DEF upTo
  <2>5. QED
    BY <1>1, <2>1, <2>2, <2>4
<1>3. ASSUME NEW p \in F, NEW r \in F, p < r
      PROVE  Cardinality(upTo(p)) # Cardinality(upTo(r))
  <2>1. upTo(p) \in SUBSET upTo(r) /\ r \in upTo(r) /\ r \notin upTo(p)
    <3>1. p \in Nat /\ r \in Nat /\ ~(r <= p) /\ r <= r
      BY <1>3
    <3>2. \A q \in Nat : q <= p => q <= r
      BY <1>3, <3>1
    <3>3. QED
      BY <3>1, <3>2
  <2>2. upTo(p) # upTo(r)
    BY <2>1
  <2> HIDE DEF upTo
  <2>3. QED
    BY <1>2, <2>1, <2>2, FS_Subset
<1>4. \A p, r \in F : Cardinality(upTo(p)) = Cardinality(upTo(r)) => p = r
  <2> SUFFICES ASSUME NEW p \in F, NEW r \in F, Cardinality(upTo(p)) = Cardinality(upTo(r))
               PROVE  p = r
    OBVIOUS
  <2>1. p < r \/ r < p \/ p = r
    OBVIOUS
  <2> HIDE DEF upTo
  <2>2. QED
    BY <1>3, <2>1
<1> HIDE DEF upTo
<1>5. rank \in Injection(F, 1 .. Cardinality(F))
  BY <1>2, <1>4 DEF Injection, IsInjective
<1>6. IsFiniteSet(1 .. Cardinality(F)) /\ Cardinality(1 .. Cardinality(F)) = Cardinality(F)
  BY <1>1, FS_Interval
<1>7. rank \in Surjection(F, 1 .. Cardinality(F))
  BY <1>5, <1>6, FS_Injection
<1>8. \A m \in 1 .. Cardinality(F) : \E p \in F : Cardinality(upTo(p)) = m
  BY <1>7 DEF Surjection
<1>9. QED
  BY <1>2, <1>4, <1>8 DEF upTo

\* What Select finds in a list of a set S: the elements of S that are wanted, as many as
\* there are, and none twice.
LEMMA Selected ==
    ASSUME NEW S, IsFiniteSet(S), NEW W \in SUBSET S
    PROVE  LET found == Select(SetToSeq(S), W)
           IN  /\ Cardinality(W) \in Nat /\ found \in Surjection(1 .. Cardinality(W), W)
               /\ Len(found) = Cardinality(W)
<1> DEFINE s == SetToSeq(S)
           F == {p \in DOMAIN s : s[p] \in W}
           rank(p) == Cardinality({q \in F : q <= p})
           position(m) == CHOOSE p \in F : rank(p) = m
           found == Select(s, W)
<1>1. /\ Cardinality(S) \in Nat /\ s \in Injection(1 .. Cardinality(S), S)
      /\ s \in Surjection(1 .. Cardinality(S), S)
  BY SequenceOfSet
<1>2. DOMAIN s = 1 .. Cardinality(S) /\ F \subseteq Nat
  BY <1>1 DEF Injection
<1>3. IsFiniteSet(F)
  <2>1. IsFiniteSet(1 .. Cardinality(S)) /\ F \in SUBSET (1 .. Cardinality(S))
    BY <1>1, <1>2, FS_Interval
  <2> HIDE DEF F
  <2>2. QED
    BY <2>1, FS_Subset
<1>4. [p \in F |-> s[p]] \in Bijection(F, W)
  BY <1>1, <1>2 DEF Injection, Surjection, Bijection, IsInjective
<1>5. Cardinality(F) = Cardinality(W) /\ Cardinality(W) \in Nat
  BY <1>3, <1>4, FS_Bijection, FS_CardinalityType DEF ExistsBijection
<1>6. found = [m \in 1 .. Cardinality(F) |-> s[position(m)]]
  BY DEF Select
<1>7. /\ \A p \in F : rank(p) \in 1 .. Cardinality(F)
      /\ \A p, r \in F : rank(p) = rank(r) => p = r
      /\ \A m \in 1 .. Cardinality(F) : \E p \in F : rank(p) = m
  BY <1>2, <1>3, Ranks
<1>8. \A p \in F : s[p] \in W
  OBVIOUS
<1>9. \A i \in W : \E p \in F : s[p] = i
  BY <1>1, <1>2 DEF Surjection
<1> HIDE DEF s, F, rank, found
<1>10. \A m \in 1 .. Cardinality(F) : position(m) \in F /\ rank(position(m)) = m
  BY <1>7
<1>11. \A p \in F : position(rank(p)) = p
  BY <1>7, <1>10
<1> HIDE DEF position
<1>12. found \in Surjection(1 .. Cardinality(W), W)
  <2>1. found \in [1 .. Cardinality(W) -> W]
    BY <1>5, <1>6, <1>8, <1>10
  <2>2. ASSUME NEW i \in W PROVE \E m \in 1 .. Cardinality(W) : found[m] = i
    BY <1>5, <1>6, <1>7, <1>9, <1>11
  <2>3. QED
    BY <2>1, <2>2 DEF Surjection
<1>13. Len(found) = Cardinality(W)
  BY <1>5, <1>6
<1>14. QED
  BY <1>5, <1>12, <1>13 DEF s, found

\* A page of one element, from a list that is at least as long as the offset.
LEMMA OnePage ==
    ASSUME NEW W, NEW size \in Nat, NEW found \in [1 .. size -> W], Len(found) = size,
           NEW k \in 0 .. size
    PROVE  LET rest == SubSeq(found, k + 1, Len(found))
           IN  (IF 1 > 0 /\ 1 < Len(rest) THEN SubSeq(rest, 1, 1) ELSE rest) =
                   (IF k < size THEN <<found[k + 1]>> ELSE <<>>)
<1> DEFINE rest == SubSeq(found, k + 1, size)
<1>1. /\ rest \in Seq(W) /\ Len(rest) = size - k
      /\ \A i \in 1 .. size - k : rest[i] = found[k + i]
  <2>1. \A i \in k + 1 .. size : found[i] \in W
    OBVIOUS
  <2>2. QED
    BY <2>1, SubSeqProperties
<1> HIDE DEF rest
<1>2. CASE k = size
  <2>1. rest = <<>>
    BY <1>1, <1>2
  <2>2. Len(rest) = 0
    BY <1>1, <1>2
  <2>3. QED
    BY <1>2, <2>1, <2>2 DEF rest
<1>3. CASE k < size
  <2>1. rest[1] = found[k + 1] /\ rest[1] \in W
    BY <1>1, <1>3
  <2>2. CASE Len(rest) = 1
    <3>1. rest = <<found[k + 1]>>
      BY <1>1, <2>1, <2>2
    <3>2. QED
      BY <1>3, <2>2, <3>1 DEF rest
  <2>3. CASE 1 < Len(rest)
    <3>1. \A i \in 1 .. 1 : rest[i] \in W
      BY <2>1
    <3> DEFINE page == SubSeq(rest, 1, 1)
    <3>2. page \in Seq(W) /\ Len(page) = 1 /\ page[1] = rest[1]
      BY <3>1, SubSeqProperties, SMTT(30)
    <3> HIDE DEF page
    <3>3. page = <<rest[1]>>
      BY <3>2
    <3>4. QED
      BY <1>3, <2>1, <2>3, <3>3 DEF rest, page
  <2>4. QED
    BY <1>1, <1>3, <2>2, <2>3
<1>4. QED
  BY <1>2, <1>3

\* count() and getAll() never disagree, restarts and failed saves included.
THEOREM LocalDepositsCountMatches == Spec => []CountMatches
<1>1. ASSUME StorageInv, NEW n \in Names PROVE count(n) = Len(getAll(n))
  <2>1. CASE n \in DOMAIN data
    <3>1. AreDocuments(data[n].documents) /\ count(n) = Cardinality(DOMAIN data[n].documents)
      BY <1>1, <2>1 DEF StorageInv, IsStorage, count, _getCollection
    <3>2. IsFiniteSet(DOMAIN data[n].documents)
      BY <3>1, LocalDepositsAssumption, FS_Subset DEF AreDocuments
    <3>3. getAll(n) = SetToSeq(DOMAIN data[n].documents)
      BY <2>1 DEF getAll, Documents, _getCollection
    <3>4. QED
      BY <3>1, <3>2, <3>3, SequenceOfSet
  <2>2. CASE n \notin DOMAIN data
    <3>1. count(n) = 0 /\ getAll(n) = SetToSeq({})
      BY <2>2 DEF count, getAll, Documents, _getCollection, createEmptyCollection, NoDocuments
    <3>2. QED
      BY <3>1, SequenceOfSet, FS_EmptySet
  <2>3. QED
    BY <2>1, <2>2
<1>2. LocalDepositsInv => CountMatches
  BY <1>1 DEF LocalDepositsInv, CountMatches
<1>3. QED
  BY <1>2, LocalDepositsInvariant, PTL

\* A limit of 0 finds every deposit of a status once, and paging finds them one by one in the
\* same order: query filters first, drops what the offset names next and cuts to the limit last.
THEOREM LocalDepositsPagesTile == Spec => []PagesTile
<1>1. ASSUME StorageInv, NEW status PROVE
        LET ofStatus == {i \in DOMAIN Current : Current[i]["status"] = status}
            all == findByStatus(status, 0)
            Page(k) == query(Collection, ofStatus, k, 1)
        IN /\ Len(all) = Cardinality(ofStatus)
           /\ {all[k] : k \in 1..Cardinality(ofStatus)} = ofStatus
           /\ \A k \in 1..Cardinality(ofStatus) : Page(k - 1) = <<all[k]>>
           /\ Page(Cardinality(ofStatus)) = <<>>
  <2> DEFINE ofStatus == {i \in DOMAIN Current : Current[i]["status"] = status}
             Page(k) == query(Collection, ofStatus, k, 1)
             size == Cardinality(ofStatus)
             found == Select(getAll(Collection), ofStatus)
  <2>1. IsFiniteSet(DOMAIN Current) /\ getAll(Collection) = SetToSeq(DOMAIN Current)
    <3>1. CASE Collection \in DOMAIN data
      BY <1>1, <3>1, LocalDepositsAssumption, FS_Subset
         DEF StorageInv, IsStorage, AreDocuments, Current, getAll, Documents, _getCollection
    <3>2. CASE Collection \notin DOMAIN data
      BY <3>2, FS_EmptySet
         DEF Current, getAll, Documents, _getCollection, createEmptyCollection, NoDocuments
    <3>3. QED
      BY <3>1, <3>2
  <2>2. size \in Nat /\ found \in Surjection(1 .. size, ofStatus) /\ Len(found) = size
    BY <2>1, Selected
  <2>3. \A k \in 0 .. size : Page(k) = IF k < size THEN <<found[k + 1]>> ELSE <<>>
    <3> SUFFICES ASSUME NEW k \in 0 .. size
                 PROVE  Page(k) = IF k < size THEN <<found[k + 1]>> ELSE <<>>
      OBVIOUS
    <3>1. found \in [1 .. size -> ofStatus]
      BY <2>2 DEF Surjection
    <3> DEFINE rest == SubSeq(found, k + 1, Len(found))
    <3>2. Page(k) = IF 1 > 0 /\ 1 < Len(rest) THEN SubSeq(rest, 1, 1) ELSE rest
      BY DEF query
    <3> HIDE DEF Page, size, found, ofStatus
    <3>3. (IF 1 > 0 /\ 1 < Len(rest) THEN SubSeq(rest, 1, 1) ELSE rest) =
            (IF k < size THEN <<found[k + 1]>> ELSE <<>>)
      <4>1. size \in Nat /\ Len(found) = size
        BY <2>2
      <4>2. QED
        BY <3>1, <4>1, OnePage, Zenon
    <3> HIDE DEF rest
    <3>4. QED
      BY <3>2, <3>3
  <2>4. findByStatus(status, 0) = found
    <3>1. found \in [1 .. size -> ofStatus]
      BY <2>2 DEF Surjection
    <3>2. findByStatus(status, 0) = SubSeq(found, 1, Len(found))
      BY DEF findByStatus, query
    <3> HIDE DEF found, size, ofStatus
    <3>3. QED
      BY <2>2, <3>1, <3>2, SubSeqProperties
  <2> HIDE DEF Page, size, found, ofStatus
  <2>5. {found[k] : k \in 1 .. size} = ofStatus
    BY <2>2 DEF Surjection
  <2>6. \A k \in 1 .. size : Page(k - 1) = <<found[k]>>
    <3> SUFFICES ASSUME NEW k \in 1 .. size PROVE Page(k - 1) = <<found[k]>>
      OBVIOUS
    <3>1. k - 1 \in 0 .. size /\ k - 1 < size /\ (k - 1) + 1 = k
      BY <2>2
    <3>2. QED
      BY <2>3, <3>1
  <2>7. Page(size) = <<>>
    BY <2>2, <2>3
  <2>8. QED
    BY <2>2, <2>4, <2>5, <2>6, <2>7 DEF Page, size, ofStatus
<1>2. LocalDepositsInv => PagesTile
  BY <1>1 DEF LocalDepositsInv, PagesTile
<1>3. QED
  BY <1>2, LocalDepositsInvariant, PTL

\* A crash loses only what a timer, a failed save or clear() explains.
THEOREM LocalDepositsStaleFileIsExplained == Spec => []StaleFileIsExplained
<1>1. LocalDepositsInv => StaleFileIsExplained
  BY DEF LocalDepositsInv, StorageInv, Timer, Written, StaleFileIsExplained
<1>2. QED
  BY <1>1, LocalDepositsInvariant, PTL

\* No change waits longer than autoSaveInterval for its save to be tried.
THEOREM LocalDepositsSavedInTime == Spec => []SavedInTime
<1>1. LocalDepositsInv => SavedInTime
  BY DEF LocalDepositsInv, StorageInv, Timer, SavedInTime
<1>2. QED
  BY <1>1, LocalDepositsInvariant, PTL

\* Updates and deletions of the repository are atomic for every deposit whose calls did not
\* overlap: lost updates come from overlapping calls alone.
THEOREM LocalDepositsAtomicUnlessOverlapped == Spec => []AtomicUnlessOverlapped
<1>1. LocalDepositsInv => AtomicUnlessOverlapped
  BY DEF LocalDepositsInv, CallsInv, AtomicUnlessOverlapped
<1>2. QED
  BY <1>1, LocalDepositsInvariant, PTL

\* A deposit is found completed without its time only where a caller of update completed it
\* so, whatever overlapped, was lost or came back from an older file.
THEOREM LocalDepositsCompletedHasTime == Spec => []CompletedHasTime
<1>1. DatedInv => CompletedHasTime
  BY DEF DatedInv, DatedAll, Dated, CompletedHasTime
<1>2. QED
  BY <1>1, LocalDepositsDatedInvariant, PTL

-----------------------------------------------------------------------------
(* The refinement. *)

\* What a storage promises is neither garbage nor anything but the documents.
LEMMA ContentsAre ==
    ASSUME NEW d, IsStorage(d)
    PROVE  Contents(d) # Corrupt /\ d \notin {Missing, Corrupt}
<1>1. Contents(d) \in Memories
  <2>1. /\ Contents(d) = [n \in DOMAIN Contents(d) |-> Contents(d)[n]]
        /\ DOMAIN Contents(d) = DOMAIN d
        /\ \A n \in DOMAIN d : Contents(d)[n] = d[n].documents
    BY DEF Contents
  <2>2. \A n \in DOMAIN d : d[n].documents \in Maps(Ids, Deposits)
    BY CollectionIs DEF IsStorage
  <2>3. DOMAIN d \subseteq Names
    BY MapsAre DEF IsStorage, Storages
  <2>4. QED
    BY <2>1, <2>2, <2>3, MapsAre DEF Memories
<1>2. QED
  BY <1>1, LocalDepositsAssumption DEF IsStorage

\* The changes that repository and store make.
Changed ==
    \/ data' = data
    \/ data' = createEmptyStorage
    \/ Collection \in DOMAIN data /\ data' = [m \in DOMAIN data \ {Collection} |-> data[m]]
    \/ \E number : data' = With(Collection, NoDocuments, number)
    \/ /\ Collection \in DOMAIN data
       /\ \E number : \E i \in Ids, v \in Deposits : data' = With(Collection, Put(i, v), number)
    \/ /\ Collection \in DOMAIN data
       /\ \E number : \E i \in DOMAIN Current :
            data' = With(Collection, [j \in DOMAIN Current \ {i} |-> Current[j]], number)

\* Replacing a collection replaces its documents in the abstract store.
LEMMA ContentsOfWith ==
    ASSUME NEW n, NEW documents, NEW number
    PROVE  Contents(With(n, documents, number)) = Store!With(n, documents)
BY DEF Contents, With, Store!With, Store!++, Store!Entry

\* Each of them is one change of the abstract store.
LEMMA ChangedIsChange == ASSUME IsStorage(data), Changed PROVE Store!Change
<1>1. /\ DOMAIN Contents(data) = DOMAIN data
      /\ \A n \in DOMAIN data : Contents(data)[n] = data[n].documents
  BY DEF Contents
<1>2. Collection \in DOMAIN data => Contents(data)[Collection] = Current
  BY <1>1, CurrentIs
<1>3. Contents(data)' = Contents(data')
  BY DEF Contents
<1>4. CASE data' = data
  BY <1>3, <1>4 DEF Store!Change
<1>5. CASE data' = createEmptyStorage
  <2>1. Contents(data') = Store!Nothing
    BY <1>5 DEF Contents, createEmptyStorage, Store!Nothing
  <2>2. QED
    BY <1>3, <2>1 DEF Store!Change
<1>6. CASE Collection \in DOMAIN data /\ data' = [m \in DOMAIN data \ {Collection} |-> data[m]]
  <2>1. Contents(data') = Store!Without(Contents(data), Collection)
    BY <1>6 DEF Contents, Store!Without
  <2>2. QED
    BY <1>1, <1>3, <1>6, <2>1 DEF Store!Change
<1>7. ASSUME NEW number, data' = With(Collection, NoDocuments, number)
      PROVE  Store!Change
  <2>1. Contents(data') = Store!With(Collection, Store!Nothing)
    BY <1>7, ContentsOfWith DEF NoDocuments, Store!Nothing
  <2>2. QED
    BY <1>1, <1>3, <2>1, LocalDepositsAssumption DEF Store!Change
<1>8. ASSUME Collection \in DOMAIN data, NEW number, NEW i \in Ids, NEW v \in Deposits,
             data' = With(Collection, Put(i, v), number)
      PROVE  Store!Change
  <2>1. Put(i, v) = Store!++(Store!Entry(i, v), Current)
    BY DEF Put, Store!++, Store!Entry
  <2>2. Contents(data') = Store!With(Collection, Store!++(Store!Entry(i, v), Contents(data)[Collection]))
    BY <1>2, <1>8, <2>1, ContentsOfWith
  <2>3. QED
    BY <1>1, <1>3, <1>8, <2>2 DEF Store!Change
<1>9. ASSUME Collection \in DOMAIN data, NEW number, NEW i \in DOMAIN Current,
             data' = With(Collection, [j \in DOMAIN Current \ {i} |-> Current[j]], number)
      PROVE  Store!Change
  <2>1. [j \in DOMAIN Current \ {i} |-> Current[j]] = Store!Without(Current, i)
    BY DEF Store!Without
  <2>2. Contents(data') = Store!With(Collection, Store!Without(Contents(data)[Collection], i))
    BY <1>2, <1>9, <2>1, ContentsOfWith
  <2>3. QED
    BY <1>1, <1>2, <1>3, <1>9, <2>2 DEF Store!Change
<1>10. QED
  BY <1>4, <1>5, <1>6, <1>7, <1>8, <1>9 DEF Changed

\* The file is left, or becomes the new memory or garbage.
LEMMA ChangedIsWork ==
    ASSUME StorageInv, StorageInv', file' \in {data', file, Corrupt}, Changed
    PROVE  Store!Work
<1> DEFINE disk(f) == IF f = Corrupt THEN Corrupt ELSE Contents(loadOrCreateStorage(f))
<1>1. Store!Change
  BY ChangedIsChange DEF StorageInv
<1>2. disk(file)' = disk(file') /\ Contents(data)' = Contents(data')
  BY DEF Contents, loadOrCreateStorage
<1>3. disk(data') = Contents(data')
  BY ContentsAre DEF StorageInv, loadOrCreateStorage
<1>4. disk(file') \in {disk(file), Contents(data'), Corrupt}
  BY <1>3
<1>5. QED
  BY <1>1, <1>2, <1>4 DEF Store!Work

\* A restart begins with the file alone.
LEMMA RestartIsRecover == ASSUME StorageInv, Restart PROVE Store!Recover
<1> DEFINE disk(f) == IF f = Corrupt THEN Corrupt ELSE Contents(loadOrCreateStorage(f))
<1>1. PICK f \in {file, Corrupt} : Construct(f)
  BY DEF Restart
<1>2. data' = loadOrCreateStorage(f) /\ file' = f
  BY <1>1 DEF Construct
<1>3. disk(file)' = disk(f) /\ Contents(data)' = Contents(loadOrCreateStorage(f))
  BY <1>2 DEF Contents, loadOrCreateStorage
<1>4. disk(f) \in {disk(file), Corrupt}
  OBVIOUS
<1>5. CASE f = Corrupt
  <2>1. Contents(loadOrCreateStorage(f)) = Store!Nothing
    BY <1>5 DEF Contents, loadOrCreateStorage, createEmptyStorage, Store!Nothing
  <2>2. QED
    BY <1>3, <1>4, <1>5, <2>1 DEF Store!Recover
<1>6. CASE f # Corrupt
  <2>1. IsStorage(loadOrCreateStorage(f))
    BY <1>1, <1>6, EmptyIsStorage DEF StorageInv, IsFile, loadOrCreateStorage
  <2>2. disk(f) # Corrupt /\ disk(f) = Contents(loadOrCreateStorage(f))
    BY <1>6, <2>1, ContentsAre
  <2>3. QED
    BY <1>3, <1>4, <2>2 DEF Store!Recover
<1>7. QED
  BY <1>5, <1>6

\* Setting or deleting a document is such a change, or none.
LEMMA DocumentsChanged ==
    /\ \A i \in Ids : \A v : StorageInv /\ v \in Deposits /\ _setDocument(Collection, i, v) =>
         Changed /\ file' \in {data', file, Corrupt}
    /\ \A i : StorageInv /\ _deleteDocument(Collection, i) =>
         Changed /\ file' \in {data', file, Corrupt}
<1>1. UNCHANGED storage => Changed /\ file' \in {data', file, Corrupt}
  BY DEF storage, Changed
<1>2. ASSUME StorageInv, NEW i \in Ids, NEW v \in Deposits, _setDocument(Collection, i, v)
      PROVE  Changed /\ file' \in {data', file, Corrupt}
  <2>1. CASE Collection \in DOMAIN data
    <3>1. Replaced(Put(i, v))
      BY <1>2, <2>1, SetDocumentIs
    <3>2. PICK number : data' = With(Collection, Put(i, v), number)
      BY <3>1 DEF Replaced
    <3>3. v \in Deposits /\ file' \in {data', file, Corrupt}
      BY <1>2, <3>1 DEF Replaced
    <3>4. QED
      BY <2>1, <3>2, <3>3 DEF Changed
  <2>2. CASE Collection \notin DOMAIN data
    BY <1>1, <1>2, <2>2, SetDocumentIs
  <2>3. QED
    BY <2>1, <2>2
<1>3. ASSUME StorageInv, NEW i, _deleteDocument(Collection, i)
      PROVE  Changed /\ file' \in {data', file, Corrupt}
  <2>1. CASE i \in DOMAIN Current
    <3>1. Replaced([j \in DOMAIN Current \ {i} |-> Current[j]])
      BY <1>3, <2>1, DeleteDocumentIs
    <3>2. Collection \in DOMAIN data
      BY <1>3, <2>1, CurrentIs DEF StorageInv, NoDocuments
    <3>3. PICK number : data' = With(Collection, [j \in DOMAIN Current \ {i} |-> Current[j]], number)
      BY <3>1 DEF Replaced
    <3>4. file' \in {data', file, Corrupt}
      BY <3>1 DEF Replaced
    <3>5. QED
      BY <2>1, <3>2, <3>3, <3>4 DEF Changed
  <2>2. CASE i \notin DOMAIN Current
    BY <1>1, <1>3, <2>2, DeleteDocumentIs
  <2>3. QED
    BY <2>1, <2>2
<1>4. QED
  BY <1>2, <1>3

\* Every step of the repository maps to a step of the abstract store.
LEMMA StepIsStoreStep ==
    ASSUME LocalDepositsInv, LocalDepositsInv', Next
    PROVE  Store!Work \/ Store!Recover
<1>1. StorageInv /\ StorageInv'
  BY DEF LocalDepositsInv
<1>2. CASE Open
  BY <1>1, <1>2, OpenIs, ChangedIsWork DEF Changed
<1>3. ASSUME NEW i \in Ids, Create(i) PROVE Store!Work
  BY <1>1, <1>3, PendingIsDeposit, DocumentsChanged, ChangedIsWork DEF Create
<1>4. ASSUME NEW i \in Ids, NEW u \in Updates, Patch(i, u) PROVE Store!Work
  <2>1. i \in DOMAIN Current /\ _setDocument(Collection, i, u ++ Current[i])
    BY <1>4 DEF Patch, update, exists, getData, Current
  <2>2. u ++ Current[i] \in Deposits
    BY <1>1, <2>1, CurrentIs, UpdatedIsDeposit, LocalDepositsAssumption DEF StorageInv, AreDocuments
  <2>3. QED
    BY <1>1, <2>1, <2>2, DocumentsChanged, ChangedIsWork
<1>5. ASSUME NEW i, NEW c, NEW call, Begin(c, call) PROVE Store!Work
  BY <1>1, <1>5, ChangedIsWork DEF Begin, storage, Changed
<1>6. ASSUME NEW c \in Calls, WriteUpdate(c) PROVE Store!Work
  <2>1. /\ calls[c].at = "update" /\ _setDocument(Collection, calls[c].id, calls[c].updates ++ calls[c].read)
    BY <1>6 DEF WriteUpdate
  <2>2. calls[c].id \in Ids /\ calls[c].updates ++ calls[c].read \in Deposits
    BY <2>1, CallsAre, UpdatedIsDeposit DEF LocalDepositsInv
  <2>3. QED
    BY <1>1, <2>1, <2>2, DocumentsChanged, ChangedIsWork
<1>7. ASSUME NEW c \in Calls, Delete(c) PROVE Store!Work
  BY <1>1, <1>7, DocumentsChanged, ChangedIsWork DEF Delete
<1>8. CASE ClearAll \/ DeleteCollection \/ ClearStorage
  BY <1>1, <1>8, EmptiedIs, ChangedIsWork DEF ClearAll, DeleteCollection, ClearStorage, Changed
<1>9. CASE EndOfTurn /\ StoreStep
  BY <1>1, <1>9, StoreStepIs, ChangedIsWork DEF StoreStep, Changed
<1>10. CASE Restart
  BY <1>1, <1>10, RestartIsRecover
<1>11. QED
  BY <1>2, <1>3, <1>4, <1>5, <1>6, <1>7, <1>8, <1>9, <1>10 DEF Next, Update, UpdateStatus, ReadForUpdate, FindForDelete

\* Repository, store and file implement PersistentStore: single changes of a map, a disk that
\* is a whole content or garbage, restarts from the disk alone.
THEOREM LocalDepositsImplementsPersistentStore == Spec => ImplementsPersistentStore
<1> DEFINE disk == IF file = Corrupt THEN Corrupt ELSE Contents(loadOrCreateStorage(file))
<1>1. Init => Store!Init
  BY DEF Init, InitStorage, loadOrCreateStorage, createEmptyStorage, Contents, Store!Init, Store!Nothing
<1>2. LocalDepositsInv /\ LocalDepositsInv' /\ [Next]_vars
        => [Store!Work \/ Store!Recover]_<<Contents(data), disk>>
  <2>1. UNCHANGED vars => UNCHANGED <<Contents(data), disk>>
    BY DEF vars, storage, Contents, loadOrCreateStorage
  <2>2. QED
    BY <2>1, StepIsStoreStep
<1>3. QED
  BY <1>1, <1>2, LocalDepositsInvariant, PTL DEF Spec, ImplementsPersistentStore, Store!Spec
=============================================================================
