--------------------------- MODULE DepositsProofs ---------------------------
(***************************************************************************)
(* Proofs about Deposits for every set of ids and requests, whatever       *)
(* Firestore makes of the calls.  The invariant DepositsInv says that      *)
(* stored deposits are whole and ids are used once (Stored) and, of each   *)
(* request, that a document still to be created belongs to it alone        *)
(* (Owned), what it will read back (Shown) and what it was answered        *)
(* (Answered).  Steps that only move a request go through QuietStep, steps *)
(* that write through EffectIs; EffectIs and EffectIsAtomic also give the  *)
(* refinement of DepositStore.                                             *)
(***************************************************************************)
EXTENDS Deposits, TLAPS

\* A deposit that has a status, and the time of its completion if it is completed.
Whole(d) ==
    /\ d \in Documents
    /\ "status" \in DOMAIN d /\ d["status"] \in Statuses
    /\ d["status"] = "COMPLETED" => "completedAt" \in DOMAIN d

\* The documents are the functions from some of the fields to their values.
LEMMA DocumentsAre ==
    ASSUME NEW d
    PROVE  d \in Documents <=>
             /\ d = [x \in DOMAIN d |-> d[x]]
             /\ DOMAIN d \subseteq Fields
             /\ \A x \in DOMAIN d : d[x] \in Statuses \cup {"set"}
<1>1. ASSUME d \in Documents
      PROVE  /\ d = [x \in DOMAIN d |-> d[x]]
             /\ DOMAIN d \subseteq Fields
             /\ \A x \in DOMAIN d : d[x] \in Statuses \cup {"set"}
  BY <1>1 DEF Documents
<1>2. ASSUME d = [x \in DOMAIN d |-> d[x]], DOMAIN d \in SUBSET Fields,
             \A x \in DOMAIN d : d[x] \in Statuses \cup {"set"}
      PROVE  d \in Documents
  <2>1. d \in [DOMAIN d -> Statuses \cup {"set"}]
    BY <1>2
  <2>2. QED
    BY <1>2, <2>1 DEF Documents
<1>3. QED
  BY <1>1, <1>2

\* One field is a document.
LEMMA EntryIsWhole ==
    ASSUME NEW x \in Fields, NEW v \in Statuses \cup {"set"}
    PROVE  Entry(x, v) \in Documents /\ DOMAIN Entry(x, v) = {x} /\ Entry(x, v)[x] = v
BY DocumentsAre DEF Entry

\* What { ...g, ...f } holds.
LEMMA MergedDocuments ==
    ASSUME NEW f \in Documents, NEW g \in Documents
    PROVE  /\ f ++ g \in Documents
           /\ DOMAIN (f ++ g) = DOMAIN f \cup DOMAIN g
           /\ \A x \in DOMAIN f : (f ++ g)[x] = f[x]
           /\ \A x \in DOMAIN g \ DOMAIN f : (f ++ g)[x] = g[x]
<1>1. /\ DOMAIN (f ++ g) = DOMAIN f \cup DOMAIN g
      /\ \A x \in DOMAIN f : (f ++ g)[x] = f[x]
      /\ \A x \in DOMAIN g \ DOMAIN f : (f ++ g)[x] = g[x]
      /\ f ++ g = [x \in DOMAIN (f ++ g) |-> (f ++ g)[x]]
  BY DEF ++
<1>2. \A x \in DOMAIN (f ++ g) : (f ++ g)[x] \in Statuses \cup {"set"}
  BY <1>1, DocumentsAre
<1>3. DOMAIN (f ++ g) \subseteq Fields
  BY <1>1, DocumentsAre
<1>4. f ++ g \in Documents
  BY <1>1, <1>2, <1>3, DocumentsAre
<1>5. QED
  BY <1>1, <1>4

\* Every update of the repository has a status and, if it completes, the time.
LEMMA UpdatesAreWhole == \A u \in Updates : Whole(u)
<1> DEFINE first(status) == Entry("status", status)
           set(x) == Entry(x, "set")
<1>1. ASSUME NEW status \in Statuses
      PROVE  /\ first(status) \in Documents
             /\ DOMAIN first(status) = {"status"} /\ first(status)["status"] = status
  BY EntryIsWhole DEF Fields
<1>2. ASSUME NEW x \in Fields PROVE set(x) \in Documents /\ DOMAIN set(x) = {x}
  BY EntryIsWhole
<1>3. ASSUME NEW f \in Documents, "status" \in DOMAIN f, NEW x \in Fields
      PROVE  /\ f ++ set(x) \in Documents
             /\ DOMAIN (f ++ set(x)) = DOMAIN f \cup {x}
             /\ (f ++ set(x))["status"] = f["status"]
  BY <1>2, <1>3, MergedDocuments
<1>4. ASSUME NEW f \in Documents PROVE f ++ <<>> = f
  <2>1. f = [x \in DOMAIN f |-> f[x]]
    BY DocumentsAre
  <2>2. QED
    BY <2>1 DEF ++
<1> HIDE DEF first, set
<1>5. /\ markAsProcessing = first("PROCESSING") ++ set("externalReferenceId")
      /\ markAsFailed = (first("FAILED") ++ set("failureReason")) ++ set("statusMessage")
      /\ updateStatus("COMPLETED") = (first("COMPLETED") ++ set("statusMessage")) ++ set("completedAt")
      /\ updateStatus("CANCELLED") = (first("CANCELLED") ++ set("statusMessage")) ++ <<>>
  BY DEF markAsProcessing, markAsFailed, updateStatus, first, set
<1>6. /\ \A status \in {"PROCESSING", "FAILED", "COMPLETED", "CANCELLED"} : status \in Statuses
      /\ \A x \in {"externalReferenceId", "failureReason", "statusMessage", "completedAt"} : x \in Fields
  BY DEF Statuses, Fields
<1>7. ASSUME NEW status \in {"PROCESSING", "FAILED", "COMPLETED", "CANCELLED"},
             NEW x \in {"externalReferenceId", "failureReason", "statusMessage", "completedAt"}
      PROVE  /\ first(status) ++ set(x) \in Documents
             /\ DOMAIN (first(status) ++ set(x)) = {"status", x}
             /\ (first(status) ++ set(x))["status"] = status
  <2> DEFINE f == first(status)
  <2>1. f \in Documents /\ DOMAIN f = {"status"} /\ f["status"] = status
    BY <1>1, <1>6
  <2> HIDE DEF f
  <2>2. /\ f ++ set(x) \in Documents
        /\ DOMAIN (f ++ set(x)) = {"status", x}
        /\ (f ++ set(x))["status"] = status
    BY <1>3, <1>6, <2>1
  <2>3. QED
    BY <2>2 DEF f
<1>8. ASSUME NEW status \in {"PROCESSING", "FAILED", "COMPLETED", "CANCELLED"},
             NEW x \in {"externalReferenceId", "failureReason", "statusMessage", "completedAt"},
             NEW y \in {"externalReferenceId", "failureReason", "statusMessage", "completedAt"}
      PROVE  /\ (first(status) ++ set(x)) ++ set(y) \in Documents
             /\ DOMAIN ((first(status) ++ set(x)) ++ set(y)) = {"status", x, y}
             /\ ((first(status) ++ set(x)) ++ set(y))["status"] = status
  <2> DEFINE f == first(status) ++ set(x)
  <2>1. f \in Documents /\ DOMAIN f = {"status", x} /\ f["status"] = status
    BY <1>7
  <2> HIDE DEF f
  <2>2. /\ f ++ set(y) \in Documents
        /\ DOMAIN (f ++ set(y)) = {"status", x, y}
        /\ (f ++ set(y))["status"] = status
    BY <1>3, <1>6, <2>1
  <2>3. QED
    BY <2>2 DEF f
<1>9. Whole(markAsProcessing)
  BY <1>5, <1>6, <1>7 DEF Whole
<1>10. Whole(markAsFailed)
  BY <1>5, <1>6, <1>8 DEF Whole
<1>11. Whole(updateStatus("COMPLETED"))
  BY <1>5, <1>6, <1>8 DEF Whole
<1>12. Whole(updateStatus("CANCELLED"))
  BY <1>4, <1>5, <1>6, <1>7 DEF Whole
<1>13. QED
  BY <1>9, <1>10, <1>11, <1>12 DEF Updates

\* A deposit is created without being completed.
LEMMA PendingIsWhole == Whole(Pending)
BY EntryIsWhole DEF Pending, Whole, Fields, Statuses

\* An update leaves a whole deposit whole and shows in it.
LEMMA MergedIsWhole ==
    ASSUME NEW u, NEW d, Whole(u), Whole(d)
    PROVE  Whole(u ++ d) /\ \A x \in DOMAIN u : x \in DOMAIN (u ++ d) /\ (u ++ d)[x] = u[x]
BY MergedDocuments DEF Whole
-----------------------------------------------------------------------------
(* The inductive invariant. *)

Shapes ==
    {Idle} \cup [op : {"create"}, id : Ids, at : {"write", "done"}]
           \cup [op : {"update"}, id : Ids, updates : Updates, at : {"read", "write", "readback", "done"}]
           \cup [op : {"delete"}, id : Ids, at : {"read", "write", "done"}]
           \cup [op : {"get"}, id : Ids, at : {"readback", "done"}]

\* Ids are used once; whatever was stored is there or was deleted.
Stored ==
    /\ docs = [i \in DOMAIN docs |-> docs[i]]
    /\ created \subseteq Ids
    /\ created = DOMAIN docs \cup removed
    /\ \A i \in DOMAIN docs : Whole(docs[i])

\* A creation whose document may still be stored.
Creating(r) == request[r].op = "create" /\ (request[r].at = "write" \/ r \in late)

\* What is being created has an id of its own; everything else is about what was created.
Owned(r) ==
    request[r] # Idle =>
        /\ Creating(r) => /\ request[r].id \notin created
                          /\ \A s \in Requests \ {r} : request[s] # Idle => request[s].id # request[r].id
        /\ request[r].op # "create" => request[r].id \in created

\* Who reads back an update finds it unless others came in between.
Shown(r) ==
    request[r] # Idle /\ request[r].op = "update" /\ request[r].at = "readback" =>
        /\ r \in applied
        /\ r \notin overlapped /\ request[r].id \in DOMAIN docs =>
            \A field \in DOMAIN request[r].updates :
                /\ field \in DOMAIN docs[request[r].id]
                /\ docs[request[r].id][field] = request[r].updates[field]

Answered(r) ==
    /\ answer[r] = NotFound =>
         request[r] # Idle /\ request[r].op # "create" /\ request[r].id \notin DOMAIN docs
    /\ request[r].at = "done" /\ request[r].op = "update" /\ answer[r] \notin {NotFound, Failed} =>
         /\ r \in applied
         /\ r \in overlapped \/ \A field \in DOMAIN request[r].updates :
                                  /\ field \in DOMAIN answer[r].deposit
                                  /\ answer[r].deposit[field] = request[r].updates[field]

Late(r) == r \in late => request[r].at = "done" /\ request[r].op \in {"create", "update", "delete"}

Kept(r) == Owned(r) /\ Shown(r) /\ Answered(r) /\ Late(r)

Types ==
    /\ request \in [Requests -> Shapes]
    /\ answer \in [Requests -> Answers \cup {None}]
    /\ \A r \in Requests : (answer[r] = None) = (request[r].at # "done")
    /\ late \subseteq Requests /\ applied \subseteq Requests /\ overlapped \subseteq Requests

DepositsInv == Types /\ Stored /\ \A r \in Requests : Kept(r)

\* What the kind and the stage of a request say about it.
LEMMA ShapesAre ==
    ASSUME NEW q \in Shapes
    PROVE  /\ q.at \in {"idle", "read", "write", "readback", "done"}
           /\ q = Idle <=> q.at = "idle"
           /\ q # Idle => /\ q.id \in Ids
                          /\ q.op \in {"create", "update", "delete", "get"}
                          /\ q.op = "update" => q.updates \in Updates
           /\ q.at = "write" => q.op \in {"create", "update", "delete"}
           /\ q.at = "read" => q.op \in {"update", "delete"}
           /\ q.at = "readback" => q.op \in {"update", "get"}
BY DEF Shapes, Idle

\* There are no deposits and no requests yet.
LEMMA DepositsInvInit == Init => DepositsInv
<1> SUFFICES ASSUME Init PROVE DepositsInv
  OBVIOUS
<1>1. Types
  BY DepositsAssumption DEF Init, Types, Shapes, Idle
<1>2. Stored
  BY DEF Init, Stored
<1>3. ASSUME NEW r \in Requests PROVE Kept(r)
  <2>1. request[r] = Idle /\ request[r].at = "idle" /\ answer[r] = None /\ late = {}
    BY DEF Init, Idle
  <2>2. None # NotFound
    BY DepositsAssumption DEF Answers, NotFound
  <2>3. QED
    BY <2>1, <2>2 DEF Kept, Owned, Shown, Answered, Late
<1>4. QED
  BY <1>1, <1>2, <1>3 DEF DepositsInv

-----------------------------------------------------------------------------
(* Steps that leave the documents alone. *)

\* The requests that a step of r does not touch.
LEMMA OthersKept ==
    ASSUME DepositsInv, NEW r \in Requests, NEW s \in Requests \ {r},
           UNCHANGED <<docs, history>>,
           request'[s] = request[s], answer'[s] = answer[s], s \in late' => s \in late,
           Creating(s) => request'[r] = Idle \/ request'[r].id # request[s].id,
           \A t \in Requests \ {r} : request'[t] = request[t]
    PROVE  Kept(s)'
<1>1. Kept(s)
  BY DEF DepositsInv
<1>2. Owned(s)'
  <2>1. Creating(s)' => Creating(s)
    BY DEF Creating
  <2>2. ASSUME Creating(s)', request[s] # Idle
        PROVE  \A t \in Requests \ {s} : request'[t] # Idle => request'[t].id # request[s].id
    BY <1>1, <2>1, <2>2 DEF Kept, Owned
  <2>3. QED
    BY <1>1, <2>1, <2>2 DEF Kept, Owned, history
<1>3. Shown(s)' /\ Answered(s)' /\ Late(s)'
  BY <1>1 DEF Kept, Shown, Answered, Late, history
<1>4. QED
  BY <1>2, <1>3 DEF Kept

\* r gets the request q and the answer a, and no document changes.
LEMMA QuietStep ==
    ASSUME DepositsInv, NEW r \in Requests, UNCHANGED <<docs, history>>,
           NEW q \in Shapes, request' = [request EXCEPT ![r] = q],
           NEW a \in Answers \cup {None}, answer' = [answer EXCEPT ![r] = a],
           (a = None) = (q.at # "done"),
           late' \subseteq Requests, \A s \in late' : s \in late \/ s = r,
           \A s \in Requests \ {r} : Creating(s) => q = Idle \/ q.id # request[s].id,
           Kept(r)'
    PROVE  DepositsInv'
<1>1. /\ request'[r] = q /\ answer'[r] = a
      /\ \A s \in Requests \ {r} : request'[s] = request[s] /\ answer'[s] = answer[s]
  BY DEF DepositsInv, Types
<1>2. Types'
  <2>1. request' \in [Requests -> Shapes] /\ answer' \in [Requests -> Answers \cup {None}]
    BY DEF DepositsInv, Types
  <2>2. \A s \in Requests : (answer'[s] = None) = (request'[s].at # "done")
    BY <1>1 DEF DepositsInv, Types
  <2>3. QED
    BY <2>1, <2>2 DEF DepositsInv, Types, history
<1>3. Stored'
  BY DEF DepositsInv, Stored, history
<1>4. ASSUME NEW s \in Requests \ {r} PROVE Kept(s)'
  <2>1. s \in late' => s \in late
    OBVIOUS
  <2>2. Creating(s) => request'[r] = Idle \/ request'[r].id # request[s].id
    BY <1>1
  <2>3. QED
    BY <1>1, <2>1, <2>2, OthersKept
<1>5. QED
  BY <1>2, <1>3, <1>4 DEF DepositsInv

\* The answers differ from each other.
LEMMA AnswersAre ==
    /\ NotFound \in Answers /\ Failed \in Answers /\ NotFound # Failed /\ None \notin Answers
    /\ \A d \in Documents \cup {None} :
        OK(d) \in Answers /\ OK(d).deposit = d /\ OK(d) # NotFound /\ OK(d) # Failed
BY DepositsAssumption DEF Answers, NotFound, Failed, OK

\* A document that may still be created is not there yet.
LEMMA CreatingIsNotIdle ==
    ASSUME DepositsInv, NEW s \in Requests, Creating(s)
    PROVE  request[s] # Idle /\ request[s].id \notin created
<1>1. request[s] # Idle
  BY ShapesAre DEF DepositsInv, Types, Creating, Kept, Late
<1>2. QED
  BY <1>1 DEF DepositsInv, Kept, Owned

\* A deposit begins with an id nobody has.
LEMMA InvCreate ==
    ASSUME DepositsInv, NEW r \in Requests, NEW i \in Ids, createDeposit(r, i)
    PROVE  DepositsInv'
<1> DEFINE q == [op |-> "create", id |-> i, at |-> "write"]
<1>1. q \in Shapes /\ q.at = "write" /\ q.op = "create" /\ q.id = i /\ q # Idle
  BY DEF Shapes, Idle
<1>2. /\ request[r] = Idle /\ request' = [request EXCEPT ![r] = q]
      /\ UNCHANGED <<docs, late, answer, history>>
      /\ i \notin created /\ \A s \in Requests : request[s] # Idle => request[s].id # i
  BY DEF createDeposit
<1>3. answer' = [answer EXCEPT ![r] = None] /\ answer'[r] = None
  BY <1>2, ShapesAre DEF DepositsInv, Types
<1> HIDE DEF q
<1>4. request'[r] = q /\ \A s \in Requests \ {r} : request'[s] = request[s]
  BY <1>2 DEF DepositsInv, Types
<1>5. r \notin late
  BY <1>2, ShapesAre DEF DepositsInv, Types, Kept, Late, Idle
<1>6. Kept(r)'
  BY <1>1, <1>2, <1>3, <1>4, <1>5, AnswersAre DEF Kept, Owned, Shown, Answered, Late, Creating, history
<1>7. \A s \in Requests \ {r} : Creating(s) => q = Idle \/ q.id # request[s].id
  BY <1>1, <1>2, CreatingIsNotIdle
<1>8. late' \subseteq Requests /\ \A s \in late' : s \in late \/ s = r
  BY <1>2 DEF DepositsInv, Types
<1>9. /\ UNCHANGED <<docs, history>> /\ q \in Shapes /\ request' = [request EXCEPT ![r] = q]
      /\ None \in Answers \cup {None} /\ (None = None) = (q.at # "done")
      /\ answer' = [answer EXCEPT ![r] = None]
  BY <1>1, <1>2, <1>3
<1>10. QED
  BY <1>6, <1>7, <1>8, <1>9, QuietStep, Zenon

\* An update, a deletion or a lookup begins.
LEMMA InvCall ==
    ASSUME DepositsInv, NEW r \in Requests, NEW q \in Shapes, Call(r, q),
           q # Idle, q.op # "create", q.at \in {"read", "readback"},
           q.at = "readback" => q.op = "get"
    PROVE  DepositsInv'
<1>1. /\ request[r] = Idle /\ request' = [request EXCEPT ![r] = q]
      /\ UNCHANGED <<docs, late, answer, history>>
      /\ q.id \in created
  BY DEF Call
<1>2. answer' = [answer EXCEPT ![r] = None] /\ answer'[r] = None
  BY <1>1, ShapesAre DEF DepositsInv, Types
<1>3. request'[r] = q /\ \A s \in Requests \ {r} : request'[s] = request[s]
  BY <1>1 DEF DepositsInv, Types
<1>4. r \notin late
  BY <1>1, ShapesAre DEF DepositsInv, Types, Kept, Late, Idle
<1>5. Kept(r)'
  BY <1>1, <1>2, <1>3, <1>4, AnswersAre DEF Kept, Owned, Shown, Answered, Late, Creating, history
<1>6. \A s \in Requests \ {r} : Creating(s) => q = Idle \/ q.id # request[s].id
  BY <1>1, CreatingIsNotIdle
<1>7. late' \subseteq Requests /\ \A s \in late' : s \in late \/ s = r
  BY <1>1 DEF DepositsInv, Types
<1>8. UNCHANGED <<docs, history>> /\ None \in Answers \cup {None} /\ (None = None) = (q.at # "done")
  BY <1>1
<1>9. QED
  BY <1>1, <1>2, <1>5, <1>6, <1>7, <1>8, QuietStep, Zenon

\* A request that waits for Firestore goes on or is answered.
LEMMA AdvanceStep ==
    ASSUME DepositsInv, NEW r \in Requests, UNCHANGED <<docs, history>>,
           request[r].at \in {"read", "write", "readback"},
           NEW at \in {"write", "done"}, request' = [request EXCEPT ![r].at = at],
           at = "write" => request[r].at = "read",
           NEW a \in Answers \cup {None}, answer' = [answer EXCEPT ![r] = a],
           (a = None) = (at # "done"),
           late' = late \/ (request[r].at = "write" /\ at = "done" /\ late' = late \cup {r}),
           a = NotFound => request[r].op # "create" /\ request[r].id \notin DOMAIN docs,
           at = "done" /\ request[r].op = "update" /\ a \notin {NotFound, Failed} =>
             request[r].at = "readback" /\ a = OK(docs[request[r].id])
               /\ request[r].id \in DOMAIN docs
    PROVE  DepositsInv'
<1> DEFINE q == [request[r] EXCEPT !.at = at]
<1>1. /\ q \in Shapes /\ q.at = at /\ q # Idle /\ request[r] # Idle
      /\ q.op = request[r].op /\ q.id = request[r].id
      /\ q.op = "update" => q.updates = request[r].updates
  BY DEF DepositsInv, Types, Shapes, Idle
<1>2. request' = [request EXCEPT ![r] = q]
  OBVIOUS
<1> HIDE DEF q
<1>3. /\ request'[r] = q /\ answer'[r] = a
      /\ \A s \in Requests \ {r} : request'[s] = request[s]
  BY <1>2 DEF DepositsInv, Types
<1>4. r \notin late /\ Kept(r)
  BY ShapesAre DEF DepositsInv, Types, Kept, Late
<1>5. Creating(r)' => Creating(r)
  BY <1>1, <1>3, <1>4, ShapesAre DEF Creating, DepositsInv, Types
<1>6. Owned(r)'
  BY <1>1, <1>3, <1>4, <1>5 DEF Kept, Owned, history
<1>7. Shown(r)'
  BY <1>1, <1>3 DEF Shown
<1>8. Late(r)'
  BY <1>1, <1>3, <1>4, ShapesAre DEF Late, DepositsInv, Types
<1>9. Answered(r)'
  <2>1. ASSUME q.at = "done", q.op = "update", a \notin {NotFound, Failed}
        PROVE  /\ r \in applied
               /\ r \in overlapped \/ \A field \in DOMAIN q.updates :
                                        field \in DOMAIN a.deposit /\ a.deposit[field] = q.updates[field]
    <3>1. /\ request[r].at = "readback" /\ request[r].op = "update"
          /\ a = OK(docs[request[r].id]) /\ request[r].id \in DOMAIN docs
      BY <1>1, <2>1
    <3>2. a.deposit = docs[request[r].id]
      BY <3>1 DEF OK
    <3>3. QED
      BY <1>1, <1>4, <3>1, <3>2 DEF Kept, Shown
  <2>2. QED
    BY <1>1, <1>3, <2>1 DEF Answered, history
<1>10. \A s \in Requests \ {r} : Creating(s) => q.id # request[s].id
  BY <1>1, CreatingIsNotIdle DEF DepositsInv, Kept, Owned
<1>11. late' \subseteq Requests /\ \A s \in late' : s \in late \/ s = r
  BY DEF DepositsInv, Types
<1>12. Kept(r)'
  BY <1>6, <1>7, <1>8, <1>9 DEF Kept
<1>13. QED
  BY <1>1, <1>2, <1>10, <1>11, <1>12, QuietStep

\* The repository looks for the deposit before it writes.
LEMMA InvExists == ASSUME DepositsInv, NEW r \in Requests, Exists(r) PROVE DepositsInv'
<1>1. request[r].at = "read" /\ UNCHANGED <<docs, late, history>> /\ request[r].op \in {"update", "delete"}
  BY ShapesAre DEF Exists, DepositsInv, Types
<1>2. CASE request[r].id \in DOMAIN docs
  <2>1. request' = [request EXCEPT ![r].at = "write"] /\ answer' = [answer EXCEPT ![r] = None]
    BY <1>1, <1>2 DEF Exists, Goto, DepositsInv, Types
  <2>2. QED
    BY <1>1, <2>1, AdvanceStep, AnswersAre
<1>3. CASE request[r].id \notin DOMAIN docs
  <2>1. request' = [request EXCEPT ![r].at = "done"] /\ answer' = [answer EXCEPT ![r] = NotFound]
    BY <1>1, <1>3 DEF Exists, Answer
  <2>2. QED
    BY <1>1, <1>3, <2>1, AdvanceStep, AnswersAre
<1>4. QED
  BY <1>2, <1>3

\* The deposit is read back, or found to be gone.
LEMMA InvFindById == ASSUME DepositsInv, NEW r \in Requests, findById(r) PROVE DepositsInv'
<1> DEFINE i == request[r].id
           a == IF i \in DOMAIN docs THEN OK(docs[i]) ELSE NotFound
<1>1. /\ request[r].at = "readback" /\ UNCHANGED <<docs, late, history>>
      /\ request[r].op \in {"update", "get"}
      /\ request' = [request EXCEPT ![r].at = "done"] /\ answer' = [answer EXCEPT ![r] = a]
  BY ShapesAre DEF findById, Answer, DepositsInv, Types
<1>2. i \in DOMAIN docs => docs[i] \in Documents
  BY DEF DepositsInv, Stored, Whole
<1>3. a \in Answers /\ a # None /\ (a = NotFound => i \notin DOMAIN docs)
      /\ (a # NotFound => i \in DOMAIN docs /\ a = OK(docs[i]))
  BY <1>2, AnswersAre
<1> HIDE DEF a
<1>4. QED
  BY <1>1, <1>3, AdvanceStep

\* A call of Firestore fails and its write may be late.
LEMMA InvFail == ASSUME DepositsInv, NEW r \in Requests, Fail(r) PROVE DepositsInv'
<1>1. /\ request[r].at \in {"read", "write", "readback"} /\ UNCHANGED <<docs, history>>
      /\ request' = [request EXCEPT ![r].at = "done"] /\ answer' = [answer EXCEPT ![r] = Failed]
      /\ late' = late \/ (request[r].at = "write" /\ late' = late \cup {r})
  BY DEF Fail, Answer
<1>2. QED
  BY <1>1, AdvanceStep, AnswersAre

-----------------------------------------------------------------------------
(* Steps that apply a write. *)

\* What a write does to the documents, whoever waits for it.
LEMMA EffectIs ==
    ASSUME DepositsInv, NEW r \in Requests, Effect(r), r \in late \/ request[r].at = "write"
    PROVE  /\ Stored'
           /\ applied' = applied \cup {r}
           /\ overlapped \subseteq overlapped' /\ overlapped' \subseteq Requests
           /\ created \subseteq created'
           /\ \A j \in created' : j \in created \/ j = request[r].id
           /\ request[r] # Idle /\ request[r].op \in {"create", "update", "delete"}
           /\ \A j \in created \ DOMAIN docs : j \notin DOMAIN docs'
           /\ \A s \in Requests :
                s \in applied /\ request[s].at = "readback" /\ s \notin overlapped'
                    /\ request[s].id \in created /\ request[s].id \in DOMAIN docs' =>
                  request[s].id \in DOMAIN docs /\ docs'[request[s].id] = docs[request[s].id]
           /\ request[r].op = "update" =>
                /\ request[r].id \in DOMAIN docs'
                /\ \A field \in DOMAIN request[r].updates :
                     /\ field \in DOMAIN docs'[request[r].id]
                     /\ docs'[request[r].id][field] = request[r].updates[field]
<1> DEFINE q == request[r]
           i == q.id
<1>1. /\ q \in Shapes /\ q # Idle /\ i \in Ids /\ q.op \in {"create", "update", "delete"}
      /\ q.op = "update" => q.updates \in Updates
  BY ShapesAre DEF DepositsInv, Types, Kept, Late
<1>2. Stored /\ Overlap(i) \subseteq Requests /\ overlapped \subseteq Requests
  BY DEF DepositsInv, Types, Overlap
<1>3. CASE q.op = "create"
  <2>1. Set(r, i)
    BY <1>3 DEF Effect
  <2>2. i \notin created
    BY <1>1, <1>3 DEF DepositsInv, Kept, Owned, Creating
  <2>3. /\ DOMAIN docs' = {i} \cup DOMAIN docs /\ docs'[i] = Pending
        /\ \A j \in DOMAIN docs : docs'[j] = docs[j]
        /\ docs' = [j \in DOMAIN docs' |-> docs'[j]]
    BY <1>2, <2>1, <2>2 DEF Set, Entry, ++, Stored
  <2>4. Stored'
    BY <1>1, <1>2, <2>1, <2>3, PendingIsWhole DEF Stored, Set
  <2>5. QED
    BY <1>1, <1>2, <1>3, <2>1, <2>2, <2>3, <2>4 DEF Set, Stored
<1>4. CASE q.op = "update"
  <2> DEFINE u == q.updates
  <2>1. Merge(r, i, u)
    BY <1>4 DEF Effect
  <2>2. /\ i \in DOMAIN docs /\ DOMAIN docs' = DOMAIN docs
        /\ docs'[i] = u ++ docs[i]
        /\ \A j \in DOMAIN docs \ {i} : docs'[j] = docs[j]
        /\ docs' = [j \in DOMAIN docs' |-> docs'[j]]
    BY <1>2, <2>1 DEF Merge, Stored
  <2>3. Whole(u) /\ Whole(docs[i])
    BY <1>1, <1>2, <1>4, <2>2, UpdatesAreWhole DEF Stored
  <2>4. Whole(docs'[i]) /\ \A x \in DOMAIN u : x \in DOMAIN docs'[i] /\ docs'[i][x] = u[x]
    BY <2>2, <2>3, MergedIsWhole
  <2>5. Stored'
    BY <1>2, <2>1, <2>2, <2>4 DEF Stored, Merge
  <2>6. /\ applied' = applied \cup {r} /\ overlapped' = overlapped \cup Overlap(i)
        /\ UNCHANGED <<created, removed>>
    BY <2>1 DEF Merge
  <2>7. ASSUME NEW s \in Requests, s \in applied, request[s].at = "readback", s \notin overlapped'
        PROVE  request[s].id # i
    BY <2>6, <2>7 DEF Overlap
  <2>8. QED
    BY <1>1, <1>2, <1>4, <2>2, <2>4, <2>5, <2>6, <2>7
<1>5. CASE q.op = "delete"
  <2>1. Remove(r, i)
    BY <1>5 DEF Effect
  <2>2. /\ DOMAIN docs' = DOMAIN docs \ {i}
        /\ \A j \in DOMAIN docs' : docs'[j] = docs[j]
        /\ docs' = [j \in DOMAIN docs' |-> docs'[j]]
    BY <2>1 DEF Remove
  <2>3. i \in created
    BY <1>1, <1>5 DEF DepositsInv, Kept, Owned
  <2>4. Stored'
    BY <1>2, <2>1, <2>2, <2>3 DEF Stored, Remove
  <2>5. QED
    BY <1>1, <1>2, <1>5, <2>1, <2>2, <2>4 DEF Remove
<1>6. QED
  BY <1>1, <1>3, <1>4, <1>5

\* Those whose request a write leaves as it is.
LEMMA EffectKeeps ==
    ASSUME DepositsInv, NEW r \in Requests, Effect(r), r \in late \/ request[r].at = "write",
           NEW s \in Requests, request'[s] = request[s], answer'[s] = answer[s],
           Creating(s)' => Creating(s) /\ s # r, s \in late' => s \in late,
           \A t \in Requests : request'[t] # Idle => request[t] # Idle /\ request'[t].id = request[t].id
    PROVE  Kept(s)'
<1>1. Kept(s)
  BY DEF DepositsInv
<1>2. Owned(s)'
  <2>1. ASSUME Creating(s)', request[s] # Idle
        PROVE  /\ request[s].id \notin created'
               /\ \A t \in Requests \ {s} : request'[t] # Idle => request'[t].id # request[s].id
    BY <1>1, <2>1, EffectIs DEF Kept, Owned
  <2>2. request[s] # Idle /\ request[s].op # "create" => request[s].id \in created'
    BY <1>1, EffectIs DEF Kept, Owned
  <2>3. QED
    BY <2>1, <2>2 DEF Owned
<1>3. Shown(s)'
  <2>1. ASSUME request[s] # Idle, request[s].op = "update", request[s].at = "readback"
        PROVE  /\ s \in applied'
               /\ s \notin overlapped' /\ request[s].id \in DOMAIN docs' =>
                   \A field \in DOMAIN request[s].updates :
                       /\ field \in DOMAIN docs'[request[s].id]
                       /\ docs'[request[s].id][field] = request[s].updates[field]
    <3>1. s \in applied /\ request[s].id \in created
      BY <1>1, <2>1 DEF Kept, Owned, Shown
    <3>2. applied' = applied \cup {r} /\ overlapped \subseteq overlapped'
      BY EffectIs
    <3>3. ASSUME s \notin overlapped', request[s].id \in DOMAIN docs'
          PROVE  request[s].id \in DOMAIN docs /\ docs'[request[s].id] = docs[request[s].id]
      BY <2>1, <3>1, <3>3, EffectIs
    <3>4. QED
      BY <1>1, <2>1, <3>1, <3>2, <3>3 DEF Kept, Shown
  <2>2. QED
    BY <2>1 DEF Shown
<1>4. Answered(s)'
  BY <1>1, EffectIs DEF Kept, Answered, Owned
<1>5. Late(s)'
  BY <1>1 DEF Kept, Late
<1>6. QED
  BY <1>2, <1>3, <1>4, <1>5 DEF Kept

\* A late write is applied.
LEMMA InvLateWrite == ASSUME DepositsInv, NEW r \in Requests, LateWrite(r) PROVE DepositsInv'
<1>1. r \in late /\ late' = late \ {r} /\ Effect(r) /\ UNCHANGED <<request, answer>>
  BY DEF LateWrite
<1>2. Types'
  BY <1>1, EffectIs DEF DepositsInv, Types
<1>3. ASSUME NEW s \in Requests PROVE Kept(s)'
  <2>1. Creating(s)' => Creating(s)
    BY <1>1 DEF Creating
  <2>2. ~ Creating(r)'
    BY <1>1, ShapesAre DEF Creating, DepositsInv, Kept, Late
  <2>3. QED
    BY <1>1, <2>1, <2>2, EffectKeeps
<1>4. QED
  BY <1>1, <1>2, <1>3, EffectIs DEF DepositsInv

\* A write is applied and its caller goes on.
LEMMA InvWrite == ASSUME DepositsInv, NEW r \in Requests, Write(r) PROVE DepositsInv'
<1> DEFINE at == IF request[r].op = "update" THEN "readback" ELSE "done"
           q == [request[r] EXCEPT !.at = at]
           a == IF request[r].op = "update" THEN None
                ELSE IF request[r].op = "create" THEN OK(Pending) ELSE OK(None)
<1>1. request[r].at = "write" /\ Effect(r) /\ late' = late
      /\ request[r] # Idle /\ request[r].op \in {"create", "update", "delete"}
  BY EffectIs DEF Write
<1>2. request' = [request EXCEPT ![r].at = at] /\ answer' = [answer EXCEPT ![r] = a]
  BY <1>1 DEF Write, Goto, Answer, DepositsInv, Types
<1>3. /\ q \in Shapes /\ q.at = at /\ q # Idle /\ q.op = request[r].op /\ q.id = request[r].id
      /\ q.op = "update" => q.updates = request[r].updates
  BY <1>1 DEF DepositsInv, Types, Shapes, Idle
<1>4. request' = [request EXCEPT ![r] = q]
  BY <1>2
<1> HIDE DEF q
<1>5. /\ a \in Answers \cup {None} /\ a # NotFound /\ (a = None) = (at # "done")
      /\ (at = "done") = (q.op # "update") /\ at \in {"readback", "done"}
  BY <1>1, <1>3, AnswersAre, PendingIsWhole DEF Whole
<1> HIDE DEF at, a
<1>6. /\ request'[r] = q /\ answer'[r] = a
      /\ \A s \in Requests \ {r} : request'[s] = request[s] /\ answer'[s] = answer[s]
  BY <1>2, <1>4 DEF DepositsInv, Types
<1>7. Types'
  BY <1>1, <1>2, <1>3, <1>4, <1>5, <1>6, EffectIs DEF DepositsInv, Types
<1>8. ASSUME NEW s \in Requests \ {r} PROVE Kept(s)'
  <2>1. Creating(s)' => Creating(s)
    BY <1>1, <1>6 DEF Creating
  <2>2. \A t \in Requests : request'[t] # Idle => request[t] # Idle /\ request'[t].id = request[t].id
    BY <1>1, <1>3, <1>6
  <2>3. QED
    BY <1>1, <1>6, <2>1, <2>2, EffectKeeps
<1>9. Kept(r)'
  <2>1. Kept(r) /\ r \notin late
    BY <1>1, ShapesAre DEF DepositsInv, Kept, Late
  <2>2. Owned(r)'
    <3>1. ~ Creating(r)'
      BY <1>1, <1>3, <1>5, <1>6, <2>1 DEF Creating
    <3>2. q.op # "create" => q.id \in created'
      BY <1>1, <1>3, <2>1, EffectIs DEF Kept, Owned
    <3>3. QED
      BY <1>6, <3>1, <3>2 DEF Owned
  <2>3. Shown(r)'
    <3>1. ASSUME q.op = "update"
          PROVE  /\ r \in applied' /\ q.id \in DOMAIN docs'
                 /\ \A field \in DOMAIN q.updates :
                      field \in DOMAIN docs'[q.id] /\ docs'[q.id][field] = q.updates[field]
      <4>1. request[r].op = "update" /\ q.id = request[r].id /\ q.updates = request[r].updates
        BY <1>3, <3>1
      <4>2. r \in applied' /\ request[r].id \in DOMAIN docs'
        BY <1>1, <4>1, EffectIs
      <4>3. \A field \in DOMAIN request[r].updates :
              /\ field \in DOMAIN docs'[request[r].id]
              /\ docs'[request[r].id][field] = request[r].updates[field]
        BY <1>1, <4>1, EffectIs
      <4>4. QED
        BY <4>1, <4>2, <4>3
    <3>2. QED
      BY <1>6, <3>1 DEF Shown
  <2>4. Answered(r)' /\ Late(r)'
    BY <1>1, <1>3, <1>5, <1>6, <2>1 DEF Answered, Late
  <2>5. QED
    BY <2>2, <2>3, <2>4 DEF Kept
<1>10. QED
  BY <1>1, <1>7, <1>8, <1>9, EffectIs DEF DepositsInv

-----------------------------------------------------------------------------
\* Every step preserves the invariant.
LEMMA DepositsInvNext == DepositsInv /\ [Next]_vars => DepositsInv'
<1> SUFFICES ASSUME DepositsInv, [Next]_vars PROVE DepositsInv'
  OBVIOUS
<1>1. CASE UNCHANGED vars
  BY <1>1 DEF vars, DepositsInv, Types, Stored, Kept, Owned, Creating, Shown, Answered, Late
<1>2. ASSUME NEW r \in Requests, NEW i \in Ids, deleteDeposit(r, i) \/ getDepositById(r, i)
      PROVE  DepositsInv'
  <2>1. /\ [op |-> "delete", id |-> i, at |-> "read"] \in Shapes \ {Idle}
        /\ [op |-> "get", id |-> i, at |-> "readback"] \in Shapes \ {Idle}
    BY DEF Shapes, Idle
  <2>2. QED
    BY <1>2, <2>1, InvCall DEF deleteDeposit, getDepositById
<1>3. ASSUME NEW r \in Requests, NEW i \in Ids, NEW u \in Updates, updateDeposit(r, i, u)
      PROVE  DepositsInv'
  <2>1. [op |-> "update", id |-> i, updates |-> u, at |-> "read"] \in Shapes \ {Idle}
    BY DEF Shapes, Idle
  <2>2. QED
    BY <1>3, <2>1, InvCall DEF updateDeposit
<1>4. QED
  BY <1>1, <1>2, <1>3, InvLateWrite, InvExists, InvWrite, InvFindById, InvFail, InvCreate DEF Next

\* DepositsInv holds in every reachable state.
THEOREM DepositsInvariant == Spec => []DepositsInv
BY DepositsInvInit, DepositsInvNext, PTL DEF Spec

\* Documents, requests and answers are of their types, and answered means done.
THEOREM DepositsTypeOK == Spec => []TypeOK
<1>1. DepositsInv => TypeOK
  BY ShapesAre DEF DepositsInv, Types, Stored, Whole, TypeOK
<1>2. QED
  BY <1>1, DepositsInvariant, PTL

\* updateStatus leaves no deposit completed without completedAt, in any order of concurrent,
\* failed and late updates.
THEOREM DepositsCompletedHasTime == Spec => []CompletedHasTime
<1>1. DepositsInv => CompletedHasTime
  BY DEF DepositsInv, Stored, Whole, CompletedHasTime
<1>2. QED
  BY <1>1, DepositsInvariant, PTL

\* A deposit that a client was told is not found never comes back: update() refuses a missing
\* document, and ids are not used twice.
THEOREM DepositsNotFoundIsForGood == Spec => []NotFoundIsForGood
<1>1. DepositsInv => NotFoundIsForGood
  BY DEF DepositsInv, Kept, Answered, NotFoundIsForGood
<1>2. QED
  BY <1>1, DepositsInvariant, PTL

\* A successful update was applied, and its answer shows it unless another update came in
\* between (update() and findById() of the repository).
THEOREM DepositsAnswerShowsUpdate == Spec => []AnswerShowsUpdate
<1>1. DepositsInv => AnswerShowsUpdate
  BY DEF DepositsInv, Kept, Answered, AnswerShowsUpdate
<1>2. QED
  BY <1>1, DepositsInvariant, PTL

-----------------------------------------------------------------------------
(* The refinement. *)

\* Each write that Firestore applies is one step of the store.
LEMMA EffectIsAtomic ==
    ASSUME DepositsInv, NEW r \in Requests, Effect(r), r \in late \/ request[r].at = "write"
    PROVE  Store!Next
<1> DEFINE q == request[r]
           i == q.id
<1>1. /\ q # Idle /\ i \in Ids /\ q.op \in {"create", "update", "delete"}
      /\ q.op = "update" => q.updates \in Updates
  BY ShapesAre DEF DepositsInv, Types, Kept, Late
<1>2. created = DOMAIN docs \cup removed
  BY DEF DepositsInv, Stored
<1>3. CASE q.op = "create"
  <2>1. Set(r, i)
    BY <1>3 DEF Effect
  <2>2. i \notin created
    BY <1>1, <1>3 DEF DepositsInv, Kept, Owned, Creating
  <2>3. Entry(i, Pending) ++ docs = Store!++(Store!Entry(i, Store!Entry("status", "PENDING")), docs)
    BY DEF Pending, Entry, ++, Store!Entry, Store!++
  <2>4. Store!Create(i)
    BY <1>2, <2>1, <2>2, <2>3 DEF Set, Store!Create
  <2>5. QED
    BY <1>1, <2>4 DEF Store!Next
<1>4. CASE q.op = "update"
  <2>1. Merge(r, i, q.updates)
    BY <1>4 DEF Effect
  <2>2. q.updates ++ docs[i] = Store!++(q.updates, docs[i])
    BY DEF ++, Store!++
  <2>3. Store!Merge(i, q.updates)
    BY <2>1, <2>2 DEF Merge, Store!Merge
  <2>4. QED
    BY <1>1, <1>4, <2>3 DEF Store!Next
<1>5. CASE q.op = "delete"
  <2>1. i \in created /\ Remove(r, i)
    BY <1>1, <1>5 DEF Effect, DepositsInv, Kept, Owned
  <2>2. removed \cup {i} = removed \cup ({i} \cap DOMAIN docs)
    BY <1>2, <2>1
  <2>3. Store!Remove(i)
    BY <2>1, <2>2 DEF Remove, Store!Remove
  <2>4. QED
    BY <1>1, <2>3 DEF Store!Next
<1>6. QED
  BY <1>1, <1>3, <1>4, <1>5

\* The deposits implement the atomic store: writes are merges into what is there, and nothing
\* revives a removed deposit.
THEOREM DepositsImplementsDepositStore == Spec => ImplementsDepositStore
<1>1. Init => Store!Init
  BY DEF Init, Store!Init
<1>2. DepositsInv /\ [Next]_vars => [Store!Next]_<<docs, removed>>
  <2> SUFFICES ASSUME DepositsInv, Next PROVE Store!Next \/ UNCHANGED <<docs, removed>>
    BY DEF vars
  <2>1. PICK r \in Requests :
          \/ LateWrite(r) \/ Exists(r) \/ Write(r) \/ findById(r) \/ Fail(r)
          \/ \E i \in Ids :
               \/ createDeposit(r, i) \/ deleteDeposit(r, i) \/ getDepositById(r, i)
               \/ \E u \in Updates : updateDeposit(r, i, u)
    BY DEF Next
  <2>2. CASE LateWrite(r) \/ Write(r)
    BY <2>2, EffectIsAtomic DEF LateWrite, Write
  <2>3. CASE Exists(r) \/ findById(r) \/ Fail(r)
    BY <2>3 DEF Exists, findById, Fail, history
  <2>4. ASSUME NEW i \in Ids,
               \/ createDeposit(r, i) \/ deleteDeposit(r, i) \/ getDepositById(r, i)
               \/ \E u \in Updates : updateDeposit(r, i, u)
        PROVE  UNCHANGED <<docs, removed>>
    BY <2>4 DEF createDeposit, deleteDeposit, getDepositById, updateDeposit, Call, history
  <2>5. QED
    BY <2>1, <2>2, <2>3, <2>4
<1>3. QED
  BY <1>1, <1>2, DepositsInvariant, PTL DEF Spec, ImplementsDepositStore, Store!Spec
=============================================================================
