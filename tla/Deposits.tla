------------------------------ MODULE Deposits ------------------------------
(***************************************************************************)
(* DepositsService and the Firestore DepositRepository, a request at a     *)
(* time from its call to its answer.  Every call of Firestore suspends the *)
(* request: what it finds or writes is decided by Firestore in between,    *)
(* and a call may fail whether or not its write was applied, or is still   *)
(* to be.  A deposit is the partial function of the fields that change     *)
(* after its creation; times are "set" or absent.                          *)
(***************************************************************************)
EXTENDS Naturals, FiniteSets, PartialFunctions

CONSTANTS
    Ids,        \* ids uuid generates for deposits
    Requests,   \* requests, each of which makes one call of the service
    None        \* no answer yet; nothing read

VARIABLES
    docs,        \* Firestore: the documents of the collection, by id
    late,        \* Firestore: writes whose caller got an error, not yet applied or dropped
    request,     \* each request: what it calls and where it is suspended
    answer,      \* the answer of each request
    created,     \* history: ids that were stored once
    removed,     \* history: ids that were deleted
    applied,     \* history: requests whose write was applied
    overlapped   \* history: requests after whose write another one changed the deposit

vars == <<docs, late, request, answer, created, removed, applied, overlapped>>

Pending == Entry("status", "PENDING")

\* Mutant of updateStatus: the time of the completion is forgotten.
updateStatusOnly(status) == Entry("status", status) ++ Entry("statusMessage", "set")

updateStatus(status) ==
    Entry("status", status) ++ Entry("statusMessage", "set")
        ++ (IF status = "COMPLETED" THEN Entry("completedAt", "set") ELSE <<>>)

markAsProcessing == Entry("status", "PROCESSING") ++ Entry("externalReferenceId", "set")
markAsFailed == Entry("status", "FAILED") ++ Entry("failureReason", "set") ++ Entry("statusMessage", "set")

\* updateDepositStatus takes every status; markAsCompleted is one of its calls.
Updates == {updateStatus(s) : s \in {"COMPLETED", "CANCELLED"}} \cup {markAsProcessing, markAsFailed}

Fields == {"status", "statusMessage", "externalReferenceId", "failureReason", "completedAt"}
Statuses == {"PENDING", "PROCESSING", "COMPLETED", "FAILED", "CANCELLED"}

\* What a document of the collection may hold.
Documents == UNION {[fields -> Statuses \cup {"set"}] : fields \in SUBSET Fields}

Answers == [code : {404, 500}] \cup [code : {200}, deposit : Documents \cup {None}]

ASSUME DepositsAssumption == None \notin Answers

Idle == [at |-> "idle"]
OK(deposit) == [code |-> 200, deposit |-> deposit]
NotFound == [code |-> 404]
Failed == [code |-> 500]

Init ==
    /\ docs = [i \in {} |-> i]
    /\ late = {}
    /\ request = [r \in Requests |-> Idle]
    /\ answer = [r \in Requests |-> None]
    /\ created = {}
    /\ removed = {}
    /\ applied = {}
    /\ overlapped = {}

history == <<created, removed, applied, overlapped>>

Goto(r, stage) == request' = [request EXCEPT ![r].at = stage] /\ UNCHANGED answer

Answer(r, a) ==
    /\ request' = [request EXCEPT ![r].at = "done"]
    /\ answer' = [answer EXCEPT ![r] = a]

\* The request and the deposit r is about to be answered with were changed by another.
Overlap(i) == {r \in applied : request[r].at = "readback" /\ request[r].id = i}

-----------------------------------------------------------------------------
(* Firestore: the effects of a call. *)

Set(r, i) ==
    /\ docs' = Entry(i, Pending) ++ docs
    /\ created' = created \cup {i}
    /\ applied' = applied \cup {r}
    /\ UNCHANGED <<removed, overlapped>>

\* Mutant of Merge: set() with merge, which creates a missing document.
MergeCreates(r, i, u) ==
    /\ docs' = Entry(i, IF i \in DOMAIN docs THEN u ++ docs[i] ELSE u) ++ docs
    /\ applied' = applied \cup {r}
    /\ overlapped' = overlapped \cup Overlap(i)
    /\ UNCHANGED <<created, removed>>

\* Mutant of Merge: set() without merge, which replaces the document.
MergeReplaces(r, i, u) ==
    /\ i \in DOMAIN docs
    /\ docs' = [docs EXCEPT ![i] = u]
    /\ applied' = applied \cup {r}
    /\ overlapped' = overlapped \cup Overlap(i)
    /\ UNCHANGED <<created, removed>>

\* DocumentReference.update() merges fields and refuses a missing document.
Merge(r, i, u) ==
    /\ i \in DOMAIN docs
    /\ docs' = [docs EXCEPT ![i] = u ++ @]
    /\ applied' = applied \cup {r}
    /\ overlapped' = overlapped \cup Overlap(i)
    /\ UNCHANGED <<created, removed>>

Remove(r, i) ==
    /\ docs' = [j \in DOMAIN docs \ {i} |-> docs[j]]
    /\ removed' = removed \cup {i}
    /\ applied' = applied \cup {r}
    /\ UNCHANGED <<created, overlapped>>

Effect(r) ==
    LET q == request[r]
    IN CASE q.op = "create" -> Set(r, q.id)
         [] q.op = "update" -> Merge(r, q.id, q.updates)
         [] q.op = "delete" -> Remove(r, q.id)

\* A write that its caller took for failed is applied after all.
LateWrite(r) == r \in late /\ late' = late \ {r} /\ Effect(r) /\ UNCHANGED <<request, answer>>

-----------------------------------------------------------------------------
(* The service and the repository. *)

createDeposit(r, i) ==
    /\ request[r] = Idle
    /\ i \notin created
    /\ i \notin {request[s].id : s \in {t \in Requests : request[t] # Idle}}
    /\ request' = [request EXCEPT ![r] = [op |-> "create", id |-> i, at |-> "write"]]
    /\ UNCHANGED <<docs, late, answer, history>>

\* The calls that look a deposit up first: its id is known to clients from an earlier answer.
Call(r, q) ==
    /\ request[r] = Idle
    /\ q.id \in created
    /\ request' = [request EXCEPT ![r] = q]
    /\ UNCHANGED <<docs, late, answer, history>>

updateDeposit(r, i, u) == Call(r, [op |-> "update", id |-> i, updates |-> u, at |-> "read"])
deleteDeposit(r, i) == Call(r, [op |-> "delete", id |-> i, at |-> "read"])
getDepositById(r, i) == Call(r, [op |-> "get", id |-> i, at |-> "readback"])

\* docRef.get() before a write: a missing deposit ends the call.
Exists(r) ==
    /\ request[r].at = "read"
    /\ IF request[r].id \in DOMAIN docs THEN Goto(r, "write") ELSE Answer(r, NotFound)
    /\ UNCHANGED <<docs, late, history>>

\* Mutant of Write: an update answers with the deposit it found before it wrote.
WriteAnswersOld(r) ==
    /\ request[r].at = "write"
    /\ Effect(r)
    /\ CASE request[r].op = "update" -> Answer(r, OK(docs[request[r].id]))
         [] request[r].op = "create" -> Answer(r, OK(Pending))
         [] request[r].op = "delete" -> Answer(r, OK(None))
    /\ UNCHANGED late

\* Firestore applies the write and the caller learns of it.
Write(r) ==
    /\ request[r].at = "write"
    /\ Effect(r)
    /\ CASE request[r].op = "update" -> Goto(r, "readback")
         [] request[r].op = "create" -> Answer(r, OK(Pending))
         [] request[r].op = "delete" -> Answer(r, OK(None))
    /\ UNCHANGED late

\* findById() after an update, or alone.
findById(r) ==
    /\ request[r].at = "readback"
    /\ LET i == request[r].id
       IN Answer(r, IF i \in DOMAIN docs THEN OK(docs[i]) ELSE NotFound)
    /\ UNCHANGED <<docs, late, history>>

\* Mutant of Fail: the error is caught and nothing is answered.
FailSwallowed(r) ==
    /\ request[r].at \in {"read", "write", "readback"}
    /\ request' = [request EXCEPT ![r].at = "done"]
    /\ UNCHANGED <<docs, late, answer, history>>

\* A call of Firestore fails; a write may still be on its way.
Fail(r) ==
    /\ request[r].at \in {"read", "write", "readback"}
    /\ Answer(r, Failed)
    /\ \/ UNCHANGED <<docs, late, history>>
       \/ request[r].at = "write" /\ late' = late \cup {r} /\ UNCHANGED <<docs, history>>

Next ==
    \E r \in Requests :
        \/ LateWrite(r)
        \/ Exists(r) \/ Write(r) \/ findById(r) \/ Fail(r)
        \/ \E i \in Ids :
            \/ createDeposit(r, i) \/ deleteDeposit(r, i) \/ getDepositById(r, i)
            \/ \E u \in Updates : updateDeposit(r, i, u)

Spec == Init /\ [][Next]_vars

-----------------------------------------------------------------------------
TypeOK ==
    /\ DOMAIN docs \subseteq Ids
    /\ \A i \in DOMAIN docs :
        docs[i] \in Documents /\ "status" \in DOMAIN docs[i] /\ docs[i]["status"] \in Statuses
    /\ late \subseteq Requests
    /\ \A r \in Requests : request[r].at \in {"idle", "read", "write", "readback", "done"}
    /\ answer \in [Requests -> Answers \cup {None}]
    /\ \A r \in Requests : (answer[r] = None) = (request[r].at # "done")
    /\ created \subseteq Ids /\ removed \subseteq Ids
    /\ applied \subseteq Requests /\ overlapped \subseteq Requests

(***************************************************************************)
(* updateStatus gives a completed deposit its completedAt in the same      *)
(* write: in no order of concurrent, failed and late updates is a deposit  *)
(* completed without it.                                                   *)
(***************************************************************************)
CompletedHasTime ==
    \A i \in DOMAIN docs : docs[i]["status"] = "COMPLETED" => "completedAt" \in DOMAIN docs[i]

(***************************************************************************)
(* NotFoundException is final: a deposit a client was told does not exist  *)
(* is gone, and no update under way brings it back.                        *)
(***************************************************************************)
NotFoundIsForGood ==
    \A r \in Requests : answer[r] = NotFound => request[r].id \notin DOMAIN docs

(***************************************************************************)
(* A successful answer to an update shows the deposit with that update in  *)
(* it, unless another update came between the write and the read back; an  *)
(* update that failed may or may not have been applied.                    *)
(***************************************************************************)
AnswerShowsUpdate ==
    \A r \in Requests :
        (request[r].at = "done" /\ request[r].op = "update" /\ answer[r] \notin {NotFound, Failed}) =>
            /\ r \in applied
            /\ \/ r \in overlapped
               \/ \A field \in DOMAIN request[r].updates :
                    /\ field \in DOMAIN answer[r].deposit
                    /\ answer[r].deposit[field] = request[r].updates[field]

Store == INSTANCE DepositStore WITH deposits <- docs

(***************************************************************************)
(* Read, write and read back implement the atomic store: an update that    *)
(* overlaps others is merged into what is there, and none revives a        *)
(* deposit that was deleted after it had been found.                       *)
(***************************************************************************)
ImplementsDepositStore == Store!Spec
=============================================================================
