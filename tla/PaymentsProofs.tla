--------------------------- MODULE PaymentsProofs ---------------------------
(***************************************************************************)
(* Proofs about Payments for every workload, whatever the bank, the        *)
(* deadlines and the crashes do.  The invariant PaymentsInv is a           *)
(* conjunction over the requests: how far a request of its kind gets       *)
(* (Journey), what it was checked against (Checked), what its answer says  *)
(* (Told) and whether that is the bank's state (Settled).  A step of one   *)
(* request leaves the others alone (OthersKeep), so that each action has   *)
(* to show its own request only (GatewayStep, BankStep).                   *)
(* AdmissionInv remembers what let a request through: the rules of its DTO *)
(* while its handler runs, and from the token on the channel that the      *)
(* biller was seen to offer.                                               *)
(***************************************************************************)
EXTENDS Payments, AdmissionProofs

\* A value that complies with an entry of the simplified form passes the definition it was
\* made from: Number('') and a missing maximum are no stricter there than in the form.
LEMMA FormIsStrict ==
    ASSUME NEW d, NEW value,
           d.minCharLength \in Seq(Nat), d.maxCharLength \in Seq(Nat),
           NEW inputs, value = InputAt(d.index, inputs),
           Complies(Simplified(d), value)
    PROVE  validateSingleReference(d, inputs) = {}
<1> DEFINE min == parseLength(d.minCharLength)
           max == parseLength(d.maxCharLength)
<1>1. CASE isEmpty(value)
  BY <1>1 DEF Complies, Simplified, validateSingleReference
<1>2. CASE ~isEmpty(value)
  <2>1. /\ value.len \in min .. IF d.maxCharLength = <<>> THEN 999 ELSE d.maxCharLength[1]
        /\ validateFieldType(d.fieldType, value)
        /\ validatePattern(d.validationType, value)
    BY <1>2 DEF Complies, Simplified
  <2>2. min \in Nat /\ max \in Nat
    BY DEF parseLength
  <2>3. value.len \in Nat /\ value.len >= min /\ (max > 0 => value.len <= max)
    BY <2>1, <2>2 DEF parseLength
  <2>4. Faults(d, value) = {}
    BY <2>1, <2>2, <2>3 DEF Faults
  <2>5. QED
    BY <1>2, <2>4 DEF validateSingleReference
<1>3. QED
  BY <1>1, <1>2

\* buildReferencesForValidation and createUpayTransactionRequest find the same input for every
\* index of a body without references of its own.
LEMMA SameReferences ==
    ASSUME NEW dto, "references" \notin DOMAIN dto, NEW index
    PROVE  InputAt(index, buildReferencesForValidation(dto))
             = InputAt(index, SubmittedReferences(dto))
<1> DEFINE a == Field(dto, 2, "accountNumber")
           u == Field(dto, 3, "userRef")
           c == Custom(Optional(dto, "references", <<>>))
           b == buildReferencesForValidation(dto)
           s == SubmittedReferences(dto)
<1>1. DOMAIN c = {}
  BY DEF Custom, Optional
<1>2. DOMAIN a = IF "accountNumber" \in DOMAIN dto THEN {2} ELSE {}
  BY DEF Field, Entry
<1>3. DOMAIN u = IF "userRef" \in DOMAIN dto THEN {3} ELSE {}
  BY DEF Field, Entry
<1>4. DOMAIN b = {1, 4, 5} \cup DOMAIN a \cup DOMAIN u
  BY <1>1 DEF buildReferencesForValidation, Entry, ++
<1>5. DOMAIN s = 1 .. 5
  BY DEF SubmittedReferences
<1>6. /\ s[1] = dto.firstName /\ s[4] = dto.lastName /\ s[5] = dto.firstName
      /\ s[2] = Optional(dto, "accountNumber", Empty)
      /\ s[3] = Optional(dto, "userRef", Empty)
  BY DEF SubmittedReferences
<1>7. b[1] = dto.firstName /\ b[4] = dto.lastName /\ b[5] = dto.firstName
  <2>1. b[1] = dto.firstName
    BY <1>1, <1>2, <1>3 DEF buildReferencesForValidation, Entry, ++
  <2>2. b[4] = dto.lastName
    BY <1>1, <1>2, <1>3 DEF buildReferencesForValidation, Entry, ++
  <2>3. b[5] = dto.firstName
    BY <1>1, <1>2, <1>3 DEF buildReferencesForValidation, Entry, ++
  <2>4. QED
    BY <2>1, <2>2, <2>3
<1>8. "accountNumber" \in DOMAIN dto => b[2] = dto["accountNumber"]
  BY <1>1, <1>2, <1>3 DEF buildReferencesForValidation, Field, Entry, ++
<1>9. "userRef" \in DOMAIN dto => b[3] = dto["userRef"]
  BY <1>1, <1>2, <1>3 DEF buildReferencesForValidation, Field, Entry, ++
<1>10. CASE index \in 1 .. 5
  BY <1>2, <1>3, <1>4, <1>5, <1>6, <1>7, <1>8, <1>9, <1>10 DEF InputAt, Optional
<1>11. CASE index \notin 1 .. 5
  BY <1>2, <1>3, <1>4, <1>5, <1>11 DEF InputAt
<1>12. QED
  BY <1>10, <1>11
-----------------------------------------------------------------------------
(* The inductive invariant, a request at a time. *)

Posting == Transfer \cup Upay

\* Where a request of a kind gets, and what has to come before a post and a reply.
Journey(r) ==
    /\ stage[r] \in {"references", "method"} => Request(r).kind \in Upay
    /\ stage[r] \in {"token", "posted"} => Request(r).kind \in Posting
    /\ stage[r] = "asking" => Request(r).kind \in Inquiries
    /\ sent[r] # None => Request(r).kind \in Posting /\ stage[r] \in {"posted", "ended"}
    /\ bank[r] # None => sent[r] # None
    /\ reply[r] # None => IF Request(r).kind \in Posting THEN bank[r] # None
                                                        ELSE Request(r).kind # "form"

References(r) == buildReferencesForValidation(Request(r).dto)

\* A payment that got past the definitions of its references meets them; one that was
\* turned down does not.
Checked(r) ==
    /\ Request(r).kind \in Upay /\ (stage[r] \in {"method", "token", "posted"} \/ sent[r] # None)
         => rules[r] # None /\ validateReferences(rules[r], References(r)) = {}
    /\ Request(r).kind \in Upay /\ sent[r] # None => sent[r] = Body(Request(r))
    /\ answer[r] = Rejected("references") =>
         /\ Request(r).kind \in Upay
         /\ rules[r] \in workload.definitions
         /\ validateReferences(rules[r], References(r)) # {}

\* What an answer tells is so, and the request is over unless the answer was the timeout's.
Told(r) ==
    answer[r] # None =>
        /\ answer[r].code = 201 => bank[r] # None /\ answer[r].id = r
        /\ answer[r].code \in {400, 401, 429} => sent[r] = None
        /\ Request(r).kind = "form" /\ answer[r].code = 200
             => answer[r] = Form(rules[r])

\* The bank's state of the transfer that a request makes or asks about.
StateFor(r) == bank[IF Request(r).kind \in Transfer THEN r ELSE Request(r).target]

\* A final state in a reply or in an answer is the bank's.
Settled(r) ==
    Request(r).kind \in Transfer \cup {"transferStatus"} =>
        /\ reply[r] # None => reply[r] \in BankStates
        /\ reply[r] \in Final => StateFor(r) = reply[r]
        /\ answer[r] # None /\ answer[r].code \in {200, 201} =>
            /\ answer[r].status = "COMPLETED" => StateFor(r) = "SUCCESS"
            /\ answer[r].status \in {"FAILED", "CANCELLED"} => StateFor(r) = answer[r].status

Shape ==
    /\ workload \in Workloads
    /\ sent = [r \in Made |-> sent[r]]
    /\ rules = [r \in Made |-> rules[r]]

PaymentsInv ==
    /\ TypeOK
    /\ Shape
    /\ \A r \in Made : Journey(r) /\ Checked(r) /\ Told(r) /\ Settled(r)

\* Nothing has been asked, answered or sent yet.
LEMMA PaymentsInvInit == Init => PaymentsInv
<1> SUFFICES ASSUME Init PROVE PaymentsInv
  OBVIOUS
<1> USE PaymentsAssumption DEF Init
<1>1. TypeOK /\ Shape
  BY DEF TypeOK, Shape, Suspended
<1>2. ASSUME NEW r \in Made PROVE Journey(r) /\ Checked(r) /\ Told(r) /\ Settled(r)
  <2>1. stage[r] = "idle" /\ answer[r] = None /\ sent[r] = None /\ bank[r] = None /\ reply[r] = None
    OBVIOUS
  <2>2. None \notin Final /\ None # Rejected("references")
    BY DEF BankStates, Answers
  <2>3. QED
    BY <2>1, <2>2 DEF Journey, Checked, Told, Settled
<1>3. QED
  BY <1>1, <1>2 DEF PaymentsInv

-----------------------------------------------------------------------------
(* A step of one request leaves the invariant of the others alone. *)

Untouched(s) ==
    /\ stage'[s] = stage[s] /\ answer'[s] = answer[s] /\ sent'[s] = sent[s]
    /\ bank'[s] = bank[s] /\ reply'[s] = reply[s] /\ rules'[s] = rules[s]

FinalStays == \A s \in Made : bank[s] \in Final => bank'[s] = bank[s]

\* The state an inquiry is about is that of a request that was made.
LEMMA StateForMade ==
    ASSUME Shape, NEW s \in Made, Request(s).kind \in Transfer \cup {"transferStatus"}
    PROVE  IF Request(s).kind \in Transfer THEN s \in Made ELSE Request(s).target \in Made
BY PaymentsAssumption DEF Shape, Request, Made

\* A final state at the bank stays, and with it what was told of it.
LEMMA SettledStays ==
    ASSUME Shape, NEW s \in Made, Settled(s), FinalStays, UNCHANGED workload,
           answer'[s] = answer[s], reply'[s] = reply[s]
    PROVE  Settled(s)'
<1>1. Request(s)' = Request(s) /\ Made' = Made
  BY DEF Request, Made
<1>2. Request(s).kind \in Transfer \cup {"transferStatus"} =>
        (StateFor(s) \in Final => StateFor(s)' = StateFor(s))
  BY <1>1, StateForMade DEF StateFor, FinalStays
<1>3. "SUCCESS" \in Final /\ "FAILED" \in Final /\ "CANCELLED" \in Final
  BY DEF Final
<1>4. QED
  BY <1>1, <1>2, <1>3 DEF Settled

\* A step that leaves a request untouched and final states final keeps what holds of it.
LEMMA OthersKeep ==
    ASSUME Shape, NEW s \in Made, Journey(s), Checked(s), Told(s), Settled(s),
           Untouched(s), FinalStays, UNCHANGED workload
    PROVE  Journey(s)' /\ Checked(s)' /\ Told(s)' /\ Settled(s)'
<1>1. Request(s)' = Request(s) /\ Made' = Made
  BY DEF Request, Made
<1>2. Journey(s)'
  BY <1>1 DEF Untouched, Journey
<1>3. Checked(s)'
  BY <1>1 DEF Untouched, Checked, References
<1>4. Told(s)'
  BY <1>1 DEF Untouched, Told
<1>5. Settled(s)'
  BY SettledStays DEF Untouched
<1>6. QED
  BY <1>2, <1>3, <1>4, <1>5

\* What a step of r has to show.
LEMMA StepOf ==
    ASSUME PaymentsInv, NEW r \in Made, UNCHANGED workload,
           TypeOK', sent' = [s \in Made |-> sent'[s]], rules' = [s \in Made |-> rules'[s]],
           \A s \in Made \ {r} : Untouched(s), FinalStays,
           Journey(r)', Checked(r)', Told(r)', Settled(r)'
    PROVE  PaymentsInv'
<1>1. Made' = Made
  BY DEF Made
<1>2. Shape'
  BY <1>1 DEF PaymentsInv, Shape
<1>3. ASSUME NEW s \in Made PROVE Journey(s)' /\ Checked(s)' /\ Told(s)' /\ Settled(s)'
  BY OthersKeep DEF PaymentsInv
<1>4. QED
  BY <1>1, <1>2, <1>3 DEF PaymentsInv

\* What the new stage p, answer a, body b and definitions ds of r have to satisfy.
Outcome(r, p, a, b, ds) ==
    LET kind == Request(r).kind
    IN  /\ p \in {"references", "method"} => kind \in Upay
        /\ p \in {"token", "posted"} => kind \in Posting
        /\ p = "asking" => kind \in Inquiries
        /\ b # None => kind \in Posting /\ p \in {"posted", "ended"}
        /\ bank[r] # None => b # None
        /\ kind \in Upay /\ (p \in {"method", "token", "posted"} \/ b # None)
             => ds # None /\ validateReferences(ds, References(r)) = {}
        /\ kind \in Upay /\ b # None => b = Body(Request(r))
        /\ a = Rejected("references") =>
             kind \in Upay /\ ds \in workload.definitions /\ validateReferences(ds, References(r)) # {}
        /\ a # None =>
            /\ a.code = 201 => bank[r] # None /\ a.id = r
            /\ a.code \in {400, 401, 429} => b = None
            /\ kind = "form" /\ a.code = 200 => a = Form(ds)
            /\ kind \in Transfer \cup {"transferStatus"} /\ a.code \in {200, 201} =>
                /\ a.status = "COMPLETED" => StateFor(r) = "SUCCESS"
                /\ a.status \in {"FAILED", "CANCELLED"} => StateFor(r) = a.status

\* A step of the gateway on r preserves the invariant if it leads to an Outcome.
LEMMA GatewayStep ==
    ASSUME PaymentsInv, NEW r \in Made, UNCHANGED <<workload, bank, reply>>,
           NEW p \in Suspended \cup {"ended"}, stage' = [stage EXCEPT ![r] = p],
           NEW a \in Answers \cup {None}, answer' = [answer EXCEPT ![r] = a],
           p = "ended" => a # None, p \in Suspended => a \in {None, Error(408)},
           NEW b, sent' = [sent EXCEPT ![r] = b],
           NEW ds, rules' = [rules EXCEPT ![r] = ds],
           Outcome(r, p, a, b, ds)
    PROVE  PaymentsInv'
<1>1. Made' = Made /\ \A s \in Made : Request(s)' = Request(s)
  BY DEF Made, Request
<1>2. /\ stage \in [Made -> Suspended \cup {"idle", "ended"}]
      /\ answer \in [Made -> Answers \cup {None}]
      /\ sent = [s \in Made |-> sent[s]] /\ rules = [s \in Made |-> rules[s]]
  BY DEF PaymentsInv, TypeOK, Shape
<1>3. stage'[r] = p /\ answer'[r] = a /\ sent'[r] = b /\ rules'[r] = ds
  BY <1>2
<1>4. \A s \in Made \ {r} : Untouched(s)
  BY <1>2 DEF Untouched
<1>5. sent' = [s \in Made |-> sent'[s]] /\ rules' = [s \in Made |-> rules'[s]]
  BY <1>2
<1>6. TypeOK'
  <2>1. /\ stage' \in [Made -> Suspended \cup {"idle", "ended"}]
        /\ answer' \in [Made -> Answers \cup {None}]
        /\ bank' \in [Made -> BankStates \cup {None}]
        /\ reply' \in [Made -> BankStates \cup {"data", None}]
    BY <1>2 DEF PaymentsInv, TypeOK
  <2>2. ASSUME NEW s \in Made
        PROVE  /\ stage'[s] = "idle" => answer'[s] = None
               /\ stage'[s] = "ended" => answer'[s] # None
               /\ stage'[s] \in Suspended => answer'[s] \in {None, Error(408)}
               /\ sent'[s] # None /\ Request(s).kind \in Upay => rules'[s] # None
    <3>1. CASE s = r
      BY <1>3, <3>1 DEF Suspended, Outcome
    <3>2. CASE s # r
      BY <1>4, <3>2 DEF Untouched, PaymentsInv, TypeOK
    <3>3. QED
      BY <3>1, <3>2
  <2>3. QED
    BY <1>1, <2>1, <2>2 DEF TypeOK
<1>7. FinalStays
  BY DEF FinalStays
<1>8. Journey(r)'
  BY <1>1, <1>3 DEF PaymentsInv, Journey, Outcome
<1>9. Checked(r)'
  BY <1>1, <1>3 DEF Checked, References, Outcome
<1>10. Told(r)'
  BY <1>1, <1>3 DEF Told, Outcome
<1>11. Settled(r)'
  <2>1. StateFor(r)' = StateFor(r)
    BY <1>1 DEF StateFor
  <2>2. QED
    BY <1>1, <1>3, <2>1 DEF PaymentsInv, Settled, Outcome
<1>12. QED
  BY <1>4, <1>5, <1>6, <1>7, <1>8, <1>9, <1>10, <1>11, StepOf

\* Errors tell nothing that could be untrue of a request that was not sent.
LEMMA ErrorsAreAnswers ==
    /\ \A code \in {0, 401, 404, 408, 429, 500, 502, 504} :
        Error(code) \in Answers /\ Error(code).code = code /\ Error(code) # Rejected("references")
    /\ \A what \in {"body", "references", "method"} :
        Rejected(what) \in Answers /\ Rejected(what).code = 400 /\ Rejected(what).by = what
    /\ None \notin Answers
<1>1. \A code : DOMAIN Error(code) = {"code"} /\ Error(code).code = code
  BY DEF Error
<1>2. \A what : DOMAIN Rejected(what) = {"code", "by"} /\ Rejected(what).code = 400 /\ Rejected(what).by = what
  BY DEF Rejected
<1>3. \A code \in {0, 401, 404, 408, 429, 500, 502, 504} : Error(code) \in Answers
  BY DEF Answers
<1>4. \A what \in {"body", "references", "method"} : Rejected(what) \in Answers
  BY DEF Answers
<1>5. \A code : Error(code) # Rejected("references")
  BY <1>1, <1>2
<1>6. QED
  BY <1>1, <1>2, <1>3, <1>4, <1>5, PaymentsAssumption

\* A handler ends with the answer a, or after the timeout's.
LEMMA EndStep ==
    ASSUME PaymentsInv, NEW r \in Made, UNCHANGED <<workload, bank, reply>>,
           stage[r] \in Suspended \cup {"idle"}, NEW a \in Answers, End(r, a),
           NEW b, sent' = [sent EXCEPT ![r] = b],
           NEW ds, rules' = [rules EXCEPT ![r] = ds],
           Outcome(r, "ended", a, b, ds)
    PROVE  PaymentsInv'
<1> DEFINE told == IF answer[r] = None THEN a ELSE answer[r]
<1>1. answer[r] \in {None, Error(408)}
  BY DEF PaymentsInv, TypeOK
<1>2. told \in Answers
  BY <1>1, ErrorsAreAnswers
<1>3. Outcome(r, "ended", told, b, ds)
  <2>1. CASE answer[r] = None
    BY <2>1
  <2>2. CASE answer[r] # None
    <3>1. told = Error(408) /\ told.code = 408 /\ told # Rejected("references")
      BY <1>1, <2>2, ErrorsAreAnswers
    <3> HIDE DEF told
    <3>2. QED
      BY <3>1 DEF Outcome
  <2>3. QED
    BY <2>1, <2>2
<1>4. told # None
  BY <1>2, ErrorsAreAnswers
<1>5. answer' = [answer EXCEPT ![r] = told] /\ stage' = [stage EXCEPT ![r] = "ended"]
  BY DEF End
<1> HIDE DEF told
<1>6. QED
  BY <1>2, <1>3, <1>4, <1>5, GatewayStep DEF Suspended

\* A handler goes on to the stage p.
LEMMA GotoStep ==
    ASSUME PaymentsInv, NEW r \in Made, UNCHANGED <<workload, bank, reply>>,
           stage[r] \in Suspended \cup {"idle"}, NEW p \in Suspended, Goto(r, p),
           NEW b, sent' = [sent EXCEPT ![r] = b],
           NEW ds, rules' = [rules EXCEPT ![r] = ds],
           Outcome(r, p, answer[r], b, ds)
    PROVE  PaymentsInv'
<1>1. answer[r] \in {None, Error(408)}
  BY DEF PaymentsInv, TypeOK
<1>2. answer[r] \in Answers \cup {None} /\ answer' = [answer EXCEPT ![r] = answer[r]]
  BY DEF Goto, PaymentsInv, TypeOK
<1>3. stage' = [stage EXCEPT ![r] = p] /\ p # "ended"
  BY DEF Goto, Suspended
<1>4. QED
  BY <1>1, <1>2, <1>3, GatewayStep

-----------------------------------------------------------------------------
(* The steps of the gateway. *)

\* What the invariant says of r before a step of it.
LEMMA Before ==
    ASSUME PaymentsInv, NEW r \in Made
    PROVE  /\ stage[r] = "idle" => answer[r] = None
           /\ stage[r] \in Suspended => answer[r] \in {None, Error(408)}
           /\ sent = [sent EXCEPT ![r] = sent[r]]
           /\ rules = [rules EXCEPT ![r] = rules[r]]
           /\ Journey(r) /\ Checked(r) /\ Told(r) /\ Settled(r)
<1>1. sent = [sent EXCEPT ![r] = sent[r]] /\ rules = [rules EXCEPT ![r] = rules[r]]
  BY DEF PaymentsInv, Shape
<1>2. QED
  BY <1>1 DEF PaymentsInv, TypeOK

\* DTO validation, the rate limits and the dispatch to a handler.
LEMMA InvReceive == ASSUME PaymentsInv, NEW r \in Made, Receive(r) PROVE PaymentsInv'
<1>1. /\ answer[r] = None /\ sent[r] = None /\ bank[r] = None
      /\ rules' = [rules EXCEPT ![r] = rules[r]] /\ sent' = [sent EXCEPT ![r] = None]
      /\ UNCHANGED <<workload, bank, reply, sent>> /\ stage[r] = "idle"
  BY Before DEF Receive, Journey
<1>2. ASSUME NEW a \in Answers, End(r, a),
             a.code \in {400, 401, 429}, a # Rejected("references")
      PROVE  PaymentsInv'
  <2>1. Outcome(r, "ended", a, None, rules[r])
    BY <1>1, <1>2 DEF Outcome
  <2>2. stage[r] \in Suspended \cup {"idle"}
    BY <1>1
  <2>3. sent' = [sent EXCEPT ![r] = None] /\ rules' = [rules EXCEPT ![r] = rules[r]]
        /\ UNCHANGED <<workload, bank, reply>>
    BY <1>1
  <2>4. End(r, a) /\ a \in Answers
    BY <1>2
  <2>5. QED
    BY <2>1, <2>2, <2>3, <2>4, EndStep, Zenon
<1>3. CASE Refuse(r)
  <2>1. Rejected("body") # Rejected("references")
    BY ErrorsAreAnswers
  <2>2. QED
    BY <1>2, <1>3, <2>1, ErrorsAreAnswers DEF Refuse
<1>4. CASE Handle(r)
  <2>1. PICK p \in {"token", "references", "asking"} :
            /\ Goto(r, p)
            /\ p = "token" => Request(r).kind \in Transfer
            /\ p = "references" => Request(r).kind \in Upay
            /\ p = "asking" => Request(r).kind \in Inquiries
    BY <1>4 DEF Handle, createTransfer, createInstapayTransfer, createPesonetTransfer,
                createTransaction, createDebitCreditCardTransaction, Inquire, Transfer, Upay
  <2>2. Outcome(r, p, answer[r], None, rules[r])
    <3>1. None # Rejected("references")
      BY ErrorsAreAnswers
    <3>2. QED
      BY <1>1, <2>1, <3>1 DEF Outcome, Posting, Transfer, Upay
  <2>3. p \in Suspended
    BY DEF Suspended
  <2>4. QED
    BY <1>1, <2>1, <2>2, <2>3, GotoStep
<1>5. QED
  BY <1>3, <1>4 DEF Receive

\* validateReferences on the definitions the bank returned.
LEMMA InvReferencesFetched ==
    ASSUME PaymentsInv, NEW r \in Made, ReferencesFetched(r) PROVE PaymentsInv'
<1>1. /\ stage[r] = "references" /\ Request(r).kind \in Upay
      /\ answer[r] \in {None, Error(408)}
      /\ sent[r] = None /\ bank[r] = None
      /\ UNCHANGED <<workload, bank, reply, sent>> /\ sent' = [sent EXCEPT ![r] = None]
  BY Before DEF ReferencesFetched, Journey, Suspended
<1>2. PICK ds \in workload.definitions :
        /\ rules' = [rules EXCEPT ![r] = ds]
        /\ IF validateReferences(ds, References(r)) # {}
           THEN End(r, Rejected("references"))
           ELSE Goto(r, IF Asked(Request(r)) = None THEN "token" ELSE "method")
  BY DEF ReferencesFetched, validateTransactionReferences, References
<1>3. ds # None
  BY PaymentsAssumption DEF PaymentsInv, Shape
<1>4. /\ stage[r] \in Suspended
      /\ \A p \in {"token", "method"} : p \in Suspended
  BY <1>1 DEF Suspended
<1>5. CASE validateReferences(ds, References(r)) # {}
  <2>1. Outcome(r, "ended", Rejected("references"), None, ds)
    BY <1>1, <1>2, <1>3, <1>5, ErrorsAreAnswers DEF Outcome
  <2>2. QED
    <3>1. End(r, Rejected("references")) /\ Rejected("references") \in Answers
      BY <1>2, <1>5, ErrorsAreAnswers
    <3>2. rules' = [rules EXCEPT ![r] = ds]
      BY <1>2
    <3>3. QED
      BY <1>1, <1>4, <2>1, <3>1, <3>2, EndStep, Zenon
<1>6. CASE validateReferences(ds, References(r)) = {}
  <2>1. PICK p \in {"token", "method"} : Goto(r, p)
    BY <1>2, <1>6
  <2>2. Outcome(r, p, answer[r], None, ds)
    BY <1>1, <1>3, <1>6, ErrorsAreAnswers DEF Outcome, Posting
  <2>3. QED
    BY <1>1, <1>2, <1>4, <2>1, <2>2, GotoStep
<1>7. QED
  BY <1>5, <1>6

\* The payment method, checked against the channels of the biller.
LEMMA InvBillerFetched ==
    ASSUME PaymentsInv, NEW r \in Made, BillerFetched(r) PROVE PaymentsInv'
<1>1. /\ stage[r] = "method" /\ Request(r).kind \in Upay
      /\ answer[r] \in {None, Error(408)}
      /\ sent[r] = None /\ bank[r] = None
      /\ UNCHANGED <<workload, bank, reply, sent>> /\ sent' = [sent EXCEPT ![r] = None]
      /\ rules' = [rules EXCEPT ![r] = rules[r]]
      /\ rules[r] # None /\ validateReferences(rules[r], References(r)) = {}
  BY Before DEF BillerFetched, Journey, Suspended, Checked
<1>2. stage[r] \in Suspended /\ "token" \in Suspended
  BY <1>1 DEF Suspended
<1>3. CASE End(r, Rejected("method"))
  <2>1. Rejected("method") # Rejected("references")
    BY ErrorsAreAnswers
  <2>2. Outcome(r, "ended", Rejected("method"), None, rules[r])
    BY <1>1, <2>1, ErrorsAreAnswers DEF Outcome
  <2>3. QED
    <3>1. Rejected("method") \in Answers
      BY ErrorsAreAnswers
    <3>2. QED
      BY <1>1, <1>2, <1>3, <2>2, <3>1, EndStep, Zenon
<1>4. CASE Goto(r, "token")
  <2>1. Outcome(r, "token", answer[r], None, rules[r])
    BY <1>1, ErrorsAreAnswers DEF Outcome, Posting
  <2>2. QED
    BY <1>1, <1>2, <1>4, <2>1, GotoStep
<1>5. QED
  BY <1>3, <1>4 DEF BillerFetched, validateMethod

\* The transaction leaves for the bank, after the checks.
LEMMA InvPost == ASSUME PaymentsInv, NEW r \in Made, Post(r) PROVE PaymentsInv'
<1>1. /\ stage[r] = "token" /\ Request(r).kind \in Posting
      /\ answer[r] \in {None, Error(408)}
      /\ bank[r] = None
      /\ UNCHANGED <<workload, bank, reply>>
      /\ rules' = [rules EXCEPT ![r] = rules[r]]
      /\ Request(r).kind \in Upay =>
            rules[r] # None /\ validateReferences(rules[r], References(r)) = {}
  BY Before DEF Post, Journey, Suspended, Checked
<1>2. stage[r] \in Suspended /\ "posted" \in Suspended
  BY <1>1 DEF Suspended
<1>3. Outcome(r, "posted", answer[r], Body(Request(r)), rules[r])
  BY <1>1, ErrorsAreAnswers DEF Outcome
<1>4. QED
  BY <1>1, <1>2, <1>3, GotoStep DEF Post

\* The reply of the bank becomes the answer.
LEMMA InvAnswer == ASSUME PaymentsInv, NEW r \in Made, Answer(r) PROVE PaymentsInv'
<1> DEFINE status == StatusOf(Request(r), reply[r])
           a == IF stage[r] = "posted" THEN Created(r, status) ELSE Found(status)
<1>1. /\ stage[r] \in {"posted", "asking"} /\ reply[r] # None
      /\ UNCHANGED <<workload, bank, reply>>
      /\ sent' = [sent EXCEPT ![r] = sent[r]] /\ rules' = [rules EXCEPT ![r] = rules[r]]
      /\ End(r, a)
      /\ reply[r] \in BankStates \cup {"data"}
  BY Before DEF Answer, PaymentsInv, TypeOK
<1>2. stage[r] \in Suspended \cup {"idle"}
  BY <1>1 DEF Suspended
<1>3. status \in Statuses
  BY <1>1 DEF StatusOf, mapUnionbankStatus, Statuses, BankStates, Final
<1>4. r \in Requests
  BY PaymentsAssumption DEF PaymentsInv, Shape, Made
<1>5. a \in Answers
  BY <1>3, <1>4 DEF Answers
<1>6. /\ a.code = IF stage[r] = "posted" THEN 201 ELSE 200
      /\ stage[r] = "posted" => a.id = r
      /\ a.status = status
  BY DEF Created, Found
<1>7. a # Rejected("references")
  BY <1>6, ErrorsAreAnswers
<1>8. ASSUME Request(r).kind \in Transfer \cup {"transferStatus"}
      PROVE  /\ status = "COMPLETED" => StateFor(r) = "SUCCESS"
             /\ status \in {"FAILED", "CANCELLED"} => StateFor(r) = status
  <2>1. reply[r] \in BankStates /\ (reply[r] \in Final => StateFor(r) = reply[r])
    BY <1>1, <1>8, Before DEF Settled
  <2>2. QED
    BY <1>8, <2>1 DEF StatusOf, mapUnionbankStatus, BankStates, Final
<1> HIDE DEF a, status
<1>9. Outcome(r, "ended", a, sent[r], rules[r])
  <2>1. Journey(r) /\ Checked(r)
    BY Before
  <2>2. stage[r] = "posted" => Request(r).kind \in Posting /\ bank[r] # None
    BY <1>1, <2>1 DEF Journey
  <2>3. stage[r] = "posted" => Request(r).kind # "form"
    BY <2>2 DEF Posting, Transfer, Upay
  <2>4. stage[r] # "posted" => Request(r).kind # "form"
    BY <1>1, <2>1 DEF Journey, Inquiries, Posting, Transfer, Upay
  <2>5. QED
    BY <1>1, <1>6, <1>7, <1>8, <2>1, <2>2, <2>3, <2>4 DEF Outcome, Journey, Checked
<1>10. QED
  BY <1>1, <1>2, <1>5, <1>9, EndStep, Zenon

\* The definitions of the biller become the form.
LEMMA InvForm ==
    ASSUME PaymentsInv, NEW r \in Made, getSimplifiedBillerDetails(r) PROVE PaymentsInv'
<1>1. /\ stage[r] = "asking" /\ Request(r).kind = "form"
      /\ UNCHANGED <<workload, bank, reply>>
      /\ sent' = [sent EXCEPT ![r] = sent[r]]
  BY Before DEF getSimplifiedBillerDetails
<1>2. PICK ds \in workload.definitions :
        /\ rules' = [rules EXCEPT ![r] = ds]
        /\ End(r, Error(500)) \/ End(r, Form(ds))
  BY DEF getSimplifiedBillerDetails
<1>3. stage[r] \in Suspended \cup {"idle"}
  BY <1>1 DEF Suspended
<1>4. sent[r] = None /\ bank[r] = None
  BY <1>1, Before DEF Journey, Posting, Transfer, Upay
<1>5. ASSUME NEW a \in Answers, End(r, a),
             a = Error(500) \/ a = Form(ds)
      PROVE  PaymentsInv'
  <2>1. a.code \in {200, 500} /\ a # Rejected("references") /\ (a.code = 200 => a = Form(ds))
    <3>1. Form(ds).code = 200
      BY DEF Form
    <3>2. QED
      BY <1>5, <3>1, ErrorsAreAnswers
  <2>2. Outcome(r, "ended", a, sent[r], ds)
    BY <1>1, <1>4, <2>1 DEF Outcome, Upay, Transfer
  <2>3. rules' = [rules EXCEPT ![r] = ds]
    BY <1>2
  <2>4. QED
    BY <1>1, <1>3, <1>5, <2>2, <2>3, EndStep, Zenon
<1>6. Error(500) \in Answers
  BY ErrorsAreAnswers
<1>7. Form(ds) \in Answers
  <2>1. ds \in UNION {w.definitions : w \in Workloads}
    BY DEF PaymentsInv, Shape
  <2>2. QED
    BY <2>1 DEF Answers
<1>8. QED
  BY <1>2, <1>5, <1>6, <1>7

\* A call of the bank ends in an error, and what each handler makes of it.
LEMMA InvCallFails == ASSUME PaymentsInv, NEW r \in Made, CallFails(r) PROVE PaymentsInv'
<1>1. /\ stage[r] \in Suspended
      /\ UNCHANGED <<workload, bank, reply>>
      /\ sent' = [sent EXCEPT ![r] = sent[r]] /\ rules' = [rules EXCEPT ![r] = rules[r]]
  BY Before DEF CallFails
<1>2. \E code \in {401, 404, 502, 504} : /\ End(r, Error(code))
                                         /\ stage[r] = "posted" => code # 401
  <2>1. PICK e \in ErrorsOf(r) : End(r, e)
    BY DEF CallFails
  <2>2. CASE Request(r).kind = "transferStatus"
    <3>1. e = Error(404)
      BY <2>2 DEF ErrorsOf
    <3>2. QED
      BY <2>1, <3>1
  <2>3. CASE Request(r).kind # "transferStatus"
    <3>1. PICK code \in {401, 502, 504} : e = Error(code) /\ (stage[r] = "posted" => code # 401)
      BY <2>3 DEF ErrorsOf
    <3>2. QED
      BY <2>1, <3>1
  <2>4. QED
    BY <2>2, <2>3
<1>3. PICK a \in Answers : /\ End(r, a) /\ a # Rejected("references")
                           /\ a.code \in {401, 404, 502, 504}
                           /\ stage[r] = "posted" => a.code # 401
  BY <1>2, ErrorsAreAnswers
<1>4. Outcome(r, "ended", a, sent[r], rules[r])
  <2>1. Journey(r) /\ Checked(r)
    BY Before
  <2>2. a.code = 401 => sent[r] = None
    BY <1>1, <1>3, <2>1 DEF Journey, Suspended
  <2>3. QED
    BY <1>3, <2>1, <2>2 DEF Outcome, Journey, Checked
<1>5. stage[r] \in Suspended \cup {"idle"}
  BY <1>1
<1>6. QED
  <2>1. End(r, a)
    BY <1>3
  <2>2. /\ UNCHANGED <<workload, bank, reply>>
        /\ sent' = [sent EXCEPT ![r] = sent[r]] /\ rules' = [rules EXCEPT ![r] = rules[r]]
    BY <1>1
  <2>3. QED
    BY <1>4, <1>5, <2>1, <2>2, EndStep, Zenon

\* The timeout interceptor answers for a handler that goes on.
LEMMA InvInterrupt == ASSUME PaymentsInv, NEW r \in Made, Interrupt(r) PROVE PaymentsInv'
<1>1. /\ stage[r] \in Suspended
      /\ UNCHANGED <<workload, bank, reply>>
      /\ sent' = [sent EXCEPT ![r] = sent[r]] /\ rules' = [rules EXCEPT ![r] = rules[r]]
      /\ answer' = [answer EXCEPT ![r] = Error(408)]
  BY Before DEF Interrupt
<1>2. stage' = [stage EXCEPT ![r] = stage[r]]
  BY DEF Interrupt, PaymentsInv, TypeOK
<1>3. Error(408) \in Answers /\ Error(408).code = 408 /\ Error(408) # Rejected("references")
  BY ErrorsAreAnswers
<1>4. Journey(r) /\ Checked(r)
  BY Before
<1>5. Outcome(r, stage[r], Error(408), sent[r], rules[r])
  BY <1>1, <1>3, <1>4 DEF Outcome, Journey, Checked
<1>6. sent[r] # None /\ Request(r).kind \in Upay => rules[r] # None
  BY <1>4 DEF Checked
<1>7. Error(408) \in Answers \cup {None} /\ stage[r] \in Suspended \cup {"ended"} /\ stage[r] # "ended"
  BY <1>1, <1>3 DEF Suspended
<1>8. QED
  BY <1>1, <1>2, <1>5, <1>7, GatewayStep

\* A crash ends what is running and answers nothing that would have to be true.
LEMMA InvCrash == ASSUME PaymentsInv, Crash PROVE PaymentsInv'
<1>1. /\ UNCHANGED <<workload, sent, bank, reply, rules>>
      /\ Made' = Made /\ \A r : Request(r)' = Request(r) /\ StateFor(r)' = StateFor(r)
  BY DEF Crash, Made, Request, StateFor
<1>2. ASSUME NEW r \in Made
      PROVE  /\ stage'[r] \in {stage[r], "ended"}
             /\ answer'[r] \in {answer[r], Error(0)}
             /\ stage'[r] # "ended" => stage[r] \in {"idle", "ended"} /\ answer'[r] = answer[r]
             /\ stage'[r] = "ended" => answer'[r] # None
             /\ stage'[r] = "idle" => answer'[r] = None
             /\ stage[r] = "ended" => answer'[r] = answer[r] /\ stage'[r] = "ended"
             /\ stage'[r] \notin Suspended
    <2>1. /\ stage'[r] = IF stage[r] \in Suspended THEN "ended" ELSE stage[r]
          /\ answer'[r] = IF stage[r] \in Suspended /\ answer[r] = None THEN Error(0) ELSE answer[r]
      BY DEF Crash, Running
    <2>2. /\ stage[r] \in Suspended \cup {"idle", "ended"}
          /\ stage[r] = "idle" => answer[r] = None
          /\ stage[r] = "ended" => answer[r] # None
      BY DEF PaymentsInv, TypeOK
    <2>3. Error(0) # None
      BY ErrorsAreAnswers
    <2>4. QED
      BY <2>1, <2>2, <2>3 DEF Suspended
<1>3. TypeOK'
  <2>1. /\ stage' \in [Made -> Suspended \cup {"idle", "ended"}]
        /\ answer' \in [Made -> Answers \cup {None}]
    <3>1. Error(0) \in Answers
      BY ErrorsAreAnswers
    <3>2. QED
      BY <3>1 DEF Crash, PaymentsInv, TypeOK
  <2>2. QED
    BY <1>1, <1>2, <2>1 DEF PaymentsInv, TypeOK
<1>4. ASSUME NEW r \in Made
      PROVE  Journey(r)' /\ Checked(r)' /\ Told(r)' /\ Settled(r)'
  <2>1. Journey(r) /\ Checked(r) /\ Told(r) /\ Settled(r)
    BY Before
  <2>2. stage'[r] \in {"idle", "ended"} /\ (stage'[r] = "idle" => stage[r] = "idle")
    BY <1>2 DEF PaymentsInv, TypeOK, Suspended
  <2>3. \/ answer'[r] = answer[r]
        \/ answer'[r] = Error(0) /\ answer'[r].code = 0 /\ answer'[r] # Rejected("references")
    <3>1. Error(0).code = 0 /\ Error(0) # Rejected("references")
      BY ErrorsAreAnswers
    <3>2. answer'[r] \in {answer[r], Error(0)}
      BY <1>2
    <3>3. QED
      BY <3>1, <3>2
  <2>4. Journey(r)'
    BY <1>1, <2>1, <2>2 DEF Journey
  <2>5. Checked(r)'
    BY <1>1, <2>1, <2>2, <2>3 DEF Checked, References
  <2>6. Told(r)'
    BY <1>1, <2>1, <2>3 DEF Told
  <2>7. Settled(r)'
    BY <1>1, <2>1, <2>3 DEF Settled
  <2>8. QED
    BY <2>4, <2>5, <2>6, <2>7
<1>5. Shape'
  BY <1>1 DEF Shape, PaymentsInv
<1>6. QED
  BY <1>1, <1>3, <1>4, <1>5 DEF PaymentsInv

-----------------------------------------------------------------------------
(* The steps of the bank. *)

\* A step of the bank on r gives it the state v and the reply w.
LEMMA BankStep ==
    ASSUME PaymentsInv, NEW r \in Made, UNCHANGED <<workload, stage, answer, sent, rules>>,
           NEW v \in BankStates \cup {None}, bank' = [bank EXCEPT ![r] = v],
           NEW w \in BankStates \cup {"data", None}, reply' = [reply EXCEPT ![r] = w],
           bank[r] \in Final => v = bank[r], bank[r] # None => v # None,
           v # None => sent[r] # None,
           w # None => IF Request(r).kind \in Posting THEN v # None
                                                     ELSE Request(r).kind # "form",
           Request(r).kind \in Transfer \cup {"transferStatus"} =>
             /\ w # None => w \in BankStates
             /\ w \in Final => w = StateFor(r)'
    PROVE  PaymentsInv'
<1>1. Made' = Made /\ \A s : Request(s)' = Request(s)
  BY DEF Made, Request
<1>2. bank'[r] = v /\ reply'[r] = w
  BY DEF PaymentsInv, TypeOK
<1>3. \A s \in Made \ {r} : Untouched(s)
  BY DEF Untouched, PaymentsInv, TypeOK
<1>4. FinalStays
  BY <1>2, <1>3 DEF FinalStays, Untouched
<1>5. TypeOK'
  BY <1>1 DEF PaymentsInv, TypeOK
<1>6. sent' = [s \in Made |-> sent'[s]] /\ rules' = [s \in Made |-> rules'[s]]
  BY DEF PaymentsInv, Shape
<1>7. Journey(r) /\ Checked(r) /\ Told(r) /\ Settled(r) /\ Shape
  BY Before DEF PaymentsInv
<1>8. Journey(r)'
  BY <1>1, <1>2, <1>7 DEF Journey
<1>9. Checked(r)'
  BY <1>1, <1>7 DEF Checked, References
<1>10. Told(r)'
  BY <1>1, <1>2, <1>7 DEF Told
<1>11. Settled(r)'
  <2>1. Request(r).kind \in Transfer \cup {"transferStatus"} =>
          (StateFor(r) \in Final => StateFor(r)' = StateFor(r))
    BY <1>1, <1>4, <1>7, StateForMade DEF StateFor, FinalStays
  <2>2. "SUCCESS" \in Final /\ "FAILED" \in Final /\ "CANCELLED" \in Final
    BY DEF Final
  <2>3. QED
    BY <1>1, <1>2, <1>7, <2>1, <2>2 DEF Settled
<1>12. QED
  BY <1>3, <1>4, <1>5, <1>6, <1>8, <1>9, <1>10, <1>11, StepOf

\* The bank books a transaction it was sent.
LEMMA InvBankAccepts == ASSUME PaymentsInv, NEW r \in Made, BankAccepts(r) PROVE PaymentsInv'
<1>1. PICK v \in BankStates : /\ bank' = [bank EXCEPT ![r] = v]
                              /\ reply' = [reply EXCEPT ![r] = v]
  BY DEF BankAccepts, BankStates
<1>2. /\ sent[r] # None /\ bank[r] = None
      /\ UNCHANGED <<workload, stage, answer, sent, rules>>
      /\ Request(r).kind \in Posting
      /\ v # None /\ None \notin Final
  BY Before, PaymentsAssumption DEF BankAccepts, Journey, BankStates
<1>3. Request(r).kind \in Transfer \cup {"transferStatus"} => v = StateFor(r)'
  <2>1. Request(r)' = Request(r) /\ bank'[r] = v
    BY <1>1, <1>2 DEF Request, PaymentsInv, TypeOK
  <2>2. QED
    BY <1>2, <2>1 DEF StateFor, Posting, Upay, Transfer
<1>4. QED
  BY <1>1, <1>2, <1>3, BankStep

\* The bank moves a transaction on, never from a final state.
LEMMA InvBankProceeds == ASSUME PaymentsInv, NEW r \in Made, BankProceeds(r) PROVE PaymentsInv'
<1>1. PICK v \in BankStates : bank' = [bank EXCEPT ![r] = v]
  BY DEF BankProceeds, BankStates
<1>2. /\ bank[r] # None /\ bank[r] \notin Final /\ v # None
      /\ sent[r] # None
      /\ UNCHANGED <<workload, stage, answer, sent, rules>>
      /\ reply' = [reply EXCEPT ![r] = reply[r]]
      /\ reply[r] \in BankStates \cup {"data", None}
  BY Before, PaymentsAssumption DEF BankProceeds, Journey, PaymentsInv, TypeOK
<1>3. Journey(r) /\ Settled(r) /\ Shape /\ Request(r)' = Request(r)
  BY <1>2, Before DEF PaymentsInv, Request
<1>4. reply[r] # None => IF Request(r).kind \in Posting THEN v # None
                                                      ELSE Request(r).kind # "form"
  BY <1>2, <1>3 DEF Journey
<1>5. ASSUME Request(r).kind \in Transfer \cup {"transferStatus"}
      PROVE  /\ reply[r] # None => reply[r] \in BankStates
             /\ reply[r] \in Final => reply[r] = StateFor(r)'
  <2>1. StateFor(r) \in Final => StateFor(r)' = StateFor(r)
    BY <1>1, <1>2, <1>3, <1>5, StateForMade DEF StateFor, PaymentsInv, TypeOK
  <2>2. QED
    BY <1>3, <1>5, <2>1 DEF Settled
<1>6. QED
  BY <1>1, <1>2, <1>4, <1>5, BankStep

\* The bank replies to an inquiry with the state it finds.
LEMMA InvBankReplies == ASSUME PaymentsInv, NEW r \in Made, BankReplies(r) PROVE PaymentsInv'
<1> DEFINE w == IF "target" \in DOMAIN Request(r) THEN bank[Request(r).target] ELSE "data"
<1>1. /\ stage[r] = "asking" /\ Request(r).kind # "form" /\ Known(Request(r))
      /\ UNCHANGED <<workload, stage, answer, sent, bank, rules>>
      /\ reply' = [reply EXCEPT ![r] = w]
      /\ bank' = [bank EXCEPT ![r] = bank[r]] /\ bank[r] \in BankStates \cup {None}
  BY DEF BankReplies, PaymentsInv, TypeOK
<1>2. Request(r).kind \in Inquiries /\ Request(r).kind \notin Posting /\ Request(r).kind \notin Transfer
  BY <1>1, Before DEF Journey, Inquiries, Posting, Transfer, Upay
<1>3. bank[r] # None => sent[r] # None
  BY Before DEF Journey
<1>4. "target" \in DOMAIN Request(r) => Request(r).target \in Made
  BY PaymentsAssumption DEF PaymentsInv, Shape, Request, Made
<1>5. w \in BankStates \cup {"data", None}
  BY <1>4 DEF PaymentsInv, TypeOK
<1>6. ASSUME Request(r).kind \in Transfer \cup {"transferStatus"}
      PROVE  w \in BankStates /\ w = StateFor(r)'
  <2>1. Request(r).kind = "transferStatus"
    BY <1>2, <1>6
  <2>2. "target" \in DOMAIN Request(r)
    BY <2>1, PaymentsAssumption DEF PaymentsInv, Shape, Request, Made
  <2>3. w = bank[Request(r).target] /\ w # None
    BY <1>1, <2>2 DEF Known
  <2>4. Request(r)' = Request(r)
    BY <1>1 DEF Request
  <2>5. w \in BankStates
    BY <1>4, <2>2, <2>3 DEF PaymentsInv, TypeOK
  <2>6. QED
    BY <1>1, <1>2, <2>3, <2>4, <2>5 DEF StateFor
<1> HIDE DEF w
<1>7. QED
  BY <1>1, <1>2, <1>3, <1>5, <1>6, BankStep

-----------------------------------------------------------------------------
\* Every step preserves the invariant.
LEMMA PaymentsInvNext == PaymentsInv /\ [Next]_vars => PaymentsInv'
<1> SUFFICES ASSUME PaymentsInv, [Next]_vars PROVE PaymentsInv'
  OBVIOUS
<1>1. CASE Crash
  BY <1>1, InvCrash
<1>2. ASSUME NEW r \in Made, Gateway(r) PROVE PaymentsInv'
  BY <1>2, InvReceive, InvReferencesFetched, InvBillerFetched, InvPost, InvAnswer, InvForm,
     InvCallFails, InvInterrupt DEF Gateway
<1>3. ASSUME NEW r \in Made, Bank(r) PROVE PaymentsInv'
  BY <1>3, InvBankAccepts, InvBankProceeds, InvBankReplies DEF Bank
<1>4. CASE UNCHANGED vars
  <2>1. /\ UNCHANGED <<workload, stage, answer, sent, bank, reply, rules>>
        /\ Made' = Made /\ \A r : Request(r)' = Request(r) /\ StateFor(r)' = StateFor(r)
    BY <1>4 DEF vars, Made, Request, StateFor
  <2>2. TypeOK' /\ Shape'
    BY <2>1 DEF PaymentsInv, TypeOK, Shape
  <2>3. ASSUME NEW r \in Made PROVE Untouched(r) /\ FinalStays
    BY <2>1 DEF Untouched, FinalStays
  <2>4. ASSUME NEW r \in Made PROVE Journey(r)' /\ Checked(r)' /\ Told(r)' /\ Settled(r)'
    BY <2>1, <2>3, OthersKeep DEF PaymentsInv
  <2>5. QED
    BY <2>1, <2>2, <2>4 DEF PaymentsInv
<1>5. QED
  BY <1>1, <1>2, <1>3, <1>4 DEF Next

\* PaymentsInv holds in every reachable state.
THEOREM PaymentsInvariant == Spec => []PaymentsInv
BY PaymentsInvInit, PaymentsInvNext, PTL DEF Spec

-----------------------------------------------------------------------------
(* What follows from the invariant. *)

\* Handlers and bank reach the assumed states only, and a body is sent after its definitions
\* were fetched (createTransaction).
THEOREM PaymentsTypeOK == Spec => []TypeOK
<1>1. PaymentsInv => TypeOK
  BY DEF PaymentsInv
<1>2. QED
  BY <1>1, PaymentsInvariant, PTL

\* A created payment exists at the bank under its id; one turned down was never sent
\* (createTransaction, createTransfer, post).
THEOREM PaymentsAnswersAreTrue == Spec => []AnswersAreTrue
<1>1. PaymentsInv => AnswersAreTrue
  BY DEF PaymentsInv, Told, AnswersAreTrue
<1>2. QED
  BY <1>1, PaymentsInvariant, PTL

\* A final status told to a client is the bank's and stays so (mapUnionbankStatus,
\* getTransferStatus), however long the reply was under way.
THEOREM PaymentsFinalStatusIsTrue == Spec => []FinalStatusIsTrue
<1>1. PaymentsInv => FinalStatusIsTrue
  BY DEF PaymentsInv, Settled, StateFor, FinalStatusIsTrue
<1>2. QED
  BY <1>1, PaymentsInvariant, PTL

\* The same references, checked from the body and from what is checked.
LEMMA SameVerdict ==
    ASSUME NEW definitions, NEW dto, "references" \notin DOMAIN dto
    PROVE  validateReferences(definitions, buildReferencesForValidation(dto))
             = validateReferences(definitions, SubmittedReferences(dto))
<1>1. \A d : validateSingleReference(d, buildReferencesForValidation(dto))
               = validateSingleReference(d, SubmittedReferences(dto))
  BY SameReferences DEF validateSingleReference
<1>2. QED
  BY <1>1 DEF validateReferences

\* What validateReferences checks is what createUpayTransactionRequest sends, for every body
\* without references of its own and every definitions.
THEOREM PaymentsWhatIsCheckedIsSent == Spec => []WhatIsCheckedIsSent
<1>1. PaymentsInv => WhatIsCheckedIsSent
  <2> SUFFICES ASSUME PaymentsInv, NEW r \in Standard
               PROVE  /\ sent[r] # None => validateReferences(rules[r], sent[r].references) = {}
                      /\ answer[r] = Rejected("references") =>
                           validateReferences(rules[r], SubmittedReferences(Request(r).dto)) # {}
    BY DEF WhatIsCheckedIsSent
  <2>1. /\ r \in Made /\ Request(r).kind \in Upay
        /\ validateReferences(rules[r], References(r))
             = validateReferences(rules[r], SubmittedReferences(Request(r).dto))
    BY SameVerdict DEF Standard, References
  <2>2. Checked(r)
    BY <2>1 DEF PaymentsInv
  <2>3. Body(Request(r)).references = SubmittedReferences(Request(r).dto)
    BY <2>1 DEF Body, createUpayTransactionRequest, Upay, Transfer
  <2>4. QED
    BY <2>1, <2>2, <2>3 DEF Checked
<1>2. QED
  BY <1>1, PaymentsInvariant, PTL

\* Who complies with the form of getSimplifiedBillerDetails is not turned down by
\* validateReferences on the same definitions.
THEOREM PaymentsFormIsSufficient == Spec => []FormIsSufficient
<1>1. PaymentsInv => FormIsSufficient
  <2> SUFFICES ASSUME PaymentsInv, NEW f \in Made, NEW r \in Made,
                      Request(f).kind = "form", answer[f] # None, answer[f].code = 200,
                      answer[r] = Rejected("references"), rules[r] = rules[f]
               PROVE  \E entry \in answer[f].form :
                          ~Complies(entry, InputAt(entry.index, References(r)))
    BY DEF FormIsSufficient, References
  <2>1. /\ answer[f] = Form(rules[r])
        /\ rules[r] \in workload.definitions
        /\ validateReferences(rules[r], References(r)) # {}
    BY DEF PaymentsInv, Told, Checked
  <2>2. PICK d \in rules[r] : validateSingleReference(d, References(r)) # {}
    BY <2>1 DEF validateReferences
  <2>3. d.minCharLength \in Seq(Nat) /\ d.maxCharLength \in Seq(Nat)
    BY <2>1, PaymentsAssumption DEF PaymentsInv, Shape
  <2>4. Simplified(d) \in answer[f].form /\ Simplified(d).index = d.index
    BY <2>1 DEF Form, Simplified
  <2>5. ~Complies(Simplified(d), InputAt(d.index, References(r)))
    BY <2>2, <2>3, FormIsStrict
  <2>6. QED
    BY <2>4, <2>5
<1>2. QED
  BY <1>1, PaymentsInvariant, PTL

-----------------------------------------------------------------------------
(* What was looked at before a payment leaves: its body and its method. *)

\* A handler runs only for a body that its DTO lets through.
Admitted(r) == stage[r] \in Suspended \/ sent[r] # None => IsValid(Request(r))

\* A payment that asked for a method gets past the biller's channels only if it is valid there.
Offered(r) ==
    /\ Request(r).kind \in Upay /\ Asked(Request(r)) # None
    /\ stage[r] \in {"token", "posted"} \/ sent[r] # None
    => /\ billers[r] \in workload.billers
       /\ validatePaymentMethod(billers[r], Asked(Request(r))) = "valid"

AdmissionInv ==
    /\ billers = [r \in Made |-> billers[r]]
    /\ \A r \in Made : Admitted(r) /\ Offered(r)

\* A request that goes nowhere but to its end keeps what it was admitted with.
LEMMA AdmissionKept ==
    ASSUME NEW r \in Made, Admitted(r), Offered(r), UNCHANGED workload,
           stage'[r] \in {stage[r], "ended"}, sent'[r] = sent[r], billers'[r] = billers[r]
    PROVE  Admitted(r)' /\ Offered(r)'
<1>1. Request(r)' = Request(r)
  BY DEF Request
<1>2. Admitted(r)'
  BY <1>1 DEF Admitted, Suspended
<1>3. Offered(r)'
  BY <1>1 DEF Offered
<1>4. QED
  BY <1>2, <1>3

\* What a step that changes at most the stage, the body and the biller of r has to show.
LEMMA AdmissionStep ==
    ASSUME PaymentsInv, AdmissionInv, NEW r \in Made, UNCHANGED workload,
           NEW p, stage' = [stage EXCEPT ![r] = p],
           NEW b, sent' = [sent EXCEPT ![r] = b],
           NEW bs, billers' = [billers EXCEPT ![r] = bs],
           p \in Suspended \/ b # None => IsValid(Request(r)),
           /\ Request(r).kind \in Upay /\ Asked(Request(r)) # None
           /\ p \in {"token", "posted"} \/ b # None
           => bs \in workload.billers /\ validatePaymentMethod(bs, Asked(Request(r))) = "valid"
    PROVE  AdmissionInv'
<1>1. Made' = Made /\ \A s : Request(s)' = Request(s)
  BY DEF Made, Request
<1>2. /\ stage \in [Made -> Suspended \cup {"idle", "ended"}]
      /\ sent = [s \in Made |-> sent[s]] /\ billers = [s \in Made |-> billers[s]]
  BY DEF PaymentsInv, TypeOK, Shape, AdmissionInv
<1>3. stage'[r] = p /\ sent'[r] = b /\ billers'[r] = bs
  BY <1>2
<1>4. billers' = [s \in Made |-> billers'[s]]
  BY <1>2
<1>5. Admitted(r)' /\ Offered(r)'
  BY <1>1, <1>3 DEF Admitted, Offered
<1>6. ASSUME NEW s \in Made \ {r}
      PROVE  Admitted(s)' /\ Offered(s)'
  <2>1. stage'[s] = stage[s] /\ sent'[s] = sent[s] /\ billers'[s] = billers[s]
    BY <1>2
  <2>2. QED
    BY <2>1, AdmissionKept DEF AdmissionInv
<1>7. QED
  BY <1>1, <1>4, <1>5, <1>6 DEF AdmissionInv

\* A handler that ends, or waits on, was admitted before.
LEMMA AdmissionEnd ==
    ASSUME PaymentsInv, AdmissionInv, UNCHANGED <<workload, sent, billers>>,
           \A r \in Made : stage'[r] \in {stage[r], "ended"}
    PROVE  AdmissionInv'
<1>1. Made' = Made
  BY DEF Made
<1>2. ASSUME NEW r \in Made
      PROVE  Admitted(r)' /\ Offered(r)'
  BY AdmissionKept DEF AdmissionInv
<1>3. QED
  BY <1>1, <1>2 DEF AdmissionInv

\* The guards, the pipe and the dispatch.
LEMMA AdmissionReceive ==
    ASSUME PaymentsInv, AdmissionInv, NEW r \in Made, Receive(r)
    PROVE  AdmissionInv'
<1>1. /\ stage[r] = "idle" /\ sent[r] = None /\ UNCHANGED <<workload, sent, billers>>
      /\ stage \in [Made -> Suspended \cup {"idle", "ended"}]
      /\ sent = [s \in Made |-> sent[s]] /\ billers = [s \in Made |-> billers[s]]
  BY Before DEF Receive, Journey, PaymentsInv, TypeOK, Shape, AdmissionInv
<1>2. CASE Refuse(r)
  <2>1. stage' = [stage EXCEPT ![r] = "ended"]
    BY <1>2 DEF Refuse, End
  <2>2. QED
    BY <1>1, <2>1, AdmissionEnd
<1>3. CASE Handle(r)
  <2>1. PICK p \in {"token", "references", "asking"} :
            /\ Goto(r, p)
            /\ p = "token" => Request(r).kind \in Transfer
    BY <1>3 DEF Handle, createTransfer, createInstapayTransfer, createPesonetTransfer,
                createTransaction, createDebitCreditCardTransaction, Inquire, Transfer
  <2>2. p = "token" => Request(r).kind \notin Upay
    BY <2>1 DEF Transfer, Upay
  <2>3. /\ stage' = [stage EXCEPT ![r] = p]
        /\ sent' = [sent EXCEPT ![r] = None]
        /\ billers' = [billers EXCEPT ![r] = billers[r]]
    BY <1>1, <2>1 DEF Goto
  <2>4. IsValid(Request(r)) /\ UNCHANGED workload
    BY <1>1, <1>3 DEF Handle
  <2>5. QED
    BY <2>1, <2>2, <2>3, <2>4, AdmissionStep
<1>4. QED
  BY <1>2, <1>3 DEF Receive

\* Past the references a payment without a method goes to the bank at once.
LEMMA AdmissionReferences ==
    ASSUME PaymentsInv, AdmissionInv, NEW r \in Made, ReferencesFetched(r)
    PROVE  AdmissionInv'
<1>1. /\ stage[r] = "references" /\ sent[r] = None /\ UNCHANGED <<workload, sent, billers>>
      /\ stage \in [Made -> Suspended \cup {"idle", "ended"}]
      /\ sent = [s \in Made |-> sent[s]] /\ billers = [s \in Made |-> billers[s]]
  BY Before DEF ReferencesFetched, Journey, PaymentsInv, TypeOK, Shape, AdmissionInv
<1>2. CASE stage' = [stage EXCEPT ![r] = "ended"]
  BY <1>1, <1>2, AdmissionEnd
<1>3. ASSUME NEW p, p = IF Asked(Request(r)) = None THEN "token" ELSE "method",
             stage' = [stage EXCEPT ![r] = p]
      PROVE  AdmissionInv'
  <2>1. IsValid(Request(r))
    BY <1>1 DEF AdmissionInv, Admitted, Suspended
  <2>2. /\ sent' = [sent EXCEPT ![r] = None]
        /\ billers' = [billers EXCEPT ![r] = billers[r]]
        /\ UNCHANGED workload
    BY <1>1
  <2>3. Asked(Request(r)) # None => p \notin {"token", "posted"}
    BY <1>3
  <2>4. QED
    BY <1>3, <2>1, <2>2, <2>3, AdmissionStep
<1>4. QED
  BY <1>2, <1>3 DEF ReferencesFetched, validateTransactionReferences, End, Goto

\* Past the channels of the biller the method is valid.
LEMMA AdmissionBiller ==
    ASSUME PaymentsInv, AdmissionInv, NEW r \in Made, BillerFetched(r)
    PROVE  AdmissionInv'
<1>1. /\ stage[r] = "method" /\ sent[r] = None /\ UNCHANGED <<workload, sent>>
      /\ sent = [s \in Made |-> sent[s]]
  BY Before DEF BillerFetched, Journey, PaymentsInv, Shape
<1>2. PICK bs \in workload.billers :
        /\ billers' = [billers EXCEPT ![r] = bs]
        /\ \/ stage' = [stage EXCEPT ![r] = "ended"]
           \/ /\ stage' = [stage EXCEPT ![r] = "token"]
              /\ validatePaymentMethod(bs, Asked(Request(r))) = "valid"
  BY DEF BillerFetched, validateMethod, End, Goto
<1>3. IsValid(Request(r))
  BY <1>1 DEF AdmissionInv, Admitted, Suspended
<1>4. sent' = [sent EXCEPT ![r] = None] /\ UNCHANGED workload
  BY <1>1
<1>5. CASE stage' = [stage EXCEPT ![r] = "ended"]
  <2>1. billers' = [billers EXCEPT ![r] = bs]
    BY <1>2
  <2>2. "ended" \notin Suspended /\ "ended" \notin {"token", "posted"}
    BY DEF Suspended
  <2>3. QED
    BY <1>4, <1>5, <2>1, <2>2, AdmissionStep
<1>6. CASE /\ stage' = [stage EXCEPT ![r] = "token"]
           /\ validatePaymentMethod(bs, Asked(Request(r))) = "valid"
  BY <1>2, <1>3, <1>4, <1>6, AdmissionStep
<1>7. QED
  BY <1>2, <1>5, <1>6

\* What leaves was admitted and offered when its handler went for the token.
LEMMA AdmissionPost ==
    ASSUME PaymentsInv, AdmissionInv, NEW r \in Made, Post(r)
    PROVE  AdmissionInv'
<1>1. /\ stage[r] = "token" /\ UNCHANGED <<workload, billers>>
      /\ stage' = [stage EXCEPT ![r] = "posted"]
      /\ sent' = [sent EXCEPT ![r] = Body(Request(r))]
      /\ billers' = [billers EXCEPT ![r] = billers[r]]
  BY DEF Post, Goto, AdmissionInv
<1>2. IsValid(Request(r))
  BY <1>1 DEF AdmissionInv, Admitted, Suspended
<1>3. Request(r).kind \in Upay /\ Asked(Request(r)) # None =>
        /\ billers[r] \in workload.billers
        /\ validatePaymentMethod(billers[r], Asked(Request(r))) = "valid"
  BY <1>1 DEF AdmissionInv, Offered
<1>4. QED
  BY <1>1, <1>2, <1>3, AdmissionStep

\* Both invariants hold in every reachable state.
THEOREM PaymentsAdmission == Spec => [](PaymentsInv /\ AdmissionInv)
<1>1. Init => AdmissionInv
  BY DEF Init, AdmissionInv, Admitted, Offered, Suspended
<1>2. PaymentsInv /\ AdmissionInv /\ [Next]_vars => AdmissionInv'
  <2> SUFFICES ASSUME PaymentsInv, AdmissionInv, [Next]_vars PROVE AdmissionInv'
    OBVIOUS
  <2>1. stage \in [Made -> Suspended \cup {"idle", "ended"}]
    BY DEF PaymentsInv, TypeOK
  <2>2. CASE Crash
    <3>1. \A r \in Made : stage'[r] \in {stage[r], "ended"}
      BY <2>2 DEF Crash
    <3>2. QED
      BY <2>2, <3>1, AdmissionEnd DEF Crash
  <2>3. ASSUME NEW r \in Made, Gateway(r)
        PROVE  AdmissionInv'
    <3>1. CASE Answer(r) \/ getSimplifiedBillerDetails(r) \/ CallFails(r) \/ Interrupt(r)
      <4>1. \A s \in Made : stage'[s] \in {stage[s], "ended"}
        BY <2>1, <3>1 DEF Answer, getSimplifiedBillerDetails, CallFails, Interrupt, End
      <4>2. UNCHANGED <<workload, sent, billers>>
        BY <3>1 DEF Answer, getSimplifiedBillerDetails, CallFails, Interrupt
      <4>3. QED
        BY <4>1, <4>2, AdmissionEnd
    <3>2. QED
      BY <2>3, <3>1, AdmissionReceive, AdmissionReferences, AdmissionBiller, AdmissionPost
      DEF Gateway
  <2>4. ASSUME NEW r \in Made, Bank(r)
        PROVE  AdmissionInv'
    <3>1. UNCHANGED <<workload, stage, sent, billers>>
      BY <2>4 DEF Bank, BankAccepts, BankProceeds, BankReplies
    <3>2. QED
      BY <3>1, AdmissionEnd
  <2>5. CASE UNCHANGED vars
    BY <2>5, AdmissionEnd DEF vars
  <2>6. QED
    BY <2>2, <2>3, <2>4, <2>5 DEF Next
<1>3. QED
  BY <1>1, <1>2, PaymentsInvInit, PaymentsInvNext, PTL DEF Spec

\* A method that was asked for reaches the bank only if the biller was seen to offer it, by the
\* best of its channels (findMatchingChannel, validateMethod), whatever list of channels it is.
THEOREM PaymentsMethodsAreOffered == Spec => []MethodsAreOffered
<1>1. PaymentsInv /\ AdmissionInv => MethodsAreOffered
  <2> SUFFICES ASSUME PaymentsInv, AdmissionInv, NEW r \in Made,
                      Request(r).kind \in Upay, sent[r] # None, Asked(Request(r)) # None
               PROVE  LET method == sent[r].paymentMethod
                          channels == {billers[r][1][i] : i \in DOMAIN billers[r][1]}
                          own == {c \in channels : Exact(c, method)}
                      IN  /\ method = Asked(Request(r))
                          /\ \E c \in IF own # {} THEN own ELSE {c \in channels : Loose(c, method)} :
                                  c.isEnabled /\ c.isAvailed
    BY DEF MethodsAreOffered
  <2>1. sent[r] = Body(Request(r))
    BY DEF PaymentsInv, Checked
  <2>2. sent[r].paymentMethod = Asked(Request(r))
    BY <2>1 DEF Body, createUpayTransactionRequest, Upay, Transfer
  <2>3. /\ billers[r] \in workload.billers
        /\ validatePaymentMethod(billers[r], Asked(Request(r))) = "valid"
    BY DEF AdmissionInv, Offered
  <2>4. billers[r] \in Seq(Seq(UpayPaymentChannel))
    BY <2>3, PaymentsAssumption DEF PaymentsInv, Shape
  <2>5. /\ billers[r] # <<>>
        /\ validateAgainstBillerChannels(billers[r][1], Asked(Request(r))) = "valid"
    BY <2>3 DEF validatePaymentMethod
  <2>6. billers[r][1] \in Seq(UpayPaymentChannel)
    BY <2>4, <2>5
  <2>7. QED
    BY <2>2, <2>5, <2>6, ValidIsOffered
<1>2. QED
  BY <1>1, PaymentsAdmission, PTL

\* However the digits of a Philippine mobile are written, the bank gets its ten digits and no
\* other mobile's, and a foreign number as it is (normalizeMobileInfo, normalizeMobileNumber).
THEOREM PaymentsMobileCanonical == Spec => []MobileCanonical
<1>1. PaymentsInv /\ AdmissionInv => MobileCanonical
  <2> SUFFICES ASSUME PaymentsInv, AdmissionInv, NEW r \in Made, GivesNumber(r), sent[r] # None
               PROVE  LET given == Request(r).dto.mobileNumber
                          number == sent[r].mobileNumber
                          last == SubSeq(given, Len(given) - 9, Len(given))
                      IN  IF Country(r) # DEFAULT_COUNTRY_CODE THEN number = given
                          ELSE \A mobile \in {number, last} :
                                  IsMobile(mobile) =>
                                      (number = mobile <=> given \in Spellings(mobile))
    BY DEF MobileCanonical
  <2> DEFINE dto == Request(r).dto
             given == dto.mobileNumber
             code == Optional(dto, "countryCode", <<>>)
             country == Country(r)
  <2> USE DEF GivesNumber, Country
  <2>1. sent[r].mobileNumber = normalizeMobileNumber(given, normalizeCountryCode(code))
    <3>1. sent[r] = Body(Request(r))
      BY DEF PaymentsInv, Checked
    <3>2. Body(Request(r)).mobileNumber = normalizeMobileInfo(given, code).mobileNumber
      BY DEF Body, createUpayTransactionRequest, Upay, Transfer, Optional
    <3>3. QED
      BY <3>1, <3>2 DEF normalizeMobileInfo
  <2>2. /\ OfDigits(given, 10 .. 13)
        /\ "countryCode" \in DOMAIN dto => OfDigits(dto.countryCode, 1 .. 4)
    <3>1. IsValid(Request(r))
      BY DEF AdmissionInv, Admitted
    <3>2. CreateUpayDebitCreditCardTransactionDto(dto)
      BY <3>1 DEF IsValid, Valid, Inquiries, Upay, CreateUpayTransactionDto
    <3>3. QED
      BY <3>2 DEF CreateUpayDebitCreditCardTransactionDto
  <2>3. /\ given \in Seq(STRING)
        /\ "countryCode" \in DOMAIN dto => dto.countryCode \in Seq(STRING)
    BY PaymentsAssumption DEF PaymentsInv, Shape, Made, Request
  <2>4. /\ normalizeCountryCode(code) = country
        /\ normalizeCountryCode(country) = country
    <3>1. CASE "countryCode" \in DOMAIN dto
      BY <2>2, <2>3, <3>1, CountryCodes DEF Optional
    <3>2. CASE "countryCode" \notin DOMAIN dto
      BY <3>2, CountryCodes DEF Optional
    <3>3. QED
      BY <3>1, <3>2
  <2>5. CASE country # DEFAULT_COUNTRY_CODE
    BY <2>1, <2>4, <2>5 DEF normalizeMobileNumber
  <2>6. CASE country = DEFAULT_COUNTRY_CODE
    <3>1. sent[r].mobileNumber = normalizeMobileNumber(given, DEFAULT_COUNTRY_CODE)
      BY <2>1, <2>4, <2>6
    <3> HIDE DEF given
    <3>2. QED
      BY <2>2, <2>3, <2>6, <3>1, Canonical DEF given, IsMobile
  <2>7. QED
    BY <2>5, <2>6
<1>2. QED
  BY <1>1, PaymentsAdmission, PTL
=============================================================================
