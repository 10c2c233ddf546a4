------------------------------ MODULE Payments ------------------------------
(***************************************************************************)
(* TransfersService and UpayService from the request of a client to its    *)
(* answer.  A handler is suspended whenever it asks the bank something;    *)
(* the bank, the timers of the HTTP client, the timeout interceptor and a  *)
(* crash of the process interleave.  The gateway keeps nothing: the name   *)
(* of a request stands for the reference generated for it.                 *)
(***************************************************************************)
EXTENDS Admission, PartialFunctions

CONSTANTS
    Requests,    \* requests of clients
    Workloads,   \* each: the requests made, and what the bank may say of the biller
    None         \* not answered, sent or fetched

VARIABLES
    workload,   \* one of Workloads
    stage,      \* each request: what its handler waits for
    answer,     \* each request: the answer sent to the client
    sent,       \* each request: the body it posted to the bank
    bank,       \* the bank's state of the transfer or payment of each request
    reply,      \* each request: the state the bank is replying with
    rules,      \* each request: the definitions of references that it fetched
    billers     \* each request: the details of the biller that it fetched

vars == <<workload, stage, answer, sent, bank, reply, rules, billers>>

Made == DOMAIN workload.requests
Request(r) == workload.requests[r]

Transfer == {"INSTAPAY", "PESONET"}
Upay == {"transaction", "card"}
Inquiries == {"transferStatus", "inquiry", "form"}

Suspended == {"references", "method", "token", "posted", "asking"}
Running == {r \in Made : stage[r] \in Suspended}

\* States of the bank; "SENT" and "RETURNED" stand for those the gateway does not know.
Final == {"SUCCESS", "FAILED", "CANCELLED", "RETURNED"}
BankStates == {"PENDING", "PROCESSING", "SENT"} \cup Final

Created(r, status) == [code |-> 201, id |-> r, status |-> status]
Found(status) == [code |-> 200, status |-> status]
Form(ds) == [code |-> 200, form |-> {Simplified(d) : d \in ds}]
Rejected(what) == [code |-> 400, by |-> what]
Error(code) == [code |-> code]

\* The states clients see; "data" is whatever an inquiry finds that is no state.
Statuses == BankStates \cup {"COMPLETED", "data"}

Answers ==
    {Created(r, status) : r \in Requests, status \in Statuses}
        \cup {Found(status) : status \in Statuses}
        \cup {Form(ds) : ds \in UNION {w.definitions : w \in Workloads}}
        \cup {Rejected(what) : what \in {"body", "references", "method"}}
        \cup {Error(code) : code \in {0, 401, 404, 408, 429, 500, 502, 504}}

\* None is none of the things it stands in for; lengths are given at most once; the
\* biller's channels come in a list and numbers are texts; a question is about one of the
\* requests, if about any.
ASSUME PaymentsAssumption ==
    /\ None \notin BankStates \cup {"data"}
    /\ None \notin Answers
    /\ \A w \in Workloads :
        /\ DOMAIN w.requests \subseteq Requests
        /\ None \notin w.definitions
        /\ \A ds \in w.definitions : \A d \in ds :
               d.minCharLength \in Seq(Nat) /\ d.maxCharLength \in Seq(Nat)
        /\ \A bs \in w.billers : bs \in Seq(Seq(UpayPaymentChannel))
        /\ \A r \in DOMAIN w.requests :
               LET q == w.requests[r]
               IN  /\ q.kind = "transferStatus" => "target" \in DOMAIN q
                   /\ "target" \in DOMAIN q => q.target \in DOMAIN w.requests
                   /\ q.kind \in Upay =>
                        \A field \in {"countryCode", "mobileNumber"} \cap DOMAIN q.dto :
                            q.dto[field] \in Seq(STRING)

Init ==
    /\ workload \in Workloads
    /\ stage = [r \in Made |-> "idle"]
    /\ answer = [r \in Made |-> None]
    /\ sent = [r \in Made |-> None]
    /\ bank = [r \in Made |-> None]
    /\ reply = [r \in Made |-> None]
    /\ rules = [r \in Made |-> None]
    /\ billers = [r \in Made |-> None]

-----------------------------------------------------------------------------
(* What the handlers compute. *)

\* The status of an unknown state is open; a mutant takes it for a failure.
mapUnionbankStatusStrict(state) ==
    CASE state = "SUCCESS" -> "COMPLETED"
      [] state \in {"PENDING", "PROCESSING", "CANCELLED"} -> state
      [] OTHER -> "FAILED"

mapUnionbankStatus(state) ==
    CASE state \in {"SUCCESS", "COMPLETED"} -> "COMPLETED"
      [] state \in {"PENDING", "PROCESSING", "FAILED", "CANCELLED"} -> state
      [] OTHER -> "PENDING"

Optional(dto, field, otherwise) == IF field \in DOMAIN dto THEN dto[field] ELSE otherwise

Field(dto, index, field) == IF field \in DOMAIN dto THEN Entry(index, dto[field]) ELSE <<>>

\* Every route but the inquiries has a body.
IsValid(q) == q.kind \in Inquiries \/ Valid(q.kind, q.dto)

\* The first custom reference of each index.
Custom(references) ==
    [index \in {references[i].index : i \in DOMAIN references} |->
        LET first == CHOOSE i \in DOMAIN references :
                        /\ references[i].index = index
                        /\ \A j \in 1 .. i - 1 : references[j].index # index
        IN  references[first].value]

\* Mutant of buildReferencesForValidation: the last name is left out.
buildReferencesWithoutLastName(dto) ==
    Entry(1, dto.firstName) ++ Field(dto, 2, "accountNumber") ++ Field(dto, 3, "userRef")
        ++ Entry(5, dto.firstName) ++ Custom(Optional(dto, "references", <<>>))

\* Standard fields come first; custom references fill the other indexes.
buildReferencesForValidation(dto) ==
    Entry(1, dto.firstName) ++ Field(dto, 2, "accountNumber") ++ Field(dto, 3, "userRef")
        ++ Entry(4, dto.lastName) ++ Entry(5, dto.firstName)
        ++ Custom(Optional(dto, "references", <<>>))

\* The references of the body.
SubmittedReferences(dto) ==
    <<dto.firstName, Optional(dto, "accountNumber", Empty), Optional(dto, "userRef", Empty),
      dto.lastName, dto.firstName>>

\* The body of a payment.  The country code is computed and not sent.
createUpayTransactionRequest(dto, method) ==
    [references |-> SubmittedReferences(dto),
     paymentMethod |-> method,
     mobileNumber |-> normalizeMobileInfo(Optional(dto, "mobileNumber", <<>>),
                                          Optional(dto, "countryCode", <<>>)).mobileNumber]

\* Both products send what the client gave; it matters to no decision.
createTransferRequest(q) == [product |-> q.kind]

\* The method a payment asks for, if it asks for one.
Asked(q) == IF q.kind = "card" THEN DebitCredit ELSE Optional(q.dto, "paymentMethod", None)

Body(q) ==
    IF q.kind \in Transfer THEN createTransferRequest(q)
    ELSE createUpayTransactionRequest(q.dto, IF Asked(q) = None THEN Paygate ELSE Asked(q))

\* Transfers translate the state; payments and inquiries pass it on.
StatusOf(q, state) ==
    IF q.kind \in Transfer \cup {"transferStatus"} THEN mapUnionbankStatus(state) ELSE state

-----------------------------------------------------------------------------
(* The gateway. *)

Goto(r, next) == stage' = [stage EXCEPT ![r] = next] /\ UNCHANGED answer

\* The handler ends; what it returns or throws is lost on a client that was told 408.
End(r, a) ==
    /\ stage' = [stage EXCEPT ![r] = "ended"]
    /\ answer' = [answer EXCEPT ![r] = IF @ = None THEN a ELSE @]

createInstapayTransfer(r) == Request(r).kind = "INSTAPAY" /\ Goto(r, "token")
createPesonetTransfer(r) == Request(r).kind = "PESONET" /\ Goto(r, "token")
createTransfer(r) == createInstapayTransfer(r) \/ createPesonetTransfer(r)

createTransaction(r) == Request(r).kind = "transaction" /\ Goto(r, "references")

\* Mutant of createDebitCreditCardTransaction: cards are taken to be good for every biller.
createDebitCreditCardTransactionUnchecked(r) == Request(r).kind = "card" /\ Goto(r, "token")

createDebitCreditCardTransaction(r) == Request(r).kind = "card" /\ Goto(r, "references")

\* getTransferStatus, the getters of UPay and the simplified form.
Inquire(r) == Request(r).kind \in Inquiries /\ Goto(r, "asking")

\* A guard, the throttler or the pipe turns the request away.  The throttler counts all
\* requests from the address of the client, those of others behind it included.
Refuse(r) ==
    \/ ~canActivate(Request(r).bearer) /\ End(r, Error(401))
    \/ canActivate(Request(r).bearer) /\ End(r, Error(429))
    \/ canActivate(Request(r).bearer) /\ ~IsValid(Request(r)) /\ End(r, Rejected("body"))

Handle(r) ==
    /\ canActivate(Request(r).bearer) /\ IsValid(Request(r))
    /\ \/ createTransfer(r)
       \/ createTransaction(r) \/ createDebitCreditCardTransaction(r)
       \/ Inquire(r)

Receive(r) ==
    /\ stage[r] = "idle"
    /\ Refuse(r) \/ Handle(r)
    /\ UNCHANGED <<workload, sent, bank, reply, rules, billers>>

\* Mutant of validateTransactionReferences: its promise is not awaited.
validateTransactionReferencesDetached(r) ==
    \E ds \in workload.definitions :
        /\ rules' = [rules EXCEPT ![r] = ds]
        /\ stage' = [stage EXCEPT ![r] = "token"]
        /\ answer' =
             IF validateReferences(ds, buildReferencesForValidation(Request(r).dto)) # {}
             THEN [answer EXCEPT ![r] = IF @ = None THEN Rejected("references") ELSE @]
             ELSE answer

\* The definitions arrive and are applied.
validateTransactionReferences(r) ==
    \E ds \in workload.definitions :
        /\ rules' = [rules EXCEPT ![r] = ds]
        /\ IF validateReferences(ds, buildReferencesForValidation(Request(r).dto)) # {}
           THEN End(r, Rejected("references"))
           ELSE Goto(r, IF Asked(Request(r)) = None THEN "token" ELSE "method")

ReferencesFetched(r) ==
    /\ stage[r] = "references"
    /\ validateTransactionReferences(r)
    /\ UNCHANGED <<workload, sent, bank, reply, billers>>

\* The details of the biller arrive and the method is looked for in them.
validateMethod(r) ==
    \E bs \in workload.billers :
        /\ billers' = [billers EXCEPT ![r] = bs]
        /\ IF validatePaymentMethod(bs, Asked(Request(r))) # "valid"
           THEN End(r, Rejected("method"))
           ELSE Goto(r, "token")

BillerFetched(r) ==
    /\ stage[r] = "method"
    /\ validateMethod(r)
    /\ UNCHANGED <<workload, sent, bank, reply, rules>>

\* There is a token, and the body leaves for the bank.
Post(r) ==
    /\ stage[r] = "token"
    /\ sent' = [sent EXCEPT ![r] = Body(Request(r))]
    /\ Goto(r, "posted")
    /\ UNCHANGED <<workload, bank, reply, rules, billers>>

\* The reply of the bank to a creation or an inquiry reaches the handler.
Answer(r) ==
    /\ reply[r] # None
    /\ stage[r] \in {"posted", "asking"}
    /\ LET status == StatusOf(Request(r), reply[r])
       IN  End(r, IF stage[r] = "posted" THEN Created(r, status) ELSE Found(status))
    /\ UNCHANGED <<workload, sent, bank, reply, rules, billers>>

\* Both answers that getSimplifiedBillerDetails asks for are there.
getSimplifiedBillerDetails(r) ==
    /\ stage[r] = "asking"
    /\ Request(r).kind = "form"
    /\ \E ds \in workload.definitions, bs \in workload.billers :
        /\ rules' = [rules EXCEPT ![r] = ds]
        /\ End(r, IF bs = <<>> THEN Error(500) ELSE Form(ds))
    /\ UNCHANGED <<workload, sent, bank, reply, billers>>

\* A failed status of a transfer is answered as an unknown transfer, whatever failed.
ErrorsOf(r) ==
    IF Request(r).kind = "transferStatus" THEN {Error(404)}
    ELSE {Error(code) : code \in CASE stage[r] = "token" -> {401}
                                  [] stage[r] = "posted" -> {502, 504}
                                  [] OTHER -> {401, 502, 504}}

\* Mutant of CallFails: a request for a token never times out.
CallFailsButForTokens(r) ==
    /\ stage[r] \in Suspended \ {"token"}
    /\ \E e \in ErrorsOf(r) : End(r, e)
    /\ UNCHANGED <<workload, sent, bank, reply, rules, billers>>

\* The call of the bank fails, is refused or times out, or there is no token for it.
CallFails(r) ==
    /\ stage[r] \in Suspended
    /\ \E e \in ErrorsOf(r) : End(r, e)
    /\ UNCHANGED <<workload, sent, bank, reply, rules, billers>>

\* TimeoutInterceptor answers for a handler, which goes on.
Interrupt(r) ==
    /\ stage[r] \in Suspended
    /\ answer[r] = None
    /\ answer' = [answer EXCEPT ![r] = Error(408)]
    /\ UNCHANGED <<workload, stage, sent, bank, reply, rules, billers>>

Crash ==
    /\ Running # {}
    /\ stage' = [r \in Made |-> IF r \in Running THEN "ended" ELSE stage[r]]
    /\ answer' = [r \in Made |->
                    IF r \in Running /\ answer[r] = None THEN Error(0) ELSE answer[r]]
    /\ UNCHANGED <<workload, sent, bank, reply, rules, billers>>

-----------------------------------------------------------------------------
(* The bank. *)

\* It takes up what was posted, perhaps after the gateway gave up, and replies.  A transfer
\* may be over at once; a payment waits for its payer.
BankAccepts(r) ==
    /\ sent[r] # None
    /\ bank[r] = None
    /\ \E state \in IF Request(r).kind \in Transfer THEN BankStates ELSE {"PENDING"} :
        /\ bank' = [bank EXCEPT ![r] = state]
        /\ reply' = [reply EXCEPT ![r] = state]
    /\ UNCHANGED <<workload, stage, answer, sent, rules, billers>>

BankProceeds(r) ==
    /\ bank[r] \notin Final \cup {None}
    /\ \E state \in Final \cup IF Request(r).kind \in Transfer THEN {"PROCESSING", "SENT"} ELSE {} :
        bank' = [bank EXCEPT ![r] = state]
    /\ UNCHANGED <<workload, stage, answer, sent, reply, rules, billers>>

\* The product that getTransferStatus asks: any type that is not InstaPay's goes to PESONet.
Product(q) == IF q.type = "INSTAPAY" THEN "INSTAPAY" ELSE "PESONET"

\* It knows the payment an inquiry names if it is of the product that is asked; some
\* inquiries, as for the banks, name none.
Known(q) ==
    "target" \in DOMAIN q =>
        /\ bank[q.target] # None
        /\ q.kind = "transferStatus" => Product(q) = Request(q.target).kind

BankReplies(r) ==
    /\ stage[r] = "asking"
    /\ Request(r).kind # "form"
    /\ reply[r] = None
    /\ Known(Request(r))
    /\ reply' = [reply EXCEPT ![r] =
                    IF "target" \in DOMAIN Request(r) THEN bank[Request(r).target] ELSE "data"]
    /\ UNCHANGED <<workload, stage, answer, sent, bank, rules, billers>>

-----------------------------------------------------------------------------
Gateway(r) ==
    \/ Receive(r) \/ ReferencesFetched(r) \/ BillerFetched(r) \/ Post(r) \/ Answer(r)
    \/ getSimplifiedBillerDetails(r) \/ CallFails(r) \/ Interrupt(r)

Bank(r) == BankAccepts(r) \/ BankProceeds(r) \/ BankReplies(r)

Next == Crash \/ \E r \in Made : Gateway(r) \/ Bank(r)

\* The timer of axios gives up a call that has no answer.
Fairness == \A r \in Requests : WF_vars(r \in Made /\ CallFails(r))

Spec == Init /\ [][Next]_vars /\ Fairness

-----------------------------------------------------------------------------
(* What the gateway promises. *)

\* The handlers and the bank only ever reach the states the actions assume; a body leaves
\* after the definitions it was checked against came in (createTransaction, line by line).
TypeOK ==
    /\ stage \in [Made -> Suspended \cup {"idle", "ended"}]
    /\ answer \in [Made -> Answers \cup {None}]
    /\ bank \in [Made -> BankStates \cup {None}]
    /\ reply \in [Made -> BankStates \cup {"data", None}]
    /\ \A r \in Made :
        /\ stage[r] = "idle" => answer[r] = None
        /\ stage[r] = "ended" => answer[r] # None
        /\ stage[r] \in Suspended => answer[r] \in {None, Error(408)}
        /\ sent[r] # None /\ Request(r).kind \in Upay => rules[r] # None

\* An answer that a payment exists is true, and one that it was turned down stays true: the
\* bank never gets to see it (the order of the awaits in createTransaction and post).
AnswersAreTrue ==
    \A r \in Made : answer[r] # None =>
        /\ answer[r].code = 201 => bank[r] # None /\ answer[r].id = r
        /\ answer[r].code \in {400, 401, 429} => sent[r] = None

\* A client that is told a final status of a transfer is told the bank's, for good, although
\* the reply takes its time (mapUnionbankStatus, createTransfer, getTransferStatus).
FinalStatusIsTrue ==
    \A r \in Made :
        LET q == Request(r)
            state == bank[IF q.kind \in Transfer THEN r ELSE q.target]
        IN  /\ q.kind \in Transfer \cup {"transferStatus"}
            /\ answer[r] # None
            /\ answer[r].code \in {200, 201}
            => /\ answer[r].status = "COMPLETED" => state = "SUCCESS"
               /\ answer[r].status \in {"FAILED", "CANCELLED"} => state = answer[r].status

\* Payments without custom references, which are checked and never sent.
Standard == {r \in Made : Request(r).kind \in Upay /\ "references" \notin DOMAIN Request(r).dto}

\* What is checked is what is sent, although two functions build the two: a body meets the
\* definitions fetched for it, and one that would meet them is not turned down
\* (buildReferencesForValidation, createUpayTransactionRequest).
WhatIsCheckedIsSent ==
    \A r \in Standard :
        /\ sent[r] # None => validateReferences(rules[r], sent[r].references) = {}
        /\ answer[r] = Rejected("references") =>
               validateReferences(rules[r], SubmittedReferences(Request(r).dto)) # {}

\* A method that was asked for reaches the bank only if the biller was seen to offer it: under
\* one of its own codes if the biller has that, under a similar name otherwise.
MethodsAreOffered ==
    \A r \in Made :
        Request(r).kind \in Upay /\ sent[r] # None /\ Asked(Request(r)) # None =>
            LET method == sent[r].paymentMethod
                channels == {billers[r][1][i] : i \in DOMAIN billers[r][1]}
                own == {c \in channels : Exact(c, method)}
            IN  /\ method = Asked(Request(r))
                /\ \E c \in IF own # {} THEN own ELSE {c \in channels : Loose(c, method)} :
                        c.isEnabled /\ c.isAvailed

\* The ten digits of a Philippine mobile.
IsMobile(n) == Len(n) = 10 /\ isValidPhMobilePrefix(n[1])

\* The number a request gives, if it gives one, and its country.
GivesNumber(r) == Request(r).kind \in Upay /\ "mobileNumber" \in DOMAIN Request(r).dto
Country(r) == Optional(Request(r).dto, "countryCode", DEFAULT_COUNTRY_CODE)

\* However a client spells a Philippine mobile in the digits that its DTO lets through, the bank
\* gets the ten digits of that mobile, and no other mobile's; numbers of other countries are left
\* as they are (normalizeMobileNumber: two strippings, each with its own length).
MobileCanonical ==
    \A r \in Made : GivesNumber(r) /\ sent[r] # None =>
        LET given == Request(r).dto.mobileNumber
            number == sent[r].mobileNumber
        IN  IF Country(r) # DEFAULT_COUNTRY_CODE THEN number = given
            ELSE \A mobile \in {number, SubSeq(given, Len(given) - 9, Len(given))} :
                    IsMobile(mobile) => (number = mobile <=> given \in Spellings(mobile))

\* "Validation is applied post-normalization" (docs/upay.md): a number sent to the bank as a
\* Philippine one has, normalized, ten digits and begins with 9 or 8.
MobilesAreValidated ==
    \A r \in Made : GivesNumber(r) /\ sent[r] # None /\ Country(r) = DEFAULT_COUNTRY_CODE =>
        isValidPhMobileNumber(Request(r).dto.mobileNumber)

\* Who fills in the form the gateway shows is not turned down for references, as long as the
\* biller's definitions stay the same (getSimplifiedBillerDetails, validateReferences).
FormIsSufficient ==
    \A f, r \in Made :
        /\ Request(f).kind = "form" /\ answer[f] # None /\ answer[f].code = 200
        /\ answer[r] = Rejected("references")
        /\ rules[r] = rules[f]
        => \E entry \in answer[f].form :
                ~Complies(entry, InputAt(entry.index, buildReferencesForValidation(Request(r).dto)))

\* Every request that is received is answered and its handler ends: each call of the bank,
\* the one for a token included, has a timeout.
EveryRequestEnds ==
    \A r \in Requests :
        (r \in Made /\ stage[r] # "idle") ~> (r \in Made /\ stage[r] = "ended" /\ answer[r] # None)

\* docs/transfers.md: with an idempotency key that was used before, "the existing transfer will
\* be returned instead of creating a new one".
SameKeySameTransfer ==
    \A r, s \in Made :
        LET IsCreated(t) == answer[t] # None /\ answer[t].code = 201
        IN  Request(r).key = Request(s).key /\ IsCreated(r) /\ IsCreated(s)
                => answer[r].id = answer[s].id
=============================================================================
