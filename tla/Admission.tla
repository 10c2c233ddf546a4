------------------------------ MODULE Admission ------------------------------
(***************************************************************************)
(* What stands between a request and its handler: JwtAuthGuard, then       *)
(* ThrottlerGuard, then ValidationPipe with the DTO of the route.  A body  *)
(* is a record of its fields; the fields no handler decides anything by    *)
(* are one, `others', which is well formed or not.                         *)
(***************************************************************************)
EXTENDS ReferenceValidation, PaymentMethodValidation, MobileNumber

\* Bearer tokens: none, one that passport refuses (its signature, its expiry), and two that
\* it verifies, without and with both ids in the payload.
Bearers == {"none", "refused", "incomplete", "complete"}
Verified == {"incomplete", "complete"}

validate(bearer) == bearer = "complete"

\* No route of transfers and payments is public.
canActivate(bearer) == bearer \in Verified /\ validate(bearer)

-----------------------------------------------------------------------------
(* The rules of the DTOs.  IsNotEmpty refuses only the empty string.         *)

Name(text) == text.len \in 1 .. 100

Present(dto, fields) == fields \subseteq DOMAIN dto

\* With forbidNonWhitelisted, a field that the DTO does not have is an error.
Whitelisted(dto, fields) == DOMAIN dto \subseteq fields

OfDigits(number, lengths) ==
    Len(number) \in lengths /\ \A i \in DOMAIN number : number[i] \in Digits

Required == {"firstName", "lastName", "others"}
CardFields == Required \cup {"countryCode", "mobileNumber", "userRef", "accountNumber"}
TransactionFields == CardFields \cup {"paymentMethod", "references"}

\* The rules of an optional field count if it is given.
CreateUpayDebitCreditCardTransactionDto(dto) ==
    /\ Present(dto, Required)
    /\ dto.others = "well formed"
    /\ Name(dto.firstName) /\ Name(dto.lastName)
    /\ "countryCode" \in DOMAIN dto => OfDigits(dto.countryCode, 1 .. 4)
    /\ "mobileNumber" \in DOMAIN dto => OfDigits(dto.mobileNumber, 10 .. 13)
    /\ "userRef" \in DOMAIN dto => dto.userRef.len <= 100
    /\ "accountNumber" \in DOMAIN dto => dto.accountNumber.len <= 50

UpayReferenceDto(reference) == reference.value.len > 0

CreateUpayTransactionDto(dto) ==
    /\ CreateUpayDebitCreditCardTransactionDto(dto)
    /\ "paymentMethod" \in DOMAIN dto => dto.paymentMethod \in UPAY_PAYMENT_METHODS
    /\ "references" \in DOMAIN dto =>
           \A i \in DOMAIN dto.references : UpayReferenceDto(dto.references[i])

\* The type of a transfer is one of TransferType; every other field is in `others'.
CreateTransferDto(dto) == Present(dto, {"others"}) /\ dto.others = "well formed"

\* The whole of ValidationPipe for the route kind.
Valid(kind, dto) ==
    CASE kind = "transaction" -> Whitelisted(dto, TransactionFields) /\ CreateUpayTransactionDto(dto)
      [] kind = "card" ->
            Whitelisted(dto, CardFields) /\ CreateUpayDebitCreditCardTransactionDto(dto)
      [] kind \in {"INSTAPAY", "PESONET"} -> Whitelisted(dto, {"others"}) /\ CreateTransferDto(dto)
      [] OTHER -> TRUE
=============================================================================
