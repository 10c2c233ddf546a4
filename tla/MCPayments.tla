----------------------------- MODULE MCPayments -----------------------------
(* The instances of Payments that TLC checks. *)
EXTENDS Payments, TLC

CONSTANTS r1, r2, k

MCRequests == {r1, r2}

Text(len, chars) == [len |-> len, chars |-> chars]
Maria == Text(5, "letters")
MariaClara == Text(11, "spaced")

Nobody == [firstName |-> Maria, lastName |-> Maria, others |-> "well formed"]

Definition(index, required, visible, fieldType, pattern, min, max) ==
    [index |-> index, isRequired |-> required, isVisible |-> visible, fieldType |-> fieldType,
     validationType |-> pattern, minCharLength |-> min, maxCharLength |-> max]

Channel(code, name, enabled, availed) ==
    [code |-> code, name |-> name, isEnabled |-> enabled, isAvailed |-> availed]

NoRules == {{}}
NoBiller == {<<>>}

\* A transfer and a question after it, with the right product, the wrong one or something else.
Transfers ==
    {[requests |-> r1 :> [kind |-> p, key |-> k, dto |-> [others |-> "well formed"]]
                   @@ r2 :> [kind |-> "transferStatus", target |-> r1, type |-> type],
      definitions |-> NoRules, billers |-> NoBiller] :
        p \in Transfer, type \in {"INSTAPAY", "PESONET", "other"}}

\* A payment and a question after it, or one that is about none.
Asking ==
    {[requests |-> r1 :> [kind |-> "card", dto |-> Nobody] @@ r2 :> q,
      definitions |-> NoRules,
      billers |-> {<<>>, <<<<Channel(DebitCredit, <<"CARDS">>, TRUE, TRUE)>>>>}] :
        q \in {[kind |-> "inquiry", target |-> r1], [kind |-> "inquiry"]}}

\* Definitions that hit and miss what the names and numbers of the payments are.
Rules ==
    {{}} \cup
    {{Definition(i, req, vis, "ALPHANUMERIC", "Simple", min, max)} :
        i \in {1, 4}, req \in BOOLEAN, vis \in {"true", "false"},
        min \in {<<>>}, max \in {<<5>>, <<0>>}}
    \cup {{Definition(2, req, vis, "NUMERIC", pattern, <<6>>, <<12>>)} :
        req \in BOOLEAN, vis \in {"TRUE", "false", "undefined"},
        pattern \in {"Numeric", "NUMERIC"}}
    \cup {{Definition(6, TRUE, "true", "TEXT", "Email", <<>>, <<>>),
           Definition(5, FALSE, "true", "TEXT", "Alphabetic", <<1>>, <<100>>)}}

Changed == {{}, {Definition(4, TRUE, "true", "NUMERIC", "Simple", <<>>, <<>>)}}

Dtos ==
    {[firstName |-> f, lastName |-> l] @@ Nobody : f, l \in {Maria, MariaClara, Text(2, "blank")}}
    \cup {[accountNumber |-> a] @@ Nobody :
            a \in {Empty, Text(4, "digits"), Text(10, "digits"), Text(13, "alnum")}}
    \cup {[references |-> <<[index |-> 6, value |-> v],
                            [index |-> 6, value |-> Maria],
                            [index |-> 2, value |-> Text(8, "digits")]>>] @@ Nobody :
            v \in {Text(20, "email"), Text(20, "symbols")}}

\* A payment, and a form that is shown for the same definitions or after a change of them.
Forms ==
    {[requests |-> r1 :> [kind |-> "transaction", dto |-> dto] @@ r2 :> [kind |-> "form"],
      definitions |-> ds, billers |-> {<<>>, <<<<>>>>}] :
        dto \in Dtos, ds \in {{d} : d \in Rules} \cup {Changed}}

Instapay == <<"INSTAPAY">>
P2B == <<"INSTAPAY", "P2B">>

\* Up to two channels, which the method names, resembles or shadows.
Channels ==
    {Channel(code, name, enabled, availed) :
        code \in {Instapay, P2B, Paygate}, name \in {Instapay, P2B, <<"PESONET">>},
        enabled, availed \in BOOLEAN}

Methods ==
    {[requests |-> r1 :> q,
      definitions |-> NoRules,
      billers |-> {<<cs>>}] :
        cs \in {<<>>} \cup {<<c>> : c \in Channels}
                \cup {<<c, Channel(Instapay, Instapay, e, TRUE)>> : c \in Channels, e \in BOOLEAN},
        q \in {[kind |-> "transaction", dto |-> [paymentMethod |-> m] @@ Nobody] :
                    m \in {Instapay, P2B, Paygate}}}

Nine == <<"9", "1", "7", "1", "2", "3", "4", "5", "6", "3">>
Eight == <<"8", "9", "4", "1", "2", "3", "4", "5", "6", "7">>
SixThree == <<"6", "3", "9", "1", "7", "1", "2", "3", "4", "5">>
Zero == <<"0", "9", "1", "7", "1", "2", "3", "4", "5", "6">>

Numbers == {n \in UNION {Spellings(s) \cup {Tail(Spelling) : Spelling \in Spellings(s)} \cup {<<"0", "0">> \o s} :
                s \in {Nine, Eight, SixThree, Zero}} : Len(n) \in 10 .. 13}

Mobiles ==
    {[requests |-> r1 :> [kind |-> "transaction", dto |-> dto @@ Nobody],
      definitions |-> NoRules, billers |-> NoBiller] :
        dto \in {[mobileNumber |-> n] : n \in Numbers}
                \cup {[mobileNumber |-> n, countryCode |-> c] :
                        n \in Numbers, c \in {<<"6", "3">>, <<"1">>}}}

\* Bodies that break a rule of their DTO, and requests without a good token.
Malformed ==
    {[lastName |-> Maria, others |-> "well formed"], [others |-> "malformed"] @@ Nobody,
     [firstName |-> Empty] @@ Nobody, [lastName |-> Text(101, "letters")] @@ Nobody,
     [countryCode |-> <<"+", "6", "3">>] @@ Nobody, [mobileNumber |-> Tail(Nine)] @@ Nobody,
     [userRef |-> Text(101, "digits")] @@ Nobody, [accountNumber |-> Text(51, "digits")] @@ Nobody,
     [paymentMethod |-> <<"CASH">>] @@ Nobody, [nickname |-> Maria] @@ Nobody,
     [references |-> <<[index |-> 6, value |-> Empty]>>] @@ Nobody}

Refused ==
    {[requests |-> r1 :> q, definitions |-> NoRules, billers |-> NoBiller] :
        q \in {[kind |-> kind, dto |-> dto] : kind \in Upay, dto \in Malformed}
              \cup {[kind |-> p, key |-> k, dto |-> [others |-> "malformed"]] : p \in Transfer}
              \cup {[bearer |-> b, kind |-> "card", dto |-> Nobody] : b \in Bearers}}

\* The clients of the other groups have logged in.
LoggedIn(w) ==
    [w EXCEPT !.requests = [r \in DOMAIN @ |-> @[r] @@ [bearer |-> "complete"]]]

MCWorkloads ==
    {LoggedIn(w) : w \in Transfers \cup Asking \cup Forms \cup Methods \cup Mobiles \cup Refused}

\* Payments with mobile numbers alone.
MobileWorkloads == {LoggedIn(w) : w \in Mobiles}

\* Two transfers of one client under the same key.
KeyWorkloads ==
    {LoggedIn([requests |-> [r \in MCRequests |->
                    [kind |-> "INSTAPAY", key |-> k, dto |-> [others |-> "well formed"]]],
               definitions |-> NoRules, billers |-> NoBiller])}
=============================================================================
