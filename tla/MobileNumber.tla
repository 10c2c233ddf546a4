----------------------------- MODULE MobileNumber -----------------------------
(***************************************************************************)
(* mobile-number.util.ts.  Numbers are sequences of characters, <<>> when  *)
(* they are not given.  The DTOs let only digits through (Admission), so   *)
(* the removal of other characters from a mobile number is left out.       *)
(***************************************************************************)
EXTENDS Naturals, Sequences

Digits == {"0", "1", "2", "3", "4", "5", "6", "7", "8", "9"}

DEFAULT_COUNTRY_CODE == <<"6", "3">>
VALID_PH_MOBILE_PREFIXES == {"8", "9"}

normalizeCountryCode(countryCode) ==
    LET cleaned == IF countryCode # <<>> /\ countryCode[1] = "+" THEN Tail(countryCode)
                   ELSE countryCode
    IN  IF /\ Len(cleaned) \in 1 .. 4
           /\ \A i \in DOMAIN cleaned : cleaned[i] \in Digits
        THEN cleaned
        ELSE DEFAULT_COUNTRY_CODE

\* Strip leading country code if present (63).
StripCountry(n) ==
    IF Len(n) > 10 /\ SubSeq(n, 1, 2) = DEFAULT_COUNTRY_CODE THEN SubSeq(n, 3, Len(n)) ELSE n

\* Strip leading 0 if present.
StripTrunk(n) == IF Len(n) = 11 /\ n[1] = "0" THEN Tail(n) ELSE n

\* Mutant of normalizeMobileNumber: the 0 goes first.
normalizeMobileNumberTrunkFirst(n, countryCode) ==
    IF n # <<>> /\ normalizeCountryCode(countryCode) = DEFAULT_COUNTRY_CODE
    THEN StripCountry(StripTrunk(n))
    ELSE n

normalizeMobileNumber(n, countryCode) ==
    IF n # <<>> /\ normalizeCountryCode(countryCode) = DEFAULT_COUNTRY_CODE
    THEN StripTrunk(StripCountry(n))
    ELSE n

isValidPhMobilePrefix(digit) == digit \in VALID_PH_MOBILE_PREFIXES

normalizeMobileInfo(n, countryCode) ==
    [countryCode |-> normalizeCountryCode(countryCode),
     mobileNumber |-> normalizeMobileNumber(n, normalizeCountryCode(countryCode))]

isValidPhMobileNumber(n) ==
    LET normalized == normalizeMobileNumber(n, DEFAULT_COUNTRY_CODE)
    IN  Len(normalized) = 10 /\ isValidPhMobilePrefix(normalized[1])

\* The ways to write such a number that normalization promises to undo.
Spellings(s) == {s, <<"0">> \o s, DEFAULT_COUNTRY_CODE \o s, DEFAULT_COUNTRY_CODE \o <<"0">> \o s}
=============================================================================
