------------------------- MODULE ReferenceValidation -------------------------
(***************************************************************************)
(* ReferenceValidationService, and the simplified form that tells a client *)
(* the same rules.  A value is its length and the narrowest class of its   *)
(* characters; types of fields are in upper case; a length is <<>> when    *)
(* the bank gives none, and a numeral otherwise; isVisible is its text, a  *)
(* Boolean being like its text.                                            *)
(***************************************************************************)
EXTENDS Naturals, Sequences

\* Blank values have no character but white space; "email" values no unusual character.
Classes == {"blank", "digits", "letters", "alnum", "spaced", "symbols", "email", "other"}

Empty == [len |-> 0, chars |-> "blank"]

isEmpty(value) == value.chars = "blank"

parseLength(length) == IF length = <<>> THEN 0 ELSE length[1]

isVisible(text) == text \in {"true", "TRUE", "undefined"}

Alphanumeric == {"digits", "letters", "alnum"}

\* Simple and every name that is not listed allow any value; names are case-sensitive.
FIELD_VALIDATION_PATTERNS ==
    [Alphabetic |-> {"letters"},
     Numeric |-> {"digits"},
     Alphanumeric |-> Alphanumeric,
     Email |-> {"email"},
     AlphanumericWithSpaces |-> Alphanumeric \cup {"spaced"},
     AlphanumericWithSymbols |-> Alphanumeric \cup {"spaced", "symbols", "email"}]

\* TEXT and every type that is not listed allow any value.
FIELD_TYPE_PATTERNS ==
    [NUMERIC |-> {"digits"}, ALPHABETIC |-> {"letters"}, ALPHANUMERIC |-> Alphanumeric]

validateFieldType(fieldType, value) ==
    fieldType \in DOMAIN FIELD_TYPE_PATTERNS => value.chars \in FIELD_TYPE_PATTERNS[fieldType]

validatePattern(validationType, value) ==
    validationType \in DOMAIN FIELD_VALIDATION_PATTERNS =>
        value.chars \in FIELD_VALIDATION_PATTERNS[validationType]

\* What a value that is not empty does wrong.
Faults(d, value) ==
    LET min == parseLength(d.minCharLength)
        max == parseLength(d.maxCharLength)
    IN  {code \in {"MIN_LENGTH"} : min > 0 /\ value.len < min}
            \cup {code \in {"MAX_LENGTH"} : max > 0 /\ value.len > max}
            \cup {code \in {"INVALID_TYPE"} : ~validateFieldType(d.fieldType, value)}
            \cup {code \in {"PATTERN_MISMATCH"} : ~validatePattern(d.validationType, value)}

InputAt(index, inputs) == IF index \in DOMAIN inputs THEN inputs[index] ELSE Empty

validateSingleReference(d, inputs) ==
    LET value == InputAt(d.index, inputs)
    IN  CASE ~isVisible(d.isVisible) /\ ~d.isRequired -> {}
          [] d.isRequired /\ isEmpty(value) -> {"REQUIRED"}
          [] ~d.isRequired /\ isEmpty(value) -> {}
          [] OTHER -> Faults(d, value)

\* The errors; inputs maps the index of each given reference to its value.
validateReferences(definitions, inputs) ==
    UNION {{<<d.index, code>> : code \in validateSingleReference(d, inputs)} : d \in definitions}

-----------------------------------------------------------------------------
\* Mutant of Simplified: the least length is taken for the greatest.
SimplifiedMinAsMax(d) ==
    [index |-> d.index, fieldType |-> d.fieldType, required |-> d.isRequired,
     visible |-> d.isVisible = "true", minLength |-> 0,
     maxLength |-> IF d.maxCharLength = <<>> THEN 999 ELSE d.maxCharLength[1],
     validationType |-> d.validationType]

\* An entry of getSimplifiedBillerDetails: what a form should show and ask of the field.
Simplified(d) ==
    [index |-> d.index, fieldType |-> d.fieldType, required |-> d.isRequired,
     visible |-> d.isVisible = "true", minLength |-> parseLength(d.minCharLength),
     maxLength |-> IF d.maxCharLength = <<>> THEN 999 ELSE d.maxCharLength[1],
     validationType |-> d.validationType]

\* A value that does what an entry of the form asks for, shown or not.
Complies(entry, value) ==
    IF isEmpty(value) THEN ~entry.required
    ELSE /\ value.len \in entry.minLength .. entry.maxLength
         /\ validateFieldType(entry.fieldType, value)
         /\ validatePattern(entry.validationType, value)
=============================================================================
