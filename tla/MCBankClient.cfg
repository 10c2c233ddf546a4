\* Three calls, so that two refreshes overlap while a third call uses the token; the buffer
\* is exactly twice the timeout, the shortest lifetime lets a token become useless at once.
CONSTANTS
    c1 = c1
    c2 = c2
    c3 = c3
    Calls <- MCCalls
    Lifetimes = {5, 7}
    TIMEOUT = 2
    TOKEN_REFRESH_BUFFER = 4
    MaxTime = 10

SPECIFICATION Spec

SYMMETRY MCSymmetry

INVARIANTS
    TypeOK
    ExpiryEstimate
    NeverUnauthorized
