\* Four requests: a creation, and three calls that race on the deposit it made.
CONSTANTS
    i1 = i1
    i2 = i2
    r1 = r1
    r2 = r2
    r3 = r3
    r4 = r4
    None = None
    Ids <- MCIds
    Requests <- MCRequests
SPECIFICATION Spec
SYMMETRY Symmetry
INVARIANTS
    TypeOK
    CompletedHasTime
    NotFoundIsForGood
    AnswerShowsUpdate
PROPERTIES
    ImplementsDepositStore
\* Every request makes one call: the instance stops when all are answered.
CHECK_DEADLOCK FALSE
