\* One or two requests: transfers, payments, inquiries and forms, each group by itself.
CONSTANTS
    r1 = r1
    r2 = r2
    k = k
    None = None
    Requests <- MCRequests
    Workloads <- MCWorkloads
SPECIFICATION Spec
INVARIANTS
    TypeOK
    AnswersAreTrue
    FinalStatusIsTrue
    WhatIsCheckedIsSent
    MethodsAreOffered
    MobileCanonical
    FormIsSufficient
PROPERTIES
    EveryRequestEnds
\* Every request is made once: the instance stops when the bank is done with all.
CHECK_DEADLOCK FALSE
