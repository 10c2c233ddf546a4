-------------------------- MODULE BankClientProofs --------------------------
(***************************************************************************)
(* Proofs about BankClient for any number of calls, any timeout, buffer    *)
(* and lifetimes that satisfy BankClientAssumption.  NeverUnauthorized     *)
(* follows an access token on its way: the bank issues it before the       *)
(* deadline of the request for it (Granted), the client computes its       *)
(* expiry on arrival (ExpiryEstimate), and whoever sends it is given up    *)
(* before it expires (SentAlive).                                          *)
(***************************************************************************)
EXTENDS BankClient, TLAPS

\* A request in progress has not been given up yet, and is within one timeout.
Timed ==
    \A c \in Calls :
        pc[c] \in Pending => now <= deadline[c] /\ deadline[c] <= now + TIMEOUT

\* A token on its way was issued while its request was in progress.
Granted ==
    \A c \in Calls :
        grant[c] # NoGrant =>
            /\ pc[c] = "authenticating"
            /\ grant[c].expiresIn \in Lifetimes
            /\ grant[c].token <= now + grant[c].expiresIn
            /\ grant[c].token >= deadline[c] - TIMEOUT + grant[c].expiresIn

\* A request is given up before the token it carries expires.
SentAlive == \A c \in Calls : pc[c] = "sending" => deadline[c] < token[c]

BankInv ==
    /\ TypeOK
    /\ Timed
    /\ Granted
    /\ ExpiryEstimate
    /\ SentAlive
    /\ NeverUnauthorized

LEMMA BankInvInit == Init => BankInv
BY BankClientAssumption
   DEF Init, BankInv, TypeOK, Timed, Granted, ExpiryEstimate, SentAlive, NeverUnauthorized,
       Pending, Ended, NoToken, NoGrant

\* A token sent out, fresh or kept, outlives the request that carries it.
LEMMA BankInvSend ==
    ASSUME BankInv, NEW c \in Calls, Send(c), UNCHANGED now,
           tokenInfo' \in [token : Nat, expiresAt : Nat],
           tokenInfo'.expiresAt <= tokenInfo'.token + TIMEOUT,
           now + TIMEOUT < tokenInfo'.token
    PROVE  BankInv'
<1> USE BankClientAssumption DEF BankInv, Send
<1>1. /\ pc'[c] = "sending" /\ deadline'[c] = now + TIMEOUT /\ token'[c] = tokenInfo'.token
      /\ grant'[c] = NoGrant
      /\ \A d \in Calls \ {c} :
            /\ pc'[d] = pc[d] /\ deadline'[d] = deadline[d]
            /\ token'[d] = token[d] /\ grant'[d] = grant[d]
  BY DEF TypeOK
<1>2. TypeOK'
  BY DEF TypeOK, Pending, NoGrant
<1>3. Timed'
  BY <1>1 DEF Timed, TypeOK
<1>4. Granted'
  BY <1>1 DEF Granted
<1>5. ExpiryEstimate'
  BY DEF ExpiryEstimate
<1>6. SentAlive'
  BY <1>1 DEF SentAlive
<1>7. NeverUnauthorized'
  BY <1>1 DEF NeverUnauthorized
<1>8. QED
  BY <1>2, <1>3, <1>4, <1>5, <1>6, <1>7

LEMMA BankInvCall ==
    ASSUME BankInv, NEW c \in Calls, Call(c)
    PROVE  BankInv'
<1> USE BankClientAssumption DEF BankInv, Call
\* The buffer covers the error of the estimate and the time of the request.
<1>1. CASE IsTokenValid /\ Send(c)
  <2>1. now + TIMEOUT < tokenInfo.token
    BY <1>1 DEF IsTokenValid, ExpiryEstimate, TypeOK
  <2>2. QED
    BY <1>1, <2>1, BankInvSend DEF TypeOK, ExpiryEstimate
<1>2. CASE Authenticate(c)
  <2>1. /\ pc'[c] = "authenticating" /\ deadline'[c] = now + TIMEOUT
        /\ \A d \in Calls \ {c} : pc'[d] = pc[d] /\ deadline'[d] = deadline[d]
    BY <1>2 DEF Authenticate, TypeOK
  <2>2. TypeOK'
    BY <1>2 DEF Authenticate, TypeOK, Pending
  <2>3. Timed'
    BY <2>1 DEF Timed, TypeOK
  <2>4. Granted'
    BY <1>2, <2>1 DEF Authenticate, Granted, Ended
  <2>5. ExpiryEstimate'
    BY DEF ExpiryEstimate
  <2>6. SentAlive'
    BY <1>2, <2>1 DEF Authenticate, SentAlive
  <2>7. NeverUnauthorized'
    BY <2>1 DEF NeverUnauthorized
  <2>8. QED
    BY <2>2, <2>3, <2>4, <2>5, <2>6, <2>7
<1>3. QED
  BY <1>1, <1>2

LEMMA BankInvGrant ==
    ASSUME BankInv, NEW c \in Calls, Grant(c)
    PROVE  BankInv'
<1> USE BankClientAssumption DEF BankInv, Grant
<1>1. PICK lifetime \in Lifetimes :
          grant' = [grant EXCEPT ![c] = [token |-> now + lifetime, expiresIn |-> lifetime]]
  OBVIOUS
<1>2. /\ lifetime \in Nat
      /\ grant'[c] = [token |-> now + lifetime, expiresIn |-> lifetime]
      /\ \A d \in Calls \ {c} : grant'[d] = grant[d]
  BY <1>1 DEF TypeOK
<1>3. TypeOK'
  BY <1>1, <1>2 DEF TypeOK
<1>4. Timed'
  BY DEF Timed
<1>5. Granted'
  <2>1. now >= deadline[c] - TIMEOUT
    BY DEF Timed, Pending, TypeOK
  <2>2. /\ grant'[c].token <= now + grant'[c].expiresIn
        /\ grant'[c].token >= deadline[c] - TIMEOUT + grant'[c].expiresIn
    BY <1>2, <2>1 DEF TypeOK
  <2>3. QED
    BY <1>2, <2>2 DEF Granted
<1>6. ExpiryEstimate'
  BY DEF ExpiryEstimate
<1>7. SentAlive'
  BY DEF SentAlive
<1>8. NeverUnauthorized'
  BY DEF NeverUnauthorized
<1>9. QED
  BY <1>3, <1>4, <1>5, <1>6, <1>7, <1>8

\* The token was issued at most one timeout ago, and lives for more than two.
LEMMA BankInvAuthenticated ==
    ASSUME BankInv, NEW c \in Calls, Authenticated(c)
    PROVE  BankInv'
<1> USE BankClientAssumption DEF BankInv, Authenticated
<1>1. /\ grant[c].expiresIn \in Lifetimes
      /\ grant[c].token >= deadline[c] - TIMEOUT + grant[c].expiresIn
  BY DEF Granted
<1>2. now <= deadline[c]
  BY DEF Timed, Pending
<1>3. now + grant[c].expiresIn <= grant[c].token + TIMEOUT
  BY <1>1, <1>2 DEF TypeOK
<1>4. now + TIMEOUT < grant[c].token
  BY <1>1, <1>3 DEF TypeOK
<1>5. /\ tokenInfo' \in [token : Nat, expiresAt : Nat]
      /\ tokenInfo'.token = grant[c].token
      /\ tokenInfo'.expiresAt = now + grant[c].expiresIn
  BY DEF Refresh, TypeOK
<1>6. QED
  BY <1>3, <1>4, <1>5, BankInvSend

LEMMA BankInvEnd ==
    ASSUME BankInv, NEW c \in Calls, NEW how \in Ended, End(c, how),
           UNCHANGED <<now, tokenInfo>>, how # "unauthorized"
    PROVE  BankInv'
<1> USE BankClientAssumption DEF BankInv, End
<1>1. /\ pc'[c] = how /\ grant'[c] = NoGrant
      /\ \A d \in Calls \ {c} :
            /\ pc'[d] = pc[d] /\ deadline'[d] = deadline[d]
            /\ token'[d] = token[d] /\ grant'[d] = grant[d]
  BY DEF TypeOK
<1>2. TypeOK'
  BY DEF TypeOK, NoGrant
<1>3. Timed'
  BY <1>1 DEF Timed, Ended, Pending
<1>4. Granted'
  BY <1>1 DEF Granted
<1>5. ExpiryEstimate'
  BY DEF ExpiryEstimate
<1>6. SentAlive'
  BY <1>1 DEF SentAlive, Ended
<1>7. NeverUnauthorized'
  BY <1>1 DEF NeverUnauthorized
<1>8. QED
  BY <1>2, <1>3, <1>4, <1>5, <1>6, <1>7

\* A request that is still awaited arrives before its token expires.
LEMMA BankInvAnswer ==
    ASSUME BankInv, NEW c \in Calls, Answer(c)
    PROVE  BankInv'
<1>1. now < token[c]
  BY DEF Answer, BankInv, Timed, SentAlive, Pending, TypeOK
<1>2. QED
  BY <1>1, BankInvEnd DEF Answer, Ended

LEMMA BankInvTick ==
    ASSUME BankInv, Tick
    PROVE  BankInv'
<1> USE BankClientAssumption DEF BankInv, Tick
<1>1. TypeOK'
  BY DEF TypeOK
<1>2. Timed'
  BY DEF Timed, TypeOK
<1>3. Granted'
  <2> SUFFICES ASSUME NEW c \in Calls, grant[c] # NoGrant
               PROVE  grant[c].token <= now + 1 + grant[c].expiresIn
    BY DEF Granted
  <2>1. QED
    BY DEF Granted, TypeOK
<1>4. ExpiryEstimate'
  BY DEF ExpiryEstimate
<1>5. SentAlive'
  BY DEF SentAlive
<1>6. NeverUnauthorized'
  BY DEF NeverUnauthorized
<1>7. QED
  BY <1>1, <1>2, <1>3, <1>4, <1>5, <1>6

LEMMA BankInvStep == BankInv /\ [Next]_vars => BankInv'
<1> SUFFICES ASSUME BankInv, [Next]_vars PROVE BankInv'
  OBVIOUS
<1>1. ASSUME NEW c \in Calls, Call(c) PROVE BankInv'
  BY <1>1, BankInvCall
<1>2. ASSUME NEW c \in Calls, Grant(c) PROVE BankInv'
  BY <1>2, BankInvGrant
<1>3. ASSUME NEW c \in Calls, Authenticated(c) PROVE BankInv'
  BY <1>3, BankInvAuthenticated
<1>4. ASSUME NEW c \in Calls, Answer(c) PROVE BankInv'
  BY <1>4, BankInvAnswer
<1>5. ASSUME NEW c \in Calls, Fail(c) PROVE BankInv'
  BY <1>5, BankInvEnd DEF Fail, Ended
<1>6. CASE Tick
  BY <1>6, BankInvTick
<1>7. CASE UNCHANGED vars
  BY <1>7 DEF vars, BankInv, TypeOK, Timed, Granted, ExpiryEstimate, SentAlive,
              NeverUnauthorized
<1>8. QED
  BY <1>1, <1>2, <1>3, <1>4, <1>5, <1>6, <1>7 DEF Next

LEMMA BankInvInvariant == Spec => []BankInv
BY BankInvInit, BankInvStep, PTL DEF Spec

----------------------------------------------------------------------------
(* What the client guarantees. *)

\* The client stores nothing but times and tokens, whatever the order of the answers.
THEOREM BankTypeOK == Spec => []TypeOK
<1>1. BankInv => TypeOK
  BY DEF BankInv
<1>2. QED
  BY <1>1, BankInvInvariant, PTL

\* The client overestimates the life of its token by at most the time a request may take,
\* for any number of overlapping refreshes.
THEOREM BankExpiryEstimate == Spec => []ExpiryEstimate
<1>1. BankInv => ExpiryEstimate
  BY DEF BankInv
<1>2. QED
  BY <1>1, BankInvInvariant, PTL

\* With a buffer of twice the timeout of a request the bank never sees an expired token.
THEOREM BankNeverUnauthorized == Spec => []NeverUnauthorized
<1>1. BankInv => NeverUnauthorized
  BY DEF BankInv
<1>2. QED
  BY <1>1, BankInvInvariant, PTL
=============================================================================
