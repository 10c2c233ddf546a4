----------------------------- MODULE BankClient -----------------------------
(***************************************************************************)
(* Calls of the bank's API (UnionbankApiClient) with the access token that *)
(* UnionbankOAuthClient keeps.  A call that finds no token good enough     *)
(* asks the bank for one, whether or not other calls are doing so, and     *)
(* the token whose answer comes last stays.                                *)
(*                                                                         *)
(* A token stands for the time at which the bank stops accepting it, which *)
(* is all that matters of it.  The bank is external: it answers when it    *)
(* likes or never, and honours a token for the lifetime it announced.      *)
(***************************************************************************)
EXTENDS Integers

CONSTANTS
    Calls,                  \* requests that may be in progress at a time
    Lifetimes,              \* the values of expires_in the bank may announce
    TIMEOUT,                \* ticks after which a request to the bank is given up
    TOKEN_REFRESH_BUFFER,   \* ticks before its expiry in which a token is not used
    MaxTime                 \* bound on the clock

ASSUME BankClientAssumption ==
    /\ TIMEOUT \in Nat
    /\ TOKEN_REFRESH_BUFFER \in Nat
    /\ TOKEN_REFRESH_BUFFER >= 2 * TIMEOUT
    /\ Lifetimes \subseteq Nat
    /\ \A lifetime \in Lifetimes : lifetime > 2 * TIMEOUT

VARIABLES
    now,        \* Date.now()
    tokenInfo,  \* the token in use and the expiry the client computed for it
    pc,         \* what each call awaits; "idle" or "unauthorized" when nothing
    deadline,   \* when the request that a call awaits is given up, 0 if none
    grant,      \* the token on its way to a call, with its expires_in
    token       \* the token in the Authorization header of a call, 0 if none

vars == <<now, tokenInfo, pc, deadline, grant, token>>

NoToken == [token |-> 0, expiresAt |-> 0]
NoGrant == [token |-> 0, expiresIn |-> 0]

Pending == {"authenticating", "sending"}
Ended == {"idle", "unauthorized"}

Init ==
    /\ now = 1
    /\ tokenInfo = NoToken
    /\ pc = [c \in Calls |-> "idle"]
    /\ deadline = [c \in Calls |-> 0]
    /\ grant = [c \in Calls |-> NoGrant]
    /\ token = [c \in Calls |-> 0]

----------------------------------------------------------------------------

\* Mutant of IsTokenValid: the buffer is forgotten.
IsTokenUnexpired == tokenInfo # NoToken /\ now < tokenInfo.expiresAt

IsTokenValid == tokenInfo # NoToken /\ now < tokenInfo.expiresAt - TOKEN_REFRESH_BUFFER

\* A request goes to the bank: either the call's own, with the token that is kept now, or
\* one for a token.
Send(c) ==
    /\ pc' = [pc EXCEPT ![c] = "sending"]
    /\ deadline' = [deadline EXCEPT ![c] = now + TIMEOUT]
    /\ token' = [token EXCEPT ![c] = tokenInfo'.token]
    /\ grant' = [grant EXCEPT ![c] = NoGrant]

Authenticate(c) ==
    /\ pc' = [pc EXCEPT ![c] = "authenticating"]
    /\ deadline' = [deadline EXCEPT ![c] = now + TIMEOUT]
    /\ UNCHANGED <<grant, token>>

End(c, how) ==
    /\ pc' = [pc EXCEPT ![c] = how]
    /\ deadline' = [deadline EXCEPT ![c] = 0]
    /\ token' = [token EXCEPT ![c] = 0]
    /\ grant' = [grant EXCEPT ![c] = NoGrant]

\* get() or post(), up to the first request that leaves the process.
Call(c) ==
    /\ pc[c] \in Ended
    /\ UNCHANGED <<now, tokenInfo>>
    /\ \/ IsTokenValid /\ Send(c)
       \/ ~IsTokenValid /\ Authenticate(c)

\* The bank issues a token; its answer may take until the request's deadline.
Grant(c) ==
    /\ pc[c] = "authenticating"
    /\ grant[c] = NoGrant
    /\ \E lifetime \in Lifetimes :
          grant' = [grant EXCEPT ![c] = [token |-> now + lifetime, expiresIn |-> lifetime]]
    /\ UNCHANGED <<now, tokenInfo, pc, deadline, token>>

\* Mutants of Refresh: the buffer is added to the expiry; the answer's expires_in is ignored.
RefreshAddsBuffer(c) ==
    tokenInfo' = [token     |-> grant[c].token,
                  expiresAt |-> now + grant[c].expiresIn + TOKEN_REFRESH_BUFFER]

RefreshUnbounded(c) == tokenInfo' = [token |-> grant[c].token, expiresAt |-> -1]

\* The token of the answer replaces the one kept, also if that is younger.
Refresh(c) ==
    tokenInfo' = [token |-> grant[c].token, expiresAt |-> now + grant[c].expiresIn]

\* The answer of the token endpoint arrives, and the call's own request goes out.
Authenticated(c) ==
    /\ pc[c] = "authenticating"
    /\ grant[c] # NoGrant
    /\ Refresh(c)
    /\ Send(c)
    /\ UNCHANGED now

\* The bank takes the request in, and answers it.
Answer(c) ==
    /\ pc[c] = "sending"
    /\ End(c, IF now < token[c] THEN "idle" ELSE "unauthorized")
    /\ UNCHANGED <<now, tokenInfo>>

\* An error other than 401 comes back, the connection breaks or the deadline passes; there
\* is no second attempt, and the token kept stays.
Fail(c) ==
    /\ pc[c] \in Pending
    /\ End(c, "idle")
    /\ UNCHANGED <<now, tokenInfo>>

\* The clock advances; a request whose deadline has come is given up first.
Tick ==
    /\ now < MaxTime
    /\ \A c \in Calls : pc[c] \in Pending => now < deadline[c]
    /\ now' = now + 1
    /\ UNCHANGED <<tokenInfo, pc, deadline, grant, token>>

Next ==
    \/ \E c \in Calls : Call(c) \/ Grant(c) \/ Authenticated(c) \/ Answer(c) \/ Fail(c)
    \/ Tick

Spec == Init /\ [][Next]_vars

----------------------------------------------------------------------------
(* Properties *)

\* Every variable ranges over what the code can store in it.
TypeOK ==
    /\ now \in Nat
    /\ tokenInfo \in [token : Nat, expiresAt : Nat]
    /\ pc \in [Calls -> Pending \cup Ended]
    /\ deadline \in [Calls -> Nat]
    /\ grant \in [Calls -> [token : Nat, expiresIn : Nat]]
    /\ token \in [Calls -> Nat]

\* The expiry the client computes on arrival of a token is late by no more than the timeout
\* of a request, also if refreshes overlap and their answers overtake each other.
ExpiryEstimate == tokenInfo.expiresAt <= tokenInfo.token + TIMEOUT

\* No request reaches the bank with an expired token: checking the token before the request
\* leaves, with a buffer of twice the timeout, covers the time the token travelled and the
\* time the request travels.
NeverUnauthorized == \A c \in Calls : pc[c] # "unauthorized"
=============================================================================
