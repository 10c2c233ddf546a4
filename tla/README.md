# A TLA+ model of the payment gateway

This directory holds TLA+ specifications of the gateway in `src/`, the TLC configurations that
check them on small instances, and proofs that TLAPS checks for every instance. Paths below are
relative to the repository; `cache.service.ts` and the like are under `src/`.

To repeat a check: `tlc -config MCCache.cfg MCCache.tla` (any `MC*.cfg` with its module) and
`tlapm CacheProofs.tla`. `PROJECT.json` lists the runs, the lines each definition models, the
hazards, the findings and, for every property of a passing run, a mutation of the code that
breaks it.

## The system

The gateway is one Node.js process: one thread, callbacks and promise reactions that run to
completion, and no persistent state of its own apart from Firestore documents (deposits) and, in
tests, a JSON file. Code between two `await`s is atomic; everything else interleaves.

| Component | State | Operations | Interacts with | Hard behaviours | What makes it correct |
|---|---|---|---|---|---|
| Cache service (`infrastructure/cache`) | map of entries, circuit breaker, sweep timer | get, set, exists, delete, deleteByPrefix, invalidateVersion, clear, sweep | webhooks (exists, set), health (read) | eviction on every write path, lazy and periodic expiry, breaker recovery without traffic | bounded size, dead entries go, breaker neither stuck nor probed early |
| getOrSet (same service) | in-flight registrations, suspended callers | lookup, join, launch, settle, time out | any caller with a fallback | callers, failures and timeouts interleave; the cleanup is by key | one flight per key, no older value than before, everybody returns |
| Webhooks (`modules/webhooks`) | none; markers in the cache | two endpoints: check, route, mark | cache, audit, handlers | check and mark are apart; markers evicted or lost with the process; handlers that throw | suppress exactly what was routed; repeats only for a known reason |
| OAuth and API client (`integrations/unionbank/client`) | one cached token | getAccessToken, refresh, get, post | the bank | concurrent refreshes, late answers, expiry between check and use | no request reaches the bank with an expired token |
| Transfers (`modules/transfers`) | none | create, status | bank services, timeout interceptor | 408 while the bank executes; client retries | answers stay true; final states are the bank's |
| UPay (`modules/upay`) | none | create, inquiries, simplified form | validators, bank | two validations and a post in order; the bank's rules change in between | what is checked is what is sent; nothing turned down reaches the bank |
| Validators (`integrations/unionbank/validators`, `mobile-number.util.ts`) | none | pure functions | UPay | boundaries of formats, order of matches | agree with the form shown to the client; canonical numbers; own channel first |
| Deposits (`modules/deposits`) | Firestore documents | create, find, update, delete | Firestore or local storage | read before update, read back after it, failed calls that take effect | an atomic store; completed means dated |
| Local storage (`infrastructure/local-storage`) | memory, file, save timer | collections, documents, queries, save, load | deposits in tests | throttled save, crash, failed save, cancelled timer | a persistent map; what a crash loses is explained |
| Authentication, guards, pipe, interceptors, filter (`common`, `main.ts`) | the throttler's counts | admit, refuse, interrupt, translate errors | every handler | refusal before the handler, 408 beside it | a refused request has no effect |
| Audit, health, security, queue, Redis, database, webhook guard, redirect encryption | none, or outside the application | | | | see "Not modelled" |

`PROJECT.json` has the full list of components with a status, and under `hazards` every place in
the code where a test would hardly reach, with the properties that watch it.

## Modules

| Module | Models | Extends or instantiates |
|---|---|---|
| `CircuitBreaker` | abstract promise of the breaker: no clock, no cache | |
| `Cache` | `CacheService` without `getOrSet` | instantiates `CircuitBreaker` as its abstraction |
| `SingleFlight` | `getOrSet` and `executeWithSingleFlight` | |
| `FlightValues` | the age of the values that flights store, next to other writers | extends `SingleFlight` |
| `Webhooks` | `WebhooksService` | instantiates `Cache`: every cache call is Cache's own action |
| `BankClient` | `UnionbankOAuthClient` and `UnionbankApiClient` | |
| `PersistentStore` | abstract promise of a memory written out as one file | |
| `LocalStorage` | state and operations of `LocalStorageService` and `LocalCollection` | |
| `LocalDeposits` | `DepositLocalRepository` on that store, with crashes | extends `LocalStorage`, instantiates `PersistentStore` as its abstraction |
| `DepositStore` | abstract promise of the deposits: atomic merges, final deletions | |
| `Deposits` | `DepositsService` and the Firestore repository | instantiates `DepositStore` as its abstraction |
| `ReferenceValidation`, `PaymentMethodValidation`, `MobileNumber` | the validators and the normalization of numbers, as operators | |
| `Admission` | token guard, DTO rules, validation pipe | extends these three |
| `Payments` | `TransfersService`, `UpayService`, bank product services, timeout interceptor, the bank | extends `Admission` |
| `PartialFunctions` | objects with optional fields as functions, with operators a proof can expand | used by the modules of deposits and payments |
| `MCCache`, `MCSingleFlight`, `MCFlightValues`, `MCWebhooks`, `MCBankClient`, `MCLocalDeposits`, `MCDeposits`, `MCPayments` | instances for TLC | |
| `MCWebhooksDedup` | the same with a history variable, for a claim of the documentation | |
| `CacheProofs`, `SingleFlightProofs`, `BankClientProofs`, `WebhooksProofs`, `DepositsProofs`, `LocalDepositsProofs`, `PaymentsProofs` | theorems | each extends the module it is about; `SingleFlightProofs` is about `FlightValues` too |
| `AdmissionProofs` | lemmas about the operators of the validators and of `MobileNumber` | extended by `PaymentsProofs` |

### Cache

One action per public method, since each runs to completion, and one for the interval's callback.
The record `breaker` is `circuitBreaker` (without `lastFailure`, which is only written),
`cache` the `Map`. Abstractions:

* Values are left out. Whether an entry is encrypted stays, because only encrypting (`Set`) and
  decrypting (`Get`) can throw; either may fail at any time. Hit counters, `createdAt` and
  `accessCount` are left out: they are only reported, `evictionPolicy` being LRU for ever.
* Time is in ticks. `expiresAt` and `openedAt` are `NEVER` (0) for `null`; the clock starts at 1.
  Timers are assumed punctual: `Tick` waits for a sweep that is due. The clock is assumed not to
  jump; `Date.now()` could be set back by an administrator and nothing is claimed for that case.
* LRU ties, which the code breaks by insertion order, are broken either way.
* `Restart` is `onModuleDestroy` or a crash, followed by a new constructor.
* `exists`, `delete` and the rest bypass the breaker, as in the code.

### SingleFlight

A flight (the promise of the inner async function) is named after the call that launches it, so a
call launches at most one. `Calls` are calls of `getOrSet`; the actions of one call are the
code's stretches between suspensions. The map is left out: other clients may at any time write
or remove the entry and an open breaker hides it, so a lookup may always hit and always miss.
A fallback that resolves with `null` is such a miss for later callers. `Launch` also covers a
fallback that throws before it returns a promise: `finally` then runs *before* the registration,
which stays (`"thrown"`). `onModuleDestroy`, which empties the registrations of a process that
is about to end, is left out.

### FlightValues

`SingleFlight` with the versions of the values: `source` counts how often what the fallbacks read
has changed, `entry` is the version that the cache was given last. A fallback reads its
source at some moment between its launch (`fetched`) and its answer, so it may bring any version
between these two. Deletions, invalidations and clearing stop no flight, and a lookup may miss at any time
anyway, so they need no action: a flight *may* store what was out of date before somebody had
the cache forget it. What `NeverOlder` promises is that such a value is still not older than the one
before it. The exceptions are a failed flight of the key (two may then be in the air) and a `set` of another client
during a flight (`crossed`), which the flight overwrites.

### Webhooks

An event stands for the key of its marker. `Receive` is everything up to the `await` of
`exists`, `Process` what follows if the handler succeeds, `Fail` if it throws (generic endpoint
only; today's handlers only log). Deliveries are slots for requests in progress; the sender may
redeliver at will. `exists` returns a settled promise, so two deliveries overlap only if the
server takes both up in one turn of the event loop, for instance two pipelined requests; the
model allows it. `routed`, `raced` and `lost` are history, for the properties.

### BankClient

A call is one `get` or `post` of the API client; its actions are the stretches between the awaits:
up to the first request that leaves the process (`Call`), from the token's arrival to the call's
own request (`Authenticated`), and its end. Nothing joins refreshes: every call that finds the token
too old fetches one. Abstractions:

* A token *is* the time at which the bank stops accepting it. The bank is external: it issues a token
  when it likes while a request for one is open (`Grant`), announces one of `Lifetimes` and keeps
  to it; that it might revoke a token before is not modelled, as nothing in the repository says so.
  It judges a token at the moment its answer arrives, the latest and least favourable.
* Requests are given up exactly at the timeout. That is axios's `timeout` for an answer that comes
  in one piece; a body that trickles in is not modelled.
* Success and every error but an expired token end in the same state, `"idle"`, since no error
  changes the client: there is no retry and no clearing of the token.

`BankClientAssumption` is what `NeverUnauthorized` needs of the configuration: the buffer is at
least twice the timeout, lifetimes are longer than that. One timeout is for the age of
the token on arrival, one for the request that carries it. The code meets it without a tick
to spare: the buffer is fixed at 60 s, `UNIONBANK_TIMEOUT` defaults to 30 s, and a larger setting
loses the guarantee. An overlapping refresh may put an older token in the place of a younger one;
that is harmless, because the older one's expiry is stored with it.

### LocalStorage and LocalDeposits

`LocalStorage` holds the state of the store (`data` is `data.collections`, `file` the JSON file,
`saveTimeout` the timer's handle) and one operator per operation; `LocalDeposits` makes them steps
of a process together with the repository. A call of the repository is suspended where it awaits; what it
read before is written back after it (`ReadForUpdate`, `WriteUpdate`). The promises awaited are
settled, so calls overlap only within one turn of the event loop; timers, `healthCheck` and the
shutdown wait for its end (`EndOfTurn`), a crash does not. Abstractions:

* A deposit is the partial function of the fields that change after its creation, a time is
  `"set"`. An `UpdateDepositData` has any of these fields: `update()` completes a deposit without a time if
  its caller gives none (as a test of the repository does); `updateStatus()` always sets the time. Timestamps and versions of documents and of the store are left out: nothing reads them.
* `save` is synchronous, so nobody sees half a file. A save that fails, or a process that dies in
  it, leaves the old file or one that cannot be parsed (`Corrupt`): the file is written in place.
* `autoSaveInterval` is chosen anew at each start, from `Intervals`.
* `ideal` and `tainted` are history: the deposits if each update were atomic, and the deposits for
  which calls did overlap, of which `ideal` then says nothing. `LocalDeposits` therefore does *not*
  claim that overlapping updates are safe: they are not, one is lost and a deletion may be undone.
  `undated` is history too: the deposits that somebody asked to complete without a time, in `update()` or
  past the repository. For all others `CompletedHasTime` says that a completed deposit has its time.
* The order of `orderBy` is left out, and `LocalDeposits.create` returns the stored object itself,
  which a caller could change behind the store's back; no caller does.

### Deposits

A request makes one call of the service and is suspended at each call of Firestore. Firestore
decides at the moment it runs (`Merge` is `DocumentReference.update`: merge, or fail if missing).
A call may fail for its caller although its write was applied (`late`): deadlines, lost
answers, and a write Firestore itself rejects are all this case. The last one is not
far-fetched: `create` passes `metadata: undefined`, and `firebase.service.ts` does not set
`ignoreUndefinedProperties`. The id of a new deposit is fresh (uuid); ids of the other calls are
ids that were handed out. Listings and `findByReferenceNumber` only read and are left out.
Any status may follow any other, as in the code: no property is about transitions.

### Payments and the validators

A request goes from `idle` through the awaits of its handler to `ended`; `answer` is what the
client got, which a 408 may settle long before. `sent` is what was posted, `bank` the bank's state of
the payment, `reply` the state on its way back. `Refuse` and `Handle` are the guard, the
throttler and the pipe in front of the handlers. Abstractions:

* Texts are a length and the narrowest character class the rules tell apart; names of methods and
  channels are sequences of words; mobile numbers are real digit strings, since their
  normalization is the point. The reference generated for a request is the request's name.
* The definitions of references and the channels a biller has are chosen at every fetch from the
  workload's sets: the bank may change them between two fetches.
* A token is one more call that may fail (`"token"`); what `BankClient` says of it is not repeated.
* `CallFails` covers every error and timeout of a call and its translation to a status code.
  `Crash` ends the handlers; clients see a broken connection (`Error(0)`).
* A question after a transfer names its product, which decides the service it goes to (`Product`:
  InstaPay if it says so, PESONet for any other text, which nothing validates). The bank answers if the
  transfer is one of that product (`Known`).
* Transfers translate bank states, payments pass them on. `"SENT"` and `"RETURNED"` stand for states
  the mapping does not know; the second is final, and is `PENDING` to clients for ever.
* `Valid` has the rules of the DTOs for the fields that handlers decide by; all other fields are
  one, `others`, well formed or not.

Seen while modelling, and kept as the code has it: custom references (`docs/upay.md`) are validated
and never submitted; a payment without `paymentMethod` defaults to PAYGATE and skips the check of
the biller's channels; the normalized country code is computed and not sent; any failure of a
transfer's status is a 404; the form's `visible` is false for `"TRUE"` and absent values, which the
validator takes for visible (`FormIsSufficient` shows that this only hides a field, not a rule);
amounts are rounded to two decimals; implicit conversion makes the text `"false"` a true
`skipWhitelabelPage`.

## Runs

| Run | Shows | Instance |
|---|---|---|
| `cache` | `CapacityBound`, `BreakerConsistent`, `OpenIsBounded`, `DeadEntriesSwept`, refinement of `CircuitBreaker` | 3 keys for 2 entries (each write to a full map evicts 1), threshold 2, timeout 2, sweep every 2, clock to 6 |
| `single_flight` | one flight per key until a failure, which never takes the cache back in time, leaders always return, everybody returns if fallbacks settle | 3 calls; all on one key, or 2 and 1; one change of each source |
| `single_flight_hang` (violation) | a joiner of a fallback that never settles waits for ever | same |
| `single_flight_stampede` (violation) | after a failure two fallbacks run for one key | same |
| `webhooks` | a live marker means a recent routing and, losses apart, the converse; repeats need an overlap, an eviction or a restart | 3 events for 2 entries, 2 requests at a time, TTL 2, clock to 6 |
| `webhooks_dedup` (violation) | an autopost routed twice within its 7 days by a restart; the docs say it is deduplicated by a Redis key | as `webhooks`, one request at a time |
| `local_deposits` | the count is right, what a crash loses is explained, changes are saved in time, updates are atomic unless calls overlap, only its caller completes a deposit without a time, pages tile, refinement of `PersistentStore` | 2 deposits, 2 calls, intervals 0 and 1, constraint `Small` |
| `deposits` | completed means dated, 404 is for good, answers show the update, refinement of `DepositStore` | 4 requests on 2 ids |
| `payments` | answers stay true, final states are the bank's, what is checked is sent, methods are offered, numbers are canonical, forms suffice, every request ends | 1 or 2 requests, six groups of workloads |
| `payments_mobile` (violation) | a payment of the Philippines posted with a number that is no Philippine mobile; the docs say the normalized number is validated | the payments of `Mobiles` |
| `transfers_idempotency` (violation) | two transfers under one idempotency key; the docs say the second request gets the first transfer | 2 transfers |
| `bank_client` | the expiry the client computes is late by at most a timeout; no expired token reaches the bank | 3 calls, timeout 2, buffer 4, lifetimes 5 and 7, clock to 10 |

Why the bounds are enough: with three keys for two entries every eviction has a choice between a
recent and an old key, and an overwrite at capacity differs from an insertion. Threshold 2 is the
least for which a single failure is harmless when closed and fatal when half open. Six ticks hold
a failure, the cool-down, a failed probe, a second opening and the sweep after it; nothing
in the code depends on absolute time. Three calls are a leader, a joiner and a newcomer after a
failure; a second key is needed only to be confused with the first, and calls are
interchangeable, so the workloads are those two up to renaming. One change of a source
(`MaxChanges`) makes values old and new. `MaxTime` bounds the clock in
`Tick`; `Restart` stays possible then, so no run of the cache or the webhooks deadlocks. Each call of
`SingleFlight` is made once, so its runs end and deadlock is not checked there.

In `MCWebhooks` generic events are interchangeable and so are request slots; that symmetry is
sound because the checked properties are invariants and none names an event or a slot.

In `MCBankClient` two calls refresh and overtake each other while a third sends. Buffer and shortest
lifetime are the least that the assumption allows (a tick less of either breaks
`NeverUnauthorized`), and the clock covers the life of every first token and a second refresh. Calls are
interchangeable, and only invariants are checked, so the symmetry is sound.

`MCLocalDeposits` has two overlapping calls on one deposit, or one call beside the other deposit. `Small`
excludes both at once, a second deposit in `tainted` or `undated` or one in both (of which `AtomicUnlessOverlapped`
and `CompletedHasTime` say nothing), and two reasons for a stale file; the proofs know no such limits. No
operation relates more than two deposits, and paging needs two. The interval 1 arms a timer that other changes
meet, 0 saves at once. The updates are the two fields that `updateStatus` writes together, each alone, so that
they could be lost or kept apart.

`MCDeposits` has a creation and three calls on what it
made: an update between another's write and read back, and a deletion between lookup and write, need
three. Ids, calls and requests are interchangeable in both and only safety is checked.

`MCPayments` runs six groups of workloads, each from its own initial states: `Transfers` (a transfer
of either product and a question after it, by the right product, the other or neither), `Asking`
(a payment and an inquiry), `Forms`
(payments against every rule of the references at, below and above its bounds, and the form of
the same or changed rules), `Methods` (up to two channels that the method names, resembles or is
shadowed by), `Mobiles` (all spellings of four numbers, two of which begin like a prefix), `Refused`
(bodies that break one rule each, and tokens). The groups do not mix, because requests share nothing
but the bank's state of the payment they name. Each request is made once; the run ends then.

### Fairness

`SingleFlight`: weak fairness is assumed for what the event loop
guarantees: a reaction to a settled promise runs (`Retry`, `Finish`, `Return`), an armed timer
fires (`Timeout`). Nothing is assumed of fallbacks, which call other services; `CallsReturn`
has their settling as its hypothesis.

`Payments`: weak fairness of `CallFails` alone, for each request: a call the bank does not answer
is given up by the timer of axios, which both HTTP clients set. Nothing is assumed of the bank or
of clients. `EveryRequestEnds` then says that no path of a handler awaits anything else.

`OpenIsBounded`, `DeadEntriesSwept` and `SavedInTime` are promises that something happens in time,
stated as bounds on the clock and so safety: timers are punctual in these modules.

## Proofs

`CacheProofs` proves, for any finite set of keys and any positive capacity, eviction fraction,
threshold, timeout and sweep period (`CacheAssumption`), all five invariants of the run `cache`
and the refinement. None of the bounds is inductive as `Cache` states it: an entry
that is dead now is fine only because the sweep comes soon. `CacheInv` therefore measures
deadlines against `nextSweep`: an open breaker opened, and an entry with a limit expires, late
enough that the next sweep is not too late for it; and the sweep is never overdue (`SweepInv`).
The breaker's and the map's parts are predicates of a value, so that one lemma per helper
(`BreakerHelpers`, `WithoutEntries`) serves each action, whichever helpers it chains.
`CapacityBound` is then inductive together with `CacheInv`; its core is `WriteFits`, that a full map
loses at least one key before one is added. The refinement goes by cases on what a step does to
the breaker (`BreakerStep`).

`SingleFlightProofs` proves the three invariants of `single_flight` for any number of calls and
keys. "At most one flight per key until a failure" is not inductive, because a flight may be in
the air without being registered; `LastRegistered` says that without a failure it never is: the flight
in the air *is* the registered one, so there is no second. `LaunchOnce` keeps failures from being
forgotten, and `AwaitsOwnKey` says that nobody waits for another key's flight.

Its second half proves `NeverOlder` for any number of calls, keys and changes. `ValuesInv` says that the
cache was given nothing newer than what a running flight will bring, and needs all of
`FlightInv`: it is because the flight in the air is the only one that nothing else lands before it.
`FlightValuesImplementSingleFlight` says that the flights next to other clients behave as `SingleFlight`
alone, so the invariants above hold there too.

`BankClientProofs` proves the three invariants of `bank_client` for any number of calls, any timeout,
and any buffer and lifetimes that satisfy `BankClientAssumption`. `NeverUnauthorized` alone says nothing of
the tokens on their way, so `BankInv` follows a token: issued within the deadline of its request
(`Granted`), its expiry computed at most a timeout late (`ExpiryEstimate`), sent only if it outlives
the request (`SentAlive`), which is awaited no longer than its deadline (`Timed`).

`WebhooksProofs` proves the four invariants of `webhooks` for any events, deliveries, capacity and time
to live. The induction (`WebhooksInv`) rests on two facts no checked property states: markers are never
encrypted, so no operation of the cache fails and its breaker stays new for ever (`Sound`), hence
the cache never drops a marker in silence; and a marker expires exactly its time to live after the
last routing of its event (`Dated`), hence live markers and recent routings are the same thing
(`LiveIsRecent`). It is about the cache's own operators, instantiated with the webhooks' keys.
`WebhooksImplementsCache` shows, from the same invariant, that the composition never does to the cache
what `Cache` does not allow its clients: the markers live in a cache as `Cache` describes it. From that,
and the theorems of `CacheProofs` instantiated with the webhooks' keys, `WebhooksMarkersAreBounded` gets
the capacity of the cache and the sweep of dead markers; it assumes of the constants what
`CacheAssumption` says, above all that events are finitely many.

`DepositsProofs` proves the four invariants of `deposits` and the refinement of `DepositStore` for any
ids, requests and failures. `DepositsInv` says what is stored is whole and ids are used once (`Stored`), a
document still to be created belongs to its creator alone (`Owned`: otherwise a late creation could
bring back what a client was told is gone), what a request will read back (`Shown`) and what it was
answered (`Answered`). `EffectIs` says what one write does, whichever call makes it, in time or late;
`EffectIsAtomic` reuses it for the refinement.

`LocalDepositsProofs` proves the seven invariants of `local_deposits` and the refinement of `PersistentStore`, for
any collections, calls and save intervals, finitely many ids (the count of documents is a
cardinality), updates that are `UpdateDepositData`, and file states `Missing` and `Corrupt` that are no contents
(`LocalDepositsAssumption`). `StorageInv`: memory and file are well formed, the timer is as old as
what it waits for, and the file differs only for a recorded reason. `CallsInv`: what an update is about to
write back is well formed, and is the stored deposit unless calls overlapped (`ReadInv`); overlapping calls are
all in `tainted`. Neither is inductive without the other: what a call
writes back has to be a deposit for the storage, and a restart reads the file into the documents.
`DatedInv` builds on both: outside `undated` every completed deposit has its time, in memory, in the file, and
in what each call has read and will write, whichever of them wins; without the file a restart would break it.
`PagesTile` needs no more of the state than that documents are finitely many; the rest is about `query`:
among the positions of a list that the filter accepts exactly one has m of them up to it (`Ranks`, a
counting argument), hence `Select` finds each accepted document once (`Selected`), and an offset and a
limit of one cut out the one at the offset (`OnePage`). `Select` is `SelectSeq` written by position,
because the prover cannot unfold the recursion inside `SelectSeq`.

`PaymentsProofs` proves the seven invariants of `payments` for any workload in which questions name a
request, lengths are given at most once, a biller's channels come in a list and mobile numbers are
sequences of characters (`PaymentsAssumption`). `PaymentsInv` is a conjunction per
request: how far a request of its kind gets (`Journey`), what it was checked against (`Checked`), what its
answer says (`Told`), and that a final state in a reply or an answer is the bank's for good
(`Settled`). Two lemmas are about the pure operators: `FormIsStrict` (what complies with the simplified form
passes the definition it was made from, for every definition and value) and `SameReferences` (the
two functions that build references agree wherever the client gives none of its own).

`MethodsAreOffered` and `MobileCanonical` need a second invariant, `AdmissionInv`: whatever is suspended in
a handler or was posted passed the rules of its DTO (`Admitted`), and whatever is past the check of its
method was seen to be offered (`Offered`). The rest is about pure operators, in `AdmissionProofs`.
`ValidIsOffered`: if the check of a method succeeds, the biller's own channel offers it, or a similar one if
there is none of its own; `FoundIsBest` shows this of the two loops, for a list of any length, from the
least position that matches (`Minimum`, well-foundedness of `<` in place of an induction on the list).
`Canonical`: of a number that the DTO accepts, in each of the ways to write a Philippine mobile
(`WaysToWrite`), its ten digits remain, and those of a mobile remain of no other number. It does not say that what
remains is a mobile: `MobilesAreValidated` is refuted. DTOs bound the length of a number,
so the two strippings are a matter of cases over lengths and leading digits (`Strippings`, `Normalized`),
not of induction.

Only model-checked: liveness (`LeaderReturns`, `CallsReturn`, `EveryRequestEnds`), which is beyond TLAPS,
and the five counterexamples below, which need no proof. Every invariant, action property and refinement
that a passing run checks is also proved.

## Findings

Five places where the code does something else than its comments or documentation say; each is a run
that expects a violation, with the quotations in `PROJECT.json`.

1. Mobile numbers are not validated after their normalization: digits that are no Philippine mobile are
   posted as one, while the spellings with `+`, spaces or dashes that the documentation has normalized are
   refused before it.
2. `SINGLE_FLIGHT_TIMEOUT` protects the caller that launched a flight, not those that joined it.
3. When a flight fails, its joiners stampede: each launches its own fallback.
4. Webhook deduplication does not survive a restart: the marker is in process memory, not Redis.
5. An idempotency key does not keep a transfer from being created twice: it only becomes a header.

Noted and without a run of their own: a half-open breaker lets every request through, and a successful read
leaves it half open (`HalfOpen` and `Admits` of `CircuitBreaker`), while `cache.service.ts:345` and
`docs/infrastructure.md:186` speak of one request; `docs/unionbank-integration.md:401,464-470` says the API client
tries transient failures again with exponential backoff, while it makes one attempt and nothing reads `retryAttempts`
(`BankClient` has no second one); `docs/unionbank-integration.md` says access tokens are in the local
cache, while the OAuth client keeps its own outside it; `docs/webhooks.md` promises automatic
retries and a 500 for failed webhooks, while `processWebhook` answers 200 and forgets them;
`docs/infrastructure.md` says an open breaker rejects all requests, while `exists` and the deletions
ignore it; `docs/deposits.md` says a failed deposit has its `failureReason`, while an update of the
status to FAILED sets none.

## Not modelled

* Login and refresh (`auth.service.ts`) sign tokens and keep nothing, the user lookup being a stub;
  `ApiKeyGuard` and the account service have no users; the redirect encryption has no route.
* Security and cache encryption, the webhook's HMAC guard: pure cryptography, which TLC cannot
  evaluate and whose results no other part tells apart, except that it may fail.
* Queue processors only log and nothing enqueues a job; audit and logging keep nothing.
* Redis and Prisma are connected and not used; Firebase is the external part of `Deposits`.
* Health probes read; `healthCheck` of the local storage, which saves, is an action there.
* Configuration, wiring, the response envelope, listings and Swagger descriptions.

## Plan

What could follow, most useful first:

1. `FlightValues` composed with `Cache`, so that what the cache was given also expires and is evicted.
   Nothing in the application calls `getOrSet` or invalidates a key yet.
2. `Payments` with `BankClient` in the place of its call for a token, and `Webhooks` as the
   bank's other way to report a final state, once a handler does more than log.
