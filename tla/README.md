# TLA+ models of the Zinetic SDK

This directory models the Zinetic SDK: the parts that keep state and run
concurrently, the clients and their services, and how a process finds out where it
runs. TLC checks the models on small instances, and TLAPS proves the safety results
of all but one component, and the two refinements, for every number of goroutines,
keys, channels, tokens and hosts.
Paths are relative to the root of the repository.

    tlc -config NhiLifecycle.cfg MCNhiProvider     # one run
    tlapm NhiProviderProofs.tla                    # the proofs

`PROJECT.json` lists the runs, what each definition models (file and lines), the
hazards of the code, the findings and the theorems.

## 1. The system

The SDK is a Go module with a TypeScript sibling. Most of its packages are thin
service clients over one transport; the rest obtains, renews and keeps credentials.

| Part | State | Operations | Interacts with |
|---|---|---|---|
| NHI provider (`nhi/provider.go`) | `p.mu`, `started`, `env`, cached hardware key | `Start`, `Stop`, `GetCredential`, `doExchange` | renewal, store, DPoP prover, hardware module, backend |
| NHI renewal (`nhi/renewal.go`) | `running`, `cancel`, `done`, one goroutine | `Start`, `Stop`, `loop`, `renew` | calls the provider's exchange, writes the store |
| NHI store (`nhi/store.go`) | one credential with expiry | `Get`, `Set`, `Clear` | provider, renewal, HTTP and SQL adapters |
| HTTP transport (`internal/transport`) | `tokenMu`, access and refresh token | `Do`, `DoRaw`, `DoStream`, `SetAccessToken`, `SetRefreshToken` | every service client, DPoP prover, token endpoint |
| DPoP prover (`dpop`) | the server nonce | `CreateProof`, `SetServerNonce` | provider, transport |
| Credential renewer (`credential/renewer.go`) | `started`, `cancel`, `done`, expiry, one goroutine | `Start`, `Stop`, `SetExpiry`, `loop`, `performRenewal` | memory store, the application's `RenewFn` |
| Credential memory store (`credential/memstore.go`) | buffers, page locks | `Store`, `Retrieve`, `Zeroize`, `ZeroizeAll` | renewer, HTTP and SQL adapters |
| Environment detection (`nhi/envdetect.go`) | `p.env`, found once | `DetectEnvironment`, `FetchAttestationToken` | the provider's `Start` and exchange; variables, token files and metadata services of the host |
| Clients (`zinetic`) | configuration, fixed once built | options, `NewClient`, `NewRawClient`, `Do`, `DoRaw`, `DoStream` | services, transport |
| Services (`agent`, `governance`, `policy`, `scim`, `pam`, `secrets`, `tenant`, `token`, `audit`, `webhook`, `did`, `device`, `blockchain`, `nhimgmt`, `notification`, `machine`, `decision`, `health`, `user`, `credential/credential.go`) | none | some 200 methods that check arguments, put ids into a route and make one call | transport, `internal/pathutil` |
| TypeScript provider (`typescript/src/index.ts`) | credential, timer, DPoP key, nonce | `start`, `stop`, `getCredential`, renewal | backend, `fetchWithZinetic` |

What is hard in this code:

* **Concurrency.** Start and Stop race each other and a background loop; Stop
  waits for the loop with a lock held; channels are made anew at every restart;
  goroutines share one refresh token and one DPoP nonce.
* **Failure.** A request, its answer or only the body of the answer is lost; an
  abandoned request is applied late; a token endpoint rotates a refresh token
  and its answer is lost; a hardware module comes and goes.
* **Ordering.** A nonce challenge, an expired token and a gateway error may follow
  each other within one call.
* **Timeouts and retries.** A call is sent again although it may have been applied;
  renewal gives up after a number of attempts and must come back; sleeps, delays and
  lifetimes must fit together or a loop spins or comes too late.
* **Spelling.** A path is checked as the caller wrote it and sent as the transport
  rewrites it; base URL, base path and path may each carry the version; ids come
  from the caller.

What makes each part correct:

* provider and renewal: Stop leaves nothing running and nothing stored; one
  loop, one exchange; no double close; only vetted packages are stored, each
  once; required hardware is always used; every call returns; an outage ends;
* transport: a call is applied at most once and reports success only then; no
  rotated-away refresh token is presented; a nonce challenge that can be read is not
  reported as an authentication failure; `tokenMu` is always released; what may be retried is;
* renewer: the same life-cycle properties as the provider's renewal;
* memory store: no plaintext stays behind, copies are not zeroed under a reader;
* NHI store: a reader gets one whole credential that was valid during its call;
* detection: a cloud is found unless the detection is cut short; token, kind and
  environment of a request agree; no empty token is sent and no identity before all its
  parts were answered; the identity of the machine comes last;
* clients and services: every operation asks for its own route, with the ids intact
  and the base path once; plain scoped routes carry a tenant; what is documented as
  pending is what is not sent;
* timing: no loop asks without a pause, and a credential lapses only in an outage
  that is long against its margin;
* TypeScript provider: what the Go provider promises, on promises and timers.

## 2. Modules

| Module | Models | Kind |
|---|---|---|
| `NhiProvider` | provider, renewal loop, exchange, store, backend | component, composed |
| `MCNhiProvider` | configurations and package qualities for its runs | TLC instance |
| `NhiProviderProofs` | inductive invariants and theorems about `NhiProvider` | proofs |
| `OnceCall` | what a call with an effect promises | abstract specification |
| `Transport` | calls, retries, nonce retry, token refresh, backend | component |
| `MCTransport` | symmetry for its runs | TLC instance |
| `TransportProofs` | inductive invariants and theorems about `Transport` | proofs |
| `Renewer` | the credential renewer | component |
| `RenewerProofs` | inductive invariants and theorems about `Renewer` | proofs |
| `RenewalTiming` | sleeps and back-off of the three renewal loops, in ticks | component |
| `RenewalTimingProofs` | inductive invariant and theorems about `RenewalTiming` | proofs |
| `TsProvider` | the TypeScript provider | component |
| `MCTsProvider` | configurations and packages for its run | TLC instance |
| `TsProviderProofs` | inductive invariant and theorems about `TsProvider` | proofs |
| `SecretMap` | what the memory store promises | abstract specification |
| `MemStore` | the memory store and its adapters | component |
| `NhiStore` | the NHI store, the getters and adapters that read it | component |
| `StoresProofs` | inductive invariants and theorems about `MemStore` and `NhiStore` | proofs |
| `MCStores` | `MemStore` and `NhiStore` as one specification | composition, TLC instance |
| `Routes` | `pathutil`, base URLs, `buildURL`, root routes, the tenant check | operators |
| `Services` | every operation of every service, the pending list | operators, on `Routes` |
| `ApiClient` | options, the two clients, service and raw calls | component, on `Services` |
| `ApiClientProofs` | lemmas about `Routes` and `Services`, inductive invariant and theorems about `ApiClient` | proofs |
| `EnvDetect` | detection and attestation of the NHI provider | component |
| `EnvDetectProofs` | inductive invariant and theorems about `EnvDetect` | proofs |
| `MCSession` | `ApiClient`, `EnvDetect` and `RenewalTiming` as one specification | composition, TLC instance |

`MCStores` and `MCSession` put components side by side that share no state. A
behaviour of all of them is an interleaving of behaviours of each, and a property of
one does not see the steps of the others; so one component moves while the others
are in their initial state, which keeps the number of states a sum.

In the modules a definition that a comment calls a mutant is a variant of the
definition that follows it, with a bug that is plausible there. `PROJECT.json`
pairs every property with a mutant that breaks it. Mutants are not part of any
specification.

### NhiProvider

A *caller* is an application goroutine in `Start` or `Stop`; `pc` says where it
is and `mu` who holds `p.mu`. Both methods hold `p.mu` from their first line to
their last, so `Start` is the steps `StartLocked`, the exchange, `StartFailed`
or `StartStored`, `StartSpawned`; `Stop` is `StopLocked`, `StopWaited`,
`StopCleared`. `r.mu` is held only for sections that cannot block, and each of
them is one step. A *loop* is a renewal goroutine with its context and the
channel its deferred `close` took when it first ran (`LoopEnter`). An identity
of a loop or a channel is used again once nothing refers to it, so behaviours
are unbounded in a finite model.

`x[a]` is `doExchange` as run by actor `a`, a caller or a loop: hardware,
attestation token and response key, first request, at most one retry with the
challenge's nonce, decoding. A package is an identity, the key it is encrypted
for and a quality (signature, emptiness, expiry). The backend is the
environment: it challenges, refuses, issues packages, sends plaintext, or
delivers an old package again; when `healthy` it does only what is right.

Abstracted: cryptography (decryption succeeds exactly with the key of the
exchange), the length of sleeps and back-offs, event callbacks, the contents of
credentials. `DetectEnvironment` is a free choice made once; `EnvDetect` has it in
detail, `NhiStore` the readers, and `RenewalTiming` the times.

### Transport and OnceCall

`x[r]` is the call goroutine `r` makes: attempt number, the idempotency key of
the call (`key`) and of the request under way (`wire`), the token and nonce the
request carries, the answer. `doHTTP` and `doStream` differ only in when the
nonce is kept and in that a streamed success is not read; `ReadFails` has both.
`attemptTokenRefresh` is one critical section of `tokenMu` with the HTTP request
inside it, hence several steps with `writer = r`. The status of an error is the
one `ParseAPIError` ends up with. A status 502, 503 or 504 is `"503"`. An answer whose
body cannot be read, or is too long, ends the call with an error that keeps the status
(`UnreadError`); for a 401, a nonce challenge included, that is `"unread401"`, which
`IsAuthError` takes for an authentication failure. `AuthFailureIsReal` says so.

The backend applies a request once per idempotency key; keys of a call that
nothing refers to are forgotten, so that a finite set is enough. `late` holds
requests whose sender gave up. The token endpoint accepts the current refresh
token once and may rotate it.

`OnceCall` says what the caller may rely on: at most one effect, and success only
after it. An effect after a reported error is allowed. `Transport` implements it
with `outcome` and `effects` as the mapping.

Not in the model: `BackoffDelay`, tracing, a negative `MaxRetries`; URLs are in
`Routes`.

### Renewer

Every section under `r.mu` is one step. What `Stop` and the loop do outside of it
is a step of its own: `r.cancel()`, the read of `r.done`, the read of `r.done` by
the loop's `defer`. The stored value does not influence control and is left out;
expiry does so only through times, which are in `RenewalTiming`.

### TsProvider

JavaScript runs one function at a time, so interleaving happens only at an
`await`, and a step is what runs between two of them. A *chain* is one `start()`
call and the renewals its timer leads to; `x[c].pc` says which promise or timer it
waits for. `renewTimer` names the chain whose timer was armed last: a second
`start()` overwrites it, and `stop()` clears no other. `Decoded` empties the held
credential and `Install`, one continuation later, stores the new one, whether
`stop()` was called in between or not.

Abstracted: times (in `RenewalTiming`), DPoP keys and nonces (the retry signs with the nonce of its
challenge before anything else can run), events and the flag `hardwareStatus` that
only they report. An event callback is assumed not to throw. The checks of
`exchange()` on a package are `Vetted`; the backend answers with any package. The only
timeout is the abort timer of the exchange request, which is cleared when the headers
arrive: the reads of a body, of the attestation service and of the hardware agent
(`Untimed`) may never settle, and `Stalls` leaves the chain waiting for ever.

### MemStore and SecretMap

A buffer holds one secret or zeros, and may be allocated again once nothing refers
to it. Sections under the exclusive lock are one step. A lookup and its copy are
two, because `Retrieve` shares the lock with other readers. `Use` is what
`RoundTrip` and `Connect` do with their copy. `SecretMap` is the map the callers
see; `MemStore` implements it by reading each entry's buffer. Page locks and the
strings the adapters build from a secret are not modelled.

### NhiStore

A map holds the values of one credential, or nothing after `zeroizeCredential`. `Set`,
`Clear` and the passing of the expiry may come at any time; `Get` shares the lock
with other readers, so the look at the expiry and the copy are two steps. What
`RoundTrip`, `Connect` and the getters of the provider do with their copy is
`GetCredentials`: they find the key they need or report that it is missing, and give
the copy up. The history variable `had` holds, for each call, the credentials that
were there at some moment of the call, and says what an answer may be.

### Routes, Services and ApiClient

A path is a sequence of parts between slashes, with a flag for a query; a leading or
trailing slash is an empty part. A part is a word, white space, dots or a word with
reserved characters. `PathEscape` changes only the last, and
`PathUnescape` is the backend's view. `Segment`, `SlashPath`, `cleanBasePath`,
`normalizeBase`, `buildURL`, `isRootRoute`, `normalizeRouteForTenantCheck` and
`IsTenantOptionalPath` are operators on these, and `canonicalBackendRoute` is taken
from the repository's contract test as the reference.

`Services` has one record per method: what it needs, its method and its route. In a
route `$id` passes through `pathutil.Segment`, `$path` through `SlashPath`, and
`<id>` is formatted as it is. A method that returns "not supported" has no route.

An application sets options, builds a client and makes calls. A call is refused,
unsupported or sent; a request is a URL. What happens to it then is `Transport`. A raw
call is given a route of the API or any other text (`RawTexts`), as it is, after `/v1` or
after the base path.

`ClientAssumption` gives the options their types: texts are sequences of parts with at
least one part, and no id holds a part that is escaped already. Where a request goes
also depends on two things the code does not check, which `MCSession` assumes of its
constants and the theorems have as hypotheses. `PlainConfiguration`: base paths are of
plain parts and do not begin like a route (`buildURL` takes a base path `/agents` for
the beginning of `/agents/...`), and a base URL does not hold a base path twice
(`normalizeBase` takes one off). `TenantFreeBases`: no base path begins like a route
without a tenant; with a base path `/health` the tenant check, which looks at the path
before the base path is taken off, would let every path with it pass.

Exceptions the properties state, because the code has them: services that do not use
`pathutil` (`scim`, `did`, `device`, `nhimgmt`, `notification`, `blockchain`) are held
to `OwnRoute` for ids that need no check; a base path of `/` falls back to the default
one, which is not looked for in the base URL; a raw path that is nothing but the base
path and a query is not recognised; what is said of raw calls is said of plain routes
(`PlainRoute`), because `buildURL` cleans a path after the tenant check has seen it, so
that `/tenants/../agents` passes as a route without a tenant and becomes `/agents`; `agent.Get("inventory")` asks for the inventory;
`policy.EnableSimulation` and `DisableSimulation` end in `policy.Update`, which is
pending, and are not in the list themselves.

### EnvDetect

A host is what a process finds: the environment it was configured with, which
variables are set, blank or malformed, what answers at the addresses of the two metadata
services (nothing, a 200 or another status) and whether that happens at once. Token files
change at any time, variables do not. `Start` decides from variables, or probes AWS and
GCP under one context; `p.env` stays. That context is the caller's with `ProbeTimeout`,
and it may have ended before the first probe or end at any moment (`ContextEnds`); the
history variable `cutShort` remembers it. An exchange fetches the token of that
environment. On AWS that is a web identity, an STS envelope or the instance identity, in
three requests that may each fail. `tokenTypeForEnv` reads the variables again for the
kind of the token. Left out: the contents of tokens, SigV4.

The code looks at the status of the metadata answers and not at their bodies, which may
be empty or cut: `TokenWasGiven` therefore says only that all three were answered, and
`Envelope` may send half an identity. `ReliableCloudFound` makes an exception of a
detection that was cut short, after which the provider is local for good.

### RenewalTiming

One renewal loop of either provider or of the credential renewer, in ticks of half a
second. `timer` is what is left of a sleep, a back-off or a request; a timer that is
due fires before the next tick. Exchanges take up to `Latency` and succeed or fail at
will. `failing` counts the ticks since the first failure until the credential has
expired, and `outage` is its value at the last one. The back-off is scaled: it
starts at one tick, and stops growing after three doublings.

`Paced` has two exceptions, which the code has, both on the first attempt after a
credential was stored: the renewer does not wait when it is given one that has expired
already, and a delay beyond 2^31 - 1 ms makes `setTimeout` fire at once (a date that
cannot be parsed has the same effect and is not modelled). A backend that gives out such
lifetimes makes these two loops spin, and `Paced` does not catch it; it does catch a
loop that spins for another lifetime or after a failure. `LapseNeedsOutage`
leaves out the TypeScript provider after its last attempt, when no timer is left. Its
bound is three times the outage, the first delay, what the minimum sleep may take of
the margin, one exchange that fails and one that comes too late (`Reserve`). The last
is larger for the NHI loop: after a round it sleeps as with a new credential, and the
threshold of what is left may be less than an exchange takes.

## 3. Runs

| Run | Question | Instance | Result |
|---|---|---|---|
| `nhi_lifecycle` | Do Start, Stop and the loop ever overlap wrongly? Are packages and challenges kept apart? | 2 callers, 2 loops, channels, keys, packages and nonces, 2 attempts, 1 package in circulation | `QuietAfterStop`, `OneLoop`, `DoneClosedOnce`, `OneExchange`, `NoPackageTwice`, `RetryAnswersChallenge` hold |
| `nhi_options` | Can an unvetted package be stored? Is required hardware always used? | all 144 configurations, packages with one fault, 2 hardware keys | `StoredIsVetted`, `HardwareBinding` hold |
| `nhi_liveness` | Do Start and Stop return? Does the provider come back after an outage? | 2 callers, 2 attempts, 2 nonces, faults that start and end | `CallsReturn`, `RecoversFromOutage` hold |
| `transport_once` | Is a call applied at most once? | 1 goroutine, 2 calls, 2 keys, 2 nonces, 1 retry, 1 late request | `AtMostOnce`, `ImplementsOnceCall` hold |
| `transport_tokens` | Is a used refresh token presented? Is a nonce challenge that was read reported as a 401? | 2 goroutines, 2 access and 3 refresh tokens, a stable nonce checked before the token | `NoStaleRefresh`, `AuthFailureIsReal` hold |
| `transport_returns` | Is `tokenMu` always released? | 2 goroutines, 2 refresh tokens | `CallsReturn` holds |
| `transport_rate_limit` | Is what `IsRetryable` allows retried? | 1 goroutine, 1 retry | `RetryableIsRetried` is violated |
| `renewer_one_caller` | Do loops of one caller overlap? Does Stop return, does an outage end? | 1 caller, 2 loops, 3 channels | `OneLoop`, `QuietAfterStop`, `DoneClosedOnce`, `StopReturns`, `RecoversFromOutage` hold |
| `renewer_race` | Does Stop return with two callers? | 2 callers, 2 loops, 3 channels | `StopReturns` is violated |
| `ts_provider` | Can overlapping chains store something unvetted or lose the held credential? Does a stopped provider fall quiet, does `start()` settle, is a short outage survived? | 2 chains, 5 configurations, packages with one fault, 2 attempts | `StoredIsVetted`, `HardwareBinding`, `EmptiedIsTransient`, `Quiesces`, `StartReturns`, `RenewsAfterShortOutage` hold |
| `stores` | Is a secret left in memory? Do readers of either store ever see zeros, another secret or an expired one? | memory store: 2 goroutines, 2 keys, 2 values, 4 buffers; NHI store: 2 readers, 3 credentials of which 1 lacks a key, 4 maps | `NoPlaintextBehind`, `ImplementsSecretMap`, `ServesCurrent` hold |
| `session` | Does every call ask for its own route, once, and with its tenant? Do environment, kind and token of a request agree? Do renewal loops spin or come too late? | every operation, 10 texts as ids, 5 base URLs, 4 base paths, 2 tenants, routes of the API and 7 other texts as raw paths in 3 spellings; hosts with at most 2 variables given; 5 lifetimes, 2 thresholds, 4 attempts | `OwnRoute`, `BasePathOnce`, `Unambiguous`, `PendingIsExact`, `ScopedCarriesTenant`, `RequestAgrees`, `TokenWasGiven`, `MachineIsLast`, `ReliableCloudFound`, `Paced`, `LapseNeedsOutage` hold |

No run lists a type invariant: wherever a module has one, it is a theorem (section 4).

Why the bounds are enough: two callers are what it takes for one to hold the lock
and one to wait; two loops and two channels are what a restart needs to mix up an
old and a new one, and identities are reused without limit. Two attempts
are a round of renewals that fails, retries and gives up. One package in
circulation is what a second delivery needs. Two nonces are the current and a
past one; three refresh tokens are the one held, the current one and a new one.
The channel set of `Renewer` has one more than `NhiProvider`'s since a `Stop`
there may hold a channel that is no longer `r.done`. In `transport_tokens` the
nonce is fixed: with nonces that rotate within a call, one challenge per attempt
cannot be enough, and the code does not try. Likewise a backend that checks the
token before the nonce can make a call fail after a refresh, because the request
sent after a refresh answers no challenge.
Two chains are what it takes for one timer to hide another and for two exchanges to
overlap. Four buffers are two entries and a copy or a new value for each of two
goroutines; a goroutine waits while no buffer is free. Four maps are the stored
one, a copy for each reader and a new one.
The ids are one for every case `pathutil` tells apart, and a word of the API; the
base URLs are bare, with the base path, behind a prefix, local and refused; the
base paths are those that `cleanBasePath` treats differently. Two given variables are
what it takes for one environment to hide another; the proofs cover every host. The
lifetimes are expired, shorter than a sleep and a request, and three of which one needs
a timer beyond `MaxTimer`; four attempts are a round that fails, and an outage may
span several. The terms of `LapseNeedsOutage` are all needed: with a factor of two
instead of three, or without one of its terms, other instances violate it.

Fairness. Goroutines run and timers fire: weak fairness of the steps of a call, a
loop and an exchange. Requests end: `nhi` and the transport use an
`http.Client` with a timeout, so a request is answered or fails. Strong fairness
stands for two promises of Go: `sync.Mutex` and `sync.RWMutex` starve nobody, and
a `select` with two ready cases picks one at random, so a cancelled context is
not passed over for ever. `CallsReturn` of the transport and both
`RecoversFromOutage` are conditional on the faults ending (`<>[]calm`,
`<>[]healthy`, `<>[]up`).
In `TsProvider` promises settle and timers fire; the exchange request itself is
only assumed to be answered when the backend is healthy, and is otherwise ended by
the abort timer. The code sets no timeout on the attestation and hardware requests
nor on the body of an answer: each of these settles or stalls, and `StartReturns` and
`Quiesces` make an exception of a chain that stalled.
`stop()` and outages are never forced.

Deadlock is checked in every run but `renewer_race`, where a crashed process stops.

### Findings

* **A 429 is never retried.** `errorFromResponse` returns a `*RateLimitError` for a
  429; the retry loops assert `*APIError` first and return. The branch that waits
  for `Retry-After` cannot be reached (`internal/transport/transport.go:112-124`),
  although `IsRetryable` and its test (`apierr/apierr_test.go:54`) include 429.
* **`Renewer.Stop` can hang.** It reads `r.cancel` and `r.done` after releasing
  `r.mu` (`credential/renewer.go:71-75`). A `Start` in between leads to a `Stop`
  that waits on a channel nobody closes, a loop nobody cancels, or a second close.
  The NHI renewal, which takes both under its lock and runs under `p.mu`, has
  neither problem: `NhiProviderProofs` shows it.

## 4. Proofs

`NhiProviderProofs` proves, from the assumptions that callers, loops and `None`
are distinct (`ActorsAssumption`), that the bounds are naturals
(`BoundsAssumption`) and that configurations and qualities are records of their
type (`DataAssumption`):

| Theorem | States |
|---|---|
| `TypeCorrect` | `Spec => []TypeOK` |
| `StopIsQuiet` | `Spec => []QuietAfterStop` |
| `AtMostOneLoop` | `Spec => []OneLoop` |
| `NoDoubleClose` | `Spec => []DoneClosedOnce` |
| `AtMostOneExchange` | `Spec => []OneExchange` |
| `OnlyVettedStored` | `Spec => []StoredIsVetted` |
| `PackagesAreSpent` | `Spec => []NoPackageTwice` |
| `RetryIsBound` | `Spec => []RetryAnswersChallenge` |
| `OneHardwareKey` | `Spec => []HardwareBinding` |

`TypeOK` is not inductive: a loop that fails adds one to its attempt counter, so
the bound needs `loop[g].pc = "exchange" => attempt < MaxAttempts`, and storing a
package needs that a finished exchange holds one. `DataInv` adds both.

None of the life-cycle properties is inductive. `LifecycleInv` is the argument:

* `LockInv`: the caller inside a method is the one that holds `p.mu`;
* `OwnerInv`: an exchange belongs to a caller in `Start` or to a loop in `renew`;
* `RunningInv`: `running` and `started` agree whenever `p.mu` is free, and the
  channel a `Stop` waits on is `r.done`;
* `AliveInv`: the only loop alive is the one `r.cancel` cancels; it is running or
  being waited for, and it holds `r.done`, which is open until it closes it;
* `StoreInv`: a credential is stored only between a `Start` and the end of a `Stop`.

A loop closes `r.done`, which is open, so it never closes a channel twice; it is
the only one alive, so no other will. `Stop` passes its wait only when `r.done` is
closed, which is after the loop has ended, and clears the store then; no exchange
is left since its owner would be a live loop or another holder of `p.mu`. There is
one lemma per action, and all invariants were checked with TLC first.

What an exchange carries is `ExchangeInv`, which rests on `OneExchange`: while one
exchange runs, all other records are empty (`OthersIdle`).

* `RecordInv`: an exchange has a response key from its first request on, and a
  response only while it reads it;
* `RetryInv`: the nonce of a challenge stays the prover's until the retry has used it;
* `BindingInv`: every hardware key that is in use or was sent is the cached one;
* `VettedInv`: what was decoded or stored was accepted in the environment of now,
  which only a `Start` that finds nothing stored can settle;
* `FreshInv`: no exchange holds the response key of a package that was stored, so what
  it can open is new. This is why a package delivered twice is refused.

`TsProviderProofs` proves, from `TsAssumption`:

| Theorem | States |
|---|---|
| `TypeCorrect` | `Spec => []TypeOK` |
| `StoreIsVetted` | `Spec => []StoredIsVetted` |
| `RequiredHardwareIsUsed` | `Spec => []HardwareBinding` |
| `FailureKeepsCredential` | `Spec => []EmptiedIsTransient` |

What is stored comes from a chain that waits, so the invariant `Inv` adds
`ChainInv`: a chain at `"return"` holds a vetted package, and one that has sent its
request in required mode has sent the attestation. Most actions change one chain
and nothing else; lemma `OnlyStep` covers them once, given that the new record is
sound.

`StoresProofs` proves, from `MemStoreAssumption`, about `MemStore`:

| Theorem | States |
|---|---|
| `TypeCorrect` | `Spec => []TypeOK` |
| `NoSecretLeft` | `Spec => []NoPlaintextBehind` |
| `StoreImplementsSecretMap` | `Spec => ImplementsSecretMap` |

`NoPlaintextBehind` needs `CopyInv`: the buffer a reader copies is still the entry's,
because `StoreSwap` and `Drop` wait until nobody reads. Without it a reader's
reference would be the last one to a secret, and giving it up would leave that
secret behind.

The refinement needs `OwnInv`: two keys, a key and an operation, or two operations never
share a buffer, and what is stored or about to be is a secret and not zeros. Then
zeroing a buffer changes no other entry, and `Copy` returns what the map holds at that
instant. `StoreSwap` is `Put`, `Zeroize` and `ZeroizeAll` are `Drop`, `Copy` and
`NotFound` are `Get`; the other steps are stutters.

and, from `NhiStoreAssumption`, about `NhiStore`:

| Theorem | States |
|---|---|
| `NhiTypeCorrect` | `StoreSpec => []StoreTypeOK` |
| `ReadersAreServed` | `StoreSpec => []ServesCurrent` |

`StoreInv` adds that the stored map holds values (`Kept`), that a reader that copies
does so from the stored map, whose values its call may return (`Copying`), because
`Set` and `Clear` wait for it, and that a copy is a map of its own (`Using`).

`EnvDetectProofs` proves, from `HostsAssumption`, for every set of hosts:

| Theorem | States |
|---|---|
| `TypeCorrect` | `DetectSpec => []DetectTypeOK` |
| `RequestsAgree` | `DetectSpec => []RequestAgrees` |
| `TokensWereGiven` | `DetectSpec => []TokenWasGiven` |
| `MachinesAreLast` | `DetectSpec => []MachineIsLast` |
| `CloudsAreFound` | `DetectSpec => []ReliableCloudFound` |

`DetectInv` adds `Quiet` (no request before a host, none while one is prepared),
`Probing` (only a provider that no variable told anything probes, and on a host whose
services answer at once the second probe still has its time, unless the context ended),
`Asking` (the metadata service is asked only when no variable names another source,
which is what `tokenTypeForEnv` concludes from the same variables, and answers in order)
and `CloudLast` (a cloud is named only where no CI system is).

`RenewerProofs` proves `TypeCorrect` for any number of callers, and for at most one
caller, which is what the race in the findings requires:

| Theorem | States |
|---|---|
| `TypeCorrect` | `Spec => []TypeOK` |
| `AtMostOneLoop` | with one caller, `Spec => []OneLoop` |
| `StopIsQuiet` | with one caller, `Spec => []QuietAfterStop` |
| `NoDoubleClose` | with one caller, `Spec => []DoneClosedOnce` |

`LifecycleInv` says that a live loop is the one `r.cancel` cancels, that `r.done` is
open and its channel (`AliveInv`), and that outside of `Stop` a renewer that is not
started has no loop (`CallerInv`).

`TransportProofs` proves, from `TransportAssumption`:

| Theorem | States |
|---|---|
| `TypeCorrect` | `Spec => []TypeOK` |
| `RefreshIsCurrent` | `Spec => []NoStaleRefresh` |
| `AppliedAtMostOnce` | `Spec => []AtMostOnce` |
| `TransportImplementsOnceCall` | `Spec => ImplementsOnceCall` |
| `AuthFailuresAreReal` | `[]AuthFailureIsReal`, when the backend checks the nonce first and keeps its nonce |

`TypeOK` bounds the attempts, so `CallsInv` adds that a call that backs off has one
left. For the refresh token, `LockInv` says that who refreshes holds `tokenMu`;
`TokensInv` that what the client holds is current while nobody refreshes, and
`RefreshesInv` that a goroutine that refreshes presents what the client holds, and
that a token it was granted is current until it is installed. Both are lost with an
answer of the token endpoint (`lost`), and only then.

For `AtMostOnce` and the refinement, `OnceInv` says that a call has one idempotency key
for all its requests, those that were given up included, and that a key serves one call
(`KeysInv`); that the backend applied a call that still has requests exactly when it has
seen its key (`EffectsInv`); and that an outcome follows where the goroutine is, with
success only after the effect (`OutcomeInv`). Most steps of a goroutine do to these no
more than `Within` says, which one lemma covers; the lemmas show for each step also that
it is a step of `OnceCall` or a stutter.

`AuthFailuresAreReal` has the two assumptions of the run as hypotheses, the second as
`[][srvNonce' = srvNonce]_vars`: the backend is free in everything else. `AuthInv` says
that the nonce of the backend is then the only one anybody has seen (`NonceInv`), and
that the prover knows it before a call is left without its one retry (`ChallengeInv`):
from the challenge, or because a request with it got as far as having its token refused.

`RenewalTimingProofs` proves, from `TimingAssumption` (thresholds are between 1 and 99
percent, minimum sleep and delays are not zero, the longest delay is a second or more):

| Theorem | States |
|---|---|
| `LoopsArePaced` | `TimingSpec => []Paced` |
| `LapsesNeedOutage` | `TimingSpec => []LapseNeedsOutage` |

`PausedInv` says that a loop that has not paused since its last exchange has a timer
ahead. For the lapse, `LapseInv` follows the margin. Before the first failure
(`FirstTry`) the exchange begins when the margin is left, or `MinSleep` after the
credential was stored. From then on what is left and `failing` make up for the margin.
While the credential is valid, each delay is at most the outage so far and `BaseDelay`
(`Retrying`), since it is at most twice the one before, which is part of the outage; so
the next attempt begins before three times the outage has passed. After a round of the
NHI loop `Slept` says what the sleep has left.

The delays are a recursive function. That it exists, has natural values and doubles
(`DoubledFix`, `Delays`, `LeastDelay`) is proved by taking the least argument for which
the statement fails (`LeastNat`), since an induction rule has an operator as a parameter
and the installed provers cannot instantiate it.

`ApiClientProofs` proves, from `ClientAssumption`, for every base URL, base path, tenant
and id, with texts of any length:

| Theorem | States |
|---|---|
| `PendingListIsExact` | `Spec => []PendingIsExact` |
| `ScopedRoutesCarryTenant` | with `PlainConfiguration` and `TenantFreeBases`, `Spec => []ScopedCarriesTenant` |
| `BasePathStandsOnce` | with `PlainConfiguration`, `Spec => []BasePathOnce` |
| `RoutesAreOwn` | with `PlainConfiguration`, `Spec => []OwnRoute` |

`Inv` says what a client is built from: the options are texts that were given or the
defaults (`OptionsOK`), its base path is one of the configured ones, cleaned, and its
mount is what `normalizeBase` makes of a configured base URL (`ClientOK`). The properties
are about one call, so the rest is about operators:

* `AllListed` and `AllRouted` go through the definitions of `Services` once. An operation
  sends nothing exactly when it is pending or one of the two exceptions, and the route of
  every other one begins with a word of the API and holds only words and parameters.
* For the tenant check, `RestOfJoined` and `TenantCheck` show that what
  `normalizeRouteForTenantCheck` leaves of a plain route in any of its three spellings,
  be it one of the API or any other text, is the route itself, or begins with what is left
  of the base path, which `TenantFreeBases` keeps from being optional. `RawURL` then says
  what is sent for it.
* For the base path, `MountIsClean` shows that what `normalizeBase` leaves does not end
  in it, and `RawURL` that `buildURL` leads the three spellings of a plain route to one
  URL, but for root routes, which may be sent as they are written.
* For the ids, `SegmentFits` and `SlashFits` show that what `pathutil` lets through is
  read back by the backend as it was given, `FilledRoute` carries that through the route,
  and `OwnURL` through `buildURL`: the cases are root routes, `/v1`, the base path `/` and
  every other base path.

`Clean` and `FlattenSeq` are recursive functions over paths of any length. That they
exist, and what they return for the paths that occur (`CleanUsable`, `FlatExists`,
`Flattened`), is proved with the least argument that fails (`LeastNat`), as for the delays.

Only model-checked: liveness (`CallsReturn`, `Quiesces`, `RecoversFromOutage`,
`RenewsAfterShortOutage`, `StartReturns`, `StopReturns`), since TLAPS has no support for
fairness; and `Unambiguous`, which compares the routes of all pairs of operations. That
set is fixed, TLC enumerates it completely, and a proof would be the same enumeration by
hand.

## 5. Plan

`MCStores` and `MCSession` compose components without shared state. What is left is a
composition of `NhiProvider` with `NhiStore` through the maps they share.

## 6. Not modelled

* `BackoffDelay` of the transport: its interest is the overflow of 64-bit durations,
  which TLC's integers do not reach.
* Bodies and answers of service calls, page limits, `internal/validate`: single
  comparisons without state. `webhook.VerifySignature`, cryptography, SigV4 and JWT
  encoding: hashing, out of TLC's reach.
* Options that set a number, a callback or an HTTP client, and re-exported types.
* `detectEnvironment` of the TypeScript SDK, which decides anew for every exchange,
  from variables only and without a probe, and its pool and fetch wrappers, which read
  the credential once.
* Page locks of the memory store: their failures are ignored by design.
* Callbacks of the application (`EventCallback`, `OnTokenRefreshed`, `OnEvent`): the
  first two run with a lock held, and must not call back into the object that calls
  them.
* Examples and the static site.
