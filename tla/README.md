# A verification of identidade-carioca-authz

The program is an external authorizer for Envoy: for every request it decides, from a
token, a route and Cerbos policies, whether the request may go through. This directory
holds TLA+ modules of its core, TLC configurations that check them on small instances,
and TLAPS proofs of the main results for all instances. Line numbers are those of the Go
files beside it; `breaker.go`, `cache.go` and so on are the files under `internal/`,
`main.go` is `cmd/main.go`.

## The system

| Component | State | Operations | Modelled in |
|---|---|---|---|
| Server process, `main.go` 597-702 | two server pointers without a lock, the goroutines of the ports, the signal | `main`, `run`, `startGRPC`, `startHTTP`, `stop` | `Server` |
| Front end, `main.go` 48-595 | none | `Check`, `ServeHTTP` | `FrontEnd`, `Server` |
| Authorization service, `service.go` | none of its own; uses all of those below | `Authorize` | `AuthService`, `AuthStaleness` |
| Circuit breaker, `breaker.go` | state, failure count, time of the last failure, half-open counter; one mutex | `Execute`, `ForceOpen`, `ForceClose`, `Reset` | `CircuitBreaker` |
| `Cache` interface, `cache.go` 17-23 | abstract: promises that may be forgotten | `Get`, `Set`, `Delete`, `Clear` | `LossyCache`, `DecisionCache` |
| Redis cache, `cache.go` 175-309 | in Redis: a primary, a replica, commands on their way | `Get`, `Set`, `Delete`, `Clear` | `RedisCache` |
| In-memory cache, `cache.go` 62-172 | map of entries with an expiration, reported size; one read-write lock | `Get`, `Set`, `Delete`, `Clear` | `MemoryCache` |
| Mapping client, `mapping/client.go` | in Redis: mappings, patterns, lookup keys | `GetAction` | `MappingResolver` |
| Path patterns, `pattern.go` | none | `buildMatchPattern`, `pathPatternToRegex` | `PathPattern` |
| JWKS key cache, `jwt.go` 86-349 | keys, time of the last fetch; a read-write lock | `getPublicKey`, `fetchJWKS` | `JwksCache` |
| Tokens and claims, `jwt.go`, `service.go` 670-703 | none | `ParseToken`, `GetUserID`, `GetRoles`, `extractPrincipal` | `Claims` |
| Configuration, `config.go` | none once read | `Load`, `Validate` | `ConfigLoad`, `Server` |
| Cerbos client, `cerbos/client.go` | none | `CheckResources`, `IsAllowed` | outcomes only, in `AuthService` |
| Telemetry, `telemetry.go` | write-only | | `Shutdown` is a step of `Server` |

**How they interact.** The process loads its configuration, builds the service (which
pings Redis) and starts a goroutine for each port. A request arrives over gRPC or HTTP,
and one goroutine serves it: the front end turns it into a request for `Authorize`,
which asks the mapping client for the route's action, has the token validated (which may
fetch signing keys), asks the decision cache, looks at the breaker's state, calls Cerbos
through `Breaker.Execute`, and stores the answer in the cache. Each shared structure has
its own lock and none is held across two of these calls. Envoy, the mapping service, the
identity provider, Redis and Cerbos are outside the program; their answers are inputs.

**What is hard.** Nearly everything that goes wrong here goes wrong between two steps:

- `Execute` takes the breaker's mutex four times, and a call's result arrives in
  whatever state the breaker is in by then;
- `Authorize` looks at the breaker's state before `Execute` does, and stores an answer
  in the cache that a later answer may have overtaken;
- an expired `Get` of the in-memory cache releases the lock half way;
- a `SET` that timed out may be executed later, or twice, and a failover of Redis goes
  back to what the replica had;
- a goroutine uses the key and the age it read before an HTTP exchange, and concurrent
  exchanges replace the key set in the order they come back;
- a resolution is a series of Redis commands, each of which may fail, over mappings that
  change meanwhile; its result is kept for five minutes;
- `stop` reads pointers the goroutines of the ports may not have stored, and
  `log.Fatalf` in any goroutine ends the process before the others are done;
- the two ports read the same headers, and the path, by different rules;
- the key of a decision and the pattern of a mapping are texts put together from texts
  of others, and mean what their separators and anchors make of them.

`PROJECT.json` lists these hazards with their lines and the properties aimed at them.

## The modules

### `CircuitBreaker`

One action per critical section: `Admit` (canExecute said yes), `LeaveOpen` (the
transition to half-open), `RecordRequest`, then `RecordFailure` or `RecordSuccess` when
the protected call returns; `pc[p]` says how far goroutine `p` has come. A refusal
changes nothing and is a stuttering step. The last failure is kept as the time since it,
which is all the code compares, in ticks up to `RecoveryTime`; the failure count stops
at `FailureThreshold`, which is exact because it is zeroed whenever the breaker closes.
`Spec` includes the forced transitions and `Reset`, which the program itself does not
call; `CallerSpec` leaves them out.

### `LossyCache`, `DecisionCache`, `MemoryCache`, `RedisCache`

Two abstract caches. `LossyCache` is what the service relies on: a set of promises (a
value under a key for the ticks it has left), any of which may be forgotten at any time;
a hit answers with some value promised under the key, not necessarily the last one.
`DecisionCache` promises more: one value per key, the last one.

`MemoryCache` is `memoryCache` with the lock it releases: `GetExpired` and
`RemoveExpired` are two actions, and whatever happens in between is deleted all the
same. It implements `DecisionCache` (`KeepsThePromise`: an entry counts as present in
the abstract cache while it has not expired), and `LossyCacheProofs` proves that
`DecisionCache` implements `LossyCache` (`PromiseOf` turns each entry into its promise).

`RedisCache` is what the program runs on: `NewService` always asks for Redis. The
operations are one command each. Their environment is modelled as far as the cache can
tell: a `SET` may be executed at any time up to `Lag` after it was sent, once or twice,
behind later ones; the replica copies key by key; a failover makes it the primary. This
cache does *not* implement `DecisionCache`, because a late `SET` or a failover brings an
older decision back. It implements `LossyCache` with times to live longer by `Lag`
(`KeepsItsPromise`, where `Promises` are those of the primary, of the replica and of the
commands on their way), so that is what `AuthService` composes with; read its `CacheTTL`
as including `Lag`.

### `AuthService` and `AuthStaleness`

`Authorize`, composed of `CircuitBreaker` (its `pc` is `execute` here) and `LossyCache`
by `INSTANCE`. An action is one touch of something shared, with the local computation
that follows it: receiving a request together with its mapping and token outcome, the
cache lookup (three ways to go on), the look at the breaker, the steps of `Execute`, the
answer or failure of Cerbos, the store into the cache. The mapping and the token
validation are inputs: they may answer differently for equal requests, since mappings,
policies and tokens change. The cache key joins principal, service, path and method by
colons (`service.go` 722), which services, paths and user ids may contain. So a text
here is the sequence of its parts between colons, `KeyOf` concatenates, and requests for
different routes may share a key. `answered` and `troubled` are history variables. The
handlers for an open breaker and for errors share `Degraded`.

`AuthStaleness` adds a clock to it: `age` says how long ago Cerbos last gave an answer,
`waiting` how long a goroutine has held one it is about to store, at most `Latency`.
`TimedSpec` implements `Spec` (proved). With the clock one can say how old a decision
may be: `StoredIsRecent` and `HitsAreRecent`.

### `FrontEnd`, `ConfigLoad` and `Server`

`FrontEnd` holds the pure part of both ports: which header each takes, what becomes of a
message (preflight, health, refused for want of a path, asked about), and what reply a
response turns into. Headers are sets, empty when absent, because one port distinguishes
an absent header from an empty one. A path is a sequence of pieces, some of them
escapes: `net/http` replaces those in the path of the URL (`Decoded`), and the gRPC port
does not. `PortsAgree` says, for every message, what the two ports have in common: the
authorization and the method; service and scope, unless the gRPC port finds a header
without a value and names none; the host when Envoy sends it as a header as well; the
path of an external request the gRPC port asks about, and that of an internal one but
for its escapes.

`ConfigLoad` is `Load`, `Validate` and the defaults of `NewParser`, over environments
that say of each variable whether it is set and what it is worth. Loading differs from
variable to variable: an unacceptable value is ignored, leaves a zero, or fails.

`Server` composes both with the goroutines of `main.go`. `LoadConfig` to `MainReturns`
are the main goroutine, `Listen` to `ServeReturns` one for each port, `BreakDown` their
errors, `AnswerAtOnce`, `Ask` and `Answer` the calls, `Signal` the operator. `Fatal`
ends the process from any goroutine. The service is asked once per call and may answer
anything.

### `JwksCache` and `Claims`

`getPublicKey` is the first reading (`ReadFresh` or `StartFetch`), an exchange
(`Download`, then `Apply` or `FetchFails`) and the second reading (`ReadAgain`). The
identity provider may rotate its keys at any moment, and `gone` measures how long a key
has been withdrawn. Time passes only during an exchange, at most `Timeout`. Keys are
identified with their kids: a kid is not reused for another key.

`Claims` holds what is done with the key: the order of `ParseToken`'s checks, the user
and the roles. A token is what its text decodes to and the key that signed it; a keyring
is what `getPublicKey` may find.

### `MappingResolver` and `PathPattern`

One action per Redis command of a resolution. The mapping service replaces the mappings
at any moment; nothing in this repository says that it touches the lookup keys, so it
does not. The lookup keys are in the same kind of Redis as the decisions and reached
through the same client library, so they are a `LossyCache` too: a `SETEX` may be
executed late, twice, behind a later one or never, and a failover brings old keys back.
`RedisCache` implements `LossyCache`; read `LookupTTL` as five minutes and `Lag`. A
failover that brings older *mappings* back is a `ChangeMappings`.

`gone` measures how long a mapping has not matched a route. Of a resolution as a whole
nothing is assumed: over gRPC it has no deadline of the program's (`main.go` 391), and
it has as many commands as there are patterns. `Latency` bounds the time from one
command of a resolution to the next, which the timeouts and retries of the client
library end; the deadline of the HTTP port (`main.go` 517) only cuts resolutions
shorter. Whether the mapping's JSON parses is part of whether it can be read; a pattern
that does not compile matches nothing.

Which routes a mapping matches is `PathPattern!MatchedBy`: the translation of the
pattern, replacement by replacement, and the acceptance of the resulting expression by
definition (the part of Go's `regexp` that the code uses, external). A path pattern with
both parentheses is an expression of its author's, raw, and only anchored (`pattern.go`
60-66). An expression is a sequence of its top-level alternatives; `AnchorPattern` looks
where `anchorPattern` looks, so it closes the start of the first and the end of the last
alternative, and leaves the latter open behind an escaped dollar. `Instances` is the
reference: what a plain pattern stands for according to `pattern.go` 47-58.
`OwnRegexesDecide` is the reference for expressions: such an expression decides,
whatever the pattern beside it says, means the same in both fields, matches every whole
path it accepts, and matches others only if its author left an end open that the code
does not close (`Bound`). The instances TLC runs `MappingResolver` on get their mappings
from patterns.

`MC*` modules hold the instances TLC runs on. What the pure modules say of every pattern
(`TranslationIsFaithful`, `OwnRegexesDecide`) and of every token (`RolesInOrder`,
`NamesAreGenuine`) does not depend on the state: `MappingResolver` and `JwksCache`,
which use the results, extend the pure modules and state it of every step of theirs.

## The runs

| Run | Instance | What it shows |
|---|---|---|
| `BreakerSafety` | 3 goroutines, threshold 2, recovery time 2, one probe, operator included | a closed breaker is below its threshold; a half-open one has no more slots out than calls running; an open one is left, a half-open one decided |
| `BreakerHalfOpenLimit` | 2 goroutines | violation: more probes than allowed |
| `MemoryCacheSafety` | 2 readers, 3 keys, 2 places, times to live 0 and 1, clock to 3 | the size limit, the reported size, which entry is evicted, the refinement of `DecisionCache` |
| `RedisCacheSafety` | one key, two opposite decisions, times to live 1 and 2, commands up to one tick late | the refinement of `LossyCache`, across late and repeated commands and failovers |
| `AuthSafety` | 2 goroutines, a user on two routes with one key (`alice:go:/x:/y:GET`), fail-open, breaker on with threshold 1 | allowed means backed by Cerbos under this key, or degraded; only answers are cached; the breaker that stays open; no request waits for anybody |
| `AuthStaleness` | 2 goroutines, a user and a client without a name, fail-closed, breaker off, times to live 2 and 1, latency 1 | no decision outlives its answer by more than its time to live and one latency; the same backing; anonymous gets public endpoints only |
| `AuthBreakerRecovers` | 1 goroutine | violation: the open breaker never tests Cerbos again |
| `AuthScope` | 1 goroutine, two scopes | violation: a decision crosses policy scopes |
| `JwksSafety` | 2 goroutines, 2 keys, one of them permanent, TTL 1, grace 2, timeout 1; 279 tokens, 27 keyrings, 4 instants | a fresh key is recent; no outage within the grace period refuses a permanent key; only genuine tokens name a user; roles are listed once, in order |
| `MappingStaleness` | 2 goroutines, one route, 4 states of the mappings, lookup life 2, latency 1; 236 patterns, 52 expressions, 41 paths | how long a change of the mappings may go unnoticed; a mapping matches what its pattern or its expression stands for |
| `ServerSafety` | every environment off in one variable, one call at a time, 8 messages with queries, escapes, empty headers, no host or an internal one | the configuration in use, what the ports ask alike, what passes, why calls are lost, start and stop |
| `MappingFirstMatch` | 1 goroutine, settled mappings | violation: one failed read changes the answer |

**Bounds.** Three goroutines are the fewest with which two late calls meet a half-open
breaker that a third has reached; two suffice to overlap two fetches, two resolutions or
two requests, because each property speaks of one goroutine and what the others left
behind. Times are the smallest that keep the comparisons apart: within, at and after
each limit (`TTL` below grace, a time to live of zero, grants that outlive denials, an
entry that outlives another). Saturated clocks lose nothing, for no comparison sees past
their limit. One key is enough for `RedisCache`, whose commands never touch two, but for
`Clear`; one route for `MappingResolver`, whose resolutions share no more than their
route's key. One call is enough for `Server`: calls do not look at each other.
Environments with two bad variables add nothing, as `Load` treats each by itself; the
theorem about them covers all. Patterns and paths of four characters contain every
neighbourhood of stars, parameters and slashes that the replacements look at, and three
longer patterns have two wildcards that compete. The only bound that cuts behaviours off
is `MaxTime` in `MemoryCache`: 3 is past the expiration of every entry stored before 2.
The theorems below hold for every value of the constants.

**Deadlock** is checked in every run except `ServerSafety`, where the process really
ends; there `StartEnds` and `StopEnds` say that it does not hang.

**Fairness.** `CircuitBreaker!FairSpec`: each step of a goroutine inside `Execute` is
weakly fair since nothing blocks between two locks, and the protected call returns
because it is an HTTP request with a timeout; callers keep coming and time passes.
`AuthService!FairSpec`, used by `AuthBreakerRecovers` only: a goroutine proceeds until
it has answered, for the same reason (every client has a timeout), time passes, and
requests with policy-decided actions keep arriving. Nothing is assumed of *how* Cerbos
answers. `Server!FairSpec`: main and the goroutines of the ports run on; building the
service has a deadline (`cache.go` 192), `Shutdown` has five seconds, and neither `Stop`
nor `Close` waits for calls. Nothing is assumed of clients, of signals or of ports
breaking down. No strong fairness is used. The counterexample to `BreakerRecovers` is
under this fairness: requests come and time passes for ever, and the breaker stays open.

**Mutants.** Each property of a passing run is shown to fail when one mapped definition
is replaced by its mutated form, defined before it and marked `mutant`: a slot not given
back, an expiration not looked at, a degraded response that is cached, denials that live
as long as grants, a hit that is cached again, a server that is stopped before it is
there, stars replaced in the other order, and so on.

## Where code and words disagree

1. **The breaker never recovers through `Authorize`** (`service.go` 333). While
   `IsOpen`, `Authorize` answers without calling `Execute`; but only `Execute` moves the
   breaker to half-open. Run `AuthBreakerRecovers`; `WedgedForGood` states the same as a
   law, and is proved.
2. **More half-open requests than configured** (`breaker.go` 111, 138). The check and
   the increment are in different critical sections. Run `BreakerHalfOpenLimit`.
3. **Decisions cross policy scopes** (`service.go` 721): the cache key does not hold the
   scope. Run `AuthScope`.
4. **A failed read makes a less specific mapping win** (`mapping/client.go` 192), and
   the lookup key keeps that answer for five minutes. Run `MappingFirstMatch`.

Met while modelling, without a run of their own:

- *Breaker.* A goroutine admitted before the breaker tripped takes it from open to
  half-open without waiting for the recovery time (`breaker.go` 82).
- *Caches.* By default a denial is cached for 300 seconds and a grant for 30
  (`config.go` 72-73), so a permission that was granted may take ten times as long to
  take hold as one that was revoked. A cached response has lost its `PrincipalID`
  (`service.go` 726-744). `evictOldest` removes the entry that expires first, not the
  oldest (`cache.go` 163). `Clear` drops the whole database, which the mappings share
  (`cache.go` 288, `service.go` 87-95). `Get` increments the hit and miss counters under
  the read lock only (`cache.go` 89).
- *Tokens.* A kid that has disappeared from a refreshed key set is used whatever its age
  (`jwt.go` 275). A token without `exp` never expires (`jwt.go` 201).
- *Keys.* The cache key joins its fields by colons without marking where one ends
  (`service.go` 722): service `go:/x` with path `/y` and service `go` with path `/x:/y`
  have the same key, so that a decision about one route is served for the other.
  `AllowIsBacked` is stated for keys therefore.
- *Patterns.* `anchorPattern` looks at the first and last character only (`pattern.go`
  79-87): the inner ends of top-level alternatives stay open, and so does the end of an
  expression that ends in an escaped dollar, as every plain pattern does that ends in
  one. So the result is not always "fully anchored" (`pattern.go` 15), nor "matching is
  exact" (`pattern.go` 76-77). Without the condition `Bound` in `OwnRegexesDecide`,
  `MappingStaleness` finds `OwnRegexIsDecisive` violated. In `:user-id` the parameter is
  `:user`, followed by the text `-id`.
- *Two ports, two readings.* For an internal host the gRPC port asks about the path as
  it was sent (`main.go` 318), the HTTP port about the decoded one (`main.go` 475):
  `/a%20b` is looked up as two different routes, and behind `%3F` the HTTP port sees a
  query. A header that is there without a value hides those behind it from the gRPC port
  (`main.go` 354-379) and not from the HTTP port (`main.go` 439-455). Only the HTTP port
  gives `Authorize` a deadline (`main.go` 391, 517).
- *Front end.* The HTTP port computes the original method and then sends the one of its
  own request (`main.go` 457, 512); the gRPC port takes the host from a header of that
  name (`main.go` 304). `GET /health` on the HTTP port is answered without
  authorization. An allowed response carries neither `X-Cerbos-Status` nor a health
  header, so fail-open responses are not announced (`main.go` 99-153, `README.md`
  404-411). The statuses `error` and `no_action_mapping` are not among those documented
  for `X-Cerbos-Status`.
- *Stop.* `Close` makes `Serve` of the HTTP port return an error, and `Fatalf` then ends
  the process with a failure status, perhaps before telemetry is flushed (`main.go` 636,
  657). `Shutdown` flushes traces only (`telemetry.go` 147).
- *Configuration.* Nothing calls `Validate`; `ConfigLoad` shows that what is lost by it
  is the check of two endpoints. Numbers of seconds beyond 292 years overflow a
  `time.Duration`.

## What is proved

Proofs are in `*Proofs` modules, checked by TLAPS for every value of the constants under
named assumptions, each beside the constants it is about:

- `PartsAssumption` and `RequestsAssumption`: what identifies a request is made of parts
  between colons; a method has none, and the identity provider issues no user id of the
  form `anonymous:...`, which could make the key of an anonymous request;
- finitely many goroutines and keys; thresholds, times to live and the cache size as
  `Load` and the constructors make them, positive; `Latency`, `Lag` and `Timeout`
  natural;
- `Stable \subseteq Kids`; an action decided by policy is none of the names `Authorize`
  treats by itself; an environment gives each variable one of the values `ConfigLoad`
  distinguishes;
- `MessagesAssumption`: the paths of messages are sequences, and one that Envoy sends
  begins with a slash; `EscapesAssumption`: an escape stands for a piece, and a slash is
  none;
- `PathsAssumption`: paths are sequences; `OwnRegexesAssumption`: an expression has at
  least one alternative; `CataloguesAssumption`: the pattern list names mappings by ids
  the model has; `TimesAssumption`: `LookupTTL` positive, `Latency` natural;
- `IssuerAssumption`: an issuer is configured, as `Load` insists (`config.go` 127-131);
  `InstantsAssumption`: `exp` and `nbf` are integers, `time.Now().Unix()` is not
  negative; `KeyringsAssumption`: one kid, one key, which the map of `JwksCache` gives.

Module by module, with the argument:

- **`CircuitBreakerProofs`**: `TypeCorrect`; `ClosedIsBelowThreshold`, which is
  inductive with the types; `ProbesAreInFlight`, also inductive: `RecordRequest` adds a
  slot and a running call, a failure ends the half-open state with its call, a success
  zeroes the slots.
- **`MemoryCacheProofs`**: `TypeCorrect`; `Bounded` and `SizesCovered`, one invariant: a
  `Set` makes the reported size exact, and until the next one nothing adds an entry;
  `EvictionOrder`: the victim has the least expiration, so a live victim means that no
  entry kept has expired; `Implements`, the refinement of `DecisionCache`, one lemma per
  kind of step: an insertion is a `Put` after forgetting the victim and what has
  expired, a removal is a `Forget` or nothing, a tick ages.
- **`LossyCacheProofs`**: `RedisKeepsItsPromise`, the refinement of `LossyCache` by
  `RedisCache`. Every step maps to one of the abstract cache or to a stutter: sending a
  `SET` is the only `Put`, with the command's time to live longer by `Lag`; executing
  it, copying it to the replica, a failover and a deletion only forget, because a copy
  keeps in `late` what its command had not used of its lag; a tick takes one from every
  promise, whether it waits on the wire or runs out in Redis. `HeldKept` says so of what
  one server holds. `RedisTypes` gives the types this needs. `ImplementsLossyCache` is
  the refinement of `LossyCache` by `DecisionCache`: with `Implements`, the in-memory
  cache keeps the weaker promise too.
- **`AuthServiceProofs`**: `Invariance` proves the inductive invariant `IInv`: the
  types, what each place of the pipeline knows of its request, that cached promises and
  the results about to be cached are answers of Cerbos, that a breaker which is not
  closed has seen trouble. The safety properties are its consequences:
  `AllowedRequestsAreBacked`, `OnlyAnswersAreCached`, `AnonymousGetsPublicOnly`. It must
  speak of results in flight, since `CacheResult` stores what an earlier step computed,
  and of the breaker, since a degraded response is justified by a past failure only if
  an open breaker implies one. `AllowedRequestsAreBacked` speaks of a request with the
  same key. That this request had the same principal, service and route follows when the
  principals and the services of the two have equally many parts, as they have when
  there is no colon in them; otherwise it need not be so. `OpenBreakerStaysOpen` is
  `WedgedForGood`. The composition is proved as well: `RunsTheBreaker` (`Spec =>
  Breaker!CallerSpec`) and `RunsTheCache` (`Spec => Cache!Spec`) show that the pipeline
  uses each part only in ways its own module describes, so that what is proved of the
  part alone holds here; `BreakerLawsHold` draws that conclusion for the breaker, from
  the theorems of `CircuitBreakerProofs`.
- **`AuthStalenessProofs`**: `Watching` shows that the clock restricts nothing but time,
  which makes `IInv` available; `StalenessInvariance` then proves `SInv`.
  `StoredIsRecent` alone is not inductive: `Held` adds that an answer about to be stored
  is no older than its goroutine has waited, and `Clean` that a goroutine about to look
  has no old answer of the cache. The consequences are `StoredAnswersAreRecent` and
  `ServedAnswersAreRecent`.
- **`JwksCacheProofs`**: `Invariance` for the key sets in flight as well as the one in
  the cache (a body is no older than its exchange), then `FreshMeansRecent` and
  `OutagesAreBridged`. `PrincipalsAreGenuine`, about every token, keyring and second:
  `Parsing` shows that the checks of `ParseToken` amount to `Genuine`, `Extracting` what
  becomes of a header of two words.
- **`MappingResolverProofs`**: `Invariance` bounds the age of what a goroutine knows by
  the place where it stands. `LookupIsRecent` alone is not inductive: `KnownIsRecent`
  adds the mapping a goroutine has settled on, which may have been gone for the time
  since its last command, for one command more once its key is sent, and for a key's
  life and a command more if a lookup key named it; `GoneIsReset` says that what matches
  now has not been gone at all. `PutAdds`, `LookupTells` and `KeysAge` are all that is
  used of the cache. `LookupsAreRecent` and `ChangesTakeHoldInTime` follow.
  `OwnRegexesAreDecisive`: `Anchored` says which ends `AnchorPattern` closes and that it
  leaves the bodies alone, `AnchoredMatches` that an expression closed at both ends of
  every alternative accepts whole paths only, `OwnRegexMatches` that it decides in
  whichever field it is.
- **`ServerProofs`**: `ConfigIsUsable`, from the lemma `WhatLoadReturns` about every
  environment; `Invariance` for who has got how far (a main goroutine that is stopping
  has had its signal, no port serves before the service is built), from which
  `LossesHaveCauses`; `PassesAreAllowed`; `AskedInTheSameWords`, about every message:
  `Stripping` shows that no query is left in a path (`FirstQuery` finds the first
  question mark of a sequence of any length), `NothingToStrip` and `Decoding` what
  stripping and the replacement of escapes do to each other, `HeadersAlike` that the two
  ways of reading a list of headers agree unless one of them is empty, `InsidePaths` and
  `OutsidePaths` what the paths have in common, and `PortsAlike` draws the conclusion.

Each inductive invariant was checked with TLC before it was proved, and so were the two
specifications of `RunsTheBreaker` and `RunsTheCache` on the instance of `AuthSafety`.

**Only model-checked**: liveness (`OpenIsLeft`, `HalfOpenResolves`, `StartEnds`,
`StopEnds`), since TLAPS does not handle fairness here; `NobodyWaits`, which speaks of
`ENABLED`; `PatternsMeanTheirInstances` and `RolesListedOnce`, which say what a
translation element by element and a fold over lists compute, and would take an
induction over data. Every other invariant and action property of the passing runs is a
theorem.

## What is not modelled

The HTTP exchange of the Cerbos client, decoding of tokens and RSA, and the parts of
Redis and of Go's libraries that the code does not touch. Telemetry: no decision reads
it; metric counters are left out everywhere. Informative headers and response bodies.
Regular expressions with alternatives inside parentheses, character classes or flags of
their author's. A URL with an invalid escape, which `net/http` refuses. `fetchMapping`
is never called. The mock modes are for tests. The deployment files are declarative.

## Plan

1. The composition of `AuthStaleness` with `MappingResolver`: how long after a change of
   the mappings a decision about the old action may be served.
2. The refinement of `LossyCache` stated with the times to live of `AuthStaleness`, so
   that the bound of `HitsAreRecent` is read off for Redis with `Lag` in it.
