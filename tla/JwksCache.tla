----------------------------- MODULE JwksCache -----------------------------
(***************************************************************************)
(* The signing keys of internal/jwt/jwt.go: getPublicKey and fetchJWKS,    *)
(* run by one goroutine per token, over one shared cache that each fetch   *)
(* replaces as a whole.                                                    *)
(*                                                                         *)
(* getPublicKey reads the cache under the read lock, lets go of it, and    *)
(* may then fetch the key set over HTTP.  Whatever it decides afterwards   *)
(* about a cached key it decides from that first reading.                  *)
(*                                                                         *)
(* A key stands for its kid.  Time is in ticks: only an HTTP exchange      *)
(* takes time, at most Timeout (the client's timeout); the steps between   *)
(* two exchanges take none.  age and gone are saturated where no           *)
(* comparison can tell the difference.                                     *)
(***************************************************************************)
EXTENDS Claims

CONSTANTS
    Procs,
    Kids,       \* the keys of the identity provider
    Stable,     \* those of them that are never withdrawn
    CacheTTL,   \* jwksCache.ttl
    GraceTTL,   \* jwksCache.graceTTL
    Timeout     \* Config.Timeout

ASSUME KidsAssumption == Stable \subseteq Kids
ASSUME TimesAssumption == /\ CacheTTL \in Nat \ {0}
                          /\ GraceTTL \in Nat \ {0}
                          /\ Timeout \in Nat

VARIABLES
    published,   \* the keys the endpoint publishes
    gone,        \* gone[k]: for how long k has not been published
    keys,        \* jwksCache.keys
    age,         \* time.Since(jwksCache.lastFetch)
    pc,
    kid,         \* kid[p]: the key p looks for
    keyExists,   \* keyExists[p], cacheAge[p]: what p's first reading found
    cacheAge,
    body,        \* body[p]: the key set p has downloaded
    flight,      \* flight[p]: for how long p's exchange has lasted
    result       \* result[p]: what getPublicKey returned last

clocks == <<gone, age, flight>>
reading == <<kid, keyExists, cacheAge>>
vars == <<published, clocks, keys, pc, reading, body, result>>

Old == CacheTTL + GraceTTL       \* lastFetch is zero, or long ago
Forgotten == CacheTTL + Timeout  \* long enough for every comparison

UpTo(bound, n) == IF n < bound THEN n ELSE bound

TypeOK ==
    /\ published \in SUBSET Kids
    /\ gone \in [Kids -> 0 .. Forgotten]
    /\ keys \in SUBSET Kids
    /\ age \in 0 .. Old
    /\ pc \in [Procs -> {"idle", "fetching", "applying", "reading"}]
    /\ kid \in [Procs -> Kids]
    /\ keyExists \in [Procs -> BOOLEAN]
    /\ cacheAge \in [Procs -> 0 .. Old]
    /\ body \in [Procs -> SUBSET Kids]
    /\ flight \in [Procs -> 0 .. Timeout]
    /\ result \in [Procs -> {"none", "fresh", "stale", "error"}]
-----------------------------------------------------------------------------
Init ==
    /\ published \in {P \in SUBSET Kids : Stable \subseteq P /\ P # {}}
    /\ gone = [k \in Kids |-> IF k \in published THEN 0 ELSE Forgotten]
    /\ keys = {}
    /\ age = Old
    /\ pc = [p \in Procs |-> "idle"]
    /\ kid \in {[p \in Procs |-> k] : k \in Kids}
    /\ keyExists = [p \in Procs |-> FALSE]
    /\ cacheAge = [p \in Procs |-> Old]
    /\ body = [p \in Procs |-> {}]
    /\ flight = [p \in Procs |-> 0]
    /\ result = [p \in Procs |-> "none"]

Return(p, outcome) ==
    /\ result' = [result EXCEPT ![p] = outcome]
    /\ pc' = [pc EXCEPT ![p] = "idle"]

ReadCacheFromExpiry(p, k) ==   \* mutant: the age counts from the expiry
    /\ pc[p] = "idle"
    /\ kid' = [kid EXCEPT ![p] = k]
    /\ keyExists' = [keyExists EXCEPT ![p] = k \in keys]
    /\ cacheAge' = [cacheAge EXCEPT ![p] = age - CacheTTL]
    /\ UNCHANGED <<published, gone, age, keys, body>>

(* The first reading of the cache.                                         *)
ReadCache(p, k) ==
    /\ pc[p] = "idle"
    /\ kid' = [kid EXCEPT ![p] = k]
    /\ keyExists' = [keyExists EXCEPT ![p] = k \in keys]
    /\ cacheAge' = [cacheAge EXCEPT ![p] = age]
    /\ UNCHANGED <<published, gone, age, keys, body>>

ReadFresh(p, k) ==
    /\ ReadCache(p, k)
    /\ k \in keys /\ age < CacheTTL
    /\ Return(p, "fresh")
    /\ UNCHANGED flight

StartFetch(p, k) ==
    /\ ReadCache(p, k)
    /\ ~(k \in keys /\ age < CacheTTL)
    /\ pc' = [pc EXCEPT ![p] = "fetching"]
    /\ flight' = [flight EXCEPT ![p] = 0]
    /\ UNCHANGED result

(* The endpoint answers with the keys it publishes at that moment; the     *)
(* answer then travels.                                                    *)
Download(p) ==
    /\ pc[p] = "fetching"
    /\ published # {}
    /\ body' = [body EXCEPT ![p] = published]
    /\ pc' = [pc EXCEPT ![p] = "applying"]
    /\ UNCHANGED <<published, clocks, keys, reading, result>>

FetchFailsTouching(p) ==   \* mutant: a failed attempt counts as a fetch
    /\ pc[p] \in {"fetching", "applying"}
    /\ Return(p, IF keyExists[p] /\ cacheAge[p] < GraceTTL THEN "stale" ELSE "error")
    /\ age' = 0
    /\ UNCHANGED <<published, gone, flight, keys, reading, body>>

(* Any failure of fetchJWKS: no connection, a timeout, a status other than *)
(* 200, a body that does not parse or holds no usable key.  The cached key *)
(* is used within the grace period.                                        *)
FetchFails(p) ==
    /\ pc[p] \in {"fetching", "applying"}
    /\ Return(p, IF keyExists[p] /\ cacheAge[p] < GraceTTL THEN "stale" ELSE "error")
    /\ UNCHANGED <<published, clocks, keys, reading, body>>

ApplyWanted(p) ==   \* mutant: only the key that was asked for is kept
    /\ pc[p] = "applying"
    /\ keys' = body[p] \cap {kid[p]}
    /\ age' = 0
    /\ pc' = [pc EXCEPT ![p] = "reading"]
    /\ UNCHANGED <<published, gone, flight, reading, body, result>>

(* fetchJWKS replaces the whole cache.                                     *)
Apply(p) ==
    /\ pc[p] = "applying"
    /\ keys' = body[p]
    /\ age' = 0
    /\ pc' = [pc EXCEPT ![p] = "reading"]
    /\ UNCHANGED <<published, gone, flight, reading, body, result>>

(* The second reading, after a fetch that succeeded.  A key that is not    *)
(* there any more is used all the same if the first reading found it.      *)
ReadAgain(p) ==
    /\ pc[p] = "reading"
    /\ Return(p, IF kid[p] \in keys THEN "fresh"
                 ELSE IF keyExists[p] THEN "stale" ELSE "error")
    /\ UNCHANGED <<published, clocks, keys, reading, body>>

(* The identity provider rotates its keys.                                 *)
Rotate ==
    /\ published' \in {P \in SUBSET Kids : Stable \subseteq P}
    /\ gone' = [k \in Kids |-> IF k \in published' THEN 0 ELSE gone[k]]
    /\ UNCHANGED <<age, flight, keys, pc, reading, body, result>>

InExchange == {p \in Procs : pc[p] \in {"fetching", "applying"}}

Tick ==
    /\ \A p \in Procs : pc[p] # "reading"
    /\ \A p \in InExchange : flight[p] < Timeout
    /\ age' = UpTo(Old, age + 1)
    /\ gone' = [k \in Kids |-> IF k \in published THEN 0
                               ELSE UpTo(Forgotten, gone[k] + 1)]
    /\ flight' = [p \in Procs |-> IF p \in InExchange THEN flight[p] + 1 ELSE flight[p]]
    /\ UNCHANGED <<published, keys, pc, reading, body, result>>

Step(p) ==
    \/ \E k \in Kids : ReadFresh(p, k) \/ StartFetch(p, k)
    \/ Download(p)
    \/ FetchFails(p)
    \/ Apply(p)
    \/ ReadAgain(p)

Next ==
    \/ \E p \in Procs : Step(p)
    \/ Rotate
    \/ Tick

Spec == Init /\ [][Next]_vars
-----------------------------------------------------------------------------
(* A key that counts as fresh was published no longer ago than the age of  *)
(* the cache plus one HTTP exchange, even when the answers of concurrent   *)
(* fetches are applied in the wrong order.                                 *)
FreshKeysAreRecent ==
    age < CacheTTL => \A k \in keys : gone[k] <= age + Timeout

(* A key that is never withdrawn is not refused to a request that came     *)
(* while the cache was within its grace period: no order of the concurrent *)
(* fetches, succeeding or failing, loses it.                               *)
NoOutageWithinGrace ==
    \A p \in Procs :
       (/\ pc[p] = "idle"
        /\ result[p] = "error"
        /\ kid[p] \in Stable) => cacheAge[p] >= GraceTTL

(* GetRoles lists every role of a token once, where it comes first.        *)
RolesListedOnce == [][RolesInOrder]_vars

(* Whoever extractPrincipal names has shown a genuine token that is valid  *)
(* now, and genuine tokens are not refused.                                *)
NamedPrincipalsAreGenuine == [][NamesAreGenuine]_vars
=============================================================================
