--------------------------- MODULE AuthStaleness ---------------------------
(***************************************************************************)
(* How old a decision may be when Authorize serves it.                     *)
(*                                                                         *)
(* Between an answer of Cerbos and the Set that caches it anything may     *)
(* happen: another goroutine may get, and cache, the opposite answer for   *)
(* the same key, and nothing in cacheAuthResult orders the two.  So the    *)
(* cache may end up with the older answer, and a revoked permission may be *)
(* served again after a denial.  This module gives AuthService a clock to  *)
(* say how long that may last.                                             *)
(***************************************************************************)
EXTENDS AuthService

CONSTANT Latency    \* the longest a goroutine takes from the answer of Cerbos
                    \* to the end of its Set, in ticks: the client's timeouts

ASSUME LatencyAssumption == Latency \in Nat

VARIABLES
    age,       \* age[a]: the ticks since Cerbos last gave the answer a
    waiting    \* waiting[p]: the ticks p has held an answer it has not cached

timedVars == <<vars, age, waiting>>

Max2(a, b) == IF a > b THEN a ELSE b

(* The longest a decision may be served after it was made.                 *)
Staleness(allowed) == Latency + IF allowed THEN CacheTTL ELSE CacheFailedTTL

(* Ages are counted up to where every decision is out of use.              *)
MaxAge == Max2(Staleness(TRUE), Staleness(FALSE)) + 1

StaleTypeOK ==
    /\ TypeOK
    /\ age \in [answered -> 0 .. MaxAge]
    /\ waiting \in [Procs -> 0 .. Latency]
    /\ \A p \in Procs : waiting[p] > 0 => pc[p] = "caching"
-----------------------------------------------------------------------------
TimedInit ==
    /\ Init
    /\ age = [a \in {} |-> 0]
    /\ waiting = [p \in Procs |-> 0]

TimedAnswer(p, allowed) ==
    /\ CerbosAnswers(p, allowed)
    /\ age' = [a \in answered' |->
                 IF a = Answer(req[p], action[p], allowed) THEN 0 ELSE age[a]]
    /\ UNCHANGED waiting

TimedCacheResultLate(p) ==   \* mutant: the next answer starts with this wait
    CacheResult(p) /\ UNCHANGED <<age, waiting>>

TimedCacheResult(p) ==
    /\ CacheResult(p)
    /\ waiting' = [waiting EXCEPT ![p] = 0]
    /\ UNCHANGED age

(* No Set takes longer than Latency.                                       *)
TimedTick ==
    /\ \A p \in Procs : pc[p] = "caching" => waiting[p] < Latency
    /\ Tick
    /\ age' = [a \in answered |-> IF age[a] < MaxAge THEN age[a] + 1 ELSE MaxAge]
    /\ waiting' = [p \in Procs |->
                     IF pc[p] = "caching" THEN waiting[p] + 1 ELSE waiting[p]]

Untimed ==
    /\ \/ \E p \in Procs : Arrive(p) \/ ProceedWithoutAnswer(p)
       \/ LoseEntries
    /\ UNCHANGED <<age, waiting>>

TimedNext ==
    \/ \E p \in Procs, allowed \in BOOLEAN : TimedAnswer(p, allowed)
    \/ \E p \in Procs : TimedCacheResult(p)
    \/ TimedTick
    \/ Untimed

TimedSpec == TimedInit /\ [][TimedNext]_timedVars
-----------------------------------------------------------------------------
(* The answer v about key k was given by Cerbos, and no more than t ticks  *)
(* ago.                                                                    *)
GivenWithin(k, v, t) ==
    \E r \in Requests :
       /\ KeyOf(r) = k
       /\ Answer(r, v.action, v.allowed) \in answered
       /\ age[Answer(r, v.action, v.allowed)] <= t

(* However the Sets of concurrent requests are ordered, what the cache     *)
(* holds is not only an answer of Cerbos: with the time it has left it     *)
(* will be gone before the answer is older than its time to live and the   *)
(* latency of one Set.                                                     *)
StoredIsRecent ==
    \A e \in store :
       GivenWithin(e.key, e.value, Staleness(e.value.allowed) - e.left)

(* A revocation, or a grant, takes hold: a hit is served only if Cerbos    *)
(* gave that very answer within the time to live of such answers and the   *)
(* latency of one Set.                                                     *)
HitsAreRecent ==
    [][\A p \in Procs :
          pc[p] = "lookup" =>
             \A v \in cached'[p] :
                GivenWithin(KeyOf(req[p]), v, Staleness(v.allowed))]_timedVars
=============================================================================
