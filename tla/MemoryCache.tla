---------------------------- MODULE MemoryCache ----------------------------
(***************************************************************************)
(* memoryCache of internal/cache/cache.go: a map under a read-write lock,  *)
(* used by concurrent goroutines.                                          *)
(*                                                                         *)
(* Set, Delete and Clear hold the lock throughout: one action each.  Get   *)
(* does too, unless the entry it finds has expired: it then releases the   *)
(* read lock and takes the write lock to delete the key, and anything may  *)
(* happen in between.                                                      *)
(*                                                                         *)
(* The hit and miss counters are left out.                                 *)
(***************************************************************************)
EXTENDS Integers, FiniteSets, Functions

CONSTANTS
    Procs,           \* goroutines that look keys up
    Keys,
    Values,          \* what is cached
    TTLs,            \* the times to live passed to Set
    MaxMemorySize,   \* Config.MaxMemorySize
    MaxTime          \* bound on the clock

ASSUME KeysAssumption == IsFiniteSet(Keys)
ASSUME TTLsAssumption == TTLs \subseteq Nat
ASSUME SizeAssumption == MaxMemorySize \in Nat \ {0}
ASSUME TimeAssumption == MaxTime \in Nat

VARIABLES
    data,            \* the map: a function from a subset of Keys
    size,            \* stats.Size
    now,             \* the clock
    pc,              \* pc[p] = "removing": p has found an expired entry ...
    want,            \* ... under key want[p], and has released the lock
    answer           \* answer[p]: what p's last Get returned, as a set: {} on a miss

vars == <<data, size, now, pc, want, answer>>

Miss == {}
Entry == [value : Values, expiresAt : Nat]

TypeOK ==
    /\ data = [k \in DOMAIN data |-> data[k]]
    /\ DOMAIN data \subseteq Keys
    /\ \A k \in DOMAIN data : data[k] \in Entry
    /\ size \in Nat
    /\ now \in 0 .. MaxTime
    /\ pc \in [Procs -> {"idle", "removing"}]
    /\ want \in [Procs -> Keys]
    /\ answer \in [Procs -> SUBSET Values]

Expired(e) == now > e.expiresAt

Without(d, k) == Restrict(d, DOMAIN d \ {k})

Len(d) == Cardinality(DOMAIN d)
-----------------------------------------------------------------------------
Init ==
    /\ data = [k \in {} |-> k]
    /\ size = 0
    /\ now = 0
    /\ pc = [p \in Procs |-> "idle"]
    /\ want \in {[p \in Procs |-> k] : k \in Keys}
    /\ answer = [p \in Procs |-> Miss]

GetAbsent(p, k) ==
    /\ pc[p] = "idle"
    /\ k \notin DOMAIN data
    /\ answer' = [answer EXCEPT ![p] = Miss]
    /\ UNCHANGED <<data, size, now, pc, want>>

GetStale(p, k) ==   \* mutant: the expiration is not looked at
    /\ pc[p] = "idle"
    /\ k \in DOMAIN data
    /\ answer' = [answer EXCEPT ![p] = {data[k].value}]
    /\ UNCHANGED <<data, size, now, pc, want>>

GetFresh(p, k) ==
    /\ pc[p] = "idle"
    /\ k \in DOMAIN data
    /\ ~Expired(data[k])
    /\ answer' = [answer EXCEPT ![p] = {data[k].value}]
    /\ UNCHANGED <<data, size, now, pc, want>>

GetExpired(p, k) ==
    /\ pc[p] = "idle"
    /\ k \in DOMAIN data
    /\ Expired(data[k])
    /\ pc' = [pc EXCEPT ![p] = "removing"]
    /\ want' = [want EXCEPT ![p] = k]
    /\ UNCHANGED <<data, size, now, answer>>

RemoveExpiredCounting(p) ==   \* mutant: one entry fewer, even if it is gone by now
    /\ pc[p] = "removing"
    /\ data' = Without(data, want[p])
    /\ size' = size - 1
    /\ pc' = [pc EXCEPT ![p] = "idle"]
    /\ answer' = [answer EXCEPT ![p] = Miss]
    /\ UNCHANGED <<now, want>>

(* The delete takes whatever is under the key by now, and leaves stats.Size *)
(* alone.                                                                   *)
RemoveExpired(p) ==
    /\ pc[p] = "removing"
    /\ data' = Without(data, want[p])
    /\ pc' = [pc EXCEPT ![p] = "idle"]
    /\ answer' = [answer EXCEPT ![p] = Miss]
    /\ UNCHANGED <<size, now, want>>

VictimsLatest ==   \* mutant: the comparison of evictOldest is the wrong way
    {k \in DOMAIN data : \A j \in DOMAIN data :
        data[k].expiresAt >= data[j].expiresAt}

(* The keys evictOldest may pick: an entry that expires first, in the      *)
(* arbitrary order of a Go map.                                            *)
Victims ==
    {k \in DOMAIN data : \A j \in DOMAIN data :
        data[k].expiresAt <= data[j].expiresAt}

AfterEvictionLate ==   \* mutant: one entry too many is let in
    IF Len(data) > MaxMemorySize
    THEN {Without(data, k) : k \in Victims}
    ELSE {data}

(* What Set inserts into: at capacity it evicts first, even when the key   *)
(* it is about to write is already in the map.                             *)
AfterEviction ==
    IF Len(data) >= MaxMemorySize
    THEN {Without(data, k) : k \in Victims}
    ELSE {data}

SetSizeFirst(k, v, ttl) ==   \* mutant: stats.Size is taken before the insertion
    /\ \E d \in AfterEviction :
          /\ data' = [j \in DOMAIN d \cup {k} |->
                        IF j = k THEN [value |-> v, expiresAt |-> now + ttl]
                                 ELSE d[j]]
          /\ size' = Len(d)
    /\ UNCHANGED <<now, pc, want, answer>>

Set(k, v, ttl) ==
    /\ \E d \in AfterEviction :
          data' = [j \in DOMAIN d \cup {k} |->
                      IF j = k THEN [value |-> v, expiresAt |-> now + ttl]
                               ELSE d[j]]
    /\ size' = Len(data')
    /\ UNCHANGED <<now, pc, want, answer>>

Delete(k) ==
    /\ data' = Without(data, k)
    /\ size' = Len(data')
    /\ UNCHANGED <<now, pc, want, answer>>

Clear ==
    /\ data' = [k \in {} |-> k]
    /\ size' = 0
    /\ UNCHANGED <<now, pc, want, answer>>

Tick ==
    /\ now < MaxTime
    /\ now' = now + 1
    /\ UNCHANGED <<data, size, pc, want, answer>>

Get(p, k) == GetAbsent(p, k) \/ GetFresh(p, k) \/ GetExpired(p, k)

Next ==
    \/ \E p \in Procs, k \in Keys : Get(p, k)
    \/ \E p \in Procs : RemoveExpired(p)
    \/ \E k \in Keys, v \in Values, ttl \in TTLs : Set(k, v, ttl)
    \/ \E k \in Keys : Delete(k)
    \/ Clear
    \/ Tick

Spec == Init /\ [][Next]_vars
-----------------------------------------------------------------------------
(* The map never outgrows its configured size, and stats.Size, which an    *)
(* expired Get leaves alone, never reports fewer entries than it holds.    *)
WithinCapacity == Len(data) <= MaxMemorySize

SizeIsUpperBound == Len(data) <= size

(* Making room never costs a live entry while an expired one takes space.  *)
EvictsExpiredFirst ==
    [][\A k \in Keys, v \in Values, ttl \in TTLs :
         Set(k, v, ttl) =>
           \A gone \in DOMAIN data \ DOMAIN data', kept \in DOMAIN data \cap DOMAIN data' :
              Expired(data[kept]) => Expired(data[gone])]_vars

(* The cache keeps the promise of DecisionCache: an entry that has expired *)
(* is no longer there for the reader, whether it has been removed or not.  *)
Live == {k \in DOMAIN data : ~Expired(data[k])}

Abstract == INSTANCE DecisionCache WITH
    Readers <- Procs,
    store <- [k \in Live |-> [value |-> data[k].value,
                              left |-> data[k].expiresAt - now]]

KeepsThePromise == Abstract!Spec
=============================================================================
