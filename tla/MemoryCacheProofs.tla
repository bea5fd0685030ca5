-------------------------- MODULE MemoryCacheProofs --------------------------
(***************************************************************************)
(* Theorems about MemoryCache, for any keys, values, times to live, size   *)
(* and number of goroutines: it keeps its bounds, it evicts what has       *)
(* expired first, and it implements DecisionCache.                         *)
(***************************************************************************)
EXTENDS MemoryCache, FiniteSetTheorems, TLAPS

(* Removing a key from a map of entries leaves a map of entries.           *)
LEMMA WithoutType ==
  ASSUME TypeOK, NEW k
  PROVE  /\ DOMAIN Without(data, k) = DOMAIN data \ {k}
         /\ Without(data, k) = [j \in DOMAIN data \ {k} |-> data[j]]
         /\ \A j \in DOMAIN data \ {k} : Without(data, k)[j] = data[j]
BY DEF Without, Restrict

(* What Set inserts into is the map, less at most one key.                 *)
LEMMA AfterEvictionType ==
  ASSUME TypeOK, NEW d \in AfterEviction
  PROVE  /\ DOMAIN d \subseteq DOMAIN data
         /\ \A j \in DOMAIN d : d[j] = data[j]
<1>1. CASE d = data
  BY <1>1
<1>2. CASE \E k \in Victims : d = Without(data, k)
  BY <1>2, WithoutType
<1>3. QED
  BY <1>1, <1>2 DEF AfterEviction

(* Set leaves a map of entries.                                            *)
LEMMA SetType ==
  ASSUME TypeOK, NEW k \in Keys, NEW v \in Values, NEW ttl \in TTLs, Set(k, v, ttl)
  PROVE  \E d \in AfterEviction :
           /\ DOMAIN data' = DOMAIN d \cup {k}
           /\ data' = [j \in DOMAIN data' |-> data'[j]]
           /\ data'[k] = [value |-> v, expiresAt |-> now + ttl]
           /\ data'[k] \in Entry
           /\ \A j \in DOMAIN d \ {k} : data'[j] = data[j]
<1>1. PICK d \in AfterEviction :
        data' = [j \in DOMAIN d \cup {k} |->
                    IF j = k THEN [value |-> v, expiresAt |-> now + ttl]
                             ELSE d[j]]
  BY DEF Set
<1>2. [value |-> v, expiresAt |-> now + ttl] \in Entry
  <2>1. now \in Nat /\ ttl \in Nat
    BY TTLsAssumption, TimeAssumption DEF TypeOK
  <2>2. QED
    BY <2>1 DEF Entry
<1>3. \A j \in DOMAIN d : d[j] = data[j]
  BY AfterEvictionType
<1>4. WITNESS d \in AfterEviction
<1>5. QED
  BY <1>1, <1>2, <1>3

(* A map of entries has a size, and a smaller domain a smaller one.        *)
LEMMA Sizes ==
  ASSUME TypeOK
  PROVE  /\ IsFiniteSet(DOMAIN data) /\ Len(data) \in Nat
         /\ \A S \in SUBSET DOMAIN data :
               IsFiniteSet(S) /\ Cardinality(S) \in Nat /\ Cardinality(S) <= Len(data)
<1>1. IsFiniteSet(DOMAIN data)
  BY KeysAssumption, FS_Subset DEF TypeOK
<1>2. QED
  BY <1>1, FS_Subset, FS_CardinalityType DEF Len

(* The variables of the cache keep their types.                            *)
LEMMA TypeStep == TypeOK /\ [Next]_vars => TypeOK'
<1> SUFFICES ASSUME TypeOK, [Next]_vars
             PROVE  TypeOK'
  OBVIOUS
<1>1. ASSUME NEW p \in Procs, NEW k \in Keys, Get(p, k)
      PROVE  TypeOK'
  BY <1>1 DEF Get, GetAbsent, GetFresh, GetExpired, TypeOK, Entry, Miss
<1>2. ASSUME NEW p \in Procs, RemoveExpired(p)
      PROVE  TypeOK'
  <2>1. /\ data' = [j \in DOMAIN data' |-> data'[j]]
        /\ DOMAIN data' \subseteq Keys
        /\ \A j \in DOMAIN data' : data'[j] \in Entry
    BY <1>2, WithoutType DEF RemoveExpired, TypeOK
  <2>2. QED
    BY <1>2, <2>1 DEF RemoveExpired, TypeOK, Miss
<1>3. ASSUME NEW k \in Keys, NEW v \in Values, NEW ttl \in TTLs, Set(k, v, ttl)
      PROVE  TypeOK'
  <2>1. PICK d \in AfterEviction :
           /\ DOMAIN data' = DOMAIN d \cup {k}
           /\ data' = [j \in DOMAIN data' |-> data'[j]]
           /\ data'[k] \in Entry
           /\ \A j \in DOMAIN d \ {k} : data'[j] = data[j]
    BY <1>3, SetType
  <2>2. DOMAIN d \subseteq DOMAIN data
    BY AfterEvictionType
  <2>3. DOMAIN data' \subseteq Keys /\ \A j \in DOMAIN data' : data'[j] \in Entry
    BY <2>1, <2>2 DEF TypeOK
  <2>4. IsFiniteSet(DOMAIN data') /\ Len(data') \in Nat
    BY <2>3, KeysAssumption, FS_Subset, FS_CardinalityType DEF Len
  <2>5. QED
    BY <1>3, <2>1, <2>3, <2>4 DEF Set, TypeOK
<1>4. ASSUME NEW k \in Keys, Delete(k)
      PROVE  TypeOK'
  <2>1. /\ data' = [j \in DOMAIN data' |-> data'[j]]
        /\ DOMAIN data' \subseteq Keys
        /\ \A j \in DOMAIN data' : data'[j] \in Entry
    BY <1>4, WithoutType DEF Delete, TypeOK
  <2>2. Len(data') \in Nat
    BY <2>1, KeysAssumption, FS_Subset, FS_CardinalityType DEF Len
  <2>3. QED
    BY <1>4, <2>1, <2>2 DEF Delete, TypeOK
<1>5. CASE Clear
  BY <1>5 DEF Clear, TypeOK
<1>6. CASE Tick
  BY <1>6, TimeAssumption DEF Tick, TypeOK
<1>7. CASE UNCHANGED vars
  BY <1>7 DEF vars, TypeOK
<1>8. QED
  BY <1>1, <1>2, <1>3, <1>4, <1>5, <1>6, <1>7 DEF Next

(* The variables of the cache keep their types under every interleaving.   *)
THEOREM TypeCorrect == Spec => []TypeOK
<1>1. Init => TypeOK
  BY TimeAssumption DEF Init, TypeOK, Miss
<1>2. QED
  BY <1>1, TypeStep, PTL DEF Spec

(* The map never holds more than MaxMemorySize entries, and stats.Size     *)
(* never reports fewer than it holds.                                      *)
THEOREM Bounded == Spec => [](WithinCapacity /\ SizeIsUpperBound)
<1> DEFINE Inv == WithinCapacity /\ SizeIsUpperBound
<1>1. Init => Inv
  BY SizeAssumption, FS_EmptySet DEF Init, WithinCapacity, SizeIsUpperBound, Len
<1>2. TypeOK /\ Inv /\ [Next]_vars => Inv'
  <2> SUFFICES ASSUME TypeOK, Inv, [Next]_vars
               PROVE  Inv'
    OBVIOUS
  <2> USE DEF WithinCapacity, SizeIsUpperBound
  <2>0. Len(data) \in Nat /\ size \in Nat
    BY Sizes DEF TypeOK
  <2>1. ASSUME NEW p \in Procs, NEW k \in Keys, Get(p, k)
        PROVE  Inv'
    BY <2>1 DEF Get, GetAbsent, GetFresh, GetExpired
  <2>2. ASSUME NEW p \in Procs, RemoveExpired(p)
        PROVE  Inv'
    <3>1. DOMAIN data' \subseteq DOMAIN data /\ size' = size
      BY <2>2, WithoutType DEF RemoveExpired
    <3>2. Len(data') \in Nat /\ Len(data') <= Len(data)
      BY <3>1, Sizes DEF Len
    <3>3. QED
      BY <2>0, <3>1, <3>2, SizeAssumption
  <2>3. ASSUME NEW k \in Keys, NEW v \in Values, NEW ttl \in TTLs, Set(k, v, ttl)
        PROVE  Inv'
    <3>1. PICK d \in AfterEviction : DOMAIN data' = DOMAIN d \cup {k}
      BY <2>3, SetType
    <3>2. DOMAIN d \subseteq DOMAIN data
      BY AfterEvictionType
    <3>3. /\ IsFiniteSet(DOMAIN d)
          /\ Cardinality(DOMAIN d) \in Nat
          /\ Cardinality(DOMAIN d) <= Len(data)
      BY <3>2, Sizes
    <3>4. Cardinality(DOMAIN d) < MaxMemorySize
      <4>1. CASE Len(data) >= MaxMemorySize
        <5>1. PICK j \in Victims : d = Without(data, j)
          BY <4>1 DEF AfterEviction
        <5>2. j \in DOMAIN data /\ DOMAIN d = DOMAIN data \ {j}
          BY <5>1, WithoutType DEF Victims
        <5>3. Cardinality(DOMAIN d) = Len(data) - 1
          BY <5>2, Sizes, FS_RemoveElement DEF Len
        <5>4. QED
          BY <2>0, <5>3, SizeAssumption
      <4>2. CASE ~(Len(data) >= MaxMemorySize)
        BY <2>0, <3>3, <4>2, SizeAssumption
      <4>3. QED
        BY <4>1, <4>2
    <3>5. Len(data') \in Nat /\ Len(data') <= Cardinality(DOMAIN d) + 1
      <4>1. CASE k \in DOMAIN d
        <5>1. DOMAIN data' = DOMAIN d
          BY <3>1, <4>1
        <5>2. QED
          BY <3>3, <5>1 DEF Len
      <4>2. CASE k \notin DOMAIN d
        <5>1. Cardinality(DOMAIN d \cup {k}) = Cardinality(DOMAIN d) + 1
          BY <3>3, <4>2, FS_AddElement
        <5>2. QED
          BY <3>1, <3>3, <5>1 DEF Len
      <4>3. QED
        BY <4>1, <4>2
    <3>6. size' = Len(data')
      BY <2>3 DEF Set
    <3>7. QED
      BY <3>3, <3>4, <3>5, <3>6, SizeAssumption
  <2>4. ASSUME NEW k \in Keys, Delete(k)
        PROVE  Inv'
    <3>1. DOMAIN data' \subseteq DOMAIN data /\ size' = Len(data')
      BY <2>4, WithoutType DEF Delete
    <3>2. Len(data') \in Nat /\ Len(data') <= Len(data)
      BY <3>1, Sizes DEF Len
    <3>3. QED
      BY <2>0, <3>1, <3>2, SizeAssumption
  <2>5. CASE Clear
    BY <2>5, SizeAssumption, FS_EmptySet DEF Clear, Len
  <2>6. CASE Tick
    BY <2>6 DEF Tick
  <2>7. CASE UNCHANGED vars
    BY <2>7 DEF vars
  <2>8. QED
    BY <2>1, <2>2, <2>3, <2>4, <2>5, <2>6, <2>7 DEF Next
<1>3. QED
  BY <1>1, <1>2, TypeCorrect, PTL DEF Spec
(* In particular, stats.Size is never less than what the map holds.        *)
THEOREM SizesCovered == Spec => []SizeIsUpperBound
BY Bounded, PTL

(* A Set at capacity takes an expired entry, if there is one: the key      *)
(* evictOldest picks is the first to expire, whatever the map's order.     *)
THEOREM EvictionOrder == Spec => EvictsExpiredFirst
<1> DEFINE A == \A k \in Keys, v \in Values, ttl \in TTLs :
                  Set(k, v, ttl) =>
                    \A gone \in DOMAIN data \ DOMAIN data',
                       kept \in DOMAIN data \cap DOMAIN data' :
                       Expired(data[kept]) => Expired(data[gone])
<1>1. TypeOK => A
  <2> SUFFICES ASSUME TypeOK, NEW k \in Keys, NEW v \in Values, NEW ttl \in TTLs,
                      Set(k, v, ttl),
                      NEW gone \in DOMAIN data \ DOMAIN data',
                      NEW kept \in DOMAIN data \cap DOMAIN data',
                      Expired(data[kept])
               PROVE  Expired(data[gone])
    OBVIOUS
  <2>1. PICK d \in AfterEviction : DOMAIN data' = DOMAIN d \cup {k}
    BY SetType
  <2>2. gone \notin DOMAIN d
    BY <2>1
  <2>3. PICK victim \in Victims : d = Without(data, victim)
    BY <2>2 DEF AfterEviction
  <2>4. gone = victim
    BY <2>2, <2>3, WithoutType
  <2>5. data[gone].expiresAt <= data[kept].expiresAt
    BY <2>4 DEF Victims
  <2>6. /\ data[gone].expiresAt \in Nat /\ data[kept].expiresAt \in Nat
        /\ now \in Nat
    BY TimeAssumption DEF TypeOK, Entry
  <2>7. QED
    BY <2>5, <2>6 DEF Expired
<1>2. TypeOK /\ [Next]_vars => [A]_vars
  BY <1>1
<1>3. QED
  BY <1>2, TypeCorrect, PTL DEF Spec, EvictsExpiredFirst
-----------------------------------------------------------------------------
(* The abstract cache that a map shows: its live entries, with the time    *)
(* they have left.                                                         *)
Shown == [k \in Live |-> [value |-> data[k].value, left |-> data[k].expiresAt - now]]

(* Forgetting some entries of a map forgets some of what it shows.         *)
LEMMA FewerShown ==
  ASSUME now' = now, DOMAIN data' \subseteq DOMAIN data,
         \A j \in DOMAIN data' : data'[j] = data[j]
  PROVE  Shown' \in Abstract!Forgotten(Shown)
<1>1. Live' \subseteq Live /\ \A j \in Live' : data'[j] = data[j]
  BY DEF Live, Expired
<1>2. DOMAIN Shown = Live
  BY DEF Shown
<1>3. Shown' = [j \in Live' |-> Shown[j]]
  BY <1>1 DEF Shown
<1>4. QED
  BY <1>1, <1>2, <1>3 DEF Abstract!Forgotten, Abstract!Restrict

(* Where the map and the clock stay, so does what it shows.                *)
LEMMA SameShown ==
  ASSUME data' = data, now' = now
  PROVE  Shown' = Shown /\ Shown \in Abstract!Forgotten(Shown)
<1>1. Shown' = Shown
  BY DEF Shown, Live, Expired
<1>2. Shown \in Abstract!Forgotten(Shown)
  BY FewerShown, <1>1
<1>3. QED
  BY <1>1, <1>2

(* Set is a Put of the entry under its key.                                *)
LEMMA SetShows ==
  ASSUME TypeOK, NEW k \in Keys, NEW v \in Values, NEW ttl \in TTLs, Set(k, v, ttl)
  PROVE  \E s \in Abstract!Forgotten(Shown) :
            Shown' = Abstract!Stored(s, k, [value |-> v, left |-> ttl])
<1>1. PICK d \in AfterEviction :
        /\ DOMAIN data' = DOMAIN d \cup {k}
        /\ data'[k] = [value |-> v, expiresAt |-> now + ttl]
        /\ \A j \in DOMAIN d \ {k} : data'[j] = data[j]
  BY SetType
<1>2. DOMAIN d \subseteq DOMAIN data
  BY AfterEvictionType
<1>3. now' = now /\ now \in Nat /\ ttl \in Nat
  BY TTLsAssumption, TimeAssumption DEF Set, TypeOK
<1> DEFINE S == Live \cap (DOMAIN d \ {k})
           s == [j \in S |-> Shown[j]]
<1>4. Live' = S \cup {k}
  BY <1>1, <1>2, <1>3 DEF Live, Expired
<1>5. s \in Abstract!Forgotten(Shown)
  BY DEF Shown, Abstract!Forgotten, Abstract!Restrict
<1>6. \A j \in S : [value |-> data'[j].value, left |-> data'[j].expiresAt - now'] = s[j]
  BY <1>1, <1>3 DEF Shown
<1>7. [value |-> data'[k].value, left |-> data'[k].expiresAt - now']
        = [value |-> v, left |-> ttl]
  BY <1>1, <1>3
<1>8. k \notin S
  OBVIOUS
<1>9. Shown' = [j \in S \cup {k} |-> IF j = k THEN [value |-> v, left |-> ttl] ELSE s[j]]
  <2> HIDE DEF S, s
  <2>1. Shown' = [j \in S \cup {k} |-> [value |-> data'[j].value,
                                       left |-> data'[j].expiresAt - now']]
    BY <1>4 DEF Shown
  <2>2. QED
    BY <1>6, <1>7, <1>8, <2>1
<1>10. DOMAIN s = S
  OBVIOUS
<1>11. QED
  <2> HIDE DEF S, s
  <2>1. Shown' = Abstract!Stored(s, k, [value |-> v, left |-> ttl])
    BY <1>9, <1>10 DEF Abstract!Stored
  <2>2. QED
    BY <1>5, <2>1

(* A tick of the clock ages what the map shows.                            *)
LEMMA TickShows ==
  ASSUME TypeOK, Tick
  PROVE  Shown' = Abstract!Aged(Shown)
<1>1. data' = data /\ now' = now + 1 /\ now \in Nat
  BY TimeAssumption DEF Tick, TypeOK
<1>2. \A k \in DOMAIN data : data[k].expiresAt \in Nat
  BY DEF TypeOK, Entry
<1>3. Live' = {k \in Live : data[k].expiresAt - now > 0}
  BY <1>1, <1>2 DEF Live, Expired
<1>4. DOMAIN Shown = Live /\ \A k \in Live :
        Shown[k] = [value |-> data[k].value, left |-> data[k].expiresAt - now]
  BY DEF Shown
<1>5. Live' = {k \in DOMAIN Shown : Shown[k].left > 0}
  BY <1>3, <1>4
<1>6. ASSUME NEW k \in Live'
      PROVE  [value |-> data'[k].value, left |-> data'[k].expiresAt - now']
               = [Shown[k] EXCEPT !.left = @ - 1]
  <2>1. k \in Live /\ data[k].expiresAt \in Nat
    BY <1>2, <1>3 DEF Live
  <2>2. data[k].expiresAt - (now + 1) = (data[k].expiresAt - now) - 1
    BY <1>1, <2>1
  <2>3. [Shown[k] EXCEPT !.left = @ - 1]
          = [value |-> data[k].value, left |-> (data[k].expiresAt - now) - 1]
    BY <1>4, <2>1
  <2>4. QED
    BY <1>1, <2>2, <2>3
<1>7. Shown' = [k \in Live' |-> [value |-> data'[k].value,
                                left |-> data'[k].expiresAt - now']]
  BY DEF Shown
<1>8. QED
  BY <1>5, <1>6, <1>7 DEF Abstract!Aged

(* memoryCache keeps the promise of the Cache interface, with any number   *)
(* of goroutines and although an expired Get releases the lock half way.   *)
THEOREM Implements == Spec => KeepsThePromise
<1>1. Init => Abstract!Init
  <2> SUFFICES ASSUME Init PROVE Abstract!Init
    OBVIOUS
  <2>1. Live = {}
    BY DEF Init, Live
  <2>2. QED
    BY <2>1 DEF Init, Abstract!Init, Abstract!Empty, Abstract!Miss, Miss
<1>2. TypeOK /\ [Next]_vars => [Abstract!Next]_(Abstract!vars)
  <2> SUFFICES ASSUME TypeOK, [Next]_vars
               PROVE  Abstract!Next \/ (Shown' = Shown /\ answer' = answer)
    BY DEF Abstract!vars, Shown
  <2>1. ASSUME NEW p \in Procs, NEW k \in Keys, GetAbsent(p, k)
        PROVE  Abstract!Lookup(p, k)
    BY <2>1, SameShown DEF GetAbsent, Abstract!Lookup, Abstract!Miss, Miss, Shown
  <2>2. ASSUME NEW p \in Procs, NEW k \in Keys, GetFresh(p, k)
        PROVE  Abstract!Lookup(p, k)
    <3>1. k \in Live /\ Shown' \in Abstract!Forgotten(Shown)
      BY <2>2, SameShown DEF GetFresh, Live
    <3>2. DOMAIN Shown = Live /\ Shown[k].value = data[k].value
      BY <3>1 DEF Shown
    <3>3. answer' = [answer EXCEPT ![p] = {Shown[k].value}]
      BY <2>2, <3>2 DEF GetFresh
    <3>4. QED
      BY <3>1, <3>2, <3>3 DEF Abstract!Lookup, Shown
  <2>3. ASSUME NEW p \in Procs, NEW k \in Keys, GetExpired(p, k)
        PROVE  Shown' = Shown /\ answer' = answer
    BY <2>3, SameShown DEF GetExpired
  <2>4. ASSUME NEW p \in Procs, NEW k \in Keys, RemoveExpired(p)
        PROVE  Abstract!Lookup(p, k)
    <3>1. Shown' \in Abstract!Forgotten(Shown)
      BY <2>4, WithoutType, FewerShown DEF RemoveExpired
    <3>2. QED
      BY <2>4, <3>1 DEF RemoveExpired, Abstract!Lookup, Abstract!Miss, Miss, Shown
  <2>5. ASSUME NEW k \in Keys, NEW v \in Values, NEW ttl \in TTLs, Set(k, v, ttl)
        PROVE  Abstract!Put(k, v, ttl)
    BY <2>5, SetShows DEF Set, Abstract!Put, Shown
  <2>6. ASSUME NEW k \in Keys, Delete(k)
        PROVE  Abstract!Forget
    BY <2>6, WithoutType, FewerShown DEF Delete, Abstract!Forget, Shown
  <2>7. CASE Clear
    BY <2>7, FewerShown DEF Clear, Abstract!Forget, Abstract!Next, Shown
  <2>8. CASE Tick
    BY <2>8, TickShows DEF Tick, Abstract!Tick, Abstract!Next, Shown
  <2>9. CASE UNCHANGED vars
    BY <2>9, SameShown DEF vars
  <2>10. ASSUME NEW p \in Procs, NEW k \in Keys, Get(p, k)
         PROVE  Abstract!Next \/ (Shown' = Shown /\ answer' = answer)
    BY <2>1, <2>2, <2>3, <2>10 DEF Get, Abstract!Next
  <2>11. ASSUME NEW p \in Procs, RemoveExpired(p)
         PROVE  Abstract!Next
    <3>1. PICK k \in Keys : k = want[p]
      BY DEF TypeOK
    <3>2. QED
      BY <2>4, <2>11 DEF Abstract!Next
  <2>12. ASSUME NEW k \in Keys, NEW v \in Values, NEW ttl \in TTLs, Set(k, v, ttl)
         PROVE  Abstract!Next
    BY <2>5, <2>12 DEF Abstract!Next
  <2>13. ASSUME NEW k \in Keys, Delete(k)
         PROVE  Abstract!Next
    BY <2>6, <2>13 DEF Abstract!Next
  <2>14. QED
    BY <2>7, <2>8, <2>9, <2>10, <2>11, <2>12, <2>13 DEF Next
<1>3. QED
  BY <1>1, <1>2, TypeCorrect, PTL DEF Spec, Abstract!Spec, KeepsThePromise
=============================================================================
