-------------------------- MODULE LossyCacheProofs --------------------------
(***************************************************************************)
(* The caches that keep the promise of LossyCache, which is all that       *)
(* Authorize relies on, for any keys, values, times to live and readers:   *)
(* RedisCache, for any Lag of its commands, and DecisionCache, and with it *)
(* the in-memory cache.                                                    *)
(***************************************************************************)
EXTENDS RedisCache, TLAPS

CopyPromise(k, e) == [key |-> k, value |-> e.value, left |-> e.left + e.late]

CommandPromise(c) == [key |-> c.key, value |-> c.value, left |-> c.ttl + c.lag]
-----------------------------------------------------------------------------
(* What happens to what Redis holds keeps its type ...                     *)
LEMMA CopiesKept ==
  ASSUME NEW f, Copies(f)
  PROVE  /\ \A k \in Keys : Copies(Without(f, k))
         /\ \A k \in Keys, e \in Copy : Copies(Written(f, k, e))
         /\ Copies(Aged(f))
<1>1. ASSUME NEW k \in Keys
      PROVE  Copies(Without(f, k))
  BY DEF Copies, Without, Restrict
<1>2. ASSUME NEW k \in Keys, NEW e \in Copy
      PROVE  Copies(Written(f, k, e))
  BY DEF Copies, Written
<1>3. Copies(Aged(f))
  <2>1. ASSUME NEW k \in DOMAIN f, f[k].left > 0
        PROVE  [f[k] EXCEPT !.left = @ - 1] \in Copy
    BY <2>1 DEF Copies, Copy
  <2>2. QED
    BY <2>1 DEF Copies, Aged
<1>4. QED
  BY <1>1, <1>2, <1>3

(* ... and makes no promise but that of an entry that is written; with     *)
(* time, all its promises age.                                             *)
LEMMA HeldKept ==
  ASSUME NEW f, Copies(f)
  PROVE  /\ \A k \in Keys : Held(Without(f, k)) \subseteq Held(f)
         /\ \A k \in Keys, e \in Copy :
               Held(Written(f, k, e)) \subseteq Held(f) \cup {CopyPromise(k, e)}
         /\ Held(Aged(f)) \subseteq Lossy!Aged(Held(f))
<1>1. \A g : Held(g) = {CopyPromise(k, g[k]) : k \in DOMAIN g}
  BY DEF Held, CopyPromise
<1>2. ASSUME NEW k \in Keys
      PROVE  Held(Without(f, k)) \subseteq Held(f)
  <2>1. /\ DOMAIN Without(f, k) \subseteq DOMAIN f
        /\ \A j \in DOMAIN Without(f, k) : Without(f, k)[j] = f[j]
    BY DEF Without, Restrict
  <2>2. QED
    BY <1>1, <2>1
<1>3. ASSUME NEW k \in Keys, NEW e \in Copy
      PROVE  Held(Written(f, k, e)) \subseteq Held(f) \cup {CopyPromise(k, e)}
  <2>1. /\ DOMAIN Written(f, k, e) = DOMAIN f \cup {k}
        /\ \A j \in DOMAIN f \cup {k} :
              Written(f, k, e)[j] = IF j = k THEN e ELSE f[j]
    BY DEF Written
  <2>2. QED
    BY <1>1, <2>1
<1>4. Held(Aged(f)) \subseteq Lossy!Aged(Held(f))
  <2> SUFFICES ASSUME NEW x \in Held(Aged(f))
               PROVE  x \in Lossy!Aged(Held(f))
    OBVIOUS
  <2>1. PICK k \in DOMAIN Aged(f) : x = CopyPromise(k, Aged(f)[k])
    BY <1>1
  <2>2. /\ k \in DOMAIN f /\ f[k].left > 0
        /\ Aged(f)[k] = [f[k] EXCEPT !.left = @ - 1]
    BY DEF Aged
  <2>3. PICK v \in Values, n \in Nat, l \in 0 .. Lag :
          f[k] = [value |-> v, left |-> n, late |-> l]
    BY <2>2 DEF Copies, Copy
  <2>4. Aged(f)[k] = [value |-> v, left |-> n - 1, late |-> l]
    BY <2>2, <2>3
  <2> DEFINE d == CopyPromise(k, f[k])
  <2>5. d = [key |-> k, value |-> v, left |-> n + l]
    BY <2>3 DEF CopyPromise
  <2>6. x = [key |-> k, value |-> v, left |-> (n + l) - 1]
    BY <2>1, <2>4 DEF CopyPromise
  <2>7. n + l > 0
    BY <2>2, <2>3
  <2>8. d \in Held(f)
    BY <1>1, <2>2
  <2> HIDE DEF d
  <2>9. x = [d EXCEPT !.left = @ - 1] /\ d.left > 0
    BY <2>5, <2>6, <2>7
  <2>10. QED
    BY <2>8, <2>9 DEF Lossy!Aged
<1>5. QED
  BY <1>2, <1>3, <1>4

(* A command on its way is an entry once it is executed.                   *)
LEMMA CommandType ==
  ASSUME TypeOK, NEW c \in wire
  PROVE  /\ c.key \in Keys
         /\ [value |-> c.value, left |-> c.ttl, late |-> c.lag] \in Copy
         /\ CopyPromise(c.key, [value |-> c.value, left |-> c.ttl, late |-> c.lag])
              = CommandPromise(c)
BY TTLsAssumption DEF TypeOK, Command, Copy, CopyPromise, CommandPromise

(* The commands on their way promise their values, too.                    *)
LEMMA SentPromises ==
  Sent = {CommandPromise(c) : c \in wire}
BY DEF Sent, CommandPromise

(* The variables of the cache, and of Redis, keep their types.             *)
LEMMA TypeStep == TypeOK /\ [Next]_vars => TypeOK'
<1> SUFFICES ASSUME TypeOK, [Next]_vars PROVE TypeOK'
  OBVIOUS
<1>1. ASSUME NEW p \in Readers, NEW k \in Keys, Get(p, k)
      PROVE  TypeOK'
  <2>1. k \in DOMAIN primary => primary[k].value \in Values
    BY DEF TypeOK, Copies, Copy
  <2>2. QED
    BY <1>1, <2>1 DEF Get, GetHit, GetNothing, GetFails, data, TypeOK, Copies, Miss
<1>2. ASSUME NEW k \in Keys, NEW v \in Values, NEW ttl \in TTLs, Set(k, v, ttl)
      PROVE  TypeOK'
  BY <1>2, LagAssumption DEF Set, TypeOK, Copies, Command
<1>3. ASSUME NEW k \in Keys, Delete(k) \/ Replicate(k)
      PROVE  TypeOK'
  <2>1. CASE Delete(k)
    BY <2>1, CopiesKept DEF Delete, TypeOK
  <2>2. CASE Replicate(k)
    <3>1. k \in DOMAIN primary => primary[k] \in Copy
      BY DEF TypeOK, Copies
    <3>2. QED
      BY <2>2, <3>1, CopiesKept DEF Replicate, TypeOK
  <2>3. QED
    BY <1>3, <2>1, <2>2
<1>4. ASSUME NEW c \in wire, Execute(c)
      PROVE  TypeOK'
  BY <1>4, CopiesKept, CommandType DEF Execute, TypeOK
<1>5. ASSUME NEW c \in wire, GiveUp(c)
      PROVE  TypeOK'
  BY <1>5 DEF GiveUp, TypeOK
<1>6. Copies(Empty)
  BY DEF Copies, Empty
<1>7. CASE Clear \/ Failover
  BY <1>6, <1>7 DEF Clear, Failover, TypeOK
<1>8. CASE Tick
  <2>1. ASSUME NEW c \in wire, c.lag > 0
        PROVE  [c EXCEPT !.lag = @ - 1] \in Command
    BY <2>1, LagAssumption DEF TypeOK, Command
  <2>2. wire' \subseteq Command
    BY <1>8, <2>1 DEF Tick
  <2>3. QED
    BY <1>8, <2>2, CopiesKept DEF Tick, TypeOK
<1>9. CASE UNCHANGED vars
  BY <1>9 DEF vars, data, TypeOK, Copies
<1>10. QED
  BY <1>1, <1>2, <1>3, <1>4, <1>5, <1>7, <1>8, <1>9 DEF Next

(* Whatever is sent, lost, repeated or failed over, Redis holds entries of *)
(* the cache's keys and values, and the commands on their way are SETs.    *)
THEOREM RedisTypes == Spec => []TypeOK
<1>1. Init => TypeOK
  BY DEF Init, TypeOK, Copies, Empty, Miss
<1>2. QED
  BY <1>1, TypeStep, PTL DEF Spec

(* Where nothing new is promised, promises are forgotten at most.          *)
LEMMA Forgets ==
  ASSUME Held(primary') \subseteq Promises, Held(replica') \subseteq Promises,
         Sent' \subseteq Promises
  PROVE  Promises' \in SUBSET Promises
<1>1. Promises' = Held(primary') \cup Held(replica') \cup Sent'
  BY DEF Promises, Held
<1>2. QED
  BY <1>1

(* What a Set sends is promised for its time to live and the whole Lag.    *)
LEMMA SetPromises ==
  ASSUME TypeOK, NEW k \in Keys, NEW v \in Values, NEW ttl \in TTLs, Set(k, v, ttl)
  PROVE  Lossy!Put(k, v, ttl + Lag)
<1> DEFINE new == [key |-> k, value |-> v, ttl |-> ttl, lag |-> Lag]
<1>1. wire' = wire \cup {new} /\ primary' = primary /\ replica' = replica
      /\ answer' = answer
  BY DEF Set
<1>2. CommandPromise(new) = [key |-> k, value |-> v, left |-> ttl + Lag]
  BY DEF CommandPromise
<1> HIDE DEF new
<1>3. Sent' = {CommandPromise(c) : c \in wire'}
  BY DEF Sent, CommandPromise
<1>4. Sent' = Sent \cup {CommandPromise(new)}
  BY <1>1, <1>3, SentPromises
<1>5. Promises' = Promises \cup {CommandPromise(new)}
  <2>1. Promises' = Held(primary') \cup Held(replica') \cup Sent'
    BY DEF Promises, Held
  <2>2. QED
    BY <1>1, <1>4, <2>1 DEF Promises
<1>6. QED
  BY <1>1, <1>2, <1>5 DEF Lossy!Put

(* With time every promise ages, those of late commands, too.              *)
LEMMA TickPromises ==
  ASSUME TypeOK, Tick
  PROVE  Lossy!Tick
<1>1. \A s, t : s \subseteq t => Lossy!Aged(s) \subseteq Lossy!Aged(t)
  BY DEF Lossy!Aged
<1>2. Held(primary') \subseteq Lossy!Aged(Promises)
  <2>1. Held(primary') \subseteq Lossy!Aged(Held(primary))
    BY HeldKept DEF Tick, TypeOK
  <2>2. Held(primary) \subseteq Promises
    BY DEF Promises
  <2>3. QED
    BY <1>1, <2>1, <2>2
<1>3. Held(replica') \subseteq Lossy!Aged(Promises)
  <2>1. Held(replica') \subseteq Lossy!Aged(Held(replica))
    BY HeldKept DEF Tick, TypeOK
  <2>2. Held(replica) \subseteq Promises
    BY DEF Promises
  <2>3. QED
    BY <1>1, <2>1, <2>2
<1>4. ASSUME NEW x \in Sent'
      PROVE  x \in Lossy!Aged(Promises)
  <2>1. PICK c \in wire' : x = CommandPromise(c)
    BY DEF Sent, CommandPromise
  <2>2. PICK b \in wire : b.lag > 0 /\ c = [b EXCEPT !.lag = @ - 1]
    BY <2>1 DEF Tick
  <2>3. PICK k \in Keys, v \in Values, ttl \in TTLs, lag \in 0 .. Lag :
          b = [key |-> k, value |-> v, ttl |-> ttl, lag |-> lag]
    BY DEF TypeOK, Command
  <2>4. c = [key |-> k, value |-> v, ttl |-> ttl, lag |-> lag - 1] /\ lag > 0
    BY <2>2, <2>3
  <2>5. ttl \in Nat
    BY TTLsAssumption
  <2> DEFINE d == CommandPromise(b)
  <2>6. d = [key |-> k, value |-> v, left |-> ttl + lag]
    BY <2>3 DEF CommandPromise
  <2>7. x = [key |-> k, value |-> v, left |-> (ttl + lag) - 1]
    BY <2>1, <2>4, <2>5 DEF CommandPromise
  <2>8. d \in Promises
    BY SentPromises DEF Promises
  <2> HIDE DEF d
  <2>9. d.left > 0 /\ x = [d EXCEPT !.left = @ - 1]
    BY <2>4, <2>5, <2>6, <2>7
  <2>10. QED
    BY <2>8, <2>9 DEF Lossy!Aged
<1>5. Promises' = Held(primary') \cup Held(replica') \cup Sent'
  BY DEF Promises, Held
<1>6. QED
  BY <1>2, <1>3, <1>4, <1>5 DEF Lossy!Tick, Tick

(* A Get answers with a promise of the primary, or with nothing.           *)
LEMMA GetKeeps ==
  ASSUME TypeOK, NEW p \in Readers, NEW k \in Keys, Get(p, k)
  PROVE  Lossy!Lookup(p, k)
<1>1. Promises' = Promises
  BY DEF Get, GetHit, GetNothing, GetFails, data, Promises, Held, Sent
<1>2. CASE answer' = [answer EXCEPT ![p] = Miss]
  BY <1>1, <1>2 DEF Lossy!Lookup, Lossy!Miss, Miss
<1>3. CASE GetHit(p, k)
  <2> DEFINE e == CopyPromise(k, primary[k])
  <2>1. e \in Held(primary)
    BY <1>3 DEF GetHit, Held, CopyPromise
  <2>2. e \in Promises /\ e.key = k /\ e.value = primary[k].value
    BY <2>1 DEF Promises, CopyPromise
  <2>3. answer' = [answer EXCEPT ![p] = {primary[k].value}]
    BY <1>3 DEF GetHit
  <2>4. \E x \in Promises : x.key = k /\ answer' = [answer EXCEPT ![p] = {x.value}]
    BY <2>2, <2>3
  <2>5. QED
    BY <1>1, <2>4 DEF Lossy!Lookup
<1>4. QED
  BY <1>2, <1>3 DEF Get, GetNothing, GetFails

(* A cache over a Redis that loses, repeats and reorders commands and      *)
(* fails over to a replica that lags, keeps the promise that Authorize     *)
(* relies on.                                                              *)
THEOREM RedisKeepsItsPromise == Spec => KeepsItsPromise
<1>1. Init => Lossy!Init
  BY DEF Init, Empty, Promises, Held, Sent, Lossy!Init, Lossy!Miss, Miss
<1>2. TypeOK /\ [Next]_vars => [Lossy!Next]_(Lossy!vars)
  <2> SUFFICES ASSUME TypeOK, [Next]_vars
               PROVE  [Lossy!Next]_(Lossy!vars)
    OBVIOUS
  <2>1. ASSUME NEW p \in Readers, NEW k \in Keys, Get(p, k)
        PROVE  Lossy!Next
    BY <2>1, GetKeeps DEF Lossy!Next
  <2>2. ASSUME NEW k \in Keys, NEW v \in Values, NEW ttl \in TTLs, Set(k, v, ttl)
        PROVE  Lossy!Next
    BY <2>2, SetPromises DEF Lossy!Next
  <2>3. CASE Tick
    BY <2>3, TickPromises DEF Lossy!Next
  <2>4. ASSUME Held(primary') \subseteq Promises, Held(replica') \subseteq Promises,
               Sent' \subseteq Promises, answer' = answer
        PROVE  Lossy!Next
    BY <2>4, Forgets DEF Lossy!Next, Lossy!Forget
  <2>5. /\ Held(primary) \subseteq Promises /\ Held(replica) \subseteq Promises
        /\ Sent \subseteq Promises
        /\ wire' \subseteq wire => Sent' \subseteq Promises
    BY DEF Promises, Sent
  <2>6. ASSUME NEW k \in Keys, Delete(k)
        PROVE  Lossy!Next
    <3>1. Held(primary') \subseteq Held(primary)
      BY <2>6, HeldKept DEF Delete, TypeOK
    <3>2. QED
      BY <2>4, <2>5, <2>6, <3>1 DEF Delete
  <2>7. ASSUME NEW k \in Keys, Replicate(k)
        PROVE  Lossy!Next
    <3>1. CASE k \in DOMAIN primary
      <4>1. /\ primary[k] \in Copy
            /\ CopyPromise(k, primary[k]) \in Held(primary)
        BY <3>1 DEF TypeOK, Copies, Held, CopyPromise
      <4>2. Held(replica') \subseteq Held(replica) \cup Held(primary)
        BY <2>7, <3>1, <4>1, HeldKept DEF Replicate, TypeOK
      <4>3. QED
        BY <2>4, <2>5, <2>7, <4>2 DEF Replicate
    <3>2. CASE k \notin DOMAIN primary
      <4>1. Held(replica') \subseteq Held(replica)
        BY <2>7, <3>2, HeldKept DEF Replicate, TypeOK
      <4>2. QED
        BY <2>4, <2>5, <2>7, <4>1 DEF Replicate
    <3>3. QED
      BY <3>1, <3>2
  <2>8. ASSUME NEW c \in wire, Execute(c)
        PROVE  Lossy!Next
    <3>1. CommandPromise(c) \in Promises
      BY SentPromises DEF Promises
    <3>2. Held(primary') \subseteq Held(primary) \cup {CommandPromise(c)}
      BY <2>8, HeldKept, CommandType DEF Execute, TypeOK
    <3>3. wire' \subseteq wire
      BY <2>8 DEF Execute
    <3>4. QED
      BY <2>4, <2>5, <2>8, <3>1, <3>2, <3>3 DEF Execute
  <2>9. ASSUME NEW c \in wire, GiveUp(c)
        PROVE  Lossy!Next
    <3>1. wire' \subseteq wire
      BY <2>9 DEF GiveUp
    <3>2. QED
      BY <2>4, <2>5, <2>9, <3>1 DEF GiveUp
  <2>10. Held(Empty) = {}
    BY DEF Held, Empty
  <2>11. CASE Clear \/ Failover
    BY <2>4, <2>5, <2>10, <2>11 DEF Clear, Failover
  <2>12. CASE UNCHANGED vars
    BY <2>12 DEF vars, data, Lossy!vars, Promises, Held, Sent
  <2>13. QED
    BY <2>1, <2>2, <2>3, <2>6, <2>7, <2>8, <2>9, <2>11, <2>12 DEF Next
<1>3. QED
  BY <1>1, <1>2, RedisTypes, PTL DEF Spec, Lossy!Spec, KeepsItsPromise
-----------------------------------------------------------------------------
(* The in-memory cache implements DecisionCache (MemoryCacheProofs): one   *)
(* value per key, the last one.  What remains is that DecisionCache keeps  *)
(* the weaker promise.                                                     *)
VARIABLE store

Decision == INSTANCE DecisionCache

PromiseOf(k, e) == [key |-> k, value |-> e.value, left |-> e.left]

Entitled == {PromiseOf(k, store[k]) : k \in DOMAIN store}

Weaker == INSTANCE LossyCache WITH store <- Entitled

(* Every entry is a value and the time it has left.                        *)
Shaped ==
    \A k \in DOMAIN store :
       store[k] = [value |-> store[k].value, left |-> store[k].left]

(* Forgetting entries forgets their promises, and no other.                *)
LEMMA Forgetting ==
  ASSUME Shaped, NEW s \in Decision!Forgotten(store)
  PROVE  /\ DOMAIN s \subseteq DOMAIN store
         /\ \A k \in DOMAIN s : s[k] = store[k]
BY DEF Decision!Forgotten, Decision!Restrict

(* A store that holds fewer entries makes fewer promises.                  *)
LEMMA FewerPromises ==
  ASSUME Shaped, store' \in Decision!Forgotten(store)
  PROVE  Shaped' /\ Entitled' \in SUBSET Entitled
BY Forgetting DEF Shaped, Entitled

(* Storing an entry promises it, whatever is forgotten on the occasion.    *)
LEMMA PutStep ==
  ASSUME Shaped, NEW k \in Keys, NEW v \in Values, NEW ttl \in TTLs, Decision!Put(k, v, ttl)
  PROVE  Shaped' /\ Weaker!Put(k, v, ttl)
<1> DEFINE e == [value |-> v, left |-> ttl]
<1>1. PICK s \in Decision!Forgotten(store) : store' = Decision!Stored(s, k, e)
  BY DEF Decision!Put
<1>2. /\ DOMAIN store' = DOMAIN s \cup {k}
      /\ store'[k] = e
      /\ \A j \in DOMAIN s \ {k} : store'[j] = store[j]
      /\ DOMAIN s \subseteq DOMAIN store
  BY <1>1, Forgetting DEF Decision!Stored
<1>3. Shaped'
  BY <1>2 DEF Shaped
<1>4. PromiseOf(k, e) = [key |-> k, value |-> v, left |-> ttl]
  BY DEF PromiseOf
<1>5. PromiseOf(k, e) \in Entitled'
  BY <1>2 DEF Entitled
<1>6. ASSUME NEW x \in Entitled'
      PROVE  x \in Entitled \cup {PromiseOf(k, e)}
  <2>1. PICK j \in DOMAIN store' : x = PromiseOf(j, store'[j])
    BY DEF Entitled
  <2>2. CASE j = k
    BY <2>1, <2>2, <1>2
  <2>3. CASE j # k
    BY <2>1, <2>3, <1>2 DEF Entitled
  <2>4. QED
    BY <2>2, <2>3
<1>7. UNCHANGED answer
  BY DEF Decision!Put
<1>8. QED
  BY <1>3, <1>4, <1>5, <1>6, <1>7 DEF Weaker!Put

(* As time passes, the promises age with the entries.                      *)
LEMMA TickStep ==
  ASSUME Shaped, Decision!Tick
  PROVE  Shaped' /\ Weaker!Tick
<1> DEFINE Alive == {k \in DOMAIN store : store[k].left > 0}
<1>1. /\ DOMAIN store' = Alive
      /\ \A k \in Alive :
            store'[k] = [value |-> store[k].value, left |-> store[k].left - 1]
  BY DEF Decision!Tick, Decision!Aged, Shaped
<1>2. Shaped'
  <2>1. SUFFICES ASSUME NEW k \in DOMAIN store'
                 PROVE  store'[k] = [value |-> store'[k].value,
                                     left |-> store'[k].left]
    BY DEF Shaped
  <2> DEFINE v == store[k].value
             n == store[k].left - 1
  <2>2. store'[k] = [value |-> v, left |-> n]
    BY <1>1
  <2> HIDE DEF v, n
  <2>3. QED
    BY <2>2
<1>3. ASSUME NEW x \in Entitled'
      PROVE  x \in Weaker!Aged(Entitled)
  <2>1. PICK k \in Alive : x = PromiseOf(k, store'[k])
    BY <1>1 DEF Entitled
  <2> DEFINE d == PromiseOf(k, store[k])
  <2>2. d \in Entitled /\ d.left > 0
    BY DEF Entitled, PromiseOf
  <2>3. x = [d EXCEPT !.left = @ - 1]
    <3> DEFINE v == store[k].value
               n == store[k].left
    <3>1. d = [key |-> k, value |-> v, left |-> n]
      BY DEF PromiseOf
    <3>2. store'[k] = [value |-> v, left |-> n - 1]
      BY <1>1
    <3> HIDE DEF v, n, d
    <3>3. x = [key |-> k, value |-> v, left |-> n - 1]
      BY <2>1, <3>2 DEF PromiseOf
    <3>4. QED
      BY <3>1, <3>3
  <2>4. QED
    BY <2>2, <2>3 DEF Weaker!Aged
<1>4. UNCHANGED answer
  BY DEF Decision!Tick
<1>5. QED
  BY <1>2, <1>3, <1>4 DEF Weaker!Tick

(* A lookup is a lookup, in what it answers and in what it may forget.     *)
LEMMA LookupStep ==
  ASSUME Shaped, NEW p \in Readers, NEW k \in Keys, Decision!Lookup(p, k)
  PROVE  Shaped' /\ Weaker!Lookup(p, k)
<1>1. Shaped' /\ Entitled' \in SUBSET Entitled
  BY FewerPromises DEF Decision!Lookup
<1>2. CASE answer' = [answer EXCEPT ![p] = Decision!Miss]
  BY <1>1, <1>2 DEF Weaker!Lookup, Weaker!Miss, Decision!Miss
<1>3. CASE /\ k \in DOMAIN store
           /\ answer' = [answer EXCEPT ![p] = {store[k].value}]
  <2> DEFINE e == PromiseOf(k, store[k])
  <2>1. e \in Entitled /\ e.key = k /\ e.value = store[k].value
    BY <1>3 DEF Entitled, PromiseOf
  <2>2. \E x \in Entitled : x.key = k /\ answer' = [answer EXCEPT ![p] = {x.value}]
    BY <1>3, <2>1
  <2>3. QED
    BY <1>1, <2>2 DEF Weaker!Lookup
<1>4. QED
  BY <1>2, <1>3 DEF Decision!Lookup

(* Every step is a step of LossyCache, or changes nothing in it.           *)
LEMMA DecisionStep ==
  Shaped /\ [Decision!Next]_(Decision!vars) => Shaped' /\ [Weaker!Next]_(Weaker!vars)
<1> SUFFICES ASSUME Shaped, [Decision!Next]_(Decision!vars)
             PROVE  Shaped' /\ [Weaker!Next]_(Weaker!vars)
  OBVIOUS
<1>1. ASSUME NEW k \in Keys, NEW v \in Values, NEW ttl \in TTLs, Decision!Put(k, v, ttl)
      PROVE  Shaped' /\ Weaker!Next
  BY <1>1, PutStep DEF Weaker!Next
<1>2. ASSUME NEW p \in Readers, NEW k \in Keys, Decision!Lookup(p, k)
      PROVE  Shaped' /\ Weaker!Next
  BY <1>2, LookupStep DEF Weaker!Next
<1>3. CASE Decision!Forget
  BY <1>3, FewerPromises DEF Decision!Forget, Weaker!Next, Weaker!Forget
<1>4. CASE Decision!Tick
  BY <1>4, TickStep DEF Weaker!Next
<1>5. CASE UNCHANGED Decision!vars
  BY <1>5 DEF Decision!vars, Shaped, Entitled, Weaker!vars
<1>6. QED
  BY <1>1, <1>2, <1>3, <1>4, <1>5 DEF Decision!Next

(* Whatever cache implements DecisionCache may stand for LossyCache under  *)
(* Authorize: the in-memory cache of the tests does, for any keys, values  *)
(* and times to live.                                                      *)
THEOREM ImplementsLossyCache == Decision!Spec => Weaker!Spec
<1>1. Decision!Init => Shaped /\ Weaker!Init
  BY DEF Decision!Init, Decision!Empty, Shaped, Entitled, Weaker!Init, Weaker!Miss, Decision!Miss
<1>2. QED
  BY <1>1, DecisionStep, PTL DEF Decision!Spec, Weaker!Spec
=============================================================================
