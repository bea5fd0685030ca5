------------------------ MODULE AuthStalenessProofs ------------------------
(***************************************************************************)
(* Theorems about AuthStaleness, for any goroutines, requests, times to    *)
(* live and latency: how old a cached decision can be.                     *)
(*                                                                         *)
(* SInv is the inductive invariant.  What makes StoredIsRecent inductive   *)
(* is Held: the answer a goroutine is about to cache is no older than the  *)
(* goroutine has been waiting.                                             *)
(***************************************************************************)
EXTENDS AuthStaleness, AuthServiceProofs

AnswerHeld(p) == Answer(req[p], resp[p].action, resp[p].allowed)

Held(p) == pc[p] = "caching" => age[AnswerHeld(p)] <= waiting[p]

(* A goroutine that is about to ask the cache has no answer of it yet.     *)
Clean(p) == pc[p] = "lookup" => cached[p] = Cache!Miss

SInv ==
    /\ StaleTypeOK
    /\ \A p \in Procs : Held(p) /\ Clean(p)
    /\ StoredIsRecent

(* The bounds of the clock are numbers.                                    *)
LEMMA StalenessType ==
  ASSUME NEW allowed \in BOOLEAN
  PROVE  Staleness(allowed) \in Nat /\ MaxAge \in Nat
BY LatencyAssumption, CacheAssumption DEF Staleness, MaxAge, Max2

(* As answers get older by at most d, so does what is known of them.       *)
LEMMA StillGiven ==
  ASSUME NEW k, NEW v, NEW t \in Int, NEW d \in Nat,
         age \in [answered -> 0 .. MaxAge], MaxAge \in Nat,
         GivenWithin(k, v, t),
         answered \subseteq answered',
         \A a \in answered : age'[a] \in Nat /\ age'[a] <= age[a] + d
  PROVE  GivenWithin(k, v, t + d)'
<1>1. PICK r \in Requests :
        /\ KeyOf(r) = k
        /\ Answer(r, v.action, v.allowed) \in answered
        /\ age[Answer(r, v.action, v.allowed)] <= t
  BY DEF GivenWithin
<1> DEFINE a == Answer(r, v.action, v.allowed)
<1>2. a \in answered' /\ age'[a] <= t + d
  <2>1. age[a] \in Nat /\ age[a] <= t /\ age'[a] \in Nat /\ age'[a] <= age[a] + d
    BY <1>1
  <2>2. QED
    BY <1>1, <2>1
<1>3. QED
  BY <1>1, <1>2 DEF GivenWithin, KeyOf, Principal, ServiceOf, ServiceOfHost, Answer,
                    EffectiveScope

(* The cached promises, forgotten or not, stay recent.                     *)
LEMMA StoreStaysRecent ==
  ASSUME StaleTypeOK, StoredIsRecent, store' \subseteq store,
         answered \subseteq answered',
         \A a \in answered : age'[a] \in Nat /\ age'[a] <= age[a]
  PROVE  StoredIsRecent'
<1> SUFFICES ASSUME NEW e \in store'
             PROVE  GivenWithin(e.key, e.value, Staleness(e.value.allowed) - e.left)'
  BY DEF StoredIsRecent
<1> DEFINE t == Staleness(e.value.allowed) - e.left
<1>1. e \in store /\ e.left \in Nat /\ e.value.allowed \in BOOLEAN
  BY DEF StaleTypeOK, TypeOK, Cache!TypeOK, Cache!Promise, CachedResults
<1>2. t \in Int /\ MaxAge \in Nat
  BY <1>1, StalenessType
<1>3. GivenWithin(e.key, e.value, t)
  BY <1>1 DEF StoredIsRecent
<1>4. \A a \in answered : age'[a] \in Nat /\ age'[a] <= age[a] + 0
  BY <1>2 DEF StaleTypeOK
<1>5. GivenWithin(e.key, e.value, t + 0)'
  BY <1>2, <1>3, <1>4, StillGiven DEF StaleTypeOK
<1>6. t + 0 = t
  BY <1>2
<1>7. QED
  BY <1>5, <1>6

(* What a step that has nothing to do with an answer does to a request.    *)
LEMMA Bystanding ==
  ASSUME TypeOK, NEW p \in Procs, Arrive(p) \/ ProceedWithoutAnswer(p)
  PROVE  /\ answered' = answered /\ store' \subseteq store
         /\ pc[p] # "caching" /\ pc'[p] # "caching"
         /\ \A q \in Procs \ {p} : /\ pc'[q] = pc[q] /\ req'[q] = req[q]
                                   /\ resp'[q] = resp[q] /\ cached'[q] = cached[q]
         /\ pc'[p] = "lookup" => cached'[p] = Cache!Miss
         /\ pc[p] = "lookup" => \A v \in cached'[p] :
               \E e \in store : e.key = KeyOf(req[p]) /\ v = e.value
<1>1. CASE Arrive(p)
  <2>1. PICK r \in Requests, act \in PolicyActions \cup {"public", "none"} :
          /\ Receive(p, r, act)
          /\ \/ \E response : Return(p, response)
             \/ Goto(p, "lookup") /\ resp' = [resp EXCEPT ![p] = NoResponse]
    BY <1>1 DEF Arrive, DenyUnmapped, AllowPublic, RejectToken, AcceptPrincipal,
                PolicyActions
  <2>2. /\ pc[p] = "idle" /\ answered' = answered /\ store' = store
        /\ req' = [req EXCEPT ![p] = r]
        /\ cached' = [cached EXCEPT ![p] = Cache!Miss]
    BY <2>1 DEF Receive, history
  <2>3. /\ pc' \in {[pc EXCEPT ![p] = "idle"], [pc EXCEPT ![p] = "lookup"]}
        /\ \E response : resp' = [resp EXCEPT ![p] = response]
    BY <2>1 DEF Return, Goto
  <2>4. QED
    BY <2>2, <2>3 DEF TypeOK, Cache!TypeOK
<1>2. CASE ServeHit(p) \/ DecideByName(p) \/ ConsultPolicy(p)
  <2>1. /\ pc[p] = "lookup" /\ answered' = answered /\ req' = req
        /\ Cache!Lookup(p, KeyOf(req[p]))
    BY <1>2 DEF ServeHit, DecideByName, ConsultPolicy, Missed, history
  <2>2. /\ store' \subseteq store
        /\ \/ cached' = [cached EXCEPT ![p] = Cache!Miss]
           \/ \E e \in store : /\ e.key = KeyOf(req[p])
                               /\ cached' = [cached EXCEPT ![p] = {e.value}]
    BY <2>1 DEF Cache!Lookup
  <2>3. \/ \E response : Return(p, response)
        \/ Goto(p, "gate") /\ resp' = resp
    BY <1>2 DEF ServeHit, DecideByName, ConsultPolicy
  <2>4. /\ pc' \in {[pc EXCEPT ![p] = "idle"], [pc EXCEPT ![p] = "gate"]}
        /\ resp' = resp \/ \E response : resp' = [resp EXCEPT ![p] = response]
    BY <2>3 DEF Return, Goto
  <2>5. \A v \in cached'[p] : \E e \in store : e.key = KeyOf(req[p]) /\ v = e.value
    <3>1. CASE cached' = [cached EXCEPT ![p] = Cache!Miss]
      BY <3>1 DEF TypeOK, Cache!TypeOK, Cache!Miss
    <3>2. ASSUME NEW e \in store, e.key = KeyOf(req[p]),
                 cached' = [cached EXCEPT ![p] = {e.value}]
          PROVE  \A v \in cached'[p] : \E x \in store : x.key = KeyOf(req[p]) /\ v = x.value
      BY <3>2 DEF TypeOK, Cache!TypeOK
    <3>3. QED
      BY <2>2, <3>1, <3>2
  <2>6. QED
    BY <2>1, <2>2, <2>4, <2>5 DEF TypeOK, Cache!TypeOK
<1>3. CASE RefuseWhileOpen(p) \/ PassGate(p) \/ EnterBreaker(p) \/ RefusedByBreaker(p)
           \/ CerbosFails(p)
  <2>1. /\ pc[p] \in {"gate", "execute", "direct"}
        /\ answered' = answered /\ store' = store /\ req' = req /\ cached' = cached
    BY <1>3 DEF RefuseWhileOpen, PassGate, EnterBreaker, RefusedByBreaker, CerbosFails,
                cacheVars, history
  <2>2. /\ pc' = pc \/ \E l \in {"idle", "execute", "direct"} : pc' = [pc EXCEPT ![p] = l]
        /\ resp' = resp \/ \E response : resp' = [resp EXCEPT ![p] = response]
    BY <1>3 DEF RefuseWhileOpen, PassGate, EnterBreaker, RefusedByBreaker, CerbosFails,
                Return, Goto
  <2>3. QED
    BY <2>1, <2>2 DEF TypeOK, Cache!TypeOK
<1>4. QED
  BY <1>1, <1>2, <1>3 DEF ProceedWithoutAnswer

(* An answer depends on the request and the response only.                 *)
LEMMA SameAnswer ==
  ASSUME NEW q \in Procs, req'[q] = req[q], resp'[q] = resp[q]
  PROVE  AnswerHeld(q)' = AnswerHeld(q)
BY DEF AnswerHeld, Answer, Principal, EffectiveScope

(* Nor does such a step make anything older than it may be.                *)
LEMMA BystandingKeeps ==
  ASSUME IInv', SInv, NEW p \in Procs, Arrive(p) \/ ProceedWithoutAnswer(p),
         UNCHANGED <<age, waiting>>
  PROVE  SInv'
<1>1. TypeOK
  BY DEF SInv, StaleTypeOK
<1>2. StaleTypeOK'
  BY <1>1, Bystanding DEF SInv, StaleTypeOK, IInv
<1>3. ASSUME NEW q \in Procs
      PROVE  Held(q)' /\ Clean(q)'
  <2>1. CASE q = p
    BY <1>1, <2>1, Bystanding DEF Held, Clean, Cache!Miss
  <2>2. CASE q # p
    <3>1. /\ pc'[q] = pc[q] /\ req'[q] = req[q]
          /\ resp'[q] = resp[q] /\ cached'[q] = cached[q]
      BY <1>1, <2>2, Bystanding
    <3>2. AnswerHeld(q)' = AnswerHeld(q)
      BY <3>1, SameAnswer
    <3>3. Held(q) /\ Clean(q)
      BY DEF SInv
    <3>4. QED
      BY <3>1, <3>2, <3>3 DEF Held, Clean, Cache!Miss
  <2>3. QED
    BY <2>1, <2>2
<1>4. StoredIsRecent'
  <2>1. \A x \in answered : age'[x] \in Nat /\ age'[x] <= age[x]
    BY StalenessType DEF SInv, StaleTypeOK
  <2>2. QED
    BY <1>1, <2>1, Bystanding, StoreStaysRecent DEF SInv
<1>5. QED
  BY <1>2, <1>3, <1>4 DEF SInv

(* An answer starts a new age, and the wait for its Set.                   *)
LEMMA TimedAnswerKeeps ==
  ASSUME IInv, IInv', SInv, NEW p \in Procs, NEW allowed \in BOOLEAN,
         TimedAnswer(p, allowed)
  PROVE  SInv'
<1> DEFINE new == Answer(req[p], action[p], allowed)
<1>1. /\ CerbosAnswers(p, allowed)
      /\ age' = [x \in answered' |-> IF x = new THEN 0 ELSE age[x]]
      /\ waiting' = waiting
  BY DEF TimedAnswer
<1>2. /\ answered' = answered \cup {new} /\ store' = store /\ cached' = cached
      /\ req' = req /\ pc[p] \in {"execute", "direct"}
      /\ pc' = [pc EXCEPT ![p] = "caching"]
      /\ resp' = [resp EXCEPT ![p] =
                    Response(allowed, IF allowed THEN "allowed" ELSE "denied", action[p])]
  BY <1>1 DEF CerbosAnswers, Goto, cacheVars
<1>3. resp'[p].action = action[p] /\ resp'[p].allowed = allowed /\ pc'[p] = "caching"
  BY <1>2 DEF IInv, TypeOK, Response
<1>4. MaxAge \in Nat
  BY StalenessType
<1>5. \A x \in answered : age'[x] \in Nat /\ age'[x] <= age[x]
  BY <1>1, <1>2, <1>4 DEF SInv, StaleTypeOK
<1>6. StaleTypeOK'
  <2>1. age' \in [answered' -> 0 .. MaxAge]
    BY <1>1, <1>2, <1>4 DEF SInv, StaleTypeOK
  <2>2. \A q \in Procs : waiting'[q] > 0 => pc'[q] = "caching"
    BY <1>1, <1>2, <1>3 DEF SInv, StaleTypeOK, IInv, TypeOK
  <2>3. QED
    BY <1>1, <2>1, <2>2 DEF SInv, StaleTypeOK, IInv
<1>7. ASSUME NEW q \in Procs
      PROVE  Held(q)' /\ Clean(q)'
  <2>1. waiting'[q] \in Nat
    BY <1>1, LatencyAssumption DEF SInv, StaleTypeOK
  <2>2. CASE q = p
    <3>1. new \in answered' /\ age'[new] = 0
      BY <1>1, <1>2
    <3>2. AnswerHeld(p)' = new
      BY <1>2, <1>3 DEF AnswerHeld, Answer, Principal, EffectiveScope
    <3>3. Held(p)'
      BY <2>1, <2>2, <3>1, <3>2 DEF Held
    <3>4. QED
      BY <2>2, <1>3, <3>3 DEF Clean
  <2>3. CASE q # p
    <3> DEFINE x == AnswerHeld(q)
    <3>1. /\ pc'[q] = pc[q] /\ resp'[q] = resp[q] /\ req'[q] = req[q]
          /\ cached'[q] = cached[q] /\ waiting'[q] = waiting[q]
      BY <1>1, <1>2, <2>3 DEF IInv, TypeOK
    <3>2. Clean(q)'
      BY <3>1 DEF SInv, Clean, Cache!Miss
    <3>3. ASSUME pc[q] = "caching"
          PROVE  age'[x] <= waiting'[q]
      <4>1. x \in answered
        BY <3>3 DEF IInv, Stages, StageOf, AnswerHeld
      <4>2. age[x] <= waiting[q]
        BY <3>3 DEF SInv, Held
      <4>3. age[x] \in Nat /\ age'[x] \in Nat /\ age'[x] <= age[x]
        BY <4>1, <1>4, <1>5 DEF SInv, StaleTypeOK
      <4>4. QED
        BY <4>2, <4>3, <3>1, <2>1
    <3>4. AnswerHeld(q)' = x
      BY <3>1, SameAnswer
    <3>5. Held(q)'
      BY <3>1, <3>3, <3>4 DEF Held
    <3>6. QED
      BY <3>2, <3>5
  <2>4. QED
    BY <2>2, <2>3
<1>8. StoredIsRecent'
  BY <1>2, <1>5, StoreStaysRecent DEF SInv
<1>9. QED
  BY <1>6, <1>7, <1>8 DEF SInv

(* The Set of an answer caches what is no older than the wait for it.      *)
LEMMA TimedCacheResultKeeps ==
  ASSUME IInv, IInv', SInv, NEW p \in Procs, TimedCacheResult(p)
  PROVE  SInv'
<1> DEFINE k == KeyOf(req[p])
           v == [allowed |-> resp[p].allowed, action |-> resp[p].action]
           ttl == IF resp[p].allowed THEN CacheTTL ELSE CacheFailedTTL
           new == [key |-> k, value |-> v, left |-> ttl]
<1>1. /\ pc[p] = "caching" /\ pc' = [pc EXCEPT ![p] = "idle"]
      /\ req' = req /\ resp' = resp /\ answered' = answered /\ age' = age
      /\ cached' = cached /\ store' \subseteq store \cup {new}
      /\ waiting' = [waiting EXCEPT ![p] = 0]
  BY DEF TimedCacheResult, CacheResult, Goto, Cache!Put, cacheVars, history
<1>2. StaleTypeOK'
  <2>1. age' \in [answered' -> 0 .. MaxAge]
    BY <1>1 DEF SInv, StaleTypeOK
  <2>2. waiting' \in [Procs -> 0 .. Latency]
    BY <1>1, LatencyAssumption DEF SInv, StaleTypeOK
  <2>3. ASSUME NEW q \in Procs, waiting'[q] > 0
        PROVE  pc'[q] = "caching"
    <3>1. CASE q = p
      BY <1>1, <2>3, <3>1 DEF SInv, StaleTypeOK
    <3>2. CASE q # p
      BY <1>1, <2>3, <3>2 DEF SInv, StaleTypeOK, IInv, TypeOK
    <3>3. QED
      BY <3>1, <3>2
  <2>4. QED
    BY <2>1, <2>2, <2>3 DEF StaleTypeOK, IInv
<1>3. ASSUME NEW q \in Procs
      PROVE  Held(q)' /\ Clean(q)'
  <2>1. AnswerHeld(q)' = AnswerHeld(q)
    BY <1>1, SameAnswer
  <2>2. (pc'[q] = pc[q] /\ waiting'[q] = waiting[q]) \/ pc'[q] = "idle"
    BY <1>1 DEF IInv, TypeOK, SInv, StaleTypeOK
  <2>3. QED
    BY <1>1, <2>1, <2>2 DEF SInv, Held, Clean, Cache!Miss
<1>4. ASSUME NEW e \in store'
      PROVE  GivenWithin(e.key, e.value, Staleness(e.value.allowed) - e.left)'
  <2>1. CASE e \in store
    BY <1>1, <2>1 DEF SInv, StoredIsRecent, GivenWithin, KeyOf, Principal, ServiceOf,
                      ServiceOfHost, Answer, EffectiveScope
  <2>2. CASE e = new
    <3>1. /\ req[p] \in Requests /\ AnswerHeld(p) \in answered
          /\ resp[p].allowed \in BOOLEAN
      BY <1>1, StageFacts DEF IInv, Stages, StageOf, AnswerHeld, TypeOK
    <3>2. age[AnswerHeld(p)] <= Latency
      <4>1. age[AnswerHeld(p)] <= waiting[p]
        BY <1>1 DEF SInv, Held
      <4>2. /\ age[AnswerHeld(p)] \in Nat /\ waiting[p] \in Nat
            /\ waiting[p] <= Latency
        BY <3>1, StalenessType, LatencyAssumption DEF SInv, StaleTypeOK
      <4>3. QED
        BY <4>1, <4>2, LatencyAssumption
    <3>3. Staleness(resp[p].allowed) - ttl = Latency
      BY <3>1, LatencyAssumption, CacheAssumption DEF Staleness
    <3>4. e.key = k /\ e.value = v /\ e.left = ttl
      BY <2>2
    <3>5. GivenWithin(e.key, e.value, Latency)
      BY <3>1, <3>2, <3>4 DEF GivenWithin, AnswerHeld
    <3>6. GivenWithin(e.key, e.value, Latency)'
      BY <1>1, <3>5 DEF GivenWithin, KeyOf, Principal, ServiceOf, ServiceOfHost, Answer,
                        EffectiveScope
    <3>7. Staleness(e.value.allowed) - e.left = Latency
      BY <3>3, <3>4
    <3>8. QED
      BY <3>6, <3>7
  <2>3. QED
    BY <1>1, <2>1, <2>2
<1>5. QED
  BY <1>2, <1>3, <1>4 DEF SInv, StoredIsRecent

(* Time makes answers older, and leaves promises as much less to live.     *)
LEMMA TimedTickKeeps ==
  ASSUME IInv, IInv', SInv, TimedTick
  PROVE  SInv'
<1>1. /\ pc' = pc /\ req' = req /\ resp' = resp /\ answered' = answered
      /\ cached' = cached /\ store' \subseteq Cache!Aged(store)
      /\ age' = [a \in answered |-> IF age[a] < MaxAge THEN age[a] + 1 ELSE MaxAge]
      /\ waiting' = [p \in Procs |->
                       IF pc[p] = "caching" THEN waiting[p] + 1 ELSE waiting[p]]
      /\ \A p \in Procs : pc[p] = "caching" => waiting[p] < Latency
  BY DEF TimedTick, Tick, Cache!Tick, history
<1>2. MaxAge \in Nat
  BY StalenessType
<1>3. \A a \in answered : age'[a] \in 0 .. MaxAge /\ age'[a] <= age[a] + 1
  BY <1>1, <1>2 DEF SInv, StaleTypeOK
<1>4. StaleTypeOK'
  <2>1. age' \in [answered' -> 0 .. MaxAge]
    BY <1>1, <1>2, <1>3
  <2>2. waiting' \in [Procs -> 0 .. Latency]
    BY <1>1, LatencyAssumption DEF SInv, StaleTypeOK
  <2>3. QED
    BY <1>1, <2>1, <2>2 DEF SInv, StaleTypeOK, IInv
<1>5. ASSUME NEW q \in Procs
      PROVE  Held(q)' /\ Clean(q)'
  <2>1. AnswerHeld(q)' = AnswerHeld(q)
    BY <1>1, SameAnswer
  <2>2. ASSUME pc[q] = "caching"
        PROVE  age'[AnswerHeld(q)] <= waiting'[q]
    <3>1. AnswerHeld(q) \in answered
      BY <2>2 DEF IInv, Stages, StageOf, AnswerHeld
    <3>2. age[AnswerHeld(q)] <= waiting[q] /\ waiting'[q] = waiting[q] + 1
      BY <1>1, <2>2 DEF SInv, Held
    <3>3. /\ age[AnswerHeld(q)] \in Nat /\ waiting[q] \in Nat
          /\ age'[AnswerHeld(q)] \in Nat
          /\ age'[AnswerHeld(q)] <= age[AnswerHeld(q)] + 1
      BY <1>2, <1>3, <3>1, LatencyAssumption DEF SInv, StaleTypeOK
    <3>4. QED
      BY <3>2, <3>3
  <2>3. QED
    BY <1>1, <2>1, <2>2 DEF SInv, Held, Clean, Cache!Miss
<1>6. ASSUME NEW e \in store'
      PROVE  GivenWithin(e.key, e.value, Staleness(e.value.allowed) - e.left)'
  <2>1. PICK d \in store : d.left > 0 /\ e = [d EXCEPT !.left = @ - 1]
    BY <1>1 DEF Cache!Aged
  <2>2. d \in Cache!Promise
    BY DEF IInv, TypeOK, Cache!TypeOK
  <2>3. /\ d.left \in Nat /\ d.value.allowed \in BOOLEAN
        /\ e.key = d.key /\ e.value = d.value /\ e.left = d.left - 1
    BY <2>1, <2>2 DEF Cache!Promise, CachedResults
  <2> DEFINE t == Staleness(d.value.allowed) - d.left
  <2>4. t \in Int /\ Staleness(e.value.allowed) - e.left = t + 1
    BY <2>3, StalenessType
  <2>5. GivenWithin(d.key, d.value, t)
    BY DEF SInv, StoredIsRecent
  <2>6. GivenWithin(d.key, d.value, t + 1)'
    BY <1>1, <1>2, <1>3, <2>4, <2>5, StillGiven DEF SInv, StaleTypeOK
  <2>7. QED
    BY <2>3, <2>4, <2>6
<1>7. QED
  BY <1>4, <1>5, <1>6 DEF SInv, StoredIsRecent

(* The other steps: entries are lost, or nothing happens.                  *)
LEMMA TimedSurroundingsKeep ==
  ASSUME IInv', SInv,
         (LoseEntries /\ UNCHANGED <<age, waiting>>) \/ UNCHANGED timedVars
  PROVE  SInv'
<1>1. /\ pc' = pc /\ req' = req /\ resp' = resp /\ answered' = answered
      /\ cached' = cached /\ store' \subseteq store /\ age' = age /\ waiting' = waiting
  BY DEF LoseEntries, Cache!Forget, timedVars, vars, cacheVars, history
<1>2. StaleTypeOK'
  BY <1>1 DEF SInv, StaleTypeOK, IInv
<1>3. \A q \in Procs : Held(q)' /\ Clean(q)'
  BY <1>1, SameAnswer DEF SInv, Held, Clean, Cache!Miss
<1>4. \A a \in answered : age'[a] \in Nat /\ age'[a] <= age[a]
  BY <1>1, StalenessType DEF SInv, StaleTypeOK
<1>5. StoredIsRecent'
  BY <1>1, <1>4, StoreStaysRecent DEF SInv
<1>6. QED
  BY <1>2, <1>3, <1>5 DEF SInv

(* The clock only watches: with it, Authorize does what it does without.   *)
LEMMA TimedStepsAreSteps == [TimedNext]_timedVars => [Next]_vars
BY DEF TimedNext, TimedAnswer, TimedCacheResult, TimedTick, Untimed, timedVars, Next, Proceed

(* So what holds of Authorize holds of Authorize with a clock.             *)
THEOREM Watching == TimedSpec => Spec
BY TimedStepsAreSteps, PTL DEF TimedSpec, TimedInit, Spec

(* SInv is inductive.                                                      *)
THEOREM StalenessInvariance == TimedSpec => [](IInv /\ SInv)
<1>1. TimedInit /\ IInv => SInv
  <2> SUFFICES ASSUME TimedInit, IInv PROVE SInv
    OBVIOUS
  <2>1. /\ answered = {} /\ store = {} /\ age = [a \in {} |-> 0]
        /\ waiting = [p \in Procs |-> 0] /\ pc = [p \in Procs |-> "idle"]
    BY DEF TimedInit, Init, Cache!Init
  <2>2. StaleTypeOK
    BY <2>1, StalenessType, LatencyAssumption DEF StaleTypeOK, IInv
  <2>3. QED
    BY <2>1, <2>2 DEF SInv, Held, Clean, StoredIsRecent
<1>2. IInv /\ IInv' /\ SInv /\ [TimedNext]_timedVars => SInv'
  BY BystandingKeeps, TimedAnswerKeeps, TimedCacheResultKeeps, TimedTickKeeps,
     TimedSurroundingsKeep
     DEF TimedNext, Untimed
<1>3. TimedSpec => []IInv
  BY Watching, Invariance, PTL
<1>4. QED
  BY <1>1, <1>2, <1>3, PTL DEF TimedSpec

(* The variables of the clock keep their types.                            *)
THEOREM StaleTypeCorrect == TimedSpec => []StaleTypeOK
BY StalenessInvariance, PTL DEF SInv

(* However concurrent Sets are ordered, no promise outlives its answer by  *)
(* more than its time to live and the latency of one Set.                  *)
THEOREM StoredAnswersAreRecent == TimedSpec => []StoredIsRecent
BY StalenessInvariance, PTL DEF SInv

(* So a revoked permission is gone after that time: whatever a hit serves  *)
(* is an answer Cerbos gave within it.                                     *)
THEOREM ServedAnswersAreRecent == TimedSpec => HitsAreRecent
<1>1. ASSUME IInv, SInv, [TimedNext]_timedVars,
             NEW p \in Procs, pc[p] = "lookup", NEW v \in cached'[p]
      PROVE  GivenWithin(KeyOf(req[p]), v, Staleness(v.allowed))
  <2>1. cached[p] = {}
    BY <1>1 DEF SInv, Clean, Cache!Miss
  <2>2. PICK q \in Procs : Arrive(q) \/ ProceedWithoutAnswer(q)
    BY <1>1, <2>1
       DEF TimedNext, TimedAnswer, CerbosAnswers, TimedCacheResult, CacheResult, Cache!Put,
           TimedTick, Tick, Cache!Tick, Untimed, LoseEntries, Cache!Forget, timedVars, vars,
           cacheVars
  <2>3. q = p
    BY <1>1, <2>1, <2>2, Bystanding DEF IInv
  <2>4. PICK e \in store : e.key = KeyOf(req[p]) /\ v = e.value
    BY <1>1, <2>2, <2>3, Bystanding DEF IInv
  <2>5. /\ e.left \in Nat /\ e.value.allowed \in BOOLEAN
    BY <1>1 DEF IInv, TypeOK, Cache!TypeOK, Cache!Promise, CachedResults
  <2>6. PICK r \in Requests :
          /\ KeyOf(r) = e.key
          /\ Answer(r, v.action, v.allowed) \in answered
          /\ age[Answer(r, v.action, v.allowed)] <= Staleness(v.allowed) - e.left
    BY <1>1, <2>4 DEF SInv, StoredIsRecent, GivenWithin
  <2>7. age[Answer(r, v.action, v.allowed)] \in Nat /\ Staleness(v.allowed) \in Nat
    BY <1>1, <2>4, <2>5, <2>6, StalenessType DEF SInv, StaleTypeOK
  <2>8. age[Answer(r, v.action, v.allowed)] <= Staleness(v.allowed)
    BY <2>5, <2>6, <2>7
  <2>9. QED
    BY <2>4, <2>6, <2>8 DEF GivenWithin
<1>2. IInv /\ SInv /\ [TimedNext]_timedVars =>
        \A p \in Procs :
          pc[p] = "lookup" =>
            \A v \in cached'[p] : GivenWithin(KeyOf(req[p]), v, Staleness(v.allowed))
  BY <1>1
<1>3. QED
  BY <1>2, StalenessInvariance, PTL DEF TimedSpec, HitsAreRecent
=============================================================================
