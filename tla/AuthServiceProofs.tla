-------------------------- MODULE AuthServiceProofs --------------------------
(***************************************************************************)
(* Theorems about AuthService, for any number of goroutines, any requests, *)
(* actions, failure mode and breaker configuration.                        *)
(*                                                                         *)
(* IInv is the inductive invariant.  Beyond the types it says what is true *)
(* of a goroutine at each stage of the pipeline (Stages), that the cache   *)
(* holds answers Cerbos gave about users (CacheIsBacked) and that the      *)
(* breaker is closed until a Cerbos call has failed (ClosedUntilTrouble).  *)
(* The last part shows that the breaker and the cache in the pipeline do   *)
(* nothing but what their own modules specify.                             *)
(***************************************************************************)
EXTENDS AuthService, SequenceTheorems, TLAPS

PolicyActions == Actions \cup {"authenticated"}

StageOf(p) ==
    /\ pc[p] = "lookup" => action[p] \in PolicyActions
    /\ pc[p] \in {"gate", "execute", "direct", "caching"} =>
          /\ action[p] \in Actions
          /\ Principal(req[p]) # Anonymous
    /\ pc[p] = "caching" =>
          /\ resp[p].action = action[p]
          /\ Answer(req[p], resp[p].action, resp[p].allowed) \in answered

Stages == \A p \in Procs : StageOf(p)

CacheIsBacked ==
    \A e \in store :
       \E r \in Requests :
          /\ KeyOf(r) = e.key
          /\ Principal(r) # Anonymous
          /\ Answer(r, e.value.action, e.value.allowed) \in answered

ClosedUntilTrouble == state # "closed" => troubled

IInv ==
    /\ TypeOK
    /\ Stages
    /\ CacheIsBacked
    /\ ClosedUntilTrouble
    /\ AllowIsBacked
    /\ AnonymousOnlyPublic

-----------------------------------------------------------------------------
(* Lengths, as numbers.                                                    *)
LEMMA Lengths ==
  ASSUME NEW n \in Nat \ {0}, NEW m \in Nat, NEW k \in Nat
  PROVE  /\ n = 1 \/ n > 1
         /\ 1 \in 1 .. (n + m) + k /\ 1 <= n + m
OBVIOUS

(* A text of one part.                                                     *)
LEMMA OnePart ==
  ASSUME NEW S, NEW x \in S
  PROVE  <<x>> \in Seq(S) /\ <<x>> # <<>> /\ Head(<<x>>) = x
OBVIOUS

(* The texts a cache key is joined from.                                   *)
LEMMA KeyParts ==
  ASSUME NEW r \in Requests
  PROVE  /\ Principal(r) \in Seq(Parts) /\ Principal(r) # <<>>
         /\ ServiceOf(r) \in Seq(Parts) /\ r.route \in Seq(Parts)
<1>1. \A x \in Parts : <<x>> \in Seq(Parts) /\ <<x>> # <<>>
  BY OnePart
<1>2. r.user \in Seq(Parts) /\ r.service \in Seq(Parts) /\ r.route \in Seq(Parts)
  BY RequestsAssumption
<1>3. ServiceOfHost(r.host) \in Seq(Parts)
  <2>1. ServiceOfHost(r.host) \in {<<"rmi">>, <<"admin">>, <<"go">>}
    BY DEF ServiceOfHost
  <2>2. "rmi" \in Parts /\ "admin" \in Parts /\ "go" \in Parts
    BY PartsAssumption
  <2>3. QED
    BY <1>1, <2>1, <2>2
<1>4. Anonymous \in Seq(Parts) /\ Anonymous # <<>>
  <2>1. "anonymous" \in Parts
    BY PartsAssumption
  <2>2. QED
    BY <1>1, <2>1 DEF Anonymous
<1>5. QED
  BY <1>2, <1>3, <1>4 DEF Principal, ServiceOf

(* Two ways of cutting a sequence that cut it in the same places agree.    *)
LEMMA SameCuts ==
  ASSUME NEW S, NEW a \in Seq(S), NEW b \in Seq(S), NEW c \in Seq(S), NEW d \in Seq(S),
         Len(a) = Len(c), a \o b = c \o d
  PROVE  a = c /\ b = d
<1>1. /\ Len(a) \in Nat /\ Len(b) \in Nat /\ Len(c) \in Nat /\ Len(d) \in Nat
  OBVIOUS
<1>2. /\ Len(a \o b) = Len(a) + Len(b)
      /\ \A i \in 1 .. Len(a) + Len(b) :
            (a \o b)[i] = IF i <= Len(a) THEN a[i] ELSE b[i - Len(a)]
  BY ConcatProperties
<1>3. /\ Len(c \o d) = Len(c) + Len(d)
      /\ \A i \in 1 .. Len(c) + Len(d) :
            (c \o d)[i] = IF i <= Len(c) THEN c[i] ELSE d[i - Len(c)]
  BY ConcatProperties
<1>4. Len(b) = Len(d)
  BY <1>1, <1>2, <1>3
<1>5. a = c
  <2>1. ASSUME NEW i \in 1 .. Len(a) PROVE a[i] = c[i]
    BY <1>1, <1>2, <1>3
  <2>2. QED
    BY <2>1, SeqEqual
<1>6. b = d
  <2>1. ASSUME NEW i \in 1 .. Len(b) PROVE b[i] = d[i]
    <3>1. Len(a) + i \in 1 .. Len(a) + Len(b) /\ ~(Len(a) + i <= Len(a))
      BY <1>1
    <3>2. (Len(a) + i) - Len(a) = i
      BY <1>1
    <3>3. QED
      BY <1>2, <1>3, <1>4, <3>1, <3>2
  <2>2. QED
    BY <1>4, <2>1, SeqEqual
<1>7. QED
  BY <1>5, <1>6

(* Requests with one cache key whose colons are in the same places are one *)
(* to the policy: the key leaves neither principal, service nor route out. *)
LEMMA SameKey ==
  ASSUME NEW r \in Requests, NEW q \in Requests,
         KeyOf(r) = KeyOf(q), PartAlike(r, q)
  PROVE  /\ Principal(r) = Principal(q)
         /\ ServiceOf(r) = ServiceOf(q)
         /\ r.route = q.route
<1> DEFINE front(x) == Principal(x) \o ServiceOf(x)
<1>1. front(r) \in Seq(Parts) /\ front(q) \in Seq(Parts)
  BY KeyParts
<1>2. Len(front(r)) = Len(front(q))
  <2>1. \A x \in Requests : Len(front(x)) = Len(Principal(x)) + Len(ServiceOf(x))
    BY KeyParts, ConcatProperties
  <2>2. QED
    BY <2>1 DEF PartAlike
<1>3. front(r) \o r.route = front(q) \o q.route
  BY DEF KeyOf
<1>4. front(r) = front(q) /\ r.route = q.route
  <2> HIDE DEF front
  <2>1. r.route \in Seq(Parts) /\ q.route \in Seq(Parts)
    BY KeyParts
  <2>2. QED
    BY <1>1, <1>2, <1>3, <2>1, SameCuts
<1>5. Principal(r) = Principal(q) /\ ServiceOf(r) = ServiceOf(q)
  <2>1. /\ Principal(r) \in Seq(Parts) /\ ServiceOf(r) \in Seq(Parts)
        /\ Principal(q) \in Seq(Parts) /\ ServiceOf(q) \in Seq(Parts)
    BY KeyParts
  <2>2. QED
    BY <1>4, <2>1, SameCuts DEF PartAlike
<1>6. QED
  BY <1>4, <1>5

(* A key tells whether its principal is anonymous.                         *)
LEMMA AnonymousKeys ==
  ASSUME NEW r \in Requests, NEW q \in Requests, KeyOf(r) = KeyOf(q),
         Principal(r) # Anonymous
  PROVE  Principal(q) # Anonymous
<1>1. Head(Principal(r)) # "anonymous"
  <2>1. Principal(r) = r.user /\ r.user \in Seq(Parts) /\ r.user # <<>>
    BY RequestsAssumption DEF Principal
  <2>2. CASE Len(r.user) > 1
    BY <2>1, <2>2, RequestsAssumption
  <2>3. CASE Len(r.user) = 1
    <3>1. r.user = <<Head(r.user)>>
      BY <2>1, <2>3
    <3>2. QED
      BY <2>1, <3>1 DEF Anonymous
  <2>4. Len(r.user) = 1 \/ Len(r.user) > 1
    <3>1. Len(r.user) \in Nat \ {0}
      BY <2>1, EmptySeq
    <3>2. QED
      BY <3>1, Lengths
  <2>5. QED
    BY <2>1, <2>2, <2>3, <2>4
<1>2. ASSUME NEW x \in Requests
      PROVE  Head(Principal(x)) = KeyOf(x)[1]
  <2> DEFINE front == Principal(x) \o ServiceOf(x)
  <2>1. front \in Seq(Parts) /\ Len(front) = Len(Principal(x)) + Len(ServiceOf(x))
    BY KeyParts, ConcatProperties
  <2>2. /\ Len(Principal(x)) \in Nat \ {0} /\ Len(ServiceOf(x)) \in Nat
        /\ Len(x.route) \in Nat
    BY KeyParts, EmptySeq
  <2>3. front[1] = Principal(x)[1]
    BY <2>2, KeyParts, ConcatProperties
  <2>4. (front \o x.route)[1] = front[1]
    <3> HIDE DEF front
    <3>1. 1 \in 1 .. Len(front) + Len(x.route) /\ 1 <= Len(front)
      BY <2>1, <2>2, Lengths
    <3>2. x.route \in Seq(Parts)
      BY KeyParts
    <3>3. QED
      BY <2>1, <3>1, <3>2, ConcatProperties
  <2>5. QED
    BY <2>3, <2>4 DEF KeyOf
<1>3. Head(Anonymous) = "anonymous"
  BY DEF Anonymous
<1>4. QED
  BY <1>1, <1>2, <1>3
-----------------------------------------------------------------------------
(* What the operations of the cache do to its promises: only Put adds one. *)
OnlyKept ==
    \A e \in store' : \E d \in store : d.key = e.key /\ d.value = e.value

(* A lookup only forgets, and answers with what was promised.              *)
LEMMA LookupKeeps ==
  ASSUME NEW p \in Procs, NEW k, Cache!TypeOK, Cache!Lookup(p, k)
  PROVE  /\ Cache!TypeOK'
         /\ OnlyKept
         /\ \A hit \in cached'[p] : \E e \in store : e.key = k /\ hit = e.value
<1>1. store' \subseteq store
  BY DEF Cache!Lookup
<1>2. cached' \in [Procs -> SUBSET CachedResults]
  BY DEF Cache!Lookup, Cache!TypeOK, Cache!Promise, Cache!Miss
<1>3. \A hit \in cached'[p] : \E e \in store : e.key = k /\ hit = e.value
  BY DEF Cache!Lookup, Cache!TypeOK, Cache!Miss
<1>4. QED
  BY <1>1, <1>2, <1>3 DEF OnlyKept, Cache!TypeOK

(* Forgetting adds nothing to the cache.                                   *)
LEMMA ForgetKeeps ==
  ASSUME Cache!TypeOK, Cache!Forget
  PROVE  Cache!TypeOK' /\ OnlyKept
BY DEF OnlyKept, Cache!TypeOK, Cache!Forget

(* Aging adds nothing to the cache and changes no value.                   *)
LEMMA TickKeeps ==
  ASSUME Cache!TypeOK, Cache!Tick
  PROVE  Cache!TypeOK' /\ OnlyKept
<1>1. ASSUME NEW e \in store'
      PROVE  /\ e \in Cache!Promise
             /\ \E d \in store : d.key = e.key /\ d.value = e.value
  <2>1. PICK d \in store : d.left > 0 /\ e = [d EXCEPT !.left = @ - 1]
    BY <1>1 DEF Cache!Tick, Cache!Aged
  <2>2. QED
    BY <2>1 DEF Cache!TypeOK, Cache!Promise
<1>2. QED
  BY <1>1 DEF OnlyKept, Cache!TypeOK, Cache!Tick

(* Put adds one promise to the cache and otherwise only forgets.           *)
LEMMA PutAdds ==
  ASSUME NEW k \in Keys, NEW v \in CachedResults, NEW ttl \in Nat,
         Cache!TypeOK, Cache!Put(k, v, ttl)
  PROVE  /\ Cache!TypeOK'
         /\ \A e \in store' : e \in store \/ (e.key = k /\ e.value = v)
BY DEF Cache!Put, Cache!TypeOK, Cache!Promise

(* A step of the breaker keeps its types.                                  *)
LEMMA BreakerKeeps ==
  ASSUME Breaker!TypeOK,
         \/ \E p \in Procs : Breaker!Execute(p)
         \/ Breaker!Tick
  PROVE  Breaker!TypeOK'
<1> USE BreakerAssumption DEF Breaker!TypeOK, Breaker!States, Breaker!Locations
<1>1. ASSUME NEW p \in Procs, Breaker!Admit(p)
      PROVE  Breaker!TypeOK'
  BY <1>1 DEF Breaker!Admit, Breaker!breaker
<1>2. ASSUME NEW p \in Procs, Breaker!LeaveOpen(p)
      PROVE  Breaker!TypeOK'
  BY <1>2 DEF Breaker!LeaveOpen, Breaker!TransitionToHalfOpen
<1>3. ASSUME NEW p \in Procs, Breaker!RecordRequest(p)
      PROVE  Breaker!TypeOK'
  BY <1>3 DEF Breaker!RecordRequest
<1>4. ASSUME NEW p \in Procs, Breaker!RecordFailure(p)
      PROVE  Breaker!TypeOK'
  BY <1>4 DEF Breaker!RecordFailure, Breaker!TransitionToOpen, Breaker!UpTo
<1>5. ASSUME NEW p \in Procs, Breaker!RecordSuccess(p)
      PROVE  Breaker!TypeOK'
  BY <1>5 DEF Breaker!RecordSuccess
<1>6. CASE Breaker!Tick
  BY <1>6 DEF Breaker!Tick
<1>7. QED
  BY <1>1, <1>2, <1>3, <1>4, <1>5, <1>6 DEF Breaker!Execute
-----------------------------------------------------------------------------
(* What a step of goroutine p does to the local variables: it touches p's  *)
(* only.                                                                   *)
OthersKept(p) ==
    \A q \in Procs \ {p} :
       /\ pc'[q] = pc[q]
       /\ req'[q] = req[q]
       /\ action'[q] = action[q]
       /\ resp'[q] = resp[q]
       /\ execute'[q] = execute[q]

(* AllowIsBacked and AnonymousOnlyPublic, for one goroutine.               *)
BackedFor(p) ==
    resp[p].allowed /\ resp[p].action \in Actions =>
       \/ \E r \in Requests :
             /\ Answer(r, resp[p].action, TRUE) \in answered
             /\ KeyOf(r) = KeyOf(req[p])
             /\ PartAlike(r, req[p]) =>
                   /\ Principal(r) = Principal(req[p])
                   /\ ServiceOf(r) = ServiceOf(req[p])
                   /\ r.route = req[p].route
       \/ /\ FailureMode = "fail_open"
          /\ resp[p].status = "degraded"
          /\ troubled

PublicFor(p) ==
    resp[p].allowed /\ Principal(req[p]) = Anonymous
       => resp[p].action = "public"

(* It is enough to look at the goroutine that takes the step.              *)
LEMMA OnlyTheMover ==
  ASSUME IInv, NEW p \in Procs, OthersKept(p),
         answered \subseteq answered', troubled => troubled',
         TypeOK', StageOf(p)', CacheIsBacked', ClosedUntilTrouble',
         BackedFor(p)', PublicFor(p)'
  PROVE  IInv'
<1>1. Stages'
  <2>1. ASSUME NEW q \in Procs \ {p} PROVE StageOf(q)'
    BY <2>1 DEF IInv, Stages, StageOf, OthersKept
  <2>2. QED
    BY <2>1 DEF Stages
<1>2. AllowIsBacked'
  <2>1. ASSUME NEW q \in Procs \ {p} PROVE BackedFor(q)'
    <3>1. BackedFor(q)
      BY DEF IInv, AllowIsBacked, BackedFor
    <3>2. resp'[q] = resp[q] /\ req'[q] = req[q]
      BY <2>1 DEF OthersKept
    <3>3. QED
      BY <3>1, <3>2 DEF BackedFor
  <2>2. QED
    BY <2>1 DEF AllowIsBacked, BackedFor
<1>3. AnonymousOnlyPublic'
  <2>1. ASSUME NEW q \in Procs \ {p} PROVE PublicFor(q)'
    BY <2>1 DEF IInv, AnonymousOnlyPublic, PublicFor, OthersKept
  <2>2. QED
    BY <2>1 DEF AnonymousOnlyPublic, PublicFor
<1>4. QED
  BY <1>1, <1>2, <1>3 DEF IInv

(* Entries that were backed stay backed while answers accumulate.          *)
LEMMA StillBacked ==
  ASSUME CacheIsBacked, OnlyKept, answered \subseteq answered'
  PROVE  CacheIsBacked'
BY DEF CacheIsBacked, OnlyKept

(* Receiving a request keeps the types and touches nothing shared.         *)
LEMMA ReceiveKeeps ==
  ASSUME TypeOK, NEW p \in Procs, NEW r \in Requests,
         NEW act \in PolicyActions \cup {"public", "none"}, Receive(p, r, act)
  PROVE  /\ Breaker!TypeOK' /\ Cache!TypeOK'
         /\ store' = store /\ answered' = answered /\ troubled' = troubled
         /\ state' = state /\ execute' = execute
         /\ req'[p] = r /\ action'[p] = act
         /\ req' \in [Procs -> Requests \cup {NoRequest}]
         /\ action' \in [Procs -> Actions \cup {"", "public", "authenticated", "none"}]
         /\ \A q \in Procs \ {p} : req'[q] = req[q] /\ action'[q] = action[q]
<1>1. Breaker!TypeOK'
  BY DEF Receive, TypeOK, Breaker!TypeOK, breakerVars
<1>2. Cache!TypeOK'
  BY DEF Receive, TypeOK, Cache!TypeOK, Cache!Miss
<1>3. QED
  BY <1>1, <1>2 DEF Receive, TypeOK, PolicyActions, breakerVars, history

(* What handleCircuitBreakerOpen and handleAuthorizationError return.      *)
LEMMA DegradedType ==
  ASSUME TypeOK, NEW p \in Procs, action[p] \in Actions,
         NEW status \in {"circuit_breaker_open", "error"}
  PROVE  /\ Degraded(p, status) \in
              [allowed : BOOLEAN, status : Statuses,
               action : Actions \cup {"", "public", "authenticated"}]
         /\ Degraded(p, status).action = action[p]
         /\ Degraded(p, status).allowed =>
               FailureMode = "fail_open" /\ Degraded(p, status).status = "degraded"
BY DEF Degraded, Response, Statuses

(* An answer of Cerbos about one of the requests is one of Answers.        *)
LEMMA AnswerTypes ==
  ASSUME NEW r \in Requests, NEW act \in Actions, NEW allowed \in BOOLEAN
  PROVE  Answer(r, act, allowed) \in Answers
BY DEF Answers

(* A goroutine that is past the lookup serves a request it has received.   *)
LEMMA StageFacts ==
  ASSUME TypeOK, Stages, NEW p \in Procs,
         pc[p] \in {"gate", "execute", "direct", "caching"}
  PROVE  /\ req[p] \in Requests
         /\ action[p] \in Actions
         /\ Principal(req[p]) # Anonymous
         /\ action[p] \notin {"", "public", "authenticated", "none"}
BY ActionsAssumption DEF TypeOK, Stages, StageOf
-----------------------------------------------------------------------------
(* One lemma per action: each keeps IInv.                                  *)
LEMMA ArriveKeeps ==
  ASSUME IInv, NEW p \in Procs, Arrive(p)
  PROVE  IInv'
<1> USE DEF IInv
<1>1. PICK r \in Requests, act \in PolicyActions \cup {"public", "none"} :
        /\ Receive(p, r, act)
        /\ \/ Return(p, Response(FALSE, "no_action_mapping", ""))
           \/ Return(p, Response(TRUE, "allowed", "public"))
           \/ Return(p, Response(FALSE, "invalid_token", ""))
           \/ /\ act \in PolicyActions
              /\ resp' = [resp EXCEPT ![p] = NoResponse]
              /\ Goto(p, "lookup")
  BY DEF Arrive, DenyUnmapped, AllowPublic, RejectToken, AcceptPrincipal,
         PolicyActions
<1>2. /\ Breaker!TypeOK' /\ Cache!TypeOK'
      /\ store' = store /\ answered' = answered /\ troubled' = troubled
      /\ state' = state /\ execute' = execute
      /\ req'[p] = r /\ action'[p] = act
      /\ req' \in [Procs -> Requests \cup {NoRequest}]
      /\ action' \in [Procs -> Actions \cup {"", "public", "authenticated", "none"}]
      /\ \A q \in Procs \ {p} : req'[q] = req[q] /\ action'[q] = action[q]
  BY <1>1, ReceiveKeeps
<1>3. /\ pc' \in [Procs -> Locations]
      /\ pc'[p] \in {"idle", "lookup"}
      /\ \A q \in Procs \ {p} : pc'[q] = pc[q]
      /\ pc'[p] = "lookup" => act \in PolicyActions
  BY <1>1 DEF Return, Goto, TypeOK, Locations
<1>4. /\ resp' \in [Procs -> [allowed : BOOLEAN, status : Statuses,
                              action : Actions \cup {"", "public", "authenticated"}]]
      /\ resp'[p].action \in {"", "public"}
      /\ resp'[p].allowed => resp'[p].action = "public"
      /\ \A q \in Procs \ {p} : resp'[q] = resp[q]
  <2>1. PICK new \in {Response(FALSE, "no_action_mapping", ""),
                     Response(TRUE, "allowed", "public"),
                     Response(FALSE, "invalid_token", ""),
                     NoResponse} :
          resp' = [resp EXCEPT ![p] = new]
    BY <1>1 DEF Return
  <2>2. /\ new \in [allowed : BOOLEAN, status : Statuses,
                    action : Actions \cup {"", "public", "authenticated"}]
        /\ new.action \in {"", "public"}
        /\ new.allowed => new.action = "public"
    <3> HIDE DEF IInv
    <3>0. CASE new = NoResponse
      BY <3>0 DEF Response, NoResponse, Statuses
    <3>1. CASE new = Response(FALSE, "no_action_mapping", "")
      BY <3>1 DEF Response, Statuses
    <3>2. CASE new = Response(TRUE, "allowed", "public")
      BY <3>2 DEF Response, Statuses
    <3>3. CASE new = Response(FALSE, "invalid_token", "")
      BY <3>3 DEF Response, Statuses
    <3>4. QED
      BY <2>1, <3>0, <3>1, <3>2, <3>3
  <2>3. QED
    BY <2>1, <2>2 DEF TypeOK
<1>5. pc[p] = "idle" /\ execute[p] = "idle"
  BY <1>1 DEF Receive, TypeOK, Breaker!TypeOK, Breaker!Locations
<1>6. TypeOK' /\ OthersKept(p)
  BY <1>2, <1>3, <1>4, <1>5 DEF TypeOK, OthersKept
<1>7. StageOf(p)'
  BY <1>2, <1>3 DEF StageOf
<1>8. CacheIsBacked' /\ ClosedUntilTrouble' /\ BackedFor(p)' /\ PublicFor(p)'
  BY <1>2, <1>4, ActionsAssumption
     DEF CacheIsBacked, ClosedUntilTrouble, BackedFor, PublicFor
<1>9. QED
  BY <1>2, <1>6, <1>7, <1>8, OnlyTheMover

(* A cache hit answers with a decision that is backed.                     *)
LEMMA ServeHitKeeps ==
  ASSUME IInv, NEW p \in Procs, ServeHit(p)
  PROVE  IInv'
<1> USE DEF IInv
<1> DEFINE k == KeyOf(req[p])
<1>1. Cache!TypeOK' /\ OnlyKept
  BY LookupKeeps DEF ServeHit, TypeOK
<1>2. PICK hit \in cached'[p] :
        Return(p, Response(hit.allowed,
                           IF hit.allowed THEN "allowed" ELSE "denied",
                           hit.action))
  BY DEF ServeHit
<1>3. PICK e \in store : e.key = k /\ hit = e.value
  <2>1. Cache!TypeOK /\ Cache!Lookup(p, k)
    BY DEF ServeHit, TypeOK
  <2>2. \A h \in cached'[p] : \E e \in store : e.key = k /\ h = e.value
    BY <2>1, LookupKeeps
  <2>3. QED
    BY <2>2
<1>4. hit \in CachedResults
  BY <1>3 DEF TypeOK, Cache!TypeOK, Cache!Promise
<1>5. PICK r \in Requests :
        /\ KeyOf(r) = k
        /\ Principal(r) # Anonymous
        /\ Answer(r, hit.action, hit.allowed) \in answered
  BY <1>3 DEF CacheIsBacked
<1>6. /\ KeyOf(r) = KeyOf(req[p])
      /\ PartAlike(r, req[p]) =>
            /\ Principal(r) = Principal(req[p])
            /\ ServiceOf(r) = ServiceOf(req[p])
            /\ r.route = req[p].route
      /\ Principal(req[p]) # Anonymous
  <2>1. req[p] \in Requests
    BY DEF ServeHit, TypeOK
  <2>2. QED
    BY <1>5, <2>1, SameKey, AnonymousKeys
<1>7. /\ pc' = [pc EXCEPT ![p] = "idle"]
      /\ resp' = [resp EXCEPT ![p] =
                    Response(hit.allowed,
                             IF hit.allowed THEN "allowed" ELSE "denied",
                             hit.action)]
      /\ UNCHANGED <<breakerVars, req, action, history>>
      /\ pc[p] = "lookup"
  BY <1>2 DEF ServeHit, Return, Goto
<1>8. /\ resp' \in [Procs -> [allowed : BOOLEAN, status : Statuses,
                              action : Actions \cup {"", "public", "authenticated"}]]
      /\ resp'[p].allowed = hit.allowed /\ resp'[p].action = hit.action
  BY <1>4, <1>7 DEF TypeOK, Response, Statuses, CachedResults
<1>9. TypeOK'
  BY <1>1, <1>7, <1>8 DEF TypeOK, Locations, breakerVars, history, Breaker!TypeOK
<1>10. OthersKept(p)
  BY <1>7 DEF OthersKept, TypeOK, breakerVars
<1>11. StageOf(p)'
  BY <1>7 DEF StageOf, TypeOK
<1>12. CacheIsBacked' /\ ClosedUntilTrouble'
  BY <1>1, <1>7, StillBacked DEF history, breakerVars, ClosedUntilTrouble
<1>13. BackedFor(p)' /\ PublicFor(p)'
  BY <1>4, <1>5, <1>6, <1>7, <1>8 DEF BackedFor, PublicFor, history, CachedResults
<1>14. QED
  BY <1>7, <1>9, <1>10, <1>11, <1>12, <1>13, OnlyTheMover DEF history

(* A cache miss only forgets.                                              *)
LEMMA MissedKeeps ==
  ASSUME IInv, NEW p \in Procs, Missed(p)
  PROVE  /\ Cache!TypeOK' /\ OnlyKept
         /\ pc[p] = "lookup" /\ execute[p] = "idle"
         /\ UNCHANGED <<breakerVars, req, action, history>>
         /\ CacheIsBacked' /\ ClosedUntilTrouble'
<1> USE DEF IInv
<1>1. Cache!TypeOK' /\ OnlyKept
  BY LookupKeeps DEF Missed, TypeOK
<1>2. pc[p] = "lookup" /\ execute[p] = "idle"
  BY DEF Missed, TypeOK, Breaker!TypeOK, Breaker!Locations
<1>3. CacheIsBacked' /\ ClosedUntilTrouble'
  BY <1>1, StillBacked DEF Missed, history, breakerVars, ClosedUntilTrouble
<1>4. QED
  BY <1>1, <1>2, <1>3 DEF Missed

(* A goroutine that answers without touching breaker or history: what it   *)
(* takes for the answer to keep IInv.                                      *)
LEMMA ReturnKeeps ==
  ASSUME IInv, NEW p \in Procs, execute[p] = "idle",
         NEW response \in [allowed : BOOLEAN, status : Statuses,
                          action : Actions \cup {"", "public", "authenticated"}],
         Return(p, response),
         Cache!TypeOK', CacheIsBacked',
         UNCHANGED <<breakerVars, req, action, history>>,
         response.allowed => Principal(req[p]) # Anonymous,
         response.allowed /\ response.action \in Actions =>
            FailureMode = "fail_open" /\ response.status = "degraded" /\ troubled
  PROVE  IInv'
<1> USE DEF IInv
<1>1. /\ pc' = [pc EXCEPT ![p] = "idle"]
      /\ resp' = [resp EXCEPT ![p] = response]
      /\ req' = req /\ action' = action /\ execute' = execute
      /\ state' = state /\ answered' = answered /\ troubled' = troubled
  BY DEF Return, Goto, breakerVars, history
<1>2. Breaker!TypeOK'
  BY DEF TypeOK, Breaker!TypeOK, breakerVars
<1>3. TypeOK' /\ OthersKept(p)
  BY <1>1, <1>2 DEF TypeOK, Locations, OthersKept
<1>4. resp'[p] = response /\ pc'[p] = "idle"
  BY <1>1 DEF TypeOK
<1>5. StageOf(p)' /\ ClosedUntilTrouble'
  BY <1>1, <1>4 DEF StageOf, ClosedUntilTrouble
<1>6. BackedFor(p)' /\ PublicFor(p)'
  BY <1>1, <1>4 DEF BackedFor, PublicFor
<1>7. QED
  BY <1>1, <1>3, <1>5, <1>6, OnlyTheMover

(* The answers given right after a miss.                                   *)
LEMMA DecideByNameKeeps ==
  ASSUME IInv, NEW p \in Procs, DecideByName(p)
  PROVE  IInv'
<1>1. Missed(p)
  BY DEF DecideByName
<1>2. action[p] \in PolicyActions
  BY <1>1, MissedKeeps DEF IInv, Stages, StageOf
<1>3. CASE Principal(req[p]) # Anonymous
  <2>1. Response(TRUE, "allowed", action[p]) \in
           [allowed : BOOLEAN, status : Statuses,
            action : Actions \cup {"", "public", "authenticated"}]
    BY <1>2 DEF Response, Statuses, PolicyActions
  <2>2. Return(p, Response(TRUE, "allowed", action[p])) /\ action[p] = "authenticated"
    BY <1>3 DEF DecideByName
  <2>3. QED
    BY <1>1, <1>3, <2>1, <2>2, MissedKeeps, ReturnKeeps, ActionsAssumption
       DEF Response
<1>4. CASE Principal(req[p]) = Anonymous
  <2>1. Response(FALSE, "denied", action[p]) \in
           [allowed : BOOLEAN, status : Statuses,
            action : Actions \cup {"", "public", "authenticated"}]
    BY <1>2 DEF Response, Statuses, PolicyActions
  <2>2. Return(p, Response(FALSE, "denied", action[p]))
    BY <1>4 DEF DecideByName
  <2>3. QED
    BY <1>1, <2>1, <2>2, MissedKeeps, ReturnKeeps DEF Response
<1>5. QED
  BY <1>3, <1>4

(* Going on to the gate is for principals with a user only.                *)
LEMMA ConsultPolicyKeeps ==
  ASSUME IInv, NEW p \in Procs, ConsultPolicy(p)
  PROVE  IInv'
<1> USE DEF IInv
<1>1. /\ Missed(p) /\ resp' = resp /\ pc' = [pc EXCEPT ![p] = "gate"]
      /\ action[p] # "authenticated" /\ Principal(req[p]) # Anonymous
  BY DEF ConsultPolicy, Goto
<1>2. /\ Cache!TypeOK'
      /\ pc[p] = "lookup" /\ execute[p] = "idle"
      /\ UNCHANGED <<breakerVars, req, action, history>>
      /\ CacheIsBacked' /\ ClosedUntilTrouble'
  BY <1>1, MissedKeeps
<1>3. /\ req' = req /\ action' = action /\ execute' = execute
      /\ answered' = answered /\ troubled' = troubled
  BY <1>2 DEF breakerVars, history
<1>4. Breaker!TypeOK'
  BY <1>2 DEF TypeOK, Breaker!TypeOK, breakerVars
<1>5. TypeOK' /\ OthersKept(p)
  BY <1>1, <1>2, <1>3, <1>4 DEF TypeOK, Locations, OthersKept
<1>6. action[p] \in Actions
  BY <1>1, <1>2 DEF Stages, StageOf, PolicyActions
<1>7. StageOf(p)' /\ BackedFor(p)' /\ PublicFor(p)'
  BY <1>1, <1>3, <1>6
     DEF StageOf, TypeOK, BackedFor, PublicFor, AllowIsBacked, AnonymousOnlyPublic
<1>8. QED
  BY <1>2, <1>3, <1>5, <1>7, OnlyTheMover

(* A refusal in front of the breaker or by it.                             *)
LEMMA RefusalKeeps ==
  ASSUME IInv, NEW p \in Procs, RefuseWhileOpen(p) \/ RefusedByBreaker(p)
  PROVE  IInv'
<1> USE DEF IInv
<1>1. /\ pc[p] \in {"gate", "execute"} /\ execute[p] = "idle"
      /\ UNCHANGED <<breakerVars, cacheVars, req, action, history>>
  BY DEF RefuseWhileOpen, RefusedByBreaker, TypeOK, Breaker!TypeOK, Breaker!Locations
<1>2. state # "closed"
  BY DEF RefuseWhileOpen, RefusedByBreaker, Breaker!CanExecute
<1>3. troubled
  BY <1>2 DEF ClosedUntilTrouble
<1>4. PICK status \in {"circuit_breaker_open", "error"} : Return(p, Degraded(p, status))
  BY DEF RefuseWhileOpen, RefusedByBreaker
<1>5. Cache!TypeOK' /\ CacheIsBacked'
  BY <1>1 DEF TypeOK, Cache!TypeOK, CacheIsBacked, cacheVars, history
<1>6. action[p] \in Actions /\ Principal(req[p]) # Anonymous
  BY <1>1, StageFacts
<1>7. /\ Degraded(p, status) \in
           [allowed : BOOLEAN, status : Statuses,
            action : Actions \cup {"", "public", "authenticated"}]
      /\ Degraded(p, status).allowed =>
            FailureMode = "fail_open" /\ Degraded(p, status).status = "degraded"
  BY <1>6, DegradedType
<1> HIDE DEF IInv
<1>8. QED
  BY <1>1, <1>3, <1>4, <1>5, <1>6, <1>7, ReturnKeeps

(* Passing the gate leaves everything else as it was.                      *)
LEMMA PassGateKeeps ==
  ASSUME IInv, NEW p \in Procs, PassGate(p)
  PROVE  IInv'
<1> USE DEF IInv
<1>1. /\ pc[p] = "gate"
      /\ \E where \in {"execute", "direct"} : pc' = [pc EXCEPT ![p] = where]
      /\ UNCHANGED <<breakerVars, cacheVars, req, action, resp, history>>
  BY DEF PassGate, Goto
<1>2. /\ req' = req /\ action' = action /\ resp' = resp /\ execute' = execute
      /\ state' = state /\ answered' = answered /\ troubled' = troubled
      /\ store' = store /\ cached' = cached
  BY <1>1 DEF breakerVars, cacheVars, history
<1>3. Breaker!TypeOK' /\ Cache!TypeOK'
  BY <1>1 DEF TypeOK, Breaker!TypeOK, breakerVars, Cache!TypeOK, cacheVars
<1>4. execute[p] = "idle"
  BY <1>1 DEF TypeOK, Breaker!TypeOK, Breaker!Locations
<1>5. TypeOK' /\ OthersKept(p)
  BY <1>1, <1>2, <1>3, <1>4 DEF TypeOK, Locations, OthersKept
<1>6. CacheIsBacked' /\ ClosedUntilTrouble'
  BY <1>2 DEF CacheIsBacked, ClosedUntilTrouble
<1>7. StageOf(p)'
  <2>1. action[p] \in Actions /\ Principal(req[p]) # Anonymous
    BY <1>1, StageFacts
  <2>2. pc'[p] \in {"execute", "direct"}
    BY <1>1 DEF TypeOK
  <2>3. QED
    BY <1>2, <2>1, <2>2 DEF StageOf
<1>8. BackedFor(p)' /\ PublicFor(p)'
  BY <1>2 DEF BackedFor, PublicFor, AllowIsBacked, AnonymousOnlyPublic
<1>9. QED
  BY <1>2, <1>5, <1>6, <1>7, <1>8, OnlyTheMover

(* The steps of Execute up to the call of Cerbos.                          *)
LEMMA EnterBreakerKeeps ==
  ASSUME IInv, NEW p \in Procs, EnterBreaker(p)
  PROVE  IInv'
<1> USE DEF IInv
<1>1. /\ pc[p] = "execute"
      /\ Breaker!Admit(p) \/ Breaker!LeaveOpen(p) \/ Breaker!RecordRequest(p)
      /\ pc' = pc /\ req' = req /\ action' = action /\ resp' = resp
      /\ answered' = answered /\ troubled' = troubled
      /\ store' = store /\ cached' = cached
  BY DEF EnterBreaker, cacheVars, history
<1>2. Breaker!TypeOK'
  BY <1>1, BreakerKeeps DEF TypeOK, Breaker!Execute
<1>3. Cache!TypeOK'
  BY <1>1 DEF TypeOK, Cache!TypeOK
<1>4. \A q \in Procs \ {p} : execute'[q] = execute[q]
  BY <1>1 DEF Breaker!Admit, Breaker!LeaveOpen, Breaker!RecordRequest, TypeOK,
              Breaker!TypeOK
<1>5. TypeOK' /\ OthersKept(p)
  BY <1>1, <1>2, <1>3, <1>4 DEF TypeOK, OthersKept
<1>6. state' # "closed" => state # "closed"
  BY <1>1 DEF Breaker!Admit, Breaker!LeaveOpen, Breaker!RecordRequest,
              Breaker!breaker, Breaker!TransitionToHalfOpen
<1>7. CacheIsBacked' /\ ClosedUntilTrouble'
  BY <1>1, <1>6 DEF CacheIsBacked, ClosedUntilTrouble
<1>8. StageOf(p)' /\ BackedFor(p)' /\ PublicFor(p)'
  BY <1>1
     DEF Stages, StageOf, BackedFor, PublicFor, AllowIsBacked, AnonymousOnlyPublic
<1>9. QED
  BY <1>1, <1>5, <1>7, <1>8, OnlyTheMover

(* What a call of Cerbos, through the breaker or not, does to the breaker. *)
LEMMA CallKeeps ==
  ASSUME TypeOK, NEW p \in Procs,
         \/ pc[p] = "execute" /\ (Breaker!RecordSuccess(p) \/ Breaker!RecordFailure(p))
         \/ pc[p] = "direct" /\ UNCHANGED breakerVars
  PROVE  /\ Breaker!TypeOK'
         /\ execute'[p] = "idle"
         /\ \A q \in Procs \ {p} : execute'[q] = execute[q]
<1>1. CASE pc[p] = "execute"
  <2>1. Breaker!TypeOK'
    BY <1>1, BreakerKeeps DEF TypeOK, Breaker!Execute
  <2>2. QED
    BY <1>1, <2>1 DEF Breaker!RecordSuccess, Breaker!RecordFailure, TypeOK,
                      Breaker!TypeOK
<1>2. CASE pc[p] = "direct"
  BY <1>2 DEF TypeOK, Breaker!TypeOK, Breaker!Locations, breakerVars
<1>3. QED
  BY <1>1, <1>2

(* An answer of Cerbos backs the response built from it.                   *)
LEMMA CerbosAnswersKeeps ==
  ASSUME IInv, NEW p \in Procs, NEW allowed \in BOOLEAN, CerbosAnswers(p, allowed)
  PROVE  IInv'
<1> USE DEF IInv
<1> DEFINE new == Response(allowed, IF allowed THEN "allowed" ELSE "denied", action[p])
<1>1. /\ pc[p] \in {"execute", "direct"}
      /\ pc' = [pc EXCEPT ![p] = "caching"]
      /\ resp' = [resp EXCEPT ![p] = new]
      /\ answered' = answered \cup {Answer(req[p], action[p], allowed)}
      /\ req' = req /\ action' = action /\ troubled' = troubled
      /\ store' = store /\ cached' = cached
  BY DEF CerbosAnswers, Goto, cacheVars
<1>2. /\ Breaker!TypeOK'
      /\ execute'[p] = "idle"
      /\ \A q \in Procs \ {p} : execute'[q] = execute[q]
  BY CallKeeps DEF CerbosAnswers
<1>3. /\ req[p] \in Requests
      /\ action[p] \in Actions
      /\ Principal(req[p]) # Anonymous
  BY <1>1, StageFacts
<1>4. Answer(req[p], action[p], allowed) \in Answers
  BY <1>3, AnswerTypes
<1>5. /\ new \in [allowed : BOOLEAN, status : Statuses,
                  action : Actions \cup {"", "public", "authenticated"}]
      /\ new.allowed = allowed /\ new.action = action[p]
  BY <1>3 DEF Response, Statuses
<1> HIDE DEF new
<1>6. Cache!TypeOK'
  BY <1>1 DEF TypeOK, Cache!TypeOK
<1>7. TypeOK' /\ OthersKept(p)
  BY <1>1, <1>2, <1>4, <1>5, <1>6 DEF TypeOK, Locations, OthersKept
<1>8. resp'[p] = new /\ pc'[p] = "caching"
  BY <1>1 DEF TypeOK
<1>9. StageOf(p)' /\ PublicFor(p)'
  <2>1. resp'[p].allowed = allowed /\ resp'[p].action = action[p]
    BY <1>5, <1>8
  <2>2. Answer(req'[p], resp'[p].action, resp'[p].allowed) \in answered'
    BY <1>1, <2>1
  <2>3. QED
    BY <1>1, <1>3, <1>8, <2>1, <2>2 DEF StageOf, PublicFor
<1>10. BackedFor(p)'
  <2>1. SUFFICES ASSUME allowed
                 PROVE  BackedFor(p)'
    BY <1>5, <1>8 DEF BackedFor
  <2>2. allowed = TRUE
    BY <2>1
  <2>3. Answer(req[p], action[p], TRUE) \in answered'
    BY <1>1, <2>2
  <2>4. resp'[p].action = action[p]
    BY <1>5, <1>8
  <2>5. QED
    BY <1>1, <1>3, <2>3, <2>4 DEF BackedFor
<1>11. CacheIsBacked'
  BY <1>1, StillBacked DEF OnlyKept
<1>12. ClosedUntilTrouble'
  BY <1>1 DEF CerbosAnswers, Breaker!RecordSuccess, ClosedUntilTrouble, breakerVars
<1>13. QED
  BY <1>1, <1>7, <1>9, <1>10, <1>11, <1>12, OnlyTheMover

(* A failed call is remembered, and backs the degraded response.           *)
LEMMA CerbosFailsKeeps ==
  ASSUME IInv, NEW p \in Procs, CerbosFails(p)
  PROVE  IInv'
<1> USE DEF IInv
<1> DEFINE new == Degraded(p, "error")
<1>1. /\ pc[p] \in {"execute", "direct"}
      /\ pc' = [pc EXCEPT ![p] = "idle"]
      /\ resp' = [resp EXCEPT ![p] = new]
      /\ answered' = answered /\ troubled' = TRUE
      /\ req' = req /\ action' = action
      /\ store' = store /\ cached' = cached
  BY DEF CerbosFails, Return, Goto, cacheVars
<1>2. /\ Breaker!TypeOK'
      /\ execute'[p] = "idle"
      /\ \A q \in Procs \ {p} : execute'[q] = execute[q]
  BY CallKeeps DEF CerbosFails
<1>3. action[p] \in Actions /\ Principal(req[p]) # Anonymous
  BY <1>1, StageFacts
<1>4. /\ new \in [allowed : BOOLEAN, status : Statuses,
                  action : Actions \cup {"", "public", "authenticated"}]
      /\ new.allowed => FailureMode = "fail_open" /\ new.status = "degraded"
  BY <1>3, DegradedType
<1> HIDE DEF new
<1>5. Cache!TypeOK'
  BY <1>1 DEF TypeOK, Cache!TypeOK
<1>6. TypeOK' /\ OthersKept(p)
  BY <1>1, <1>2, <1>4, <1>5 DEF TypeOK, Locations, OthersKept
<1>7. resp'[p] = new /\ pc'[p] = "idle"
  BY <1>1 DEF TypeOK
<1>8. StageOf(p)' /\ PublicFor(p)' /\ BackedFor(p)'
  BY <1>1, <1>3, <1>4, <1>7 DEF StageOf, PublicFor, BackedFor
<1>9. CacheIsBacked' /\ ClosedUntilTrouble'
  BY <1>1 DEF CacheIsBacked, ClosedUntilTrouble
<1>10. QED
  BY <1>1, <1>6, <1>8, <1>9, OnlyTheMover

(* What is cached is the answer the response was built from.               *)
LEMMA CacheResultKeeps ==
  ASSUME IInv, NEW p \in Procs, CacheResult(p)
  PROVE  IInv'
<1> USE DEF IInv
<1> DEFINE k == KeyOf(req[p])
           v == [allowed |-> resp[p].allowed, action |-> resp[p].action]
           ttl == IF resp[p].allowed THEN CacheTTL ELSE CacheFailedTTL
<1>1. /\ pc[p] = "caching"
      /\ pc' = [pc EXCEPT ![p] = "idle"]
      /\ req' = req /\ action' = action /\ resp' = resp /\ execute' = execute
      /\ state' = state /\ answered' = answered /\ troubled' = troubled
      /\ Cache!Put(k, v, ttl) \/ UNCHANGED cacheVars
  BY DEF CacheResult, Goto, breakerVars, history
<1>2. /\ req[p] \in Requests
      /\ action[p] \in Actions
      /\ Principal(req[p]) # Anonymous
  BY <1>1, StageFacts
<1>3. /\ resp[p].action = action[p]
      /\ Answer(req[p], resp[p].action, resp[p].allowed) \in answered
  BY <1>1 DEF Stages, StageOf
<1>4. k \in Keys /\ v \in CachedResults /\ ttl \in Nat
  BY <1>2, <1>3, CacheAssumption DEF Keys, CachedResults, TypeOK
<1>5. v.action = resp[p].action /\ v.allowed = resp[p].allowed
  OBVIOUS
<1>6. Cache!TypeOK' /\ CacheIsBacked'
  <2> HIDE DEF v, ttl
  <2>1. CASE Cache!Put(k, v, ttl)
    <3> HIDE DEF k
    <3>1. /\ Cache!TypeOK'
          /\ \A e \in store' : e \in store \/ (e.key = k /\ e.value = v)
      BY <1>4, <2>1, PutAdds DEF TypeOK
    <3>2. ASSUME NEW e \in store'
          PROVE  \E r \in Requests :
                    /\ KeyOf(r) = e.key
                    /\ Principal(r) # Anonymous
                    /\ Answer(r, e.value.action, e.value.allowed) \in answered'
      <4>1. CASE e \in store
        BY <1>1, <4>1 DEF CacheIsBacked
      <4>2. CASE e.key = k /\ e.value = v
        BY <1>1, <1>2, <1>3, <1>5, <4>2 DEF k
      <4>3. QED
        BY <3>1, <4>1, <4>2
    <3>3. QED
      BY <3>1, <3>2 DEF CacheIsBacked
  <2>2. CASE UNCHANGED cacheVars
    BY <1>1, <2>2 DEF TypeOK, Cache!TypeOK, CacheIsBacked, cacheVars
  <2>3. QED
    BY <1>1, <2>1, <2>2
<1>7. Breaker!TypeOK'
  BY DEF CacheResult, TypeOK, Breaker!TypeOK, breakerVars
<1>8. TypeOK' /\ OthersKept(p)
  <2> HIDE DEF k, v, ttl
  <2>1. execute[p] = "idle"
    BY <1>1 DEF TypeOK, Breaker!TypeOK, Breaker!Locations
  <2>2. QED
    BY <1>1, <1>6, <1>7, <2>1 DEF TypeOK, Locations, OthersKept
<1>9. StageOf(p)' /\ BackedFor(p)' /\ PublicFor(p)'
  <2> HIDE DEF k, v, ttl
  <2>1. pc'[p] = "idle"
    BY <1>1 DEF TypeOK
  <2>2. QED
    BY <1>1, <2>1
       DEF StageOf, BackedFor, PublicFor, AllowIsBacked, AnonymousOnlyPublic
<1>10. ClosedUntilTrouble'
  BY <1>1 DEF ClosedUntilTrouble
<1>11. QED
  BY <1>1, <1>6, <1>8, <1>9, <1>10, OnlyTheMover

(* Lost entries and the passing of time.                                   *)
LEMMA SurroundingsKeep ==
  ASSUME IInv, LoseEntries \/ Tick \/ UNCHANGED vars
  PROVE  IInv'
<1> USE DEF IInv
<1>1. /\ pc' = pc /\ req' = req /\ action' = action /\ resp' = resp
      /\ execute' = execute /\ state' = state
      /\ answered' = answered /\ troubled' = troubled
  BY DEF LoseEntries, Tick, Breaker!Tick, vars, breakerVars, history
<1>2. Cache!TypeOK' /\ OnlyKept
  <2>1. CASE LoseEntries
    BY <2>1, ForgetKeeps DEF LoseEntries, TypeOK
  <2>2. CASE Tick
    BY <2>2, TickKeeps DEF Tick, TypeOK
  <2>3. CASE UNCHANGED vars
    BY <2>3 DEF vars, cacheVars, TypeOK, Cache!TypeOK, OnlyKept
  <2>4. QED
    BY <2>1, <2>2, <2>3
<1>3. Breaker!TypeOK'
  <2>1. CASE Breaker!Tick
    BY <2>1, BreakerKeeps DEF TypeOK
  <2>2. CASE UNCHANGED breakerVars
    BY <2>2 DEF TypeOK, Breaker!TypeOK, breakerVars
  <2>3. QED
    BY <2>1, <2>2 DEF LoseEntries, Tick, vars
<1>4. TypeOK'
  BY <1>1, <1>2, <1>3 DEF TypeOK
<1>5. CacheIsBacked'
  BY <1>1, <1>2, StillBacked
<1>6. Stages' /\ ClosedUntilTrouble' /\ AllowIsBacked' /\ AnonymousOnlyPublic'
  BY <1>1 DEF Stages, StageOf, ClosedUntilTrouble, AllowIsBacked, AnonymousOnlyPublic
<1>7. QED
  BY <1>4, <1>5, <1>6
-----------------------------------------------------------------------------
(* Every state of every execution satisfies the inductive invariant.       *)
THEOREM Invariance == Spec => []IInv
<1>1. Init => IInv
  <2> SUFFICES ASSUME Init PROVE IInv
    OBVIOUS
  <2>1. Breaker!TypeOK
    <3>1. Breaker!Init
      BY DEF Init
    <3>2. failureCount \in 0 .. FailureThreshold /\ sinceFailure \in 0 .. RecoveryTime
      BY <3>1, BreakerAssumption DEF Breaker!Init
    <3>3. QED
      BY <3>1, <3>2 DEF Breaker!Init, Breaker!TypeOK, Breaker!States, Breaker!Locations
  <2>2. Cache!TypeOK
    BY DEF Init, Cache!Init, Cache!Miss, Cache!TypeOK
  <2>3. NoResponse \in [allowed : BOOLEAN, status : Statuses,
                       action : Actions \cup {"", "public", "authenticated"}]
    BY DEF NoResponse, Response, Statuses
  <2>4. TypeOK
    BY <2>1, <2>2, <2>3 DEF Init, TypeOK, Locations, Breaker!Init
  <2>5. Stages /\ ClosedUntilTrouble
    BY DEF Init, Stages, StageOf, ClosedUntilTrouble, Breaker!Init
  <2>6. CacheIsBacked
    BY DEF Init, Cache!Init, CacheIsBacked
  <2>7. AllowIsBacked /\ AnonymousOnlyPublic
    BY DEF Init, NoResponse, Response, AllowIsBacked, AnonymousOnlyPublic
  <2>8. QED
    BY <2>4, <2>5, <2>6, <2>7 DEF IInv
<1>2. IInv /\ [Next]_vars => IInv'
  <2> SUFFICES ASSUME IInv, [Next]_vars PROVE IInv'
    OBVIOUS
  <2>1. ASSUME NEW p \in Procs, Arrive(p) PROVE IInv'
    BY <2>1, ArriveKeeps
  <2>2. ASSUME NEW p \in Procs, Proceed(p) PROVE IInv'
    BY <2>2, ServeHitKeeps, DecideByNameKeeps, ConsultPolicyKeeps,
       RefusalKeeps, PassGateKeeps, EnterBreakerKeeps, CerbosAnswersKeeps,
       CerbosFailsKeeps, CacheResultKeeps
       DEF Proceed, ProceedWithoutAnswer
  <2>3. CASE LoseEntries \/ Tick \/ UNCHANGED vars
    BY <2>3, SurroundingsKeep
  <2>4. QED
    BY <2>1, <2>2, <2>3 DEF Next
<1>3. QED
  BY <1>1, <1>2, PTL DEF Spec

(* The variables of the pipeline, the cache and the breaker keep their     *)
(* types.                                                                  *)
THEOREM TypeCorrect == Spec => []TypeOK
<1>1. IInv => TypeOK
  BY DEF IInv
<1>2. QED
  BY <1>1, Invariance, PTL

(* Every request allowed for a policy-decided action, cache hit or not, is *)
(* backed by an answer of Cerbos about its principal, service and route,   *)
(* or is a degraded response in fail-open mode after Cerbos has failed.    *)
THEOREM AllowedRequestsAreBacked == Spec => []AllowIsBacked
<1>1. IInv => AllowIsBacked
  BY DEF IInv
<1>2. QED
  BY <1>1, Invariance, PTL

(* The cache holds nothing but answers of Cerbos.                          *)
THEOREM OnlyAnswersAreCached == Spec => []CacheHoldsAnswers
<1>1. IInv => CacheHoldsAnswers
  BY DEF IInv, CacheIsBacked, CacheHoldsAnswers
<1>2. QED
  BY <1>1, Invariance, PTL

(* A request without a user is allowed on public endpoints only.           *)
THEOREM AnonymousGetsPublicOnly == Spec => []AnonymousOnlyPublic
<1>1. IInv => AnonymousOnlyPublic
  BY DEF IInv
<1>2. QED
  BY <1>1, Invariance, PTL

(* An open breaker that no goroutine is executing in is never left again:  *)
(* the gate in front of Execute keeps every request out.                   *)
THEOREM OpenBreakerStaysOpen == Spec => WedgedForGood
<1>1. TypeOK /\ [Next]_vars => (Wedged => Wedged')
  <2> SUFFICES ASSUME TypeOK, [Next]_vars, Wedged PROVE Wedged'
    OBVIOUS
  <2>1. ASSUME NEW p \in Procs, Arrive(p) PROVE Wedged'
    BY <2>1 DEF Arrive, DenyUnmapped, AllowPublic, RejectToken, AcceptPrincipal,
                Receive, Return, Goto, Wedged, TypeOK, breakerVars
  <2>2. ASSUME NEW p \in Procs, Proceed(p) PROVE Wedged'
    <3>1. pc[p] # "execute"
      BY DEF Wedged
    <3>2. state' = state
      BY <2>2, <3>1
         DEF Proceed, ProceedWithoutAnswer, ServeHit, DecideByName, ConsultPolicy,
             Missed, RefuseWhileOpen, PassGate, EnterBreaker, RefusedByBreaker,
             CerbosAnswers, CerbosFails, CacheResult, breakerVars
    <3>3. PICK where \in Locations \ {"execute"} : pc' = [pc EXCEPT ![p] = where]
      BY <2>2, <3>1
         DEF Proceed, ProceedWithoutAnswer, ServeHit, DecideByName, ConsultPolicy,
             Missed, RefuseWhileOpen, PassGate, EnterBreaker, RefusedByBreaker,
             CerbosAnswers, CerbosFails, CacheResult, Return, Goto, Wedged, Locations
    <3>4. QED
      BY <3>2, <3>3 DEF Wedged, TypeOK
  <2>3. CASE LoseEntries
    BY <2>3 DEF LoseEntries, Wedged, breakerVars
  <2>4. CASE Tick
    BY <2>4 DEF Tick, Breaker!Tick, Wedged, breakerVars
  <2>5. CASE UNCHANGED vars
    BY <2>5 DEF vars, Wedged, breakerVars
  <2>6. QED
    BY <2>1, <2>2, <2>3, <2>4, <2>5 DEF Next
<1>2. QED
  BY <1>1, TypeCorrect, PTL DEF Spec, WedgedForGood
-----------------------------------------------------------------------------
(* Every request runs the breaker by its rules and no other goroutine      *)
(* touches it: whatever is true of the breaker is true of it here.         *)
THEOREM RunsTheBreaker == Spec => Breaker!CallerSpec
<1>1. Init => Breaker!Init
  BY DEF Init
<1>2. [Next]_vars => [Breaker!CallerNext]_(Breaker!vars)
  <2> SUFFICES ASSUME [Next]_vars
               PROVE  Breaker!CallerNext \/ UNCHANGED breakerVars
    BY DEF breakerVars, Breaker!vars
  <2>1. ASSUME NEW p \in Procs, Arrive(p)
        PROVE  UNCHANGED breakerVars
    BY <2>1 DEF Arrive, DenyUnmapped, AllowPublic, RejectToken, AcceptPrincipal, Receive
  <2>2. ASSUME NEW p \in Procs, Proceed(p)
        PROVE  Breaker!Execute(p) \/ UNCHANGED breakerVars
    <3>1. CASE EnterBreaker(p)
      BY <3>1 DEF EnterBreaker, Breaker!Execute
    <3>2. CASE CerbosFails(p) \/ \E allowed \in BOOLEAN : CerbosAnswers(p, allowed)
      BY <3>2 DEF CerbosFails, CerbosAnswers, Breaker!Execute
    <3>3. CASE /\ ~EnterBreaker(p) /\ ~CerbosFails(p)
               /\ ~\E allowed \in BOOLEAN : CerbosAnswers(p, allowed)
      BY <2>2, <3>3
         DEF Proceed, ProceedWithoutAnswer, ServeHit, DecideByName,
             ConsultPolicy, Missed, RefuseWhileOpen, PassGate, RefusedByBreaker, CacheResult
    <3>4. QED
      BY <3>1, <3>2, <3>3
  <2>3. CASE LoseEntries \/ UNCHANGED vars
    BY <2>3 DEF LoseEntries, vars
  <2>4. CASE Tick
    BY <2>4 DEF Tick, Breaker!CallerNext
  <2>5. QED
    BY <2>1, <2>2, <2>3, <2>4 DEF Next, Breaker!CallerNext
<1>3. QED
  BY <1>1, <1>2, PTL DEF Spec, Breaker!CallerSpec

(* The pipeline asks nothing of its cache that LossyCache does not offer:  *)
(* every lookup is of the key of a request, and every Set is of a result,  *)
(* with one of the two times to live.                                      *)
THEOREM RunsTheCache == Spec => Cache!Spec
<1>1. Init => Cache!Init
  BY DEF Init
<1>2. IInv /\ [Next]_vars => [Cache!Next]_(Cache!vars)
  <2> SUFFICES ASSUME IInv, [Next]_vars
               PROVE  Cache!Next \/ UNCHANGED cacheVars
    BY DEF cacheVars, Cache!vars
  <2>1. ASSUME NEW p \in Procs, Arrive(p)
        PROVE  Cache!Next
    <3>1. PICK r \in Requests :
             store' = store /\ cached' = [cached EXCEPT ![p] = Cache!Miss]
      BY <2>1 DEF Arrive, DenyUnmapped, AllowPublic, RejectToken, AcceptPrincipal, Receive
    <3>2. Cache!Lookup(p, KeyOf(r)) /\ KeyOf(r) \in Keys
      BY <3>1 DEF Cache!Lookup, Keys
    <3>3. QED
      BY <3>2 DEF Cache!Next
  <2>2. ASSUME NEW p \in Procs, ServeHit(p) \/ Missed(p)
        PROVE  Cache!Next
    <3>1. pc[p] = "lookup" /\ Cache!Lookup(p, KeyOf(req[p]))
      BY <2>2 DEF ServeHit, Missed
    <3>2. KeyOf(req[p]) \in Keys
      BY <3>1 DEF Keys, IInv, TypeOK
    <3>3. QED
      BY <3>1, <3>2 DEF Cache!Next
  <2>3. ASSUME NEW p \in Procs, CacheResult(p)
        PROVE  Cache!Next \/ UNCHANGED cacheVars
    <3> DEFINE k == KeyOf(req[p])
               v == [allowed |-> resp[p].allowed, action |-> resp[p].action]
               ttl == IF resp[p].allowed THEN CacheTTL ELSE CacheFailedTTL
    <3>1. pc[p] = "caching" /\ (Cache!Put(k, v, ttl) \/ UNCHANGED cacheVars)
      BY <2>3 DEF CacheResult
    <3>2. k \in Keys
      BY <3>1, StageFacts DEF Keys, IInv
    <3>3. v \in CachedResults
      BY <3>1, StageFacts DEF CachedResults, IInv, TypeOK, Stages, StageOf
    <3>4. ttl \in {CacheTTL, CacheFailedTTL}
      OBVIOUS
    <3> HIDE DEF k, v, ttl
    <3>5. QED
      BY <3>1, <3>2, <3>3, <3>4 DEF Cache!Next
  <2>4. ASSUME NEW p \in Procs, Proceed(p)
        PROVE  Cache!Next \/ UNCHANGED cacheVars
    <3>1. CASE ServeHit(p) \/ Missed(p)
      BY <2>2, <3>1
    <3>2. CASE CacheResult(p)
      BY <2>3, <3>2
    <3>3. CASE ~ServeHit(p) /\ ~Missed(p) /\ ~CacheResult(p)
      BY <2>4, <3>3
         DEF Proceed, ProceedWithoutAnswer, DecideByName, ConsultPolicy,
             RefuseWhileOpen, PassGate, EnterBreaker, RefusedByBreaker, CerbosAnswers, CerbosFails
    <3>4. QED
      BY <3>1, <3>2, <3>3
  <2>5. CASE LoseEntries \/ Tick \/ UNCHANGED vars
    BY <2>5 DEF LoseEntries, Tick, Cache!Next, vars
  <2>6. QED
    BY <2>1, <2>4, <2>5 DEF Next
<1>3. QED
  BY <1>1, <1>2, Invariance, PTL DEF Spec, Cache!Spec

Laws == INSTANCE CircuitBreakerProofs WITH pc <- execute

(* Here too a closed breaker is below its threshold, and a half-open one   *)
(* has lost no slot: the theorems about the breaker hold of this one.      *)
THEOREM BreakerLawsHold ==
  Spec => [](Breaker!ClosedBelowThreshold /\ Breaker!HalfOpenProbesInFlight)
<1>1. Breaker!Init => Laws!Init
  BY DEF Breaker!Init, Laws!Init
<1>2. [Breaker!CallerNext]_(Breaker!vars) => [Laws!Next]_(Laws!vars)
  <2>1. [Breaker!CallerNext]_(Breaker!vars) => [Laws!CallerNext]_(Laws!vars)
    BY Zenon
       DEF Breaker!CallerNext, Laws!CallerNext, Breaker!Execute, Laws!Execute,
           Breaker!Admit, Laws!Admit, Breaker!CanExecute, Laws!CanExecute,
           Breaker!breaker, Laws!breaker, Breaker!LeaveOpen, Laws!LeaveOpen,
           Breaker!TransitionToHalfOpen, Laws!TransitionToHalfOpen,
           Breaker!RecordRequest, Laws!RecordRequest, Breaker!RecordFailure,
           Laws!RecordFailure, Breaker!TransitionToOpen, Laws!TransitionToOpen,
           Breaker!UpTo, Laws!UpTo, Breaker!RecordSuccess, Laws!RecordSuccess,
           Breaker!Tick, Laws!Tick, Breaker!vars, Laws!vars
  <2>2. QED
    BY <2>1 DEF Laws!Next
<1>3. Laws!Spec => []Laws!ClosedBelowThreshold
  BY Laws!ClosedIsBelowThreshold, ProcsAssumption, BreakerAssumption
     DEF IsFiniteSet, Laws!IsFiniteSet
<1>4. Laws!Spec => []Laws!HalfOpenProbesInFlight
  BY Laws!ProbesAreInFlight, ProcsAssumption, BreakerAssumption
     DEF IsFiniteSet, Laws!IsFiniteSet
<1>5. Laws!ClosedBelowThreshold => Breaker!ClosedBelowThreshold
  BY DEF Laws!ClosedBelowThreshold, Breaker!ClosedBelowThreshold
<1>6. Laws!HalfOpenProbesInFlight => Breaker!HalfOpenProbesInFlight
  BY DEF Laws!HalfOpenProbesInFlight, Breaker!HalfOpenProbesInFlight,
         Laws!InFlight, Breaker!InFlight, Laws!Cardinality, Breaker!Cardinality,
         Laws!IsFiniteSet, Breaker!IsFiniteSet
<1>7. QED
  BY <1>1, <1>2, <1>3, <1>4, <1>5, <1>6, RunsTheBreaker, PTL
     DEF Breaker!CallerSpec, Laws!Spec
=============================================================================
