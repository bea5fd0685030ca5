---------------------------- MODULE AuthService ----------------------------
(***************************************************************************)
(* Service.Authorize of internal/service/service.go: the pipeline every    *)
(* request goes through, run by one goroutine per request, over a shared   *)
(* decision cache (LossyCache) and a shared breaker (CircuitBreaker).      *)
(*                                                                         *)
(* The cache, the breaker and Cerbos are touched one after the other with  *)
(* no lock in between: each touch is an action, and the local computation  *)
(* that follows it belongs to that action.                                 *)
(*                                                                         *)
(* The mapping service, the token validation and Cerbos answer             *)
(* nondeterministically, as policies, mappings and tokens change while the *)
(* program runs.  The variables answered and troubled are history: what    *)
(* Cerbos has answered, and whether a call to it has ever failed.          *)
(*                                                                         *)
(* The cache key joins texts by colons, which they may contain themselves. *)
(* A text that gets into the key is therefore the sequence of its parts    *)
(* between colons, so that joining texts is concatenation; the empty text  *)
(* is <<>>, and never gets into a key.                                     *)
(***************************************************************************)
EXTENDS Integers, Sequences, FiniteSets

CONSTANTS
    Procs,                  \* the goroutines that serve requests
    Requests,               \* the requests clients may send
    Parts,                  \* what texts consist of, between their colons
    Actions,                \* the actions decided by policy
    FailureMode,            \* "fail_open" or "fail_closed"
    CircuitBreakerEnabled,
    DefaultPolicyScope,
    CacheTTL,               \* CacheTTLSeconds, in ticks (on Redis, plus the
                            \* Lag of RedisCache)
    CacheFailedTTL,         \* CacheFailedTTLSeconds, likewise
    FailureThreshold,
    RecoveryTime,
    HalfOpenMaxRequests

ASSUME ProcsAssumption == IsFiniteSet(Procs)
ASSUME BreakerAssumption == /\ CircuitBreakerEnabled \in BOOLEAN
                            /\ FailureThreshold \in Nat \ {0}
                            /\ RecoveryTime \in Nat \ {0}
                            /\ HalfOpenMaxRequests \in Nat \ {0}
ASSUME CacheAssumption == CacheTTL \in Nat \ {0} /\ CacheFailedTTL \in Nat \ {0}
ASSUME ActionsAssumption ==
    Actions \cap {"", "public", "authenticated", "none"} = {}

ASSUME PartsAssumption == {"anonymous", "rmi", "admin", "go"} \subseteq Parts

(* auth tells what extractPrincipal makes of the header, and user the id   *)
(* in a token.  A route is a path and, last, a method, which has no colon. *)
(* The identity provider issues no id of the form "anonymous:...".         *)
ASSUME RequestsAssumption ==
    \A r \in Requests :
       /\ r.auth \in {"none", "malformed", "token"}
       /\ {r.user, r.service, r.scope, r.route} \subseteq Seq(Parts)
       /\ r.route # <<>>
       /\ Len(r.user) > 1 => Head(r.user) # "anonymous"

VARIABLES
    state, failureCount, sinceFailure, halfOpenRequests,
    execute,     \* execute[p]: p's place in Breaker.Execute
    store,       \* the decision cache
    cached,      \* cached[p]: what p's cache lookup returned
    pc,          \* pc[p]: p's place in Authorize
    req,         \* req[p]: the request p serves, or served last
    action,      \* action[p]: the action the mapping resolved it to
    resp,        \* resp[p]: the response being built, or returned last
    answered,    \* the answers Cerbos has given
    troubled     \* whether a Cerbos call has failed

breakerVars == <<state, failureCount, sinceFailure, halfOpenRequests, execute>>
cacheVars == <<store, cached>>
history == <<answered, troubled>>
vars == <<breakerVars, cacheVars, pc, req, action, resp, history>>

Breaker == INSTANCE CircuitBreaker WITH pc <- execute

Anonymous == <<"anonymous">>

(* extractPrincipal: a missing or malformed header, and a token without a  *)
(* user id, make an anonymous principal.                                   *)
HasToken(r) == r.auth = "token"

Principal(r) == IF HasToken(r) /\ r.user # <<>> THEN r.user ELSE Anonymous

(* determineService: the host's prefix stands for the host.                *)
ServiceOfHost(host) ==
    CASE host = "rmi-api" -> <<"rmi">>
      [] host = "admin-api" -> <<"admin">>
      [] OTHER -> <<"go">>

ServiceOf(r) ==
    IF r.service # <<>> THEN r.service ELSE ServiceOfHost(r.host)

KeyOfRoute(r) ==   \* mutant: the principal is left out of the key
    ServiceOf(r) \o r.route

(* generateCacheKey: principal, service, path and method, joined by colons *)
(* and hashed.  Nothing marks where one ends and the next begins.          *)
KeyOf(r) == Principal(r) \o ServiceOf(r) \o r.route

(* The policy scope authorizeToCerbos asks about.  It takes the request's  *)
(* own service, not the one derived from the host.                         *)
EffectiveScope(r) ==
    IF r.scope # <<>> THEN r.scope
    ELSE IF r.service # <<>> THEN r.service
    ELSE DefaultPolicyScope

Keys == {KeyOf(r) : r \in Requests}
CachedResults == [allowed : BOOLEAN, action : Actions]

Cache == INSTANCE LossyCache WITH
    Values <- CachedResults, TTLs <- {CacheTTL, CacheFailedTTL},
    Readers <- Procs, answer <- cached

Response(allowed, status, act) ==
    [allowed |-> allowed, status |-> status, action |-> act]

NoResponse == Response(FALSE, "", "")

NoRequest ==
    [auth |-> "none", user |-> <<>>, service |-> <<>>, host |-> "", scope |-> <<>>,
     route |-> <<>>]

Statuses == {"", "allowed", "denied", "invalid_token", "no_action_mapping",
             "degraded", "circuit_breaker_open", "error"}

(* What Cerbos is asked for a request, and answers.  The service it is     *)
(* told is the request's own, empty when only the host names one.          *)
Answer(r, act, allowed) ==
    [principal |-> Principal(r), service |-> r.service, route |-> r.route,
     scope |-> EffectiveScope(r), action |-> act, allowed |-> allowed]

Answers == {Answer(r, act, allowed) :
              r \in Requests, act \in Actions, allowed \in BOOLEAN}

Locations == {"idle", "lookup", "gate", "execute", "direct", "caching"}

TypeOK ==
    /\ Breaker!TypeOK
    /\ Cache!TypeOK
    /\ pc \in [Procs -> Locations]
    /\ req \in [Procs -> Requests \cup {NoRequest}]
    /\ action \in [Procs -> Actions \cup {"", "public", "authenticated", "none"}]
    /\ resp \in [Procs -> [allowed : BOOLEAN, status : Statuses,
                           action : Actions \cup {"", "public", "authenticated"}]]
    /\ answered \subseteq Answers
    /\ troubled \in BOOLEAN
    /\ \A p \in Procs : execute[p] # "idle" => pc[p] = "execute"
    /\ \A p \in Procs : pc[p] # "idle" => req[p] \in Requests
-----------------------------------------------------------------------------
Init ==
    /\ Breaker!Init
    /\ Cache!Init
    /\ pc = [p \in Procs |-> "idle"]
    /\ req = [p \in Procs |-> NoRequest]
    /\ action = [p \in Procs |-> ""]
    /\ resp = [p \in Procs |-> NoResponse]
    /\ answered = {}
    /\ troubled = FALSE

Goto(p, where) == pc' = [pc EXCEPT ![p] = where]

Return(p, response) ==
    /\ resp' = [resp EXCEPT ![p] = response]
    /\ Goto(p, "idle")

(* A request r comes in and the mapping service resolves it to act, or to  *)
(* nothing: before anything shared is touched, three kinds of requests     *)
(* already have their response.                                            *)
Receive(p, r, act) ==
    /\ pc[p] = "idle"
    /\ req' = [req EXCEPT ![p] = r]
    /\ action' = [action EXCEPT ![p] = act]
    /\ cached' = [cached EXCEPT ![p] = Cache!Miss]
    /\ UNCHANGED <<breakerVars, store, history>>

DenyUnmapped(p, r) ==
    /\ Receive(p, r, "none")
    /\ Return(p, Response(FALSE, "no_action_mapping", ""))

AllowPublic(p, r) ==
    /\ Receive(p, r, "public")
    /\ Return(p, Response(TRUE, "allowed", "public"))

RejectToken(p, r, act) ==
    /\ HasToken(r)
    /\ Receive(p, r, act)
    /\ Return(p, Response(FALSE, "invalid_token", ""))

AcceptPrincipal(p, r, act) ==
    /\ Receive(p, r, act)
    /\ resp' = [resp EXCEPT ![p] = NoResponse]
    /\ Goto(p, "lookup")

ServeHitSliding(p) ==   \* mutant: a hit is cached again
    /\ pc[p] = "lookup"
    /\ \E e \in store :
          /\ e.key = KeyOf(req[p])
          /\ cached' = [cached EXCEPT ![p] = {e.value}]
          /\ Return(p, Response(e.value.allowed,
                                IF e.value.allowed THEN "allowed" ELSE "denied",
                                e.value.action))
          /\ store' = store \cup
                {[e EXCEPT !.left = IF e.value.allowed THEN CacheTTL ELSE CacheFailedTTL]}
    /\ UNCHANGED <<breakerVars, req, action, history>>

(* The cache is asked before the action and the principal are looked at.   *)
(* A hit answers with the action that was cached.                          *)
ServeHit(p) ==
    /\ pc[p] = "lookup"
    /\ Cache!Lookup(p, KeyOf(req[p]))
    /\ \E hit \in cached'[p] :
          Return(p, Response(hit.allowed,
                             IF hit.allowed THEN "allowed" ELSE "denied",
                             hit.action))
    /\ UNCHANGED <<breakerVars, req, action, history>>

Missed(p) ==
    /\ pc[p] = "lookup"
    /\ Cache!Lookup(p, KeyOf(req[p]))
    /\ cached'[p] = Cache!Miss
    /\ UNCHANGED <<breakerVars, req, action, history>>

(* What the name decides by itself: an anonymous principal gets no         *)
(* further, whatever the action, and any other may do what only takes a    *)
(* valid token.                                                            *)
DecideByName(p) ==
    /\ Principal(req[p]) # Anonymous => action[p] = "authenticated"
    /\ Missed(p)
    /\ Return(p, IF Principal(req[p]) = Anonymous
                 THEN Response(FALSE, "denied", action[p])
                 ELSE Response(TRUE, "allowed", action[p]))

ConsultPolicyForAll(p) ==   \* mutant: policy decides for anonymous principals
    /\ action[p] # "authenticated"
    /\ Missed(p)
    /\ Goto(p, "gate")
    /\ UNCHANGED resp

ConsultPolicy(p) ==
    /\ action[p] # "authenticated"
    /\ Principal(req[p]) # Anonymous
    /\ Missed(p)
    /\ Goto(p, "gate")
    /\ UNCHANGED resp

(* handleCircuitBreakerOpen and handleAuthorizationError.                  *)
Degraded(p, status) ==
    IF FailureMode = "fail_open"
    THEN Response(TRUE, "degraded", action[p])
    ELSE Response(FALSE, status, action[p])

WaitWhileOpen(p) == FALSE   \* mutant: requests wait for the breaker to close

(* Authorize looks at the breaker's state before it calls Execute.         *)
RefuseWhileOpen(p) ==
    /\ pc[p] = "gate"
    /\ CircuitBreakerEnabled /\ state = "open"
    /\ Return(p, Degraded(p, "circuit_breaker_open"))
    /\ UNCHANGED <<breakerVars, cacheVars, req, action, history>>

PassGateAlways(p) ==   \* mutant: Execute alone decides
    /\ pc[p] = "gate"
    /\ Goto(p, IF CircuitBreakerEnabled THEN "execute" ELSE "direct")
    /\ UNCHANGED <<breakerVars, cacheVars, req, action, resp, history>>

PassGate(p) ==
    /\ pc[p] = "gate"
    /\ ~(CircuitBreakerEnabled /\ state = "open")
    /\ Goto(p, IF CircuitBreakerEnabled THEN "execute" ELSE "direct")
    /\ UNCHANGED <<breakerVars, cacheVars, req, action, resp, history>>

(* Inside Breaker.Execute, up to the call of Cerbos.                       *)
EnterBreaker(p) ==
    /\ pc[p] = "execute"
    /\ Breaker!Admit(p) \/ Breaker!LeaveOpen(p) \/ Breaker!RecordRequest(p)
    /\ UNCHANGED <<cacheVars, pc, req, action, resp, history>>

RefusedByBreaker(p) ==
    /\ pc[p] = "execute"
    /\ execute[p] = "idle"
    /\ ~Breaker!CanExecute
    /\ Return(p, Degraded(p, "error"))
    /\ UNCHANGED <<breakerVars, cacheVars, req, action, history>>

(* Cerbos answers.  An answer without an effect for the action is a denial *)
(* (IsAllowed).                                                            *)
CerbosAnswers(p, allowed) ==
    /\ \/ pc[p] = "execute" /\ Breaker!RecordSuccess(p)
       \/ pc[p] = "direct" /\ UNCHANGED breakerVars
    /\ resp' = [resp EXCEPT ![p] =
                   Response(allowed, IF allowed THEN "allowed" ELSE "denied",
                            action[p])]
    /\ Goto(p, "caching")
    /\ answered' = answered \cup {Answer(req[p], action[p], allowed)}
    /\ UNCHANGED <<cacheVars, req, action, troubled>>

CerbosFailsUnrecorded(p) ==   \* mutant: the failure is not recorded
    /\ (pc[p] = "execute" /\ execute[p] = "calling") \/ pc[p] = "direct"
    /\ Return(p, Degraded(p, "error"))
    /\ troubled' = TRUE
    /\ UNCHANGED <<breakerVars, cacheVars, req, action, answered>>

CerbosFailsCached(p) ==   \* mutant: the degraded response is cached
    /\ \/ pc[p] = "execute" /\ Breaker!RecordFailure(p)
       \/ pc[p] = "direct" /\ UNCHANGED breakerVars
    /\ resp' = [resp EXCEPT ![p] = Degraded(p, "error")]
    /\ Goto(p, "caching")
    /\ troubled' = TRUE
    /\ UNCHANGED <<cacheVars, req, action, answered>>

(* The call fails: no connection, a timeout, a client that went away, a    *)
(* status other than 200, a body that does not parse.                      *)
CerbosFails(p) ==
    /\ \/ pc[p] = "execute" /\ Breaker!RecordFailure(p)
       \/ pc[p] = "direct" /\ UNCHANGED breakerVars
    /\ Return(p, Degraded(p, "error"))
    /\ troubled' = TRUE
    /\ UNCHANGED <<cacheVars, req, action, answered>>

CacheResultOneTTL(p) ==   \* mutant: denials live as long as grants
    /\ pc[p] = "caching"
    /\ \/ Cache!Put(KeyOf(req[p]),
                    [allowed |-> resp[p].allowed, action |-> resp[p].action],
                    CacheTTL)
       \/ UNCHANGED cacheVars
    /\ Goto(p, "idle")
    /\ UNCHANGED <<breakerVars, req, action, resp, history>>

(* cacheAuthResult; a Set that fails is only logged.                       *)
CacheResult(p) ==
    /\ pc[p] = "caching"
    /\ \/ Cache!Put(KeyOf(req[p]),
                    [allowed |-> resp[p].allowed, action |-> resp[p].action],
                    IF resp[p].allowed THEN CacheTTL ELSE CacheFailedTTL)
       \/ UNCHANGED cacheVars
    /\ Goto(p, "idle")
    /\ UNCHANGED <<breakerVars, req, action, resp, history>>

(* Around the pipeline: the cache loses entries, time passes.              *)
LoseEntries ==
    /\ Cache!Forget
    /\ UNCHANGED <<breakerVars, pc, req, action, resp, history>>

Tick ==
    /\ IF sinceFailure < RecoveryTime THEN Breaker!Tick ELSE UNCHANGED breakerVars
    /\ Cache!Tick
    /\ UNCHANGED <<pc, req, action, resp, history>>

Arrive(p) ==
    \E r \in Requests :
       \/ DenyUnmapped(p, r)
       \/ AllowPublic(p, r)
       \/ \E act \in Actions \cup {"authenticated"} :
             RejectToken(p, r, act) \/ AcceptPrincipal(p, r, act)

(* The steps of a request other than the two an answer of Cerbos takes: to *)
(* be given, and to be cached.                                             *)
ProceedWithoutAnswer(p) ==
    \/ ServeHit(p)
    \/ DecideByName(p)
    \/ ConsultPolicy(p)
    \/ RefuseWhileOpen(p)
    \/ PassGate(p)
    \/ EnterBreaker(p)
    \/ RefusedByBreaker(p)
    \/ CerbosFails(p)

Proceed(p) ==
    \/ ProceedWithoutAnswer(p)
    \/ \E allowed \in BOOLEAN : CerbosAnswers(p, allowed)
    \/ CacheResult(p)

Next ==
    \/ \E p \in Procs : Arrive(p) \/ Proceed(p)
    \/ LoseEntries
    \/ Tick

Spec == Init /\ [][Next]_vars

(* A goroutine runs on until it has answered: every call it makes returns  *)
(* or times out.  Time passes, and requests for policy-decided endpoints   *)
(* keep coming.                                                            *)
Fairness ==
    /\ WF_vars(Tick)
    /\ \A p \in Procs :
          /\ WF_vars(Proceed(p))
          /\ WF_vars(\E r \in Requests, act \in Actions : AcceptPrincipal(p, r, act))

FairSpec == Spec /\ Fairness
-----------------------------------------------------------------------------
(* The principals and the services of two requests have as many parts, as  *)
(* they do when none of them contains a colon.                             *)
PartAlike(r, q) ==
    /\ Len(Principal(r)) = Len(Principal(q))
    /\ Len(ServiceOf(r)) = Len(ServiceOf(q))

(* A request for a policy-decided action is allowed only if Cerbos has     *)
(* allowed this very action on a request with the same cache key, or, in   *)
(* fail-open mode, as a degraded response after a Cerbos call has failed.  *)
(* That request had the same principal, service and route, unless colons   *)
(* in a user id, a service or a path make the key of another out of it.    *)
(* A cached decision counts for the action it was made for.                *)
AllowIsBacked ==
    \A p \in Procs :
       resp[p].allowed /\ resp[p].action \in Actions =>
          \/ \E r \in Requests :
                /\ Answer(r, resp[p].action, TRUE) \in answered
                /\ KeyOf(r) = KeyOf(req[p])
                /\ PartAlike(r, req[p]) =>
                      /\ Principal(r) = Principal(req[p])
                      /\ ServiceOf(r) = ServiceOf(req[p])
                      /\ r.route = req[p].route
          \/ /\ FailureMode = "fail_open"
             /\ resp[p].status = "degraded"
             /\ troubled

(* Only answers of Cerbos are cached: no degraded or error response, no    *)
(* rejection by the breaker.                                               *)
CacheHoldsAnswers ==
    \A e \in store :
       \E r \in Requests :
          /\ KeyOf(r) = e.key
          /\ Answer(r, e.value.action, e.value.allowed) \in answered

(* Without a user nothing but a public endpoint is allowed, though the     *)
(* cache is asked before the principal is looked at.                       *)
AnonymousOnlyPublic ==
    \A p \in Procs :
       resp[p].allowed /\ Principal(req[p]) = Anonymous
          => resp[p].action = "public"

(* Once the breaker is open and no goroutine is inside Execute, it is open *)
(* for good: Authorize sends no request into Execute while it is open, and *)
(* only Execute would take it to half_open.                                *)
Wedged ==
    /\ CircuitBreakerEnabled
    /\ state = "open"
    /\ \A p \in Procs : pc[p] # "execute"

WedgedForGood == [][Wedged => Wedged']_vars

(* No request waits for another goroutine, for the breaker or for time:    *)
(* wherever its goroutine stands, it can go on.  As no place is passed     *)
(* twice, a goroutine that runs on answers.                                *)
NobodyWaits == \A p \in Procs : pc[p] # "idle" => ENABLED Proceed(p)

(* "Half-open: Test Cerbos API before resuming normal operation"           *)
(* (README.md:402): an open breaker gets to test Cerbos again.             *)
BreakerRecovers == state = "open" ~> state # "open"

(* "Native support for dynamic policy scopes" (README.md:7): a policy      *)
(* decision that allows a request was made in the request's own scope.     *)
ScopeRespected ==
    \A p \in Procs :
       resp[p].status = "allowed" /\ resp[p].action \in Actions =>
          Answer(req[p], resp[p].action, TRUE) \in answered
=============================================================================
