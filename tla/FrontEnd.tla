------------------------------ MODULE FrontEnd ------------------------------
(***************************************************************************)
(* The two faces of src/cmd/main.go: Check, called by Envoy over gRPC, and *)
(* ServeHTTP, called over HTTP.  Each turns what it is sent into a request *)
(* for Service.Authorize, or answers by itself, and turns the response     *)
(* into a reply.                                                           *)
(*                                                                         *)
(* A message is what Envoy would send on either port.  A header is a set:  *)
(* {} when it is absent, {v} when it is there with value v, which may be   *)
(* empty.  A path is a sequence of pieces; the piece "?" starts its query, *)
(* and some pieces are escapes, such as "%20", of another piece.           *)
(***************************************************************************)
EXTENDS Integers, SequencesExt

CONSTANTS
    InternalHosts,   \* the hosts that end in .svc.cluster.local
    Escapes          \* Escapes[e]: the piece that the escape e stands for

ASSUME EscapesAssumption ==
    /\ \A e \in DOMAIN Escapes : Escapes[e] \in STRING
    /\ "/" \notin DOMAIN Escapes

NoPath == <<>>
HealthPath == <<"/", "health">>

StripQueryParams(path) ==
    LET query == SelectInSeq(path, LAMBDA piece : piece = "?")
    IN  IF query = 0 THEN path ELSE SubSeq(path, 1, query - 1)

ValueOf(header) == CHOOSE v \in header : TRUE

(* Check takes the first header that is there, be it empty; ServeHTTP the  *)
(* first that has a value.                                                 *)
FirstThere(headers, none) ==
    LET first == SelectInSeq(headers, LAMBDA h : h # {})
    IN  IF first = 0 THEN none ELSE ValueOf(headers[first])

FirstNonEmpty(headers, none) ==
    LET first == SelectInSeq(headers, LAMBDA h : h \notin {{}, {none}})
    IN  IF first = 0 THEN none ELSE ValueOf(headers[first])
-----------------------------------------------------------------------------
(* Check.  The host is the header of that name, and the path of an         *)
(* external request comes from one header only.                            *)
GrpcHost(m) == FirstThere(<<m.hostHeader>>, "")

GrpcPath(m) ==
    StripQueryParams(IF GrpcHost(m) \in InternalHosts
                     THEN m.path
                     ELSE FirstThere(<<m.originalPath>>, NoPath))

GrpcRequest(m) ==
    [auth |-> FirstThere(<<m.authorization>>, ""),
     service |-> FirstThere(<<m.targetService, m.serviceName>>, ""),
     scope |-> FirstThere(<<m.policyScope, m.cerbosScope, m.appName>>, ""),
     path |-> GrpcPath(m),
     method |-> m.method,
     host |-> GrpcHost(m)]

(* What becomes of a message: it is let through as a preflight, refused    *)
(* for want of a path, or asked about.                                     *)
GrpcTurn(m) ==
    IF m.method = "OPTIONS" THEN "preflight"
    ELSE IF GrpcPath(m) = NoPath THEN "missing path"
    ELSE "ask"

(* ServeHTTP.  net/http splits the query from the path of the URL, and     *)
(* replaces the escapes in what is left.                                   *)
Decoded(path) ==
    [i \in 1 .. Len(path) |->
       IF path[i] \in DOMAIN Escapes THEN Escapes[path[i]] ELSE path[i]]

UrlPath(m) == Decoded(StripQueryParams(m.path))

HttpPath(m) ==
    StripQueryParams(
       IF m.host \in InternalHosts THEN UrlPath(m)
       ELSE FirstNonEmpty(<<m.originalPath, m.originalURI, m.forwardedURI,
                            IF UrlPath(m) = <<"/">> THEN {} ELSE {UrlPath(m)}>>,
                          NoPath))

HttpRequestSwapped(m) ==   \* mutant: the fallbacks come first
    [auth |-> FirstThere(<<m.authorization>>, ""),
     service |-> FirstNonEmpty(<<m.serviceName, m.targetService>>, ""),
     scope |-> FirstNonEmpty(<<m.policyScope, m.appName, m.cerbosScope>>, ""),
     path |-> HttpPath(m),
     method |-> m.method,
     host |-> m.host]

HttpRequest(m) ==
    [auth |-> FirstNonEmpty(<<m.authorization>>, ""),
     service |-> FirstNonEmpty(<<m.targetService, m.serviceName>>, ""),
     scope |-> FirstNonEmpty(<<m.policyScope, m.cerbosScope, m.appName>>, ""),
     path |-> HttpPath(m),
     method |-> m.method,
     host |-> m.host]

HttpTurn(m) ==
    IF m.method = "GET" /\ UrlPath(m) = HealthPath THEN "health"
    ELSE IF m.method = "OPTIONS" THEN "preflight"
    ELSE IF HttpPath(m) = NoPath THEN "missing path"
    ELSE "ask"
-----------------------------------------------------------------------------
(* Replies: whether the request may pass, and the headers that tell why    *)
(* not.  A header that is not sent is "".                                  *)
Reply(code, status, health, breaker) ==
    [code |-> code, status |-> status, health |-> health, breaker |-> breaker]

(* allow, and an allowed response of the service: no header tells its      *)
(* status, be it a degraded one.                                           *)
Allow == Reply("ok", "", "", "")

DenyMissingPathAsText == Reply("ok", "", "", "")   \* mutant: no status is written

DenyMissingPath == Reply("bad request", "", "", "")

(* denyWithDetails.  The breaker's state is asked for now, after the       *)
(* decision.                                                               *)
DenyWithDetails(status, breaker) ==
    IF status \in {"degraded", "circuit_breaker_open"}
    THEN Reply("forbidden", status, "degraded", breaker)
    ELSE Reply("forbidden", status, "healthy", "")

GrpcReply(response, breaker) ==
    IF response.allowed THEN Allow ELSE DenyWithDetails(response.status, breaker)

HttpReply(response, breaker) ==
    IF response.allowed THEN Allow ELSE DenyWithDetails(response.status, breaker)
-----------------------------------------------------------------------------
(* Both ports take the message for one from inside the cluster, or neither *)
(* does: the gRPC port looks at the host header, which may be missing.     *)
SameSide(m) == GrpcHost(m) \in InternalHosts <=> m.host \in InternalHosts

NoEmptyHeader(m) ==
    {""} \notin {m.targetService, m.serviceName,
                m.policyScope, m.cerbosScope, m.appName}

(* The ports read a message by rules of their own, and differ on little.   *)
(* A header without a value hides those after it from the gRPC port only,  *)
(* which then names no service, or no scope.  An external request that the *)
(* gRPC port asks about is asked about by the same path on the HTTP port;  *)
(* an internal one by the same path with its escapes replaced.             *)
PortsAgree(m) ==
    LET g == GrpcRequest(m)
        h == HttpRequest(m)
    IN  /\ g.auth = h.auth /\ g.method = h.method
        /\ g.service \in {"", h.service} /\ g.scope \in {"", h.scope}
        /\ NoEmptyHeader(m) => g.service = h.service /\ g.scope = h.scope
        /\ m.hostHeader = {m.host} => g.host = h.host
        /\ SameSide(m) =>
              /\ IF m.host \in InternalHosts
                 THEN h.path = StripQueryParams(Decoded(g.path))
                 ELSE g.path \in {NoPath, h.path}
              /\ GrpcTurn(m) = "ask" => HttpTurn(m) \in {"ask", "health"}

(* No message is asked about without a path, or with a query in it, be its *)
(* "?" an escape: the mapping knows bare paths only.                       *)
AskedPathIsBare(m) ==
    \A turn \in {<<GrpcTurn(m), GrpcPath(m)>>, <<HttpTurn(m), HttpPath(m)>>} :
       turn[1] = "ask" => turn[2] # NoPath /\ ~Contains(turn[2], "?")
=============================================================================
