--------------------------- MODULE MCAuthService ---------------------------
(* Instances of AuthService for TLC.                                       *)
EXTENDS AuthService, TLC

Request(auth, user, service, scope, route) ==
    [auth |-> auth, user |-> user, service |-> service, host |-> "go-api",
     scope |-> scope, route |-> route]

X == <<"/x", "GET">>
Alice == Request("token", <<"alice">>, <<>>, <<>>, X)

(* A user, and a client whose token names no user, on one route.           *)
AliceAndNobody == {Alice, Request("token", <<>>, <<>>, <<>>, X)}

(* A user on two routes that share a key, "alice:go:/x:/y:GET".            *)
Colliding ==
    {Request("token", <<"alice">>, <<>>, <<>>, <<"/x", "/y", "GET">>),
     Request("token", <<"alice">>, <<"go", "/x">>, <<>>, <<"/y", "GET">>)}

OnlyAlice == {Alice}

(* One user, one route, two policy scopes.                                 *)
TwoScopes ==
    {Request("token", <<"alice">>, <<"go">>, <<"tenant1">>, X),
     Request("token", <<"alice">>, <<"go">>, <<"tenant2">>, X)}

FewParts ==
    {"anonymous", "rmi", "admin", "go", "alice", "/x", "/y", "GET",
     "tenant1", "tenant2", "default"}

DefaultScope == <<"default">>

OneAction == {"read"}

Symmetry == Permutations(Procs)
=============================================================================
