------------------------------ MODULE MCServer ------------------------------
(* Instances of Server for TLC.                                            *)
EXTENDS Server, TLC

NumbersUnset == [v \in Numbers |-> Unset]

Complete ==
    [numbers |-> NumbersUnset, cerbos |-> TRUE, mapping |-> TRUE, jwks |-> TRUE,
     issuer |-> TRUE, sentinel |-> TRUE, mode |-> "", enabled |-> ""]

Values(v) ==
    {Text, Number(0), Number(1)} \cup IF v = "PORT" THEN {Number(65536)} ELSE {}

(* Every variable at every kind of value, alone.                           *)
OneOff ==
    {Complete} \cup
    UNION {{[Complete EXCEPT !.numbers[v] = s] : s \in Values(v)} : v \in Numbers} \cup
    {[Complete EXCEPT !.cerbos = FALSE], [Complete EXCEPT !.mapping = FALSE],
     [Complete EXCEPT !.jwks = FALSE], [Complete EXCEPT !.issuer = FALSE],
     [Complete EXCEPT !.mode = "other"], [Complete EXCEPT !.mode = "fail_closed"],
     [Complete EXCEPT !.enabled = "other"]}

X == <<"/", "x">>
Query == <<"?", "q">>
Escaped == <<"/", "x", "%20", "y", "%3F", "z">>

PercentEscapes == ("%20" :> " ") @@ ("%3F" :> "?")

Plain ==
    [method |-> "GET", host |-> "go-api", hostHeader |-> {"go-api"},
     path |-> X \o Query, originalPath |-> {X \o Query}, originalURI |-> {},
     forwardedURI |-> {}, authorization |-> {"alice"}, targetService |-> {},
     serviceName |-> {}, policyScope |-> {}, cerbosScope |-> {}, appName |-> {}]

Inside == "app.svc.cluster.local"
Internal == {Inside}

Envoy ==
    {Plain,
     [Plain EXCEPT !.method = "OPTIONS"],
     [Plain EXCEPT !.originalPath = {}, !.path = Escaped],
     [Plain EXCEPT !.originalPath = {Query}, !.hostHeader = {}],
     [Plain EXCEPT !.host = Inside, !.hostHeader = {Inside},
                   !.path = Escaped \o Query],
     [Plain EXCEPT !.serviceName = {"rmi"}, !.targetService = {"go"},
                   !.cerbosScope = {"tenant1"}, !.appName = {"app"}],
     [Plain EXCEPT !.authorization = {""}, !.targetService = {""},
                   !.serviceName = {"rmi"}, !.policyScope = {""},
                   !.appName = {"app"}],
     [Plain EXCEPT !.path = HealthPath]}
=============================================================================
