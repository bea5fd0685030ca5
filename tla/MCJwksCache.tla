---------------------------- MODULE MCJwksCache ----------------------------
(* Instances of JwksCache, and of the Claims it extends, for TLC.          *)
EXTENDS JwksCache, TLC

(* Lists of up to three roles, two of them distinct.                       *)
SmallRoleLists == UNION {[1 .. n -> {"r1", "r2"}] : n \in 0 .. 3}

Claimed(username, sub, roles, exp, nbf, iss) ==
    [username |-> username, sub |-> sub, roles |-> roles, realm |-> {}, groups |-> <<>>,
     exp |-> exp, nbf |-> nbf, iss |-> iss]

Token(wellFormed, alg, k, signer, claims) ==
    [wellFormed |-> wellFormed, alg |-> alg, kid |-> k, signer |-> signer,
     claims |-> claims]

(* Tokens of every origin and every window of validity, with and without   *)
(* a name, a subject and roles.                                            *)
Someone ==
    {Claimed(username, sub, roles, exp, nbf, iss) :
       username \in {"", "alice"}, sub \in {"", "17"}, roles \in {<<>>, <<"r1">>},
       exp \in 0 .. 3, nbf \in 0 .. 3, iss \in {"idp", "other"}}
Alice == Claimed("alice", "17", <<>>, 0, 0, "idp")

SmallTokens ==
    {Token(TRUE, "RSA", "k1", "key1", claims) : claims \in Someone} \cup
    {Token(wellFormed, alg, k, signer, Alice) :
       wellFormed \in BOOLEAN, alg \in {"RSA", "HMAC"}, k \in {"", "k1", "k2"},
       signer \in {"key1", "key2"}}

SmallKeyrings == [{"", "k1", "k2"} -> {{}, {"key1"}, {"key2"}}]

Symmetry == Permutations(Procs)
=============================================================================
