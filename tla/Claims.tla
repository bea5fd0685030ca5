------------------------------- MODULE Claims -------------------------------
(***************************************************************************)
(* Who a request comes from: ExtractBearerToken, ParseToken and the claims *)
(* of internal/jwt/jwt.go, and extractPrincipal of                         *)
(* internal/service/service.go.                                            *)
(*                                                                         *)
(* A header is the words of the Authorization header, split once.  A token *)
(* is what its text decodes to, and the key that signed it.  An optional   *)
(* thing is a set: {} when it is absent.  Times are Unix seconds, and a    *)
(* claim that is absent is 0.  The library checks nothing but the          *)
(* signature: Claims redeclares exp, nbf and iss, so the fields the        *)
(* library looks at stay empty.                                            *)
(***************************************************************************)
EXTENDS Integers, SequencesExt

CONSTANTS
    ExpectedIssuer,   \* "" when none is configured
    RoleLists,        \* the lists of roles a token may carry
    Tokens,           \* the tokens clients may send
    Keyrings,         \* what getPublicKey may know: kid -> {key}, or {}
    Instants          \* the times a token may be looked at

(* Load insists on an issuer.                                              *)
ASSUME IssuerAssumption == ExpectedIssuer # ""

ASSUME InstantsAssumption ==
    /\ Instants \subseteq Nat
    /\ \A token \in Tokens : token.claims.exp \in Int /\ token.claims.nbf \in Int

(* getPublicKey is asked for the kid of a token, and knows one key at most. *)
ASSUME KeyringsAssumption ==
    \A token \in Tokens, ring \in Keyrings :
       /\ token.kid \in DOMAIN ring
       /\ \A a, b \in ring[token.kid] : a = b

Nobody == "anonymous"

None == {}

(* The user a token names.                                                 *)
GetUserID(claims) ==
    IF claims.username # "" THEN claims.username ELSE claims.sub

AppendAll(roles, values) == roles \o values   \* mutant: duplicates are kept

AppendUnique(roles, values) ==
    FoldLeft(LAMBDA rs, r : IF Contains(rs, r) THEN rs ELSE Append(rs, r),
             roles, values)

(* Direct roles, then the realm's, if there are any, then groups.          *)
GetRoles(claims) ==
    AppendUnique(
       FoldLeft(AppendUnique, AppendUnique(<<>>, claims.roles),
                SetToSeq(claims.realm)),
       claims.groups)

(* The token of a header, or none: the scheme must be there, in any case.  *)
ExtractBearerToken(header) ==
    IF Len(header) = 2 /\ header[1] \in {"bearer", "Bearer"}
    THEN {header[2]} ELSE None
-----------------------------------------------------------------------------
ExpiredTooSoon(claims, now) ==   \* mutant: the last second does not count
    claims.exp > 0 /\ now >= claims.exp

Expired(claims, now) == claims.exp > 0 /\ now > claims.exp

NotYetValid(claims, now) == claims.nbf > 0 /\ now < claims.nbf

(* The signature is verified with the key that getPublicKey has found, and *)
(* with nothing but RSA.                                                   *)
Verified(token, key) ==
    /\ token.alg = "RSA"
    /\ token.signer = key

(* The claims of a token, or none when any check fails.                    *)
ParseToken(token, ring, now) ==
    LET claims == token.claims
    IN  IF /\ token.wellFormed
           /\ token.kid # ""
           /\ \E key \in ring[token.kid] : Verified(token, key)
           /\ ExpectedIssuer # "" => claims.iss = ExpectedIssuer
           /\ ~Expired(claims, now)
           /\ ~NotYetValid(claims, now)
        THEN {claims} ELSE None

(* A named user has at least the role "authenticated".                     *)
RolesOf(id, roles) ==
    IF roles = <<>> /\ id # Nobody THEN <<"authenticated">> ELSE roles

PrincipalOf(claims) ==
    LET id == IF GetUserID(claims) = "" THEN Nobody ELSE GetUserID(claims)
    IN  [id |-> id, roles |-> RolesOf(id, GetRoles(claims))]

(* No token, or a header of another form: nobody.  A token that is not     *)
(* accepted: an error, which is none.                                      *)
ExtractPrincipal(header, ring, now) ==
    IF ExtractBearerToken(header) = None
    THEN {[id |-> Nobody, roles |-> <<>>]}
    ELSE {PrincipalOf(claims) : claims \in
            UNION {ParseToken(token, ring, now) : token \in ExtractBearerToken(header)}}
-----------------------------------------------------------------------------
(* GetRoles lists every role of the three lists once, each where it comes  *)
(* first; the realm's list may be absent.                                  *)
RolesInOrder ==
    \A direct, groups \in RoleLists,
       realm \in {None} \cup {{list} : list \in RoleLists} :
       LET listed == direct \o FlattenSeq(SetToSeq(realm)) \o groups
           roles == GetRoles([roles |-> direct, realm |-> realm, groups |-> groups])
           First(r) == SelectInSeq(listed, LAMBDA x : x = r)
       IN  /\ ToSet(roles) = ToSet(listed)
           /\ \A i, j \in DOMAIN roles : i < j => First(roles[i]) < First(roles[j])

(* A token that its issuer signed with the key known under the token's     *)
(* kid, and that is valid now.                                             *)
Genuine(token, ring, now) ==
    LET Window == {t \in Instants : /\ token.claims.exp > 0 => t <= token.claims.exp
                                    /\ t >= token.claims.nbf}
    IN  /\ token.wellFormed /\ token.alg = "RSA"
        /\ \E k \in DOMAIN ring \ {""} : k = token.kid /\ ring[k] = {token.signer}
        /\ token.claims.iss = ExpectedIssuer
        /\ now \in Window

(* Whoever is named has shown a genuine token, and comes with a role; such *)
(* a token is never refused.  Nothing else a client may send makes it more *)
(* than nobody.                                                            *)
NamesAreGenuine ==
    \A token \in Tokens, ring \in Keyrings, now \in Instants,
       scheme \in {"bearer", "Bearer", "Basic"} :
       LET who == ExtractPrincipal(<<scheme, token>>, ring, now)
       IN  /\ \A p \in who : p.id # Nobody =>
                 /\ Genuine(token, ring, now)
                 /\ scheme # "Basic" /\ p.roles # <<>>
           /\ Genuine(token, ring, now) => who # None
=============================================================================
