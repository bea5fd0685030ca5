-------------------------- MODULE JwksCacheProofs --------------------------
(***************************************************************************)
(* What JwksCache guarantees for any number of goroutines and keys, and    *)
(* any lifetimes; and whom the claims of a token name, for any tokens.     *)
(***************************************************************************)
EXTENDS JwksCache, TLAPS

(* What a running exchange has downloaded was published when it began, or  *)
(* later, and holds the keys that are never withdrawn.                     *)
PublishedNow ==
    /\ Stable \subseteq published
    /\ \A k \in published : gone[k] = 0

BodyIsRecent ==
    \A p \in Procs : pc[p] = "applying" =>
       /\ Stable \subseteq body[p]
       /\ \A k \in body[p] : gone[k] <= flight[p]

(* A cache that has been fetched within the grace period, or just now,     *)
(* holds the keys that are never withdrawn, and so did what a goroutine    *)
(* read of it before its exchange.                                         *)
CacheIsRecent ==
    /\ age < Old => \A k \in keys : gone[k] <= age + Timeout
    /\ age < GraceTTL => Stable \subseteq keys
    /\ \A p \in Procs : pc[p] = "reading" => Stable \subseteq keys

ReadingIsRecent ==
    \A p \in Procs :
       pc[p] # "idle" /\ kid[p] \in Stable /\ cacheAge[p] < GraceTTL
       => keyExists[p]

IInv ==
    /\ TypeOK
    /\ PublishedNow
    /\ BodyIsRecent
    /\ CacheIsRecent
    /\ ReadingIsRecent
    /\ NoOutageWithinGrace
-----------------------------------------------------------------------------
(* The initial states satisfy the invariant: nothing has been fetched.     *)
LEMMA Initially == Init => IInv
<1> SUFFICES ASSUME Init PROVE IInv
  OBVIOUS
<1> USE TimesAssumption DEF Init, Old, Forgotten
<1>1. TypeOK
  BY DEF TypeOK
<1>2. PublishedNow
  BY DEF PublishedNow
<1>3. BodyIsRecent
  BY DEF BodyIsRecent
<1>4. CacheIsRecent
  BY DEF CacheIsRecent
<1>5. ReadingIsRecent
  BY DEF ReadingIsRecent
<1>6. NoOutageWithinGrace
  BY DEF NoOutageWithinGrace
<1>7. QED
  BY <1>1, <1>2, <1>3, <1>4, <1>5, <1>6 DEF IInv

(* Recording whether k is in S keeps a function BOOLEAN-valued.            *)
LEMMA RecordsMembership ==
  ASSUME NEW P, NEW f \in [P -> BOOLEAN], NEW p, NEW k, NEW S
  PROVE  [f EXCEPT ![p] = k \in S] \in [P -> BOOLEAN]
<1>1. (k \in S) = TRUE \/ (k \in S) = FALSE
  OBVIOUS
<1>2. QED
  BY <1>1, Zenon

(* A first reading, answered at once or followed by a fetch.               *)
LEMMA ReadKeeps ==
  ASSUME IInv, NEW p \in Procs, NEW k \in Kids, ReadFresh(p, k) \/ StartFetch(p, k)
  PROVE  IInv'
<1> USE TimesAssumption DEF IInv, ReadFresh, StartFetch, ReadCache, Return, TypeOK, Old
<1>1. TypeOK'
  <2>1. /\ kid' \in [Procs -> Kids]
        /\ keyExists' \in [Procs -> BOOLEAN]
        /\ cacheAge' \in [Procs -> 0 .. Old]
    <3>1. kid' = [kid EXCEPT ![p] = k] /\ kid \in [Procs -> Kids]
      OBVIOUS
    <3>2. keyExists' = [keyExists EXCEPT ![p] = k \in keys] /\ keyExists \in [Procs -> BOOLEAN]
      OBVIOUS
    <3>3. cacheAge' = [cacheAge EXCEPT ![p] = age] /\ cacheAge \in [Procs -> 0 .. Old] /\ age \in 0 .. Old
      OBVIOUS
    <3>4. keyExists' \in [Procs -> BOOLEAN]
      BY <3>2, RecordsMembership
    <3>5. QED
      BY ONLY <3>1, <3>3, <3>4, k \in Kids, p \in Procs
  <2>2. CASE ReadFresh(p, k)
    BY <2>1, <2>2
  <2>3. CASE StartFetch(p, k)
    BY <2>1, <2>3
  <2>4. QED
    BY <2>2, <2>3
<1>2. PublishedNow'
  BY DEF PublishedNow
<1>3. BodyIsRecent'
  BY DEF BodyIsRecent
<1>4. CacheIsRecent'
  BY DEF CacheIsRecent
<1>5. ReadingIsRecent'
  <2>1. age < GraceTTL /\ k \in Stable => k \in keys
    BY DEF CacheIsRecent
  <2>2. /\ kid'[p] = k /\ cacheAge'[p] = age
        /\ keyExists'[p] = (k \in keys)
    OBVIOUS
  <2>3. \A q \in Procs \ {p} : /\ pc'[q] = pc[q] /\ kid'[q] = kid[q]
                               /\ cacheAge'[q] = cacheAge[q]
                               /\ keyExists'[q] = keyExists[q]
    OBVIOUS
  <2>4. QED
    BY <2>1, <2>2, <2>3 DEF ReadingIsRecent
<1>6. NoOutageWithinGrace'
  BY DEF NoOutageWithinGrace
<1>7. QED
  BY <1>1, <1>2, <1>3, <1>4, <1>5, <1>6

(* The endpoint answers.                                                   *)
LEMMA DownloadKeeps ==
  ASSUME IInv, NEW p \in Procs, Download(p)
  PROVE  IInv'
<1> USE TimesAssumption DEF IInv, Download, clocks, reading, TypeOK
<1>1. TypeOK'
  OBVIOUS
<1>2. PublishedNow'
  BY DEF PublishedNow
<1>3. BodyIsRecent'
  BY DEF BodyIsRecent, PublishedNow
<1>4. CacheIsRecent'
  BY DEF CacheIsRecent
<1>5. ReadingIsRecent'
  BY DEF ReadingIsRecent
<1>6. NoOutageWithinGrace'
  BY DEF NoOutageWithinGrace
<1>7. QED
  BY <1>1, <1>2, <1>3, <1>4, <1>5, <1>6

(* A failed fetch refuses a key that is never withdrawn only beyond the    *)
(* grace period, since within it the first reading has found the key.      *)
LEMMA FetchFailsKeeps ==
  ASSUME IInv, NEW p \in Procs, FetchFails(p)
  PROVE  IInv'
<1> USE TimesAssumption DEF IInv, FetchFails, Return, clocks, reading, TypeOK, Old
<1>1. TypeOK'
  OBVIOUS
<1>2. PublishedNow'
  BY DEF PublishedNow
<1>3. BodyIsRecent'
  BY DEF BodyIsRecent
<1>4. CacheIsRecent'
  BY DEF CacheIsRecent
<1>5. ReadingIsRecent'
  BY DEF ReadingIsRecent
<1>6. NoOutageWithinGrace'
  BY DEF NoOutageWithinGrace, ReadingIsRecent
<1>7. QED
  BY <1>1, <1>2, <1>3, <1>4, <1>5, <1>6

(* The whole cache is replaced, by a body no older than its exchange.      *)
LEMMA ApplyKeeps ==
  ASSUME IInv, NEW p \in Procs, Apply(p)
  PROVE  IInv'
<1> USE TimesAssumption DEF IInv, Apply, reading, TypeOK, Old
<1>1. TypeOK'
  OBVIOUS
<1>2. PublishedNow'
  BY DEF PublishedNow
<1>3. BodyIsRecent'
  BY DEF BodyIsRecent
<1>4. CacheIsRecent'
  <2>1. \A k \in body[p] : gone[k] <= flight[p]
    BY DEF BodyIsRecent
  <2>2. \A k \in body[p] : gone[k] <= Timeout
    <3>1. flight[p] <= Timeout
      OBVIOUS
    <3>2. \A k \in body[p] : gone[k] \in Int /\ flight[p] \in Int
      BY DEF Forgotten
    <3>3. QED
      BY <2>1, <3>1, <3>2
  <2>3. Stable \subseteq body[p]
    BY DEF BodyIsRecent
  <2>4. QED
    BY <2>2, <2>3 DEF CacheIsRecent
<1>5. ReadingIsRecent'
  BY DEF ReadingIsRecent
<1>6. NoOutageWithinGrace'
  BY DEF NoOutageWithinGrace
<1>7. QED
  BY <1>1, <1>2, <1>3, <1>4, <1>5, <1>6

(* The second reading refuses no key that is never withdrawn.              *)
LEMMA ReadAgainKeeps ==
  ASSUME IInv, NEW p \in Procs, ReadAgain(p)
  PROVE  IInv'
<1> USE TimesAssumption DEF IInv, ReadAgain, Return, clocks, reading, TypeOK, Old
<1>1. TypeOK'
  OBVIOUS
<1>2. PublishedNow'
  BY DEF PublishedNow
<1>3. BodyIsRecent'
  BY DEF BodyIsRecent
<1>4. CacheIsRecent'
  BY DEF CacheIsRecent
<1>5. ReadingIsRecent'
  BY DEF ReadingIsRecent
<1>6. NoOutageWithinGrace'
  BY DEF NoOutageWithinGrace, CacheIsRecent
<1>7. QED
  BY <1>1, <1>2, <1>3, <1>4, <1>5, <1>6

(* A rotation only starts to count how long a key has been gone.           *)
LEMMA RotateKeeps ==
  ASSUME IInv, Rotate
  PROVE  IInv'
<1> USE TimesAssumption DEF IInv, Rotate, reading, TypeOK, Old, Forgotten
<1>1. TypeOK'
  OBVIOUS
<1>2. PublishedNow'
  BY DEF PublishedNow
<1>3. \A k \in Kids : gone'[k] \in Nat /\ gone[k] \in Nat /\ gone'[k] <= gone[k]
  OBVIOUS
<1>4. BodyIsRecent'
  <2> SUFFICES ASSUME NEW p \in Procs, pc[p] = "applying"
               PROVE  /\ Stable \subseteq body[p]
                      /\ \A k \in body[p] : gone'[k] <= flight[p]
    BY DEF BodyIsRecent
  <2>1. /\ Stable \subseteq body[p]
        /\ \A k \in body[p] : gone[k] <= flight[p]
    BY DEF BodyIsRecent
  <2>2. body[p] \subseteq Kids /\ flight[p] \in Nat
    OBVIOUS
  <2>3. QED
    BY <1>3, <2>1, <2>2
<1>5. CacheIsRecent'
  <2>1. age < Old => \A k \in keys : gone[k] <= age + Timeout
    BY DEF CacheIsRecent
  <2>2. age < Old => \A k \in keys : gone'[k] <= age + Timeout
    BY <1>3, <2>1
  <2>3. QED
    BY <2>2 DEF CacheIsRecent
<1>6. ReadingIsRecent'
  BY DEF ReadingIsRecent
<1>7. NoOutageWithinGrace'
  BY DEF NoOutageWithinGrace
<1>8. QED
  BY <1>1, <1>2, <1>4, <1>5, <1>6, <1>7

(* Keys and exchanges grow old together.                                   *)
LEMMA TickKeeps ==
  ASSUME IInv, Tick
  PROVE  IInv'
<1> USE TimesAssumption, KidsAssumption
    DEF IInv, Tick, UpTo, InExchange, reading, TypeOK, Old, Forgotten
<1>1. TypeOK'
  OBVIOUS
<1>2. PublishedNow'
  BY DEF PublishedNow
<1>3. \A k \in Kids : /\ gone[k] \in Nat /\ gone'[k] \in Nat
                      /\ gone'[k] <= gone[k] + 1
  OBVIOUS
<1>4. BodyIsRecent'
  <2> SUFFICES ASSUME NEW p \in Procs, pc[p] = "applying"
               PROVE  /\ Stable \subseteq body[p]
                      /\ \A k \in body[p] : gone'[k] <= flight'[p]
    BY DEF BodyIsRecent
  <2>1. /\ Stable \subseteq body[p]
        /\ \A k \in body[p] : gone[k] <= flight[p]
    BY DEF BodyIsRecent
  <2>2. body[p] \subseteq Kids /\ flight[p] \in Nat /\ flight'[p] = flight[p] + 1
    OBVIOUS
  <2>3. QED
    BY <1>3, <2>1, <2>2
<1>5. CacheIsRecent'
  <2>1. age < Old => \A k \in keys : gone[k] <= age + Timeout
    BY DEF CacheIsRecent
  <2>2. age' < Old => age < Old /\ age' = age + 1
    OBVIOUS
  <2>3. age' < Old => \A k \in keys : gone'[k] <= age' + Timeout
    BY <1>3, <2>1, <2>2
  <2>4. age' < GraceTTL => age < GraceTTL
    OBVIOUS
  <2>5. QED
    BY <2>3, <2>4 DEF CacheIsRecent
<1>6. ReadingIsRecent'
  BY DEF ReadingIsRecent
<1>7. NoOutageWithinGrace'
  BY DEF NoOutageWithinGrace
<1>8. QED
  BY <1>1, <1>2, <1>4, <1>5, <1>6, <1>7
-----------------------------------------------------------------------------
(* Every state of every execution satisfies the inductive invariant.       *)
THEOREM Invariance == Spec => []IInv
<1>1. Init => IInv
  BY Initially
<1>2. IInv /\ [Next]_vars => IInv'
  <2> SUFFICES ASSUME IInv, [Next]_vars PROVE IInv'
    OBVIOUS
  <2>1. CASE \E p \in Procs : Step(p)
    <3>1. PICK p \in Procs : Step(p)
      BY <2>1
    <3>2. CASE \E k \in Kids : ReadFresh(p, k) \/ StartFetch(p, k)
      BY <3>2, ReadKeeps
    <3>3. CASE Download(p)
      BY <3>3, DownloadKeeps
    <3>4. CASE FetchFails(p)
      BY <3>4, FetchFailsKeeps
    <3>5. CASE Apply(p)
      BY <3>5, ApplyKeeps
    <3>6. CASE ReadAgain(p)
      BY <3>6, ReadAgainKeeps
    <3>7. QED
      BY <3>1, <3>2, <3>3, <3>4, <3>5, <3>6 DEF Step
  <2>2. CASE Rotate
    BY <2>2, RotateKeeps
  <2>3. CASE Tick
    BY <2>3, TickKeeps
  <2>4. CASE UNCHANGED vars
    BY <2>4 DEF vars, clocks, reading, IInv, TypeOK, PublishedNow, BodyIsRecent,
                CacheIsRecent, ReadingIsRecent, NoOutageWithinGrace
  <2>5. QED
    BY <2>1, <2>2, <2>3, <2>4 DEF Next
<1>3. QED
  BY <1>1, <1>2, PTL DEF Spec

(* The variables of the key cache keep their types.                        *)
THEOREM TypeCorrect == Spec => []TypeOK
<1>1. IInv => TypeOK
  BY DEF IInv
<1>2. QED
  BY <1>1, Invariance, PTL

(* Keys that count as fresh were published no longer ago than the age of   *)
(* the cache plus one exchange, in whatever order concurrent fetches land. *)
THEOREM FreshMeansRecent == Spec => []FreshKeysAreRecent
<1>1. IInv => FreshKeysAreRecent
  BY TimesAssumption DEF IInv, CacheIsRecent, FreshKeysAreRecent, TypeOK, Old
<1>2. QED
  BY <1>1, Invariance, PTL

(* A key that is never withdrawn survives every outage of the endpoint     *)
(* that is shorter than the grace period.                                  *)
THEOREM OutagesAreBridged == Spec => []NoOutageWithinGrace
<1>1. IInv => NoOutageWithinGrace
  BY DEF IInv
<1>2. QED
  BY <1>1, Invariance, PTL
-----------------------------------------------------------------------------
(* The claims of a token are accepted if, and only if, it is genuine.      *)
LEMMA Parsing ==
  ASSUME NEW token \in Tokens, NEW ring \in Keyrings, NEW now \in Instants
  PROVE  ParseToken(token, ring, now) =
            IF Genuine(token, ring, now) THEN {token.claims} ELSE None
<1> DEFINE Window == {t \in Instants : /\ token.claims.exp > 0 => t <= token.claims.exp
                                       /\ t >= token.claims.nbf}
           Known == \E k \in DOMAIN ring \ {""} :
                       k = token.kid /\ ring[k] = {token.signer}
<1>1. now \in Window
        <=> ~Expired(token.claims, now) /\ ~NotYetValid(token.claims, now)
  <2>1. now \in Nat /\ token.claims.exp \in Int /\ token.claims.nbf \in Int
    BY InstantsAssumption
  <2>2. QED
    BY <2>1 DEF Expired, NotYetValid
<1>2. (/\ token.kid # ""
       /\ \E key \in ring[token.kid] : Verified(token, key))
        <=> Known /\ token.alg = "RSA"
  <2>1. /\ token.kid \in DOMAIN ring
        /\ \A a, b \in ring[token.kid] : a = b
    BY KeyringsAssumption
  <2>2. ring[token.kid] = {token.signer} <=> token.signer \in ring[token.kid]
    BY <2>1
  <2>3. Known <=> token.kid # "" /\ token.signer \in ring[token.kid]
    BY <2>1, <2>2
  <2> HIDE DEF Known
  <2>4. QED
    BY <2>3 DEF Verified
<1>3. Genuine(token, ring, now)
        <=> /\ token.wellFormed /\ token.alg = "RSA" /\ Known
            /\ token.claims.iss = ExpectedIssuer /\ now \in Window
  BY Zenon DEF Genuine
<1> HIDE DEF Window, Known
<1>4. ParseToken(token, ring, now) =
        IF /\ token.wellFormed /\ token.alg = "RSA" /\ Known
           /\ token.claims.iss = ExpectedIssuer /\ now \in Window
        THEN {token.claims} ELSE None
  BY <1>1, <1>2, IssuerAssumption, Zenon DEF ParseToken
<1>5. QED
  BY <1>3, <1>4, Zenon

(* A header of two words names whom its token names, or nobody.            *)
LEMMA Extracting ==
  ASSUME NEW token, NEW ring, NEW now, NEW scheme
  PROVE  /\ scheme \notin {"bearer", "Bearer"} =>
               ExtractPrincipal(<<scheme, token>>, ring, now)
                  = {[id |-> Nobody, roles |-> <<>>]}
         /\ scheme \in {"bearer", "Bearer"} /\ ParseToken(token, ring, now) = None =>
               ExtractPrincipal(<<scheme, token>>, ring, now) = None
         /\ \A claims :
               scheme \in {"bearer", "Bearer"} /\ ParseToken(token, ring, now) = {claims} =>
                  ExtractPrincipal(<<scheme, token>>, ring, now) = {PrincipalOf(claims)}
<1> DEFINE header == <<scheme, token>>
           accepted == ParseToken(token, ring, now)
<1>1. Len(header) = 2 /\ header[1] = scheme /\ header[2] = token
  OBVIOUS
<1> HIDE DEF header
<1>2. ExtractBearerToken(header) =
        IF scheme \in {"bearer", "Bearer"} THEN {token} ELSE None
  BY <1>1 DEF ExtractBearerToken
<1>3. {token} # None
  BY DEF None
<1>4. UNION {ParseToken(t, ring, now) : t \in {token}} = accepted
  OBVIOUS
<1> HIDE DEF accepted
<1>5. ExtractPrincipal(header, ring, now) =
         IF scheme \in {"bearer", "Bearer"}
         THEN {PrincipalOf(claims) : claims \in accepted}
         ELSE {[id |-> Nobody, roles |-> <<>>]}
  BY <1>2, <1>3, <1>4 DEF ExtractPrincipal
<1>6. /\ accepted = None => {PrincipalOf(claims) : claims \in accepted} = None
      /\ \A c : accepted = {c} => {PrincipalOf(claims) : claims \in accepted} = {PrincipalOf(c)}
  BY DEF None
<1>7. /\ scheme \notin {"bearer", "Bearer"} =>
            ExtractPrincipal(header, ring, now) = {[id |-> Nobody, roles |-> <<>>]}
      /\ scheme \in {"bearer", "Bearer"} /\ accepted = None =>
            ExtractPrincipal(header, ring, now) = None
      /\ \A claims : scheme \in {"bearer", "Bearer"} /\ accepted = {claims} =>
            ExtractPrincipal(header, ring, now) = {PrincipalOf(claims)}
  BY <1>5, <1>6
<1>8. QED
  BY <1>7, Zenon DEF header, accepted

(* Whoever is named has a role.                                            *)
LEMMA NamedHaveRoles ==
  ASSUME NEW claims, PrincipalOf(claims).id # Nobody
  PROVE  PrincipalOf(claims).roles # <<>>
BY DEF PrincipalOf, RolesOf

(* Nothing a client may send makes it anybody but whom a genuine token     *)
(* that is valid at that second names, and such a token is never refused.  *)
THEOREM PrincipalsAreGenuine == Spec => NamedPrincipalsAreGenuine
<1>1. NamesAreGenuine
  <2> SUFFICES ASSUME NEW token \in Tokens, NEW ring \in Keyrings, NEW now \in Instants,
                      NEW scheme \in {"bearer", "Bearer", "Basic"}
               PROVE  /\ \A p \in ExtractPrincipal(<<scheme, token>>, ring, now) :
                            p.id # Nobody =>
                               /\ Genuine(token, ring, now)
                               /\ scheme # "Basic" /\ p.roles # <<>>
                      /\ Genuine(token, ring, now)
                            => ExtractPrincipal(<<scheme, token>>, ring, now) # None
    BY Zenon DEF NamesAreGenuine
  <2> DEFINE who == ExtractPrincipal(<<scheme, token>>, ring, now)
  <2>1. CASE scheme = "Basic"
    <3>1. scheme \notin {"bearer", "Bearer"}
      BY <2>1
    <3>2. who = {[id |-> Nobody, roles |-> <<>>]}
      BY <3>1, Extracting, Zenon
    <3> HIDE DEF who
    <3>3. (\A p \in who : p.id = Nobody) /\ who # None
      BY <3>2 DEF None
    <3> USE DEF who
    <3>4. QED
      BY <3>3, Zenon
  <2>2. CASE scheme # "Basic" /\ Genuine(token, ring, now)
    <3>1. ParseToken(token, ring, now) = {token.claims}
      BY <2>2, Parsing
    <3>2. scheme \in {"bearer", "Bearer"}
      BY <2>2
    <3>3. who = {PrincipalOf(token.claims)}
      <4> DEFINE c == token.claims
      <4>1. ParseToken(token, ring, now) = {c}
        BY <3>1
      <4> HIDE DEF c
      <4>2. ExtractPrincipal(<<scheme, token>>, ring, now) = {PrincipalOf(c)}
        BY ONLY <3>2, <4>1, Extracting
      <4>3. QED
        BY <4>2, Zenon DEF c
    <3> HIDE DEF who
    <3>4. (\A p \in who : p.id # Nobody => p.roles # <<>>) /\ who # None
      BY <3>3, NamedHaveRoles DEF None
    <3> USE DEF who
    <3>5. QED
      BY <2>2, <3>4, Zenon
  <2>3. CASE scheme # "Basic" /\ ~Genuine(token, ring, now)
    <3>1. ParseToken(token, ring, now) = None
      BY <2>3, Parsing
    <3>2. scheme \in {"bearer", "Bearer"}
      BY <2>3
    <3>3. who = None
      BY <3>1, <3>2, Extracting, Zenon
    <3>4. \A p \in None : FALSE
      BY DEF None
    <3>5. QED
      BY <2>3, <3>3, <3>4, Zenon
  <2>4. QED
    BY <2>1, <2>2, <2>3
<1>2. [Next]_vars => [NamesAreGenuine]_vars
  BY <1>1
<1>3. QED
  BY <1>2, PTL DEF Spec, NamedPrincipalsAreGenuine
=============================================================================
