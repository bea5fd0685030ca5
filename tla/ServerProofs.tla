---------------------------- MODULE ServerProofs ----------------------------
(***************************************************************************)
(* Theorems about Server, for any environments, messages and number of     *)
(* calls: what the process runs on, in which words the service is asked,   *)
(* what is let pass, and why calls are lost.                               *)
(*                                                                         *)
(* The invariant ties the goroutines together: what the main goroutine     *)
(* has reached says whether a port may serve and whether a signal came.    *)
(***************************************************************************)
EXTENDS Server, WellFoundedInduction, SequenceTheorems, TLAPS

Starting == {"loading", "building"}

Stopping == {"stop grpc", "stop http", "flushing", "returning"}

(* The configuration is one that Load returned.                            *)
Configured ==
    config = NoConfig \/ \E env \in EnvironmentsTried : Loads(env) /\ config = Loaded(env)

(* Who has got how far.                                                    *)
Causes ==
    /\ main \in Starting => \A port \in Ports : thread[port] = "off"
    /\ main \in Stopping => signalled
    /\ stopped # {} => signalled
    /\ \A c \in Calls : call[c].at = "asking" => main \notin Starting

IInv == TypeOK /\ Causes /\ LossHasACause
-----------------------------------------------------------------------------
(* Whatever the environment, what Load returns suits the program, though   *)
(* nothing calls Validate.                                                 *)
LEMMA WhatLoadReturns ==
  ASSUME NEW env \in Environments
  PROVE  LoadedIsUsable(env) /\ OnlyEndpointsUnchecked(env)
<1> SUFFICES ASSUME Loads(env)
             PROVE  /\ Usable(Loaded(env))
                    /\ Valid(Loaded(env)) <=> env.cerbos /\ env.mapping
  BY DEF LoadedIsUsable, OnlyEndpointsUnchecked
<1> DEFINE c == Loaded(env)
<1>1. \A v \in Numbers : c.numbers[v] = LoadedNumber(env, v)
  BY DEF Loaded
<1>2. \A v \in Numbers : env.numbers[v].n \in Int
  BY DEF Environments, Settings
<1>3. \A v \in Numbers : Default[v] \in Nat \ {0}
  BY DEF Numbers, Lenient, Zeroing, Strict, Default
<1>4. ASSUME NEW v \in Strict \cup Lenient
      PROVE  c.numbers[v] \in Nat \ {0}
  BY <1>1, <1>2, <1>3
     DEF LoadedNumber, Acceptable, Numbers, Strict, Lenient, Zeroing
<1>5. ASSUME NEW v \in Zeroing
      PROVE  c.numbers[v] \in Nat /\ ParserConfig(c)[v] \in Nat \ {0}
  <2>1. c.numbers[v] \in Nat /\ Default[v] \in Nat \ {0}
    BY <1>1, <1>2, <1>3 DEF LoadedNumber, Acceptable, Numbers
  <2>2. ParserConfig(c)[v] = IF c.numbers[v] = 0 THEN Default[v] ELSE c.numbers[v]
    BY DEF ParserConfig
  <2>3. QED
    BY <2>1, <2>2
<1>6. c.mode \in {"fail_open", "fail_closed"} /\ c.enabled \in BOOLEAN
  BY DEF Loads, Loaded, Environments
<1>7. c.numbers["PORT"] <= 65535
  <2>1. "PORT" \in Numbers /\ Default["PORT"] = 8080 /\ "PORT" \notin Zeroing
    BY DEF Numbers, Strict, Zeroing, Default
  <2>2. QED
    BY <1>1, <1>2, <2>1 DEF LoadedNumber, Acceptable
<1>8. c.cerbos = env.cerbos /\ c.mapping = env.mapping
  BY DEF Loaded
<1>9. \A v \in {"CERBOS_TIMEOUT_SECONDS", "MAPPING_TIMEOUT_MS"} \cup Strict :
         c.numbers[v] > 0
  BY <1>4 DEF Lenient
<1> QED
  BY <1>4, <1>5, <1>6, <1>7, <1>8, <1>9 DEF Usable, Valid

(* The process never runs on a configuration the rest cannot work with.    *)
THEOREM ConfigIsUsable == Spec => []RunsOnUsableConfig
<1>1. Init => Configured
  BY DEF Init, Configured
<1>2. Configured /\ [Next]_vars => Configured'
  <2> SUFFICES ASSUME Configured, [Next]_vars PROVE Configured'
    OBVIOUS
  <2>1. config' = config \/ LoadConfig
    BY DEF Next, Main, BuildService, BuildFails, Notify, WakeUp, StopGRPC, StopHTTP,
           StopPort, Flush, MainReturns, Thread, Listen, Create, StartServing, ServeReturns,
           BreakDown, Arrive, AnswerAtOnce, Ask, Answer, Signal, Update, Fatal, Exit,
           MainGoes, ThreadGoes, vars
  <2>2. CASE config' = config
    BY <2>2 DEF Configured
  <2>3. CASE LoadConfig
    BY <2>3 DEF LoadConfig, Configured, Fatal, Exit
  <2>4. QED
    BY <2>1, <2>2, <2>3
<1>3. Configured => RunsOnUsableConfig
  <2> SUFFICES ASSUME Configured, config # NoConfig
               PROVE  Usable(config) /\ (Valid(config) <=> config.cerbos /\ config.mapping)
    BY DEF RunsOnUsableConfig
  <2>1. PICK env \in EnvironmentsTried : Loads(env) /\ config = Loaded(env)
    BY DEF Configured
  <2>2. env \in Environments
    BY EnvironmentsAssumption
  <2>3. config.cerbos = env.cerbos /\ config.mapping = env.mapping
    BY <2>1 DEF Loaded
  <2>4. QED
    BY <2>1, <2>2, <2>3, WhatLoadReturns DEF LoadedIsUsable, OnlyEndpointsUnchecked
<1>4. QED
  BY <1>1, <1>2, <1>3, PTL DEF Spec
-----------------------------------------------------------------------------
(* How the two ports read a message.  SelectInSeq takes the least place    *)
(* where a test holds, so it all rests on the least element of a set.      *)

(* A set of numbers that is not empty has a least element.                 *)
LEMMA LeastElement ==
  ASSUME NEW T \in SUBSET Nat, T # {}
  PROVE  Min(T) \in T /\ \A y \in T : Min(T) <= y
<1> DEFINE R == {p \in Nat \X Nat : p[1] < p[2]}
<1>1. IsWellFoundedOn(R, Nat)
  BY NatLessThanWellFounded DEF OpToRel
<1>2. ASSUME NEW x \in Nat, NEW y \in Nat, <<y, x>> \notin R
      PROVE  x <= y
  BY <1>2
<1> HIDE DEF R
<1>3. PICK x \in T : \A y \in T : <<y, x>> \notin R
  BY <1>1, WFMin
<1>4. \A y \in T : y \in Nat
  OBVIOUS
<1>5. \A y \in T : x <= y
  BY <1>2, <1>3, <1>4
<1>6. \E m \in T : \A y \in T : m <= y
  BY <1>5
<1>7. QED
  BY <1>6 DEF Min

(* The place of the first "?" in a path, or 0.                             *)
QueryPlaces(path) == {i \in 1 .. Len(path) : path[i] = "?"}

QueryPlace(path) ==
    IF QueryPlaces(path) # {} THEN Min(QueryPlaces(path)) ELSE 0

LEMMA FirstQuery ==
  ASSUME NEW path \in Seq(STRING)
  PROVE  \/ QueryPlace(path) = 0 /\ \A i \in 1 .. Len(path) : path[i] # "?"
         \/ /\ QueryPlace(path) \in 1 .. Len(path)
            /\ path[QueryPlace(path)] = "?"
            /\ \A i \in 1 .. QueryPlace(path) - 1 : path[i] # "?"
<1>1. CASE QueryPlaces(path) = {}
  BY <1>1 DEF QueryPlace, QueryPlaces
<1>2. CASE QueryPlaces(path) # {}
  <2>1. QueryPlaces(path) \in SUBSET Nat
    BY DEF QueryPlaces
  <2> DEFINE q == Min(QueryPlaces(path))
  <2>2. q \in QueryPlaces(path) /\ \A j \in QueryPlaces(path) : q <= j
    BY <1>2, <2>1, LeastElement
  <2>3. QueryPlace(path) = q
    BY <1>2 DEF QueryPlace
  <2> HIDE DEF q
  <2>4. Len(path) \in Nat
    OBVIOUS
  <2>5. QED
    BY <2>2, <2>3, <2>4 DEF QueryPlaces
<1>3. QED
  BY <1>1, <1>2

(* StripQueryParams leaves no query, and a path without a query alone; and *)
(* what begins with a slash before begins with one after.                  *)
LEMMA Stripping ==
  ASSUME NEW path \in Seq(STRING)
  PROVE  /\ StripQueryParams(path) \in Seq(STRING)
         /\ ~Contains(StripQueryParams(path), "?")
         /\ StripQueryParams(StripQueryParams(path)) = StripQueryParams(path)
         /\ Len(path) > 0 /\ path[1] = "/"
               => Len(StripQueryParams(path)) > 0 /\ StripQueryParams(path)[1] = "/"
<1>0. \A p : StripQueryParams(p) = IF QueryPlace(p) = 0 THEN p
                                   ELSE SubSeq(p, 1, QueryPlace(p) - 1)
  BY DEF StripQueryParams, SelectInSeq, QueryPlace, QueryPlaces
<1>1. ASSUME NEW p \in Seq(STRING), ~Contains(p, "?")
      PROVE  StripQueryParams(p) = p
  <2>1. QueryPlace(p) = 0
    BY <1>1, FirstQuery, LeastElement DEF Contains, QueryPlace, QueryPlaces
  <2>2. QED
    BY <1>0, <2>1
<1> DEFINE q == QueryPlace(path)
<1>2. CASE q = 0
  BY <1>0, <1>1, <1>2, FirstQuery DEF Contains
<1>3. CASE q # 0
  <2>0. "/" # "?"
    OBVIOUS
  <2>1. /\ q \in 1 .. Len(path) /\ Len(path) \in Nat /\ path[q] = "?"
        /\ \A i \in 1 .. q - 1 : path[i] # "?"
    BY <1>3, FirstQuery
  <2>2. StripQueryParams(path) = SubSeq(path, 1, q - 1)
    BY <1>0, <1>3
  <2> HIDE DEF q
  <2>3. \A i \in 1 .. q - 1 : path[i] \in STRING
    BY <2>1, ElementOfSeq
  <2>4. /\ SubSeq(path, 1, q - 1) \in Seq(STRING)
        /\ Len(SubSeq(path, 1, q - 1)) = q - 1
        /\ \A i \in 1 .. q - 1 : SubSeq(path, 1, q - 1)[i] = path[i]
    BY <2>1, <2>3, SubSeqProperties
  <2>5. ~Contains(StripQueryParams(path), "?")
    BY <2>1, <2>2, <2>4 DEF Contains
  <2>6. Len(path) > 0 /\ path[1] = "/"
           => q - 1 > 0 /\ SubSeq(path, 1, q - 1)[1] = "/"
    <3> SUFFICES ASSUME Len(path) > 0, path[1] = "/"
                 PROVE  q - 1 > 0 /\ SubSeq(path, 1, q - 1)[1] = "/"
      OBVIOUS
    <3>1. q # 1
      BY <2>0, <2>1
    <3>2. QED
      BY <2>1, <2>4, <3>1
  <2>7. QED
    BY <1>1, <2>2, <2>4, <2>5, <2>6
<1>4. QED
  BY <1>2, <1>3

LEMMA NothingToStrip == StripQueryParams(NoPath) = NoPath
<1>1. QueryPlaces(NoPath) = {}
  BY DEF QueryPlaces, NoPath
<1>2. QED
  BY <1>1 DEF StripQueryParams, SelectInSeq, QueryPlaces

(* Replacing the escapes leaves a path as long, and a slash a slash.       *)
LEMMA Decoding ==
  ASSUME NEW path \in Seq(STRING)
  PROVE  /\ Decoded(path) \in Seq(STRING)
         /\ Len(Decoded(path)) = Len(path)
         /\ Len(path) > 0 /\ path[1] = "/" => Decoded(path)[1] = "/"
<1> DEFINE piece(i) == IF path[i] \in DOMAIN Escapes THEN Escapes[path[i]] ELSE path[i]
<1>1. Len(path) \in Nat
  OBVIOUS
<1>2. \A i \in 1 .. Len(path) : piece(i) \in STRING
  BY ElementOfSeq, EscapesAssumption
<1>3. Len(path) > 0 /\ path[1] = "/" => piece(1) = "/"
  BY EscapesAssumption
<1> HIDE DEF piece
<1>4. Decoded(path) = [i \in 1 .. Len(path) |-> piece(i)]
  BY DEF Decoded, piece
<1>5. QED
  BY <1>1, <1>2, <1>3, <1>4

(* The place of the first header that is none of some, or 0.               *)
Places(headers, worthless) ==
    {i \in 1 .. Len(headers) : headers[i] \notin worthless}

Place(headers, worthless) ==
    IF Places(headers, worthless) # {} THEN Min(Places(headers, worthless)) ELSE 0

(* Both ports read a list of headers alike, if none of them is there       *)
(* without a value; and read the first of them, if that is worth it.  Else *)
(* the gRPC port reads nothing.                                            *)
LEMMA ReadingHeaders ==
  ASSUME NEW headers, NEW none, Len(headers) \in Nat
  PROVE  /\ (\A i \in 1 .. Len(headers) : headers[i] # {none})
               => FirstNonEmpty(headers, none) = FirstThere(headers, none)
         /\ Len(headers) > 0 /\ headers[1] \notin {{}, {none}}
               => FirstNonEmpty(headers, none) = ValueOf(headers[1])
         /\ Len(headers) > 0 /\ headers[1] # {}
               => FirstThere(headers, none) = ValueOf(headers[1])
         /\ FirstThere(headers, none) \in {none, FirstNonEmpty(headers, none)}
         /\ \A value \in {FirstNonEmpty(headers, none), FirstThere(headers, none)} :
               \/ value = none
               \/ \E i \in 1 .. Len(headers) :
                     headers[i] # {} /\ value = ValueOf(headers[i])
<1> DEFINE there == Place(headers, {{}})
           full == Place(headers, {{}, {none}})
<1>1. FirstThere(headers, none) = IF there = 0 THEN none ELSE ValueOf(headers[there])
  BY DEF FirstThere, SelectInSeq, Place, Places
<1>2. FirstNonEmpty(headers, none) = IF full = 0 THEN none ELSE ValueOf(headers[full])
  BY DEF FirstNonEmpty, SelectInSeq, Place, Places
<1>3. ASSUME NEW w
      PROVE  /\ Place(headers, w) # 0
                   => /\ Place(headers, w) \in Places(headers, w)
                      /\ \A j \in Places(headers, w) : Place(headers, w) <= j
             /\ Place(headers, w) = 0 => Places(headers, w) = {}
             /\ 1 \in Places(headers, w) => Place(headers, w) = 1
  <2>1. Places(headers, w) \in SUBSET Nat
    BY DEF Places
  <2>2. CASE Places(headers, w) # {}
    <3>1. /\ Min(Places(headers, w)) \in Places(headers, w)
          /\ \A j \in Places(headers, w) : Min(Places(headers, w)) <= j
      BY <2>1, <2>2, LeastElement
    <3>2. Place(headers, w) = Min(Places(headers, w))
      BY <2>2 DEF Place
    <3>3. \A j \in Places(headers, w) : j \in Nat /\ j >= 1
      BY DEF Places
    <3>4. QED
      BY <3>1, <3>2, <3>3
  <2>3. CASE Places(headers, w) = {}
    BY <2>3 DEF Place
  <2>4. QED
    BY <2>2, <2>3
<1>4. ASSUME \A i \in 1 .. Len(headers) : headers[i] # {none}
      PROVE  full = there
  <2>1. Places(headers, {{}, {none}}) = Places(headers, {{}})
    BY <1>4 DEF Places
  <2>2. QED
    BY <2>1 DEF Place
<1>5. ASSUME NEW w, Len(headers) > 0, headers[1] \notin w
      PROVE  Place(headers, w) = 1
  <2>1. 1 \in Places(headers, w)
    BY <1>5 DEF Places
  <2>2. QED
    BY <1>3, <2>1
<1>6. \A i \in {there, full} :
         i # 0 => i \in 1 .. Len(headers) /\ headers[i] # {}
  BY <1>3 DEF Places
<1>7. there # 0 => headers[there] = {none} \/ full = there
  <2> SUFFICES ASSUME there # 0, headers[there] # {none}
               PROVE  full = there
    OBVIOUS
  <2>1. there \in Places(headers, {{}}) /\ \A j \in Places(headers, {{}}) : there <= j
    BY <1>3
  <2>2. there \in Places(headers, {{}, {none}})
    BY <2>1 DEF Places
  <2>3. full \in Places(headers, {{}, {none}}) /\ full <= there
    BY <1>3, <2>2
  <2> HIDE DEF there, full
  <2>4. \A j \in Places(headers, {{}, {none}}) : j \in Places(headers, {{}})
    BY DEF Places
  <2>5. \A j \in Places(headers, {{}}) : j \in Nat
    BY DEF Places
  <2>6. full \in Places(headers, {{}}) /\ full \in Nat /\ there \in Nat
    BY <2>1, <2>3, <2>4, <2>5
  <2>7. QED
    BY <2>1, <2>3, <2>6
<1>8. ValueOf({none}) = none
  BY DEF ValueOf
<1> HIDE DEF full, there
<1>9. QED
  <2>1. Len(headers) > 0 /\ headers[1] \notin {{}, {none}} => full = 1
    BY <1>5 DEF full
  <2>2. Len(headers) > 0 /\ headers[1] # {} => there = 1
    BY <1>5 DEF there
  <2>3. FirstThere(headers, none) \in {none, FirstNonEmpty(headers, none)}
    BY <1>1, <1>2, <1>7, <1>8
  <2>4. QED
    BY <1>1, <1>2, <1>4, <1>6, <2>1, <2>2, <2>3

LEMMA FirstHeader ==
  ASSUME NEW headers, NEW none, Len(headers) \in Nat \ {0}
  PROVE  /\ headers[1] \notin {{}, {none}}
               => FirstNonEmpty(headers, none) = ValueOf(headers[1])
         /\ headers[1] # {}
               => FirstThere(headers, none) = ValueOf(headers[1])
BY ReadingHeaders

LEMMA SameHeader ==
  ASSUME NEW headers, NEW none, Len(headers) \in Nat,
         \A i \in 1 .. Len(headers) : headers[i] # {none}
  PROVE  FirstNonEmpty(headers, none) = FirstThere(headers, none)
BY ReadingHeaders

LEMMA OneHeader ==
  ASSUME NEW header, NEW none
  PROVE  FirstThere(<<header>>, none) = FirstNonEmpty(<<header>>, none)
<1> DEFINE headers == <<header>>
<1>1. /\ Len(headers) = 1 /\ Len(headers) > 0 /\ headers[1] = header
      /\ \A i \in 1 .. Len(headers) : headers[i] = header
  OBVIOUS
<1> HIDE DEF headers
<1>2. Len(headers) \in Nat
  BY <1>1
<1>3. CASE header \notin {{}, {none}}
  BY <1>1, <1>2, <1>3, ReadingHeaders DEF headers
<1>4. CASE header = {}
  BY <1>1, <1>2, <1>4, ReadingHeaders DEF headers
<1>5. CASE header = {none}
  <2>1. ValueOf(header) = none
    BY <1>5 DEF ValueOf
  <2>2. QED
    BY <1>1, <1>2, <2>1, ReadingHeaders DEF headers
<1>6. QED
  BY <1>3, <1>4, <1>5

(* Wherever a message has a path, it is one.                               *)
LEMMA PathsTyped ==
  ASSUME NEW m \in Messages
  PROVE  /\ m.path \in Seq(STRING)
         /\ FirstThere(<<m.originalPath>>, NoPath) \in Seq(STRING)
         /\ UrlPath(m) \in Seq(STRING)
         /\ FirstNonEmpty(<<m.originalPath, m.originalURI, m.forwardedURI,
                            IF UrlPath(m) = <<"/">> THEN {} ELSE {UrlPath(m)}>>,
                          NoPath) \in Seq(STRING)
<1>1. /\ m.path \in Seq(STRING)
      /\ \A header \in {m.originalPath, m.originalURI, m.forwardedURI} :
            header \subseteq Seq(STRING)
  BY MessagesAssumption
<1>2. UrlPath(m) \in Seq(STRING)
  BY <1>1, Stripping, Decoding DEF UrlPath
<1>3. ASSUME NEW header, header \subseteq Seq(STRING), header # {}
      PROVE  ValueOf(header) \in Seq(STRING)
  BY <1>3 DEF ValueOf
<1>4. NoPath \in Seq(STRING)
  BY EmptySeq DEF NoPath
<1> DEFINE one == <<m.originalPath>>
           four == <<m.originalPath, m.originalURI, m.forwardedURI,
                     IF UrlPath(m) = <<"/">> THEN {} ELSE {UrlPath(m)}>>
<1>5. /\ Len(one) \in Nat
      /\ \A i \in 1 .. Len(one) : one[i] \subseteq Seq(STRING)
  BY <1>1
<1>6. /\ Len(four) \in Nat
      /\ \A i \in 1 .. Len(four) : four[i] \subseteq Seq(STRING)
  <2>1. Len(four) = 4
    OBVIOUS
  <2>2. (IF UrlPath(m) = <<"/">> THEN {} ELSE {UrlPath(m)}) \subseteq Seq(STRING)
    BY <1>2
  <2>3. QED
    BY <1>1, <2>1, <2>2
<1> HIDE DEF one, four
<1>7. FirstThere(one, NoPath) \in Seq(STRING)
  BY <1>3, <1>4, <1>5, ReadingHeaders
<1>8. FirstNonEmpty(four, NoPath) \in Seq(STRING)
  BY <1>3, <1>4, <1>6, ReadingHeaders
<1>9. QED
  BY <1>1, <1>2, <1>7, <1>8 DEF one, four

(* Whatever the message, no port asks about a path with a query.           *)
LEMMA PathsBare ==
  ASSUME NEW m \in Messages
  PROVE  AskedPathIsBare(m)
<1>1. ~Contains(GrpcPath(m), "?")
  BY PathsTyped, Stripping DEF GrpcPath
<1>2. ~Contains(HttpPath(m), "?")
  BY PathsTyped, Stripping DEF HttpPath
<1>3. GrpcTurn(m) = "ask" => GrpcPath(m) # NoPath
  BY DEF GrpcTurn
<1>4. HttpTurn(m) = "ask" => HttpPath(m) # NoPath
  BY DEF HttpTurn
<1>5. QED
  BY <1>1, <1>2, <1>3, <1>4 DEF AskedPathIsBare

(* How the ports read the headers of a message.                            *)
LEMMA HeadersAlike ==
  ASSUME NEW m
  PROVE  /\ GrpcRequest(m).auth = HttpRequest(m).auth
         /\ GrpcRequest(m).service \in {"", HttpRequest(m).service}
         /\ GrpcRequest(m).scope \in {"", HttpRequest(m).scope}
         /\ NoEmptyHeader(m) => /\ GrpcRequest(m).service = HttpRequest(m).service
                                /\ GrpcRequest(m).scope = HttpRequest(m).scope
<1> DEFINE none == ""
           services == <<m.targetService, m.serviceName>>
           scopes == <<m.policyScope, m.cerbosScope, m.appName>>
<1>1. Len(services) = 2 /\ Len(scopes) = 3
  OBVIOUS
<1>0. NoEmptyHeader(m) =>
         \A header \in {m.targetService, m.serviceName,
                        m.policyScope, m.cerbosScope, m.appName} : header # {none}
  BY DEF NoEmptyHeader
<1>3. /\ GrpcRequest(m).auth = FirstThere(<<m.authorization>>, none)
      /\ HttpRequest(m).auth = FirstNonEmpty(<<m.authorization>>, none)
      /\ GrpcRequest(m).service = FirstThere(services, none)
      /\ HttpRequest(m).service = FirstNonEmpty(services, none)
      /\ GrpcRequest(m).scope = FirstThere(scopes, none)
      /\ HttpRequest(m).scope = FirstNonEmpty(scopes, none)
  BY DEF GrpcRequest, HttpRequest
<1> HIDE DEF none
<1>2. NoEmptyHeader(m) => /\ \A i \in 1 .. Len(services) : services[i] # {none}
                         /\ \A i \in 1 .. Len(scopes) : scopes[i] # {none}
  BY <1>0, <1>1
<1> HIDE DEF services, scopes
<1>4. Len(services) \in Nat /\ Len(scopes) \in Nat
  BY <1>1
<1>5. ASSUME NEW headers, Len(headers) \in Nat
      PROVE  FirstThere(headers, none) \in {none, FirstNonEmpty(headers, none)}
  BY <1>5, ReadingHeaders
<1>6. NoEmptyHeader(m) =>
         /\ FirstNonEmpty(services, none) = FirstThere(services, none)
         /\ FirstNonEmpty(scopes, none) = FirstThere(scopes, none)
  BY <1>2, <1>4, SameHeader
<1>7. none = ""
  BY DEF none
<1>8. FirstThere(<<m.authorization>>, none) = FirstNonEmpty(<<m.authorization>>, none)
  BY OneHeader
<1>9. QED
  BY <1>3, <1>4, <1>5, <1>6, <1>7, <1>8

(* Which path each port reads.                                             *)
LEMMA InsidePaths ==
  ASSUME NEW m \in Messages, GrpcHost(m) \in InternalHosts, m.host \in InternalHosts
  PROVE  /\ HttpPath(m) = StripQueryParams(Decoded(GrpcPath(m)))
         /\ GrpcPath(m) # NoPath => HttpPath(m) # NoPath
<1> DEFINE bare == StripQueryParams(m.path)
<1>1. GrpcPath(m) = bare /\ HttpPath(m) = StripQueryParams(Decoded(bare))
  BY DEF GrpcPath, HttpPath, UrlPath
<1>2. m.path \in Seq(STRING) /\ (m.path # NoPath => Head(m.path) = "/")
  BY MessagesAssumption
<1>3. bare \in Seq(STRING) /\ (Len(m.path) > 0 /\ m.path[1] = "/"
                                => Len(bare) > 0 /\ bare[1] = "/")
  BY <1>2, Stripping
<1>4. bare # NoPath => m.path # NoPath
  BY NothingToStrip
<1>5. m.path # NoPath => Len(m.path) > 0 /\ m.path[1] = "/"
  BY <1>2 DEF NoPath
<1>6. ASSUME m.path # NoPath
      PROVE  StripQueryParams(Decoded(bare)) # NoPath
  <2>1. /\ Decoded(bare) \in Seq(STRING)
        /\ Len(Decoded(bare)) = Len(bare) /\ Decoded(bare)[1] = "/"
    BY <1>3, <1>5, <1>6, Decoding
  <2>2. Len(StripQueryParams(Decoded(bare))) > 0
    BY <1>3, <1>5, <1>6, <2>1, Stripping
  <2>3. QED
    BY <2>2 DEF NoPath
<1>7. QED
  BY <1>1, <1>4, <1>6

LEMMA OutsidePaths ==
  ASSUME NEW m, GrpcHost(m) \notin InternalHosts, m.host \notin InternalHosts
  PROVE  GrpcPath(m) \in {NoPath, HttpPath(m)}
<1> DEFINE one == <<m.originalPath>>
           four == <<m.originalPath, m.originalURI, m.forwardedURI,
                     IF UrlPath(m) = <<"/">> THEN {} ELSE {UrlPath(m)}>>
<1>1. /\ Len(one) = 1 /\ one[1] = m.originalPath
      /\ Len(four) = 4 /\ four[1] = m.originalPath
      /\ \A i \in 1 .. Len(one) : one[i] = m.originalPath
  OBVIOUS
<1>2. /\ GrpcPath(m) = StripQueryParams(FirstThere(one, NoPath))
      /\ HttpPath(m) = StripQueryParams(FirstNonEmpty(four, NoPath))
  BY DEF GrpcPath, HttpPath
<1> HIDE DEF one, four
<1>3. Len(one) \in Nat \ {0} /\ Len(four) \in Nat \ {0}
  BY <1>1
<1>4. CASE m.originalPath \in {{}, {NoPath}}
  <2>1. ValueOf({NoPath}) = NoPath
    BY DEF ValueOf
  <2>2. FirstThere(one, NoPath) = NoPath
    <3>1. CASE m.originalPath = {}
      BY <1>1, <1>3, <3>1, ReadingHeaders
    <3>2. CASE m.originalPath = {NoPath}
      <4>1. ValueOf(m.originalPath) = NoPath
        BY <2>1, <3>2
      <4>2. QED
        BY <1>1, <1>3, <4>1, ReadingHeaders
    <3>3. QED
      BY <1>4, <3>1, <3>2
  <2>3. QED
    BY <1>2, <2>2, NothingToStrip
<1>5. CASE m.originalPath \notin {{}, {NoPath}}
  <2>1. FirstThere(one, NoPath) = FirstNonEmpty(four, NoPath)
    BY <1>1, <1>3, <1>5, FirstHeader
  <2>2. QED
    BY <1>2, <2>1
<1>6. QED
  BY <1>4, <1>5

(* The ports differ on nothing but what PortsAgree names.                  *)
LEMMA PortsAlike ==
  ASSUME NEW m \in Messages
  PROVE  PortsAgree(m)
<1> DEFINE g == GrpcRequest(m)
           h == HttpRequest(m)
<1>1. /\ g.path = GrpcPath(m) /\ h.path = HttpPath(m)
      /\ g.method = h.method
      /\ g.host = GrpcHost(m) /\ h.host = m.host
  BY DEF GrpcRequest, HttpRequest
<1>2. /\ g.auth = h.auth
      /\ g.service \in {"", h.service} /\ g.scope \in {"", h.scope}
      /\ NoEmptyHeader(m) => g.service = h.service /\ g.scope = h.scope
  BY HeadersAlike
<1> HIDE DEF g, h
<1>3. m.hostHeader = {m.host} => GrpcHost(m) = m.host
  <2> SUFFICES ASSUME m.hostHeader = {m.host} PROVE GrpcHost(m) = m.host
    OBVIOUS
  <2> DEFINE none == ""
             headers == <<m.hostHeader>>
  <2>1. Len(headers) = 1 /\ headers[1] = {m.host} /\ headers[1] # {}
    OBVIOUS
  <2>2. GrpcHost(m) = FirstThere(headers, none)
    BY DEF GrpcHost
  <2> HIDE DEF headers, none
  <2>3. Len(headers) \in Nat \ {0}
    BY <2>1
  <2>4. FirstThere(headers, none) = ValueOf({m.host})
    BY <2>1, <2>3, FirstHeader
  <2>5. QED
    BY <2>2, <2>4 DEF ValueOf
<1>4. SameSide(m) =>
         /\ IF m.host \in InternalHosts
            THEN HttpPath(m) = StripQueryParams(Decoded(GrpcPath(m)))
            ELSE GrpcPath(m) \in {NoPath, HttpPath(m)}
         /\ GrpcPath(m) # NoPath => HttpPath(m) # NoPath
  BY InsidePaths, OutsidePaths DEF SameSide
<1>5. (GrpcPath(m) # NoPath => HttpPath(m) # NoPath)
         => (GrpcTurn(m) = "ask" => HttpTurn(m) \in {"ask", "health"})
  BY DEF GrpcTurn, HttpTurn
<1>6. QED
  BY <1>1, <1>2, <1>3, <1>4, <1>5 DEF PortsAgree, g, h
-----------------------------------------------------------------------------
(* What becomes of the calls when the process, or a port, ends.            *)
LEMMA CutOffCalls ==
  ASSUME NEW ports, TypeOK, CutOff(ports)
  PROVE  /\ call' \in [Calls -> {NoCall} \cup Asked({"asking", "lost"}) \cup Answered]
         /\ \A c \in Calls :
               \/ call'[c] = call[c]
               \/ call[c].at = "asking" /\ call'[c].at = "lost"
<1>1. ASSUME NEW c \in Calls
      PROVE  /\ call'[c] \in {NoCall} \cup Asked({"asking", "lost"}) \cup Answered
             /\ \/ call'[c] = call[c]
                \/ call[c].at = "asking" /\ call'[c].at = "lost"
  <2>1. CASE call[c].at = "asking" /\ call[c].port \in ports
    <3>1. call[c] \in Asked({"asking", "lost"})
      <4>1. call[c] \in {NoCall} \cup Asked({"asking", "lost"}) \cup Answered
        BY DEF TypeOK
      <4>2. QED
        BY <2>1, <4>1 DEF NoCall, Answered
    <3>2. PICK port \in Ports, m \in Messages :
            call[c] = [at |-> "asking", port |-> port, msg |-> m]
      BY <2>1, <3>1 DEF Asked
    <3>3. call'[c] = [call[c] EXCEPT !.at = "lost"]
      BY <2>1 DEF CutOff
    <3>4. call'[c] = [at |-> "lost", port |-> port, msg |-> m]
      BY <3>2, <3>3
    <3>5. QED
      BY <2>1, <3>4 DEF Asked
  <2>2. CASE ~(call[c].at = "asking" /\ call[c].port \in ports)
    BY <2>2 DEF CutOff, TypeOK
  <2>3. QED
    BY <2>1, <2>2
<1>2. call' = [c \in Calls |-> call'[c]]
  BY DEF CutOff
<1>3. QED
  BY <1>1, <1>2

(* The end of the process, however it comes.                               *)
LEMMA ExitKeeps ==
  ASSUME IInv, NEW how \in {"clean", "fatal", "killed"}, Exit(how), Running,
         faulty' \in BOOLEAN, faulty => faulty',
         \/ signalled \/ faulty' \/ how = "killed"
         \/ main \in Starting
  PROVE  IInv'
<1>1. /\ config' = config /\ main' = main /\ thread' = thread
      /\ stopped' = stopped /\ signalled' = signalled /\ exit' = how
  BY DEF Exit
<1>2. /\ call' \in [Calls -> {NoCall} \cup Asked({"asking", "lost"}) \cup Answered]
      /\ \A c \in Calls :
            \/ call'[c] = call[c]
            \/ call[c].at = "asking" /\ call'[c].at = "lost"
  BY CutOffCalls DEF IInv, Exit
<1>3. TypeOK'
  BY <1>1, <1>2 DEF IInv, TypeOK, Created
<1>4. Causes'
  BY <1>1, <1>2 DEF IInv, Causes
<1>5. LossHasACause'
  BY <1>1, <1>2 DEF IInv, Causes, LossHasACause, Running
<1>6. QED
  BY <1>3, <1>4, <1>5 DEF IInv

(* The main goroutine loads, builds, waits, and stops.                     *)
LEMMA MainKeeps ==
  ASSUME IInv, Running, Main
  PROVE  IInv'
<1>1. CASE LoadConfig
  <2>1. PICK env \in EnvironmentsTried :
          IF Loads(env)
          THEN /\ main' = "building" /\ config' = Loaded(env)
               /\ UNCHANGED <<thread, stopped, signalled, exit, faulty, call>>
          ELSE Fatal
    BY <1>1 DEF LoadConfig
  <2>2. CASE Loads(env)
    BY <1>1, <2>1, <2>2
       DEF LoadConfig, IInv, TypeOK, Causes, LossHasACause, Created, Starting, Stopping
  <2>3. CASE ~Loads(env)
    BY <1>1, <2>1, <2>3, ExitKeeps DEF LoadConfig, Fatal, Starting, IInv, TypeOK
  <2>4. QED
    BY <2>2, <2>3
<1>2. CASE BuildService
  BY <1>2 DEF BuildService, IInv, TypeOK, Causes, LossHasACause, Created, Starting,
              Stopping, Ports
<1>3. CASE BuildFails
  BY <1>3, ExitKeeps DEF BuildFails, Fatal, Starting, IInv, TypeOK
<1>4. CASE Notify \/ WakeUp \/ Flush
  BY <1>4 DEF Notify, WakeUp, Flush, MainGoes, IInv, TypeOK, Causes, LossHasACause, Created,
              Starting, Stopping
<1>5. ASSUME NEW port \in Ports, NEW here \in Stopping, NEW next \in Stopping,
             StopPort(port, here, next)
      PROVE  IInv'
  <2>1. /\ main = here /\ main' = next /\ signalled /\ signalled' = signalled
        /\ config' = config /\ thread' = thread /\ exit' = exit /\ faulty' = faulty
    BY <1>5 DEF StopPort, IInv, Causes
  <2>2. \/ stopped' = stopped /\ call' = call
        \/ Created(port) /\ stopped' = stopped \cup {port} /\ CutOff({port})
    BY <1>5 DEF StopPort
  <2>3. /\ call' \in [Calls -> {NoCall} \cup Asked({"asking", "lost"}) \cup Answered]
        /\ \A c \in Calls :
              \/ call'[c] = call[c]
              \/ call[c].at = "asking" /\ call'[c].at = "lost"
    BY <2>2, CutOffCalls DEF IInv, TypeOK
  <2>4. TypeOK'
    BY <2>1, <2>2, <2>3 DEF IInv, TypeOK, Created, Stopping
  <2>5. Causes' /\ LossHasACause'
    BY <2>1, <2>3 DEF IInv, Causes, LossHasACause, Starting, Stopping
  <2>6. QED
    BY <2>4, <2>5 DEF IInv
<1>6. CASE StopGRPC \/ StopHTTP
  BY <1>5, <1>6 DEF StopGRPC, StopHTTP, Ports, Stopping
<1>7. CASE MainReturns
  BY <1>7, ExitKeeps DEF MainReturns, IInv, TypeOK, Causes, Stopping
<1>8. QED
  BY <1>1, <1>2, <1>3, <1>4, <1>6, <1>7 DEF Main

(* A port's goroutine.                                                     *)
LEMMA ThreadKeeps ==
  ASSUME IInv, Running, NEW port \in Ports, Thread(port) \/ BreakDown(port)
  PROVE  IInv'
<1>1. CASE BreakDown(port)
  BY <1>1, ExitKeeps DEF BreakDown, IInv
<1>2. ASSUME NEW where \in {"bound", "created", "serving", "returned"},
             thread[port] # "off", ThreadGoes(port, where),
             Created(port) => where # "bound"
      PROVE  IInv'
  <2>1. /\ thread' = [thread EXCEPT ![port] = where]
        /\ UNCHANGED <<config, main, stopped, signalled, exit, faulty, call>>
    BY <1>2 DEF ThreadGoes
  <2>2. main \notin Starting
    BY <1>2 DEF IInv, Causes
  <2>3. \A other \in Ports : Created(other) => Created(other)'
    BY <1>2, <2>1 DEF IInv, TypeOK, Created
  <2>4. TypeOK'
    BY <2>1, <2>3 DEF IInv, TypeOK
  <2>5. Causes' /\ LossHasACause'
    BY <2>1, <2>2 DEF IInv, Causes, LossHasACause
  <2>6. QED
    BY <2>4, <2>5 DEF IInv
<1>3. CASE Listen(port) \/ Create(port)
  BY <1>2, <1>3 DEF Listen, Create, Created
<1>4. CASE (StartServing(port) \/ ServeReturns(port)) /\ port \in stopped /\ Fatal
  BY <1>4, ExitKeeps DEF Fatal, IInv, TypeOK, Causes
<1>5. CASE (StartServing(port) \/ ServeReturns(port)) /\ ~(port \in stopped /\ Fatal)
  BY <1>2, <1>5 DEF StartServing, ServeReturns, Created
<1>6. QED
  BY <1>1, <1>3, <1>4, <1>5 DEF Thread

(* What the invariant says of a call.                                      *)
LEMMA UpdateKeeps ==
  ASSUME IInv, NEW c \in Calls, NEW value, Update(c, value),
         \/ value \in Asked({"asking"}) /\ main \notin Starting
         \/ value \in Answered
  PROVE  IInv'
<1>1. /\ call' = [call EXCEPT ![c] = value]
      /\ UNCHANGED <<config, main, thread, stopped, signalled, exit, faulty>>
  BY DEF Update
<1>2. value \in Asked({"asking", "lost"}) \cup Answered /\ value.at # "lost"
  BY DEF Asked, Answered
<1>3. TypeOK'
  BY <1>1, <1>2 DEF IInv, TypeOK, Created
<1>4. \A d \in Calls : call'[d] = call[d] \/ (d = c /\ call'[d] = value)
  <2>1. DOMAIN call = Calls
    BY DEF IInv, TypeOK
  <2>2. QED
    BY <1>1, <2>1
<1>5. value.at = "asking" => main \notin Starting
  BY DEF Asked, Answered
<1>6. Causes' /\ LossHasACause'
  BY <1>1, <1>2, <1>4, <1>5 DEF IInv, Causes, LossHasACause
<1>7. QED
  BY <1>3, <1>6 DEF IInv

(* What Envoy is told is one of the replies.                               *)
LEMMA RepliesTyped ==
  /\ Allow \in Replies /\ DenyMissingPath \in Replies
  /\ \A response \in Responses, breaker \in BreakerStates :
        /\ GrpcReply(response, breaker) \in Replies
        /\ HttpReply(response, breaker) \in Replies
BY DEF Allow, DenyMissingPath, GrpcReply, HttpReply, DenyWithDetails, Reply, Responses, Replies

(* The calls.                                                              *)
LEMMA CallsKeep ==
  ASSUME IInv, Running, Arrive \/ \E c \in Calls : Answer(c)
  PROVE  IInv'
<1>1. ASSUME NEW c \in Calls, NEW port \in Ports, NEW m \in Messages,
             AnswerAtOnce(c, port, m)
      PROVE  IInv'
  <2> DEFINE value == [at |-> "answered", port |-> port, msg |-> m,
                       reply |-> IF Turn(port, m) = "missing path"
                                 THEN DenyMissingPath ELSE Allow,
                       allowed |-> FALSE]
  <2>1. Update(c, value)
    BY <1>1 DEF AnswerAtOnce
  <2>2. value \in Answered
    BY RepliesTyped DEF Answered
  <2> HIDE DEF value
  <2>3. QED
    BY <2>1, <2>2, UpdateKeeps
<1>2. ASSUME NEW c \in Calls, NEW port \in Ports, NEW m \in Messages, Ask(c, port, m)
      PROVE  IInv'
  <2>1. Update(c, [at |-> "asking", port |-> port, msg |-> m])
    BY <1>2 DEF Ask
  <2>2. main \notin Starting
    BY <1>2 DEF Ask, Serving, IInv, Causes
  <2>3. [at |-> "asking", port |-> port, msg |-> m] \in Asked({"asking"})
    BY DEF Asked
  <2>4. QED
    BY <2>1, <2>2, <2>3, UpdateKeeps
<1>3. ASSUME NEW c \in Calls, Answer(c)
      PROVE  IInv'
  <2>1. PICK response \in Responses, breaker \in BreakerStates :
          Update(c, [at |-> "answered", port |-> call[c].port, msg |-> call[c].msg,
                     reply |-> IF call[c].port = "grpc"
                               THEN GrpcReply(response, breaker)
                               ELSE HttpReply(response, breaker),
                     allowed |-> response.allowed])
    BY <1>3 DEF Answer
  <2> DEFINE value == [at |-> "answered", port |-> call[c].port, msg |-> call[c].msg,
                       reply |-> IF call[c].port = "grpc"
                                 THEN GrpcReply(response, breaker)
                                 ELSE HttpReply(response, breaker),
                       allowed |-> response.allowed]
  <2>2. call[c].port \in Ports /\ call[c].msg \in Messages
    <3>1. call[c] \in {NoCall} \cup Asked({"asking", "lost"}) \cup Answered
      BY DEF IInv, TypeOK
    <3>2. QED
      BY <1>3, <3>1 DEF Answer, NoCall, Asked, Answered
  <2>3. value \in Answered
    <3>1. response.allowed \in BOOLEAN
      BY DEF Responses
    <3>2. value.reply \in Replies
      <4>1. /\ GrpcReply(response, breaker) \in Replies
            /\ HttpReply(response, breaker) \in Replies
        BY RepliesTyped
      <4>2. value.reply = IF call[c].port = "grpc"
                          THEN GrpcReply(response, breaker)
                          ELSE HttpReply(response, breaker)
        OBVIOUS
      <4>3. QED
        BY <4>1, <4>2
    <3>3. QED
      BY <2>2, <3>1, <3>2 DEF Answered
  <2> HIDE DEF value
  <2>4. Update(c, value)
    BY <2>1 DEF value
  <2>5. QED
    BY <2>3, <2>4, UpdateKeeps
<1>4. QED
  BY <1>1, <1>2, <1>3 DEF Arrive

(* The operator.                                                           *)
LEMMA SignalKeeps ==
  ASSUME IInv, Running, Signal
  PROVE  IInv'
<1>1. CASE Exit("killed")
  BY <1>1, ExitKeeps DEF Signal, IInv, TypeOK, Exit
<1>2. CASE ~Exit("killed")
  BY <1>2 DEF Signal, IInv, TypeOK, Causes, LossHasACause, Created
<1>3. QED
  BY <1>1, <1>2

(* IInv is inductive.                                                      *)
THEOREM Invariance == Spec => []IInv
<1>1. Init => IInv
  <2> SUFFICES ASSUME Init PROVE IInv
    OBVIOUS
  <2>1. call \in [Calls -> {NoCall} \cup Asked({"asking", "lost"}) \cup Answered]
    BY DEF Init
  <2>2. TypeOK
    BY <2>1 DEF Init, TypeOK
  <2>3. \A c \in Calls : call[c].at = "none"
    BY DEF Init, NoCall
  <2>4. Causes /\ LossHasACause
    BY <2>3 DEF Init, Causes, LossHasACause, Stopping
  <2>5. QED
    BY <2>2, <2>4 DEF IInv
<1>2. IInv /\ [Next]_vars => IInv'
  <2> SUFFICES ASSUME IInv, [Next]_vars PROVE IInv'
    OBVIOUS
  <2>1. CASE UNCHANGED vars
    BY <2>1 DEF vars, IInv, TypeOK, Causes, LossHasACause, Created
  <2>2. CASE Next
    BY <2>2, MainKeeps, ThreadKeeps, CallsKeep, SignalKeeps DEF Next
  <2>3. QED
    BY <2>1, <2>2
<1>3. QED
  BY <1>1, <1>2, PTL DEF Spec

(* The variables keep their types, and stop never follows a nil pointer.   *)
THEOREM TypeCorrect == Spec => []TypeOK
BY Invariance, PTL DEF IInv

(* The words a call is asked about in depend on the port it comes in at    *)
(* only where PortsAgree says so - a header without a value, an escape in  *)
(* an internal path, a host the ports disagree about - and name a bare     *)
(* path: each port reads the message by rules of its own.                  *)
THEOREM AskedInTheSameWords == Spec => []AskedAlike
<1>1. TypeOK => AskedAlike
  <2> SUFFICES ASSUME TypeOK, NEW c \in Calls, call[c].at = "asking"
               PROVE  PortsAgree(call[c].msg) /\ AskedPathIsBare(call[c].msg)
    BY DEF AskedAlike
  <2>1. call[c] \in {NoCall} \cup Asked({"asking", "lost"}) \cup Answered
    BY DEF TypeOK
  <2>2. call[c].msg \in Messages
    BY <2>1 DEF NoCall, Asked, Answered
  <2>3. QED
    BY <2>2, PortsAlike, PathsBare
<1>2. QED
  BY <1>1, TypeCorrect, PTL

(* The process gives up a call only when told to stop, or when a port      *)
(* broke down: no interleaving of the start, the stop and the goroutines   *)
(* ends it otherwise.                                                      *)
THEOREM LossesHaveCauses == Spec => []LossHasACause
BY Invariance, PTL DEF IInv
-----------------------------------------------------------------------------
(* A call is answered by the two ways of answering one, and by no other.   *)
LEMMA OnlyAnswersAnswer ==
  ASSUME TypeOK, [Next]_vars, NEW c \in Calls, call'[c] # call[c],
         call'[c].at = "answered"
  PROVE  \/ Answer(c)
         \/ \E port \in Ports, m \in Messages : AnswerAtOnce(c, port, m)
<1>1. \/ call' = call \/ \E ports : CutOff(ports)
      \/ Arrive \/ \E d \in Calls : Answer(d)
  BY DEF Next, Main, LoadConfig, BuildService, BuildFails, Notify, WakeUp, StopGRPC, StopHTTP,
         StopPort, Flush, MainReturns, Thread, Listen, Create, StartServing, ServeReturns,
         BreakDown, Signal, Fatal, Exit, MainGoes, ThreadGoes, vars
<1>2. ~\E ports : CutOff(ports)
  BY CutOffCalls
<1>3. ASSUME NEW d \in Calls, NEW value, Update(d, value)
      PROVE  d = c /\ call'[c] = value
  <2>1. call' = [call EXCEPT ![d] = value] /\ DOMAIN call = Calls
    BY <1>3 DEF Update, TypeOK
  <2>2. QED
    BY <2>1
<1>4. ASSUME NEW d \in Calls, NEW port \in Ports, NEW m \in Messages
      PROVE  /\ ~Ask(d, port, m)
             /\ AnswerAtOnce(d, port, m) => d = c
  <2>1. ASSUME Ask(d, port, m)
        PROVE  FALSE
    <3>1. Update(d, [at |-> "asking", port |-> port, msg |-> m])
      BY <2>1 DEF Ask
    <3>2. call'[c] = [at |-> "asking", port |-> port, msg |-> m]
      BY <1>3, <3>1
    <3>3. QED
      BY <3>2
  <2>2. ASSUME AnswerAtOnce(d, port, m)
        PROVE  d = c
    <3>1. \E value : Update(d, value)
      BY <2>2 DEF AnswerAtOnce
    <3>2. QED
      BY <1>3, <3>1
  <2>3. QED
    BY <2>1, <2>2
<1>5. ASSUME NEW d \in Calls, Answer(d)
      PROVE  d = c
  BY <1>3, <1>5 DEF Answer
<1>6. QED
  BY <1>1, <1>2, <1>4, <1>5 DEF Arrive

(* A message is let through, refused, or asked about.                      *)
LEMMA Turns ==
  ASSUME NEW port, NEW m
  PROVE  Turn(port, m) \in {"preflight", "health", "missing path", "ask"}
BY DEF Turn, GrpcTurn, HttpTurn

(* Envoy lets nothing pass that the service did not allow, but for         *)
(* preflights and the health check.                                        *)
THEOREM PassesAreAllowed == Spec => []PassedWasAllowed
<1>1. Init => PassedWasAllowed
  <2> SUFFICES ASSUME Init PROVE \A c \in Calls : call[c].at = "none"
    BY DEF PassedWasAllowed
  <2>1. QED
    BY DEF Init, NoCall
<1>2. TypeOK /\ PassedWasAllowed /\ [Next]_vars => PassedWasAllowed'
  <2> SUFFICES ASSUME TypeOK, PassedWasAllowed, [Next]_vars,
                      NEW c \in Calls, call'[c].at = "answered",
                      call'[c].reply.code = "ok"
               PROVE  \/ call'[c].allowed
                      \/ Turn(call'[c].port, call'[c].msg) \in {"preflight", "health"}
    BY DEF PassedWasAllowed, Turn
  <2>1. CASE call'[c] = call[c]
    BY <2>1 DEF PassedWasAllowed
  <2>2. ASSUME NEW port \in Ports, NEW m \in Messages, AnswerAtOnce(c, port, m)
        PROVE  Turn(call'[c].port, call'[c].msg) \in {"preflight", "health"}
    <3> DEFINE value == [at |-> "answered", port |-> port, msg |-> m,
                         reply |-> IF Turn(port, m) = "missing path"
                                   THEN DenyMissingPath ELSE Allow,
                         allowed |-> FALSE]
    <3>1. Update(c, value) /\ Turn(port, m) # "ask"
      BY <2>2 DEF AnswerAtOnce
    <3>2. call'[c] = value
      <4>1. DOMAIN call = Calls
        BY DEF TypeOK
      <4> HIDE DEF value
      <4>2. QED
        BY <3>1, <4>1 DEF Update
    <3>3. /\ call'[c].port = port /\ call'[c].msg = m
          /\ Turn(port, m) = "missing path" => call'[c].reply = DenyMissingPath
      <4>1. call'[c].port = port /\ call'[c].msg = m
        <5>1. value.port = port /\ value.msg = m
          OBVIOUS
        <5> HIDE DEF value
        <5>2. QED
          BY <3>2, <5>1
      <4>2. ASSUME Turn(port, m) = "missing path"
            PROVE  call'[c].reply = DenyMissingPath
        <5>1. value.reply = DenyMissingPath
          BY <4>2
        <5> HIDE DEF value
        <5>2. QED
          BY <3>2, <5>1
      <4>3. QED
        BY <4>1, <4>2
    <3>4. DenyMissingPath.code = "bad request"
      BY DEF DenyMissingPath, Reply
    <3> HIDE DEF value
    <3>5. Turn(port, m) # "missing path"
      BY <3>3, <3>4
    <3>6. QED
      BY <3>1, <3>3, <3>5, Turns
  <2>3. CASE Answer(c)
    <3>1. PICK response \in Responses, breaker \in BreakerStates :
            Update(c, [at |-> "answered", port |-> call[c].port, msg |-> call[c].msg,
                       reply |-> IF call[c].port = "grpc"
                                 THEN GrpcReply(response, breaker)
                                 ELSE HttpReply(response, breaker),
                       allowed |-> response.allowed])
      BY <2>3 DEF Answer
    <3> DEFINE value == [at |-> "answered", port |-> call[c].port, msg |-> call[c].msg,
                         reply |-> IF call[c].port = "grpc"
                                   THEN GrpcReply(response, breaker)
                                   ELSE HttpReply(response, breaker),
                         allowed |-> response.allowed]
    <3>2. call'[c] = value
      <4>1. DOMAIN call = Calls /\ Update(c, value)
        BY <3>1 DEF TypeOK
      <4> HIDE DEF value
      <4>2. QED
        BY <4>1 DEF Update
    <3>3. response.allowed \in BOOLEAN
      BY DEF Responses
    <3>4. /\ call'[c].allowed = response.allowed
          /\ \/ call'[c].reply = GrpcReply(response, breaker)
             \/ call'[c].reply = HttpReply(response, breaker)
      BY <3>2
    <3>5. ~response.allowed => /\ GrpcReply(response, breaker).code = "forbidden"
                               /\ HttpReply(response, breaker).code = "forbidden"
      BY DEF GrpcReply, HttpReply, DenyWithDetails, Reply
    <3> HIDE DEF value
    <3>6. QED
      BY <3>3, <3>4, <3>5
  <2>4. QED
    BY <2>1, <2>2, <2>3, OnlyAnswersAnswer
<1>3. QED
  BY <1>1, <1>2, TypeCorrect, PTL DEF Spec
=============================================================================
