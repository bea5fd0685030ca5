--------------------------- MODULE MappingResolver ---------------------------
(***************************************************************************)
(* GetAction of internal/mapping/client.go: the action a route stands for, *)
(* looked up in Redis by one goroutine per request, while the mapping      *)
(* service changes the mappings.                                           *)
(*                                                                         *)
(* A resolution is a series of single Redis commands, and each is an       *)
(* action here: GET of the route's lookup key; HGET of the mapping it      *)
(* names; or else LRANGE of the patterns, an HGET for each of them, and    *)
(* the SETEX that remembers the match.  Any command may fail, and nothing  *)
(* holds the mappings still between two of them.                           *)
(*                                                                         *)
(* The lookup keys are in the Redis of RedisCache, written and read by the *)
(* same client library: a SETEX may be executed late, twice or behind one  *)
(* that was sent after it, and a failover brings old keys back.  So they   *)
(* are a LossyCache, which RedisCache implements.                          *)
(*                                                                         *)
(* Routes are the paths of one method: no key is shared by two methods,    *)
(* as a method has no colon.  matches stands for the compiled pattern of a *)
(* mapping: the routes it matches, MatchedBy of PathPattern.  Time is in   *)
(* ticks.  A resolution may last as long as its list of patterns is long - *)
(* the gRPC port gives it no deadline - but its commands follow each other *)
(* within Latency.                                                         *)
(***************************************************************************)
EXTENDS PathPattern

CONSTANTS
    Procs,
    Routes,
    Catalogues,   \* the states of the mappings the mapping service may leave
    LookupTTL,    \* the time to live of a lookup key: five minutes, and the
                  \* Lag of RedisCache
    Latency       \* how long after one command of a resolution was executed
                  \* the next one is, or is given up: the client library's
                  \* timeouts and retries end every command

ASSUME TimesAssumption == LookupTTL \in Nat \ {0} /\ Latency \in Nat

Ids == UNION {DOMAIN c.mappings : c \in Catalogues}

(* An id in a list of patterns that is never that of a mapping is as good  *)
(* as not there: its HGET finds nothing, and it is skipped.                *)
ASSUME CataloguesAssumption == \A c \in Catalogues : c.patterns \in Seq(Ids)

VARIABLES
    catalogue,   \* mappings:all and mappings:patterns
    gone,        \* gone[i][r]: for how long mapping i has not matched route r
    lookup,      \* the lookup keys: the promises of a LossyCache
    pc,
    route,       \* route[p]: the route p resolves
    untested,    \* untested[p]: the patterns p has read and not tested yet
    id,          \* id[p]: the mapping p has settled on, as a set
    elapsed,     \* elapsed[p]: the time since p's last command
    result       \* result[p]: what GetAction returned last

resolution == <<pc, route, untested, id, elapsed, result>>
vars == <<catalogue, gone, lookup, resolution>>

Cache == INSTANCE LossyCache WITH
            Keys <- Routes, Values <- Ids, TTLs <- {LookupTTL}, Readers <- Procs,
            store <- lookup, answer <- id

Forgotten == LookupTTL + 2 * Latency + 1   \* where gone saturates

Matching(c, r) == {i \in DOMAIN c.mappings : r \in c.mappings[i].matches}

Actions == UNION {{c.mappings[i].action : i \in DOMAIN c.mappings} : c \in Catalogues}

TypeOK ==
    /\ catalogue \in Catalogues
    /\ gone \in [Ids -> [Routes -> 0 .. Forgotten]]
    /\ lookup \subseteq [key : Routes, value : Ids, left : 0 .. LookupTTL]
    /\ pc \in [Procs -> {"idle", "details", "patterns", "scan", "saving", "saved"}]
    /\ route \in [Procs -> Routes]
    /\ untested \in [Procs -> Seq(Ids)]
    /\ id \in [Procs -> SUBSET Ids]
    /\ elapsed \in [Procs -> 0 .. Latency]
    /\ result \in [Procs -> Actions \cup {"none", "error"}]
-----------------------------------------------------------------------------
Init ==
    /\ catalogue \in Catalogues
    /\ gone = [i \in Ids |-> [r \in Routes |->
                 IF i \in Matching(catalogue, r) THEN 0 ELSE Forgotten]]
    /\ pc = [p \in Procs |-> "idle"]
    /\ route \in {[p \in Procs |-> r] : r \in Routes}
    /\ untested = [p \in Procs |-> <<>>]
    /\ Cache!Init
    /\ elapsed = [p \in Procs |-> 0]
    /\ result = [p \in Procs |-> "none"]

(* p's command has been executed, and p goes on.                           *)
Goto(p, where) ==
    /\ pc' = [pc EXCEPT ![p] = where]
    /\ elapsed' = [elapsed EXCEPT ![p] = 0]

(* GetAction returns, and forgets all but its answer; a mapping without an *)
(* action is no mapping.                                                   *)
Return(p, action) ==
    /\ result' = [result EXCEPT ![p] = IF action = "" THEN "error" ELSE action]
    /\ id' = [id EXCEPT ![p] = {}]
    /\ untested' = [untested EXCEPT ![p] = <<>>]
    /\ Goto(p, "idle")

Start(p, r) ==
    /\ pc[p] = "idle"
    /\ route' = [route EXCEPT ![p] = r]
    /\ result' = [result EXCEPT ![p] = "none"]
    /\ UNCHANGED <<catalogue, gone, untested>>

LookUpSliding(p, r) ==   \* mutant: a hit renews the lookup key
    /\ Start(p, r)
    /\ \/ Cache!Lookup(p, r)
       \/ \E e \in lookup :
             /\ e.key = r
             /\ id' = [id EXCEPT ![p] = {e.value}]
             /\ lookup' = (lookup \ {e}) \cup {[e EXCEPT !.left = LookupTTL]}
    /\ Goto(p, IF id'[p] = {} THEN "patterns" ELSE "details")

(* A hit, or a miss: the key is not there, or the GET fails.               *)
LookUp(p, r) ==
    /\ Start(p, r)
    /\ Cache!Lookup(p, r)
    /\ Goto(p, IF id'[p] = {} THEN "patterns" ELSE "details")

(* The mapping is read as it is now; whether its pattern still matches the *)
(* route is not looked at.                                                 *)
ReadDetails(p) ==
    /\ pc[p] = "details"
    /\ \E i \in id[p] \cap DOMAIN catalogue.mappings :
          Return(p, catalogue.mappings[i].action)
    /\ UNCHANGED <<catalogue, gone, lookup, route>>

ReadPatterns(p) ==
    /\ pc[p] = "patterns"
    /\ untested' = [untested EXCEPT ![p] = catalogue.patterns]
    /\ Goto(p, "scan")
    /\ UNCHANGED <<catalogue, gone, lookup, route, id, result>>

(* A failed HGET or LRANGE; a mapping that is not there, or does not parse. *)
Fail(p) ==
    /\ pc[p] \in {"details", "patterns"}
    /\ Return(p, "error")
    /\ UNCHANGED <<catalogue, gone, lookup, route>>

Skip(p) ==
    /\ untested' = [untested EXCEPT ![p] = Tail(@)]
    /\ Goto(p, "scan")
    /\ UNCHANGED <<catalogue, gone, lookup, route, id, result>>

Testing(p) == pc[p] = "scan" /\ untested[p] # <<>>

(* The next pattern: it matches, it does not, or its HGET fails and it is  *)
(* skipped.                                                                *)
TestMatches(p) ==
    /\ Testing(p)
    /\ Head(untested[p]) \in Matching(catalogue, route[p])
    /\ id' = [id EXCEPT ![p] = {Head(untested[p])}]
    /\ result' = [result EXCEPT ![p] = catalogue.mappings[Head(untested[p])].action]
    /\ Goto(p, "saving")
    /\ UNCHANGED <<catalogue, gone, lookup, route, untested>>

TestDiffers(p) ==
    /\ Testing(p)
    /\ Head(untested[p]) \notin Matching(catalogue, route[p])
    /\ Skip(p)

TestUnreadable(p) == Testing(p) /\ Skip(p)

NoMatch(p) ==
    /\ pc[p] = "scan"
    /\ untested[p] = <<>>
    /\ Return(p, "error")
    /\ UNCHANGED <<catalogue, gone, lookup, route>>

SaveProlonging(p) ==   \* mutant: the new life is added to the old one
    /\ pc[p] = "saving"
    /\ \E i \in id[p] :
          \/ \E e \in lookup : Cache!Put(route[p], i, LookupTTL + e.left)
          \/ Cache!Put(route[p], i, LookupTTL)
    /\ Goto(p, "saved")
    /\ UNCHANGED <<catalogue, gone, route, untested, result>>

(* The SETEX is sent: it is executed, now or late, or never.               *)
Save(p) ==
    /\ pc[p] = "saving"
    /\ \/ \E i \in id[p] : Cache!Put(route[p], i, LookupTTL)
       \/ UNCHANGED <<lookup, id>>
    /\ Goto(p, "saved")
    /\ UNCHANGED <<catalogue, gone, route, untested, result>>

(* Nobody looks at what has become of it.                                  *)
Finish(p) ==
    /\ pc[p] = "saved"
    /\ Return(p, result[p])
    /\ UNCHANGED <<catalogue, gone, lookup, route>>

(* Redis fails over, or evicts keys.                                       *)
LoseKeys ==
    /\ Cache!Forget
    /\ UNCHANGED <<catalogue, gone, pc, route, untested, elapsed, result>>

(* The mapping service, which leaves the lookup keys alone.                *)
ChangeMappings ==
    /\ catalogue' \in Catalogues
    /\ gone' = [i \in Ids |-> [r \in Routes |->
                 IF i \in Matching(catalogue', r) THEN 0 ELSE gone[i][r]]]
    /\ UNCHANGED <<lookup, resolution>>

Busy == {p \in Procs : pc[p] # "idle"}

Tick ==
    /\ \A p \in Busy : elapsed[p] < Latency
    /\ elapsed' = [p \in Procs |-> IF p \in Busy THEN elapsed[p] + 1 ELSE elapsed[p]]
    /\ gone' = [i \in Ids |-> [r \in Routes |->
                 IF i \in Matching(catalogue, r) THEN 0
                 ELSE IF gone[i][r] < Forgotten THEN gone[i][r] + 1 ELSE Forgotten]]
    /\ Cache!Tick
    /\ UNCHANGED <<catalogue, pc, route, untested, result>>

Resolve(p) ==
    \/ \E r \in Routes : LookUp(p, r)
    \/ ReadDetails(p)
    \/ ReadPatterns(p)
    \/ Fail(p)
    \/ TestMatches(p)
    \/ TestDiffers(p)
    \/ TestUnreadable(p)
    \/ NoMatch(p)
    \/ Save(p)
    \/ Finish(p)

Next ==
    \/ \E p \in Procs : Resolve(p)
    \/ LoseKeys
    \/ ChangeMappings
    \/ Tick

Spec == Init /\ [][Next]_vars

(* The mappings stay as they are.                                          *)
SettledSpec == Init /\ [][(\E p \in Procs : Resolve(p)) \/ Tick]_vars
-----------------------------------------------------------------------------
(* A lookup key names a mapping that matched its route no longer ago than  *)
(* the key's age plus the time of one command, whoever wrote the key, and  *)
(* in which order: however long the scan that found the mapping was.       *)
LookupIsRecent ==
    \A e \in lookup : gone[e.value][e.key] <= (LookupTTL - e.left) + Latency

(* A mapping that no longer matches a route stops being its answer within  *)
(* the life of a lookup key and the time of two commands, the one that     *)
(* wrote the key and the one that reads the mapping it names (no step      *)
(* invalidates a lookup key).                                              *)
ChangesTakeHold ==
    [][\A p \in Procs :
         /\ pc[p] # "idle" /\ pc'[p] = "idle"
         /\ result'[p] # "error"
         => \A i \in id[p] : gone[i][route[p]] < Forgotten]_vars

(* Whatever the resolver does, the patterns mean what PathPattern says they *)
(* do: a mapping with a plain pattern matches exactly the paths its        *)
(* pattern stands for, but for one that ends in a dollar.                  *)
PatternsMeanTheirInstances == [][TranslationIsFaithful]_vars

(* A regular expression that a mapping brings, in either field, is         *)
(* decisive, and matches whole paths only, if its author anchored what the *)
(* code does not.                                                          *)
OwnRegexIsDecisive == [][OwnRegexesDecide]_vars

(* The patterns are "ordered by specificity" (client.go:176): the answer   *)
(* is the action of the first of them that matches, or an error.           *)
FirstMatch(r) ==
    LET matching == SelectSeq(catalogue.patterns,
                              LAMBDA i : i \in Matching(catalogue, r))
    IN  IF matching = <<>> THEN "error" ELSE catalogue.mappings[Head(matching)].action

FirstMatchWins ==
    \A p \in Procs :
       pc[p] = "idle" => result[p] \in {"none", "error", FirstMatch(route[p])}
=============================================================================
