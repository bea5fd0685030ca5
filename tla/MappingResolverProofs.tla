----------------------- MODULE MappingResolverProofs -----------------------
(***************************************************************************)
(* Theorems about MappingResolver, for any routes, mappings and numbers of *)
(* goroutines, and any times: for how long a change of the mappings may go *)
(* unnoticed; and about PathPattern, for any expressions and paths.        *)
(*                                                                         *)
(* The age of what a goroutine knows is bounded where it stands: a mapping *)
(* it has found by a pattern is as old as the last command, one it has     *)
(* found under a lookup key as old as the key, and a command more.         *)
(***************************************************************************)
EXTENDS MappingResolver, TLAPS

(* A mapping that matches a route now has not been gone for any time.      *)
GoneIsReset ==
    \A i \in Ids, r \in Routes : i \in Matching(catalogue, r) => gone[i][r] = 0

(* For how long the mapping a goroutine has settled on may have been gone  *)
(* when the last command was executed, and where one has been settled on.  *)
Known(where) ==
    IF where = "details" THEN LookupTTL + Latency
    ELSE IF where = "saved" THEN Latency ELSE 0

KnownIsRecent ==
    \A p \in Procs :
       /\ pc[p] \in {"idle", "patterns", "scan"} => id[p] = {}
       /\ \A i \in id[p] : gone[i][route[p]] <= Known(pc[p]) + elapsed[p]

IInv == TypeOK /\ GoneIsReset /\ KnownIsRecent /\ LookupIsRecent
-----------------------------------------------------------------------------
(* The numbers the invariant compares.                                     *)
LEMMA Numbers ==
  ASSUME TypeOK
  PROVE  /\ LookupTTL \in Nat \ {0} /\ Latency \in Nat
         /\ Forgotten \in Nat /\ Forgotten = LookupTTL + 2 * Latency + 1
         /\ \A i \in Ids, r \in Routes : gone[i][r] \in 0 .. Forgotten
         /\ \A p \in Procs : elapsed[p] \in 0 .. Latency
         /\ \A where : Known(where) \in Nat
BY TimesAssumption DEF TypeOK, Forgotten, Known

(* A mapping that matches has an id and an action.                         *)
LEMMA MatchingTypes ==
  ASSUME NEW c \in Catalogues
  PROVE  /\ \A r : Matching(c, r) \subseteq DOMAIN c.mappings
         /\ DOMAIN c.mappings \subseteq Ids
         /\ \A i \in DOMAIN c.mappings : c.mappings[i].action \in Actions
BY DEF Matching, Ids, Actions

(* A lookup may lose keys, and tells what one of them says.                *)
LEMMA LookupTells ==
  ASSUME NEW p \in Procs, NEW r, id \in [Procs -> SUBSET Ids],
         \A e \in lookup : e.value \in Ids, Cache!Lookup(p, r)
  PROVE  /\ lookup' \subseteq lookup
         /\ id' \in [Procs -> SUBSET Ids]
         /\ \A q \in Procs : q # p => id'[q] = id[q]
         /\ \A i \in id'[p] : \E e \in lookup : e.key = r /\ e.value = i
BY DEF Cache!Lookup, Cache!Miss

(* A SETEX may lose keys, and adds one at most.                            *)
LEMMA PutAdds ==
  ASSUME NEW r, NEW i, Cache!Put(r, i, LookupTTL)
  PROVE  /\ lookup' \subseteq lookup \cup {[key |-> r, value |-> i, left |-> LookupTTL]}
         /\ id' = id
BY DEF Cache!Put

(* One command of p, but for the lookup keys and what p has settled on.    *)
LEMMA Going ==
  ASSUME TypeOK, NEW p \in Procs,
         NEW where \in {"idle", "details", "patterns", "scan", "saving", "saved"},
         Goto(p, where)
  PROVE  /\ pc' \in [Procs -> {"idle", "details", "patterns", "scan", "saving", "saved"}]
         /\ elapsed' \in [Procs -> 0 .. Latency]
         /\ pc'[p] = where /\ elapsed'[p] = 0
         /\ \A q \in Procs : q # p => pc'[q] = pc[q] /\ elapsed'[q] = elapsed[q]
BY TimesAssumption DEF TypeOK, Goto

(* An answer is an action, or an error, and all that is left.              *)
LEMMA Returning ==
  ASSUME TypeOK, NEW p \in Procs, NEW action \in Actions \cup {"none", "error"},
         Return(p, action)
  PROVE  /\ result' \in [Procs -> Actions \cup {"none", "error"}]
         /\ id' \in [Procs -> SUBSET Ids] /\ id'[p] = {}
         /\ \A q \in Procs : q # p => id'[q] = id[q]
         /\ untested' \in [Procs -> Seq(Ids)]
         /\ Goto(p, "idle")
<1>1. result' = [result EXCEPT ![p] = IF action = "" THEN "error" ELSE action]
  BY DEF Return
<1>2. (IF action = "" THEN "error" ELSE action) \in Actions \cup {"none", "error"}
  OBVIOUS
<1>3. result' \in [Procs -> Actions \cup {"none", "error"}]
  BY <1>1, <1>2 DEF TypeOK
<1>4. id' = [id EXCEPT ![p] = {}] /\ untested' = [untested EXCEPT ![p] = <<>>]
      /\ Goto(p, "idle")
  BY DEF Return
<1>5. <<>> \in Seq(Ids)
  OBVIOUS
<1>6. untested' \in [Procs -> Seq(Ids)]
  BY <1>4, <1>5 DEF TypeOK
<1>7. QED
  BY <1>3, <1>4, <1>6 DEF TypeOK

(* The lookup keys are promises about routes and mappings.                 *)
LEMMA KeysTyped ==
  ASSUME TypeOK, NEW e \in lookup
  PROVE  /\ e.key \in Routes /\ e.value \in Ids /\ e.left \in 0 .. LookupTTL
         /\ e = [key |-> e.key, value |-> e.value, left |-> e.left]
BY DEF TypeOK

(* What a step of a resolution does to what the invariant is about: p goes *)
(* on, and what it has settled on is nothing, or is told by a lookup key,  *)
(* or matches now, or is what it was.                                      *)
Steps(p) ==
    /\ catalogue' = catalogue /\ gone' = gone
    /\ \A q \in Procs : q # p => /\ pc'[q] = pc[q] /\ elapsed'[q] = elapsed[q]
                                /\ id'[q] = id[q] /\ route'[q] = route[q]
    /\ elapsed'[p] = 0

Settles(p) ==
    \/ id'[p] = {} /\ lookup' \subseteq lookup
    \/ /\ pc'[p] = "details" /\ lookup' \subseteq lookup
       /\ \A i \in id'[p] : \E e \in lookup : e.key = route'[p] /\ e.value = i
    \/ /\ pc'[p] = "saving" /\ lookup' = lookup /\ route'[p] = route[p]
       /\ id'[p] \subseteq Matching(catalogue, route[p])
    \/ /\ pc[p] = "saving" /\ pc'[p] = "saved"
       /\ id'[p] = id[p] /\ route'[p] = route[p]
       /\ \E i \in id[p] :
             lookup' \subseteq lookup \cup
                              {[key |-> route[p], value |-> i, left |-> LookupTTL]}
    \/ /\ pc[p] = "saving" /\ pc'[p] = "saved"
       /\ id'[p] = id[p] /\ route'[p] = route[p] /\ lookup' = lookup

LEMMA ResolveSteps ==
  ASSUME TypeOK, NEW p \in Procs, Resolve(p),
         pc[p] \in {"idle", "patterns", "scan"} => id[p] = {}
  PROVE  /\ TypeOK' /\ Steps(p) /\ Settles(p)
         /\ pc'[p] \in {"idle", "patterns", "scan"} => id'[p] = {}
<1>1. ASSUME NEW r \in Routes, LookUp(p, r)
      PROVE  /\ TypeOK' /\ Steps(p) /\ Settles(p)
             /\ pc'[p] \in {"idle", "patterns", "scan"} => id'[p] = {}
  <2>1. /\ lookup' \subseteq lookup
        /\ id' \in [Procs -> SUBSET Ids]
        /\ \A q \in Procs : q # p => id'[q] = id[q]
        /\ \A i \in id'[p] : \E e \in lookup : e.key = r /\ e.value = i
    BY <1>1, LookupTells, KeysTyped DEF LookUp, TypeOK
  <2>2. /\ route' = [route EXCEPT ![p] = r]
        /\ result' = [result EXCEPT ![p] = "none"]
        /\ UNCHANGED <<catalogue, gone, untested>>
    BY <1>1 DEF LookUp, Start
  <2>3. Goto(p, IF id'[p] = {} THEN "patterns" ELSE "details")
    BY <1>1 DEF LookUp
  <2>4. /\ pc' \in [Procs -> {"idle", "details", "patterns", "scan", "saving", "saved"}]
        /\ elapsed' \in [Procs -> 0 .. Latency]
        /\ elapsed'[p] = 0
        /\ pc'[p] = IF id'[p] = {} THEN "patterns" ELSE "details"
        /\ \A q \in Procs : q # p => pc'[q] = pc[q] /\ elapsed'[q] = elapsed[q]
    BY <2>3, Going
  <2>5. TypeOK'
    BY <2>1, <2>2, <2>4 DEF TypeOK
  <2>6. route'[p] = r /\ \A q \in Procs : q # p => route'[q] = route[q]
    BY <2>2 DEF TypeOK
  <2>7. Steps(p)
    BY <2>1, <2>2, <2>4, <2>6 DEF Steps
  <2>8. Settles(p)
    BY <2>1, <2>4, <2>6 DEF Settles
  <2>9. QED
    BY <2>4, <2>5, <2>7, <2>8
<1>2. ASSUME NEW action \in Actions \cup {"none", "error"}, Return(p, action),
             UNCHANGED <<catalogue, gone, lookup, route>>
      PROVE  TypeOK' /\ Steps(p) /\ Settles(p) /\ id'[p] = {}
  <2>1. /\ result' \in [Procs -> Actions \cup {"none", "error"}]
        /\ id' \in [Procs -> SUBSET Ids] /\ id'[p] = {}
        /\ \A q \in Procs : q # p => id'[q] = id[q]
        /\ untested' \in [Procs -> Seq(Ids)]
        /\ Goto(p, "idle")
    BY <1>2, Returning
  <2>2. /\ pc' \in [Procs -> {"idle", "details", "patterns", "scan", "saving", "saved"}]
        /\ elapsed' \in [Procs -> 0 .. Latency]
        /\ pc'[p] = "idle" /\ elapsed'[p] = 0
        /\ \A q \in Procs : q # p => pc'[q] = pc[q] /\ elapsed'[q] = elapsed[q]
    BY <2>1, Going
  <2>3. TypeOK'
    BY <1>2, <2>1, <2>2 DEF TypeOK
  <2>4. QED
    BY <1>2, <2>1, <2>2, <2>3 DEF Steps, Settles
<1>3. CASE ReadDetails(p)
  <2>1. PICK i \in id[p] \cap DOMAIN catalogue.mappings :
           Return(p, catalogue.mappings[i].action)
    BY <1>3 DEF ReadDetails
  <2>2. catalogue.mappings[i].action \in Actions
    BY <2>1, MatchingTypes DEF TypeOK
  <2>3. QED
    BY <1>2, <1>3, <2>1, <2>2 DEF ReadDetails
<1>4. CASE Fail(p) \/ NoMatch(p)
  BY <1>2, <1>4 DEF Fail, NoMatch
<1>5. CASE Finish(p)
  <2>1. result[p] \in Actions \cup {"none", "error"}
    BY DEF TypeOK
  <2>2. QED
    BY <1>2, <1>5, <2>1 DEF Finish
<1>6. ASSUME NEW list \in Seq(Ids), untested' = [untested EXCEPT ![p] = list],
             Goto(p, "scan"), UNCHANGED <<catalogue, gone, lookup, route, id, result>>,
             id[p] = {}
      PROVE  TypeOK' /\ Steps(p) /\ Settles(p) /\ id'[p] = {}
  <2>1. /\ pc' \in [Procs -> {"idle", "details", "patterns", "scan", "saving", "saved"}]
        /\ elapsed' \in [Procs -> 0 .. Latency]
        /\ pc'[p] = "scan" /\ elapsed'[p] = 0
        /\ \A q \in Procs : q # p => pc'[q] = pc[q] /\ elapsed'[q] = elapsed[q]
    BY <1>6, Going
  <2>2. TypeOK'
    BY <1>6, <2>1 DEF TypeOK
  <2>3. QED
    BY <1>6, <2>1, <2>2 DEF Steps, Settles
<1>7. CASE ReadPatterns(p)
  <2>1. catalogue.patterns \in Seq(Ids)
    BY CataloguesAssumption DEF TypeOK
  <2>2. QED
    BY <1>6, <1>7, <2>1 DEF ReadPatterns
<1>8. CASE TestDiffers(p) \/ TestUnreadable(p)
  <2>1. /\ untested' = [untested EXCEPT ![p] = Tail(untested[p])] /\ untested[p] # <<>>
        /\ pc[p] = "scan" /\ Skip(p)
    BY <1>8 DEF TestDiffers, TestUnreadable, Testing, Skip, TypeOK
  <2>2. Tail(untested[p]) \in Seq(Ids)
    BY <2>1 DEF TypeOK
  <2>3. Goto(p, "scan") /\ UNCHANGED <<catalogue, gone, lookup, route, id, result>>
    BY <2>1 DEF Skip
  <2>4. QED
    BY <1>6, <2>1, <2>2, <2>3
<1>9. CASE TestMatches(p)
  <2> DEFINE i == Head(untested[p])
  <2>1. i \in Matching(catalogue, route[p]) /\ catalogue \in Catalogues
    BY <1>9 DEF TestMatches, TypeOK
  <2>2. i \in Ids /\ catalogue.mappings[i].action \in Actions
    BY <2>1, MatchingTypes
  <2>3. /\ id' = [id EXCEPT ![p] = {i}]
        /\ result' = [result EXCEPT ![p] = catalogue.mappings[i].action]
        /\ Goto(p, "saving")
        /\ UNCHANGED <<catalogue, gone, lookup, route, untested>>
    BY <1>9 DEF TestMatches
  <2> HIDE DEF i
  <2>4. /\ pc' \in [Procs -> {"idle", "details", "patterns", "scan", "saving", "saved"}]
        /\ elapsed' \in [Procs -> 0 .. Latency]
        /\ pc'[p] = "saving" /\ elapsed'[p] = 0
        /\ \A q \in Procs : q # p => pc'[q] = pc[q] /\ elapsed'[q] = elapsed[q]
    BY <2>3, Going
  <2>5. /\ id' \in [Procs -> SUBSET Ids] /\ id'[p] = {i}
        /\ \A q \in Procs : q # p => id'[q] = id[q]
    BY <2>2, <2>3 DEF TypeOK
  <2>6. TypeOK'
    BY <2>2, <2>3, <2>4, <2>5 DEF TypeOK
  <2>7. QED
    BY <2>1, <2>3, <2>4, <2>5, <2>6 DEF Steps, Settles
<1>10. CASE Save(p)
  <2>1. /\ pc[p] = "saving" /\ Goto(p, "saved")
        /\ UNCHANGED <<catalogue, gone, route, untested, result>>
    BY <1>10 DEF Save
  <2>2. /\ pc' \in [Procs -> {"idle", "details", "patterns", "scan", "saving", "saved"}]
        /\ elapsed' \in [Procs -> 0 .. Latency]
        /\ pc'[p] = "saved" /\ elapsed'[p] = 0
        /\ \A q \in Procs : q # p => pc'[q] = pc[q] /\ elapsed'[q] = elapsed[q]
    BY <2>1, Going
  <2>3. CASE UNCHANGED <<lookup, id>>
    <3>1. TypeOK'
      BY <2>1, <2>2, <2>3 DEF TypeOK
    <3>2. QED
      BY <2>1, <2>2, <2>3, <3>1 DEF Steps, Settles
  <2>4. CASE \E i \in id[p] : Cache!Put(route[p], i, LookupTTL)
    <3>1. PICK i \in id[p] : Cache!Put(route[p], i, LookupTTL)
      BY <2>4
    <3> DEFINE new == [key |-> route[p], value |-> i, left |-> LookupTTL]
    <3>2. lookup' \subseteq lookup \cup {new} /\ id' = id
      BY <3>1, PutAdds
    <3>3. new \in [key : Routes, value : Ids, left : 0 .. LookupTTL]
      BY TimesAssumption DEF TypeOK
    <3>4. Settles(p)
      BY <2>1, <2>2, <3>2 DEF Settles
    <3> HIDE DEF new
    <3>5. TypeOK'
      BY <2>1, <2>2, <3>2, <3>3 DEF TypeOK
    <3>6. QED
      BY <2>1, <2>2, <3>2, <3>4, <3>5 DEF Steps
  <2>5. QED
    BY <1>10, <2>3, <2>4 DEF Save
<1>11. QED
  BY <1>1, <1>3, <1>4, <1>5, <1>7, <1>8, <1>9, <1>10, Zenon
     DEF Resolve, ReadPatterns, TestDiffers, TestUnreadable, Testing

(* A resolution learns of mappings that match now, or passes on what a     *)
(* lookup key told it.                                                     *)
LEMMA ResolveKeeps ==
  ASSUME IInv, NEW p \in Procs, Resolve(p)
  PROVE  IInv'
<1>1. TypeOK
  BY DEF IInv
<1>2. /\ TypeOK' /\ Steps(p) /\ Settles(p)
      /\ pc'[p] \in {"idle", "patterns", "scan"} => id'[p] = {}
  BY <1>1, ResolveSteps DEF IInv, KnownIsRecent
<1>3. /\ catalogue' = catalogue /\ gone' = gone /\ elapsed'[p] = 0
      /\ \A q \in Procs : q # p => /\ pc'[q] = pc[q] /\ elapsed'[q] = elapsed[q]
                                  /\ id'[q] = id[q] /\ route'[q] = route[q]
  BY <1>2 DEF Steps
<1>4. GoneIsReset'
  BY <1>3 DEF IInv, GoneIsReset
<1>5. ASSUME NEW i \in id[p], pc[p] = "saving"
      PROVE  gone[i][route[p]] <= Latency
  <2>1. gone[i][route[p]] <= 0 + elapsed[p]
    BY <1>5 DEF IInv, KnownIsRecent, Known
  <2>2. i \in Ids /\ route[p] \in Routes
    BY <1>1 DEF TypeOK
  <2>3. QED
    BY <1>1, <2>1, <2>2, Numbers
<1>6. KnownIsRecent'
  <2> SUFFICES ASSUME NEW i \in id'[p]
               PROVE  gone[i][route'[p]] <= Known(pc'[p]) + 0
    BY <1>2, <1>3 DEF IInv, KnownIsRecent, Known
  <2>1. i \in Ids /\ route'[p] \in Routes
    BY <1>2 DEF TypeOK
  <2>2. gone[i][route'[p]] \in Nat
    BY <1>1, <2>1, Numbers
  <2>3. CASE pc'[p] = "details" /\ \E e \in lookup : e.key = route'[p] /\ e.value = i
    <3>1. PICK e \in lookup : e.key = route'[p] /\ e.value = i
      BY <2>3
    <3> DEFINE g == gone[i][route'[p]]
               n == e.left
    <3>2. g <= (LookupTTL - n) + Latency
      BY <3>1 DEF IInv, LookupIsRecent
    <3>3. n \in Nat /\ g \in Nat
      BY <1>1, <2>2, KeysTyped
    <3> HIDE DEF g, n
    <3>4. g <= (LookupTTL + Latency) + 0
      BY <3>2, <3>3, TimesAssumption
    <3>5. QED
      BY <2>3, <3>4 DEF g, Known
  <2>4. CASE i \in Matching(catalogue, route'[p])
    <3>1. gone[i][route'[p]] = 0
      BY <2>1, <2>4 DEF IInv, GoneIsReset
    <3>2. Known(pc'[p]) \in Nat
      BY <1>1, Numbers
    <3>3. QED
      BY <3>1, <3>2
  <2>5. CASE /\ pc[p] = "saving" /\ pc'[p] = "saved"
             /\ id'[p] = id[p] /\ route'[p] = route[p]
    <3>1. gone[i][route'[p]] <= Latency
      BY <1>5, <2>5
    <3>2. Known(pc'[p]) = Latency
      BY <2>5 DEF Known
    <3>3. QED
      BY <2>2, <3>1, <3>2, TimesAssumption
  <2>6. QED
    BY <1>2, <2>3, <2>4, <2>5 DEF Settles
<1>7. LookupIsRecent'
  <2>1. CASE lookup' \subseteq lookup
    BY <1>3, <2>1 DEF IInv, LookupIsRecent
  <2>2. ASSUME pc[p] = "saving", NEW i \in id[p],
               lookup' \subseteq lookup \cup
                                {[key |-> route[p], value |-> i, left |-> LookupTTL]}
        PROVE  LookupIsRecent'
    <3> DEFINE new == [key |-> route[p], value |-> i, left |-> LookupTTL]
    <3>1. gone[new.value][new.key] <= Latency
      BY <1>5, <2>2
    <3>2. (LookupTTL - new.left) + Latency = Latency
      BY TimesAssumption
    <3>3. \A e \in lookup' : e \in lookup \/ e = new
      BY <2>2
    <3> HIDE DEF new
    <3>4. QED
      BY <1>3, <3>1, <3>2, <3>3 DEF IInv, LookupIsRecent
  <2>3. QED
    BY <1>2, <2>1, <2>2 DEF Settles
<1>8. QED
  BY <1>2, <1>4, <1>6, <1>7 DEF IInv

(* Keys that are lost are no longer there to be wrong.                     *)
LEMMA LossKeeps ==
  ASSUME IInv, LoseKeys
  PROVE  IInv'
<1>1. /\ lookup' \subseteq lookup
      /\ UNCHANGED <<catalogue, gone, pc, route, untested, id, elapsed, result>>
  BY DEF LoseKeys, Cache!Forget
<1>2. TypeOK'
  BY <1>1 DEF IInv, TypeOK
<1>3. QED
  BY <1>1, <1>2 DEF IInv, GoneIsReset, KnownIsRecent, LookupIsRecent

(* The mapping service makes no mapping look older than it is.             *)
LEMMA ChangeKeeps ==
  ASSUME IInv, ChangeMappings
  PROVE  IInv'
<1>1. /\ catalogue' \in Catalogues
      /\ \A i \in Ids, r \in Routes :
            gone'[i][r] = IF i \in Matching(catalogue', r) THEN 0 ELSE gone[i][r]
      /\ UNCHANGED <<lookup, pc, route, untested, id, elapsed, result>>
  BY DEF ChangeMappings, resolution
<1>2. TypeOK /\ TypeOK'
  <2>1. gone' \in [Ids -> [Routes -> 0 .. Forgotten]]
    BY TimesAssumption DEF ChangeMappings, IInv, TypeOK, Forgotten
  <2>2. QED
    BY <1>1, <2>1 DEF IInv, TypeOK
<1>3. \A i \in Ids, r \in Routes :
         gone[i][r] \in Nat /\ gone'[i][r] \in Nat /\ gone'[i][r] <= gone[i][r]
  BY <1>1, <1>2, Numbers
<1>4. GoneIsReset'
  BY <1>1 DEF GoneIsReset
<1>5. ASSUME NEW i \in Ids, NEW r \in Routes, NEW bound \in Int, gone[i][r] <= bound
      PROVE  gone'[i][r] <= bound
  BY <1>3, <1>5
<1>6. KnownIsRecent'
  <2> SUFFICES ASSUME NEW p \in Procs, NEW i \in id[p]
               PROVE  gone'[i][route[p]] <= Known(pc[p]) + elapsed[p]
    BY <1>1 DEF IInv, KnownIsRecent, Known
  <2> DEFINE bound == Known(pc[p]) + elapsed[p]
  <2>1. i \in Ids /\ route[p] \in Routes
    BY <1>2 DEF TypeOK
  <2>2. gone[i][route[p]] <= bound
    BY DEF IInv, KnownIsRecent
  <2>3. bound \in Int
    BY <1>2, Numbers
  <2> HIDE DEF bound
  <2>4. gone'[i][route[p]] <= bound
    BY <1>5, <2>1, <2>2, <2>3
  <2>5. QED
    BY <2>4 DEF bound
<1>7. LookupIsRecent'
  <2> SUFFICES ASSUME NEW e \in lookup
               PROVE  gone'[e.value][e.key] <= (LookupTTL - e.left) + Latency
    BY <1>1 DEF LookupIsRecent
  <2>1. e.value \in Ids /\ e.left \in Nat /\ e.key \in Routes
    BY <1>2, KeysTyped
  <2>2. gone[e.value][e.key] <= (LookupTTL - e.left) + Latency
    BY DEF IInv, LookupIsRecent
  <2>3. (LookupTTL - e.left) + Latency \in Int
    BY <2>1, TimesAssumption
  <2>4. QED
    BY <1>5, <2>1, <2>2, <2>3
<1>8. QED
  BY <1>2, <1>4, <1>6, <1>7 DEF IInv

(* A key that is there after a tick was there before, with a tick more.    *)
LEMMA KeysAge ==
  ASSUME TypeOK, Cache!Tick, NEW e \in lookup'
  PROVE  /\ \E d \in lookup : /\ e.key = d.key /\ e.value = d.value
                              /\ d.left \in 1 .. LookupTTL /\ e.left = d.left - 1
         /\ e \in [key : Routes, value : Ids, left : 0 .. LookupTTL]
<1>1. PICK d \in lookup : d.left > 0 /\ e = [d EXCEPT !.left = d.left - 1]
  BY DEF Cache!Tick, Cache!Aged
<1>2. /\ d.key \in Routes /\ d.value \in Ids /\ d.left \in 1 .. LookupTTL
      /\ d = [key |-> d.key, value |-> d.value, left |-> d.left]
  BY <1>1, KeysTyped, TimesAssumption
<1>3. e = [key |-> d.key, value |-> d.value, left |-> d.left - 1]
  BY <1>1, <1>2
<1>4. QED
  BY <1>2, <1>3, TimesAssumption

(* As time passes, what is known ages no faster than the one who knows it. *)
LEMMA TickKeeps ==
  ASSUME IInv, Tick
  PROVE  IInv'
<1>1. /\ \A i \in Ids, r \in Routes :
            gone'[i][r] = IF i \in Matching(catalogue, r) THEN 0
                          ELSE IF gone[i][r] < Forgotten THEN gone[i][r] + 1 ELSE Forgotten
      /\ \A p \in Busy : elapsed[p] < Latency
      /\ \A p \in Procs : elapsed'[p] = IF p \in Busy THEN elapsed[p] + 1 ELSE elapsed[p]
      /\ Cache!Tick
      /\ UNCHANGED <<catalogue, pc, route, untested, id, result>>
  BY DEF Tick, Cache!Tick
<1>2. TypeOK /\ TypeOK'
  <2>1. gone' \in [Ids -> [Routes -> 0 .. Forgotten]]
    <3>1. /\ Forgotten \in Nat
          /\ \A i \in Ids, r \in Routes : gone[i][r] \in 0 .. Forgotten
      BY Numbers DEF IInv
    <3>2. \A i \in Ids, r \in Routes :
             (IF i \in Matching(catalogue, r) THEN 0
              ELSE IF gone[i][r] < Forgotten THEN gone[i][r] + 1 ELSE Forgotten)
                \in 0 .. Forgotten
      BY <3>1
    <3>3. QED
      BY <3>2 DEF Tick
  <2>2. elapsed' \in [Procs -> 0 .. Latency]
    BY TimesAssumption DEF Tick, IInv, TypeOK
  <2>3. lookup' \subseteq [key : Routes, value : Ids, left : 0 .. LookupTTL]
    BY <1>1, KeysAge DEF IInv
  <2>4. QED
    BY <1>1, <2>1, <2>2, <2>3 DEF IInv, TypeOK
<1>3. \A i \in Ids, r \in Routes :
         gone[i][r] \in Nat /\ gone'[i][r] \in Nat /\ gone'[i][r] <= gone[i][r] + 1
  <2>1. /\ \A i \in Ids, r \in Routes : gone[i][r] \in 0 .. Forgotten
        /\ Forgotten \in Nat
    BY <1>2, Numbers
  <2>2. QED
    BY <1>1, <2>1
<1>4. GoneIsReset'
  BY <1>1 DEF GoneIsReset
<1>5. ASSUME NEW i \in Ids, NEW r \in Routes, NEW bound \in Int, gone[i][r] <= bound
      PROVE  gone'[i][r] <= bound + 1
  BY <1>3, <1>5
<1>6. KnownIsRecent'
  <2> SUFFICES ASSUME NEW p \in Procs, NEW i \in id[p]
               PROVE  gone'[i][route[p]] <= Known(pc[p]) + elapsed'[p]
    BY <1>1 DEF IInv, KnownIsRecent, Known
  <2> DEFINE bound == Known(pc[p]) + elapsed[p]
  <2>1. i \in Ids /\ route[p] \in Routes /\ elapsed[p] \in Int
    BY <1>2 DEF TypeOK
  <2>2. gone[i][route[p]] <= bound
    BY DEF IInv, KnownIsRecent
  <2>3. elapsed'[p] = elapsed[p] + 1
    BY <1>1 DEF Busy, IInv, KnownIsRecent
  <2>4. bound \in Int /\ bound + 1 = Known(pc[p]) + elapsed'[p]
    BY <1>2, <2>1, <2>3, Numbers
  <2> HIDE DEF bound
  <2>5. gone'[i][route[p]] <= bound + 1
    BY <1>5, <2>1, <2>2, <2>4
  <2>6. QED
    BY <2>4, <2>5
<1>7. LookupIsRecent'
  <2> SUFFICES ASSUME NEW e \in lookup'
               PROVE  gone'[e.value][e.key] <= (LookupTTL - e.left) + Latency
    BY DEF LookupIsRecent
  <2>1. PICK d \in lookup : /\ e.key = d.key /\ e.value = d.value
                            /\ d.left \in 1 .. LookupTTL /\ e.left = d.left - 1
    BY <1>1, <1>2, KeysAge
  <2>2. d.key \in Routes /\ d.value \in Ids
    BY <1>2, KeysTyped
  <2> DEFINE bound == (LookupTTL - d.left) + Latency
  <2>3. gone[d.value][d.key] <= bound
    BY DEF IInv, LookupIsRecent
  <2>4. bound \in Int /\ bound + 1 = (LookupTTL - e.left) + Latency
    BY <2>1, TimesAssumption
  <2> HIDE DEF bound
  <2>5. gone'[d.value][d.key] <= bound + 1
    BY <1>5, <2>2, <2>3, <2>4
  <2>6. QED
    BY <2>1, <2>4, <2>5
<1>8. QED
  BY <1>2, <1>4, <1>6, <1>7 DEF IInv

(* IInv is inductive.                                                      *)
THEOREM Invariance == Spec => []IInv
<1>1. Init => IInv
  <2> SUFFICES ASSUME Init PROVE IInv
    OBVIOUS
  <2>1. lookup = {} /\ id = [p \in Procs |-> {}]
    BY DEF Init, Cache!Init, Cache!Miss
  <2>2. gone \in [Ids -> [Routes -> 0 .. Forgotten]]
    BY TimesAssumption DEF Init, Forgotten
  <2>3. untested \in [Procs -> Seq(Ids)] /\ elapsed \in [Procs -> 0 .. Latency]
    BY TimesAssumption DEF Init
  <2>4. TypeOK
    BY <2>1, <2>2, <2>3 DEF Init, TypeOK
  <2>5. GoneIsReset
    BY DEF Init, GoneIsReset
  <2>6. KnownIsRecent /\ LookupIsRecent
    BY <2>1 DEF KnownIsRecent, LookupIsRecent
  <2>7. QED
    BY <2>4, <2>5, <2>6 DEF IInv
<1>2. IInv /\ [Next]_vars => IInv'
  <2> SUFFICES ASSUME IInv, [Next]_vars PROVE IInv'
    OBVIOUS
  <2>1. CASE UNCHANGED vars
    <3>1. TypeOK'
      BY <2>1 DEF vars, resolution, IInv, TypeOK
    <3>2. QED
      BY <2>1, <3>1 DEF vars, resolution, IInv, GoneIsReset, KnownIsRecent, Known,
                        LookupIsRecent
  <2>2. CASE Next
    BY <2>2, ResolveKeeps, LossKeeps, ChangeKeeps, TickKeeps DEF Next
  <2>3. QED
    BY <2>1, <2>2
<1>3. QED
  BY <1>1, <1>2, PTL DEF Spec

(* The variables keep their types: no lookup key outlives its time.        *)
THEOREM TypeCorrect == Spec => []TypeOK
BY Invariance, PTL DEF IInv

(* A lookup key names a mapping that matched its route no longer ago than  *)
(* the key's age plus the time of one command, for any number of           *)
(* goroutines, however long their scans are, whatever the mapping service  *)
(* does meanwhile, and though a SETEX may be executed late or twice.       *)
THEOREM LookupsAreRecent == Spec => []LookupIsRecent
BY Invariance, PTL DEF IInv

(* A mapping that no longer matches a route stops being its answer within  *)
(* the life of a lookup key and the time of two commands.                  *)
THEOREM ChangesTakeHoldInTime == Spec => ChangesTakeHold
<1> DEFINE A == \A p \in Procs :
                  /\ pc[p] # "idle" /\ pc'[p] = "idle"
                  /\ result'[p] # "error"
                  => \A i \in id[p] : gone[i][route[p]] < Forgotten
<1>1. IInv /\ [Next]_vars => A
  <2> SUFFICES ASSUME IInv, NEW p \in Procs, NEW i \in id[p]
               PROVE  gone[i][route[p]] < Forgotten
    OBVIOUS
  <2>1. TypeOK
    BY DEF IInv
  <2>2. i \in Ids /\ route[p] \in Routes
    BY <2>1 DEF TypeOK
  <2> DEFINE g == gone[i][route[p]]
             k == Known(pc[p])
  <2>3. g <= k + elapsed[p]
    BY DEF IInv, KnownIsRecent
  <2>4. /\ g \in Nat /\ elapsed[p] \in 0 .. Latency /\ Latency \in Nat
        /\ LookupTTL \in Nat \ {0} /\ Forgotten = LookupTTL + 2 * Latency + 1
    BY <2>1, <2>2, Numbers
  <2>5. k \in {LookupTTL + Latency, Latency, 0}
    BY DEF Known
  <2> HIDE DEF g, k
  <2>6. g < Forgotten
    BY <2>3, <2>4, <2>5
  <2>7. QED
    BY <2>6 DEF g
<1>2. IInv /\ [Next]_vars => [A]_vars
  BY <1>1
<1>3. QED
  BY <1>2, Invariance, PTL DEF Spec, ChangesTakeHold
-----------------------------------------------------------------------------
(* AnchorPattern leaves the alternatives as they are, and has bound them   *)
(* all at both ends if the author has bound those it leaves alone.         *)
LEMMA Anchored ==
  ASSUME NEW r \in OwnRegexes, NEW a \in DOMAIN r
  PROVE  /\ DOMAIN AnchorPattern(r) = DOMAIN r
         /\ AnchorPattern(r)[a].body = r[a].body
         /\ Bound(r) => AnchorPattern(r)[a].start /\ AnchorPattern(r)[a].end
<1> DEFINE start == r[a].start \/ a = 1
           end == r[a].end \/ (a = Len(r) /\ ~EndsInDollar(r[a].body))
<1>1. DOMAIN r = 1 .. Len(r)
  BY OwnRegexesAssumption
<1>2. AnchorPattern(r)[a] = Alternative(start, end, r[a].body)
  BY <1>1 DEF AnchorPattern
<1>3. Bound(r) => start /\ end
  BY <1>1, Zenon DEF Bound
<1> HIDE DEF start, end
<1>4. /\ Alternative(start, end, r[a].body).body = r[a].body
      /\ Alternative(start, end, r[a].body).start = start
      /\ Alternative(start, end, r[a].body).end = end
  BY Zenon DEF Alternative
<1>5. DOMAIN AnchorPattern(r) = DOMAIN r
  BY <1>1, Zenon DEF AnchorPattern
<1>6. QED
  BY <1>2, <1>3, <1>4, <1>5, Zenon

LEMMA CompilesAlike ==
  ASSUME NEW r \in OwnRegexes
  PROVE  Compiles(AnchorPattern(r)) <=> Compiles(r)
<1> DEFINE b == AnchorPattern(r)
<1>1. DOMAIN b = DOMAIN r /\ \A a \in DOMAIN r : b[a].body = r[a].body
  <2>1. DOMAIN r = 1 .. Len(r)
    BY OwnRegexesAssumption
  <2>2. DOMAIN b = DOMAIN r
    BY <2>1, Zenon DEF AnchorPattern
  <2>3. QED
    BY <2>2, Anchored
<1> HIDE DEF b
<1>2. Compiles(b) <=> Compiles(r)
  BY <1>1 DEF Compiles
<1>3. QED
  BY <1>2 DEF b

(* What AnchorPattern makes of an expression matches every path the        *)
(* expression accepts as a whole, and only those if all ends are bound.    *)
LEMMA AnchoredMatches ==
  ASSUME NEW r \in OwnRegexes, NEW path \in Seq(Characters)
  PROVE  LET accepted == \E a \in DOMAIN r : AcceptsAll(r[a].body, path)
         IN  /\ accepted => MatchString(AnchorPattern(r), path)
             /\ Bound(r) /\ MatchString(AnchorPattern(r), path) => accepted
<1> DEFINE b == AnchorPattern(r)
<1>1. \A a \in DOMAIN r : /\ DOMAIN b = DOMAIN r /\ b[a].body = r[a].body
                          /\ Bound(r) => b[a].start /\ b[a].end
  BY Anchored
<1>2. DOMAIN b = DOMAIN r
  <2>1. DOMAIN r = 1 .. Len(r)
    BY OwnRegexesAssumption
  <2>2. QED
    BY <2>1, Zenon DEF AnchorPattern
<1> HIDE DEF b
<1>3. Len(path) \in Nat /\ SubSeq(path, 1, Len(path)) = path
  OBVIOUS
<1>4. /\ 1 \in 1 .. Len(path) + 1 /\ Len(path) \in 0 .. Len(path)
      /\ 1 <= Len(path) + 1
  BY <1>3
<1>5. ASSUME NEW a \in DOMAIN r, AcceptsAll(r[a].body, path)
      PROVE  MatchString(b, path)
  <2>1. AcceptsAll(b[a].body, SubSeq(path, 1, Len(path)))
    BY <1>1, <1>3, <1>5
  <2>2. QED
    BY <1>2, <1>4, <2>1, Zenon DEF MatchString
<1>6. ASSUME Bound(r), MatchString(b, path)
      PROVE  \E a \in DOMAIN r : AcceptsAll(r[a].body, path)
  <2>1. PICK a \in DOMAIN b, first \in 1 .. Len(path) + 1, last \in 0 .. Len(path) :
           /\ b[a].start => first = 1
           /\ b[a].end => last = Len(path)
           /\ AcceptsAll(b[a].body, SubSeq(path, first, last))
    BY <1>6, Zenon DEF MatchString
  <2>2. first = 1 /\ last = Len(path)
    BY <1>1, <1>2, <1>6, <2>1, Zenon
  <2>3. AcceptsAll(r[a].body, path)
    BY <1>1, <1>2, <1>3, <2>1, <2>2
  <2>4. QED
    BY <1>2, <2>1, <2>3
<1>7. QED
  BY <1>5, <1>6, Zenon DEF b

(* A mapping that brings an expression is matched by it alone, whichever   *)
(* field it is in.                                                         *)
LEMMA OwnRegexMatches ==
  ASSUME NEW r, NEW pattern
  PROVE  LET matched == {path \in Paths : Compiles(AnchorPattern(r))
                                             /\ MatchString(AnchorPattern(r), path)}
         IN  /\ MatchedBy([matchRegex |-> {r}, pathPattern |-> pattern], Paths) = matched
             /\ MatchedBy([matchRegex |-> {}, pathPattern |-> Raw(r)], Paths) = matched
<1> DEFINE own == [matchRegex |-> {r}, pathPattern |-> pattern]
           raw == [matchRegex |-> {}, pathPattern |-> Raw(r)]
<1>1. own.matchRegex = {r} /\ raw.matchRegex = {} /\ raw.pathPattern = Raw(r)
  BY Zenon
<1>2. Raw(r).raw = TRUE /\ Raw(r).text = r
  BY Zenon DEF Raw
<1> HIDE DEF own, raw
<1>3. (CHOOSE x \in own.matchRegex : TRUE) = r
  BY <1>1
<1>4. BuildMatchPattern(own) = AnchorPattern(r)
  BY <1>1, <1>3, Zenon DEF BuildMatchPattern
<1>5. BuildMatchPattern(raw) = AnchorPattern(r)
  BY <1>1, <1>2, Zenon DEF BuildMatchPattern, PathPatternToRegex
<1>6. QED
  BY <1>4, <1>5, Zenon DEF MatchedBy, own, raw

(* Whatever pattern a mapping has besides, and in whichever field it is,   *)
(* the expression it brings decides; it matches every whole path it        *)
(* accepts, and nothing else if its author has anchored what the code      *)
(* leaves alone: the ends inside it, and an end behind an escaped dollar.  *)
THEOREM OwnRegexesAreDecisive == Spec => OwnRegexIsDecisive
<1>1. OwnRegexesDecide
  <2> SUFFICES ASSUME NEW r \in OwnRegexes
               PROVE  LET matched == MatchedBy([matchRegex |-> {},
                                                pathPattern |-> Raw(r)], Paths)
                      IN  /\ \A pattern \in Patterns :
                                matched = MatchedBy([matchRegex |-> {r},
                                                     pathPattern |-> Plain(pattern)], Paths)
                          /\ AcceptedBy(r) \subseteq matched
                          /\ Bound(r) => matched = AcceptedBy(r)
    BY Zenon DEF OwnRegexesDecide
  <2> DEFINE matched == MatchedBy([matchRegex |-> {}, pathPattern |-> Raw(r)], Paths)
             b == AnchorPattern(r)
  <2>1. matched = {path \in Paths : Compiles(b) /\ MatchString(b, path)}
    BY OwnRegexMatches, Zenon
  <2>2. \A pattern : matched = MatchedBy([matchRegex |-> {r}, pathPattern |-> pattern], Paths)
    BY OwnRegexMatches, Zenon
  <2>3. Compiles(b) <=> Compiles(r)
    BY CompilesAlike
  <2>4. \A path \in Paths :
           LET accepted == \E a \in DOMAIN r : AcceptsAll(r[a].body, path)
           IN  /\ accepted => MatchString(b, path)
               /\ Bound(r) /\ MatchString(b, path) => accepted
    BY PathsAssumption, AnchoredMatches
  <2>5. AcceptedBy(r) = {path \in Paths : Compiles(r) /\
                                          \E a \in DOMAIN r : AcceptsAll(r[a].body, path)}
    BY DEF AcceptedBy
  <2>6. \A pattern \in Patterns :
           matched = MatchedBy([matchRegex |-> {r}, pathPattern |-> Plain(pattern)], Paths)
    BY <2>2, Zenon
  <2> HIDE DEF matched, b
  <2>7. AcceptedBy(r) \subseteq matched
    BY <2>1, <2>3, <2>4, <2>5
  <2>8. Bound(r) => matched = AcceptedBy(r)
    BY <2>1, <2>3, <2>4, <2>5
  <2>9. QED
    BY <2>6, <2>7, <2>8, Zenon DEF matched
<1>2. [Next]_vars => [OwnRegexesDecide]_vars
  BY <1>1
<1>3. QED
  BY <1>2, PTL DEF Spec, OwnRegexIsDecisive
=============================================================================
