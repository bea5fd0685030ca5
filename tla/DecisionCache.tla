--------------------------- MODULE DecisionCache ---------------------------
(***************************************************************************)
(* What the rest of the program may expect of a Cache (the interface of    *)
(* internal/cache/cache.go, lines 17-23): a lossy map with expiration.     *)
(*                                                                         *)
(* A cache may forget any entry at any moment, by eviction, deletion or an *)
(* outage, and a lookup may miss.  It may never answer with a value that   *)
(* was not the last one stored under the key, nor with one whose time to   *)
(* live is over.  An entry carries the ticks it has left to live.          *)
(***************************************************************************)
EXTENDS Integers, Functions

CONSTANTS Keys, Values, TTLs, Readers

VARIABLES
    store,     \* the entries: a function from a subset of Keys
    answer     \* answer[p]: what p's last lookup returned, as a set: {} on a miss

vars == <<store, answer>>

Entry == [value : Values, left : Nat]
Miss == {}

TypeOK ==
    /\ store = [k \in DOMAIN store |-> store[k]]
    /\ DOMAIN store \subseteq Keys
    /\ \A k \in DOMAIN store : store[k] \in Entry
    /\ answer \in [Readers -> SUBSET Values]

(* What may remain of a store.                                             *)
Forgotten(s) == {Restrict(s, S) : S \in SUBSET DOMAIN s}

(* s with e stored under k.                                                *)
Stored(s, k, e) == [j \in DOMAIN s \cup {k} |-> IF j = k THEN e ELSE s[j]]

(* s one tick later: entries with no time left are gone.                   *)
Aged(s) ==
    [k \in {j \in DOMAIN s : s[j].left > 0} |-> [s[k] EXCEPT !.left = @ - 1]]

Empty == [k \in {} |-> k]

Init ==
    /\ store = Empty
    /\ answer = [p \in Readers |-> Miss]

Put(k, v, ttl) ==
    /\ \E s \in Forgotten(store) :
          store' = Stored(s, k, [value |-> v, left |-> ttl])
    /\ UNCHANGED answer

Lookup(p, k) ==
    /\ store' \in Forgotten(store)
    /\ \/ answer' = [answer EXCEPT ![p] = Miss]
       \/ /\ k \in DOMAIN store
          /\ answer' = [answer EXCEPT ![p] = {store[k].value}]

Forget == store' \in Forgotten(store) /\ UNCHANGED answer

Tick == store' = Aged(store) /\ UNCHANGED answer

Next ==
    \/ \E k \in Keys, v \in Values, ttl \in TTLs : Put(k, v, ttl)
    \/ \E p \in Readers, k \in Keys : Lookup(p, k)
    \/ Forget
    \/ Tick

Spec == Init /\ [][Next]_vars
=============================================================================
