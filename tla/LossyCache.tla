----------------------------- MODULE LossyCache -----------------------------
(***************************************************************************)
(* What Authorize may expect of any Cache (the interface of                *)
(* internal/cache/cache.go), the replicated Redis of production included.  *)
(*                                                                         *)
(* The store is a set of promises: a value, under a key, for the ticks it  *)
(* has left.  A lookup misses, or answers with a value promised under the  *)
(* key; it need not be the last one stored, as a Redis that fails over to  *)
(* a replica may go back to an older one.  Promises may be forgotten at    *)
(* any moment, and none is kept beyond its time.                           *)
(*                                                                         *)
(* DecisionCache promises more: at most one value per key, the last one.   *)
(***************************************************************************)
EXTENDS Integers

CONSTANTS Keys, Values, TTLs, Readers

VARIABLES
    store,     \* the promises that may still be kept
    answer     \* answer[p]: what p's last lookup returned, as a set: {} on a miss

vars == <<store, answer>>

Promise == [key : Keys, value : Values, left : Nat]
Miss == {}

TypeOK ==
    /\ store \subseteq Promise
    /\ answer \in [Readers -> SUBSET Values]

Init ==
    /\ store = {}
    /\ answer = [p \in Readers |-> Miss]

Put(k, v, ttl) ==
    LET new == [key |-> k, value |-> v, left |-> ttl]
    IN  /\ store' \in SUBSET (store \cup {new})
        /\ new \in store'
        /\ UNCHANGED answer

Lookup(p, k) ==
    /\ store' \in SUBSET store
    /\ \/ answer' = [answer EXCEPT ![p] = Miss]
       \/ \E e \in store : /\ e.key = k
                           /\ answer' = [answer EXCEPT ![p] = {e.value}]

Forget == store' \in SUBSET store /\ UNCHANGED answer

(* One tick later, promises with no time left are gone.                    *)
Aged(s) == {[e EXCEPT !.left = @ - 1] : e \in {d \in s : d.left > 0}}

Tick == store' \in SUBSET Aged(store) /\ UNCHANGED answer

Next ==
    \/ \E k \in Keys, v \in Values, ttl \in TTLs : Put(k, v, ttl)
    \/ \E p \in Readers, k \in Keys : Lookup(p, k)
    \/ Forget
    \/ Tick

Spec == Init /\ [][Next]_vars
=============================================================================
