----------------------------- MODULE RedisCache -----------------------------
(***************************************************************************)
(* redisCache of internal/cache/cache.go, on the Redis it talks to: a      *)
(* primary and a replica watched by Sentinel, behind a client library that *)
(* gives up on a command after a timeout and sends it again.               *)
(*                                                                         *)
(* The operations of the cache are one command each and return whatever    *)
(* the client library returns.  So a Set that failed may still be executed *)
(* later, once or twice, behind a Set that was sent after it; the replica  *)
(* lags behind the primary, and a failover makes it the primary.  Redis    *)
(* itself and the library are external: they are modelled as far as the    *)
(* cache can tell.  A standalone Redis (REDIS_URL) does no more than this. *)
(***************************************************************************)
EXTENDS Integers, Functions

CONSTANTS
    Keys, Values,
    TTLs,         \* the times to live given to Set, in ticks
    Readers,
    Lag           \* how long after it was sent a command may be executed

(* Load rejects times to live that are not positive: to Redis zero would   *)
(* mean no expiration.                                                     *)
ASSUME TTLsAssumption == TTLs \subseteq Nat \ {0}
ASSUME LagAssumption == Lag \in Nat

VARIABLES
    primary,      \* what the primary holds, a function from a subset of Keys
    replica,      \* what the replica has received of it
    wire,         \* the SET commands that may still be executed
    answer        \* answer[p]: what p's last Get returned, {} on a miss or error

data == <<primary, replica, wire>>
vars == <<data, answer>>

(* An entry of Redis.  Redis knows the time it has left; late is history:  *)
(* how much of its Lag the command that wrote it had not used up.          *)
Copy == [value : Values, left : Nat, late : 0 .. Lag]

Command == [key : Keys, value : Values, ttl : TTLs, lag : 0 .. Lag]

Miss == {}

Empty == [k \in {} |-> k]

Copies(f) ==
    /\ f = [k \in DOMAIN f |-> f[k]]
    /\ DOMAIN f \subseteq Keys
    /\ \A k \in DOMAIN f : f[k] \in Copy

TypeOK ==
    /\ Copies(primary) /\ Copies(replica)
    /\ wire \subseteq Command
    /\ answer \in [Readers -> SUBSET Values]
-----------------------------------------------------------------------------
Init ==
    /\ primary = Empty /\ replica = Empty
    /\ wire = {}
    /\ answer = [p \in Readers |-> Miss]

GetSliding(p, k) ==   \* mutant: a hit renews the entry's life
    /\ k \in DOMAIN primary
    /\ \E ttl \in TTLs : primary' = [primary EXCEPT ![k].left = ttl]
    /\ answer' = [answer EXCEPT ![p] = {primary[k].value}]
    /\ UNCHANGED <<replica, wire>>

(* Get: the value, a miss (redis.Nil), or an error, which its caller takes *)
(* for a miss: a timeout, no connection, a value that does not parse.      *)
GetHit(p, k) ==
    /\ k \in DOMAIN primary
    /\ answer' = [answer EXCEPT ![p] = {primary[k].value}]
    /\ UNCHANGED data

GetNothing(p, k) ==
    /\ k \notin DOMAIN primary
    /\ answer' = [answer EXCEPT ![p] = Miss]
    /\ UNCHANGED data

GetFails(p) ==
    /\ answer' = [answer EXCEPT ![p] = Miss]
    /\ UNCHANGED data

SetInHalves(k, v, ttl) ==   \* mutant: seconds taken for a finer unit
    /\ wire' = wire \cup {[key |-> k, value |-> v, ttl |-> 2 * ttl, lag |-> Lag]}
    /\ UNCHANGED <<primary, replica, answer>>

(* Set sends its command.  What it returns tells the caller nothing about  *)
(* whether, and when, the command is executed.                             *)
Set(k, v, ttl) ==
    /\ wire' = wire \cup {[key |-> k, value |-> v, ttl |-> ttl, lag |-> Lag]}
    /\ UNCHANGED <<primary, replica, answer>>

Without(f, k) == Restrict(f, DOMAIN f \ {k})

(* Delete: one DEL, which may fail.  Redis evicting an entry to make room  *)
(* is the same step.                                                       *)
Delete(k) ==
    /\ primary' = Without(primary, k)
    /\ UNCHANGED <<replica, wire, answer>>

(* Clear: FLUSHDB, which drops the keys of every other user of the         *)
(* database, too.                                                          *)
Clear ==
    /\ primary' = Empty
    /\ UNCHANGED <<replica, wire, answer>>
-----------------------------------------------------------------------------
(* Redis and the client library.                                           *)
Written(f, k, e) == [j \in DOMAIN f \cup {k} |-> IF j = k THEN e ELSE f[j]]

(* A command reaches the primary.  It may reach it again, sent by a retry. *)
Execute(c) ==
    /\ primary' = Written(primary, c.key,
                          [value |-> c.value, left |-> c.ttl, late |-> c.lag])
    /\ wire' \in {wire, wire \ {c}}
    /\ UNCHANGED <<replica, answer>>

(* The library has given up, or got its answer, and nothing is left of the *)
(* command on the way.                                                     *)
GiveUp(c) ==
    /\ wire' = wire \ {c}
    /\ UNCHANGED <<primary, replica, answer>>

(* The replica catches up with what has happened to a key.                 *)
Replicate(k) ==
    /\ replica' = IF k \in DOMAIN primary
                  THEN Written(replica, k, primary[k])
                  ELSE Without(replica, k)
    /\ UNCHANGED <<primary, wire, answer>>

(* Sentinel makes the replica the primary.  The old primary comes back as  *)
(* an empty replica that copies the new one.                               *)
Failover ==
    /\ primary' = replica
    /\ replica' = Empty
    /\ UNCHANGED <<wire, answer>>

Aged(f) ==
    [k \in {j \in DOMAIN f : f[j].left > 0} |-> [f[k] EXCEPT !.left = @ - 1]]

(* Time passes: entries expire, and so do the ways of late commands.       *)
Tick ==
    /\ primary' = Aged(primary)
    /\ replica' = Aged(replica)
    /\ wire' = {[c EXCEPT !.lag = @ - 1] : c \in {d \in wire : d.lag > 0}}
    /\ UNCHANGED answer

Get(p, k) == GetHit(p, k) \/ GetNothing(p, k) \/ GetFails(p)

Next ==
    \/ \E p \in Readers, k \in Keys : Get(p, k)
    \/ \E k \in Keys, v \in Values, ttl \in TTLs : Set(k, v, ttl)
    \/ \E k \in Keys : Delete(k) \/ Replicate(k)
    \/ \E c \in wire : Execute(c) \/ GiveUp(c)
    \/ Clear
    \/ Failover
    \/ Tick

Spec == Init /\ [][Next]_vars
-----------------------------------------------------------------------------
(* What may still be served: a copy until its time is over, a command on   *)
(* its way for its time to live from the moment it is executed.            *)
Held(f) ==
    {[key |-> k, value |-> f[k].value, left |-> f[k].left + f[k].late]
       : k \in DOMAIN f}

Sent == {[key |-> c.key, value |-> c.value, left |-> c.ttl + c.lag] : c \in wire}

Promises == Held(primary) \cup Held(replica) \cup Sent

Lossy == INSTANCE LossyCache WITH
    store <- Promises, TTLs <- {ttl + Lag : ttl \in TTLs}

(* Whatever is lost, executed late or twice, overtaken by a failover or    *)
(* brought back by one: a Get answers only with a value that was set under *)
(* the key, no longer ago than its time to live and the Lag of commands.   *)
KeepsItsPromise == Lossy!Spec
=============================================================================
