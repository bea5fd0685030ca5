----------------------------- MODULE ConfigLoad -----------------------------
(***************************************************************************)
(* Load and Validate of internal/config/config.go, and what NewParser and  *)
(* NewCache make of the configuration they are given.                      *)
(*                                                                         *)
(* An environment says of each variable that is text whether it is set (an *)
(* empty one counts as unset), and of each variable that is a number what  *)
(* its text is worth.  A configuration holds the numbers under the names   *)
(* of their variables.  Seconds are taken to fit a time.Duration (they do  *)
(* for 292 years).  Names, the log level and other text that no decision   *)
(* depends on are left out.                                                *)
(***************************************************************************)
EXTENDS Integers

Unset == [set |-> FALSE, integer |-> FALSE, n |-> 0]
Text == [set |-> TRUE, integer |-> FALSE, n |-> 0]
Number(n) == [set |-> TRUE, integer |-> TRUE, n |-> n]

Settings == [set : BOOLEAN, integer : BOOLEAN, n : Int]

(* The variables that are numbers, by what Load does with a value that is  *)
(* not acceptable: it keeps the default, it leaves the field zero, or it   *)
(* fails.                                                                  *)
Lenient == {"CERBOS_TIMEOUT_SECONDS", "MAPPING_TIMEOUT_MS", "JWT_TIMEOUT_SECONDS"}
Zeroing == {"JWKS_CACHE_TTL_SECONDS", "JWKS_GRACE_TTL_SECONDS"}
Strict == {"CACHE_TTL_SECONDS", "CACHE_FAILED_TTL_SECONDS",
           "CIRCUIT_BREAKER_FAILURE_THRESHOLD",
           "CIRCUIT_BREAKER_RECOVERY_TIME_SECONDS",
           "HEALTH_CHECK_INTERVAL_SECONDS", "PORT"}

Numbers == Lenient \cup Zeroing \cup Strict

Environments ==
    [numbers : [Numbers -> Settings],
     cerbos : BOOLEAN, mapping : BOOLEAN, jwks : BOOLEAN, issuer : BOOLEAN,
     sentinel : BOOLEAN,        \* both Sentinel variables are set
     mode : {"", "fail_open", "fail_closed", "other"},
     enabled : {"", "true", "other"}]

Default ==
    [CERBOS_TIMEOUT_SECONDS |-> 2,
     MAPPING_TIMEOUT_MS |-> 500,
     JWT_TIMEOUT_SECONDS |-> 5,
     JWKS_CACHE_TTL_SECONDS |-> 3600,
     JWKS_GRACE_TTL_SECONDS |-> 86400,
     CACHE_TTL_SECONDS |-> 30,
     CACHE_FAILED_TTL_SECONDS |-> 300,
     CIRCUIT_BREAKER_FAILURE_THRESHOLD |-> 5,
     CIRCUIT_BREAKER_RECOVERY_TIME_SECONDS |-> 60,
     HEALTH_CHECK_INTERVAL_SECONDS |-> 30,
     PORT |-> 8080]

AcceptableInteger(v, s) == s.set /\ s.integer   \* mutant: any integer will do

Acceptable(v, s) ==
    /\ s.set /\ s.integer /\ s.n > 0
    /\ v = "PORT" => s.n < 65536

LoadedNumber(env, v) ==
    IF Acceptable(v, env.numbers[v]) THEN env.numbers[v].n
    ELSE IF v \in Zeroing /\ env.numbers[v].set THEN 0
    ELSE Default[v]

(* Load returns a configuration; otherwise an error.                       *)
Loads(env) ==
    /\ env.jwks /\ env.issuer
    /\ \A v \in Strict : env.numbers[v].set => Acceptable(v, env.numbers[v])
    /\ env.mode # "other"

Loaded(env) ==
    [numbers |-> [v \in Numbers |-> LoadedNumber(env, v)],
     cerbos |-> env.cerbos,
     mapping |-> env.mapping,
     sentinel |-> env.sentinel,
     mode |-> IF env.mode = "" THEN "fail_open" ELSE env.mode,
     enabled |-> env.enabled # "other"]

(* Validate.  (A Redis URL is always there: Load has a default for it.)    *)
Valid(c) ==
    /\ c.cerbos /\ c.mapping
    /\ \A v \in {"CERBOS_TIMEOUT_SECONDS", "MAPPING_TIMEOUT_MS"} \cup Strict :
          c.numbers[v] > 0
    /\ c.mode \in {"fail_open", "fail_closed"}
    /\ c.numbers["PORT"] <= 65535

(* The timeout and the two lifetimes of keys the parser works with.        *)
ParserConfig(c) ==
    [v \in {"JWT_TIMEOUT_SECONDS"} \cup Zeroing |->
       IF c.numbers[v] = 0 THEN Default[v] ELSE c.numbers[v]]

(* NewCache, given what NewService gives it: type "redis", a URL, and the  *)
(* Sentinel of the mappings if there is one.                               *)
CacheOf(c) == IF c.sentinel THEN "redis with sentinel" ELSE "redis"
-----------------------------------------------------------------------------
(* What the other modules assume of their constants holds for every        *)
(* configuration that Load returns, whatever the environment: times to     *)
(* live, threshold and recovery time are positive, the failure mode is one *)
(* of the two, and the parser's lifetimes are positive even where Load     *)
(* left a zero.                                                            *)
Usable(c) ==
    /\ \A v \in Strict \cup Lenient : c.numbers[v] \in Nat \ {0}
    /\ \A v \in Zeroing : ParserConfig(c)[v] \in Nat \ {0}
    /\ c.mode \in {"fail_open", "fail_closed"}
    /\ c.enabled \in BOOLEAN

LoadedIsUsable(env) == Loads(env) => Usable(Loaded(env))

(* Nothing calls Validate.  What is lost by that is the check for the two  *)
(* endpoints, and nothing else.                                            *)
OnlyEndpointsUnchecked(env) ==
    Loads(env) => (Valid(Loaded(env)) <=> env.cerbos /\ env.mapping)
=============================================================================
