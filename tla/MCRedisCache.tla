---------------------------- MODULE MCRedisCache ----------------------------
(* Instances of RedisCache for TLC.                                        *)
EXTENDS RedisCache, TLC

Decisions == {"allow", "deny"}
=============================================================================
