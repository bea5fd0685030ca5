-------------------------- MODULE MCAuthStaleness --------------------------
(* Instances of AuthStaleness for TLC.                                     *)
EXTENDS AuthStaleness, MCAuthService
=============================================================================
