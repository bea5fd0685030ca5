--------------------------- MODULE MCMemoryCache ---------------------------
(* Instances of MemoryCache for TLC.                                       *)
EXTENDS MemoryCache, TLC

Decisions == {"allow", "deny"}

Symmetry == Permutations(Procs) \cup Permutations(Keys)
=============================================================================
