-------------------------- MODULE MCPersistentCache --------------------------
(* PersistentCache for TLC. *)
EXTENDS PersistentCache, TLC

SessionSymmetry == Permutations(Sessions) \cup Permutations(Texts \ {Empty})
NoAnomalies == {}
=============================================================================
