-------------------------- MODULE MCRedisSemaphore --------------------------
(* Small instances of RedisSemaphore for TLC. *)
EXTENDS RedisSemaphore, TLC

Symmetry == Permutations(MayStop) \cup Permutations(Clients \ MayStop)
=============================================================================
