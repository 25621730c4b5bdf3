----------------------- MODULE MCMaterializationCache -----------------------
(* Two threads share the cache of process p, whose leases outlive it; process q
   starts and reclaims.  Three nonces leave one for what is left behind. *)
EXTENDS MaterializationCache, TLC

CONSTANTS p, q, a, b

Homes == [t \in Threads |-> p]

Sizes == [content \in Revisions |-> IF content = b THEN 2 ELSE 1]

Symmetry == Permutations(Nonces)
=============================================================================
