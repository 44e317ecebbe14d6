------------------------------- MODULE MCBmc -------------------------------
(***************************************************************************)
(* A key of 224 bytes, a longer one that begins with it, and a short one   *)
(* with the hash of the long one: a response for the long key is stored    *)
(* as if it were for the first, and its SETs and GETs go to the third's.   *)
(***************************************************************************)
EXTENDS Bmc, TLC

CONSTANTS k1, k2, k3

MCHashOf == [k \in Keys |-> IF k = k1 THEN 1 ELSE 2]
MCKeyLen == [k \in Keys |-> IF k = k1 THEN 224 ELSE IF k = k2 THEN 225 ELSE 10]
MCCut == [k \in Keys |-> IF k = k2 THEN k1 ELSE k]
MCPrefixOf == {p \in Keys \X Keys : p[1] = p[2] \/ p = <<k1, k2>>}

Symmetry == Permutations(CPUs)

=============================================================================
