------------------------------ MODULE MCStores ------------------------------
(* Instances of Stores for TLC. *)
EXTENDS Stores

Symmetry == Permutations(Orders) \cup Permutations(Sessions) \cup Permutations(Callers)

=============================================================================
