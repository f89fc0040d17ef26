----------------------------- MODULE MCVirtual -----------------------------
(* Instances of Virtual for TLC. *)
EXTENDS Virtual, TLC

Symmetry ==
    Permutations(Orders) \cup Permutations(Tokens) \cup Permutations(Codes)
        \cup Permutations(Threads)

=============================================================================
