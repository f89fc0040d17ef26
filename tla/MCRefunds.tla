------------------------------ MODULE MCRefunds ------------------------------
(* Instances of Refunds for TLC. *)
EXTENDS Refunds, TLC

OnePrice == [o \in Orders |-> 1]

\* Callbacks whose parameters come from any payments, and declines.
Mixed ==
    [ok : BOOLEAN, order : Orders \cup {None}, token : Sessions \cup {None},
     ref : Sessions \cup {None}, amount : {None}]

\* Of these the ones that name an order, and declines of one of its sessions.
MixedPaid ==
    [ok : {TRUE}, order : Orders, token : Sessions \cup {None}, ref : Sessions \cup {None},
     amount : {None}]
    \cup [ok : {FALSE}, order : Orders, token : Sessions, ref : {None}, amount : {None}]

\* A decline, one without a reference, and a forged success.
FewStray ==
    {c \in MixedPaid : c.token # None /\ (c.ok => c.ref = None)}
        \cup {c \in MixedPaid : c.ok /\ c.token # None /\ c.ref # None}

Symmetry ==
    Permutations(Orders) \cup Permutations(Sessions) \cup Permutations(Handlers)
        \cup Permutations(Clerks)

=============================================================================
