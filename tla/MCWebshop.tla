------------------------------ MODULE MCWebshop ------------------------------
(* Instances of Webshop for TLC. *)
EXTENDS Webshop, TLC

\* Two orders of one price, as in examples/webshop, where every order costs
\* the same.
OnePrice == [o \in Orders |-> 1]

\* Orders of different prices (for the runs with orders o1 and o2).
CONSTANT o1
TwoPrices == [o \in Orders |-> IF o = o1 THEN 1 ELSE 2]

\* Callbacks whose parameters come from any payments, and declines.
Mixed ==
    [ok : BOOLEAN, order : Orders \cup {None}, token : Sessions \cup {None},
     ref : Sessions \cup {None}, amount : {None}]

NoStray == {}

\* Of these the ones that name an order, and declines of one of its sessions.
MixedPaid ==
    [ok : {TRUE}, order : Orders, token : Sessions \cup {None}, ref : Sessions \cup {None},
     amount : {None}]
    \cup [ok : {FALSE}, order : Orders, token : Sessions, ref : {None}, amount : {None}]

\* Successes that name an order, a session and a reference, each of any payment.
CrossPaid ==
    [ok : {TRUE}, order : Orders, token : Sessions, ref : Sessions, amount : {None}]

SymmetryOfSlots == Permutations(Sessions) \cup Permutations(Handlers)

Symmetry == Permutations(Orders) \cup Permutations(Sessions) \cup Permutations(Handlers)

=============================================================================
