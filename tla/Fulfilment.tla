----------------------------- MODULE Fulfilment -----------------------------
(***************************************************************************)
(* What the payment flow promises a shop, without gateways, callbacks,     *)
(* requests or faults: an order is fulfilled at most once, only for money  *)
(* the bank took for that order, never after it was abandoned; what is in  *)
(* the ledger was claimed once; and only what the ledger has is given back, *)
(* after which nothing more happens to it than being marked refunded.      *)
(* Webshop implements it (Webshop!Fulfilled), and so does Refunds           *)
(* (Refunds!PromiseKept).                                                  *)
(***************************************************************************)
CONSTANT Orders

VARIABLES
    standing,   \* order -> absent, open, claimed, fulfilled, abandoned or refunded
    charged,    \* the orders the bank took money for
    ledger,     \* the orders with a recorded transaction
    returned    \* the orders whose money was given back

vars == <<standing, charged, ledger, returned>>

Init ==
    /\ standing = [o \in Orders |-> "absent"]
    /\ charged = {}
    /\ ledger = {}
    /\ returned = {}

Move(o, from, to) ==
    /\ standing[o] = from
    /\ standing' = [standing EXCEPT ![o] = to]
    /\ UNCHANGED <<charged, ledger, returned>>

Place(o) == Move(o, "absent", "open")

\* Only an order nobody was charged for is given up, and nobody will be.
Abandon(o) == o \notin charged /\ Move(o, "open", "abandoned")

Charge(o) ==
    /\ standing[o] \in {"open", "claimed"}
    /\ charged' = charged \cup {o}
    /\ UNCHANGED <<standing, ledger, returned>>

\* A claim is taken and given back only while the ledger has nothing of it.
Claim(o) == o \notin ledger /\ Move(o, "open", "claimed")
Unclaim(o) == o \notin ledger /\ Move(o, "claimed", "open")

Fulfil(o) == o \in charged /\ o \notin ledger /\ Move(o, "claimed", "fulfilled")

\* One entry per order.  It is made even when marking the order failed, which
\* then stays claimed.
Book(o) ==
    /\ standing[o] \in {"claimed", "fulfilled"}
    /\ o \in charged
    /\ o \notin ledger
    /\ ledger' = ledger \cup {o}
    /\ UNCHANGED <<standing, charged, returned>>

\* Only what was recorded is given back.  That the bank gives it back no second
\* time when asked twice is the bank's, and not stated here.
Return(o) ==
    /\ o \in ledger \ returned
    /\ returned' = returned \cup {o}
    /\ UNCHANGED <<standing, charged, ledger>>

\* An order stands refunded only when its money was given back.
Refund(o) ==
    /\ o \in returned
    /\ Move(o, "claimed", "refunded") \/ Move(o, "fulfilled", "refunded")

Next ==
    \E o \in Orders :
        \/ Place(o) \/ Abandon(o) \/ Charge(o)
        \/ Claim(o) \/ Unclaim(o) \/ Fulfil(o) \/ Book(o)
        \/ Return(o) \/ Refund(o)

Spec == Init /\ [][Next]_vars

=============================================================================
