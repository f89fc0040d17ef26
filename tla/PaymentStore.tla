---------------------------- MODULE PaymentStore ----------------------------
(***************************************************************************)
(* The default stores of payjet: db_store.go behind the PaymentStore and   *)
(* TransactionStore interfaces of store.go.  Every operation is one SQL    *)
(* statement, so each is one atomic step here; a caller that gets an error *)
(* does not learn whether the statement took effect, which is the caller's *)
(* business (Webshop.tla).                                                 *)
(*                                                                         *)
(* A payment row keeps the two columns the program decides on, Status and  *)
(* Token.  The amount never changes after the first save and is a constant *)
(* of the order (Webshop!Price).                                           *)
(***************************************************************************)
EXTENDS Naturals, Sequences, FiniteSets

CONSTANTS
    Orders,     \* merchant order IDs
    Sessions,   \* what a gateway issues for one Request: a token, a reference
    None        \* the empty string, a missing row, no value

ASSUME NoneIsApart == None \notin Orders \cup Sessions
ASSUME KeysApart == Orders \cap Sessions = {}

VARIABLES
    payments,       \* payjet_payments: OrderID -> row, or None
    transactions    \* payjet_transactions, in insertion (ID) order

storeVars == <<payments, transactions>>

Statuses == {"pending", "processing", "succeeded", "failed", "refunded"}

StoredPayment == [status : Statuses, token : Sessions \cup {None}]

ASSUME NoneIsNoRow == None \notin StoredPayment

Transaction == [order : Orders, ref : Sessions \cup {None}]

StoreTypeOK ==
    /\ payments \in [Orders -> StoredPayment \cup {None}]
    /\ transactions \in Seq(Transaction)

StoreInit ==
    /\ payments = [o \in Orders |-> None]
    /\ transactions = <<>>

-----------------------------------------------------------------------------
NewStoredPayment == [status |-> "pending", token |-> None]

\* Upsert: inserts the row or rewrites every column of it, Status included.
SavePayment(o, sp) == payments' = [payments EXCEPT ![o] = sp]

\* The orders a lookup may return: none, or one of the matching rows.
GetPayment(key) == {o \in Orders : o = key /\ payments[o] # None}

GetPaymentByToken(token) ==
    {o \in Orders : /\ token # None
                    /\ payments[o] # None
                    /\ payments[o].token = token}

InStatus(o, status) == payments[o] # None /\ payments[o].status = status

SetStatus(o, to) ==
    /\ payments[o] # None
    /\ payments' = [payments EXCEPT ![o].status = to]

\* The conditional UPDATE forgets its condition.
TransitionUnchecked(o, from, to) ==
    payments[o] # None /\ payments' = [payments EXCEPT ![o].status = to]

\* The case in which the conditional UPDATE affects a row; in every other
\* state it affects none and the caller gets false.
TransitionStatus(o, from, to) ==
    /\ InStatus(o, from)
    /\ payments' = [payments EXCEPT ![o].status = to]

SaveTransaction(t) == transactions' = Append(transactions, t)

\* The most recent transaction of the order, if it has one.
GetTransaction(o) ==
    {transactions[i] : i \in {j \in DOMAIN transactions :
        /\ transactions[j].order = o
        /\ \A k \in DOMAIN transactions : transactions[k].order = o => k <= j}}

NthLargest(S, n) == CHOOSE i \in S : Cardinality({j \in S : j > i}) = n - 1

\* All of them, newest first.
ListTransactions(o) ==
    LET recorded == {i \in DOMAIN transactions : transactions[i].order = o}
    IN  [n \in 1 .. Cardinality(recorded) |-> transactions[NthLargest(recorded, n)]]

=============================================================================
