------------------------------ MODULE MemStore ------------------------------
(***************************************************************************)
(* examples/storage: both stores over maps in memory, every operation      *)
(* under one mutex.  Rows live at addresses that two maps, and the callers *)
(* a lookup answered, point to; an address nobody points to is collected   *)
(* and may be used again.                                                  *)
(***************************************************************************)
EXTENDS SequencesExt

CONSTANTS
    Orders, Sessions, None,
    Addresses   \* bound: enough for every row that is pointed to, and one more

VARIABLES
    cells,      \* address -> the StoredPayment there, or None
    byOrder,    \* order -> address, or None
    byToken,    \* token -> address, or None
    txs         \* order -> the references of its transactions, oldest first

Init ==
    /\ cells = [a \in Addresses |-> None]
    /\ byOrder = [o \in Orders |-> None]
    /\ byToken = [t \in Sessions |-> None]
    /\ txs = [o \in Orders |-> <<>>]

-----------------------------------------------------------------------------
\* Somewhere nothing points to; held are the addresses callers point to.
Fresh(held) ==
    CHOOSE a \in Addresses \ held :
        (\A o \in Orders : byOrder[o] # a) /\ (\A t \in Sessions : byToken[t] # a)

\* A bug: the empty token is indexed, too.
StoreEmptyToken(row, a, held) ==
    /\ byOrder' = [byOrder EXCEPT ![row.order] = a]
    /\ byToken' = [t \in DOMAIN byToken \cup {row.token} |-> IF t = row.token THEN a ELSE byToken[t]]
    /\ cells' = [cells EXCEPT ![a] = row]
    /\ UNCHANGED txs

\* The row is put at the address a; what nothing leads to any more is collected.
Store(row, a, held) ==
    /\ byOrder' = [byOrder EXCEPT ![row.order] = a]
    /\ byToken' = [t \in Sessions |-> IF t = row.token THEN a ELSE byToken[t]]
    /\ cells' = [b \in Addresses |->
        IF b = a THEN row
        ELSE IF b \in held \/ (\E o \in Orders : byOrder'[o] = b)
                           \/ (\E t \in Sessions : byToken'[t] = b)
        THEN cells[b] ELSE None]
    /\ UNCHANGED txs

\* A bug: a payment saved again is updated where it is.
SavePaymentInPlace(row, held) ==
    Store(row, IF byOrder[row.order] # None THEN byOrder[row.order] ELSE Fresh(held), held)

\* A copy of the row at an address of its own, which both maps then lead to.
SavePayment(row, held) == Store(row, Fresh(held), held)

\* The addresses the two lookups return; the empty token is in no map.
GetPayment(o) == byOrder[o]
GetPaymentByToken(token) == IF token = None THEN None ELSE byToken[token]

InStatus(o, status) == byOrder[o] # None /\ cells[byOrder[o]].status = status

SetStatus(o, to) ==
    /\ byOrder[o] # None
    /\ cells' = [cells EXCEPT ![byOrder[o]].status = to]
    /\ UNCHANGED <<byOrder, byToken, txs>>

TransitionStatus(o, from, to) == InStatus(o, from) /\ SetStatus(o, to)

SaveTransaction(o, ref) ==
    /\ txs' = [txs EXCEPT ![o] = Append(@, ref)]
    /\ UNCHANGED <<cells, byOrder, byToken>>

GetTransaction(o) == IF txs[o] = <<>> THEN <<>> ELSE <<Last(txs[o])>>

ListTransactions(o) == Reverse(txs[o])

=============================================================================
