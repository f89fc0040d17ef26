-------------------------------- MODULE Stores --------------------------------
(***************************************************************************)
(* The two implementations of the stores the repository has, the default   *)
(* one over a database (PaymentStore) and the example's in memory          *)
(* (MemStore), called by several callers at once in any order, and shown   *)
(* to keep StoreContract.  A database statement may fail before or after   *)
(* it took effect.                                                         *)
(***************************************************************************)
EXTENDS PaymentStore, SequencesExt

CONSTANTS
    Callers,
    Backends,   \* memory; or a database: matched counts the rows an UPDATE
                \* finds, changed (MySQL) those it changes
    Retoken,    \* the backends with which a payment that has a token is saved
                \* again with another
    Status,     \* bound: the statuses used, a subset of Statuses
    Addresses,
    MaxRecords  \* bound: payments and transactions saved

ASSUME BackendsAssumption == Backends \subseteq {"memory", "matched", "changed"}
ASSUME RetokenAssumption == Retoken \subseteq Backends
ASSUME StatusAssumption == Status \subseteq Statuses /\ "pending" \in Status
ASSUME NoneIsNoAddress == None \notin Addresses /\ MaxRecords \in Nat

\* Somewhere is free besides the orders' rows and one a caller holds.
ASSUME AddressesSuffice ==
    \A at \in [Orders -> Addresses \cup {None}], a \in Addresses \cup {None} :
        \E b \in Addresses \ {a} : \A o \in Orders : at[o] # b

VARIABLES
    backend,
    cells, byOrder, byToken, txs,   \* the memory store
    answer,     \* what the last call returned
    held,       \* a row some caller looked up and still holds: its address, and its
                \* order and token at the time, or None
    half        \* caller -> the order of a SetStatus between its two statements,
                \* and whether the first one found it, or None

memVars == <<cells, byOrder, byToken, txs>>
vars == <<storeVars, memVars, backend, answer, held, half>>

Mem == INSTANCE MemStore

Row == [order : Orders, status : Status, token : Sessions \cup {None}]
Looked == [at : Addresses, order : Orders, token : Sessions \cup {None}]
Begun == [order : Orders, found : {"applied", "missed"}]

ASSUME NoneIsNoRecord == None \notin Row \cup Looked \cup Begun

RowOf(o) == [order |-> o, status |-> payments[o].status, token |-> payments[o].token]

\* The rows and the histories the callers see.
Rows == [o \in Orders |->
    IF backend # "memory" THEN IF payments[o] = None THEN None ELSE RowOf(o)
    ELSE IF byOrder[o] = None THEN None ELSE cells[byOrder[o]]]

References(ts) == [i \in DOMAIN ts |-> ts[i].ref]

\* Where the order's entries are in the table of all transactions.
Recorded(o) == {i \in DOMAIN transactions : transactions[i].order = o}

NthSmallest(S, n) == CHOOSE i \in S : Cardinality({j \in S : j < i}) = n - 1

History == [o \in Orders |->
    IF backend = "memory" THEN txs[o]
    ELSE [n \in 1 .. Cardinality(Recorded(o)) |-> transactions[NthSmallest(Recorded(o), n)].ref]]

Contract == INSTANCE StoreContract WITH rows <- Rows, history <- History, between <- half

TypeOK ==
    /\ StoreTypeOK
    /\ backend \in Backends
    /\ cells \in [Addresses -> Row \cup {None}]
    /\ byOrder \in [Orders -> Addresses \cup {None}]
    /\ byToken \in [Sessions -> Addresses \cup {None}]
    /\ txs \in [Orders -> Seq(Sessions)]
    /\ answer.says \in {"nothing", "ok", "nil", "not found", "yes", "no", "error", "row", "refs"}
    /\ answer.row \in Row \cup {None}
    /\ answer.refs \in Seq(Sessions)
    /\ held \in Looked \cup {None}
    /\ half \in [Callers -> Begun \cup {None}]

Init ==
    /\ StoreInit
    /\ Mem!Init
    /\ backend \in Backends
    /\ answer = Contract!Say("nothing")
    /\ held = None
    /\ half = [c \in Callers |-> None]

-----------------------------------------------------------------------------
(* What the callers pass, the merchant's part. *)

MayBeSaved(row) ==
    \A old \in {Rows[row.order]} \ {None} :
        old.token \in {None, row.token} \/ backend \in Retoken

\* Each call that adds a record counts; the two stores share nothing.
Booked(o) == Len(History[o])
Records ==
    Cardinality({o \in Orders : Rows[o] # None}) + MapThenSumSet(Booked, Orders)

-----------------------------------------------------------------------------
(* The default stores. *)

DBAnswers(a) ==
    /\ backend # "memory"
    /\ answer' \in {a, Contract!Say("error")}
    /\ UNCHANGED <<memVars, backend, held>>

DBReads(a) == DBAnswers(a) /\ UNCHANGED <<storeVars, half>>

DBFails == DBReads(Contract!Say("error"))

DBSavePayment(row) ==
    /\ SavePayment(row.order, [status |-> row.status, token |-> row.token])
    /\ DBAnswers(Contract!Say("ok"))
    /\ UNCHANGED <<transactions, half>>

DBFirst(found) ==
    IF found = {} THEN DBReads(Contract!Say("nil"))
    ELSE \E o \in found : DBReads(Contract!SayRow(RowOf(o)))

DBGetPayment(o) == DBFirst(GetPayment(o))
DBGetPaymentByToken(token) == DBFirst(GetPaymentByToken(token))

\* The rows the UPDATE of SetStatus may report.  Where only changed rows count, a
\* row that has the status already counts if its UpdatedAt moves.
RowsAffected(o, to) ==
    IF payments[o] = None THEN {0}
    ELSE IF backend = "changed" /\ InStatus(o, to) THEN {0, 1}
    ELSE {1}

SetWhereFound(o, to) ==
    IF payments[o] = None THEN UNCHANGED payments ELSE SetStatus(o, to)

\* A bug: no row affected is taken for no payment.
DBSetStatusOnce(c, o, to) ==
    /\ SetWhereFound(o, to)
    /\ \E n \in RowsAffected(o, to) :
        DBAnswers(Contract!Say(IF n > 0 THEN "ok" ELSE "not found"))
    /\ UNCHANGED <<transactions, half>>

\* The UPDATE.  When it affects no row, the row is looked for.
DBSetStatus(c, o, to) ==
    /\ SetWhereFound(o, to)
    /\ \/ 1 \in RowsAffected(o, to) /\ DBAnswers(Contract!Say("ok")) /\ UNCHANGED half
       \/ DBAnswers(Contract!Say("error")) /\ UNCHANGED half
       \/ /\ 0 \in RowsAffected(o, to)
          /\ half' = [half EXCEPT ![c] =
                [order |-> o, found |-> IF payments[o] = None THEN "missed" ELSE "applied"]]
          /\ backend # "memory"
          /\ UNCHANGED <<memVars, backend, answer, held>>
    /\ UNCHANGED transactions

DBSetStatusLooks(c) ==
    /\ half[c] # None
    /\ DBAnswers(Contract!Say(IF GetPayment(half[c].order) = {} THEN "not found" ELSE "ok"))
    /\ half' = [half EXCEPT ![c] = None]
    /\ UNCHANGED storeVars

DBTransitionStatus(o, from, to) ==
    /\ \/ TransitionStatus(o, from, to) /\ DBAnswers(Contract!Say("yes"))
       \/ ~InStatus(o, from) /\ UNCHANGED payments /\ DBAnswers(Contract!Say("no"))
    /\ UNCHANGED <<transactions, half>>

DBSaveTransaction(o, ref) ==
    /\ SaveTransaction([order |-> o, ref |-> ref])
    /\ DBAnswers(Contract!Say("ok"))
    /\ UNCHANGED <<payments, half>>

DBGetTransaction(o) ==
    IF GetTransaction(o) = {} THEN DBReads(Contract!Say("nil"))
    ELSE \E t \in GetTransaction(o) : DBReads(Contract!SayRefs(<<t.ref>>))

DBListTransactions(o) ==
    DBReads(Contract!SayRefs(References(ListTransactions(o))))

-----------------------------------------------------------------------------
(* The example's store. *)

MemAnswers(a) ==
    /\ backend = "memory"
    /\ answer' = a
    /\ UNCHANGED <<storeVars, backend, half>>

MemReads(a) == MemAnswers(a) /\ UNCHANGED <<memVars, held>>

MemWrites(a) == MemAnswers(a) /\ UNCHANGED held

Held == IF held = None THEN {} ELSE {held.at}

MemSavePayment(row) == Mem!SavePayment(row, Held) /\ MemWrites(Contract!Say("ok"))

\* The caller gets the address: what it reads there later may have changed.
MemPoints(address) ==
    IF address = None THEN MemReads(Contract!Say("nil"))
    ELSE /\ MemAnswers(Contract!SayRow(cells[address]))
         /\ held' \in {held, [at |-> address, order |-> cells[address].order,
                              token |-> cells[address].token]}
         /\ UNCHANGED memVars

MemGetPayment(o) == MemPoints(Mem!GetPayment(o))
MemGetPaymentByToken(token) == MemPoints(Mem!GetPaymentByToken(token))

MemSetStatus(o, to) ==
    IF byOrder[o] = None THEN MemReads(Contract!Say("not found"))
    ELSE Mem!SetStatus(o, to) /\ MemWrites(Contract!Say("ok"))

MemTransitionStatus(o, from, to) ==
    \/ Mem!TransitionStatus(o, from, to) /\ MemWrites(Contract!Say("yes"))
    \/ ~Mem!InStatus(o, from) /\ MemReads(Contract!Say("no"))

MemSaveTransaction(o, ref) ==
    Mem!SaveTransaction(o, ref) /\ MemWrites(Contract!Say("ok"))

MemGetTransaction(o) ==
    IF Mem!GetTransaction(o) = <<>> THEN MemReads(Contract!Say("nil"))
    ELSE MemReads(Contract!SayRefs(Mem!GetTransaction(o)))

MemListTransactions(o) == MemReads(Contract!SayRefs(Mem!ListTransactions(o)))

-----------------------------------------------------------------------------
Saves ==
    \/ \E row \in Row :
        /\ Records < MaxRecords \/ Rows[row.order] # None
        /\ MayBeSaved(row)
        /\ DBSavePayment(row) \/ MemSavePayment(row)
    \/ \E o \in Orders, ref \in Sessions :
        Records < MaxRecords /\ (DBSaveTransaction(o, ref) \/ MemSaveTransaction(o, ref))

Lookups ==
    \/ \E o \in Orders :
        \/ DBGetPayment(o) \/ MemGetPayment(o)
        \/ DBGetTransaction(o) \/ MemGetTransaction(o)
        \/ DBListTransactions(o) \/ MemListTransactions(o)
    \/ \E token \in Sessions \cup {None} :
        DBGetPaymentByToken(token) \/ MemGetPaymentByToken(token)

Moves ==
    \E o \in Orders, to \in Status :
        \/ MemSetStatus(o, to)
        \/ \E c \in Callers : half[c] = None /\ DBSetStatus(c, o, to)
        \/ \E from \in Status \ {to} :
            DBTransitionStatus(o, from, to) \/ MemTransitionStatus(o, from, to)

\* A caller between its two statements makes no other call; which of the others
\* makes a call of one step is all the same.
Next ==
    \/ \E c \in Callers : DBSetStatusLooks(c)
    \/ (\E c \in Callers : half[c] = None) /\ (Saves \/ Lookups \/ Moves \/ DBFails)

Spec == Init /\ [][Next]_vars

-----------------------------------------------------------------------------
(* Properties. *)

\* Both stores answer and change what the interfaces promise (store.go:126-162),
\* each call at one moment, though SetStatus is two statements of the database
\* and a row in memory is found through two maps.
ContractKept == Contract!Spec

\* What a caller got from a lookup stays what it was but for the status: the
\* example's store hands out addresses, and the flow reads the order and the token
\* of a row long after another request may have saved it again.
HeldPayment ==
    held # None =>
        cells[held.at] # None /\ cells[held.at].order = held.order /\ cells[held.at].token = held.token

=============================================================================
