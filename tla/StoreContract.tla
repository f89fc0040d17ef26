---------------------------- MODULE StoreContract ----------------------------
(***************************************************************************)
(* What a caller may rely on from a PaymentStore and a TransactionStore    *)
(* (store.go), whatever is behind them: one row per order and one history  *)
(* of transactions, each call taking effect at one moment.  A call that    *)
(* answers an error may have taken effect.  Only SetStatus of a payment    *)
(* that is first saved while it runs may answer ok without setting it.     *)
(***************************************************************************)
EXTENDS SequencesExt

CONSTANTS Orders, Sessions, Callers, Status, None

VARIABLES
    rows,       \* order -> its payment, or None
    history,    \* order -> the references of its transactions, oldest first
    answer,     \* what the last call returned
    between     \* caller -> the order whose status a SetStatus of it has set
                \* ("applied") or has not found ("missed"), or None

vars == <<rows, history, answer, between>>

Row == [order : Orders, status : Status, token : Sessions \cup {None}]
Between == [order : Orders, found : {"applied", "missed"}]

Say(says) == [says |-> says, row |-> None, refs |-> <<>>]
SayRow(row) == [says |-> "row", row |-> row, refs |-> <<>>]
SayRefs(refs) == [says |-> "refs", row |-> None, refs |-> refs]

Init ==
    /\ rows = [o \in Orders |-> None]
    /\ history = [o \in Orders |-> <<>>]
    /\ answer = Say("nothing")
    /\ between = [c \in Callers |-> None]

-----------------------------------------------------------------------------
Answers(a) == answer' \in {a, Say("error")}

Reads(a) == Answers(a) /\ UNCHANGED <<rows, history, between>>

Writes(o, row, a) ==
    /\ Answers(a)
    /\ rows' = [rows EXCEPT ![o] = row]
    /\ UNCHANGED <<history, between>>

SavePayment(o) ==
    /\ Answers(Say("ok"))
    /\ \E row \in Row : row.order = o /\ rows' = [rows EXCEPT ![o] = row]
    /\ UNCHANGED <<history, between>>

GetPayment(o) ==
    Reads(IF rows[o] = None THEN Say("nil") ELSE SayRow(rows[o]))

GetPaymentByToken(token) ==
    LET carrying == {o \in Orders : rows[o] # None /\ rows[o].token = token}
    IN  IF token = None \/ carrying = {} THEN Reads(Say("nil"))
        ELSE \E o \in carrying : Reads(SayRow(rows[o]))

SetStatus(o, to) ==
    IF rows[o] = None THEN Reads(Say("not found"))
    ELSE Writes(o, [rows[o] EXCEPT !.status = to], Say("ok"))

\* The same in two steps.
SetStatusBegins(c, o, to) ==
    /\ UNCHANGED <<history, answer>>
    /\ IF rows[o] = None
         THEN /\ between' = [between EXCEPT ![c] = [order |-> o, found |-> "missed"]]
              /\ UNCHANGED rows
         ELSE /\ between' = [between EXCEPT ![c] = [order |-> o, found |-> "applied"]]
              /\ rows' = [rows EXCEPT ![o].status = to]

SetStatusReturns(c) ==
    /\ between[c] # None
    /\ Answers(IF rows[between[c].order] = None THEN Say("not found") ELSE Say("ok"))
    /\ between' = [between EXCEPT ![c] = None]
    /\ UNCHANGED <<rows, history>>

TransitionStatus(o, from, to) ==
    IF rows[o] = None \/ rows[o].status # from THEN Reads(Say("no"))
    ELSE Writes(o, [rows[o] EXCEPT !.status = to], Say("yes"))

SaveTransaction(o, ref) ==
    /\ Answers(Say("ok"))
    /\ history' = [history EXCEPT ![o] = Append(@, ref)]
    /\ UNCHANGED <<rows, between>>

GetTransaction(o) ==
    Reads(IF history[o] = <<>> THEN Say("nil") ELSE SayRefs(<<Last(history[o])>>))

ListTransactions(o) == Reads(SayRefs(Reverse(history[o])))

\* A call that fails without effect.
Fails == Reads(Say("error"))

Next ==
    \/ Fails
    \/ \E token \in Sessions \cup {None} : GetPaymentByToken(token)
    \/ \E o \in Orders :
        \/ SavePayment(o) \/ GetPayment(o)
        \/ GetTransaction(o) \/ ListTransactions(o)
        \/ \E ref \in Sessions : SaveTransaction(o, ref)
        \/ \E to \in Status : SetStatus(o, to)
        \/ \E from, to \in Status : from # to /\ TransitionStatus(o, from, to)
    \/ \E c \in Callers :
        \/ SetStatusReturns(c)
        \/ \E o \in Orders, to \in Status : between[c] = None /\ SetStatusBegins(c, o, to)

Spec == Init /\ [][Next]_vars

=============================================================================
