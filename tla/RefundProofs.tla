------------------------------ MODULE RefundProofs ------------------------------
(***************************************************************************)
(* The theorems about Refunds: with refunds under way at any time, by any  *)
(* number of clerks, what was proved of Webshop still holds, and the whole *)
(* keeps Fulfilment's promise.                                             *)
(***************************************************************************)
EXTENDS Refunds, CalmProofs

-----------------------------------------------------------------------------
(* Claims and rows, whatever the constants: a clerk past its call works on a *)
(* recorded order, which no request is engaged with.                         *)

RefundTypes ==
    /\ clerk \in [Clerks -> {"idle", "called", "reversed"}]
    /\ refunding \in [Clerks -> Orders \cup {None}]
    /\ refundWire \in [Clerks -> ReversalCall \cup {None}]
    /\ refundReply \in [Clerks -> {"ok", "already", "rejected", None}]
    /\ reversed \subseteq Sessions

ClerksRecorded == \A k \in Clerks : clerk[k] # "idle" => refunding[k] \in Ledger

RefundClaims == IInv /\ RefundTypes /\ ClerksRecorded

LEMMA RefundClaimsInit == RefundInit => RefundClaims
  BY ClaimInit DEF RefundInit, RefundClaims, RefundTypes, ClerksRecorded

LEMMA LedgerGrows ==
    ASSUME IInv, FlowStep
    PROVE  Ledger \subseteq Ledger'
  <1>0. TypeInv
    BY DEF IInv
  <1>1. CASE UNCHANGED transactions
    BY <1>1 DEF Ledger
  <1>2. ASSUME NEW h \in Handlers, Records(h)
        PROVE  Ledger \subseteq Ledger'
    <2>1. /\ DOMAIN transactions \subseteq DOMAIN transactions'
          /\ \A i \in DOMAIN transactions : transactions'[i] = transactions[i]
      BY <1>0, <1>2
         DEF Records, SaveTransaction, NewTransaction, TypeInv, TypeOK, StoreTypeOK
    <2> QED
      BY <2>1 DEF Ledger
  <1>3. ASSUME NEW h \in Handlers, Handler(h)
        PROVE  UNCHANGED transactions \/ Records(h)
    BY <1>0, <1>3, HandlerSteps DEF storeVars, Claims, Releases, RowStep
  <1>4. CASE UNCHANGED vars \/ ProcessDies
    BY <1>1, <1>4 DEF vars, storeVars, ProcessDies
  <1>5. ASSUME NEW o \in Orders, Checkout(o)
        PROVE  UNCHANGED transactions
    BY <1>5 DEF Checkout, SaveOrder, SaveOrderError, Request, RequestError, MarkFailed,
                SaveToken, SaveTokenError, Redirect, CheckoutAt
  <1>6. ASSUME NEW s \in Sessions, Pay(s) \/ Cancel(s)
        PROVE  UNCHANGED transactions
    BY <1>6 DEF Pay, Cancel, CustomerDecides, storeVars
  <1>7. ASSUME NEW h \in Handlers, (\E c \in Delivered : Load(h, c)) \/ Disconnect(h) \/ Bank(h)
        PROVE  UNCHANGED transactions
    BY <1>7 DEF Load, Disconnect, Bank, BankProcesses, BankRejects, CallLost, storeVars
  <1> QED
    BY <1>1, <1>2, <1>3, <1>4, <1>5, <1>6, <1>7 DEF FlowStep, Running

(* The clerk marks the row: its order is recorded, so no request is engaged  *)
(* with it.                                                                  *)

LEMMA MarkClaims ==
    ASSUME IInv, NEW o \in Ledger, SetStatus(o, "refunded"),
           UNCHANGED <<transactions, gateway, forgotten, shopVars, sessions, handlerVars, wire>>
    PROVE  IInv'
  <1>0. TypeInv
    BY DEF IInv
  <1>1. UNCHANGED <<checkout, res, pc, cb, rec, reply, gone>>
    BY DEF shopVars, handlerVars
  <1>2. o \in Orders /\ Done(o) /\ \A h \in Handlers : Engaged(h) => rec[h].order # o
    BY <1>0 DEF Ledger, IInv, OneEngaged, KnownLater, Known
  <1>3. /\ payments[o] # None /\ payments'[o] # None
        /\ payments'[o].status = "refunded" /\ payments'[o].token = payments[o].token
        /\ \A p \in Orders \ {o} : payments'[p] = payments[p]
    BY <1>0, <1>2, RowMoved DEF TypeInv, TypeOK, StoreTypeOK, Statuses
  <1>4. TypeInv'
    <2>1. payments' \in [Orders -> StoredPayment \cup {None}]
      BY <1>0, <1>2, RowTypes DEF TypeInv, TypeOK, StoreTypeOK, Statuses
    <2> QED
      BY <1>0, <1>1, <2>1
         DEF TypeInv, TypeOK, StoreTypeOK, LocalsSet, ChecksPassed, SessionsOpened
  <1>5. TokensBelong'
    BY <1>0, <1>1, <1>3 DEF IInv, TokensBelong, Opened
  <1>6. KnownLater'
    BY <1>0, <1>1 DEF IInv, KnownLater, Known
  <1>7. StatusPlace'
    BY <1>0, <1>1, <1>2, <1>3 DEF IInv, StatusPlace, Done, InStatus
  <1>8. OneEngaged'
    <2>1. \A p \in Orders : Done(p) => Done(p)'
      BY <1>3 DEF Done, InStatus
    <2>2. \A h \in Handlers : /\ Engaged(h)' <=> Engaged(h)
                              /\ Holding(h)' <=> Holding(h)
                              /\ Holding(h) => Engaged(h)
                              /\ Engaged(h) => rec[h].order \in Orders \ {o}
      BY <1>0, <1>1, <1>2 DEF Engaged, Holding, IInv, KnownLater, Known
    <2>3. \A p \in Orders \ {o} : InStatus(p, "processing") => InStatus(p, "processing")'
      BY <1>3 DEF InStatus
    <2>4. \A i \in DOMAIN transactions : transactions[i].order \in Orders
      BY <1>0 DEF IInv, KnownLater, Known
    <2> QED
      BY <1>0, <1>1, <2>1, <2>2, <2>3, <2>4 DEF IInv, OneEngaged
  <1>9. FulfilledOnce'
    BY <1>0 DEF IInv, FulfilledOnce
  <1> QED
    BY <1>4, <1>5, <1>6, <1>7, <1>8, <1>9 DEF IInv


\* What a refund sends is a reversal of a session.
LEMMA ReversalTypes ==
    ASSUME TypeInv, gateway \in G!Refunders, NEW o \in Orders, payments[o] # None,
           NEW v \in Transaction,
           NEW call, call = G!RefundCall(gateway, PaymentOf(o), v), call.session # None
    PROVE  call \in ReversalCall
  <1>1. payments[o].token \in Sessions \cup {None} /\ v.ref \in Sessions \cup {None}
    BY DEF TypeInv, TypeOK, StoreTypeOK, StoredPayment, Transaction
  <1>2. PaymentOf(o).token = payments[o].token /\ PaymentOf(o).order = o
    BY DEF PaymentOf
  <1>3. /\ call.session \in {payments[o].token, v.ref} /\ call.order \in {None, o}
        /\ call = [session |-> call.session, order |-> call.order]
    BY <1>2 DEF G!RefundCall, G!Reversal, G!ZarinpalReversal, G!SamanReversal, G!ParsianReversal,
                G!MellatReversal, G!PasargadReversal, G!VirtualReversal, G!Refunders,
                G!GatewayNames
  <1> QED
    BY <1>1, <1>3 DEF ReversalCall

LEMMA ClaimsStay ==
    ASSUME RefundClaims, [RefundNext]_allVars
    PROVE  RefundClaims'
  <1>0. IInv /\ RefundTypes /\ ClerksRecorded
    BY DEF RefundClaims
  <1>1. ASSUME FlowStep, RefundTypes',
               \A k \in Clerks : \/ clerk'[k] = "idle"
                                 \/ clerk[k] # "idle" /\ refunding'[k] = refunding[k]
        PROVE  RefundClaims'
    <2>1. IInv' /\ Ledger \subseteq Ledger'
      BY <1>0, <1>1, FlowClaims, LedgerGrows
    <2> QED
      BY <1>0, <1>1, <2>1 DEF RefundClaims, ClerksRecorded
  <1>2. CASE FlowStep /\ UNCHANGED refundVars
    <2>1. UNCHANGED <<clerk, refunding, refundWire, refundReply, reversed>>
      BY <1>2 DEF refundVars, clerkVars
    <2>2. RefundTypes'
      BY <1>0, <2>1 DEF RefundTypes
    <2> QED
      BY <1>1, <1>2, <2>1, <2>2
  <1>3. CASE CrashAll
    <2>1. FlowStep /\ RefundTypes'
      BY <1>0, <1>3 DEF CrashAll, RefundsDie, RefundTypes, FlowStep
    <2>2. \A k \in Clerks : clerk'[k] = "idle"
      BY <1>3 DEF CrashAll, RefundsDie
    <2> QED
      BY <1>1, <2>1, <2>2
  <1>4. ASSUME NEW k \in Clerks, EndRefund(k)
        PROVE  /\ clerk' \in [Clerks -> {"idle", "called", "reversed"}]
               /\ refunding' \in [Clerks -> Orders \cup {None}]
               /\ refundReply' \in [Clerks -> {"ok", "already", "rejected", None}]
               /\ \A l \in Clerks : \/ clerk'[l] = "idle"
                                    \/ clerk'[l] = clerk[l] /\ refunding'[l] = refunding[l]
    BY <1>0, <1>4 DEF EndRefund, RefundTypes
  <1>5. ASSUME NEW k \in Clerks, RefundReply(k) \/ RefundError(k)
        PROVE  RefundClaims'
    <2>1. FlowStep /\ UNCHANGED <<refundWire, reversed>>
      BY <1>5 DEF RefundReply, RefundError, FlowStep
    <2>2. CASE EndRefund(k)
      BY <1>0, <1>1, <1>4, <2>1, <2>2 DEF RefundTypes
    <2>3. CASE ~EndRefund(k)
      <3>1. /\ clerk[k] = "called" /\ clerk' = [clerk EXCEPT ![k] = "reversed"]
            /\ UNCHANGED <<refunding, refundReply>>
        BY <1>5, <2>3 DEF RefundReply, RefundError
      <3> QED
        BY <1>0, <1>1, <2>1, <3>1 DEF RefundTypes
    <2> QED
      BY <2>2, <2>3
  <1>6. ASSUME NEW k \in Clerks, MarkRefunded(k)
        PROVE  RefundClaims'
    <2>1. /\ clerk[k] = "reversed" /\ EndRefund(k) /\ UNCHANGED <<refundWire, reversed>>
          /\ UNCHANGED <<transactions, gateway, forgotten, shopVars, sessions, handlerVars, wire>>
          /\ SetStatus(refunding[k], "refunded") \/ UNCHANGED payments
      BY <1>6 DEF MarkRefunded
    <2>2. refunding[k] \in Ledger /\ Ledger' = Ledger
      BY <1>0, <2>1 DEF ClerksRecorded, Ledger
    <2>3. CASE UNCHANGED payments
      <3>1. FlowStep
        BY <2>1, <2>3 DEF FlowStep, vars, storeVars
      <3> QED
        BY <1>0, <1>1, <1>4, <2>1, <3>1 DEF RefundTypes
    <2>4. CASE SetStatus(refunding[k], "refunded")
      <3>1. IInv'
        BY <1>0, <2>1, <2>2, <2>4, MarkClaims
      <3> QED
        BY <1>0, <1>4, <2>1, <2>2, <3>1 DEF RefundClaims, RefundTypes, ClerksRecorded
    <2> QED
      BY <2>1, <2>3, <2>4
  <1>7. ASSUME NEW k \in Clerks, Reverser(k)
        PROVE  RefundClaims'
    <2>1. FlowStep /\ UNCHANGED <<clerk, refunding>>
      BY <1>7 DEF Reverser, BankReverses, BankRefusesReversal, ReversalLost, FlowStep, clerkVars
    <2>2. refundWire' \in [Clerks -> ReversalCall \cup {None}] /\ reversed' \subseteq Sessions
      BY <1>0, <1>7
         DEF Reverser, BankReverses, BankRefusesReversal, ReversalLost, Reversible, RefundTypes
    <2>3. refundReply' \in [Clerks -> {"ok", "already", "rejected", None}]
      BY <1>0, <1>7
         DEF Reverser, BankReverses, BankRefusesReversal, ReversalLost, ReversalReaches,
             ReversalCodes, RefundTypes, clerkVars
    <2>4. RefundTypes'
      BY <1>0, <2>1, <2>2, <2>3 DEF RefundTypes
    <2> QED
      BY <1>0, <1>1, <2>1, <2>4 DEF RefundTypes
  <1>8. ASSUME NEW k \in Clerks, NEW o \in Orders, BeginRefund(k, o)
        PROVE  RefundClaims'
    <2>1. PICK v \in GetTransaction(o) :
             LET call == G!RefundCall(gateway, PaymentOf(o), v)
             IN  /\ call.session # None
                 /\ refundWire' = [refundWire EXCEPT ![k] = call]
      BY <1>8 DEF BeginRefund
    <2>2. PICK call : call = G!RefundCall(gateway, PaymentOf(o), v)
      OBVIOUS
    <2>3. call.session # None /\ refundWire' = [refundWire EXCEPT ![k] = call]
      BY <2>1, <2>2
    <2>4. v \in Transaction /\ o \in Ledger
      BY <1>0 DEF GetTransaction, Ledger, IInv, TypeInv, TypeOK, StoreTypeOK
    <2>5. call \in ReversalCall
      BY <1>0, <1>8, <2>2, <2>3, <2>4, ReversalTypes DEF BeginRefund, IInv
    <2>6. IInv' /\ Ledger' = Ledger
      <3>1. FlowStep /\ UNCHANGED transactions
        BY <1>8 DEF BeginRefund, FlowStep, vars, storeVars
      <3> QED
        BY <1>0, <3>1, FlowClaims DEF Ledger
    <2>7. /\ clerk' = [clerk EXCEPT ![k] = "called"]
          /\ refunding' = [refunding EXCEPT ![k] = o]
          /\ UNCHANGED <<refundReply, reversed>>
      BY <1>8 DEF BeginRefund
    <2> QED
      BY <1>0, <1>8, <2>3, <2>4, <2>5, <2>6, <2>7 DEF RefundClaims, RefundTypes, ClerksRecorded
  <1> QED
    BY <1>2, <1>3, <1>5, <1>6, <1>7, <1>8
       DEF RefundNext, Clerk, FlowStep, allVars

LEMMA RefundClaimsHold == RefundSpec => []RefundClaims
  BY RefundClaimsInit, ClaimsStay, PTL DEF RefundSpec

-----------------------------------------------------------------------------
(* A clerk works on a recorded order, and what it asks the bank to reverse   *)
(* is a session of that order.                                               *)

\* Session s was opened for order o, which has a transaction.
RecordedIn(s, o) ==
    /\ sessions[s].order = o /\ sessions[s].stage # "unused"
    /\ o \in Ledger

GivenBack(o) == \E s \in reversed : sessions[s].order = o

ClerkTied(k) ==
    /\ clerk[k] # "idle" => refunding[k] \in Ledger
    /\ clerk[k] = "idle" => refundReply[k] = None
    /\ refundWire[k] # None =>
        \E o \in Orders : /\ RecordedIn(refundWire[k].session, o)
                          /\ clerk[k] = "called" => refunding[k] = o
    /\ clerk[k] = "called" /\ refundReply[k] # None /\ refundReply[k] \in {"ok", "already"} =>
        GivenBack(refunding[k])
    /\ clerk[k] = "reversed" => GivenBack(refunding[k])

ReversedRecorded == \A s \in reversed : RecordedIn(s, sessions[s].order)

RefundedReturned == \A o \in Orders : InStatus(o, "refunded") => GivenBack(o)

RefundInv ==
    /\ MoneyInv
    /\ RefundTypes
    /\ \A k \in Clerks : ClerkTied(k)
    /\ ReversedRecorded
    /\ RefundedReturned

LEMMA RefundStart == RefundInit => RefundInv
  <1> SUFFICES ASSUME RefundInit
               PROVE  RefundInv
    OBVIOUS
  <1>1. MoneyInv /\ \A o \in Orders : payments[o] = None
    BY MoneyInit DEF RefundInit, Init, StoreInit
  <1> QED
    BY <1>1 DEF RefundInit, RefundInv, RefundTypes, ClerkTied, ReversedRecorded,
                RefundedReturned, InStatus

-----------------------------------------------------------------------------
(* Steps of the flow: what a clerk relies on stays.                          *)

\* What is recorded stays recorded.
BooksGrow ==
    /\ \A s \in Sessions : sessions[s].stage # "unused" =>
        sessions'[s].order = sessions[s].order /\ sessions'[s].stage # "unused"
    /\ Ledger \subseteq Ledger'

LEMMA FlowBooks ==
    ASSUME MoneyInv, FlowStep
    PROVE  /\ BooksGrow
           /\ \A o \in Orders : InStatus(o, "refunded")' => InStatus(o, "refunded")
  <1>1. \A s \in Sessions : sessions[s].stage # "unused" =>
           sessions'[s].order = sessions[s].order /\ sessions'[s].stage # "unused"
    BY FlowGrows DEF SessionsGrow
  <1>2. Ledger \subseteq Ledger' /\
        \A o \in Orders : Standings'[o] = "refunded" => Standings[o] = "refunded"
    <2>1. [F!Next]_(F!vars)
      BY FlowFulfils
    <2>2. CASE UNCHANGED F!vars
      BY <2>2 DEF F!vars, Standings, Ledger
    <2>3. ASSUME NEW o \in Orders, NEW from, NEW to \in {"open", "abandoned", "claimed", "fulfilled"},
                 F!Move(o, from, to)
          PROVE  Ledger' = Ledger /\
                 \A p \in Orders : Standings'[p] = "refunded" => Standings[p] = "refunded"
      <3>1. Ledger' = Ledger /\ Standings' = [Standings EXCEPT ![o] = to]
        BY <2>3 DEF F!Move, Standings, Ledger
      <3> QED
        BY <3>1 DEF Standings
    <2>4. ASSUME NEW o \in Orders, F!Charge(o) \/ F!Book(o)
          PROVE  Ledger \subseteq Ledger' /\ Standings' = Standings
      BY <2>4 DEF F!Charge, F!Book, Standings, Ledger
    <2>5. \A o \in Orders : ~F!Return(o) /\ ~F!Refund(o)
      BY DEF F!Return, F!Refund
    <2> QED
      BY <2>1, <2>2, <2>3, <2>4, <2>5
         DEF F!Next, F!Place, F!Abandon, F!Claim, F!Unclaim, F!Fulfil
  <1>3. ASSUME NEW o \in Orders
        PROVE  (InStatus(o, "refunded") <=> Standings[o] = "refunded")
    <2>1. payments[o] # None => payments[o].status \in Statuses
      BY DEF MoneyInv, IInv, TypeInv, TypeOK, StoreTypeOK, StoredPayment
    <2> QED
      BY <2>1 DEF Standings, Standing, InStatus, Statuses
  <1>4. TypeInv'
    BY FlowTypes DEF MoneyInv, IInv
  <1>5. ASSUME NEW o \in Orders
        PROVE  InStatus(o, "refunded")' <=> Standings'[o] = "refunded"
    <2>1. payments'[o] # None => payments'[o].status \in Statuses
      BY <1>4 DEF TypeInv, TypeOK, StoreTypeOK, StoredPayment
    <2> QED
      BY <2>1 DEF Standings, Standing, InStatus, Statuses
  <1> QED
    BY <1>1, <1>2, <1>3, <1>5 DEF BooksGrow

\* A session of a recorded order stays one.
LEMMA RecordedStays ==
    ASSUME BooksGrow, NEW s \in Sessions, NEW o, RecordedIn(s, o)
    PROVE  RecordedIn(s, o)'
  BY DEF BooksGrow, RecordedIn

\* Money given back stays given back.
LEMMA GivenBackStays ==
    ASSUME BooksGrow, ReversedRecorded, reversed \subseteq Sessions, reversed \subseteq reversed',
           NEW o, GivenBack(o)
    PROVE  GivenBack(o)'
  BY DEF BooksGrow, ReversedRecorded, RecordedIn, GivenBack

\* A clerk left alone keeps to its order.
LEMMA ClerkAlone ==
    ASSUME BooksGrow, ReversedRecorded, reversed \subseteq Sessions, reversed \subseteq reversed',
           NEW k \in Clerks, ClerkTied(k), refundWire[k] \in ReversalCall \cup {None},
           clerk'[k] = clerk[k], refunding'[k] = refunding[k],
           refundWire'[k] \in {None, refundWire[k]}, refundReply'[k] = refundReply[k]
    PROVE  ClerkTied(k)'
  <1>1. ASSUME refundWire[k] # None
        PROVE  \E o \in Orders : /\ RecordedIn(refundWire[k].session, o)
                                 /\ sessions'[refundWire[k].session].order = o
                                 /\ sessions'[refundWire[k].session].stage # "unused"
                                 /\ o \in Ledger'
                                 /\ clerk[k] = "called" => refunding[k] = o
    <2>1. refundWire[k].session \in Sessions
      BY <1>1 DEF ReversalCall
    <2> QED
      BY <1>1, <2>1 DEF ClerkTied, RecordedIn, BooksGrow
  <1>2. GivenBack(refunding[k]) => GivenBack(refunding[k])'
    BY DEF BooksGrow, ReversedRecorded, RecordedIn, GivenBack
  <1> QED
    BY <1>1, <1>2 DEF ClerkTied, RecordedIn, BooksGrow

\* While the flow moves, or only the process dies, what is given back stays
\* recorded, and nothing else becomes refunded.
LEMMA ReturnsAlone ==
    ASSUME RefundInv, SamanTellsApart, FlowStep, UNCHANGED reversed
    PROVE  /\ MoneyInv' /\ BooksGrow
           /\ ReversedRecorded' /\ RefundedReturned'
  <1>1. MoneyInv' /\ BooksGrow
        /\ \A o \in Orders : InStatus(o, "refunded")' => InStatus(o, "refunded")
    BY FlowMoney, FlowBooks DEF RefundInv
  <1>2. ReversedRecorded'
    <2> SUFFICES ASSUME NEW s \in reversed
                 PROVE  /\ sessions'[s].stage # "unused"
                        /\ sessions'[s].order \in Ledger'
      BY DEF ReversedRecorded, RecordedIn
    <2> QED
      BY <1>1 DEF RefundInv, RefundTypes, ReversedRecorded, RecordedIn, BooksGrow
  <1>3. RefundedReturned'
    BY <1>1, GivenBackStays DEF RefundInv, RefundTypes, RefundedReturned
  <1> QED
    BY <1>1, <1>2, <1>3

LEMMA RefundFlow ==
    ASSUME RefundInv, SamanTellsApart, FlowStep, UNCHANGED refundVars
    PROVE  RefundInv'
  <1>1. UNCHANGED <<clerk, refunding, refundWire, refundReply, reversed>>
    BY DEF refundVars, clerkVars
  <1>2. MoneyInv' /\ BooksGrow /\ ReversedRecorded' /\ RefundedReturned'
    BY <1>1, ReturnsAlone
  <1>3. \A k \in Clerks : ClerkTied(k)'
    BY <1>1, <1>2, ClerkAlone DEF RefundInv, RefundTypes
  <1>4. RefundTypes'
    BY <1>1 DEF RefundInv, RefundTypes
  <1> QED
    BY <1>2, <1>3, <1>4 DEF RefundInv

LEMMA RefundCrash ==
    ASSUME RefundInv, SamanTellsApart, CrashAll
    PROVE  RefundInv'
  <1>1. /\ FlowStep /\ UNCHANGED reversed
        /\ \A k \in Clerks : /\ clerk'[k] = "idle" /\ refundReply'[k] = None
                             /\ refundWire'[k] \in {None, refundWire[k]}
    BY DEF CrashAll, RefundsDie, FlowStep
  <1>2. MoneyInv' /\ BooksGrow /\ ReversedRecorded' /\ RefundedReturned'
    BY <1>1, ReturnsAlone
  <1>3. ASSUME NEW k \in Clerks
        PROVE  ClerkTied(k)'
    <2>1. ASSUME refundWire[k] # None
          PROVE  \E o \in Orders : /\ sessions'[refundWire[k].session].order = o
                                   /\ sessions'[refundWire[k].session].stage # "unused"
                                   /\ o \in Ledger'
      <3>1. refundWire[k].session \in Sessions
        BY <2>1 DEF RefundInv, RefundTypes, ReversalCall
      <3> QED
        BY <1>2, <2>1, <3>1 DEF RefundInv, ClerkTied, RecordedIn, BooksGrow
    <2> QED
      BY <1>1, <2>1 DEF ClerkTied, RecordedIn
  <1>4. RefundTypes'
    BY DEF CrashAll, RefundsDie, RefundInv, RefundTypes
  <1> QED
    BY <1>2, <1>3, <1>4 DEF RefundInv

-----------------------------------------------------------------------------
(* Steps of a clerk and of the bank, which leave the flow alone.             *)

LEMMA RefundNames ==
    ASSUME MoneyInv, gateway \in G!Refunders, NEW o \in Orders, NEW v \in GetTransaction(o),
           NEW call, call = G!RefundCall(gateway, PaymentOf(o), v), call.session # None
    PROVE  call \in ReversalCall /\ RecordedIn(call.session, o)
  <1>1. PICK i \in DOMAIN transactions : transactions[i] = v /\ v.order = o
    BY DEF GetTransaction
  <1>2. v.ref \in Sessions \cup {None} /\ o \in Ledger
    <2>1. transactions \in Seq(Transaction)
      BY DEF MoneyInv, IInv, TypeInv, TypeOK, StoreTypeOK
    <2>2. v \in Transaction
      BY <1>1, <2>1
    <2> QED
      BY <1>1, <2>2 DEF Ledger, Transaction
  <1>3. gateway # "pasargad" =>
           v.ref \in Sessions /\ sessions[v.ref].order = o /\ sessions[v.ref].stage # "unused"
    BY <1>1 DEF MoneyInv, LedgerPaid, PaidIn, G!Settles
  <1> DEFINE token == payments[o].token
  <1>4. token \in Sessions /\ sessions[token].order = o /\ sessions[token].stage # "unused"
    <2>1. checkout[o] = "redirected"
      BY <1>1 DEF MoneyInv, IInv, KnownLater, Known
    <2>2. payments[o] # None /\ token = res[o] /\ res[o] # None
      BY <2>1 DEF MoneyInv, RowsTied
    <2>3. token \in Sessions
      BY <2>2 DEF MoneyInv, IInv, TypeInv, TypeOK
    <2> QED
      BY <2>2, <2>3 DEF MoneyInv, IInv, TokensBelong, Opened
  <1>5. PaymentOf(o).token = token /\ PaymentOf(o).order = o
    BY DEF PaymentOf
  <1> HIDE DEF token
  <1>6. /\ call.session = token \/ (gateway # "pasargad" /\ call.session = v.ref)
        /\ call.order \in {None, o}
        /\ call = [session |-> call.session, order |-> call.order]
    BY <1>5 DEF G!RefundCall, G!Reversal, G!ZarinpalReversal, G!SamanReversal, G!ParsianReversal,
                G!MellatReversal, G!PasargadReversal, G!VirtualReversal, G!Refunders,
                G!GatewayNames
  <1> QED
    BY <1>2, <1>3, <1>4, <1>6 DEF ReversalCall, RecordedIn

LEMMA FlowAlone ==
    ASSUME RefundInv, SamanTellsApart, UNCHANGED vars
    PROVE  /\ MoneyInv' /\ BooksGrow
           /\ UNCHANGED <<payments, transactions, sessions, gateway>>
           /\ \A s, o : RecordedIn(s, o)' <=> RecordedIn(s, o)
  <1>1. UNCHANGED <<payments, transactions, sessions, gateway>>
    BY DEF vars, storeVars
  <1>2. MoneyInv'
    BY FlowMoney DEF FlowStep, RefundInv
  <1>3. BooksGrow
    BY FlowBooks DEF FlowStep, RefundInv
  <1> QED
    BY <1>1, <1>2, <1>3 DEF RecordedIn, Ledger, RefundInv

LEMMA ClerkSteps ==
    ASSUME RefundInv, SamanTellsApart, NEW k \in Clerks,
           (\E o \in Orders : BeginRefund(k, o)) \/ RefundReply(k) \/ RefundError(k)
    PROVE  RefundInv'
  <1>0. RefundTypes /\ ClerkTied(k)
    BY DEF RefundInv
  <1>1. UNCHANGED vars /\ UNCHANGED reversed
    BY DEF BeginRefund, RefundReply, RefundError
  <1>2. /\ MoneyInv' /\ BooksGrow
        /\ UNCHANGED <<payments, transactions, sessions>>
        /\ \A s, o : RecordedIn(s, o)' <=> RecordedIn(s, o)
    BY <1>1, FlowAlone
  <1>3. ReversedRecorded' /\ RefundedReturned'
    BY <1>1, <1>2 DEF RefundInv, ReversedRecorded, RefundedReturned, RecordedIn, GivenBack,
                      InStatus, Ledger
  <1>4. \A l \in Clerks \ {k} :
           /\ clerk'[l] = clerk[l] /\ refunding'[l] = refunding[l]
           /\ refundWire'[l] = refundWire[l] /\ refundReply'[l] = refundReply[l]
    BY <1>0 DEF BeginRefund, RefundReply, RefundError, EndRefund, RefundTypes
  <1>5. \A l \in Clerks \ {k} : ClerkTied(l)'
    BY <1>0, <1>1, <1>2, <1>4, ClerkAlone DEF RefundInv, RefundTypes
  <1>6. \A o : GivenBack(o)' <=> GivenBack(o)
    BY <1>1, <1>2 DEF GivenBack
  <1>7. Ledger' = Ledger
    BY <1>2 DEF Ledger
  <1>8. ASSUME EndRefund(k), UNCHANGED refundWire
        PROVE  RefundTypes' /\ ClerkTied(k)'
    <2>1. clerk'[k] = "idle" /\ refundReply'[k] = None /\ refundWire'[k] = refundWire[k]
      BY <1>0, <1>8 DEF EndRefund, RefundTypes
    <2>2. ClerkTied(k)'
      BY <1>0, <1>2, <2>1 DEF ClerkTied, RecordedIn
    <2> QED
      BY <1>0, <1>1, <1>8, <2>2 DEF RefundTypes, EndRefund
  <1>9. CASE RefundError(k)
    BY <1>5, <1>8, <1>9, <1>2, <1>3 DEF RefundError, RefundInv
  <1>10. CASE RefundReply(k)
    <2>1. CASE ~G!Refunded(gateway, refundReply[k])
      BY <1>5, <1>8, <1>10, <2>1, <1>2, <1>3 DEF RefundReply, RefundInv
    <2>2. CASE G!Refunded(gateway, refundReply[k])
      <3>1. /\ clerk[k] = "called" /\ refundReply[k] \in {"ok", "already"}
            /\ refundReply[k] # None
            /\ clerk' = [clerk EXCEPT ![k] = "reversed"]
            /\ UNCHANGED <<refunding, refundReply, refundWire>>
        BY <1>10, <2>2 DEF RefundReply, G!Refunded
      <3>2. ClerkTied(k)'
        BY <1>0, <1>2, <1>6, <1>7, <3>1 DEF ClerkTied, RefundTypes, RecordedIn
      <3> QED
        BY <1>0, <1>1, <1>2, <1>3, <1>5, <3>1, <3>2 DEF RefundInv, RefundTypes
    <2> QED
      BY <2>1, <2>2
  <1>11. ASSUME NEW o \in Orders, BeginRefund(k, o)
         PROVE  RefundInv'
    <2>1. PICK v \in GetTransaction(o) :
             LET call == G!RefundCall(gateway, PaymentOf(o), v)
             IN  /\ call.session # None
                 /\ refundWire' = [refundWire EXCEPT ![k] = call]
      BY <1>11 DEF BeginRefund
    <2>2. PICK call : call = G!RefundCall(gateway, PaymentOf(o), v)
      OBVIOUS
    <2>3. call.session # None /\ refundWire' = [refundWire EXCEPT ![k] = call]
      BY <2>1, <2>2
    <2>4. call \in ReversalCall /\ RecordedIn(call.session, o)
      BY <1>11, <2>2, <2>3, RefundNames DEF BeginRefund, RefundInv
    <2>5. /\ clerk[k] = "idle"
          /\ clerk' = [clerk EXCEPT ![k] = "called"]
          /\ refunding' = [refunding EXCEPT ![k] = o]
          /\ UNCHANGED refundReply
      BY <1>11 DEF BeginRefund
    <2>6. /\ clerk'[k] = "called" /\ refunding'[k] = o /\ refundReply'[k] = None
          /\ refundWire'[k] = call
      BY <1>0, <2>3, <2>5 DEF RefundTypes, ClerkTied
    <2>7. RecordedIn(call.session, o)'
      BY <1>2, <2>4 DEF RecordedIn, Ledger
    <2>8. o \in Ledger /\ Ledger' = Ledger
      BY <1>7, <2>4 DEF RecordedIn
    <2>9. ClerkTied(k)'
      BY <2>6, <2>7, <2>8 DEF ClerkTied
    <2>10. RefundTypes'
      BY <1>0, <1>1, <2>3, <2>4, <2>5 DEF RefundTypes
    <2> QED
      BY <1>2, <1>3, <1>5, <2>9, <2>10 DEF RefundInv
  <1> QED
    BY <1>9, <1>10, <1>11

LEMMA ReverserSteps ==
    ASSUME RefundInv, SamanTellsApart, NEW k \in Clerks, Reverser(k)
    PROVE  RefundInv'
  <1>0. RefundTypes /\ ClerkTied(k) /\ refundWire[k] # None
    BY DEF RefundInv, Reverser, BankReverses, BankRefusesReversal, ReversalLost
  <1>1. /\ UNCHANGED <<clerk, refunding>>
        /\ refundWire' = [refundWire EXCEPT ![k] = None]
        /\ UNCHANGED vars
    BY DEF Reverser, BankReverses, BankRefusesReversal, ReversalLost, clerkVars
  <1>2. /\ MoneyInv' /\ BooksGrow
        /\ UNCHANGED <<payments, transactions, sessions>>
        /\ \A s, o : RecordedIn(s, o)' <=> RecordedIn(s, o)
    BY <1>1, FlowAlone
  <1>3. ASSUME NEW code \in {"ok", "already", "rejected"}, ReversalReaches(k, code)
        PROVE  /\ refundReply' \in [Clerks -> {"ok", "already", "rejected", None}]
               /\ \A l \in Clerks \ {k} : refundReply'[l] = refundReply[l]
               /\ refundReply'[k] = IF clerk[k] = "called" THEN code ELSE refundReply[k]
    BY <1>0, <1>3 DEF ReversalReaches, RefundTypes
  <1>4. CASE BankReverses(k)
    <2>1. PICK s \in Reversible(refundWire[k]) :
             /\ reversed' = reversed \cup {s}
             /\ \E code \in ReversalCodes(s) : ReversalReaches(k, code)
      BY <1>4 DEF BankReverses
    <2>2. PICK code \in ReversalCodes(s) : ReversalReaches(k, code)
      BY <2>1
    <2>3. code \in {"ok", "already", "rejected"}
      BY DEF ReversalCodes
    <2>4. PICK o \in Orders : /\ RecordedIn(refundWire[k].session, o)
                              /\ clerk[k] = "called" => refunding[k] = o
      BY <1>0 DEF ClerkTied
    <2>5. s \in Sessions /\ RecordedIn(s, o)
      BY <2>4 DEF Reversible
    <2>6. \A p : GivenBack(p) => GivenBack(p)'
      BY <1>2, <2>1 DEF GivenBack
    <2>7. GivenBack(o)'
      BY <1>2, <2>1, <2>5 DEF GivenBack, RecordedIn
    <2>8. ReversedRecorded' /\ RefundedReturned'
      <3>1. ReversedRecorded'
        BY <1>2, <2>1, <2>5 DEF RefundInv, ReversedRecorded, RecordedIn, Ledger
      <3>2. RefundedReturned'
        BY <1>2, <2>6 DEF RefundInv, RefundedReturned, InStatus
      <3> QED
        BY <3>1, <3>2
    <2>9. RefundTypes'
      BY <1>0, <1>1, <1>3, <2>1, <2>2, <2>3, <2>5 DEF RefundTypes
    <2>10. ClerkTied(k)'
      <3>1. /\ clerk'[k] = clerk[k] /\ refunding'[k] = refunding[k] /\ refundWire'[k] = None
            /\ refundReply'[k] = IF clerk[k] = "called" THEN code ELSE refundReply[k]
        BY <1>0, <1>1, <1>3, <2>2, <2>3 DEF RefundTypes
      <3>2. Ledger' = Ledger
        BY <1>2 DEF Ledger
      <3>3. clerk[k] = "called" => GivenBack(refunding[k])'
        BY <1>1, <2>4, <2>7 DEF GivenBack
      <3>4. clerk[k] = "reversed" => GivenBack(refunding[k])'
        BY <1>0, <1>1, <1>2, <2>1 DEF ClerkTied, GivenBack
      <3> QED
        BY <1>0, <3>1, <3>2, <3>3, <3>4 DEF ClerkTied
    <2>11. \A l \in Clerks \ {k} : ClerkTied(l)'
      <3>1. \A l \in Clerks \ {k} :
               /\ clerk'[l] = clerk[l] /\ refunding'[l] = refunding[l]
               /\ refundWire'[l] = refundWire[l] /\ refundReply'[l] = refundReply[l]
        BY <1>0, <1>1, <1>3, <2>2, <2>3 DEF RefundTypes
      <3>2. reversed \subseteq reversed'
        BY <2>1
      <3> QED
        BY <1>2, <3>1, <3>2, ClerkAlone DEF RefundInv, RefundTypes
    <2> QED
      BY <1>2, <2>8, <2>9, <2>10, <2>11 DEF RefundInv
  <1>5. CASE BankRefusesReversal(k) \/ ReversalLost(k)
    <2>1. UNCHANGED reversed /\ (refundReply' = refundReply \/ ReversalReaches(k, "rejected"))
      BY <1>5 DEF BankRefusesReversal, ReversalLost, clerkVars
    <2>2. /\ refundReply' \in [Clerks -> {"ok", "already", "rejected", None}]
          /\ \A l \in Clerks \ {k} : refundReply'[l] = refundReply[l]
          /\ \/ refundReply'[k] = refundReply[k]
             \/ refundReply'[k] = "rejected" /\ clerk[k] = "called"
      BY <1>0, <1>3, <2>1 DEF RefundTypes
    <2>3. ReversedRecorded' /\ RefundedReturned'
      BY <1>2, <2>1 DEF RefundInv, ReversedRecorded, RefundedReturned, RecordedIn, GivenBack,
                        InStatus, Ledger
    <2>4. RefundTypes'
      BY <1>0, <1>1, <2>1, <2>2 DEF RefundTypes
    <2>5. /\ clerk'[k] = clerk[k] /\ refunding'[k] = refunding[k] /\ refundWire'[k] = None
          /\ \A l \in Clerks \ {k} :
               /\ clerk'[l] = clerk[l] /\ refunding'[l] = refunding[l]
               /\ refundWire'[l] = refundWire[l]
      BY <1>0, <1>1 DEF RefundTypes
    <2>6. \A l \in Clerks \ {k} : ClerkTied(l)'
      BY <1>2, <2>1, <2>2, <2>5, ClerkAlone DEF RefundInv, RefundTypes
    <2>7. ClerkTied(k)'
      <3>1. GivenBack(refunding[k])' <=> GivenBack(refunding[k])
        BY <1>1, <1>2, <2>1 DEF GivenBack
      <3>2. Ledger' = Ledger
        BY <1>2 DEF Ledger
      <3> QED
        BY <1>0, <2>2, <2>5, <3>1, <3>2 DEF ClerkTied
    <2> QED
      BY <1>2, <2>3, <2>4, <2>6, <2>7 DEF RefundInv
  <1> QED
    BY <1>4, <1>5 DEF Reverser

LEMMA RefundMark ==
    ASSUME MoneyInv, NEW o \in Ledger, SetStatus(o, "refunded"),
           UNCHANGED <<transactions, gateway, forgotten, shopVars, sessions, handlerVars, wire>>
    PROVE  MoneyInv'
  <1>0. IInv /\ TypeInv
    BY DEF MoneyInv, IInv
  <1>1. UNCHANGED <<checkout, res, pc, cb, rec, reply, gone>>
    BY DEF shopVars, handlerVars
  <1>2. o \in Orders
    BY <1>0 DEF Ledger, IInv, KnownLater, Known
  <1>3. /\ payments[o] # None /\ payments'[o] # None
        /\ payments'[o].status = "refunded" /\ payments'[o].token = payments[o].token
        /\ \A p \in Orders \ {o} : payments'[p] = payments[p]
    BY <1>0, <1>2, RowMoved DEF TypeInv, TypeOK, StoreTypeOK, Statuses
  <1>4. SessionsGrow /\ TokensStay
    BY <1>1 DEF SessionsGrow, TokensStay, Verified, MoneyInv, PagesTied
  <1>5. RowsTied' /\ PagesTied'
    BY <1>1, <1>3 DEF MoneyInv, RowsTied, PagesTied
  <1>6. \A h \in Handlers : HandlerTied(h)'
    BY <1>0, <1>1, <1>4, HandlerAlone DEF MoneyInv
  <1>7. LedgerPaid'
    BY <1>4, LedgerAlone
  <1>8. RowsPaid'
    <2>1. PICK i \in DOMAIN transactions : transactions[i].order = o
      BY DEF Ledger
    <2>2. PICK s \in Sessions : PaidIn(s, o)
      BY <2>1 DEF MoneyInv, LedgerPaid
    <2>3. ASSUME NEW p \in Orders, InStatus(p, "succeeded")' \/ InStatus(p, "refunded")'
          PROVE  /\ \E t \in Sessions : PaidIn(t, p)'
                 /\ InStatus(p, "refunded")' => \E j \in DOMAIN transactions : transactions[j].order = p
      <3>1. CASE p = o
        BY <1>4, <2>1, <2>2, <3>1, PaidStays
      <3>2. CASE p # o
        <4>1. InStatus(p, "succeeded") \/ InStatus(p, "refunded")
          BY <1>3, <2>3, <3>2 DEF InStatus
        <4>2. PICK t \in Sessions : PaidIn(t, p)
          BY <4>1 DEF MoneyInv, RowsPaid
        <4>3. InStatus(p, "refunded")' => InStatus(p, "refunded")
          BY <1>3, <3>2 DEF InStatus
        <4> QED
          BY <1>4, <4>2, <4>3, PaidStays DEF MoneyInv, RowsPaid
      <3> QED
        BY <3>1, <3>2
    <2> QED
      BY <2>3 DEF RowsPaid
  <1>9. IInv'
    BY <1>0, MarkClaims
  <1> QED
    BY <1>5, <1>6, <1>7, <1>8, <1>9 DEF MoneyInv

\* Marking leaves what is recorded, and only the clerk's order becomes refunded.
LEMMA MarkChanges ==
    ASSUME RefundInv, SamanTellsApart, NEW k \in Clerks, MarkRefunded(k)
    PROVE  /\ refunding[k] \in Ledger /\ GivenBack(refunding[k])
           /\ MoneyInv' /\ BooksGrow
           /\ UNCHANGED <<transactions, sessions, reversed>>
           /\ \/ UNCHANGED vars
              \/ SetStatus(refunding[k], "refunded")
  <1>1. /\ clerk[k] = "reversed"
        /\ UNCHANGED <<transactions, gateway, forgotten, shopVars, sessions, handlerVars, wire>>
        /\ UNCHANGED reversed
        /\ SetStatus(refunding[k], "refunded") \/ UNCHANGED payments
    BY DEF MarkRefunded
  <1>2. refunding[k] \in Ledger /\ GivenBack(refunding[k])
    BY <1>1 DEF RefundInv, ClerkTied
  <1>3. UNCHANGED payments => UNCHANGED vars
    BY <1>1 DEF vars, storeVars
  <1>4. MoneyInv'
    BY <1>1, <1>2, <1>3, RefundMark, FlowAlone DEF RefundInv
  <1>5. BooksGrow
    BY <1>1 DEF BooksGrow, Ledger
  <1> QED
    BY <1>1, <1>2, <1>3, <1>4, <1>5

LEMMA MarkStep ==
    ASSUME RefundInv, SamanTellsApart, NEW k \in Clerks, MarkRefunded(k)
    PROVE  RefundInv'
  <1>0. RefundTypes /\ ClerkTied(k)
    BY DEF RefundInv
  <1>1. PICK o : o = refunding[k]
    OBVIOUS
  <1>2. /\ o \in Orders /\ GivenBack(o)
        /\ MoneyInv' /\ BooksGrow
        /\ UNCHANGED <<transactions, sessions, reversed>>
        /\ UNCHANGED vars \/ SetStatus(o, "refunded")
    BY <1>1, MarkChanges DEF Ledger, RefundInv, MoneyInv, IInv, KnownLater, Known
  <1>3. EndRefund(k) /\ UNCHANGED refundWire
    BY DEF MarkRefunded
  <1>4. /\ \A p : GivenBack(p)' <=> GivenBack(p)
        /\ \A s, p : RecordedIn(s, p)' <=> RecordedIn(s, p)
    BY <1>2 DEF GivenBack, RecordedIn, Ledger
  <1>5. ReversedRecorded'
    BY <1>2, <1>4 DEF RefundInv, ReversedRecorded
  <1>6. RefundedReturned'
    <2>1. ASSUME NEW p \in Orders, p # o, InStatus(p, "refunded")'
          PROVE  InStatus(p, "refunded")
      <3>1. payments'[p] = payments[p]
        BY <1>2, <2>1, RowMoved
           DEF RefundInv, MoneyInv, IInv, TypeInv, TypeOK, StoreTypeOK, vars, storeVars, Statuses
      <3> QED
        BY <2>1, <3>1 DEF InStatus
    <2> QED
      BY <1>2, <1>4, <2>1 DEF RefundInv, RefundedReturned
  <1>7. RefundTypes'
    BY <1>0, <1>2, <1>3 DEF RefundTypes, EndRefund
  <1>8. \A l \in Clerks \ {k} :
           /\ clerk'[l] = clerk[l] /\ refunding'[l] = refunding[l]
           /\ refundWire'[l] = refundWire[l] /\ refundReply'[l] = refundReply[l]
    BY <1>0, <1>3 DEF RefundTypes, EndRefund
  <1>9. \A l \in Clerks \ {k} : ClerkTied(l)'
    BY <1>2, <1>8, ClerkAlone DEF RefundInv, RefundTypes
  <1>10. ClerkTied(k)'
    <2>1. clerk'[k] = "idle" /\ refundReply'[k] = None /\ refundWire'[k] = refundWire[k]
      BY <1>0, <1>3 DEF EndRefund, RefundTypes
    <2> QED
      BY <1>0, <1>4, <2>1 DEF ClerkTied
  <1> QED
    BY <1>2, <1>5, <1>6, <1>7, <1>9, <1>10 DEF RefundInv

-----------------------------------------------------------------------------
LEMMA RefundStep ==
    ASSUME RefundInv, SamanTellsApart, [RefundNext]_allVars
    PROVE  RefundInv'
  <1>1. CASE UNCHANGED allVars
    BY <1>1, RefundFlow DEF allVars, FlowStep
  <1>2. CASE Running /\ UNCHANGED refundVars
    BY <1>2, RefundFlow DEF FlowStep
  <1>3. CASE CrashAll
    BY <1>3, RefundCrash
  <1>4. ASSUME NEW k \in Clerks, (\E o \in Orders : BeginRefund(k, o)) \/ Clerk(k) \/ Reverser(k)
        PROVE  RefundInv'
    BY <1>4, ClerkSteps, ReverserSteps, MarkStep DEF Clerk
  <1> QED
    BY <1>1, <1>2, <1>3, <1>4 DEF RefundNext

LEMMA RefundHolds == ASSUME SamanTellsApart PROVE RefundSpec => []RefundInv
  <1>1. RefundInv /\ [RefundNext]_allVars => RefundInv'
    BY RefundStep
  <1> QED
    BY <1>1, RefundStart, PTL DEF RefundSpec

-----------------------------------------------------------------------------
(* The theorems. *)

\* With refunds under way, too, every variable keeps its type.
THEOREM RefundTypesHold == RefundSpec => []RefundTypeOK
  <1>1. RefundClaims => RefundTypeOK
    BY DEF RefundClaims, RefundTypes, RefundTypeOK, IInv, TypeInv
  <1> QED
    BY <1>1, RefundClaimsHold, PTL

\* A refund of an order never frees or takes over the claim of one.
THEOREM RefundKeepsClaims == RefundSpec => []ClaimExclusive
  <1>1. RefundClaims => ClaimExclusive
    BY DEF RefundClaims, IInv, OneEngaged, ClaimExclusive, Engaged, Holding
  <1> QED
    BY <1>1, RefundClaimsHold, PTL

\* No refunded order is fulfilled a second time.
THEOREM RefundedNotFulfilledTwice == RefundSpec => []FulfilledOnce
  <1>1. RefundClaims => FulfilledOnce
    BY DEF RefundClaims, IInv
  <1> QED
    BY <1>1, RefundClaimsHold, PTL

\* No order a customer was charged for is given up, refunds or not.
THEOREM RefundsFailNobody == RefundSpec => []FailedNeverPaid
  <1>1. RefundClaims => FailedNeverPaid
    BY DEF RefundClaims, IInv, FailedNeverPaid, KnownLater, StatusPlace, Known, Charged,
           InStatus
  <1> QED
    BY <1>1, RefundClaimsHold, PTL

\* A succeeded order was paid for, whatever was refunded before or is meanwhile.
THEOREM RefundsGiveNothingAway == ASSUME SamanTellsApart PROVE RefundSpec => []SucceededIsPaid
  <1>1. RefundInv => SucceededIsPaid
    BY MoneyProperties DEF RefundInv
  <1> QED
    BY <1>1, RefundHolds, PTL

\* Every transaction a refund may start from names its own order's payment.
THEOREM RefundsBacked == ASSUME SamanTellsApart PROVE RefundSpec => []TransactionBacked
  <1>1. RefundInv => TransactionBacked
    BY MoneyProperties DEF RefundInv
  <1> QED
    BY <1>1, RefundHolds, PTL

\* Failed and refunded rows never change again, and a succeeded one only becomes
\* refunded, its token kept.
THEOREM FinalRowHolds == RefundSpec => FinalRow
  <1>1. RefundClaims /\ [RefundNext]_allVars =>
          \A o \in Orders :
            /\ InStatus(o, "failed") \/ InStatus(o, "refunded") => payments'[o] = payments[o]
            /\ InStatus(o, "succeeded") =>
                payments'[o] \in {payments[o], [payments[o] EXCEPT !.status = "refunded"]}
    <2> SUFFICES ASSUME RefundClaims, [RefundNext]_allVars, NEW o \in Orders,
                        payments'[o] # payments[o]
                 PROVE  /\ ~InStatus(o, "failed") /\ ~InStatus(o, "refunded")
                        /\ InStatus(o, "succeeded") =>
                            payments'[o] = [payments[o] EXCEPT !.status = "refunded"]
      OBVIOUS
    <2>0. IInv
      BY DEF RefundClaims
    <2>1. CASE FlowStep
      <3>1. CASE checkout[o] \notin {"redirected", "over"}
        BY <2>0, <3>1 DEF IInv, StatusPlace, Done
      <3>2. CASE \E h \in Handlers : rec[h].order = o /\ (Claims(h) \/ Releases(h))
        BY <3>2 DEF Claims, Releases, RowStep, TransitionStatus, InStatus
      <3> QED
        BY <2>0, <2>1, <3>1, <3>2, RowChanges
    <2>2. ASSUME NEW k \in Clerks, MarkRefunded(k)
          PROVE  /\ ~InStatus(o, "failed") /\ ~InStatus(o, "refunded")
                 /\ payments'[o] = [payments[o] EXCEPT !.status = "refunded"]
      <3>1. refunding[k] \in Ledger /\ SetStatus(refunding[k], "refunded")
        BY <2>2 DEF MarkRefunded, RefundClaims, ClerksRecorded
      <3>2. /\ payments \in [Orders -> StoredPayment \cup {None}]
            /\ payments[o] # None => payments[o] \in StoredPayment
        BY <2>0 DEF IInv, TypeInv, TypeOK, StoreTypeOK
      <3>3. /\ refunding[k] = o /\ payments[o] # None
            /\ payments'[o] = [payments[o] EXCEPT !.status = "refunded"]
        BY <3>1, <3>2 DEF SetStatus
      <3>4. ~InStatus(o, "failed")
        BY <2>0, <3>1, <3>3 DEF IInv, OneEngaged, Done, InStatus, Ledger
      <3>5. ~InStatus(o, "refunded")
        BY <3>2, <3>3 DEF InStatus, StoredPayment
      <3> QED
        BY <3>3, <3>4, <3>5
    <2>3. ASSUME NEW k \in Clerks,
                 \/ (\E p \in Orders : BeginRefund(k, p)) \/ RefundReply(k) \/ RefundError(k)
                 \/ Reverser(k)
          PROVE  UNCHANGED vars
      BY <2>3 DEF BeginRefund, RefundReply, RefundError, Reverser, BankReverses,
                  BankRefusesReversal, ReversalLost
    <2> QED
      BY <2>1, <2>2, <2>3 DEF RefundNext, Clerk, CrashAll, FlowStep, allVars
  <1> QED
    BY <1>1, RefundClaimsHold, PTL DEF RefundSpec, FinalRow

-----------------------------------------------------------------------------
(* The flow with refunds implements Fulfilment.                              *)

Returned == {sessions[s].order : s \in reversed}

LEMMA PromiseInit == RefundInit => RF!Init
  <1> SUFFICES ASSUME RefundInit
               PROVE  RF!Init
    OBVIOUS
  <1>1. F!Init /\ Returned = {}
    BY FulfilmentInit DEF RefundInit, Returned
  <1> QED
    BY <1>1 DEF F!Init, RF!Init, Returned

\* A step of the flow gives nothing back.
LEMMA FlowPromises ==
    ASSUME RefundInv, FlowStep, UNCHANGED reversed
    PROVE  [RF!Next]_(RF!vars)
  <1>1. Returned' = Returned
    <2>1. BooksGrow
      BY FlowBooks DEF RefundInv
    <2> QED
      BY <2>1 DEF RefundInv, RefundTypes, ReversedRecorded, RecordedIn, BooksGrow, Returned
  <1>2. [F!Next]_(F!vars)
    BY FlowFulfils DEF RefundInv
  <1>3. CASE UNCHANGED F!vars
    BY <1>1, <1>3 DEF F!vars, RF!vars, Returned
  <1>4. ASSUME NEW o, NEW from, NEW to, F!Move(o, from, to)
        PROVE  RF!Move(o, from, to)
    BY <1>1, <1>4 DEF F!Move, RF!Move, Returned
  <1>5. ASSUME NEW o \in Orders,
               \/ F!Place(o) \/ F!Abandon(o) \/ F!Claim(o) \/ F!Unclaim(o) \/ F!Fulfil(o)
        PROVE  RF!Next
    BY <1>4, <1>5 DEF F!Place, F!Abandon, F!Claim, F!Unclaim, F!Fulfil,
                      RF!Place, RF!Abandon, RF!Claim, RF!Unclaim, RF!Fulfil, RF!Next
  <1>6. ASSUME NEW o \in Orders, F!Charge(o) \/ F!Book(o)
        PROVE  RF!Next
    BY <1>1, <1>6 DEF F!Charge, F!Book, RF!Charge, RF!Book, RF!Next, Returned
  <1>7. \A o \in Orders : ~F!Return(o) /\ ~F!Refund(o)
    BY DEF F!Return, F!Refund
  <1> QED
    BY <1>2, <1>3, <1>5, <1>6, <1>7 DEF F!Next

\* The bank gives money back of a recorded order, or repeats itself.
LEMMA BankPromises ==
    ASSUME RefundInv, SamanTellsApart, NEW k \in Clerks, BankReverses(k)
    PROVE  [RF!Next]_(RF!vars)
  <1>1. UNCHANGED vars
    BY DEF BankReverses
  <1>2. UNCHANGED <<payments, transactions, sessions>>
    BY <1>1, FlowAlone
  <1>3. PICK s \in Reversible(refundWire[k]) : reversed' = reversed \cup {s}
    BY DEF BankReverses
  <1>4. PICK o \in Orders : RecordedIn(refundWire[k].session, o)
    BY DEF RefundInv, ClerkTied, BankReverses
  <1>5. sessions[s].order = o /\ o \in Ledger
    BY <1>4 DEF Reversible, RecordedIn
  <1>6. /\ Standings' = Standings /\ Paying' = Paying /\ Ledger' = Ledger
        /\ Returned' = Returned \cup {o}
    BY <1>2, <1>3, <1>5, StandingsAlone DEF Paying, Ledger, Returned, Charged
  <1>7. CASE o \in Returned
    BY <1>6, <1>7 DEF RF!vars, Standings, Paying, Ledger, Returned
  <1>8. CASE o \notin Returned
    <2>1. RF!Return(o)
      BY <1>5, <1>6, <1>8 DEF RF!Return, Standings, Paying, Ledger, Returned
    <2> QED
      BY <2>1 DEF RF!Next
  <1> QED
    BY <1>7, <1>8

\* A clerk marks what was given back.
LEMMA MarkPromises ==
    ASSUME RefundInv, SamanTellsApart, NEW k \in Clerks, MarkRefunded(k)
    PROVE  [RF!Next]_(RF!vars)
  <1>0. IInv /\ TypeInv
    BY DEF RefundInv, MoneyInv, IInv
  <1>1. PICK o : o = refunding[k]
    OBVIOUS
  <1>2. /\ o \in Orders /\ o \in Ledger /\ GivenBack(o)
        /\ UNCHANGED <<transactions, sessions, reversed>>
        /\ UNCHANGED vars \/ SetStatus(o, "refunded")
    BY <1>0, <1>1, MarkChanges DEF Ledger, IInv, KnownLater, Known
  <1>3. Paying' = Paying /\ Ledger' = Ledger /\ Returned' = Returned /\ o \in Returned
    BY <1>2 DEF Paying, Ledger, Returned, Charged, GivenBack
  <1>4. CASE UNCHANGED vars
    <2>1. Standings' = Standings
      BY <1>4, StandingsAlone DEF vars, storeVars
    <2> QED
      BY <1>3, <2>1 DEF RF!vars, Standings, Paying, Ledger, Returned
  <1>5. CASE SetStatus(o, "refunded")
    <2>1. /\ payments[o] # None /\ payments'[o] # None /\ payments'[o].status = "refunded"
          /\ \A p \in Orders \ {o} : payments'[p] = payments[p]
      BY <1>0, <1>2, <1>5, RowMoved DEF TypeInv, TypeOK, StoreTypeOK, Statuses
    <2>2. Done(o)
      BY <1>0, <1>2 DEF Ledger, IInv, OneEngaged
    <2>3. /\ Standing(o) \in {"claimed", "fulfilled", "refunded"}
          /\ Standing(o)' = "refunded"
      BY <2>1, <2>2 DEF Standing, Done, InStatus
    <2>4. Standings[o] = Standing(o) /\ Standings' = [Standings EXCEPT ![o] = "refunded"]
      BY <1>2, <2>1, <2>3, StandingMoves
    <2>5. CASE Standing(o) = "refunded"
      <3>1. Standings' = Standings
        BY <2>4, <2>5 DEF Standings
      <3> QED
        BY <1>3, <3>1 DEF RF!vars, Standings, Paying, Ledger, Returned
    <2>6. CASE Standing(o) # "refunded"
      <3>1. RF!Move(o, Standing(o), "refunded")
        BY <1>3, <2>4 DEF RF!Move, Standings, Paying, Ledger, Returned
      <3>2. RF!Refund(o)
        BY <1>3, <2>3, <2>6, <3>1 DEF RF!Refund, Returned
      <3> QED
        BY <1>2, <3>2 DEF RF!Next
    <2> QED
      BY <2>5, <2>6
  <1> QED
    BY <1>2, <1>4, <1>5

\* With refunds, too, the flow implements Fulfilment: only recorded payments are
\* given back, each once, and only what was given back stands refunded.
THEOREM RefundsImplementFulfilment == ASSUME SamanTellsApart PROVE RefundSpec => PromiseKept
  <1>1. ASSUME RefundInv, [RefundNext]_allVars
        PROVE  [RF!Next]_(RF!vars)
    <2>1. CASE FlowStep /\ UNCHANGED reversed
      BY <1>1, <2>1, FlowPromises
    <2>2. ASSUME NEW k \in Clerks, BankReverses(k) \/ MarkRefunded(k)
          PROVE  [RF!Next]_(RF!vars)
      BY <1>1, <2>2, BankPromises, MarkPromises
    <2>3. ASSUME NEW k \in Clerks, ~BankReverses(k), ~MarkRefunded(k),
                 (\E o \in Orders : BeginRefund(k, o)) \/ Clerk(k) \/ Reverser(k)
          PROVE  FlowStep /\ UNCHANGED reversed
      BY <2>3 DEF BeginRefund, Clerk, RefundReply, RefundError, Reverser, BankRefusesReversal,
                  ReversalLost, FlowStep
    <2>4. (FlowStep /\ UNCHANGED reversed) \/ \E k \in Clerks : BankReverses(k) \/ MarkRefunded(k)
      BY <1>1, <2>3
         DEF RefundNext, CrashAll, RefundsDie, FlowStep, refundVars, allVars
    <2> QED
      BY <2>1, <2>2, <2>4
  <1>2. RefundInv /\ [RefundNext]_allVars => [RF!Next]_(RF!vars)
    BY <1>1
  <1> QED
    BY <1>2, PromiseInit, RefundHolds, PTL DEF RefundSpec, PromiseKept, RF!Spec

-----------------------------------------------------------------------------
(* While only calls to the bank fail, refunds leave no payment behind.       *)

RefundCalm == RefundClaims /\ CalmInv

\* A refund changes no request, and no row but into a refunded one.
OnlyRefunds ==
    /\ UNCHANGED <<transactions, handlerVars>>
    /\ \A o \in Orders : payments'[o] = payments[o] \/ InStatus(o, "refunded")'

LEMMA RefundsApart ==
    ASSUME RefundClaims, OnlyCallsFail, [RefundNext]_allVars
    PROVE  CalmStep \/ OnlyRefunds
  <1>1. CASE Running \/ UNCHANGED vars
    BY <1>1 DEF CalmStep
  <1>2. ~CrashAll
    BY DEF CrashAll, OnlyCallsFail
  <1>3. ASSUME NEW k \in Clerks, MarkRefunded(k)
        PROVE  CalmStep \/ OnlyRefunds
    <2>1. /\ UNCHANGED <<transactions, gateway, forgotten, shopVars, sessions, handlerVars, wire>>
          /\ refunding[k] \in Ledger
          /\ SetStatus(refunding[k], "refunded") \/ UNCHANGED payments
      BY <1>3 DEF MarkRefunded, RefundClaims, ClerksRecorded
    <2>2. CASE UNCHANGED payments
      BY <2>1, <2>2 DEF CalmStep, vars, storeVars
    <2>3. CASE SetStatus(refunding[k], "refunded")
      <3>1. PICK o : o = refunding[k]
        OBVIOUS
      <3>2. o \in Orders
        BY <2>1, <3>1 DEF RefundClaims, IInv, KnownLater, Known, Ledger
      <3>3. /\ payments'[o] # None /\ payments'[o].status = "refunded"
            /\ \A p \in Orders \ {o} : payments'[p] = payments[p]
        BY <2>3, <3>1, <3>2, RowMoved
           DEF RefundClaims, IInv, TypeInv, TypeOK, StoreTypeOK, Statuses
      <3> QED
        BY <2>1, <3>3 DEF OnlyRefunds, InStatus
    <2> QED
      BY <2>1, <2>2, <2>3
  <1>4. ASSUME NEW k \in Clerks,
               \/ (\E o \in Orders : BeginRefund(k, o)) \/ RefundReply(k) \/ RefundError(k)
               \/ Reverser(k)
        PROVE  UNCHANGED vars
    BY <1>4 DEF BeginRefund, RefundReply, RefundError, Reverser, BankReverses,
                BankRefusesReversal, ReversalLost
  <1> QED
    BY <1>1, <1>2, <1>3, <1>4 DEF RefundNext, Clerk, allVars

LEMMA RefundCalmStays ==
    ASSUME RefundCalm, OnlyCallsFail, [RefundNext]_allVars
    PROVE  RefundCalm'
  <1>1. RefundClaims'
    BY ClaimsStay DEF RefundCalm
  <1>2. CASE CalmStep
    BY <1>1, <1>2, CalmStays DEF RefundCalm
  <1>3. CASE OnlyRefunds
    <2>1. UNCHANGED <<transactions, pc, rec, gone>>
      BY <1>3 DEF OnlyRefunds, handlerVars
    <2>2. \A o \in Orders, status \in {"processing", "succeeded"} :
             InStatus(o, status)' => InStatus(o, status)
      BY <1>3 DEF OnlyRefunds, InStatus
    <2>3. Undisturbed
      BY <2>1, <2>2 DEF Undisturbed, RefundCalm, CalmInv
    <2> QED
      BY <1>1, <2>3, UndisturbedCalm DEF RefundCalm, RefundClaims
  <1> QED
    BY <1>2, <1>3, RefundsApart DEF RefundCalm

LEMMA RefundCalmHolds == ASSUME OnlyCallsFail PROVE RefundSpec => []RefundCalm
  <1>1. RefundInit => RefundCalm
    BY RefundClaimsInit, CalmInit DEF RefundInit, RefundCalm
  <1>2. RefundCalm /\ [RefundNext]_allVars => RefundCalm'
    BY RefundCalmStays
  <1> QED
    BY <1>1, <1>2, PTL DEF RefundSpec

\* With refunds, too, no payment is left processing without a request that will
\* release it.
THEOREM RefundsOrphanNobody == ASSUME OnlyCallsFail PROVE RefundSpec => []NoOrphan
  <1>1. RefundCalm => NoOrphan
    BY DEF RefundCalm, CalmInv
  <1> QED
    BY <1>1, RefundCalmHolds, PTL

\* Nor does an order stand succeeded, ready to be refunded, without the
\* transaction a refund starts from.
THEOREM RefundsFindRecords == ASSUME OnlyCallsFail PROVE RefundSpec => []SucceededRecorded
  <1>1. RefundCalm => SucceededRecorded
    BY DEF RefundCalm, CalmInv
  <1> QED
    BY <1>1, RefundCalmHolds, PTL

\* A failed verify still puts its payment back to pending: no refund comes
\* between.
THEOREM RefundsLeaveReleases == ASSUME OnlyCallsFail PROVE RefundSpec => FailedVerifyReleases
  <1>1. RefundCalm /\ [RefundNext]_allVars =>
          \A h \in Handlers : pc[h] = "failing" /\ pc'[h] = "idle"
            => payments'[rec[h].order].status = "pending"
    <2> SUFFICES ASSUME RefundCalm, [RefundNext]_allVars, NEW h \in Handlers,
                        pc[h] = "failing", pc'[h] = "idle"
                 PROVE  payments'[rec[h].order].status = "pending"
      OBVIOUS
    <2>1. CASE CalmStep
      BY <2>1, FailingReleases DEF RefundCalm
    <2>2. ~OnlyRefunds
      BY DEF OnlyRefunds, handlerVars
    <2> QED
      BY <2>1, <2>2, RefundsApart DEF RefundCalm
  <1>2. RefundCalm /\ [RefundNext]_allVars =>
          [\A h \in Handlers : pc[h] = "failing" /\ pc'[h] = "idle"
            => payments'[rec[h].order].status = "pending"]_vars
    BY <1>1
  <1> QED
    BY <1>2, RefundCalmHolds, PTL DEF RefundSpec, FailedVerifyReleases

=============================================================================
