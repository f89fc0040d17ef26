---------------------------- MODULE WebshopProofs ----------------------------
(***************************************************************************)
(* Theorems about Webshop, for every set of orders, sessions, slots,       *)
(* gateways, stray callbacks and faults.                                   *)
(***************************************************************************)
EXTENDS Webshop, TLAPS

-----------------------------------------------------------------------------
(* The type invariant, strengthened: a running request has its callback and *)
(* its payment, one that was accepted has the bank's reply, and a session   *)
(* the bank opened belongs to an order.                                     *)

LocalsSet ==
    \A h \in Handlers :
        /\ pc[h] # "idle" => cb[h] \in Callback /\ rec[h] \in Payment
        /\ pc[h] \in {"accepted", "recording"} => reply[h] \in Reply

SessionsOpened ==
    \A s \in Sessions : sessions[s].stage # "unused" => sessions[s].order \in Orders

\* A request waiting for the bank, or past it, passed every check.
ChecksPassed ==
    \A h \in Handlers :
        pc[h] \in {"verifying", "settling", "accepted", "recording"} =>
            G!Checks(gateway, rec[h], cb[h]) = "send"

TypeInv == TypeOK /\ LocalsSet /\ ChecksPassed /\ SessionsOpened

\* What a statement on a row leaves is a row.
LEMMA RowTypes ==
    ASSUME payments \in [Orders -> StoredPayment \cup {None}], NEW o \in Orders,
           NEW to \in Statuses,
           \/ SetStatus(o, to)
           \/ \E from \in Statuses : TransitionStatus(o, from, to)
    PROVE  payments' \in [Orders -> StoredPayment \cup {None}]
  <1>1. payments[o] # None /\ payments' = [payments EXCEPT ![o].status = to]
    BY DEF SetStatus, TransitionStatus, InStatus
  <1>2. payments[o] \in StoredPayment
    BY <1>1
  <1>3. [payments[o] EXCEPT !.status = to] \in StoredPayment
    BY <1>2 DEF StoredPayment
  <1> QED
    BY <1>1, <1>3

\* Nor does moving a session to another stage change its order.
LEMMA StageTypes ==
    ASSUME sessions \in [Sessions -> [order : Orders \cup {None}, stage : Stages]],
           SessionsOpened,
           NEW s \in Sessions, NEW stage \in Stages, sessions[s].stage # "unused",
           sessions' = [sessions EXCEPT ![s].stage = stage]
    PROVE  /\ sessions' \in [Sessions -> [order : Orders \cup {None}, stage : Stages]]
           /\ SessionsOpened'
  <1>1. /\ [sessions[s] EXCEPT !.stage = stage] \in [order : Orders \cup {None}, stage : Stages]
        /\ [sessions[s] EXCEPT !.stage = stage].order = sessions[s].order
    <2>1. sessions[s] \in [order : Orders \cup {None}, stage : Stages]
      OBVIOUS
    <2> QED
      BY <2>1
  <1>2. /\ sessions' \in [Sessions -> [order : Orders \cup {None}, stage : Stages]]
        /\ \A t \in Sessions : sessions'[t].order = sessions[t].order
        /\ \A t \in Sessions : t # s => sessions'[t] = sessions[t]
    BY <1>1
  <1> QED
    BY <1>2 DEF SessionsOpened

\* A call Verify sends names a session, and its fields have their types.
LEMMA CallTypes ==
    ASSUME NEW gw \in G!GatewayNames, NEW p \in Payment, NEW c \in Callback,
           G!Checks(gw, p, c) = "send"
    PROVE  /\ G!VerifyCall(gw, p, c) \in Call
           /\ gw = "mellat" => G!MellatSettleCall(p, c) \in Call
  <1> USE DEF Payment, Callback, Call, G!VerifyCall, G!Call, G!Checks
  <1>1. CASE gw = "zarinpal"
    BY <1>1 DEF G!ZarinpalChecks, G!ZarinpalCall
  <1>2. CASE gw = "idpay"
    BY <1>2 DEF G!IDPayChecks, G!IDPayCall
  <1>3. CASE gw = "saman"
    BY <1>3 DEF G!SamanChecks, G!SamanCall
  <1>4. CASE gw = "parsian"
    BY <1>4 DEF G!ParsianChecks, G!ParsianCall
  <1>5. CASE gw = "mellat"
    BY <1>5 DEF G!MellatChecks, G!MellatCall, G!MellatSettleCall
  <1>6. CASE gw = "pasargad"
    BY <1>6 DEF G!PasargadChecks, G!PasargadCall
  <1>7. CASE gw = "virtual"
    BY <1>7 DEF G!VirtualChecks, G!VirtualCall
  <1> QED
    BY <1>1, <1>2, <1>3, <1>4, <1>5, <1>6, <1>7 DEF G!GatewayNames

LEMMA TypeInit == Init => TypeInv
  BY DEF Init, TypeInv, TypeOK, LocalsSet, ChecksPassed, SessionsOpened, StoreInit, StoreTypeOK,
         Checkouts, Stages, Steps, Transaction

(* Each step preserves it: checkouts and customers, handlers, bank, crash. *)

LEMMA CheckoutTypes ==
    ASSUME TypeInv, NEW o \in Orders, Checkout(o)
    PROVE  TypeInv'
  <1> USE DEF TypeInv, TypeOK, LocalsSet, ChecksPassed, SessionsOpened, StoreTypeOK,
              CheckoutAt, Checkouts, Stages, handlerVars, storeVars
  <1>0. NewStoredPayment \in StoredPayment
    BY DEF NewStoredPayment, StoredPayment, Statuses
  <1>1. CASE SaveOrder(o)
    BY <1>0, <1>1 DEF SaveOrder, SavePayment
  <1>2. CASE SaveOrderError(o)
    BY <1>0, <1>2 DEF SaveOrderError, SavePayment
  <1>3. ASSUME NEW s \in Sessions, Request(o, s)
        PROVE  TypeInv'
    BY <1>3 DEF Request
  <1>4. CASE RequestError(o)
    <2>1. /\ sessions' \in [Sessions -> [order : Orders \cup {None}, stage : Stages]]
          /\ SessionsOpened'
      <3>1. CASE UNCHANGED sessions
        BY <3>1
      <3>2. CASE \E s \in Sessions :
                   sessions' = [sessions EXCEPT ![s] = [order |-> o, stage |-> "open"]]
        BY <3>2
      <3> QED
        BY <1>4, <3>1, <3>2 DEF RequestError
    <2> QED
      BY <1>4, <2>1 DEF RequestError
  <1>5. CASE MarkFailed(o)
    <2>1. payments' \in [Orders -> StoredPayment \cup {None}]
      BY <1>5, RowTypes DEF MarkFailed, Statuses
    <2> QED
      BY <1>5, <2>1 DEF MarkFailed
  <1>6. CASE SaveToken(o)
    BY <1>6 DEF SaveToken, SavePayment, StoredPayment, Statuses
  <1>7. CASE SaveTokenError(o)
    BY <1>7 DEF SaveTokenError, SavePayment, StoredPayment, Statuses
  <1>8. CASE Redirect(o)
    BY <1>8 DEF Redirect
  <1> QED
    BY <1>1, <1>2, <1>3, <1>4, <1>5, <1>6, <1>7, <1>8 DEF Checkout

LEMMA CustomerTypes ==
    ASSUME TypeInv, NEW s \in Sessions, Pay(s) \/ Cancel(s)
    PROVE  TypeInv'
  <1>1. /\ sessions' \in [Sessions -> [order : Orders \cup {None}, stage : Stages]]
        /\ SessionsOpened'
    BY StageTypes DEF Pay, Cancel, CustomerDecides, TypeInv, TypeOK, Stages
  <1> QED
    BY <1>1 DEF TypeInv, TypeOK, LocalsSet, ChecksPassed, StoreTypeOK, Pay, Cancel,
                CustomerDecides, handlerVars, shopVars, storeVars

\* A request that ends leaves its slot empty, whatever it did to the store.
LEMMA EndTypes ==
    ASSUME TypeInv, NEW h \in Handlers, End(h), StoreTypeOK'
    PROVE  TypeInv'
  BY DEF TypeInv, TypeOK, LocalsSet, ChecksPassed, SessionsOpened, End, Steps, shopVars

\* A step from one place of the handler to another that only rewrites a row.
LEMMA ReleaseTypes ==
    ASSUME TypeInv, NEW h \in Handlers, NEW to \in {"claimed", "recording"},
           \/ pc[h] = "loaded" /\ to = "claimed"
           \/ pc[h] = "accepted" /\ to = "recording",
           Goto(h, pc[h], to), StoreTypeOK', UNCHANGED <<sessions, reply, wire>>
    PROVE  TypeInv'
  BY DEF TypeInv, TypeOK, LocalsSet, ChecksPassed, SessionsOpened, Goto, Steps, shopVars

LEMMA VerifyTypes ==
    ASSUME TypeInv, NEW h \in Handlers, Verify(h)
    PROVE  TypeInv'
  <1> USE DEF TypeInv, TypeOK, LocalsSet, ChecksPassed, SessionsOpened, StoreTypeOK,
              Verify, Goto, Steps, shopVars, storeVars
  <1>1. CASE G!Checks(gateway, rec[h], cb[h]) = "send"
    <2>1. G!VerifyCall(gateway, rec[h], cb[h]) \in Call
      BY <1>1, CallTypes, GatewaysAssumption
    <2> QED
      BY <1>1, <2>1
  <1>2. CASE G!Checks(gateway, rec[h], cb[h]) # "send"
    BY <1>2
  <1> QED
    BY <1>1, <1>2

LEMMA VerifyReplyTypes ==
    ASSUME TypeInv, NEW h \in Handlers, VerifyReply(h)
    PROVE  TypeInv'
  <1> USE DEF TypeInv, TypeOK, LocalsSet, ChecksPassed, SessionsOpened, StoreTypeOK,
              Goto, Steps, shopVars, storeVars
  <1> DEFINE outcome == G!Outcome(gateway, rec[h], cb[h], reply[h])
  <1>0. /\ pc[h] = "verifying" /\ reply[h] \in Reply
        /\ UNCHANGED <<storeVars, sessions>>
    BY DEF VerifyReply
  <1>1. CASE outcome # "verified"
    BY <1>0, <1>1 DEF VerifyReply
  <1>2. CASE outcome = "verified" /\ G!Settles(gateway)
    <2>1. G!MellatSettleCall(rec[h], cb[h]) \in Call
      BY <1>0, <1>2, CallTypes, GatewaysAssumption DEF G!Settles
    <2>2. /\ Goto(h, "verifying", "settling")
          /\ reply' = [reply EXCEPT ![h] = None]
          /\ wire' = [wire EXCEPT ![h] = G!MellatSettleCall(rec[h], cb[h])]
      BY <1>2 DEF VerifyReply
    <2> HIDE DEF outcome
    <2> QED
      BY <1>0, <2>1, <2>2
  <1>3. CASE outcome = "verified" /\ ~G!Settles(gateway)
    <2>1. Goto(h, "verifying", "accepted") /\ UNCHANGED <<reply, wire>>
      BY <1>3 DEF VerifyReply
    <2> QED
      BY <1>0, <2>1
  <1> QED
    BY <1>1, <1>2, <1>3

LEMMA CallTypesKept ==
    ASSUME TypeInv, NEW h \in Handlers, SettleReply(h) \/ CallError(h)
    PROVE  TypeInv'
  BY DEF SettleReply, CallError, TypeInv, TypeOK, LocalsSet, ChecksPassed, SessionsOpened,
         StoreTypeOK, Goto, Steps, shopVars, storeVars

\* A statement of a handler leaves rows and transactions.
LEMMA StatementTypes ==
    ASSUME TypeInv, NEW h \in Handlers, pc[h] # "idle",
           \/ UNCHANGED transactions /\
                \/ UNCHANGED payments
                \/ \E from, to \in Statuses : TransitionStatus(rec[h].order, from, to)
           \/ UNCHANGED payments /\ pc[h] = "recording" /\ SaveTransaction(NewTransaction(h))
    PROVE  StoreTypeOK'
  <1> USE DEF TypeInv, TypeOK, StoreTypeOK
  <1>0. rec[h] \in Payment /\ rec[h].order \in Orders /\ cb[h] \in Callback
    BY DEF LocalsSet, Payment
  <1>1. CASE UNCHANGED transactions /\ UNCHANGED payments
    BY <1>1
  <1>2. ASSUME UNCHANGED transactions,
               NEW from \in Statuses, NEW to \in Statuses,
               TransitionStatus(rec[h].order, from, to)
        PROVE  StoreTypeOK'
    BY <1>0, <1>2, RowTypes
  <1>3. CASE UNCHANGED payments /\ pc[h] = "recording" /\ SaveTransaction(NewTransaction(h))
    <2>1. reply[h] \in Reply
      BY <1>3 DEF LocalsSet
    <2>2. G!RefID(gateway, cb[h], reply[h]) \in Sessions \cup {None}
      BY <1>0, <2>1 DEF G!RefID, Callback, Reply
    <2>3. NewTransaction(h) \in Transaction
      BY <1>0, <2>2 DEF NewTransaction, Transaction
    <2> QED
      BY <1>3, <2>3 DEF SaveTransaction
  <1> QED
    BY <1>1, <1>2, <1>3

LEMMA HandlerTypes ==
    ASSUME TypeInv, NEW h \in Handlers, Handler(h)
    PROVE  TypeInv'
  <1>0. {"pending", "processing", "succeeded"} \subseteq Statuses
    BY DEF Statuses
  <1>1. CASE Claim(h)
    <2>1. StoreTypeOK'
      BY <1>0, <1>1, StatementTypes DEF Claim, Goto
    <2> QED
      BY <1>1, <2>1, ReleaseTypes DEF Claim, Goto
  <1>2. CASE NotClaimed(h) \/ ClaimError(h) \/ ReleasePending(h) \/ ReleasePendingError(h)
    <2>1. StoreTypeOK'
      BY <1>0, <1>2, StatementTypes
         DEF NotClaimed, ClaimError, ReleasePending, ReleasePendingError, storeVars
    <2> QED
      BY <1>2, <2>1, EndTypes
         DEF NotClaimed, ClaimError, ReleasePending, ReleasePendingError
  <1>3. CASE Verify(h)
    BY <1>3, VerifyTypes
  <1>4. CASE VerifyReply(h)
    BY <1>4, VerifyReplyTypes
  <1>5. CASE SettleReply(h) \/ CallError(h)
    BY <1>5, CallTypesKept
  <1>6. CASE ReleaseSucceeded(h) \/ ReleaseSucceededError(h)
    <2>1. StoreTypeOK'
      BY <1>0, <1>6, StatementTypes DEF ReleaseSucceeded, ReleaseSucceededError, Goto
    <2> QED
      BY <1>6, <2>1, ReleaseTypes DEF ReleaseSucceeded, ReleaseSucceededError, Goto
  <1>7. CASE Record(h) \/ RecordError(h)
    <2>1. StoreTypeOK'
      BY <1>7, StatementTypes DEF Record, RecordError
    <2> QED
      BY <1>7, <2>1, EndTypes DEF Record, RecordError
  <1> QED
    BY <1>1, <1>2, <1>3, <1>4, <1>5, <1>6, <1>7 DEF Handler

\* What the bank or anyone else sends is a callback.
LEMMA DeliveredTypes ==
    ASSUME TypeInv, NEW c \in Delivered
    PROVE  c \in Callback
  <1>1. ASSUME NEW s \in Sessions, sessions[s].stage # "unused", c = Genuine(s)
        PROVE  c \in Callback
    <2>1. sessions[s].order \in Orders
      BY <1>1 DEF TypeInv, SessionsOpened
    <2>2. Price[sessions[s].order] \in Nat /\ Charged(s) \in BOOLEAN
      BY <2>1, PriceAssumption DEF Charged
    <2> QED
      BY <1>1, <2>1, <2>2 DEF Genuine, Callback
  <1> QED
    BY <1>1, StrayAssumption DEF Delivered, Charged

LEMMA LoadTypes ==
    ASSUME TypeInv, NEW h \in Handlers, NEW c \in Delivered, Load(h, c)
    PROVE  TypeInv'
  <1>1. c \in Callback
    BY DeliveredTypes
  <1>2. PICK o \in LoadPayment(G!CallbackOrderID(gateway, c)) :
           rec' = [rec EXCEPT ![h] =
                    [order |-> o, amount |-> Price[o], token |-> payments[o].token]]
    BY DEF Load
  <1>3. o \in Orders /\ payments[o] \in StoredPayment
    BY DEF LoadPayment, GetPayment, GetPaymentByToken, TypeInv, TypeOK, StoreTypeOK
  <1>4. [order |-> o, amount |-> Price[o], token |-> payments[o].token] \in Payment
    BY <1>3, PriceAssumption DEF Payment, StoredPayment
  <1> QED
    BY <1>1, <1>2, <1>4
       DEF Load, TypeInv, TypeOK, LocalsSet, ChecksPassed, SessionsOpened, StoreTypeOK,
           Steps, shopVars, storeVars

\* The bank's answers are replies, and what it does to a session is a stage.
LEMMA AnswerTypes ==
    ASSUME TypeInv, NEW h \in Handlers, wire[h] # None
    PROVE  /\ Refusal(wire[h]) \in Reply
           /\ \A s \in Meant(wire[h]) : sessions[s].stage # "unused" /\
                \A effect \in Effects(wire[h], s) : effect[1] \in Stages /\ effect[2] \in Reply
  <1>1. Refusal(wire[h]) \in Reply
    BY DEF Refusal, Reply
  <1>2. ASSUME NEW s \in Meant(wire[h])
        PROVE  /\ sessions[s].stage \in Stages \ {"unused"}
               /\ Price[sessions[s].order] \in Nat
    BY PriceAssumption DEF Meant, Charged, Stages, TypeInv, SessionsOpened
  <1>3. ASSUME NEW s \in Meant(wire[h]), NEW code \in {"ok", "already"}
        PROVE  Answer(code, s) \in Reply
    BY <1>2, <1>3 DEF Answer, Reply, Meant
  <1>4. ASSUME NEW s \in Meant(wire[h])
        PROVE  RepeatAnswers(wire[h], s) \subseteq Reply
    <2>1. [code |-> "already", ref |-> None, amount |-> None] \in Reply
      BY DEF Reply
    <2> QED
      BY <1>1, <1>3, <2>1 DEF RepeatAnswers
  <1>5. ASSUME NEW s \in Meant(wire[h]), NEW effect \in Effects(wire[h], s)
        PROVE  effect[1] \in Stages /\ effect[2] \in Reply
    <2>1. Answer("ok", s) \in Reply /\ Answer("already", s) \in Reply
      BY <1>3
    <2> QED
      BY <1>2, <1>4, <2>1 DEF Effects, Stages
  <1> QED
    BY <1>1, <1>2, <1>5

LEMMA BankTypes ==
    ASSUME TypeInv, NEW h \in Handlers, Bank(h)
    PROVE  TypeInv'
  <1> USE DEF TypeInv, TypeOK, LocalsSet, ChecksPassed, StoreTypeOK, Reaches,
              shopVars, storeVars
  <1>1. CASE BankProcesses(h)
    <2>1. wire[h] # None
      BY <1>1 DEF BankProcesses
    <2>0. PICK s \in Meant(wire[h]) : \E effect \in Effects(wire[h], s) :
             /\ sessions' = [sessions EXCEPT ![s].stage = effect[1]]
             /\ Reaches(h, effect[2])
      BY <1>1 DEF BankProcesses
    <2>2. PICK effect \in Effects(wire[h], s) :
             /\ sessions' = [sessions EXCEPT ![s].stage = effect[1]]
             /\ Reaches(h, effect[2])
      BY <2>0
    <2>3. effect[1] \in Stages /\ effect[2] \in Reply /\ sessions[s].stage # "unused"
      BY <2>1, AnswerTypes
    <2>4. /\ sessions' \in [Sessions -> [order : Orders \cup {None}, stage : Stages]]
          /\ SessionsOpened'
      <3>1. s \in Sessions
        BY DEF Meant
      <3> QED
        BY <2>2, <2>3, <3>1, StageTypes
    <2> QED
      BY <1>1, <2>2, <2>3, <2>4 DEF BankProcesses
  <1>2. CASE BankRejects(h)
    <2>1. Refusal(wire[h]) \in Reply
      BY <1>2, AnswerTypes DEF BankRejects
    <2> QED
      BY <1>2, <2>1 DEF BankRejects, SessionsOpened
  <1>3. CASE CallLost(h)
    BY <1>3 DEF CallLost, SessionsOpened, handlerVars
  <1> QED
    BY <1>1, <1>2, <1>3 DEF Bank

LEMMA FaultTypes ==
    ASSUME TypeInv, ProcessDies \/ \E h \in Handlers : Disconnect(h)
    PROVE  TypeInv'
  <1> USE DEF TypeInv, TypeOK, LocalsSet, ChecksPassed, SessionsOpened, StoreTypeOK,
              shopVars, storeVars
  <1>1. CASE ProcessDies
    BY <1>1 DEF ProcessDies, Checkouts, Steps
  <1>2. CASE \E h \in Handlers : Disconnect(h)
    BY <1>2 DEF Disconnect
  <1> QED
    BY <1>1, <1>2

\* A step of the flow, in whatever specification it is part of.
FlowStep == Running \/ ProcessDies \/ UNCHANGED vars

LEMMA FlowTypes ==
    ASSUME TypeInv, FlowStep
    PROVE  TypeInv'
  <1>1. CASE UNCHANGED vars
    BY <1>1 DEF vars, storeVars, shopVars, handlerVars, TypeInv, TypeOK, LocalsSet,
                ChecksPassed, SessionsOpened, StoreTypeOK
  <1>2. CASE Running \/ ProcessDies
    BY <1>2, CheckoutTypes, CustomerTypes, LoadTypes, HandlerTypes, BankTypes, FaultTypes
       DEF Running
  <1> QED
    BY <1>1, <1>2 DEF FlowStep

LEMMA NextFlows == [Next]_vars => FlowStep
  BY DEF Next, Crash, FlowStep

LEMMA TypeStep == TypeInv /\ [Next]_vars => TypeInv'
  BY NextFlows, FlowTypes

\* Every variable keeps its type, and the facts above hold, in every run of the
\* flow.
THEOREM TypeCorrect == Spec => []TypeOK
  <1>1. Spec => []TypeInv
    BY TypeInit, TypeStep, PTL DEF Spec
  <1>2. TypeInv => TypeOK
    BY DEF TypeInv
  <1> QED
    BY <1>1, <1>2, PTL

=============================================================================
