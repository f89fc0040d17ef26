----------------------------- MODULE PaymentProofs -----------------------------
(***************************************************************************)
(* The theorems about money of Webshop: what succeeded or was recorded was *)
(* paid for in a session of its own order, and the flow implements         *)
(* Fulfilment.                                                             *)
(***************************************************************************)
EXTENDS ClaimProofs

-----------------------------------------------------------------------------
(* Saman's call names no order and its reply no order either: only the       *)
(* amount ties a transaction to the payment it is verified for, so a shop    *)
(* that offers Saman is told orders apart by their prices.  Without this the *)
(* run SamanToken shows a payment verified for another order.                *)
SamanTellsApart ==
    "saman" \in Gateways => \A o, p \in Orders : Price[o] = Price[p] => o = p

\* The invariant.  Session s paid for order o: the bank verified it and, on
\* Mellat, settled it.
PaidIn(s, o) ==
    /\ sessions[s].order = o
    /\ sessions[s].stage = IF G!Settles(gateway) THEN "settled" ELSE "verified"

Verified(s) == sessions[s].stage \in {"verified", "settled"}

\* Once its token is saved a row carries the token of its checkout, and the
\* customer only acts on the page of that token.
RowsTied ==
    \A o \in Orders :
        /\ checkout[o] \in {"issued", "recorded", "redirected"} => res[o] # None
        /\ checkout[o] \in {"recorded", "redirected"} =>
            payments[o] # None /\ payments[o].token = res[o]

PagesTied ==
    \A s \in Sessions :
        /\ sessions[s].stage \notin {"unused", "open"} => res[sessions[s].order] = s
        /\ sessions[s].stage = "settled" => G!Settles(gateway)

\* The bank has the call of a request, and no other of its slot.
CallTied(h) ==
    /\ pc[h] \in {"loaded", "claimed"} => wire[h] = None
    /\ pc[h] = "verifying" /\ wire[h] # None => wire[h] = G!VerifyCall(gateway, rec[h], cb[h])
    /\ pc[h] = "settling" /\ wire[h] # None => wire[h] = G!MellatSettleCall(rec[h], cb[h])
    /\ pc[h] = "settling" => G!Settles(gateway)
    /\ wire[h] # None /\ wire[h].op = "settle" => G!Settles(gateway)

Positive(h) == reply[h] # None /\ reply[h].code \in {"ok", "already"}

\* The bank says of the session a call named what it found there; a repeated
\* verify of Saman may leave out the transaction.
Confirmed(h, call) ==
    /\ Verified(call.session)
    /\ call.order \in {None, sessions[call.session].order}
    /\ \/ reply[h].ref = call.session
          /\ reply[h].amount = Price[sessions[call.session].order]
       \/ gateway = "saman" /\ reply[h].ref = None

ReplyTied(h) ==
    /\ pc[h] \in {"idle", "loaded", "claimed"} => reply[h] = None
    /\ pc[h] = "verifying" /\ Positive(h) =>
        Confirmed(h, G!VerifyCall(gateway, rec[h], cb[h]))
    /\ pc[h] = "settling" /\ Positive(h) => PaidIn(cb[h].ref, rec[h].order)

\* A request works on the payment its checkout saved; what it accepted was paid
\* for, and the reference it will record is of the session that was paid in.
PaymentTied(h) ==
    /\ pc[h] # "idle" =>
        rec[h].token = res[rec[h].order] /\ rec[h].amount = Price[rec[h].order]
    /\ pc[h] \in {"accepted", "recording"} =>
        \E s \in Sessions :
            /\ PaidIn(s, rec[h].order)
            /\ gateway # "pasargad" => G!RefID(gateway, cb[h], reply[h]) = s

HandlerTied(h) == CallTied(h) /\ ReplyTied(h) /\ PaymentTied(h)

\* What succeeded, or was given back after it was recorded, was paid for.
RowsPaid ==
    \A o \in Orders :
        /\ InStatus(o, "succeeded") \/ InStatus(o, "refunded") => \E s \in Sessions : PaidIn(s, o)
        /\ InStatus(o, "refunded") => \E i \in DOMAIN transactions : transactions[i].order = o

LedgerPaid ==
    \A i \in DOMAIN transactions :
        \E s \in Sessions :
            /\ PaidIn(s, transactions[i].order)
            /\ gateway # "pasargad" => transactions[i].ref = s

MoneyInv ==
    /\ IInv /\ RowsTied /\ PagesTied
    /\ \A h \in Handlers : HandlerTied(h)
    /\ RowsPaid /\ LedgerPaid

LEMMA MoneyInit == Init => MoneyInv
  <1> SUFFICES ASSUME Init
               PROVE  MoneyInv
    OBVIOUS
  <1>1. /\ \A o \in Orders : payments[o] = None /\ checkout[o] = "new"
        /\ \A s \in Sessions : sessions[s].stage = "unused"
        /\ \A h \in Handlers : pc[h] = "idle" /\ reply[h] = None /\ wire[h] = None
        /\ transactions = <<>>
    BY DEF Init, StoreInit
  <1>2. \A h \in Handlers : HandlerTied(h)
    BY <1>1 DEF HandlerTied, CallTied, ReplyTied, PaymentTied, Positive
  <1> QED
    BY <1>1, <1>2, ClaimInit DEF MoneyInv, RowsTied, PagesTied, RowsPaid, LedgerPaid, InStatus

-----------------------------------------------------------------------------
(* What the bank knows of a session only grows.                              *)

SessionsGrow ==
    /\ gateway' = gateway
    /\ \A s \in Sessions :
        /\ sessions[s].stage # "unused" =>
            sessions'[s].order = sessions[s].order /\ sessions'[s].stage # "unused"
        /\ Verified(s) => Verified(s)'
        /\ sessions[s].stage = "settled" => sessions'[s].stage = "settled"
        /\ sessions'[s].stage = "settled" => G!Settles(gateway)

\* A session that was paid in stays so.
LEMMA PaidStays ==
    ASSUME SessionsGrow, NEW s \in Sessions, NEW o, PaidIn(s, o)
    PROVE  PaidIn(s, o)'
  BY DEF SessionsGrow, PaidIn, Verified, G!Settles

\* A known order keeps the token of its checkout.
TokensStay == \A o \in Orders : Known(o) => res'[o] = res[o]

\* The call of a request names a session.
LEMMA CallNames ==
    ASSUME IInv, NEW h \in Handlers, pc[h] \in {"verifying", "settling", "accepted", "recording"}
    PROVE  /\ rec[h] \in Payment /\ cb[h] \in Callback
           /\ Known(rec[h].order)
           /\ G!Checks(gateway, rec[h], cb[h]) = "send"
           /\ G!VerifyCall(gateway, rec[h], cb[h]) \in Call
           /\ G!Settles(gateway) => cb[h].ref \in Sessions
  <1>1. /\ rec[h] \in Payment /\ cb[h] \in Callback
        /\ G!Checks(gateway, rec[h], cb[h]) = "send"
        /\ gateway \in G!GatewayNames
    BY GatewaysAssumption DEF IInv, TypeInv, TypeOK, LocalsSet, ChecksPassed
  <1>2. /\ G!VerifyCall(gateway, rec[h], cb[h]) \in Call
        /\ gateway = "mellat" => G!MellatSettleCall(rec[h], cb[h]) \in Call
    BY <1>1, CallTypes
  <1>3. Known(rec[h].order)
    BY DEF IInv, KnownLater
  <1> QED
    BY <1>1, <1>2, <1>3 DEF G!Settles, G!MellatSettleCall, Call

\* A request that is left alone keeps what ties it to its payment.
LEMMA HandlerAlone ==
    ASSUME IInv, SessionsGrow, TokensStay, NEW h \in Handlers, HandlerTied(h),
           pc'[h] = pc[h], cb'[h] = cb[h], rec'[h] = rec[h], reply'[h] = reply[h],
           wire'[h] \in {None, wire[h]}
    PROVE  HandlerTied(h)'
  <1>0. gateway' = gateway
    BY DEF SessionsGrow
  <1>1. CallTied(h)'
    BY <1>0 DEF HandlerTied, CallTied
  <1>2. ReplyTied(h)'
    <2>0. PICK call : call = G!VerifyCall(gateway, rec[h], cb[h])
      OBVIOUS
    <2>1. ASSUME pc[h] = "verifying", Positive(h)
          PROVE  Confirmed(h, call)'
      <3>1. call.session \in Sessions /\ Confirmed(h, call)
        BY <2>0, <2>1, CallNames DEF HandlerTied, ReplyTied, Call
      <3>2. /\ sessions'[call.session].order = sessions[call.session].order
            /\ Verified(call.session)'
        BY <3>1 DEF SessionsGrow, Confirmed, Verified
      <3> QED
        BY <1>0, <3>1, <3>2 DEF Confirmed
    <2>2. ASSUME pc[h] = "settling", Positive(h)
          PROVE  PaidIn(cb[h].ref, rec[h].order)'
      <3>1. cb[h].ref \in Sessions /\ PaidIn(cb[h].ref, rec[h].order)
        BY <2>2, CallNames DEF HandlerTied, ReplyTied, CallTied
      <3> QED
        BY <1>0, <3>1 DEF PaidIn, SessionsGrow, Verified, G!Settles
    <2> QED
      BY <1>0, <2>0, <2>1, <2>2 DEF HandlerTied, ReplyTied, Positive
  <1>3. PaymentTied(h)'
    <2>1. pc[h] # "idle" => res'[rec[h].order] = res[rec[h].order]
      BY DEF IInv, KnownLater, Known, TokensStay
    <2>2. ASSUME pc[h] \in {"accepted", "recording"}
          PROVE  \E s \in Sessions :
                   /\ PaidIn(s, rec[h].order)'
                   /\ gateway # "pasargad" => G!RefID(gateway, cb[h], reply[h]) = s
      <3>1. PICK s \in Sessions :
               /\ PaidIn(s, rec[h].order)
               /\ gateway # "pasargad" => G!RefID(gateway, cb[h], reply[h]) = s
        BY <2>2 DEF HandlerTied, PaymentTied
      <3>2. PaidIn(s, rec[h].order)'
        BY <3>1 DEF PaidIn, SessionsGrow, Verified, G!Settles
      <3> QED
        BY <3>1, <3>2
    <2> QED
      BY <1>0, <2>1, <2>2 DEF HandlerTied, PaymentTied
  <1> QED
    BY <1>1, <1>2, <1>3 DEF HandlerTied

-----------------------------------------------------------------------------
(* Steps that record nothing and make no order succeed.                      *)

LEMMA LedgerAlone ==
    ASSUME MoneyInv, SessionsGrow, UNCHANGED transactions
    PROVE  LedgerPaid'
  <1> SUFFICES ASSUME NEW i \in DOMAIN transactions
               PROVE  \E s \in Sessions :
                        /\ PaidIn(s, transactions[i].order)'
                        /\ gateway' # "pasargad" => transactions'[i].ref = s
    BY DEF LedgerPaid
  <1>1. PICK s \in Sessions :
           /\ PaidIn(s, transactions[i].order)
           /\ gateway # "pasargad" => transactions[i].ref = s
    BY DEF MoneyInv, LedgerPaid
  <1>2. PaidIn(s, transactions[i].order)'
    BY <1>1 DEF PaidIn, SessionsGrow, Verified, G!Settles
  <1> QED
    BY <1>1, <1>2 DEF SessionsGrow

LEMMA RowsAlone ==
    ASSUME MoneyInv, SessionsGrow, UNCHANGED transactions,
           \A o \in Orders : /\ InStatus(o, "succeeded")' => InStatus(o, "succeeded")
                             /\ InStatus(o, "refunded")' => InStatus(o, "refunded")
    PROVE  RowsPaid' /\ LedgerPaid'
  <1>1. ASSUME NEW o \in Orders, InStatus(o, "succeeded")' \/ InStatus(o, "refunded")'
        PROVE  \E s \in Sessions : PaidIn(s, o)'
    <2>1. PICK s \in Sessions : PaidIn(s, o)
      BY <1>1 DEF MoneyInv, RowsPaid
    <2> QED
      BY <2>1, PaidStays
  <1>2. \A o \in Orders :
           InStatus(o, "refunded")' => \E i \in DOMAIN transactions : transactions[i].order = o
    BY DEF MoneyInv, RowsPaid
  <1> QED
    BY <1>1, <1>2, LedgerAlone DEF RowsPaid

\* A page that was paid or cancelled belongs to a redirected customer.
LEMMA PagesAlone ==
    ASSUME MoneyInv, SessionsGrow, TokensStay,
           \A s \in Sessions : sessions'[s].stage \notin {"unused", "open"} =>
                /\ Known(sessions[s].order)
                /\ res[sessions[s].order] = s
                /\ sessions'[s].order = sessions[s].order
    PROVE  PagesTied'
  BY DEF PagesTied, SessionsGrow, TokensStay, Known

LEMMA CheckoutGrows ==
    ASSUME MoneyInv, NEW o \in Orders, Checkout(o)
    PROVE  SessionsGrow /\ TokensStay
  <1>0. TypeInv
    BY DEF MoneyInv, IInv
  <1>1. gateway' = gateway
    BY DEF Checkout, SaveOrder, SaveOrderError, Request, RequestError, MarkFailed, SaveToken,
           SaveTokenError, Redirect, CheckoutAt
  <1>2. SessionsGrow
    BY <1>0, <1>1, CheckoutSession DEF SessionsGrow, Verified, MoneyInv, PagesTied
  <1>3. TokensStay
    <2>1. res' = res \/ \E s \in Sessions : res' = [res EXCEPT ![o] = s]
      BY <1>0, CheckoutSession
    <2> QED
      BY <1>0, <2>1, CheckoutEffect DEF TokensStay, Known, TypeInv, TypeOK
  <1> QED
    BY <1>2, <1>3

LEMMA CheckoutMoney ==
    ASSUME MoneyInv, NEW o \in Orders, Checkout(o)
    PROVE  MoneyInv'
  <1>0. IInv /\ IInv' /\ TypeInv
    BY CheckoutStep DEF MoneyInv, IInv
  <1>1. gateway' = gateway /\ UNCHANGED <<transactions, handlerVars, wire>>
    BY DEF Checkout, SaveOrder, SaveOrderError, Request, RequestError, MarkFailed, SaveToken,
           SaveTokenError, Redirect, CheckoutAt
  <1>2. SessionsGrow
    BY CheckoutGrows
  <1>3. TokensStay
    BY CheckoutGrows
  <1>4. \A h \in Handlers : HandlerTied(h)'
    BY <1>0, <1>1, <1>2, <1>3, HandlerAlone DEF handlerVars, MoneyInv
  <1>5. PagesTied'
    <2>1. \A s \in Sessions : sessions'[s].stage \notin {"unused", "open"} =>
             sessions'[s] = sessions[s]
      BY <1>0, CheckoutSession
    <2> QED
      BY <1>0, <1>2, <1>3, <2>1, PagesAlone DEF MoneyInv, IInv, KnownLater, PagesTied
  <1>6. RowsPaid' /\ LedgerPaid'
    <2>1. \A p \in Orders : /\ InStatus(p, "succeeded")' => InStatus(p, "succeeded")
                            /\ InStatus(p, "refunded")' => InStatus(p, "refunded")
      BY <1>0, CheckoutEffect DEF InStatus
    <2> QED
      BY <1>1, <1>2, <2>1, RowsAlone
  <1>7. RowsTied'
    <2> USE DEF RowsTied, TypeInv, TypeOK, CheckoutAt, StoreTypeOK
    <2>0. RowsTied /\ NewStoredPayment \in StoredPayment
          /\ [status |-> "pending", token |-> res[o]] \in StoredPayment
      BY <1>0 DEF MoneyInv, NewStoredPayment, StoredPayment, Statuses
    <2>1. CASE SaveOrder(o) \/ SaveOrderError(o)
      BY <1>0, <2>0, <2>1 DEF SaveOrder, SaveOrderError, SavePayment
    <2>2. ASSUME NEW s \in Sessions, Request(o, s)
          PROVE  RowsTied'
      BY <1>0, <2>0, <2>2, NoneIsApart DEF Request
    <2>3. CASE RequestError(o) \/ Redirect(o)
      BY <1>0, <2>0, <2>3 DEF RequestError, Redirect
    <2>4. CASE MarkFailed(o)
      BY <1>0, <2>0, <2>4, CheckoutEffect DEF MarkFailed
    <2>5. CASE SaveToken(o) \/ SaveTokenError(o)
      BY <1>0, <2>0, <2>5, RowSaved DEF SaveToken, SaveTokenError
    <2> QED
      BY <2>1, <2>2, <2>3, <2>4, <2>5 DEF Checkout
  <1> QED
    BY <1>0, <1>4, <1>5, <1>6, <1>7 DEF MoneyInv

\* Steps that leave the store alone, too.
LEMMA StoreAlone ==
    ASSUME MoneyInv, SessionsGrow, UNCHANGED <<payments, transactions, res>>,
           \A o \in Orders : checkout'[o] = checkout[o] \/ checkout'[o] = "over"
    PROVE  TokensStay /\ RowsTied' /\ RowsPaid' /\ LedgerPaid'
  <1>1. RowsTied'
    BY DEF MoneyInv, RowsTied
  <1>2. RowsPaid' /\ LedgerPaid'
    BY RowsAlone DEF InStatus
  <1> QED
    BY <1>1, <1>2 DEF TokensStay

LEMMA CustomerGrows ==
    ASSUME MoneyInv, NEW s \in Sessions, Pay(s) \/ Cancel(s)
    PROVE  SessionsGrow /\ TokensStay
  <1>0. TypeInv
    BY DEF MoneyInv, IInv
  <1>1. PICK stage \in {"paid", "cancelled"} : CustomerDecides(s, stage)
    BY DEF Pay, Cancel
  <1>2. /\ sessions[s].stage = "open" /\ UNCHANGED <<gateway, res>>
        /\ \A t \in Sessions \ {s} : sessions'[t] = sessions[t]
        /\ sessions'[s].order = sessions[s].order /\ sessions'[s].stage = stage
    BY <1>0, <1>1 DEF CustomerDecides, shopVars, TypeInv, TypeOK
  <1> QED
    BY <1>2 DEF SessionsGrow, TokensStay, Verified, MoneyInv, PagesTied

LEMMA CustomerMoney ==
    ASSUME MoneyInv, NEW s \in Sessions, Pay(s) \/ Cancel(s)
    PROVE  MoneyInv'
  <1>0. IInv /\ IInv' /\ TypeInv
    BY CustomerStep DEF MoneyInv, IInv
  <1>1. PICK stage \in {"paid", "cancelled"} : CustomerDecides(s, stage)
    BY DEF Pay, Cancel
  <1>2. /\ sessions[s].stage = "open" /\ Known(sessions[s].order) /\ res[sessions[s].order] = s
        /\ UNCHANGED <<payments, transactions, gateway, checkout, res, handlerVars, wire>>
        /\ \A t \in Sessions \ {s} : sessions'[t] = sessions[t]
        /\ sessions'[s].order = sessions[s].order /\ sessions'[s].stage = stage
    BY <1>0, <1>1 DEF CustomerDecides, storeVars, shopVars, TypeInv, TypeOK
  <1>3. SessionsGrow
    BY CustomerGrows
  <1>4. TokensStay /\ RowsTied' /\ RowsPaid' /\ LedgerPaid'
    BY <1>2, <1>3, StoreAlone
  <1>5. \A h \in Handlers : HandlerTied(h)'
    BY <1>0, <1>2, <1>3, <1>4, HandlerAlone DEF handlerVars, MoneyInv
  <1>6. PagesTied'
    BY <1>0, <1>2, <1>3, <1>4, PagesAlone DEF MoneyInv, IInv, KnownLater, PagesTied
  <1> QED
    BY <1>0, <1>4, <1>5, <1>6 DEF MoneyInv

\* Sessions, checkouts and the store are left alone.
LEMMA ShopAlone ==
    ASSUME MoneyInv, UNCHANGED <<gateway, payments, transactions, sessions, res>>,
           \A o \in Orders : checkout'[o] = checkout[o] \/ checkout'[o] = "over"
    PROVE  SessionsGrow /\ TokensStay /\ RowsTied' /\ PagesTied' /\ RowsPaid' /\ LedgerPaid'
  <1>1. SessionsGrow
    BY DEF SessionsGrow, Verified, MoneyInv, PagesTied
  <1>2. PagesTied'
    BY DEF MoneyInv, PagesTied
  <1> QED
    BY <1>1, <1>2, StoreAlone

\* A request that is over.
LEMMA HandlerOver ==
    ASSUME NEW h \in Handlers, HandlerTied(h), gateway' = gateway, pc'[h] = "idle",
           reply'[h] = None, wire'[h] \in {None, wire[h]}
    PROVE  HandlerTied(h)'
  BY DEF HandlerTied, CallTied, ReplyTied, PaymentTied, Positive

\* The process dies, a client goes away, nothing happens.
LEMMA FaultMoney ==
    ASSUME MoneyInv, ProcessDies \/ (\E h \in Handlers : Disconnect(h)) \/ UNCHANGED vars
    PROVE  MoneyInv'
  <1>0. IInv /\ IInv'
    BY FlowClaims DEF MoneyInv, FlowStep, Running
  <1>1. CASE ProcessDies
    <2>1. /\ UNCHANGED <<gateway, payments, transactions, sessions, res>>
          /\ \A o \in Orders : checkout'[o] = checkout[o] \/ checkout'[o] = "over"
          /\ \A h \in Handlers :
                pc'[h] = "idle" /\ reply'[h] = None /\ wire'[h] \in {None, wire[h]}
      BY <1>1 DEF ProcessDies, storeVars
    <2>2. \A h \in Handlers : HandlerTied(h)'
      BY <2>1, HandlerOver DEF MoneyInv
    <2> QED
      BY <1>0, <2>1, <2>2, ShopAlone DEF MoneyInv
  <1>2. CASE (\E h \in Handlers : Disconnect(h)) \/ UNCHANGED vars
    <2>1. UNCHANGED <<gateway, payments, transactions, sessions, checkout, res,
                      pc, cb, rec, reply, wire>>
      BY <1>2 DEF Disconnect, vars, storeVars, shopVars, handlerVars
    <2>2. \A h \in Handlers : HandlerTied(h)'
      BY <1>0, <2>1, ShopAlone, HandlerAlone DEF MoneyInv
    <2> QED
      BY <1>0, <2>1, <2>2, ShopAlone DEF MoneyInv
  <1> QED
    BY <1>1, <1>2

\* A callback arrives for an order whose row has the token of its checkout.
LEMMA LoadMoney ==
    ASSUME MoneyInv, NEW h \in Handlers, NEW c \in Delivered, Load(h, c)
    PROVE  MoneyInv'
  <1>0. IInv /\ IInv' /\ TypeInv
    BY LoadStep DEF MoneyInv, IInv
  <1>1. PICK o \in LoadPayment(G!CallbackOrderID(gateway, c)) :
           rec' = [rec EXCEPT ![h] =
                    [order |-> o, amount |-> Price[o], token |-> payments[o].token]]
    BY DEF Load
  <1>2. o \in Orders /\ payments[o].token = res[o]
    BY <1>0, LoadKnown DEF Known, MoneyInv, RowsTied
  <1>3. UNCHANGED <<gateway, payments, transactions, sessions, checkout, res, reply, wire>>
    BY DEF Load, storeVars, shopVars
  <1>4. /\ pc[h] = "idle" /\ wire[h] = None /\ pc'[h] = "loaded"
        /\ rec'[h] = [order |-> o, amount |-> Price[o], token |-> payments[o].token]
        /\ \A k \in Handlers \ {h} : pc'[k] = pc[k] /\ cb'[k] = cb[k] /\ rec'[k] = rec[k]
    BY <1>0, <1>1 DEF Load, TypeInv, TypeOK
  <1>5. HandlerTied(h)'
    BY <1>2, <1>3, <1>4 DEF MoneyInv, HandlerTied, CallTied, ReplyTied, PaymentTied, Positive
  <1>6. \A k \in Handlers \ {h} : HandlerTied(k)'
    BY <1>0, <1>3, <1>4, ShopAlone, HandlerAlone DEF MoneyInv
  <1> QED
    BY <1>0, <1>3, <1>5, <1>6, ShopAlone DEF MoneyInv

-----------------------------------------------------------------------------
(* The bank processes a call, refuses it or never gets it.                   *)

\* What it does to the session a call means, and what it answers.
LEMMA BankEffects ==
    ASSUME NEW call, call.op \in {"verify", "settle"}, NEW s \in Meant(call),
           NEW effect \in Effects(call, s)
    PROVE  /\ s \in Sessions /\ s = call.session /\ Charged(s)
           /\ call.order \in {None, sessions[s].order}
           /\ effect[1] \in {"verified", "settled"}
           /\ sessions[s].stage = "settled" => effect[1] = "settled"
           /\ effect[1] = "settled" => sessions[s].stage = "settled" \/ call.op = "settle"
           /\ call.op = "settle" => effect[1] = "settled"
           /\ effect[2] # None /\ effect[2].code \in {"ok", "already"} =>
                \/ effect[2].ref = s /\ effect[2].amount = Price[sessions[s].order]
                \/ gateway = "saman" /\ effect[2].ref = None /\ call.op = "verify"
  <1>1. /\ s \in Sessions /\ s = call.session /\ Charged(s)
        /\ call.order \in {None, sessions[s].order}
    BY DEF Meant
  <1>2. Refusal(call).code \notin {"ok", "already"}
    BY DEF Refusal
  <1>3. ASSUME NEW code
        PROVE  /\ Answer(code, s).ref = s
               /\ Answer(code, s).amount = Price[sessions[s].order]
    BY DEF Answer
  <1>4. ASSUME NEW answer \in RepeatAnswers(call, s), answer.code \in {"ok", "already"}
        PROVE  \/ answer.ref = s /\ answer.amount = Price[sessions[s].order]
               \/ gateway = "saman" /\ answer.ref = None
    BY <1>2, <1>3, <1>4 DEF RepeatAnswers
  <1>5. CASE call.op = "verify" /\ sessions[s].stage = "paid"
    BY <1>1, <1>3, <1>5 DEF Effects
  <1>6. CASE call.op = "verify" /\ sessions[s].stage # "paid"
    <2>1. effect[1] = sessions[s].stage /\ effect[2] \in RepeatAnswers(call, s)
      BY <1>6 DEF Effects
    <2> QED
      BY <1>1, <1>4, <1>6, <2>1 DEF Charged
  <1>7. CASE call.op = "settle"
    BY <1>1, <1>3, <1>7 DEF Effects
  <1> QED
    BY <1>5, <1>6, <1>7

\* A bank step leaves everybody else alone.
LEMMA BankFrame ==
    ASSUME TypeInv, NEW h \in Handlers, Bank(h)
    PROVE  /\ UNCHANGED <<gateway, payments, transactions, checkout, res, pc, cb, rec>>
           /\ wire[h] # None /\ wire[h] \in Call /\ wire'[h] = None
           /\ \A k \in Handlers \ {h} : reply'[k] = reply[k] /\ wire'[k] = wire[k]
           /\ pc[h] \notin {"verifying", "settling"} => reply'[h] = reply[h]
  <1> USE DEF TypeInv, TypeOK, storeVars, shopVars, handlerVars
  <1>1. ASSUME NEW answer, Reaches(h, answer)
        PROVE  /\ \A k \in Handlers \ {h} : reply'[k] = reply[k]
               /\ pc[h] \notin {"verifying", "settling"} => reply'[h] = reply[h]
    BY <1>1 DEF Reaches
  <1>2. CASE BankProcesses(h)
    <2>1. PICK answer : Reaches(h, answer)
      BY <1>2 DEF BankProcesses
    <2> QED
      BY <1>1, <1>2, <2>1 DEF BankProcesses
  <1>3. CASE BankRejects(h)
    BY <1>1, <1>3 DEF BankRejects
  <1>4. CASE CallLost(h)
    BY <1>4 DEF CallLost
  <1> QED
    BY <1>2, <1>3, <1>4 DEF Bank

LEMMA BankGrows ==
    ASSUME MoneyInv, NEW h \in Handlers, Bank(h)
    PROVE  SessionsGrow /\ PagesTied'
  <1>0. IInv /\ TypeInv
    BY DEF MoneyInv, IInv
  <1>1. UNCHANGED <<gateway, checkout, res>> /\ wire[h] # None /\ wire[h] \in Call
    BY <1>0, BankFrame
  <1>2. CASE UNCHANGED sessions
    BY <1>1, <1>2 DEF SessionsGrow, MoneyInv, PagesTied, Verified
  <1>3. ASSUME NEW s \in Meant(wire[h]), NEW effect \in Effects(wire[h], s),
               sessions' = [sessions EXCEPT ![s].stage = effect[1]]
        PROVE  SessionsGrow /\ PagesTied'
    <2>1. /\ s \in Sessions /\ Charged(s) /\ effect[1] \in {"verified", "settled"}
          /\ sessions[s].stage = "settled" => effect[1] = "settled"
          /\ effect[1] = "settled" => sessions[s].stage = "settled" \/ wire[h].op = "settle"
      BY <1>1, BankEffects DEF Call
    <2>2. /\ \A t \in Sessions \ {s} : sessions'[t] = sessions[t]
          /\ sessions'[s].order = sessions[s].order /\ sessions'[s].stage = effect[1]
      BY <1>0, <1>3, <2>1 DEF TypeInv, TypeOK
    <2>3. effect[1] = "settled" => G!Settles(gateway)
      BY <1>1, <2>1 DEF MoneyInv, PagesTied, HandlerTied, CallTied
    <2>4. SessionsGrow
      BY <1>1, <2>1, <2>2, <2>3 DEF SessionsGrow, Verified, MoneyInv, PagesTied
    <2>5. PagesTied'
      BY <1>0, <1>1, <2>1, <2>2, <2>4, PagesAlone
         DEF TokensStay, MoneyInv, PagesTied, IInv, KnownLater, Charged
    <2> QED
      BY <2>4, <2>5
  <1>4. BankProcesses(h) => \E s \in Meant(wire[h]) : \E effect \in Effects(wire[h], s) :
           sessions' = [sessions EXCEPT ![s].stage = effect[1]]
    BY DEF BankProcesses
  <1>5. BankRejects(h) \/ CallLost(h) => UNCHANGED sessions
    BY DEF BankRejects, CallLost
  <1> QED
    BY <1>2, <1>3, <1>4, <1>5 DEF Bank

\* The answer a waiting request gets is about its payment.
LEMMA BankAnswers ==
    ASSUME MoneyInv, NEW h \in Handlers, Bank(h), pc[h] \in {"verifying", "settling"},
           Positive(h)', NEW call, call = wire[h]
    PROVE  /\ pc[h] = "verifying" => Confirmed(h, call)'
           /\ pc[h] = "settling" => PaidIn(cb[h].ref, rec[h].order)'
  <1>0. IInv /\ TypeInv
    BY DEF MoneyInv, IInv
  <1>1. UNCHANGED <<gateway, pc, cb, rec>> /\ wire[h] # None /\ wire[h] \in Call
    BY <1>0, BankFrame
  <1>2. ASSUME NEW answer, Reaches(h, answer)
        PROVE  reply'[h] = answer
    BY <1>0, <1>2 DEF Reaches, TypeInv, TypeOK
  <1>3. ~BankRejects(h) /\ ~CallLost(h)
    BY <1>2 DEF BankRejects, CallLost, Positive, Refusal
  <1>4. PICK s \in Meant(call) : \E effect \in Effects(call, s) :
           /\ sessions' = [sessions EXCEPT ![s].stage = effect[1]]
           /\ Reaches(h, effect[2])
    BY <1>3 DEF Bank, BankProcesses
  <1>5. PICK effect \in Effects(call, s) :
           /\ sessions' = [sessions EXCEPT ![s].stage = effect[1]]
           /\ Reaches(h, effect[2])
    BY <1>4
  <1>6. /\ s \in Sessions /\ s = call.session
        /\ call.order \in {None, sessions[s].order}
        /\ effect[1] \in {"verified", "settled"}
        /\ call.op = "settle" => effect[1] = "settled"
        /\ effect[2] # None /\ effect[2].code \in {"ok", "already"} =>
             \/ effect[2].ref = s /\ effect[2].amount = Price[sessions[s].order]
             \/ gateway = "saman" /\ effect[2].ref = None /\ call.op = "verify"
    BY <1>1, BankEffects DEF Call
  <1>7. sessions'[s].order = sessions[s].order /\ sessions'[s].stage = effect[1]
    BY <1>0, <1>5, <1>6 DEF TypeInv, TypeOK
  <1>8. reply'[h] = effect[2] /\ reply'[h].code \in {"ok", "already"}
    BY <1>2, <1>5 DEF Positive
  <1>9. ASSUME pc[h] = "verifying"
        PROVE  Confirmed(h, call)'
    BY <1>1, <1>6, <1>7, <1>8 DEF Confirmed, Verified, Positive
  <1>10. ASSUME pc[h] = "settling"
        PROVE  PaidIn(cb[h].ref, rec[h].order)'
    <2>1. call = G!MellatSettleCall(rec[h], cb[h]) /\ G!Settles(gateway)
      BY <1>1, <1>10 DEF MoneyInv, HandlerTied, CallTied
    <2>2. call.session = cb[h].ref /\ call.order = rec[h].order /\ call.op = "settle"
      BY <2>1 DEF G!MellatSettleCall
    <2>3. rec[h].order \in Orders
      BY <1>0, <1>10, CallNames DEF Known
    <2> QED
      BY <1>1, <1>6, <1>7, <2>1, <2>2, <2>3, NoneIsApart DEF PaidIn
  <1> QED
    BY <1>9, <1>10

LEMMA BankMoney ==
    ASSUME MoneyInv, NEW h \in Handlers, Bank(h)
    PROVE  MoneyInv'
  <1>0. IInv /\ IInv' /\ TypeInv
    BY BankStep DEF MoneyInv, IInv
  <1>1. SessionsGrow /\ PagesTied'
    BY BankGrows
  <1>2. /\ UNCHANGED <<gateway, payments, transactions, checkout, res, pc, cb, rec>>
        /\ wire[h] # None /\ wire'[h] = None
        /\ \A k \in Handlers \ {h} : reply'[k] = reply[k] /\ wire'[k] = wire[k]
        /\ pc[h] \notin {"verifying", "settling"} => reply'[h] = reply[h]
    BY <1>0, BankFrame
  <1>3. TokensStay /\ RowsTied' /\ RowsPaid' /\ LedgerPaid'
    BY <1>1, <1>2, StoreAlone
  <1>4. \A k \in Handlers \ {h} : HandlerTied(k)'
    BY <1>0, <1>1, <1>2, <1>3, HandlerAlone DEF MoneyInv
  <1>5. CASE pc[h] \notin {"verifying", "settling"}
    <2>1. HandlerTied(h)'
      BY <1>0, <1>1, <1>2, <1>3, <1>5, HandlerAlone DEF MoneyInv
    <2> QED
      BY <1>0, <1>1, <1>3, <1>4, <2>1 DEF MoneyInv
  <1>6. CASE pc[h] \in {"verifying", "settling"}
    <2>1. HandlerTied(h)
      BY DEF MoneyInv
    <2>2. CallTied(h)'
      BY <1>2, <1>6, <2>1 DEF HandlerTied, CallTied
    <2>3. PaymentTied(h)'
      BY <1>2, <1>6, <2>1 DEF HandlerTied, PaymentTied
    <2>4. PICK call : call = wire[h]
      OBVIOUS
    <2>5. ReplyTied(h)'
      BY <1>2, <1>6, <2>1, <2>4, BankAnswers DEF HandlerTied, CallTied, ReplyTied
    <2> QED
      BY <1>0, <1>1, <1>3, <1>4, <2>2, <2>3, <2>5 DEF MoneyInv, HandlerTied
  <1> QED
    BY <1>5, <1>6

-----------------------------------------------------------------------------
(* A handler's step.  The heart of it: what Verify of any gateway accepts    *)
(* was paid for in a session of the order it was called for.                 *)

LEMMA VerifyAccepts ==
    ASSUME MoneyInv, SamanTellsApart, NEW h \in Handlers, pc[h] = "verifying", reply[h] # None,
           G!Outcome(gateway, rec[h], cb[h], reply[h]) = "verified",
           NEW s, s = G!VerifyCall(gateway, rec[h], cb[h]).session
    PROVE  /\ s \in Sessions /\ Verified(s)
           /\ sessions[s].order = rec[h].order
           /\ gateway # "pasargad" => G!RefID(gateway, cb[h], reply[h]) = s
  <1> DEFINE o == rec[h].order
             call == G!VerifyCall(gateway, rec[h], cb[h])
  <1>1. /\ gateway \in Gateways /\ Gateways \subseteq G!GatewayNames
        /\ cb[h] \in Callback /\ Known(o)
        /\ G!Checks(gateway, rec[h], cb[h]) = "send"
        /\ s \in Sessions
    BY CallNames, GatewaysAssumption DEF MoneyInv, IInv, TypeInv, TypeOK, Call
  <1>2. o \in Orders /\ o # None /\ o = rec[h].order
    BY <1>1, NoneIsApart DEF Known
  <1>3. /\ rec[h].token = res[o] /\ res[o] # None /\ rec[h].amount = Price[o]
        /\ res[o] \in Sessions => sessions[res[o]].order = o
    BY <1>1 DEF MoneyInv, HandlerTied, PaymentTied, RowsTied, Known, IInv, TokensBelong, Opened
  <1>4. Positive(h)
    BY DEF Positive, G!Outcome, G!ZarinpalOutcome, G!IDPayOutcome, G!SamanOutcome,
           G!ParsianOutcome, G!MellatOutcome, G!PasargadOutcome, G!VirtualOutcome
  <1>5. /\ Verified(s)
        /\ call.order \in {None, sessions[s].order}
        /\ \/ reply[h].ref = s /\ reply[h].amount = Price[sessions[s].order]
           \/ gateway = "saman" /\ reply[h].ref = None
    BY <1>4 DEF MoneyInv, HandlerTied, ReplyTied, Confirmed
  <1>6. sessions[s].order \in Orders
    BY <1>1, <1>5 DEF Verified, MoneyInv, IInv, TypeInv, SessionsOpened
  <1> USE DEF G!Checks, G!VerifyCall, G!Call, G!RefID
  <1>7. CASE gateway = "zarinpal"
    <2>1. s = res[o]
      BY <1>1, <1>3, <1>7 DEF G!ZarinpalChecks, G!ZarinpalCall
    <2> QED
      BY <1>1, <1>3, <1>5, <1>7, <2>1
  <1>8. CASE gateway = "idpay"
    BY <1>1, <1>2, <1>5, <1>8 DEF G!IDPayCall
  <1>9. CASE gateway = "saman"
    <2>1. s = cb[h].ref /\ s # None
      BY <1>1, <1>9 DEF G!SamanChecks, G!SamanCall
    <2>2. reply[h].ref = cb[h].ref /\ reply[h].amount = rec[h].amount
      BY <1>9 DEF G!Outcome, G!SamanOutcome
    <2>3. Price[sessions[s].order] = Price[o]
      BY <1>3, <1>5, <2>1, <2>2
    <2> QED
      BY <1>1, <1>2, <1>5, <1>6, <1>9, <2>1, <2>2, <2>3 DEF SamanTellsApart
  <1>10. CASE gateway = "parsian"
    <2>1. s = res[o]
      BY <1>1, <1>3, <1>10 DEF G!ParsianChecks, G!ParsianCall
    <2> QED
      BY <1>1, <1>3, <1>5, <1>10, <2>1
  <1>11. CASE gateway = "mellat"
    BY <1>1, <1>2, <1>5, <1>11 DEF G!MellatCall
  <1>12. CASE gateway = "pasargad"
    BY <1>1, <1>2, <1>5, <1>12 DEF G!PasargadCall
  <1>13. CASE gateway = "virtual"
    BY <1>1, <1>2, <1>5, <1>13 DEF G!VirtualCall
  <1> QED
    BY <1>1, <1>7, <1>8, <1>9, <1>10, <1>11, <1>12, <1>13 DEF G!GatewayNames

\* A handler touches neither the bank nor a checkout nor another handler.
LEMMA HandlerFrame ==
    ASSUME TypeInv, NEW h \in Handlers, Handler(h)
    PROVE  /\ UNCHANGED <<gateway, checkout, res, sessions>>
           /\ \A k \in Handlers \ {h} :
                /\ pc'[k] = pc[k] /\ cb'[k] = cb[k] /\ rec'[k] = rec[k]
                /\ reply'[k] = reply[k] /\ wire'[k] = wire[k]
  <1> USE DEF TypeInv, TypeOK, shopVars
  <1>1. CASE NotClaimed(h) \/ ClaimError(h) \/ ReleasePending(h) \/ ReleasePendingError(h)
             \/ Record(h) \/ RecordError(h)
    <2>1. End(h)
      BY <1>1
         DEF NotClaimed, ClaimError, ReleasePending, ReleasePendingError, Record, RecordError
    <2> QED
      BY <2>1 DEF End
  <1>2. CASE Claim(h) \/ ReleaseSucceeded(h) \/ ReleaseSucceededError(h)
    <2>1. \E from, to : Goto(h, from, to)
      BY <1>2 DEF Claim, ReleaseSucceeded, ReleaseSucceededError
    <2>2. UNCHANGED <<sessions, reply, wire>>
      BY <1>2 DEF Claim, ReleaseSucceeded, ReleaseSucceededError
    <2> QED
      BY <2>1, <2>2 DEF Goto
  <1>3. CASE Verify(h) \/ VerifyReply(h) \/ SettleReply(h) \/ CallError(h)
    <2>1. \E from, to : Goto(h, from, to)
      BY <1>3 DEF Verify, VerifyReply, SettleReply, CallError
    <2>2. UNCHANGED sessions /\ \A k \in Handlers \ {h} : reply'[k] = reply[k] /\ wire'[k] = wire[k]
      BY <1>3 DEF Verify, VerifyReply, SettleReply, CallError
    <2> QED
      BY <2>1, <2>2 DEF Goto
  <1> QED
    BY <1>1, <1>2, <1>3 DEF Handler

LEMMA VerifyReplyTied ==
    ASSUME MoneyInv, SamanTellsApart, NEW h \in Handlers, VerifyReply(h)
    PROVE  HandlerTied(h)'
  <1>0. IInv /\ TypeInv /\ HandlerTied(h)
    BY DEF MoneyInv, IInv
  <1>1. /\ pc[h] = "verifying" /\ reply[h] # None
        /\ UNCHANGED <<gateway, res, sessions, cb, rec>>
    BY DEF VerifyReply, Goto, shopVars
  <1>2. /\ rec'[h].token = res'[rec'[h].order] /\ rec'[h].amount = Price[rec'[h].order]
    BY <1>0, <1>1 DEF HandlerTied, PaymentTied
  <1> DEFINE outcome == G!Outcome(gateway, rec[h], cb[h], reply[h])
  <1>3. CASE outcome # "verified"
    <2>1. pc'[h] = "failing" /\ UNCHANGED wire
      BY <1>0, <1>3 DEF VerifyReply, Goto, TypeInv, TypeOK
    <2> QED
      BY <1>0, <1>1, <1>2, <2>1 DEF HandlerTied, CallTied, ReplyTied, PaymentTied
  <1>4. CASE outcome = "verified" /\ G!Settles(gateway)
    <2>1. /\ Goto(h, "verifying", "settling")
          /\ reply' = [reply EXCEPT ![h] = None]
          /\ wire' = [wire EXCEPT ![h] = G!MellatSettleCall(rec[h], cb[h])]
      BY <1>4 DEF VerifyReply
    <2> HIDE DEF outcome
    <2>2. /\ pc'[h] = "settling" /\ reply'[h] = None
          /\ wire'[h] = G!MellatSettleCall(rec'[h], cb'[h])
      BY <1>0, <1>1, <2>1 DEF Goto, TypeInv, TypeOK
    <2> QED
      BY <1>1, <1>2, <1>4, <2>2 DEF HandlerTied, CallTied, ReplyTied, PaymentTied, Positive
  <1>5. CASE outcome = "verified" /\ ~G!Settles(gateway)
    <2>1. pc'[h] = "accepted" /\ UNCHANGED <<reply, wire>>
      BY <1>0, <1>5 DEF VerifyReply, Goto, TypeInv, TypeOK
    <2>2. PICK s : s = G!VerifyCall(gateway, rec[h], cb[h]).session
      OBVIOUS
    <2>3. /\ s \in Sessions /\ Verified(s)
          /\ sessions[s].order = rec[h].order
          /\ gateway # "pasargad" => G!RefID(gateway, cb[h], reply[h]) = s
      BY <1>1, <1>5, <2>2, VerifyAccepts
    <2>4. PaidIn(s, rec[h].order)'
      BY <1>1, <1>5, <2>3 DEF PaidIn, Verified, MoneyInv, PagesTied
    <2>5. PaymentTied(h)'
      BY <1>1, <1>2, <2>1, <2>3, <2>4 DEF PaymentTied
    <2> QED
      BY <1>0, <1>1, <2>1, <2>5 DEF HandlerTied, CallTied, ReplyTied
  <1> QED
    BY <1>3, <1>4, <1>5

LEMMA SettleReplyTied ==
    ASSUME MoneyInv, NEW h \in Handlers, SettleReply(h)
    PROVE  HandlerTied(h)'
  <1>0. IInv /\ TypeInv /\ HandlerTied(h)
    BY DEF MoneyInv, IInv
  <1>1. /\ pc[h] = "settling" /\ pc' = [pc EXCEPT ![h] = pc'[h]]
        /\ pc'[h] \in {"accepted", "failing"} /\ reply[h] # None
        /\ UNCHANGED <<gateway, res, sessions, cb, rec, wire>>
    BY <1>0 DEF SettleReply, Goto, shopVars, TypeInv, TypeOK
  <1>2. rec'[h].token = res'[rec'[h].order] /\ rec'[h].amount = Price[rec'[h].order]
    BY <1>0, <1>1 DEF HandlerTied, PaymentTied
  <1>3. gateway = "mellat" /\ cb[h].ref \in Sessions
    BY <1>0, <1>1, CallNames DEF HandlerTied, CallTied, G!Settles
  <1>4. CASE pc'[h] = "failing"
    BY <1>0, <1>1, <1>2, <1>4 DEF HandlerTied, CallTied, ReplyTied, PaymentTied
  <1>5. CASE pc'[h] = "accepted"
    <2>1. Positive(h) /\ UNCHANGED reply
      BY <1>0, <1>1, <1>5 DEF SettleReply, Goto, G!MellatSettled, Positive, TypeInv, TypeOK
    <2>2. PaidIn(cb[h].ref, rec[h].order)
      BY <1>0, <1>1, <2>1 DEF HandlerTied, ReplyTied
    <2>3. PaidIn(cb[h].ref, rec[h].order)'
      BY <1>1, <2>2 DEF PaidIn
    <2>4. G!RefID(gateway, cb[h], reply[h]) = cb[h].ref
      BY <1>3 DEF G!RefID
    <2>5. PaymentTied(h)'
      BY <1>1, <1>2, <1>3, <2>1, <2>3, <2>4 DEF PaymentTied
    <2> QED
      BY <1>0, <1>1, <1>5, <2>5 DEF HandlerTied, CallTied, ReplyTied
  <1> QED
    BY <1>1, <1>4, <1>5

LEMMA HandlerOwn ==
    ASSUME MoneyInv, SamanTellsApart, NEW h \in Handlers, Handler(h)
    PROVE  HandlerTied(h)'
  <1>0. IInv /\ TypeInv /\ HandlerTied(h)
    BY DEF MoneyInv, IInv
  <1>1. UNCHANGED <<gateway, res, sessions>>
    BY <1>0, HandlerFrame
  <1>2. CASE NotClaimed(h) \/ ClaimError(h) \/ ReleasePending(h) \/ ReleasePendingError(h)
             \/ Record(h) \/ RecordError(h)
    <2>1. End(h)
      BY <1>2
         DEF NotClaimed, ClaimError, ReleasePending, ReleasePendingError, Record, RecordError
    <2>2. pc'[h] = "idle" /\ reply'[h] = None /\ wire'[h] = wire[h]
      BY <1>0, <2>1 DEF End, TypeInv, TypeOK
    <2> QED
      BY <1>0, <1>1, <2>2, HandlerOver
  <1>3. CASE VerifyReply(h) \/ SettleReply(h)
    BY <1>3, VerifyReplyTied, SettleReplyTied
  <1>4. CASE Claim(h)
    <2>1. /\ pc[h] = "loaded" /\ pc'[h] = "claimed"
          /\ UNCHANGED <<cb, rec, reply, wire>>
      BY <1>0, <1>4 DEF Claim, Goto, TypeInv, TypeOK
    <2> QED
      BY <1>0, <1>1, <2>1 DEF HandlerTied, CallTied, ReplyTied, PaymentTied
  <1>5. CASE Verify(h)
    <2>1. /\ pc[h] = "claimed" /\ UNCHANGED <<cb, rec, reply>>
          /\ \/ pc'[h] = "failing" /\ wire'[h] = wire[h]
             \/ pc'[h] = "verifying" /\ wire'[h] = G!VerifyCall(gateway', rec'[h], cb'[h])
      BY <1>0, <1>1, <1>5 DEF Verify, Goto, TypeInv, TypeOK
    <2>2. reply'[h] = None /\ wire[h] = None
      BY <1>0, <2>1 DEF HandlerTied, ReplyTied, CallTied
    <2>3. G!VerifyCall(gateway', rec'[h], cb'[h]).op = "verify"
      BY DEF G!VerifyCall, G!Call, G!ZarinpalCall, G!IDPayCall, G!SamanCall, G!ParsianCall,
             G!MellatCall, G!PasargadCall, G!VirtualCall
    <2> QED
      BY <1>0, <1>1, <2>1, <2>2, <2>3 DEF HandlerTied, CallTied, ReplyTied, PaymentTied, Positive
  <1>6. CASE CallError(h)
    <2>1. /\ pc[h] # "idle" /\ pc'[h] = "failing"
          /\ UNCHANGED <<cb, rec, wire>>
      BY <1>0, <1>6 DEF CallError, Goto, TypeInv, TypeOK
    <2> QED
      BY <1>0, <1>1, <2>1 DEF HandlerTied, CallTied, ReplyTied, PaymentTied
  <1>7. CASE ReleaseSucceeded(h) \/ ReleaseSucceededError(h)
    <2>1. /\ pc[h] = "accepted" /\ pc'[h] = "recording"
          /\ UNCHANGED <<cb, rec, reply, wire>>
      BY <1>0, <1>7 DEF ReleaseSucceeded, ReleaseSucceededError, Goto, TypeInv, TypeOK
    <2>2. PaymentTied(h)'
      BY <1>0, <1>1, <2>1 DEF HandlerTied, PaymentTied, PaidIn
    <2> QED
      BY <1>0, <1>1, <2>1, <2>2 DEF HandlerTied, CallTied, ReplyTied
  <1> QED
    BY <1>2, <1>3, <1>4, <1>5, <1>6, <1>7 DEF Handler

\* A row keeps its token and succeeds only from a request that was accepted.
LEMMA HandlerRows ==
    ASSUME MoneyInv, NEW h \in Handlers, Handler(h), ~Records(h)
    PROVE  /\ UNCHANGED transactions
           /\ \A o \in Orders : payments'[o] = payments[o] \/
                /\ payments[o] # None /\ payments'[o] # None
                /\ payments'[o].token = payments[o].token
                /\ payments'[o].status \in {"pending", "processing", "succeeded"}
           /\ \A o \in Orders : InStatus(o, "succeeded")' =>
                InStatus(o, "succeeded") \/ (pc[h] = "accepted" /\ rec[h].order = o)
  <1>0. IInv /\ TypeInv
    BY DEF MoneyInv, IInv
  <1>1. CASE UNCHANGED storeVars
    BY <1>1 DEF storeVars, InStatus
  <1>2. ASSUME NEW from \in Statuses, NEW to \in {"pending", "processing", "succeeded"},
               RowStep(h, rec[h].order, from, to), to = "succeeded" => pc[h] = "accepted"
        PROVE  /\ UNCHANGED transactions
               /\ \A o \in Orders : payments'[o] = payments[o] \/
                    /\ payments[o] # None /\ payments'[o] # None
                    /\ payments'[o].token = payments[o].token
                    /\ payments'[o].status \in {"pending", "processing", "succeeded"}
               /\ \A o \in Orders : InStatus(o, "succeeded")' =>
                    InStatus(o, "succeeded") \/ (pc[h] = "accepted" /\ rec[h].order = o)
    <2>1. UNCHANGED transactions /\ TransitionStatus(rec[h].order, from, to)
      BY <1>2 DEF RowStep
    <2>2. rec[h].order \in Orders /\ to \in Statuses
      BY <1>0, <1>2, RowFrame DEF Statuses
    <2>3. /\ payments[rec[h].order] # None /\ payments'[rec[h].order] # None
          /\ payments'[rec[h].order].token = payments[rec[h].order].token
          /\ payments'[rec[h].order].status = to
          /\ \A p \in Orders \ {rec[h].order} : payments'[p] = payments[p]
      BY <1>0, <2>1, <2>2, RowMoved DEF TypeInv, TypeOK, StoreTypeOK
    <2> QED
      BY <1>2, <2>1, <2>2, <2>3 DEF InStatus
  <1>3. CASE Claims(h)
    BY <1>2, <1>3 DEF Claims, Statuses
  <1>4. CASE Releases(h)
    <2>1. pc'[h] = "recording" => pc[h] = "accepted"
      BY <1>0
         DEF Handler, Claim, NotClaimed, ClaimError, Verify, VerifyReply, SettleReply, CallError,
             ReleasePending, ReleasePendingError, ReleaseSucceeded, ReleaseSucceededError,
             Record, RecordError, Goto, End, TypeInv, TypeOK
    <2> QED
      BY <1>2, <1>4, <2>1 DEF Releases, Statuses
  <1> QED
    BY <1>0, <1>1, <1>3, <1>4, HandlerSteps

LEMMA RecordMoney ==
    ASSUME MoneyInv, NEW h \in Handlers, Records(h), UNCHANGED <<gateway, sessions>>
    PROVE  RowsPaid' /\ LedgerPaid'
  <1> DEFINE n == Len(transactions)
  <1>1. /\ n \in Nat /\ DOMAIN transactions = 1 .. n /\ DOMAIN transactions' = 1 .. n + 1
        /\ transactions'[n + 1].order = rec[h].order
        /\ transactions'[n + 1].ref = G!RefID(gateway, cb[h], reply[h])
        /\ \A i \in 1 .. n : transactions'[i] = transactions[i]
    BY DEF Records, SaveTransaction, NewTransaction, MoneyInv, IInv, TypeInv, TypeOK, StoreTypeOK
  <1> HIDE DEF n
  <1>2. PICK s \in Sessions :
           /\ PaidIn(s, rec[h].order)
           /\ gateway # "pasargad" => G!RefID(gateway, cb[h], reply[h]) = s
    BY DEF Records, MoneyInv, HandlerTied, PaymentTied
  <1>3. \A t \in Sessions, o \in Orders : PaidIn(t, o)' <=> PaidIn(t, o)
    BY DEF PaidIn
  <1>4. UNCHANGED payments
    BY DEF Records
  <1>5. LedgerPaid'
    <2> SUFFICES ASSUME NEW i \in 1 .. n + 1
                 PROVE  \E t \in Sessions :
                          /\ PaidIn(t, transactions[i].order)'
                          /\ gateway' # "pasargad" => transactions'[i].ref = t
      BY <1>1 DEF LedgerPaid
    <2>1. CASE i = n + 1
      <3>1. PaidIn(s, transactions[i].order)'
        BY <1>1, <1>2, <2>1 DEF PaidIn
      <3> QED
        BY <1>1, <1>2, <2>1, <3>1
    <2>2. CASE i \in 1 .. n
      <3>1. PICK t \in Sessions :
               /\ PaidIn(t, transactions[i].order)
               /\ gateway # "pasargad" => transactions[i].ref = t
        BY <1>1, <2>2 DEF MoneyInv, LedgerPaid
      <3>2. PaidIn(t, transactions[i].order)'
        BY <1>1, <2>2, <3>1 DEF PaidIn
      <3> QED
        BY <1>1, <2>2, <3>1, <3>2
    <2> QED
      BY <1>1, <2>1, <2>2
  <1>6. RowsPaid'
    <2>1. \A o \in Orders, status \in Statuses : InStatus(o, status)' <=> InStatus(o, status)
      BY <1>4 DEF InStatus
    <2>2. ASSUME NEW o \in Orders, InStatus(o, "refunded")
          PROVE  \E i \in DOMAIN transactions' : transactions'[i].order = o
      BY <1>1, <2>2 DEF MoneyInv, RowsPaid
    <2> QED
      BY <1>3, <2>1, <2>2 DEF MoneyInv, RowsPaid, Statuses
  <1> QED
    BY <1>5, <1>6

LEMMA HandlerMoney ==
    ASSUME MoneyInv, SamanTellsApart, NEW h \in Handlers, Handler(h)
    PROVE  MoneyInv'
  <1>0. IInv /\ IInv' /\ TypeInv
    BY HandlerStep DEF MoneyInv, IInv
  <1>1. /\ UNCHANGED <<gateway, checkout, res, sessions>>
        /\ \A k \in Handlers \ {h} :
             /\ pc'[k] = pc[k] /\ cb'[k] = cb[k] /\ rec'[k] = rec[k]
             /\ reply'[k] = reply[k] /\ wire'[k] = wire[k]
    BY <1>0, HandlerFrame
  <1>2. SessionsGrow /\ TokensStay /\ PagesTied'
    BY <1>1 DEF SessionsGrow, TokensStay, Verified, MoneyInv, PagesTied
  <1>3. \A k \in Handlers : HandlerTied(k)'
    BY <1>0, <1>1, <1>2, HandlerOwn, HandlerAlone DEF MoneyInv
  <1>4. CASE Records(h)
    <2>1. RowsTied'
      BY <1>1, <1>4 DEF Records, MoneyInv, RowsTied
    <2> QED
      BY <1>0, <1>1, <1>2, <1>3, <1>4, <2>1, RecordMoney DEF MoneyInv
  <1>5. CASE ~Records(h)
    <2>1. RowsTied'
      BY <1>1, <1>5, HandlerRows DEF MoneyInv, RowsTied
    <2>2. LedgerPaid'
      BY <1>2, <1>5, HandlerRows, LedgerAlone
    <2>3. ASSUME NEW o \in Orders, InStatus(o, "succeeded")' \/ InStatus(o, "refunded")'
          PROVE  /\ \E s \in Sessions : PaidIn(s, o)'
                 /\ InStatus(o, "refunded")' => InStatus(o, "refunded")
      <3>1. \/ InStatus(o, "succeeded") \/ InStatus(o, "refunded")
            \/ pc[h] = "accepted" /\ rec[h].order = o
        BY <1>5, <2>3, HandlerRows DEF InStatus
      <3>2. PICK s \in Sessions : PaidIn(s, o)
        BY <3>1 DEF MoneyInv, RowsPaid, HandlerTied, PaymentTied
      <3>3. InStatus(o, "refunded")' => InStatus(o, "refunded")
        BY <1>5, HandlerRows DEF InStatus
      <3> QED
        BY <1>2, <3>2, <3>3, PaidStays
    <2>4. RowsPaid'
      BY <1>5, <2>3, HandlerRows DEF MoneyInv, RowsPaid
    <2> QED
      BY <1>0, <1>2, <1>3, <2>1, <2>2, <2>4 DEF MoneyInv
  <1> QED
    BY <1>4, <1>5

-----------------------------------------------------------------------------
(* The theorems.                                                             *)

LEMMA FlowGrows ==
    ASSUME MoneyInv, FlowStep
    PROVE  SessionsGrow /\ TokensStay
  <1>0. IInv /\ TypeInv /\ PagesTied
    BY DEF MoneyInv, IInv
  <1>1. ASSUME NEW o \in Orders, Checkout(o)
        PROVE  SessionsGrow /\ TokensStay
    BY <1>1, CheckoutGrows
  <1>2. ASSUME NEW s \in Sessions, Pay(s) \/ Cancel(s)
        PROVE  SessionsGrow /\ TokensStay
    BY <1>2, CustomerGrows
  <1>3. ASSUME NEW h \in Handlers, Bank(h)
        PROVE  SessionsGrow /\ TokensStay
    <2>1. UNCHANGED res
      BY <1>0, <1>3, BankFrame
    <2> QED
      BY <1>3, <2>1, BankGrows DEF TokensStay
  <1>4. CASE UNCHANGED <<gateway, sessions, res>>
    BY <1>0, <1>4 DEF SessionsGrow, TokensStay, Verified, PagesTied
  <1>5. ASSUME NEW h \in Handlers, Handler(h)
        PROVE  UNCHANGED <<gateway, sessions, res>>
    BY <1>0, <1>5, HandlerFrame
  <1>6. ASSUME \/ ProcessDies \/ UNCHANGED vars
               \/ \E h \in Handlers : Disconnect(h) \/ \E c \in Delivered : Load(h, c)
        PROVE  UNCHANGED <<gateway, sessions, res>>
    BY <1>6 DEF ProcessDies, Disconnect, Load, vars, shopVars
  <1> QED
    BY <1>1, <1>2, <1>3, <1>4, <1>5, <1>6 DEF FlowStep, Running

LEMMA FlowMoney ==
    ASSUME MoneyInv, SamanTellsApart, FlowStep
    PROVE  MoneyInv'
  BY CheckoutMoney, CustomerMoney, LoadMoney, HandlerMoney, BankMoney, FaultMoney
     DEF FlowStep, Running

LEMMA MoneyHolds == ASSUME SamanTellsApart PROVE Spec => []MoneyInv
  <1>1. MoneyInv /\ [Next]_vars => MoneyInv'
    BY FlowMoney, NextFlows
  <1> QED
    BY <1>1, MoneyInit, PTL DEF Spec

LEMMA MoneyProperties ==
    ASSUME MoneyInv
    PROVE  SucceededIsPaid /\ TransactionBacked /\ AcceptedBelongs
  <1>1. SucceededIsPaid
    BY DEF MoneyInv, RowsPaid, SucceededIsPaid, PaidIn
  <1>2. TransactionBacked
    BY DEF MoneyInv, LedgerPaid, TransactionBacked, PaidIn, Charged, G!Settles
  <1>3. AcceptedBelongs
    BY DEF MoneyInv, HandlerTied, PaymentTied, AcceptedBelongs, PaidIn, G!Settles
  <1> QED
    BY <1>1, <1>2, <1>3

\* Nothing is given away: whatever callbacks anyone makes up, in whatever order
\* replies come, and whatever fails, an order succeeds only when the bank
\* verified (on Mellat, settled) a payment made for it.
THEOREM NothingGivenAway == ASSUME SamanTellsApart PROVE Spec => []SucceededIsPaid
  BY MoneyHolds, MoneyProperties, PTL

\* Every transaction names the session its own order was paid in.
THEOREM TransactionsBacked == ASSUME SamanTellsApart PROVE Spec => []TransactionBacked
  BY MoneyHolds, MoneyProperties, PTL

\* What Verify accepts belongs to the order it was called for; of Saman the run
\* saman_token shows that it does not when two orders cost the same.
THEOREM AcceptedBelongsToOrder == ASSUME SamanTellsApart PROVE Spec => []AcceptedBelongs
  BY MoneyHolds, MoneyProperties, PTL

-----------------------------------------------------------------------------
(* The flow implements Fulfilment.  The three sets its promise is about:     *)

Standings == [o \in Orders |-> Standing(o)]
Paying == {sessions[s].order : s \in {t \in Sessions : Charged(t)}}
Ledger == {transactions[i].order : i \in DOMAIN transactions}

\* The row of one order moves from a standing to another.
LEMMA StandingMoves ==
    ASSUME NEW o \in Orders, \A p \in Orders \ {o} : payments'[p] = payments[p]
    PROVE  /\ Standings[o] = Standing(o)
           /\ Standings' = [Standings EXCEPT ![o] = Standing(o)']
  <1>1. \A p \in Orders \ {o} : Standing(p)' = Standing(p)
    BY DEF Standing
  <1> QED
    BY <1>1 DEF Standings

LEMMA StandingsAlone ==
    ASSUME UNCHANGED payments
    PROVE  Standings' = Standings
  BY DEF Standings, Standing

LEMMA FulfilmentInit == Init => F!Init
  <1> SUFFICES ASSUME Init
               PROVE  F!Init
    OBVIOUS
  <1>1. /\ \A o \in Orders : payments[o] = None
        /\ \A s \in Sessions : sessions[s].stage = "unused"
        /\ transactions = <<>>
    BY DEF Init, StoreInit
  <1>2. /\ \A o \in Orders : Standing(o) = "absent"
        /\ \A s \in Sessions : ~Charged(s)
        /\ DOMAIN transactions = {}
    BY <1>1 DEF Standing, Charged
  <1> QED
    BY <1>2 DEF F!Init

LEMMA StepMoves ==
    ASSUME NEW o \in Orders, NEW from, NEW to, Standing(o) = from, Standing(o)' = to,
           \A p \in Orders \ {o} : payments'[p] = payments[p],
           Paying' = Paying, Ledger' = Ledger
    PROVE  F!Move(o, from, to)
  <1>1. /\ Standings[o] = from
        /\ Standings' = [Standings EXCEPT ![o] = to]
    BY StandingMoves
  <1> QED
    BY <1>1 DEF F!Move, Standings, Paying, Ledger

LEMMA PayingAlone ==
    ASSUME \A s \in Sessions : /\ Charged(s)' <=> Charged(s)
                               /\ Charged(s) => sessions'[s].order = sessions[s].order
    PROVE  Paying' = Paying
  BY DEF Paying

LEMMA Stutters ==
    ASSUME UNCHANGED payments, Paying' = Paying, Ledger' = Ledger
    PROVE  UNCHANGED F!vars
  BY StandingsAlone DEF F!vars, Standings, Paying, Ledger

LEMMA CheckoutFulfils ==
    ASSUME MoneyInv, NEW o \in Orders, Checkout(o)
    PROVE  [F!Next]_(F!vars)
  <1>0. IInv /\ TypeInv
    BY DEF MoneyInv, IInv
  <1>1. /\ checkout[o] \notin {"redirected", "over"}
        /\ UNCHANGED transactions
        /\ \A p \in Orders \ {o} : payments'[p] = payments[p]
    BY <1>0, CheckoutEffect
  <1>2. Paying' = Paying /\ Ledger' = Ledger
    <2>1. \A s \in Sessions : /\ Charged(s)' <=> Charged(s)
                              /\ Charged(s) => sessions'[s].order = sessions[s].order
      BY <1>0, CheckoutSession DEF Charged
    <2> QED
      BY <1>1, <2>1, PayingAlone DEF Ledger
  <1>3. Standing(o) \in {"absent", "open"} /\ (payments[o] # None => Standing(o) = "open")
    <2>1. payments[o] # None => payments[o].status \in Statuses
      BY <1>0 DEF TypeInv, TypeOK, StoreTypeOK, StoredPayment
    <2> QED
      BY <1>0, <1>1, <2>1 DEF IInv, StatusPlace, Done, InStatus, Standing, Statuses
  <1>4. CASE payments'[o] = payments[o]
    <2>1. payments \in [Orders -> StoredPayment \cup {None}]
          /\ payments' \in [Orders -> StoredPayment \cup {None}]
      BY <1>0, CheckoutTypes DEF TypeInv, TypeOK, StoreTypeOK
    <2>2. UNCHANGED payments
      BY <1>1, <1>4, <2>1
    <2> QED
      BY <1>2, <2>2, Stutters
  <1>5. CASE payments'[o] # None /\ payments'[o].status = "pending"
    <2>1. Standing(o)' = "open"
      BY <1>5 DEF Standing
    <2>2. F!Move(o, Standing(o), "open")
      BY <1>1, <1>2, <2>1, StepMoves
    <2>3. CASE Standing(o) = "absent"
      BY <2>2, <2>3 DEF F!Next, F!Place
    <2>4. CASE Standing(o) = "open"
      <3>1. Standings' = Standings
        BY <1>1, <2>1, <2>4 DEF Standings, Standing
      <3> QED
        BY <1>2, <3>1 DEF F!vars, Standings, Paying, Ledger
    <2> QED
      BY <1>3, <2>3, <2>4
  <1>6. CASE payments[o] # None /\ payments'[o] # None /\ payments'[o].status = "failed"
    <2>1. Standing(o) = "open" /\ Standing(o)' = "abandoned"
      BY <1>3, <1>6 DEF Standing
    <2>2. F!Move(o, "open", "abandoned")
      BY <1>1, <1>2, <2>1, StepMoves
    <2>3. o \notin Paying
      BY <1>0, <1>1 DEF Paying, Charged, IInv, KnownLater, Known
    <2> QED
      BY <2>2, <2>3 DEF F!Next, F!Abandon, Paying
  <1> QED
    BY <1>0, <1>4, <1>5, <1>6, CheckoutEffect

LEMMA CustomerFulfils ==
    ASSUME MoneyInv, NEW s \in Sessions, Pay(s) \/ Cancel(s)
    PROVE  [F!Next]_(F!vars)
  <1>0. IInv /\ TypeInv
    BY DEF MoneyInv, IInv
  <1>1. PICK o : o = sessions[s].order
    OBVIOUS
  <1>2. PICK stage \in {"paid", "cancelled"} : CustomerDecides(s, stage)
                                                /\ (stage = "cancelled" \/ Pay(s))
    BY DEF Pay, Cancel
  <1>3. /\ sessions[s].order = o /\ sessions[s].stage = "open" /\ Known(o) /\ res[o] = s
        /\ UNCHANGED <<payments, transactions>>
        /\ \A t \in Sessions \ {s} : sessions'[t] = sessions[t]
        /\ sessions'[s].order = o /\ sessions'[s].stage = stage
    BY <1>0, <1>1, <1>2 DEF CustomerDecides, storeVars, TypeInv, TypeOK
  <1>4. Ledger' = Ledger /\ Standings' = Standings
    BY <1>3, StandingsAlone DEF Ledger
  <1>5. CASE stage = "cancelled"
    <2>1. Paying' = Paying
      BY <1>3, <1>5, PayingAlone DEF Charged
    <2> QED
      BY <1>3, <1>4, <2>1, Stutters
  <1>6. CASE stage = "paid"
    <2>1. o \in Orders /\ checkout[o] = "redirected"
      BY <1>3 DEF Known
    <2>2. Paying' = Paying \cup {o}
      <3>1. \A t \in Sessions : Charged(t)' <=> Charged(t) \/ t = s
        BY <1>3, <1>6 DEF Charged
      <3> QED
        BY <1>3, <3>1 DEF Paying
    <2>3. ~InStatus(o, "succeeded") /\ ~InStatus(o, "refunded")
      <3>1. \A t \in Sessions : PaidIn(t, o) => t = s
        BY <1>3 DEF MoneyInv, PagesTied, PaidIn
      <3>2. ~PaidIn(s, o)
        BY <1>3 DEF PaidIn
      <3> QED
        BY <2>1, <3>1, <3>2 DEF MoneyInv, RowsPaid
    <2>4. Standing(o) \in {"open", "claimed"}
      <3>1. payments[o] # None /\ payments[o].status \in Statuses
        BY <1>0, <2>1 DEF MoneyInv, RowsTied, TypeInv, TypeOK, StoreTypeOK, StoredPayment
      <3>2. ~InStatus(o, "failed")
        BY <1>0, <2>1 DEF IInv, StatusPlace
      <3> QED
        BY <2>3, <3>1, <3>2 DEF Standing, InStatus, Statuses
    <2>5. Standings[o] \in {"open", "claimed"}
      BY <2>1, <2>4 DEF Standings
    <2>6. F!Charge(o)
      BY <1>4, <2>2, <2>5 DEF F!Charge, Standings, Paying, Ledger
    <2> QED
      BY <2>1, <2>6 DEF F!Next
  <1> QED
    BY <1>5, <1>6

\* The bank charges nobody by processing a call.
LEMMA BankFulfils ==
    ASSUME MoneyInv, NEW h \in Handlers, Bank(h)
    PROVE  UNCHANGED F!vars
  <1>0. IInv /\ TypeInv
    BY DEF MoneyInv, IInv
  <1>1. UNCHANGED <<payments, transactions>> /\ wire[h] \in Call
    BY <1>0, BankFrame
  <1>2. \A s \in Sessions : /\ Charged(s)' <=> Charged(s)
                            /\ Charged(s) => sessions'[s].order = sessions[s].order
    <2>1. ASSUME NEW s \in Meant(wire[h]), NEW effect \in Effects(wire[h], s),
                 sessions' = [sessions EXCEPT ![s].stage = effect[1]]
          PROVE  /\ Charged(s) /\ Charged(s)'
                 /\ sessions'[s].order = sessions[s].order
                 /\ \A t \in Sessions \ {s} : sessions'[t] = sessions[t]
      <3>1. s \in Sessions /\ Charged(s) /\ effect[1] \in {"verified", "settled"}
        BY <1>1, BankEffects DEF Call
      <3>2. /\ \A t \in Sessions \ {s} : sessions'[t] = sessions[t]
            /\ sessions'[s].order = sessions[s].order /\ sessions'[s].stage = effect[1]
        BY <1>0, <2>1, <3>1 DEF TypeInv, TypeOK
      <3> QED
        BY <3>1, <3>2 DEF Charged
    <2>2. BankProcesses(h) => \E s \in Meant(wire[h]) : \E effect \in Effects(wire[h], s) :
             sessions' = [sessions EXCEPT ![s].stage = effect[1]]
      BY DEF BankProcesses
    <2>3. BankRejects(h) \/ CallLost(h) => UNCHANGED sessions
      BY DEF BankRejects, CallLost
    <2> QED
      BY <2>1, <2>2, <2>3 DEF Bank, Charged
  <1> QED
    BY <1>1, <1>2, PayingAlone, Stutters DEF Ledger

\* A request moves its order as a claim, its release or its record does.
LEMMA HandlerFulfils ==
    ASSUME MoneyInv, NEW h \in Handlers, Handler(h)
    PROVE  [F!Next]_(F!vars)
  <1>0. IInv /\ TypeInv
    BY DEF MoneyInv, IInv
  <1>1. UNCHANGED sessions
    BY <1>0, HandlerFrame
  <1>2. Paying' = Paying
    BY <1>1 DEF Paying, Charged
  <1>3. PICK o : o = rec[h].order
    OBVIOUS
  <1>4. ASSUME Engaged(h)
        PROVE  o \notin Ledger
    BY <1>0, <1>3, <1>4 DEF IInv, OneEngaged, Ledger
  <1>5. ASSUME pc[h] \in {"accepted", "recording"}
        PROVE  o \in Paying
    BY <1>3, <1>5 DEF MoneyInv, HandlerTied, PaymentTied, PaidIn, Paying, Charged, G!Settles
  <1>6. ASSUME NEW from \in Statuses, NEW to \in {"pending", "processing", "succeeded"},
               RowStep(h, o, from, to)
        PROVE  /\ o \in Orders /\ InStatus(o, from) /\ InStatus(o, to)'
               /\ Ledger' = Ledger
               /\ \A p \in Orders \ {o} : payments'[p] = payments[p]
    <2>1. UNCHANGED transactions
      BY <1>6 DEF RowStep
    <2> QED
      BY <1>0, <1>6, <2>1, RowFrame DEF Ledger
  <1>7. CASE UNCHANGED storeVars
    BY <1>2, <1>7, Stutters DEF storeVars, Ledger
  <1>8. CASE Claims(h)
    <2>1. RowStep(h, o, "pending", "processing")
      BY <1>3, <1>8 DEF Claims
    <2>2. /\ o \in Orders /\ InStatus(o, "pending") /\ InStatus(o, "processing")'
          /\ Ledger' = Ledger
          /\ \A p \in Orders \ {o} : payments'[p] = payments[p]
      BY <1>6, <2>1 DEF Statuses
    <2>3. Standing(o) = "open" /\ Standing(o)' = "claimed"
      BY <2>2 DEF Standing, InStatus
    <2>4. F!Move(o, "open", "claimed")
      BY <1>2, <2>2, <2>3, StepMoves
    <2>5. o \notin Ledger
      BY <1>0, <2>2 DEF Ledger, IInv, OneEngaged, Done, InStatus
    <2> QED
      BY <2>2, <2>4, <2>5 DEF F!Next, F!Claim, Ledger
  <1>9. CASE Releases(h)
    <2>1. o \notin Ledger
      BY <1>4, <1>9 DEF Releases, Engaged
    <2>2. CASE RowStep(h, o, "processing", "pending")
      <3>1. /\ o \in Orders /\ InStatus(o, "processing") /\ InStatus(o, "pending")'
            /\ Ledger' = Ledger
            /\ \A p \in Orders \ {o} : payments'[p] = payments[p]
        BY <1>6, <2>2 DEF Statuses
      <3>2. Standing(o) = "claimed" /\ Standing(o)' = "open"
        BY <3>1 DEF Standing, InStatus
      <3>3. F!Move(o, "claimed", "open")
        BY <1>2, <3>1, <3>2, StepMoves
      <3> QED
        BY <2>1, <3>1, <3>3 DEF F!Next, F!Unclaim, Ledger
    <2>3. CASE RowStep(h, o, "processing", "succeeded")
      <3>1. /\ o \in Orders /\ InStatus(o, "processing") /\ InStatus(o, "succeeded")'
            /\ Ledger' = Ledger
            /\ \A p \in Orders \ {o} : payments'[p] = payments[p]
        BY <1>6, <2>3 DEF Statuses
      <3>2. Standing(o) = "claimed" /\ Standing(o)' = "fulfilled"
        BY <3>1 DEF Standing, InStatus
      <3>3. F!Move(o, "claimed", "fulfilled")
        BY <1>2, <3>1, <3>2, StepMoves
      <3>4. pc[h] = "accepted" \/ InStatus(o, "succeeded")
        BY <3>1, HandlerRows, <1>3, <2>3 DEF Records, RowStep, TransitionStatus, InStatus
      <3>5. o \in Paying
        BY <1>5, <3>1, <3>4 DEF InStatus
      <3> QED
        BY <2>1, <3>1, <3>3, <3>5 DEF F!Next, F!Fulfil, Ledger, Paying
    <2> QED
      BY <1>3, <1>9, <2>2, <2>3 DEF Releases
  <1>10. CASE Records(h)
    <2>1. /\ Engaged(h) /\ pc[h] = "recording" /\ UNCHANGED payments
      BY <1>10 DEF Records, Engaged
    <2>2. o \in Orders /\ Done(o)
      BY <1>0, <1>3, <2>1 DEF IInv, OneEngaged, KnownLater, Known
    <2>3. o \notin Ledger /\ o \in Paying
      BY <1>4, <1>5, <2>1
    <2>4. ~InStatus(o, "refunded")
      BY <2>2, <2>3 DEF MoneyInv, RowsPaid, Ledger
    <2>5. Standings[o] \in {"claimed", "fulfilled"}
      BY <2>2, <2>4 DEF Standings, Standing, Done, InStatus
    <2>6. Ledger' = Ledger \cup {o}
      <3> DEFINE n == Len(transactions)
      <3>1. /\ n \in Nat /\ DOMAIN transactions = 1 .. n /\ DOMAIN transactions' = 1 .. n + 1
            /\ transactions'[n + 1].order = o
            /\ \A i \in 1 .. n : transactions'[i] = transactions[i]
        BY <1>0, <1>3, <1>10
           DEF Records, SaveTransaction, NewTransaction, TypeInv, TypeOK, StoreTypeOK
      <3> HIDE DEF n
      <3>2. 1 .. n + 1 = 1 .. n \cup {n + 1}
        BY <3>1
      <3> QED
        BY <3>1, <3>2 DEF Ledger
    <2>7. Standings' = Standings
      BY <2>1, StandingsAlone
    <2>8. F!Book(o)
      BY <1>2, <2>3, <2>5, <2>6, <2>7 DEF F!Book, Standings, Paying, Ledger
    <2> QED
      BY <2>2, <2>8 DEF F!Next
  <1> QED
    BY <1>0, <1>7, <1>8, <1>9, <1>10, HandlerSteps

\* Callbacks that arrive, clients that go away and crashes change nothing.
LEMMA OthersFulfil ==
    ASSUME \/ ProcessDies \/ UNCHANGED vars
           \/ \E h \in Handlers : Disconnect(h) \/ \E c \in Delivered : Load(h, c)
    PROVE  UNCHANGED F!vars
  <1>1. UNCHANGED <<payments, transactions, sessions>>
    BY DEF ProcessDies, Disconnect, Load, vars, storeVars
  <1> QED
    BY <1>1, Stutters DEF Paying, Ledger, Charged

LEMMA FlowFulfils ==
    ASSUME MoneyInv, FlowStep
    PROVE  [F!Next]_(F!vars)
  BY CheckoutFulfils, CustomerFulfils, BankFulfils, HandlerFulfils, OthersFulfil
     DEF FlowStep, Running

\* The flow, with its gateways, concurrent requests, lost replies, failed
\* statements and crashes, implements Fulfilment: every step of it is a step of
\* the promise or changes nothing the promise is about.
THEOREM FlowImplementsFulfilment == ASSUME SamanTellsApart PROVE Spec => Fulfilled
  <1>1. MoneyInv /\ [Next]_vars => [F!Next]_(F!vars)
    BY FlowFulfils, NextFlows
  <1> QED
    BY <1>1, FulfilmentInit, MoneyHolds, PTL DEF Spec, Fulfilled, F!Spec

=============================================================================
