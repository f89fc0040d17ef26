------------------------------- MODULE Webshop -------------------------------
(***************************************************************************)
(* The payment flow payjet documents and examples/webshop runs: checkouts  *)
(* (checkoutHandler), callback handlers (callbackHandler, release), the    *)
(* default stores (PaymentStore), the gateway's Verify (Gateways), and,    *)
(* external, the bank and the customer.                                    *)
(*                                                                         *)
(* A slot of Handlers is one callback request at a time: it is idle, then  *)
(* serves a request step by step, then is idle again, so the number of     *)
(* requests is unbounded and |Handlers| is how many run at once.  A call   *)
(* to the bank stays in flight (wire) after its handler has given up on it *)
(* or died, and the bank may still process it then.                        *)
(*                                                                         *)
(* buildGateway offers five of the banks and the virtual gateway, which is  *)
(* its own bank inside the shop's process; the flow is run under Pasargad,  *)
(* too, since the README documents it for every gateway (README.md:349).    *)
(***************************************************************************)
EXTENDS PaymentStore

CONSTANTS
    Handlers,   \* slots for concurrent callback requests
    Gateways,   \* the gateways the shop may be configured with
    Price,      \* order -> amount
    Stray,      \* callbacks anyone may send, besides the bank's own
    Faults      \* what may go wrong, a subset of FaultKinds

G == INSTANCE Gateways

\* transport: a call to the bank fails or its reply is lost; refusal: the bank
\* answers an error without acting; db: a statement fails; disconnect: the
\* request's context is cancelled; crash: the shop's process dies.
FaultKinds == {"transport", "refusal", "db", "disconnect", "crash"}

Callback == [ok : BOOLEAN, order : Orders \cup {None}, token : Sessions \cup {None},
             ref : Sessions \cup {None}, amount : Nat \cup {None}]

ASSUME GatewaysAssumption == Gateways \subseteq G!GatewayNames
ASSUME PriceAssumption == Price \in [Orders -> Nat] /\ None \notin Nat
ASSUME StrayAssumption == Stray \subseteq Callback
ASSUME FaultsAssumption == Faults \subseteq FaultKinds
ASSUME HandlersAssumption == None \notin Handlers

VARIABLES
    gateway,    \* the configured gateway (buildGateway)
    checkout,   \* order -> where its checkoutHandler is
    res,        \* order -> the token its checkoutHandler got from Request
    sessions,   \* the bank: session -> [order, stage]
    forgotten,  \* the sessions a virtual gateway lost when its process died
    pc, cb, rec,    \* handler -> its step, its callback, the payment it loaded
    reply,      \* handler -> the bank's answer waiting to be read
    gone,       \* handler -> its request context is cancelled
    wire        \* handler -> its call on the way to the bank

\* The virtual gateway answers under a mutex in the shop's own process: its
\* calls are neither lost nor cancelled, and end with the process.
InProcess == gateway = "virtual"

shopVars == <<checkout, res>>
handlerVars == <<pc, cb, rec, reply, gone>>
vars == <<storeVars, gateway, forgotten, shopVars, sessions, handlerVars, wire>>

Checkouts == {"new", "saved", "refused", "issued", "recorded", "redirected", "over"}
Stages == {"unused", "open", "cancelled", "paid", "verified", "settled"}
Steps == {"idle", "loaded", "claimed", "verifying", "settling", "failing",
          "accepted", "recording"}

Payment == [order : Orders, amount : Nat, token : Sessions \cup {None}]
Reply == [code : {"ok", "already", "unpaid", "rejected"}, ref : Sessions \cup {None},
          amount : Nat \cup {None}]
Call == [op : {"verify", "settle"}, session : Sessions,
         order : Orders \cup {None}, amount : Nat \cup {None}]

TypeOK ==
    /\ StoreTypeOK
    /\ gateway \in Gateways
    /\ checkout \in [Orders -> Checkouts]
    /\ res \in [Orders -> Sessions \cup {None}]
    /\ sessions \in [Sessions -> [order : Orders \cup {None}, stage : Stages]]
    /\ forgotten \subseteq Sessions
    /\ pc \in [Handlers -> Steps]
    /\ cb \in [Handlers -> Callback \cup {None}]
    /\ rec \in [Handlers -> Payment \cup {None}]
    /\ reply \in [Handlers -> Reply \cup {None}]
    /\ gone \in [Handlers -> BOOLEAN]
    /\ wire \in [Handlers -> Call \cup {None}]

Init ==
    /\ StoreInit
    /\ gateway \in Gateways
    /\ checkout = [o \in Orders |-> "new"]
    /\ res = [o \in Orders |-> None]
    /\ sessions = [s \in Sessions |-> [order |-> None, stage |-> "unused"]]
    /\ forgotten = {}
    /\ pc = [h \in Handlers |-> "idle"]
    /\ cb = [h \in Handlers |-> None]
    /\ rec = [h \in Handlers |-> None]
    /\ reply = [h \in Handlers |-> None]
    /\ gone = [h \in Handlers |-> FALSE]
    /\ wire = [h \in Handlers |-> None]

-----------------------------------------------------------------------------
(* checkoutHandler.  Its own context may be cancelled too, so a statement of *)
(* it fails for the same two reasons.                                        *)

CheckoutBreaks == Faults \cap {"db", "disconnect"} # {}

CheckoutAt(o, from, to) ==
    /\ checkout[o] = from
    /\ checkout' = [checkout EXCEPT ![o] = to]
    /\ UNCHANGED <<transactions, gateway, forgotten, handlerVars, wire>>

SaveOrder(o) ==
    /\ CheckoutAt(o, "new", "saved")
    /\ SavePayment(o, NewStoredPayment)
    /\ UNCHANGED <<res, sessions>>

\* The handler stops on an error, whether or not the row was written.
SaveOrderError(o) ==
    /\ CheckoutBreaks
    /\ CheckoutAt(o, "new", "over")
    /\ SavePayment(o, NewStoredPayment) \/ UNCHANGED payments
    /\ UNCHANGED <<res, sessions>>

\* Gateway.Request returns: the bank opened session s for the order.
Request(o, s) ==
    /\ sessions[s].stage = "unused"
    /\ CheckoutAt(o, "saved", "issued")
    /\ sessions' = [sessions EXCEPT ![s] = [order |-> o, stage |-> "open"]]
    /\ res' = [res EXCEPT ![o] = s]
    /\ UNCHANGED payments

\* Request fails; the bank may have opened a session nobody will hear of.
RequestError(o) ==
    /\ ~InProcess /\ Faults \cap {"transport", "refusal", "disconnect"} # {}
    /\ CheckoutAt(o, "saved", "refused")
    /\ \/ UNCHANGED sessions
       \/ \E s \in Sessions :
            /\ sessions[s].stage = "unused"
            /\ sessions' = [sessions EXCEPT ![s] = [order |-> o, stage |-> "open"]]
    /\ UNCHANGED <<payments, res>>

\* The SetStatus(Failed) after a failed Request; its own error is ignored.
MarkFailed(o) ==
    /\ CheckoutAt(o, "refused", "over")
    /\ SetStatus(o, "failed") \/ (CheckoutBreaks /\ UNCHANGED payments)
    /\ UNCHANGED <<res, sessions>>

\* The second save writes the handler's own copy of the row, Status included.  A
\* token it always has: only a malformed success of Mellat comes without one, and
\* then the bank has no page to send the customer to.
SaveToken(o) ==
    /\ CheckoutAt(o, "issued", "recorded")
    /\ SavePayment(o, [status |-> "pending", token |-> res[o]])
    /\ UNCHANGED <<res, sessions>>

SaveTokenError(o) ==
    /\ CheckoutBreaks
    /\ CheckoutAt(o, "issued", "over")
    /\ \/ SavePayment(o, [status |-> "pending", token |-> res[o]])
       \/ UNCHANGED payments
    /\ UNCHANGED <<res, sessions>>

\* The customer gets the bank's page, or the redirect is never delivered.
Redirect(o) ==
    /\ \/ CheckoutAt(o, "recorded", "redirected")
       \/ "disconnect" \in Faults /\ CheckoutAt(o, "recorded", "over")
    /\ UNCHANGED <<payments, res, sessions>>

Checkout(o) ==
    \/ SaveOrder(o) \/ SaveOrderError(o)
    \/ (\E s \in Sessions : Request(o, s)) \/ RequestError(o) \/ MarkFailed(o)
    \/ SaveToken(o) \/ SaveTokenError(o)
    \/ Redirect(o)

-----------------------------------------------------------------------------
(* The customer on the bank's page. *)

Known(o) == o \in Orders /\ checkout[o] = "redirected"

CustomerDecides(s, stage) ==
    /\ sessions[s].stage = "open" /\ s \notin forgotten
    /\ Known(sessions[s].order)
    /\ res[sessions[s].order] = s
    /\ sessions' = [sessions EXCEPT ![s].stage = stage]
    /\ UNCHANGED <<storeVars, gateway, forgotten, shopVars, handlerVars, wire>>

Pay(s) == CustomerDecides(s, "paid")
Cancel(s) == CustomerDecides(s, "cancelled")

Charged(s) == sessions[s].stage \in {"paid", "verified", "settled"}

-----------------------------------------------------------------------------
(* The callbacks a slot may receive.  The bank's own (through the customer's *)
(* browser) come any number of times; a stray one cannot name an order or a  *)
(* session before its customer was redirected, nor a reference before it     *)
(* exists: order IDs are random (newOrderID) and so are tokens.              *)

Genuine(s) ==
    [ok     |-> Charged(s),
     order  |-> sessions[s].order,
     token  |-> s,
     ref    |-> IF Charged(s) THEN s ELSE None,
     amount |-> Price[sessions[s].order]]

\* A bug: order IDs taken from the clock, so anyone can name any order.
Guessable(c) == c.ref # None => Charged(c.ref)

Nameable(c) ==
    /\ c.order # None => Known(c.order)
    /\ c.token # None => Known(sessions[c.token].order)
    /\ c.ref # None => Charged(c.ref)

Delivered ==
    {Genuine(s) : s \in {t \in Sessions : Charged(t) \/ sessions[t].stage = "cancelled"}}
        \cup {c \in Stray : Nameable(c)}

-----------------------------------------------------------------------------
(* callbackHandler. *)

\* GetPayment by the gateway's key, then GetPaymentByToken by the same key.
LoadPayment(key) ==
    IF GetPayment(key) # {} THEN GetPayment(key) ELSE GetPaymentByToken(key)

Goto(h, from, to) ==
    /\ pc[h] = from
    /\ pc' = [pc EXCEPT ![h] = to]
    /\ UNCHANGED <<gateway, forgotten, shopVars, cb, rec, gone>>

\* The request ends and the slot is free again.  A call of it may still be
\* on the wire.
End(h) ==
    /\ pc' = [pc EXCEPT ![h] = "idle"]
    /\ cb' = [cb EXCEPT ![h] = None]
    /\ rec' = [rec EXCEPT ![h] = None]
    /\ reply' = [reply EXCEPT ![h] = None]
    /\ gone' = [gone EXCEPT ![h] = FALSE]
    /\ UNCHANGED <<gateway, forgotten, shopVars, sessions, wire>>

\* A statement of this request may fail.
Breaks(h) == "db" \in Faults \/ gone[h]

\* A request for which nothing is found, or whose lookup fails, changes
\* nothing; only one that finds its payment is followed.
Load(h, c) ==
    /\ pc[h] = "idle"
    /\ wire[h] = None
    /\ pc' = [pc EXCEPT ![h] = "loaded"]
    /\ cb' = [cb EXCEPT ![h] = c]
    /\ \E o \in LoadPayment(G!CallbackOrderID(gateway, c)) :
        rec' = [rec EXCEPT ![h] =
                 [order |-> o, amount |-> Price[o], token |-> payments[o].token]]
    /\ UNCHANGED <<storeVars, gateway, forgotten, shopVars, sessions, reply, gone, wire>>

\* A bug: the claim does not exclude a payment being verified already.
ClaimBlind(h) ==
    /\ Goto(h, "loaded", "claimed")
    /\ payments[rec[h].order].status \in {"pending", "processing"}
    /\ SetStatus(rec[h].order, "processing")
    /\ UNCHANGED <<transactions, sessions, reply, wire>>

Claim(h) ==
    /\ Goto(h, "loaded", "claimed")
    /\ ~gone[h]
    /\ TransitionStatus(rec[h].order, "pending", "processing")
    /\ UNCHANGED <<transactions, sessions, reply, wire>>

\* Another request has claimed the payment, or it is finished.
NotClaimed(h) ==
    /\ pc[h] = "loaded"
    /\ ~InStatus(rec[h].order, "pending")
    /\ End(h)
    /\ UNCHANGED storeVars

\* On an error the handler stops, although the row may have been updated.
ClaimError(h) ==
    /\ pc[h] = "loaded"
    /\ Breaks(h)
    /\ \/ TransitionStatus(rec[h].order, "pending", "processing")
       \/ UNCHANGED payments
    /\ End(h)
    /\ UNCHANGED transactions

\* Verify up to its bank call: a failed check ends it there.
Verify(h) ==
    /\ pc[h] = "claimed"
    /\ IF G!Checks(gateway, rec[h], cb[h]) = "send"
         THEN /\ Goto(h, "claimed", "verifying")
              /\ wire' = [wire EXCEPT ![h] = G!VerifyCall(gateway, rec[h], cb[h])]
         ELSE /\ Goto(h, "claimed", "failing")
              /\ UNCHANGED wire
    /\ UNCHANGED <<storeVars, sessions, reply>>

\* The bank's answer to the verify call arrives.
VerifyReply(h) ==
    /\ pc[h] = "verifying"
    /\ reply[h] # None
    /\ gone[h] => InProcess
    /\ LET outcome == G!Outcome(gateway, rec[h], cb[h], reply[h])
       IN  \/ /\ outcome # "verified"
              /\ Goto(h, "verifying", "failing")
              /\ reply' = [reply EXCEPT ![h] = None]
              /\ UNCHANGED wire
           \/ /\ outcome = "verified"
              /\ G!Settles(gateway)
              /\ Goto(h, "verifying", "settling")
              /\ reply' = [reply EXCEPT ![h] = None]
              /\ wire' = [wire EXCEPT ![h] =
                    G!MellatSettleCall(rec[h], cb[h])]
           \/ /\ outcome = "verified"
              /\ ~G!Settles(gateway)
              /\ Goto(h, "verifying", "accepted")
              /\ UNCHANGED <<reply, wire>>
    /\ UNCHANGED <<storeVars, sessions>>

\* Mellat's settle answers: settled now or before, or a fault to retry.
SettleReply(h) ==
    /\ reply[h] # None
    /\ ~gone[h]
    /\ \/ /\ G!MellatSettled(reply[h]) = "verified"
          /\ Goto(h, "settling", "accepted")
          /\ UNCHANGED reply
       \/ /\ G!MellatSettled(reply[h]) # "verified"
          /\ Goto(h, "settling", "failing")
          /\ reply' = [reply EXCEPT ![h] = None]
    /\ UNCHANGED <<storeVars, sessions, wire>>

\* A bug: a failed call returns without releasing the claim.
CallErrorReturns(h) ==
    /\ pc[h] \in {"verifying", "settling"}
    /\ "transport" \in Faults \/ gone[h]
    /\ End(h)
    /\ UNCHANGED storeVars

\* The call fails: a timeout, a lost reply, a reply that does not parse, the
\* request's context cancelled, Pasargad's login refused.  The call itself may
\* still be on its way to the bank.
CallError(h) ==
    /\ ~InProcess /\ ("transport" \in Faults \/ gone[h])
    /\ Goto(h, "verifying", "failing") \/ Goto(h, "settling", "failing")
    /\ reply' = [reply EXCEPT ![h] = None]
    /\ UNCHANGED <<storeVars, sessions, wire>>

\* A bug, of releases before 0.11: a failed verify fails the order.
ReleaseFailed(h) ==
    /\ pc[h] = "failing"
    /\ ~gone[h]
    /\ TransitionStatus(rec[h].order, "processing", "failed")
    /\ End(h)
    /\ UNCHANGED transactions

\* A failed verify puts the payment back to pending and ends the request.
ReleasePending(h) ==
    /\ pc[h] = "failing"
    /\ ~gone[h]
    /\ \/ TransitionStatus(rec[h].order, "processing", "pending")
       \/ ~InStatus(rec[h].order, "processing") /\ UNCHANGED payments
    /\ End(h)
    /\ UNCHANGED transactions

\* An error of the release is logged; the request ends all the same.
ReleasePendingError(h) ==
    /\ pc[h] = "failing"
    /\ Breaks(h)
    /\ \/ TransitionStatus(rec[h].order, "processing", "pending")
       \/ UNCHANGED payments
    /\ End(h)
    /\ UNCHANGED transactions

\* A bug: a status of the README's quick start, unknown to the stores.
ReleasePaid(h) ==
    /\ Goto(h, "accepted", "recording")
    /\ ~gone[h]
    /\ TransitionStatus(rec[h].order, "processing", "paid")
    /\ UNCHANGED <<transactions, sessions, reply, wire>>

ReleaseSucceeded(h) ==
    /\ Goto(h, "accepted", "recording")
    /\ ~gone[h]
    /\ \/ TransitionStatus(rec[h].order, "processing", "succeeded")
       \/ ~InStatus(rec[h].order, "processing") /\ UNCHANGED payments
    /\ UNCHANGED <<transactions, sessions, reply, wire>>

\* After an error of this release, too, the transaction is saved.
ReleaseSucceededError(h) ==
    /\ Goto(h, "accepted", "recording")
    /\ Breaks(h)
    /\ \/ TransitionStatus(rec[h].order, "processing", "succeeded")
       \/ UNCHANGED payments
    /\ UNCHANGED <<transactions, sessions, reply, wire>>

NewTransaction(h) ==
    [order |-> rec[h].order, ref |-> G!RefID(gateway, cb[h], reply[h])]

\* A bug: a payment verified before is taken to be recorded already.
RecordUnlessRepeat(h) ==
    /\ pc[h] = "recording"
    /\ ~gone[h]
    /\ IF reply[h].code = "already" THEN UNCHANGED transactions
                                     ELSE SaveTransaction(NewTransaction(h))
    /\ End(h)
    /\ UNCHANGED payments

Record(h) ==
    /\ pc[h] = "recording"
    /\ ~gone[h]
    /\ SaveTransaction(NewTransaction(h))
    /\ End(h)
    /\ UNCHANGED payments

RecordError(h) ==
    /\ pc[h] = "recording"
    /\ Breaks(h)
    /\ SaveTransaction(NewTransaction(h)) \/ UNCHANGED transactions
    /\ End(h)
    /\ UNCHANGED payments

\* The client goes away: net/http cancels the request's context.
Disconnect(h) ==
    /\ "disconnect" \in Faults
    /\ pc[h] # "idle"
    /\ ~gone[h]
    /\ gone' = [gone EXCEPT ![h] = TRUE]
    /\ UNCHANGED <<storeVars, gateway, forgotten, shopVars, sessions, pc, cb, rec, reply, wire>>

Handler(h) ==
    \/ Claim(h) \/ NotClaimed(h) \/ ClaimError(h)
    \/ Verify(h) \/ VerifyReply(h) \/ SettleReply(h) \/ CallError(h)
    \/ ReleasePending(h) \/ ReleasePendingError(h)
    \/ ReleaseSucceeded(h) \/ ReleaseSucceededError(h)
    \/ Record(h) \/ RecordError(h)

-----------------------------------------------------------------------------
(* The bank, as the gateways use it. *)

\* The session a call means, if the bank finds what the call says to be true.
Meant(call) ==
    {s \in Sessions \ forgotten :
        /\ s = call.session
        /\ Charged(s)
        /\ call.order \in {None, sessions[s].order}
        /\ call.amount \in {None, Price[sessions[s].order]}}

\* An error code; Zarinpal has one for a session that was not paid.
Refusal(call) ==
    [code |-> IF gateway = "zarinpal" /\ ~Charged(call.session) THEN "unpaid"
                                                                ELSE "rejected",
     ref |-> None, amount |-> None]

Answer(code, s) == [code |-> code, ref |-> s, amount |-> Price[sessions[s].order]]

\* A repeated verify: a code of its own, which Saman may send without the
\* transaction's details; of Parsian and Pasargad the code knows no such reply
\* and the bank may confirm again or refuse.
RepeatAnswers(call, s) ==
    IF gateway = "saman"
      THEN {Answer("already", s), [code |-> "already", ref |-> None, amount |-> None]}
    ELSE IF gateway \in {"parsian", "pasargad"} THEN {Answer("ok", s), Refusal(call)}
    ELSE {Answer("already", s)}

\* What a call does to the session it means: its next stage and the answer.
Effects(call, s) ==
    IF call.op = "verify"
      THEN IF sessions[s].stage = "paid"
             THEN {<<"verified", Answer("ok", s)>>}
             ELSE {sessions[s].stage} \X RepeatAnswers(call, s)
      ELSE IF sessions[s].stage = "settled"
             THEN {<<"settled", Answer("already", s)>>}
             ELSE {<<"settled", Answer("ok", s)>>}

\* The answer reaches the handler only if it still waits for it.
Reaches(h, answer) ==
    reply' = IF pc[h] \in {"verifying", "settling"}
               THEN [reply EXCEPT ![h] = answer] ELSE reply

BankProcesses(h) ==
    /\ wire[h] # None
    /\ \E s \in Meant(wire[h]) : \E effect \in Effects(wire[h], s) :
        /\ sessions' = [sessions EXCEPT ![s].stage = effect[1]]
        /\ Reaches(h, effect[2])
    /\ wire' = [wire EXCEPT ![h] = None]
    /\ UNCHANGED <<storeVars, gateway, forgotten, shopVars, pc, cb, rec, gone>>

BankRejects(h) ==
    /\ wire[h] # None
    /\ Meant(wire[h]) = {} \/ ("refusal" \in Faults /\ ~InProcess)
    /\ Reaches(h, Refusal(wire[h]))
    /\ wire' = [wire EXCEPT ![h] = None]
    /\ UNCHANGED <<storeVars, gateway, forgotten, shopVars, sessions, pc, cb, rec, gone>>

\* A call nobody waits for never arrives.
CallLost(h) ==
    /\ wire[h] # None
    /\ pc[h] \notin {"verifying", "settling"}
    /\ wire' = [wire EXCEPT ![h] = None]
    /\ UNCHANGED <<storeVars, gateway, forgotten, shopVars, sessions, handlerVars>>

Bank(h) == BankProcesses(h) \/ BankRejects(h) \/ CallLost(h)

-----------------------------------------------------------------------------
\* The process dies: every request and every checkout under way ends.  The
\* database, the bank and calls on the wire stay; the virtual gateway forgets.
ProcessDies ==
    /\ checkout' = [o \in Orders |-> IF checkout[o] \in {"new", "redirected"}
                                       THEN checkout[o] ELSE "over"]
    /\ pc' = [h \in Handlers |-> "idle"]
    /\ cb' = [h \in Handlers |-> None]
    /\ rec' = [h \in Handlers |-> None]
    /\ reply' = [h \in Handlers |-> None]
    /\ gone' = [h \in Handlers |-> FALSE]
    /\ IF InProcess
         THEN /\ forgotten' = {s \in Sessions : sessions[s].stage # "unused"}
              /\ wire' = [h \in Handlers |-> None]
         ELSE UNCHANGED <<forgotten, wire>>
    /\ UNCHANGED <<storeVars, gateway, res, sessions>>

\* There is something for a crash to end.
Busy ==
    \/ \E h \in Handlers : pc[h] # "idle"
    \/ \E o \in Orders : checkout[o] \notin {"new", "redirected", "over"}
    \/ InProcess /\ \E s \in Sessions \ forgotten : sessions[s].stage # "unused"

Crash == "crash" \in Faults /\ Busy /\ ProcessDies

Running ==
    \/ \E o \in Orders : Checkout(o)
    \/ \E s \in Sessions : Pay(s) \/ Cancel(s)
    \/ \E h \in Handlers : (\E c \in Delivered : Load(h, c)) \/ Handler(h) \/ Disconnect(h) \/ Bank(h)

Next == Running \/ Crash

Spec == Init /\ [][Next]_vars

-----------------------------------------------------------------------------
(* Properties. *)

\* The request is between the claim of its payment and its release.
Holding(h) == pc[h] \in {"claimed", "verifying", "settling", "failing", "accepted"}

Holds(h, o) == Holding(h) /\ rec[h].order = o

\* The claim is exclusive: of all the callbacks for one payment at most one is
\* being verified, and while it is, the row says processing
\* (examples/webshop/main.go:257-270, store.go:142-147).
ClaimExclusive ==
    /\ \A h \in Handlers : Holding(h) => InStatus(rec[h].order, "processing")
    /\ \A h, k \in Handlers :
        Holding(h) /\ Holding(k) /\ rec[h].order = rec[k].order => h = k

\* An order is fulfilled once: however many callbacks arrive, together or
\* after one another, at most one transaction is recorded for it.
FulfilledOnce ==
    \A i, j \in DOMAIN transactions :
        transactions[i].order = transactions[j].order => i = j

\* Nothing is given away: a succeeded order was paid for by a session opened
\* for it, which the bank verified and, on Mellat, settled.
SucceededIsPaid ==
    \A o \in Orders : InStatus(o, "succeeded") =>
        \E s \in Sessions :
            /\ sessions[s].order = o
            /\ sessions[s].stage = IF G!Settles(gateway) THEN "settled" ELSE "verified"

\* Every recorded transaction names the session its own order was paid in, so
\* no payment stands for two orders.  Not so under Pasargad, whose result repeats
\* the callback's reference unchecked (pasargad/pasargad.go:258).
TransactionBacked ==
    gateway # "pasargad" => \A i \in DOMAIN transactions :
        \E s \in Sessions :
            /\ transactions[i].ref = s
            /\ sessions[s].order = transactions[i].order
            /\ Charged(s)

\* The transaction Verify accepted belongs to the order it was called for (of
\* Saman: "The checks below still tie the transaction to this order",
\* saman/saman.go:198-199; of Payment.Token: "so the gateway can check that the
\* callback belongs to this payment", gateway.go:84-87).
AcceptedBelongs ==
    \A h \in Handlers : pc[h] \in {"accepted", "recording"} =>
        \E s \in Sessions :
            sessions[s].order = rec[h].order
            /\ sessions[s].stage \in {"verified", "settled"}

\* An order is failed only while nobody can have paid for it
\* (examples/webshop/main.go:213-219).
FailedNeverPaid ==
    \A o \in Orders : InStatus(o, "failed") =>
        \A s \in Sessions : sessions[s].order = o => ~Charged(s)

\* While only calls to the bank fail, every processing payment is held by a
\* request that will release it ("On any error, put it back to pending").
NoOrphan ==
    \A o \in Orders : InStatus(o, "processing") => \E h \in Handlers : Holds(h, o)

\* While no statement fails, a succeeded order has its transaction, which a
\* refund needs, or the request recording it is under way.
SucceededRecorded ==
    \A o \in Orders : InStatus(o, "succeeded") =>
        \/ \E i \in DOMAIN transactions : transactions[i].order = o
        \/ \E h \in Handlers : pc[h] = "recording" /\ rec[h].order = o

\* Succeeded and failed are final: no late callback, checkout step, retry or
\* restart changes such a row again.
FinalStatus ==
    [][\A o \in Orders : InStatus(o, "succeeded") \/ InStatus(o, "failed")
            => payments'[o] = payments[o]]_vars

\* A request whose verify failed ends with its payment back to pending ("On any
\* error, put it back to pending", README.md:359-360), whoever comes meanwhile.
FailedVerifyReleases ==
    [][\A h \in Handlers : pc[h] = "failing" /\ pc'[h] = "idle"
            => payments'[rec[h].order].status = "pending"]_vars

\* Only the request that claimed a payment moves it on from processing.
OnlyHolderReleases ==
    [][\A o \in Orders : InStatus(o, "processing") /\ payments'[o] # payments[o]
            => \E h \in Handlers : Holds(h, o) /\ pc'[h] \in {"idle", "recording"}]_vars

-----------------------------------------------------------------------------
(* Refinement: the promise of Fulfilment, read off the rows and the bank. *)

Standing(o) ==
    IF payments[o] = None THEN "absent"
    ELSE IF payments[o].status = "pending" THEN "open"
    ELSE IF payments[o].status = "processing" THEN "claimed"
    ELSE IF payments[o].status = "succeeded" THEN "fulfilled"
    ELSE IF payments[o].status = "failed" THEN "abandoned"
    ELSE "refunded"

F == INSTANCE Fulfilment WITH
        standing <- [o \in Orders |-> Standing(o)],
        charged <- {sessions[s].order : s \in {t \in Sessions : Charged(t)}},
        ledger <- {transactions[i].order : i \in DOMAIN transactions},
        returned <- {}

\* The whole flow, with its gateways, concurrent requests, lost replies, failed
\* statements and crashes, keeps the promise.
Fulfilled == F!Spec

-----------------------------------------------------------------------------
(* Liveness. *)

\* A running request takes its next step, and a call sent is answered or lost:
\* no handler waits for anything but the database and the HTTP client, whose
\* timeout is 30 seconds (gateway.go:16-25).
HandlerFairness == \A h \in Handlers : WF_vars(Handler(h)) /\ WF_vars(Bank(h))

\* The bank answers, and not every answer of it is lost.
BankConfirms(h, op) ==
    /\ wire[h] # None /\ wire[h].op = op
    /\ BankProcesses(h)
    /\ reply'[h] # None /\ reply'[h].ref # None

BankFairness ==
    /\ SF_vars(\E h \in Handlers : BankConfirms(h, "verify"))
    /\ SF_vars(\E h \in Handlers : BankConfirms(h, "settle"))
    /\ SF_vars(\E h \in Handlers : VerifyReply(h) /\ pc'[h] # "failing")
    /\ SF_vars(\E h \in Handlers : SettleReply(h) /\ pc'[h] # "failing")

\* The customer (or the bank) comes back with the callback until it is served,
\* and not each time while a stray callback holds the claim or just before one
\* takes it.
CallbackFairness ==
    \A s \in Sessions :
        /\ SF_vars(/\ Charged(s) /\ InStatus(sessions[s].order, "pending")
                   /\ \E h \in Handlers : Load(h, Genuine(s)))
        /\ SF_vars(Charged(s) /\ \E h \in Handlers : cb[h] = Genuine(s) /\ Claim(h))

FairSpec == Spec /\ HandlerFairness

RetrySpec == FairSpec /\ BankFairness /\ CallbackFairness

\* No payment stays claimed for ever while requests end by themselves.
ClaimReleased ==
    \A o \in Orders : InStatus(o, "processing") ~> ~InStatus(o, "processing")

\* The bank verified the payment, but the one reply that said so was lost, and
\* the gateway has no code for a repeated verify.
ReplyLost(s) ==
    /\ gateway \in {"parsian", "pasargad"}
    /\ sessions[s].stage = "verified" /\ InStatus(sessions[s].order, "pending")

\* A customer who was charged gets the order, whatever stray callbacks came,
\* replies were lost and attempts failed before ("verify again",
\* README.md:368-370).
PaidSucceeds ==
    \A s \in Sessions : sessions[s].stage = "paid"
        ~> (Charged(s) /\ InStatus(sessions[s].order, "succeeded")) \/ ReplyLost(s)

=============================================================================
