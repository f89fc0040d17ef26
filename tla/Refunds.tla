-------------------------------- MODULE Refunds --------------------------------
(***************************************************************************)
(* The payment flow of Webshop with the refunds the README documents       *)
(* (README.md:303-319): clerks of the merchant, external, rebuild a        *)
(* payment and its transaction from the stores, call the gateway's Refund  *)
(* and set the row's status, while callbacks of the same orders are served *)
(* and the process may die.                                                *)
(*                                                                         *)
(* A reversal, like a verify, may reach the bank after its clerk has given *)
(* up on it.                                                               *)
(***************************************************************************)
EXTENDS Webshop

CONSTANT Clerks     \* slots for concurrent refund requests

ASSUME ClerksAssumption == None \notin Clerks

VARIABLES
    clerk,      \* clerk -> its step
    refunding,  \* clerk -> the order it refunds
    refundWire,     \* clerk -> its reversal on the way to the bank
    refundReply,    \* clerk -> the bank's answer waiting to be read
    reversed    \* the bank: the sessions it gave the money back of

clerkVars == <<clerk, refunding, refundReply>>
refundVars == <<clerkVars, refundWire, reversed>>
allVars == <<vars, refundVars>>

ReversalCall == [session : Sessions, order : Orders \cup {None}]

RefundTypeOK ==
    /\ TypeOK
    /\ clerk \in [Clerks -> {"idle", "called", "reversed"}]
    /\ refunding \in [Clerks -> Orders \cup {None}]
    /\ refundWire \in [Clerks -> ReversalCall \cup {None}]
    /\ refundReply \in [Clerks -> {"ok", "already", "rejected", None}]
    /\ reversed \subseteq Sessions

RefundInit ==
    /\ Init
    /\ clerk = [k \in Clerks |-> "idle"]
    /\ refunding = [k \in Clerks |-> None]
    /\ refundWire = [k \in Clerks |-> None]
    /\ refundReply = [k \in Clerks |-> None]
    /\ reversed = {}

-----------------------------------------------------------------------------
(* The merchant's refund. *)

PaymentOf(o) == [order |-> o, amount |-> Price[o], token |-> payments[o].token]

\* GetPayment, GetTransaction, and Refund up to its bank call.  Without a row
\* or a transaction, or without what the reversal names, the request ends here.
\* A transaction exists only once its row has its final token, so reading the
\* two at once loses nothing.
BeginRefund(k, o) ==
    /\ gateway \in G!Refunders
    /\ clerk[k] = "idle" /\ refundWire[k] = None
    /\ payments[o] # None
    /\ \E v \in GetTransaction(o) :
        LET call == G!RefundCall(gateway, PaymentOf(o), v)
        IN  /\ call.session # None
            /\ refundWire' = [refundWire EXCEPT ![k] = call]
    /\ clerk' = [clerk EXCEPT ![k] = "called"]
    /\ refunding' = [refunding EXCEPT ![k] = o]
    /\ UNCHANGED <<vars, refundReply, reversed>>

\* The request ends; its reversal may still be on the wire.
EndRefund(k) ==
    /\ clerk' = [clerk EXCEPT ![k] = "idle"]
    /\ refunding' = [refunding EXCEPT ![k] = None]
    /\ refundReply' = [refundReply EXCEPT ![k] = None]

RefundReply(k) ==
    /\ clerk[k] = "called"
    /\ refundReply[k] # None
    /\ IF G!Refunded(gateway, refundReply[k])
         THEN /\ clerk' = [clerk EXCEPT ![k] = "reversed"]
              /\ UNCHANGED <<refunding, refundReply>>
         ELSE EndRefund(k)
    /\ UNCHANGED <<vars, refundWire, reversed>>

\* A timeout, a lost or unreadable reply, the context cancelled.
RefundError(k) ==
    /\ ~InProcess /\ Faults \cap {"transport", "disconnect"} # {}
    /\ clerk[k] = "called"
    /\ EndRefund(k)
    /\ UNCHANGED <<vars, refundWire, reversed>>

\* A bug: the row says what the bank did, in a status the stores do not know.
MarkReversed(k) ==
    /\ clerk[k] = "reversed"
    /\ SetStatus(refunding[k], "reversed")
    /\ EndRefund(k)
    /\ UNCHANGED <<transactions, gateway, forgotten, shopVars, sessions, handlerVars, wire,
                   refundWire, reversed>>

\* SetStatus, whatever the row's status; its error is dropped.
MarkRefunded(k) ==
    /\ clerk[k] = "reversed"
    /\ \/ SetStatus(refunding[k], "refunded")
       \/ CheckoutBreaks /\ UNCHANGED payments
    /\ EndRefund(k)
    /\ UNCHANGED <<transactions, gateway, forgotten, shopVars, sessions, handlerVars, wire,
                   refundWire, reversed>>

Clerk(k) == RefundReply(k) \/ RefundError(k) \/ MarkRefunded(k)

-----------------------------------------------------------------------------
(* The bank. *)

\* The verified session a reversal means, if what it says is true.
Reversible(call) ==
    {s \in Sessions \ forgotten :
        /\ s = call.session
        /\ sessions[s].stage \in {"verified", "settled"}
        /\ call.order \in {None, sessions[s].order}}

\* External: the bank itself gives the money back once, however often it is asked.
\* Of the gateways without a code for a repeated reversal, it may confirm it again
\* or refuse.
ReversalCodes(s) ==
    IF s \notin reversed THEN {"ok"}
    ELSE IF gateway \in G!RepeatsRefund THEN {"already"}
    ELSE {"ok", "rejected"}

ReversalReaches(k, code) ==
    refundReply' = IF clerk[k] = "called" THEN [refundReply EXCEPT ![k] = code]
                                          ELSE refundReply

BankReverses(k) ==
    /\ refundWire[k] # None
    /\ \E s \in Reversible(refundWire[k]) :
        /\ reversed' = reversed \cup {s}
        /\ \E code \in ReversalCodes(s) : ReversalReaches(k, code)
    /\ refundWire' = [refundWire EXCEPT ![k] = None]
    /\ UNCHANGED <<vars, clerk, refunding>>

\* Banks limit when and how often a payment can be reversed.
BankRefusesReversal(k) ==
    /\ refundWire[k] # None
    /\ Reversible(refundWire[k]) = {} \/ ("refusal" \in Faults /\ ~InProcess)
    /\ ReversalReaches(k, "rejected")
    /\ refundWire' = [refundWire EXCEPT ![k] = None]
    /\ UNCHANGED <<vars, clerk, refunding, reversed>>

ReversalLost(k) ==
    /\ refundWire[k] # None /\ clerk[k] # "called"
    /\ refundWire' = [refundWire EXCEPT ![k] = None]
    /\ UNCHANGED <<vars, clerkVars, reversed>>

Reverser(k) == BankReverses(k) \/ BankRefusesReversal(k) \/ ReversalLost(k)

-----------------------------------------------------------------------------
RefundsDie ==
    /\ clerk' = [k \in Clerks |-> "idle"]
    /\ refunding' = [k \in Clerks |-> None]
    /\ refundReply' = [k \in Clerks |-> None]
    /\ refundWire' = IF InProcess THEN [k \in Clerks |-> None] ELSE refundWire
    /\ UNCHANGED reversed

CrashAll ==
    /\ "crash" \in Faults
    /\ Busy \/ \E k \in Clerks : clerk[k] # "idle"
    /\ ProcessDies
    /\ RefundsDie

RefundNext ==
    \/ Running /\ UNCHANGED refundVars
    \/ \E k \in Clerks : (\E o \in Orders : BeginRefund(k, o)) \/ Clerk(k) \/ Reverser(k)
    \/ CrashAll

RefundSpec == RefundInit /\ [][RefundNext]_allVars

-----------------------------------------------------------------------------
(* Properties. *)

\* Failed and refunded are final, and a succeeded row is only ever marked
\* refunded, keeping its token: no late callback, retry, second refund or
\* restart changes it otherwise.
FinalRow ==
    [][\A o \in Orders :
        /\ InStatus(o, "failed") \/ InStatus(o, "refunded") => payments'[o] = payments[o]
        /\ InStatus(o, "succeeded") =>
            payments'[o] \in {payments[o], [payments[o] EXCEPT !.status = "refunded"]}]_allVars

RF == INSTANCE Fulfilment WITH
        standing <- [o \in Orders |-> Standing(o)],
        charged <- {sessions[s].order : s \in {t \in Sessions : Charged(t)}},
        ledger <- {transactions[i].order : i \in DOMAIN transactions},
        returned <- {sessions[s].order : s \in reversed}

\* With refunds, too, the flow keeps Fulfilment's promise: only a recorded
\* payment of that order is given back; only what was given back is marked
\* refunded; and nothing else happens to the order afterwards.  (That a reversal
\* asked for twice moves money once rests on the bank: see ReversalCodes.)
PromiseKept == RF!Spec

-----------------------------------------------------------------------------
(* Liveness. *)

\* A refund under way takes its next step, and a reversal sent is answered or
\* lost.
ClerkFairness == \A k \in Clerks : WF_allVars(Clerk(k)) /\ WF_allVars(Reverser(k))

\* The merchant asks again for a refund whose row is not marked, and not every
\* answer is lost.
RefundAgain(k, o) ==
    /\ \E s \in reversed : sessions[s].order = o
    /\ ~InStatus(o, "refunded")
    /\ BeginRefund(k, o)

RefundFairness ==
    /\ \A o \in Orders : SF_allVars(\E k \in Clerks : RefundAgain(k, o))
    /\ SF_allVars(\E k \in Clerks : BankReverses(k) /\ refundReply'[k] # None)
    /\ SF_allVars(\E k \in Clerks : RefundReply(k) /\ clerk'[k] = "reversed")

RefundRetrySpec ==
    /\ RefundSpec /\ ClerkFairness /\ RefundFairness
    /\ HandlerFairness /\ BankFairness /\ CallbackFairness

\* Money given back is recorded as a refund in the end, whatever replies were
\* lost: the banks' codes for a payment reversed before ("101 = refunded
\* before", zarinpal/zarinpal.go:316; "48 = reversed before",
\* mellat/mellat.go:328) let the merchant ask again.
RefundRecorded ==
    \A s \in Sessions : s \in reversed /\ gateway \in G!RepeatsRefund
        ~> s \in reversed /\ InStatus(sessions[s].order, "refunded")

=============================================================================
