------------------------------ MODULE Gateways ------------------------------
(***************************************************************************)
(* Gateway.Verify of the seven gateways, as the pure functions it is       *)
(* made of: the checks it makes on the callback before it calls the bank   *)
(* (in their order: the first that fails decides the error), what the call *)
(* it then sends names, and what it makes of the bank's reply.             *)
(*                                                                         *)
(* A payment p is [order, amount, token], with token = None when empty.    *)
(* A callback cb is [ok, order, token, ref, amount]: ok says the gateway's *)
(* status parameter reports success; order, token and ref are the merchant *)
(* order ID, the token Request issued (Authority, id, Token, RefId) and    *)
(* the bank's reference of the payment (RefNum, SaleReferenceId,           *)
(* referenceNumber); a parameter a gateway does not send is not looked at. *)
(* Tokens and references are named by the bank session they stand for.     *)
(* A reply is [code, ref, amount]: code "ok" for verified now, "already"   *)
(* for verified before, "unpaid" for Zarinpal's -51, else "rejected".      *)
(***************************************************************************)
CONSTANT None

GatewayNames ==
    {"zarinpal", "idpay", "saman", "parsian", "mellat", "pasargad", "virtual"}

Call(session, order, amount) ==
    [op |-> "verify", session |-> session, order |-> order, amount |-> amount]

-----------------------------------------------------------------------------
(* Zarinpal *)

ZarinpalChecks(p, cb) ==
    IF ~cb.ok THEN "declined"
    ELSE IF cb.token = None THEN "fault"
    ELSE IF p.token \notin {None, cb.token} THEN "token mismatch"
    ELSE "send"

ZarinpalCall(p, cb) == Call(cb.token, None, p.amount)

ZarinpalOutcome(p, cb, reply) ==
    IF reply.code = "unpaid" THEN "declined"
    ELSE IF reply.code \notin {"ok", "already"} THEN "rejected"
    ELSE "verified"

-----------------------------------------------------------------------------
(* IDPay *)

IDPayChecks(p, cb) ==
    IF ~cb.ok THEN "declined"
    ELSE IF cb.token = None THEN "fault"
    ELSE IF p.token \notin {None, cb.token} THEN "token mismatch"
    ELSE IF cb.order # p.order THEN "order mismatch"
    ELSE IF cb.amount \notin {None, p.amount} THEN "amount mismatch"
    ELSE "send"

IDPayCall(p, cb) == Call(cb.token, p.order, None)

IDPayOutcome(p, cb, reply) ==
    IF reply.code \notin {"ok", "already"} THEN "rejected"
    ELSE IF reply.amount \notin {None, p.amount} THEN "amount mismatch"
    ELSE "verified"

-----------------------------------------------------------------------------
(* Saman.  p.token is not looked at. *)

SamanChecks(p, cb) ==
    IF ~cb.ok THEN "declined"
    ELSE IF cb.order # p.order THEN "order mismatch"
    ELSE IF cb.ref = None THEN "fault"
    ELSE "send"

SamanCall(p, cb) == Call(cb.ref, None, None)

\* Bugs: before 0.11 a repeated verify was a rejection; any reply is a success;
\* the amount the bank reports is not compared.
SamanFirstOnly(p, cb, reply) ==
    IF reply.code # "ok" THEN "rejected"
    ELSE IF reply.ref # cb.ref THEN "fault"
    ELSE IF reply.amount # p.amount THEN "amount mismatch"
    ELSE "verified"

SamanAnyReply(p, cb, reply) == "verified"

SamanAnyAmount(p, cb, reply) ==
    IF reply.code \notin {"ok", "already"} THEN "rejected"
    ELSE IF reply.ref # cb.ref THEN "fault"
    ELSE "verified"

SamanOutcome(p, cb, reply) ==
    IF reply.code \notin {"ok", "already"} THEN "rejected"
    ELSE IF reply.ref # cb.ref THEN "fault"
    ELSE IF reply.amount # p.amount THEN "amount mismatch"
    ELSE "verified"

-----------------------------------------------------------------------------
(* Parsian.  A repeated confirmation has no code of its own. *)

\* A bug: any token confirms, so a payment confirms whatever order it is sent to.
ParsianAnyToken(p, cb) ==
    IF ~cb.ok THEN "declined"
    ELSE IF cb.token = None THEN "fault"
    ELSE IF cb.order # p.order THEN "order mismatch"
    ELSE "send"

ParsianChecks(p, cb) ==
    IF ~cb.ok THEN "declined"
    ELSE IF p.token = None THEN "invalid"
    ELSE IF cb.token = None THEN "fault"
    ELSE IF cb.token # p.token THEN "token mismatch"
    ELSE IF cb.order # p.order THEN "order mismatch"
    ELSE IF cb.amount \notin {None, p.amount} THEN "amount mismatch"
    ELSE "send"

ParsianCall(p, cb) == Call(cb.token, None, None)

ParsianOutcome(p, cb, reply) ==
    IF reply.code # "ok" THEN "rejected" ELSE "verified"

-----------------------------------------------------------------------------
(* Mellat.  A verified sale is settled by a second call naming it again. *)

\* A SaleReferenceId that is not a number (here: an empty one) is a fault.
MellatChecks(p, cb) ==
    IF ~cb.ok THEN "declined"
    ELSE IF cb.token = None \/ cb.order = None THEN "fault"
    ELSE IF p.token \notin {None, cb.token} THEN "token mismatch"
    ELSE IF cb.order # p.order THEN "order mismatch"
    ELSE IF cb.ref = None THEN "fault"
    ELSE "send"

MellatCall(p, cb) == Call(cb.ref, p.order, None)

MellatOutcome(p, cb, reply) ==
    IF reply.code \notin {"ok", "already"} THEN "rejected" ELSE "verified"

MellatSettleCall(p, cb) ==
    [op |-> "settle", session |-> cb.ref, order |-> p.order, amount |-> None]

\* A settle that fails is a fault, to be retried by verifying again.
MellatSettled(reply) == IF reply.code \in {"ok", "already"} THEN "verified" ELSE "fault"

-----------------------------------------------------------------------------
(* Pasargad.  A repeated verify has no code of its own. *)

PasargadChecks(p, cb) ==
    IF ~cb.ok THEN "declined"
    ELSE IF p.token = None THEN "invalid"
    ELSE IF cb.order # p.order THEN "order mismatch"
    ELSE "send"

PasargadCall(p, cb) == Call(p.token, p.order, None)

PasargadOutcome(p, cb, reply) ==
    IF reply.code # "ok" THEN "rejected" ELSE "verified"

-----------------------------------------------------------------------------
(* The virtual gateway, whose bank is a map of transaction codes: an empty   *)
(* code is never in it.  A payment with a token accepts no other.            *)

VirtualChecks(p, cb) ==
    IF ~cb.ok THEN "declined"
    ELSE IF cb.order # p.order THEN "order mismatch"
    ELSE IF p.token \notin {None, cb.token} THEN "token mismatch"
    ELSE IF cb.ref = None THEN "rejected"
    ELSE "send"

VirtualCall(p, cb) == Call(cb.ref, p.order, None)

VirtualOutcome(p, cb, reply) ==
    IF reply.code \notin {"ok", "already"} THEN "rejected" ELSE "verified"

-----------------------------------------------------------------------------
(* The Gateway interface: the configured gateway's own method. *)

\* The key callbackHandler looks the payment up by.
CallbackOrderID(gw, cb) == IF gw = "zarinpal" THEN cb.token ELSE cb.order

Checks(gw, p, cb) ==
    IF gw = "zarinpal" THEN ZarinpalChecks(p, cb)
    ELSE IF gw = "idpay" THEN IDPayChecks(p, cb)
    ELSE IF gw = "saman" THEN SamanChecks(p, cb)
    ELSE IF gw = "parsian" THEN ParsianChecks(p, cb)
    ELSE IF gw = "mellat" THEN MellatChecks(p, cb)
    ELSE IF gw = "pasargad" THEN PasargadChecks(p, cb)
    ELSE VirtualChecks(p, cb)

VerifyCall(gw, p, cb) ==
    IF gw = "zarinpal" THEN ZarinpalCall(p, cb)
    ELSE IF gw = "idpay" THEN IDPayCall(p, cb)
    ELSE IF gw = "saman" THEN SamanCall(p, cb)
    ELSE IF gw = "parsian" THEN ParsianCall(p, cb)
    ELSE IF gw = "mellat" THEN MellatCall(p, cb)
    ELSE IF gw = "pasargad" THEN PasargadCall(p, cb)
    ELSE VirtualCall(p, cb)

Outcome(gw, p, cb, reply) ==
    IF gw = "zarinpal" THEN ZarinpalOutcome(p, cb, reply)
    ELSE IF gw = "idpay" THEN IDPayOutcome(p, cb, reply)
    ELSE IF gw = "saman" THEN SamanOutcome(p, cb, reply)
    ELSE IF gw = "parsian" THEN ParsianOutcome(p, cb, reply)
    ELSE IF gw = "mellat" THEN MellatOutcome(p, cb, reply)
    ELSE IF gw = "pasargad" THEN PasargadOutcome(p, cb, reply)
    ELSE VirtualOutcome(p, cb, reply)

Settles(gw) == gw = "mellat"

\* VerifyResult.RefID: from the bank's reply, or taken over from the callback.
RefID(gw, cb, reply) ==
    IF gw \in {"mellat", "pasargad", "virtual"} THEN cb.ref ELSE reply.ref

-----------------------------------------------------------------------------
(* Refunder.Refund: what the reversal it sends names, of the payment p and   *)
(* the transaction v of its verification (an empty name is an Invalid error, *)
(* the virtual gateway's a Rejected one, and nothing is sent), and which of  *)
(* the bank's codes it reports as refunded.                                  *)

Refunders == GatewayNames \ {"idpay"}

Reversal(session, order) == [session |-> session, order |-> order]

ZarinpalReversal(p, v) == Reversal(p.token, None)
SamanReversal(p, v) == Reversal(v.ref, None)
ParsianReversal(p, v) == Reversal(p.token, None)
MellatReversal(p, v) == Reversal(v.ref, p.order)
PasargadReversal(p, v) == Reversal(p.token, p.order)
VirtualReversal(p, v) == Reversal(v.ref, p.order)

RefundCall(gw, p, v) ==
    IF gw = "zarinpal" THEN ZarinpalReversal(p, v)
    ELSE IF gw = "saman" THEN SamanReversal(p, v)
    ELSE IF gw = "parsian" THEN ParsianReversal(p, v)
    ELSE IF gw = "mellat" THEN MellatReversal(p, v)
    ELSE IF gw = "pasargad" THEN PasargadReversal(p, v)
    ELSE VirtualReversal(p, v)

\* The gateways with a code for a payment reversed before.
RepeatsRefund == {"zarinpal", "mellat", "virtual"}

\* Bugs: any answer is a refund; a repeated reversal is a rejection.
AnyRefunded(gw, code) == TRUE
FirstRefunded(gw, code) == code = "ok"

Refunded(gw, code) == code = "ok" \/ (gw \in RepeatsRefund /\ code = "already")

=============================================================================
