------------------------------ MODULE Replies ------------------------------
(***************************************************************************)
(* What the bank gateways make of whatever comes back from a call: their   *)
(* HTTP and SOAP helpers and the tails of Request, Verify and Refund, for  *)
(* one payment whose merchant calls one method at a time and repeats it as *)
(* often as it likes.  The bank may answer, be slow, or act and not be     *)
(* heard; something between may answer in its place.                       *)
(*                                                                         *)
(* A verify reads the bank's callback first: the parameters of the         *)
(* merchant's own CallbackURL and the bank's form, merged (ParseCallback,  *)
(* Param).  Of its fields the model follows the one that names the payment *)
(* (Zarinpal's Authority, the order ID of the others).                     *)
(*                                                                         *)
(* A reply is [http, body].  http: none (no reply, or one cut off), 2xx or *)
(* other.  body: ok, again (done before) and refused (a failure code) are  *)
(* the bank's answers, with unpaid for Zarinpal's -51 and hollow for a     *)
(* success without the fields it should carry; garbage (not decodable),    *)
(* fault (a SOAP fault) and foreign (decodable, but with none of the       *)
(* fields of the response) are what proxies and error pages say.  Only     *)
(* Zarinpal's response has an envelope that may be empty: no code in data. *)
(***************************************************************************)
CONSTANTS
    Gateways,
    Foreign,    \* those in place of whose bank something foreign may answer
    Empty,      \* those in place of whose bank an empty response may answer
    None

ASSUME GatewaysAssumption ==
    Gateways \subseteq {"zarinpal", "idpay", "saman", "parsian", "mellat", "pasargad"}
ASSUME ForeignAssumption == Foreign \subseteq Gateways
ASSUME EmptyAssumption == Empty \subseteq Gateways \cap {"zarinpal"}

VARIABLES
    gateway,
    call,       \* the method under way and the call it waits for, or None
    reply,      \* what came back, or None
    id,         \* how the payment's ID is written
    callback,   \* the last callback: the URL's parameters and the bank's form, or None
    result,     \* how the last method returned, and to what reply; None while one runs
    held,       \* the methods that have returned without an error
    stage       \* the bank: where the payment stands

vars == <<gateway, id, callback, call, reply, result, held, stage>>

Methods == {"request", "verify", "refund"}
CallsOf == {"login", "main", "settle"}
Stages == {"none", "open", "paid", "verified", "settled", "reversed"}
Bodies == {"ok", "again", "unpaid", "refused", "hollow", "garbage", "fault", "foreign",
           "empty"}
Reply == [http : {"2xx", "other"}, body : Bodies] \cup [http : {"none"}, body : {"none"}]
Result == [method : Methods,
           class : {"done", "fault", "declined", "rejected", "mismatch", "invalid"},
           at : CallsOf, body : Bodies \cup {"none"}]

ASSUME NoneIsNoReply == None \notin Reply

\* An ID is a number in its usual digits, one with leading zeros or a sign, or
\* no (64-bit) number; foreign is somebody else's.
IDs == {"plain", "padded", "text"}

\* The field's name as the gateway spells it, and in another casing.
Names == {"Field", "field"}
Parameters == UNION {[N -> IDs \cup {"foreign"}] : N \in SUBSET Names}

TypeOK ==
    /\ gateway \in Gateways
    /\ id \in IDs
    /\ callback \in [query : Parameters, form : Parameters] \cup {None}
    /\ call \in [method : Methods, at : CallsOf] \cup {None}
    /\ reply \in Reply \cup {None}
    /\ result \in Result \cup {None}
    /\ held \subseteq Methods
    /\ stage \in Stages

Init ==
    /\ gateway \in Gateways
    /\ id \in IDs
    /\ callback = None
    /\ call = None
    /\ reply = None
    /\ result = None
    /\ held = {}
    /\ stage = "none"

-----------------------------------------------------------------------------
(* The helpers: the body they hand on, or "error". *)

\* An error under "errors" counts whatever the HTTP status; a response without
\* "data" does not decode, one with nothing in it does, to the code 0.
ZarinpalPost(r) ==
    IF r.http = "none" \/ r.body \in {"garbage", "fault"} THEN "error"
    ELSE IF r.body \in {"unpaid", "refused"} THEN r.body
    ELSE IF r.http # "2xx" \/ r.body = "foreign" THEN "error"
    ELSE r.body

\* A bug: an error of the decoder is dropped, and the response stays all zeroes.
JSONPostUndecoded(r) ==
    IF r.http = "none" THEN "error"
    ELSE IF r.body \in {"garbage", "fault"} THEN "foreign"
    ELSE r.body

\* idpay.do, saman.postJSON, pasargad.post: the HTTP status is not looked at, and
\* fields the JSON does not have are left zero.
JSONPost(r) ==
    IF r.http = "none" \/ r.body \in {"garbage", "fault"} THEN "error" ELSE r.body

\* A bug, of releases before 0.11: a body cut off is parsed as if complete.
SoapPostCut(r) ==
    IF r.http = "other" \/ r.body = "fault" THEN "error"
    ELSE IF r.http = "none" THEN "refused"
    ELSE r.body

SoapPost(r) ==
    IF r.http # "2xx" \/ r.body = "fault" THEN "error" ELSE r.body

-----------------------------------------------------------------------------
(* The methods' verdict on the body b of a call. *)

Zarinpal(method, b) ==
    IF b = "error" THEN "fault"
    ELSE IF b = "ok" \/ (b = "again" /\ method # "request") THEN "done"
    ELSE IF b = "unpaid" /\ method = "verify" THEN "declined"
    ELSE "rejected"

\* A response without an id, or without a status, is a rejection.
IDPay(method, b) ==
    IF b = "error" THEN "fault"
    ELSE IF b = "ok" \/ (b = "again" /\ method = "verify") THEN "done"
    ELSE "rejected"

\* Verify takes a ResultCode of zero, or of a duplicate, to its checks of the
\* transaction's details, which a reply without details fails as a fault.
Saman(method, b) ==
    IF b = "error" THEN "fault"
    ELSE IF b = "ok" \/ (b = "again" /\ method = "verify") THEN "done"
    ELSE IF b \in {"hollow", "foreign"} /\ method = "verify" THEN "fault"
    ELSE "rejected"

\* No Status at all is a fault.
Parsian(method, b) ==
    IF b \in {"error", "garbage", "foreign"} THEN "fault"
    ELSE IF b = "ok" \/ (b = "hollow" /\ method = "refund") THEN "done"
    ELSE "rejected"

\* A success without a RefId is not noticed; a failure code that comes without a
\* comma is not a bpPayRequest response, and counts as garbage here.  "next" goes on
\* to the settle.
Mellat(method, at, b) ==
    IF b \in {"error", "garbage", "foreign"} THEN "fault"
    ELSE IF at = "settle" THEN IF b \in {"ok", "again"} THEN "done" ELSE "fault"
    ELSE IF method = "verify" THEN IF b \in {"ok", "again"} THEN "next" ELSE "rejected"
    ELSE IF b \in {"ok", "hollow"} \/ (b = "again" /\ method = "refund") THEN "done"
    ELSE "rejected"

\* A bug, of releases before 0.11: a refused login is a rejection everywhere.
PasargadLoginRejects(method, at, b) ==
    IF b = "error" THEN "fault"
    ELSE IF at = "login" THEN IF b = "ok" THEN "next" ELSE "rejected"
    ELSE IF b = "ok" THEN "done"
    ELSE IF method = "request" /\ b # "refused" THEN "fault"
    ELSE IF method = "verify" /\ b \in {"foreign", "hollow"} THEN "done"
    ELSE "rejected"

\* A login that fails is an error of Request and a fault of Verify and Refund.
\* A missing ResultCode reads as zero, success: Request then misses the UrlId
\* and Refund wants the code itself, Verify does not.
Pasargad(method, at, b) ==
    IF b = "error" THEN "fault"
    ELSE IF at = "login" THEN IF b = "ok" THEN "next"
                              ELSE IF method = "request" THEN "rejected" ELSE "fault"
    ELSE IF b = "ok" THEN "done"
    ELSE IF method = "request" /\ b # "refused" THEN "fault"
    ELSE IF method = "verify" /\ b \in {"foreign", "hollow"} THEN "done"
    ELSE "rejected"

Verdict(gw, c, r) ==
    IF gw = "zarinpal" THEN Zarinpal(c.method, ZarinpalPost(r))
    ELSE IF gw = "idpay" THEN IDPay(c.method, JSONPost(r))
    ELSE IF gw = "saman" THEN Saman(c.method, JSONPost(r))
    ELSE IF gw = "parsian" THEN Parsian(c.method, SoapPost(r))
    ELSE IF gw = "mellat" THEN Mellat(c.method, c.at, SoapPost(r))
    ELSE Pasargad(c.method, c.at, JSONPost(r))

-----------------------------------------------------------------------------
(* The callback. *)

\* A bug: the URL's own parameters win over the bank's form.
ParseQueryLast(query, form) ==
    [n \in DOMAIN query \cup DOMAIN form |-> IF n \in DOMAIN query THEN query[n] ELSE form[n]]

\* One map of both; the form wins where a name is spelled alike.
ParseCallback(query, form) ==
    [n \in DOMAIN query \cup DOMAIN form |-> IF n \in DOMAIN form THEN form[n] ELSE query[n]]

\* The values a field may be read as: the exact spelling's, or that of any other
\* casing the map's iteration meets first; "none" if there is none.
Param(params) ==
    IF "Field" \in DOMAIN params THEN {params["Field"]}
    ELSE IF DOMAIN params = {} THEN {"none"}
    ELSE {params[n] : n \in DOMAIN params}

\* Mellat sends the ID as a number, and Parsian's bank takes it as one.
SendsNumber == gateway \in {"mellat", "parsian"}

\* External: what the bank's form says of the payment, in a casing of its own.
BankForm(name) == [n \in {name} |-> IF SendsNumber /\ id = "padded" THEN "plain" ELSE id]

-----------------------------------------------------------------------------
(* The merchant calls a method; a Refund needs a Verify's result, and IDPay    *)
(* has none.                                                                   *)

Returned(method, class) ==
    [method |-> method, class |-> class, at |-> "main", body |-> "none"]

Calls(method) ==
    /\ call' = [method |-> method, at |-> IF gateway = "pasargad" THEN "login" ELSE "main"]
    /\ result' = None

StartRequest ==
    /\ call = None /\ stage = "none"
    /\ IF SendsNumber /\ id = "text"
         THEN result' = Returned("request", "invalid") /\ UNCHANGED call
         ELSE Calls("request")
    /\ UNCHANGED <<gateway, id, callback, reply, held, stage>>

\* Verify compares the field with the payment's before it calls the bank.
StartVerify ==
    /\ call = None /\ "request" \in held
    /\ \E query \in Parameters, name \in Names :
        /\ \A n \in DOMAIN query : query[n] = "foreign"
        /\ callback' = [query |-> query, form |-> BankForm(name)]
        /\ \E field \in Param(ParseCallback(query, BankForm(name))) :
            IF field # id
              THEN result' = Returned("verify", "mismatch") /\ UNCHANGED call
              ELSE Calls("verify")
    /\ UNCHANGED <<gateway, id, reply, held, stage>>

StartRefund ==
    /\ call = None /\ "verify" \in held /\ gateway # "idpay"
    /\ Calls("refund")
    /\ UNCHANGED <<gateway, id, callback, reply, held, stage>>

\* A bug: the method returns after its first call.
ReadOneCall ==
    /\ reply # None
    /\ LET verdict == Verdict(gateway, call, reply)
       IN  /\ call' = None
           /\ result' = [method |-> call.method, class |-> verdict, at |-> call.at,
                         body |-> reply.body]
           /\ held' = IF verdict = "done" THEN held \cup {call.method} ELSE held
    /\ reply' = None
    /\ UNCHANGED <<gateway, id, callback, stage>>

\* The method reads the reply: it makes its next call, or returns.
Read ==
    /\ reply # None
    /\ LET verdict == Verdict(gateway, call, reply)
       IN  IF verdict = "next"
             THEN /\ call' = [call EXCEPT !.at = IF call.at = "login" THEN "main" ELSE "settle"]
                  /\ UNCHANGED <<result, held>>
             ELSE /\ call' = None
                  /\ result' = [method |-> call.method, class |-> verdict, at |-> call.at,
                                body |-> reply.body]
                  /\ held' = IF verdict = "done" THEN held \cup {call.method} ELSE held
    /\ reply' = None
    /\ UNCHANGED <<gateway, id, callback, stage>>

-----------------------------------------------------------------------------
(* The bank, and what lies between. *)

\* The customer, sent there with the token, pays on the bank's page.
Pay ==
    /\ stage = "open" /\ "request" \in held
    /\ stage' = "paid"
    /\ UNCHANGED <<gateway, id, callback, call, reply, result, held>>

\* A call repeated: a code of its own, or, where the gateways know none, success
\* again or a refusal.
Repeated(method) ==
    IF gateway \in {"zarinpal", "mellat"} THEN {"again"}
    ELSE IF gateway = "saman" /\ method = "verify" THEN {"again", "hollow"}
    ELSE IF gateway = "idpay" THEN {"again"}
    ELSE {"ok", "refused"}

\* What the bank may do with the call: the stage it leaves the payment in and
\* its answer.
Acts(c) ==
    {<<stage, "refused">>} \cup (
    IF c.at = "login" THEN {<<stage, "ok">>}
    ELSE IF c.at = "settle" THEN {<<"settled", IF stage = "settled" THEN "again" ELSE "ok">>}
    ELSE IF c.method = "request" THEN {"open"} \X {"ok", "hollow"}
    ELSE IF c.method = "verify" THEN
        IF stage = "paid" THEN {<<"verified", "ok">>}
        ELSE IF stage \in {"verified", "settled"} THEN {stage} \X Repeated("verify")
        ELSE IF stage = "open" /\ gateway = "zarinpal" THEN {<<stage, "unpaid">>}
        ELSE {}
    ELSE IF stage \in {"verified", "settled"} THEN {<<"reversed", "ok">>}
    ELSE IF stage = "reversed" THEN {stage} \X Repeated("refund")
    ELSE {})

\* What may come in place of the bank's answer.
Between ==
    {"garbage", "fault"} \cup (IF gateway \in Foreign THEN {"foreign"} ELSE {})
                        \cup (IF gateway \in Empty THEN {"empty"} ELSE {})

Waiting == call # None /\ reply = None

BankAnswers ==
    /\ Waiting
    /\ \E act \in Acts(call), http \in {"2xx", "other"} :
        /\ http = "other" => act[2] \in {"refused", "unpaid"}
        /\ stage' = act[1]
        /\ reply' = [http |-> http, body |-> act[2]]
    /\ UNCHANGED <<gateway, id, callback, call, result, held>>

\* Nothing comes back, or something else does, whether or not the bank acted.
BankUnheard ==
    /\ Waiting
    /\ stage' \in {stage} \cup {act[1] : act \in Acts(call)}
    /\ reply' \in [http : {"none"}, body : {"none"}] \cup [http : {"2xx", "other"}, body : Between]
    /\ UNCHANGED <<gateway, id, callback, call, result, held>>

Next ==
    \/ StartRequest \/ StartVerify \/ StartRefund
    \/ Read \/ Pay \/ BankAnswers \/ BankUnheard

Spec == Init /\ [][Next]_vars

-----------------------------------------------------------------------------
(* Properties *)

\* A method that returns without an error did what it says at the bank, and a
\* payment that is verified on Mellat is settled: "Verify confirms the payment
\* after the user returns from the gateway" (gateway.go:39).
SuccessIsReal ==
    /\ "request" \in held => stage # "none"
    /\ "verify" \in held =>
        stage \in (IF gateway = "mellat" THEN {} ELSE {"verified"}) \cup {"settled", "reversed"}
    /\ "refund" \in held => stage = "reversed"

\* A Business error is the bank's word on this call ("the gateway returned a
\* failure code for an otherwise well-formed request", errors.go:60-61); what is
\* lost, cut off or comes from something else is a fault.
VerdictIsTheBanks ==
    result # None /\ result.class \in {"declined", "rejected"} =>
        result.body \in {"refused", "unpaid", "hollow"}

\* A failure of what precedes or follows the verification itself, the login and
\* the settle, is a fault to retry, never a verdict on the payment.
VerdictIsOnThePayment ==
    result # None /\ result.class \in {"declined", "rejected"} /\ result.method # "request" =>
        result.at = "main"

\* The bank's own callback is taken for another payment's only where the bank
\* writes the ID otherwise than the merchant did, or where the bank spells the
\* field otherwise than the gateway while the merchant's CallbackURL has a
\* parameter of that name: "gateways match field names case-insensitively"
\* (README.md:347-349) costs nothing else.
GenuineAccepted ==
    result # None /\ result.class = "mismatch" =>
        \/ SendsNumber /\ id = "padded"
        \/ "Field" \notin DOMAIN callback.form /\ DOMAIN callback.query # {}

=============================================================================
