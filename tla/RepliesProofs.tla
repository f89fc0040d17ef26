---------------------------- MODULE RepliesProofs ----------------------------
(***************************************************************************)
(* The theorems about Replies, for every set of gateways.  Two of them are *)
(* about banks in whose place nothing foreign answers: of Pasargad the run *)
(* pasargad_foreign, of IDPay the run idpay_foreign shows that they fail   *)
(* otherwise; with Zarinpal an empty response has the effect of the latter.*)
(***************************************************************************)
EXTENDS Replies, TLAPS

Call == [method : Methods, at : CallsOf]

-----------------------------------------------------------------------------
(* What the methods make of a reply.                                         *)

LEMMA VerdictCases ==
    ASSUME NEW gw \in Gateways, NEW c \in Call, NEW r \in Reply
    PROVE  Verdict(gw, c, r) \in {"done", "fault", "declined", "rejected", "next"}
  BY GatewaysAssumption
     DEF Verdict, Zarinpal, IDPay, Saman, Parsian, Mellat, Pasargad

\* Only a Pasargad login and a Mellat verify have a call after them.
LEMMA NextCalls ==
    ASSUME NEW gw \in Gateways, NEW c \in Call, NEW r \in Reply, Verdict(gw, c, r) = "next"
    PROVE  \/ gw = "pasargad" /\ c.at = "login"
           \/ /\ gw = "mellat" /\ c.method = "verify" /\ c.at # "settle"
              /\ r.body \in {"ok", "again"}
  BY GatewaysAssumption
     DEF Verdict, Zarinpal, IDPay, Saman, Parsian, Mellat, Pasargad, SoapPost, JSONPost,
         ZarinpalPost

\* A method succeeds on the bank's word, Pasargad's Verify on a foreign one, too.
LEMMA DoneSays ==
    ASSUME NEW gw \in Gateways, NEW c \in Call, NEW r \in Reply, Verdict(gw, c, r) = "done"
    PROVE  /\ r.body \in {"ok", "again", "hollow"} \/ (gw = "pasargad" /\ r.body = "foreign")
           /\ gw = "pasargad" => c.at # "login"
           /\ gw = "mellat" /\ c.method = "verify" => c.at = "settle"
  BY GatewaysAssumption
     DEF Verdict, Zarinpal, IDPay, Saman, Parsian, Mellat, Pasargad, SoapPost, JSONPost,
         ZarinpalPost, Reply, Bodies

\* Which replies are taken for the bank's refusal.
LEMMA RefusalSays ==
    ASSUME NEW gw \in Gateways, NEW c \in Call, NEW r \in Reply,
           Verdict(gw, c, r) \in {"declined", "rejected"}
    PROVE  /\ \/ r.body \in {"refused", "unpaid", "hollow"}
              \/ r.body = "foreign" /\ gw \in {"idpay", "saman", "pasargad"}
              \/ r.body = "empty"
              \/ /\ r.body = "again"
                 /\ \/ c.method = "request" \/ gw \in {"parsian", "pasargad"}
                    \/ gw \in {"idpay", "saman"} /\ c.method # "verify"
           /\ gw = "pasargad" /\ c.at = "login" => c.method = "request"
           /\ gw = "mellat" => c.at # "settle"
  <1> USE DEF Verdict, SoapPost, JSONPost, ZarinpalPost, Reply, Bodies, Call, Methods
  <1>1. CASE gw = "zarinpal"
    BY <1>1 DEF Zarinpal
  <1>2. CASE gw = "idpay"
    BY <1>2 DEF IDPay
  <1>3. CASE gw = "saman"
    BY <1>3 DEF Saman
  <1>4. CASE gw = "parsian"
    BY <1>4 DEF Parsian
  <1>5. CASE gw = "mellat"
    BY <1>5 DEF Mellat
  <1>6. CASE gw = "pasargad"
    BY <1>6 DEF Pasargad
  <1> QED
    BY <1>1, <1>2, <1>3, <1>4, <1>5, <1>6, GatewaysAssumption

-----------------------------------------------------------------------------
(* What a call under way, and its reply, say of the payment at the bank.     *)

\* The calls a method may be at, and what it needed to start.
CallTied ==
    call # None =>
        /\ call.at = "login" => gateway = "pasargad"
        /\ call.at = "settle" =>
            gateway = "mellat" /\ call.method = "verify" /\ stage \in {"verified", "settled"}
        /\ call.method = "request" /\ (reply = None \/ call.at = "login") => stage = "none"
        /\ call.method = "refund" => gateway # "idpay"

Agreed == {"ok", "again", "hollow"}

\* Whoever agreed to the call is the bank, which has done what it was asked.
ReplyTied ==
    reply # None =>
        /\ call # None
        /\ reply.body = "foreign" => gateway \in Foreign
        /\ reply.body = "empty" => gateway \in Empty
        /\ reply.body = "again" =>
            /\ call.method # "request"
            /\ gateway \in {"zarinpal", "mellat", "idpay"}
               \/ (gateway = "saman" /\ call.method = "verify")
        /\ reply.body \in Agreed /\ call.at = "main" =>
            /\ call.method = "request" => stage # "none"
            /\ call.method = "verify" => stage \in {"verified", "settled"}
            /\ call.method = "refund" => stage = "reversed"
        /\ reply.body \in Agreed /\ call.at = "settle" => stage = "settled"

RepliesInv == TypeOK /\ CallTied /\ ReplyTied

LEMMA RepliesInit == Init => RepliesInv
  BY DEF Init, RepliesInv, TypeOK, CallTied, ReplyTied, Stages

LEMMA FormTypes ==
    ASSUME NEW name \in Names, id \in IDs
    PROVE  BankForm(name) \in Parameters
  <1>1. BankForm(name) \in [{name} -> IDs \cup {"foreign"}]
    BY DEF BankForm, IDs
  <1> QED
    BY <1>1 DEF Parameters

\* The bank acts on what is before it, and says again only of what it did.
LEMMA ActsDo ==
    ASSUME NEW c \in Call, gateway \in Gateways, stage \in Stages, NEW act \in Acts(c),
           c.at = "login" => gateway = "pasargad",
           c.at = "settle" => gateway = "mellat" /\ c.method = "verify",
           c.method = "refund" => gateway # "idpay"
    PROVE  /\ act[1] \in Stages /\ act[2] \in Bodies \ {"foreign", "empty"}
           /\ act[2] = "again" =>
                /\ c.method # "request"
                /\ gateway \in {"zarinpal", "mellat", "idpay"}
                   \/ (gateway = "saman" /\ c.method = "verify")
           /\ act[2] \in Agreed /\ c.at = "main" =>
                /\ c.method = "request" => act[1] # "none"
                /\ c.method = "verify" => act[1] \in {"verified", "settled"}
                /\ c.method = "refund" => act[1] = "reversed"
           /\ act[2] \in Agreed /\ c.at = "settle" => act[1] = "settled"
           /\ \/ act[1] = stage
              \/ c.method = "request" /\ act[1] = "open"
              \/ /\ c.method = "verify" /\ c.at = "main"
                 /\ stage = "paid" /\ act[1] = "verified"
              \/ c.at = "settle" /\ act[1] = "settled"
              \/ /\ c.method = "refund" /\ stage \in {"verified", "settled"}
                 /\ act[1] = "reversed"
  <1> USE GatewaysAssumption DEF Acts, Repeated, Agreed, Stages, Bodies, Call, Methods, CallsOf
  <1>1. CASE c.at = "login"
    BY <1>1
  <1>2. CASE c.at = "settle"
    BY <1>2
  <1>3. CASE c.at = "main" /\ c.method = "request"
    BY <1>3
  <1>4. CASE c.at = "main" /\ c.method = "verify"
    BY <1>4
  <1>5. CASE c.at = "main" /\ c.method = "refund"
    BY <1>5
  <1> QED
    BY <1>1, <1>2, <1>3, <1>4, <1>5

-----------------------------------------------------------------------------
(* The invariant is kept: one lemma per step.                                *)

LEMMA StartKeeps ==
    ASSUME RepliesInv, StartRequest \/ StartVerify \/ StartRefund
    PROVE  RepliesInv'
  <1>0. TypeOK /\ CallTied /\ ReplyTied /\ call = None /\ reply = None
    BY DEF RepliesInv, ReplyTied, StartRequest, StartVerify, StartRefund
  <1>1. UNCHANGED <<gateway, id, reply, held, stage>>
    BY DEF StartRequest, StartVerify, StartRefund
  <1>2. \/ UNCHANGED call /\ result' \in Result
        \/ /\ result' = None
           /\ \/ Calls("request") /\ stage = "none"
              \/ Calls("verify")
              \/ Calls("refund") /\ gateway # "idpay"
    <2>1. \A method \in Methods, class \in {"invalid", "mismatch"} :
             Returned(method, class) \in Result
      BY DEF Returned, Result, CallsOf
    <2> QED
      BY <2>1 DEF StartRequest, StartVerify, StartRefund, Calls, Methods
  <1>3. callback' \in [query : Parameters, form : Parameters] \cup {None}
    <2>1. CASE StartRequest \/ StartRefund
      BY <1>0, <2>1 DEF StartRequest, StartRefund, TypeOK
    <2>2. CASE StartVerify
      BY <1>0, <2>2, FormTypes DEF StartVerify, TypeOK
    <2> QED
      BY <2>1, <2>2
  <1>4. CASE UNCHANGED call /\ result' \in Result
    BY <1>0, <1>1, <1>3, <1>4 DEF RepliesInv, TypeOK, CallTied, ReplyTied
  <1>5. ASSUME NEW method \in Methods, Calls(method), result' = None,
               method = "request" => stage = "none", method = "refund" => gateway # "idpay"
        PROVE  RepliesInv'
    <2>1. /\ call' = [method |-> method,
                      at |-> IF gateway = "pasargad" THEN "login" ELSE "main"]
      BY <1>5 DEF Calls
    <2>2. call' \in Call /\ call'.method = method
          /\ call'.at = IF gateway = "pasargad" THEN "login" ELSE "main"
      BY <2>1 DEF Call, CallsOf
    <2>3. TypeOK'
      BY <1>0, <1>1, <1>3, <1>5, <2>2 DEF TypeOK, Call
    <2> QED
      BY <1>0, <1>1, <1>5, <2>2, <2>3 DEF RepliesInv, CallTied, ReplyTied
  <1> QED
    BY <1>2, <1>4, <1>5 DEF Methods

LEMMA ReadKeeps ==
    ASSUME RepliesInv, Read
    PROVE  RepliesInv'
  <1>0. /\ TypeOK /\ CallTied /\ ReplyTied
        /\ reply # None /\ call # None
        /\ call \in Call /\ reply \in Reply /\ gateway \in Gateways
    BY DEF RepliesInv, ReplyTied, Read, TypeOK, Call
  <1>1. PICK verdict : verdict = Verdict(gateway, call, reply)
    OBVIOUS
  <1>2. verdict \in {"done", "fault", "declined", "rejected", "next"}
    BY <1>0, <1>1, VerdictCases
  <1>3. UNCHANGED <<gateway, id, callback, stage>> /\ reply' = None
    BY DEF Read
  <1>4. CASE verdict = "next"
    <2>1. /\ call' = [call EXCEPT !.at = IF call.at = "login" THEN "main" ELSE "settle"]
          /\ UNCHANGED <<result, held>>
      BY <1>1, <1>4 DEF Read
    <2>2. /\ call' \in Call /\ call'.method = call.method
          /\ call'.at = IF call.at = "login" THEN "main" ELSE "settle"
      BY <1>0, <2>1 DEF Call, CallsOf
    <2>3. TypeOK'
      BY <1>0, <1>3, <2>1, <2>2 DEF TypeOK, Call
    <2>4. \/ gateway = "pasargad" /\ call.at = "login"
          \/ /\ gateway = "mellat" /\ call.method = "verify" /\ call.at = "main"
             /\ reply.body \in {"ok", "again"}
      BY <1>0, <1>1, <1>4, NextCalls DEF CallTied, Call, CallsOf
    <2> QED
      BY <1>0, <1>3, <2>2, <2>3, <2>4 DEF RepliesInv, CallTied, ReplyTied, Agreed
  <1>5. CASE verdict # "next"
    <2>1. /\ call' = None
          /\ result' = [method |-> call.method, class |-> verdict, at |-> call.at,
                        body |-> reply.body]
          /\ held' \subseteq held \cup {call.method}
      BY <1>1, <1>5 DEF Read
    <2>2. result' \in Result
      BY <1>0, <1>2, <1>5, <2>1 DEF Result, Call, Reply
    <2>3. TypeOK'
      BY <1>0, <1>3, <2>1, <2>2 DEF TypeOK, Call
    <2> QED
      BY <1>3, <2>1, <2>3 DEF RepliesInv, CallTied, ReplyTied
  <1> QED
    BY <1>4, <1>5

\* The customer pays a payment some request opened.
LEMMA PayKeeps ==
    ASSUME RepliesInv, Pay
    PROVE  RepliesInv'
  BY DEF RepliesInv, TypeOK, CallTied, ReplyTied, Pay, Stages

\* Only in place of some banks does anything foreign answer.
LEMMA BankKeeps ==
    ASSUME RepliesInv, BankAnswers \/ BankUnheard
    PROVE  RepliesInv'
  <1>0. /\ TypeOK /\ CallTied /\ call # None /\ reply = None
        /\ call \in Call /\ gateway \in Gateways /\ stage \in Stages
    BY DEF RepliesInv, BankAnswers, BankUnheard, Waiting, TypeOK, Call
  <1>1. UNCHANGED <<gateway, id, callback, call, result, held>>
    BY DEF BankAnswers, BankUnheard
  <1>2. \A act \in Acts(call) :
          /\ act[1] \in Stages
          /\ \/ act[1] = stage
             \/ call.method = "request" /\ act[1] = "open"
             \/ call.method = "verify" /\ call.at = "main" /\ act[1] = "verified"
             \/ call.at = "settle" /\ act[1] = "settled"
             \/ call.method = "refund" /\ act[1] = "reversed"
    BY <1>0, ActsDo DEF CallTied
  <1>3. call.at = "login" => \A act \in Acts(call) : act[1] = stage
    BY DEF Acts
  <1>4. CASE BankAnswers
    <2>1. PICK act \in Acts(call), http \in {"2xx", "other"} :
             /\ http = "other" => act[2] \in {"refused", "unpaid"}
             /\ stage' = act[1]
             /\ reply' = [http |-> http, body |-> act[2]]
      BY <1>4 DEF BankAnswers
    <2>2. reply' \in Reply /\ reply' # None
      BY <1>0, <2>1, ActsDo, NoneIsNoReply DEF CallTied, Reply, Bodies
    <2>3. TypeOK' /\ CallTied'
      BY <1>0, <1>1, <1>2, <1>3, <2>1, <2>2 DEF TypeOK, CallTied, Call
    <2>4. ReplyTied'
      BY <1>0, <1>1, <2>1, ActsDo DEF ReplyTied, CallTied, Bodies
    <2> QED
      BY <2>3, <2>4 DEF RepliesInv
  <1>5. CASE BankUnheard
    <2>1. /\ stage' = stage \/ \E act \in Acts(call) : stage' = act[1]
          /\ reply' \in Reply
          /\ reply'.body \in {"none", "garbage", "fault"}
             \/ (reply'.body = "foreign" /\ gateway \in Foreign)
             \/ (reply'.body = "empty" /\ gateway \in Empty)
      BY <1>5 DEF BankUnheard, Between, Reply, Bodies
    <2>2. TypeOK' /\ CallTied'
      BY <1>0, <1>1, <1>2, <1>3, <2>1, NoneIsNoReply DEF TypeOK, CallTied, Call
    <2>3. ReplyTied'
      BY <1>0, <1>1, <2>1 DEF ReplyTied, Agreed
    <2> QED
      BY <2>2, <2>3 DEF RepliesInv
  <1> QED
    BY <1>4, <1>5

LEMMA RepliesStep == RepliesInv /\ [Next]_vars => RepliesInv'
  <1>1. RepliesInv /\ UNCHANGED vars => RepliesInv'
    BY DEF vars, RepliesInv, TypeOK, CallTied, ReplyTied
  <1> QED
    BY <1>1, StartKeeps, ReadKeeps, PayKeeps, BankKeeps DEF Next

LEMMA RepliesHold == Spec => []RepliesInv
  BY RepliesInit, RepliesStep, PTL DEF Spec

-----------------------------------------------------------------------------
(* The theorems. *)

\* Every variable keeps its type.
THEOREM RepliesTypes == Spec => []TypeOK
  <1>1. RepliesInv => TypeOK
    BY DEF RepliesInv
  <1> QED
    BY <1>1, RepliesHold, PTL

\* A method returns with the body it read.
LEMMA ReadReturns ==
    ASSUME RepliesInv, Read, result' # result
    PROVE  /\ call \in Call /\ reply \in Reply /\ gateway \in Gateways
           /\ result'.method = call.method /\ result'.class = Verdict(gateway, call, reply)
           /\ result'.at = call.at /\ result'.body = reply.body
  BY DEF RepliesInv, TypeOK, ReplyTied, Read, Call

\* Only a reply read, and the checks before a call, give a method its result.
LEMMA ResultComes ==
    ASSUME [Next]_vars, ~Read, result' # result
    PROVE  \/ result' = None
           \/ result' = Returned("request", "invalid") /\ StartRequest
           \/ result' = Returned("verify", "mismatch") /\ StartVerify
  BY DEF Next, vars, StartRequest, StartVerify, StartRefund, Calls, Pay, BankAnswers, BankUnheard

\* Where nothing foreign answers in place of Pasargad's bank, a method that
\* returns without an error did at the bank what it says, for every order of
\* calls, retries and lost replies.
THEOREM SuccessHappened == ASSUME "pasargad" \notin Foreign PROVE Spec => []SuccessIsReal
  <1>1. Init => SuccessIsReal
    BY DEF Init, SuccessIsReal
  <1>2. ASSUME RepliesInv, SuccessIsReal, [Next]_vars
        PROVE  SuccessIsReal'
    <2>1. CASE UNCHANGED <<gateway, held, stage>>
      BY <1>2, <2>1 DEF SuccessIsReal
    <2>2. CASE Pay
      BY <1>2, <2>2 DEF Pay, SuccessIsReal
    <2>3. CASE Read
      <3>1. /\ UNCHANGED <<gateway, stage>> /\ reply # None
            /\ call \in Call /\ reply \in Reply /\ gateway \in Gateways
            /\ CallTied /\ ReplyTied /\ call # None
        BY <1>2, <2>3 DEF Read, RepliesInv, TypeOK, ReplyTied, Call
      <3>2. CASE held' = held
        BY <2>1, <3>1, <3>2
      <3>3. CASE Verdict(gateway, call, reply) = "done" /\ held' = held \cup {call.method}
        <4>1. reply.body \in Agreed
          BY <3>1, <3>3, DoneSays DEF ReplyTied, Agreed
        <4>2. call.at = "main" \/ call.at = "settle"
          BY <3>1, <3>3, DoneSays DEF CallTied, Call, CallsOf
        <4>3. gateway = "mellat" /\ call.method = "verify" => call.at = "settle"
          BY <3>1, <3>3, DoneSays
        <4>4. /\ call.method = "request" => stage # "none"
              /\ call.method = "verify" =>
                    \/ stage = "settled" \/ (gateway # "mellat" /\ stage = "verified")
              /\ call.method = "refund" => stage = "reversed"
          BY <3>1, <4>1, <4>2, <4>3 DEF ReplyTied, CallTied
        <4> QED
          BY <1>2, <3>1, <3>3, <4>4 DEF SuccessIsReal
      <3> QED
        BY <2>3, <3>1, <3>2, <3>3 DEF Read
    <2>4. CASE BankAnswers \/ BankUnheard
      <3>1. /\ UNCHANGED <<gateway, held>> /\ reply = None /\ call # None
            /\ call \in Call /\ gateway \in Gateways /\ stage \in Stages /\ CallTied
            /\ stage' = stage \/ \E act \in Acts(call) : stage' = act[1]
        BY <1>2, <2>4 DEF BankAnswers, BankUnheard, Waiting, RepliesInv, TypeOK, Call
      <3>2. \/ stage' = stage
            \/ call.method = "request" /\ stage = "none" /\ stage' = "open"
            \/ stage = "paid" /\ stage' = "verified"
            \/ stage \in {"verified", "settled"} /\ stage' \in {"settled", "reversed"}
        BY <3>1, ActsDo DEF CallTied
      <3> QED
        BY <1>2, <3>1, <3>2 DEF SuccessIsReal
    <2> QED
      BY <1>2, <2>1, <2>2, <2>3, <2>4
         DEF Next, vars, StartRequest, StartVerify, StartRefund
  <1>3. RepliesInv /\ SuccessIsReal /\ [Next]_vars => SuccessIsReal'
    BY <1>2
  <1> QED
    BY <1>1, <1>3, RepliesHold, PTL DEF Spec

\* Where nothing foreign answers in place of IDPay's, Saman's and Pasargad's
\* banks, nor an empty response of Zarinpal's, only the bank's own word makes a
\* payment declined or rejected.
THEOREM RefusalIsTheBanks ==
    ASSUME Foreign \cap {"idpay", "saman", "pasargad"} = {}, Empty = {}
    PROVE  Spec => []VerdictIsTheBanks
  <1>1. Init => VerdictIsTheBanks
    BY DEF Init, VerdictIsTheBanks
  <1>2. ASSUME RepliesInv, VerdictIsTheBanks, [Next]_vars
        PROVE  VerdictIsTheBanks'
    <2>1. CASE UNCHANGED result
      BY <1>2, <2>1 DEF VerdictIsTheBanks
    <2>2. CASE ~Read /\ result' # result
      BY <1>2, <2>2, ResultComes DEF VerdictIsTheBanks, Returned
    <2>3. CASE Read /\ result' # result
      <3>1. CallTied /\ ReplyTied /\ reply # None
        BY <1>2, <2>3 DEF RepliesInv, Read
      <3> QED
        BY <1>2, <2>3, <3>1, ReadReturns, RefusalSays
           DEF VerdictIsTheBanks, CallTied, ReplyTied, Call, Methods
    <2> QED
      BY <2>1, <2>2, <2>3
  <1>3. RepliesInv /\ VerdictIsTheBanks /\ [Next]_vars => VerdictIsTheBanks'
    BY <1>2
  <1> QED
    BY <1>1, <1>3, RepliesHold, PTL DEF Spec

\* A refused login or settle is never reported as a verdict on the payment.
THEOREM OnlyTheVerifyDecides == Spec => []VerdictIsOnThePayment
  <1>1. Init => VerdictIsOnThePayment
    BY DEF Init, VerdictIsOnThePayment
  <1>2. ASSUME RepliesInv, VerdictIsOnThePayment, [Next]_vars
        PROVE  VerdictIsOnThePayment'
    <2>1. CASE UNCHANGED result
      BY <1>2, <2>1 DEF VerdictIsOnThePayment
    <2>2. CASE ~Read /\ result' # result
      BY <1>2, <2>2, ResultComes DEF VerdictIsOnThePayment, Returned
    <2>3. CASE Read /\ result' # result
      <3>1. CallTied /\ ReplyTied /\ reply # None
        BY <1>2, <2>3 DEF RepliesInv, Read
      <3> QED
        BY <1>2, <2>3, <3>1, ReadReturns, RefusalSays
           DEF VerdictIsOnThePayment, CallTied, ReplyTied, Call, CallsOf
    <2> QED
      BY <2>1, <2>2, <2>3
  <1>3. RepliesInv /\ VerdictIsOnThePayment /\ [Next]_vars => VerdictIsOnThePayment'
    BY <1>2
  <1> QED
    BY <1>1, <1>3, RepliesHold, PTL DEF Spec

-----------------------------------------------------------------------------
(* The callback's field.                                                     *)

\* A field the bank spells as the gateway does, or that no parameter of the
\* URL can be mistaken for, is read as the bank wrote it.
LEMMA FieldRead ==
    ASSUME NEW query \in Parameters, NEW name \in Names,
           NEW field \in Param(ParseCallback(query, BankForm(name))),
           "Field" \in DOMAIN BankForm(name) \/ DOMAIN query = {}
    PROVE  field = IF SendsNumber /\ id = "padded" THEN "plain" ELSE id
  <1>1. PICK form : form = BankForm(name)
    OBVIOUS
  <1>2. /\ DOMAIN form = {name}
        /\ form[name] = IF SendsNumber /\ id = "padded" THEN "plain" ELSE id
    BY <1>1 DEF BankForm
  <1>3. PICK params : params = ParseCallback(query, form)
    OBVIOUS
  <1>4. /\ DOMAIN params = DOMAIN query \cup {name}
        /\ params[name] = form[name]
    BY <1>2, <1>3 DEF ParseCallback
  <1>5. CASE name = "Field"
    BY <1>1, <1>2, <1>3, <1>4, <1>5 DEF Param
  <1>6. CASE name = "field"
    <2>1. DOMAIN params = {"field"}
      BY <1>1, <1>2, <1>4, <1>6
    <2> QED
      BY <1>1, <1>2, <1>3, <1>4, <1>6, <2>1 DEF Param
  <1> QED
    BY <1>5, <1>6 DEF Names

\* The bank's genuine callback is refused only for the reasons GenuineAccepted
\* names, whatever parameters the merchant's CallbackURL has.
THEOREM GenuineIsAccepted == Spec => []GenuineAccepted
  <1>1. Init => GenuineAccepted
    BY DEF Init, GenuineAccepted
  <1>2. ASSUME RepliesInv, GenuineAccepted, [Next]_vars
        PROVE  GenuineAccepted'
    <2>0. UNCHANGED <<gateway, id>>
      BY <1>2 DEF Next, vars, StartRequest, StartVerify, StartRefund, Read, Pay, BankAnswers,
                  BankUnheard
    <2>1. CASE UNCHANGED <<result, callback>>
      BY <1>2, <2>0, <2>1 DEF GenuineAccepted, SendsNumber
    <2>2. CASE StartVerify
      <3> SUFFICES ASSUME result' # None, result'.class = "mismatch",
                          ~(SendsNumber /\ id = "padded"),
                          "Field" \in DOMAIN callback'.form \/ DOMAIN callback'.query = {}
                   PROVE  FALSE
        BY <2>0 DEF GenuineAccepted, SendsNumber
      <3>1. PICK query \in Parameters, name \in Names :
               /\ callback' = [query |-> query, form |-> BankForm(name)]
               /\ \E field \in Param(ParseCallback(query, BankForm(name))) :
                    IF field # id
                      THEN result' = Returned("verify", "mismatch") /\ UNCHANGED call
                      ELSE Calls("verify")
        BY <2>2 DEF StartVerify
      <3>2. PICK field \in Param(ParseCallback(query, BankForm(name))) : field # id
        BY <3>1 DEF Calls
      <3>3. field = id
        BY <3>1, FieldRead
      <3> QED
        BY <3>2, <3>3
    <2>3. CASE ~StartVerify /\ UNCHANGED callback /\ result' # result
      <3>1. CASE Read
        <4>1. Verdict(gateway, call, reply) # "mismatch"
          BY <1>2, <2>3, <3>1, ReadReturns, VerdictCases
        <4> QED
          BY <1>2, <2>3, <3>1, <4>1, ReadReturns DEF GenuineAccepted
      <3>2. CASE ~Read
        BY <1>2, <2>3, <3>2, ResultComes DEF GenuineAccepted, Returned
      <3> QED
        BY <3>1, <3>2
    <2> QED
      BY <1>2, <2>1, <2>2, <2>3
         DEF Next, vars, StartRequest, StartRefund, Read, Pay, BankAnswers, BankUnheard
  <1>3. RepliesInv /\ GenuineAccepted /\ [Next]_vars => GenuineAccepted'
    BY <1>2
  <1> QED
    BY <1>1, <1>3, RepliesHold, PTL DEF Spec

=============================================================================
