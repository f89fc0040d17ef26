----------------------------- MODULE ClaimProofs -----------------------------
(***************************************************************************)
(* The safety theorems about claims, rows and records of Webshop, for      *)
(* every set of orders, sessions, slots, gateways, stray callbacks and     *)
(* faults.                                                                 *)
(***************************************************************************)
EXTENDS WebshopProofs

-----------------------------------------------------------------------------
(* Claims.  ClaimExclusive and FulfilledOnce are not inductive: a checkout    *)
(* that saved its row again under a running callback would break them, and   *)
(* so would a second claim after a record.  The invariant below says why     *)
(* neither happens: nobody knows an order before its checkout is over with   *)
(* its row, and a recorded order never returns to pending.                   *)

\* A session is of the order it was opened for, and a row's token is a session
\* of its order.
Opened(s, o) == sessions[s].order = o /\ sessions[s].stage # "unused"

TokensBelong ==
    /\ \A o \in Orders : res[o] # None => Opened(res[o], o)
    /\ \A o \in Orders : payments[o] # None /\ payments[o].token # None =>
        Opened(payments[o].token, o)

\* Nobody pays, calls back or records an order before its customer was sent to
\* the bank, after which the checkout does not touch the row.
KnownLater ==
    /\ \A s \in Sessions : sessions[s].stage \notin {"unused", "open"} => Known(sessions[s].order)
    /\ \A h \in Handlers : pc[h] # "idle" => Known(rec[h].order)
    /\ \A i \in DOMAIN transactions : Known(transactions[i].order)

\* The statuses of an order that was claimed and has not been given back.
Done(o) == InStatus(o, "processing") \/ InStatus(o, "succeeded") \/ InStatus(o, "refunded")

\* The checkout a row of a given status has behind it.
StatusPlace ==
    \A o \in Orders :
        /\ checkout[o] = "new" => payments[o] = None
        /\ Done(o) => checkout[o] = "redirected"
        /\ InStatus(o, "failed") => checkout[o] = "over"

Engaged(h) == Holding(h) \/ pc[h] = "recording"

\* A request from its claim to its record has its order to itself, and a
\* recorded order stays claimed or succeeded, with no request engaged.
OneEngaged ==
    /\ \A h \in Handlers : Engaged(h) => Done(rec[h].order)
    /\ \A h \in Handlers : Holding(h) => InStatus(rec[h].order, "processing")
    /\ \A h, k \in Handlers :
        Engaged(h) /\ Engaged(k) /\ rec[h].order = rec[k].order => h = k
    /\ \A i \in DOMAIN transactions : Done(transactions[i].order)
    /\ \A i \in DOMAIN transactions, h \in Handlers :
        Engaged(h) => rec[h].order # transactions[i].order

IInv == TypeInv /\ TokensBelong /\ KnownLater /\ StatusPlace /\ OneEngaged /\ FulfilledOnce

LEMMA ClaimInit == Init => IInv
  <1> SUFFICES ASSUME Init
               PROVE  IInv
    OBVIOUS
  <1>1. /\ \A o \in Orders : payments[o] = None /\ res[o] = None
        /\ \A s \in Sessions : sessions[s].stage = "unused"
        /\ \A h \in Handlers : pc[h] = "idle"
        /\ transactions = <<>>
    BY DEF Init, StoreInit
  <1>2. TypeInv
    BY TypeInit
  <1> QED
    BY <1>1, <1>2 DEF IInv, TokensBelong, KnownLater, StatusPlace, OneEngaged, FulfilledOnce,
                      InStatus, Done, Engaged, Holding

-----------------------------------------------------------------------------
(* What a statement on one row does to the rows. *)

\* Only the status of its own row changes.
LEMMA RowMoved ==
    ASSUME payments \in [Orders -> StoredPayment \cup {None}], NEW o \in Orders,
           NEW to \in Statuses,
           \/ SetStatus(o, to)
           \/ \E from \in Statuses : TransitionStatus(o, from, to)
    PROVE  /\ payments[o] # None /\ payments'[o] # None
           /\ payments'[o].status = to /\ payments'[o].token = payments[o].token
           /\ \A p \in Orders \ {o} : payments'[p] = payments[p]
  <1>1. payments[o] # None /\ payments' = [payments EXCEPT ![o].status = to]
    BY DEF SetStatus, TransitionStatus, InStatus
  <1>2. payments[o] \in StoredPayment
    BY <1>1
  <1>3. /\ [payments[o] EXCEPT !.status = to] \in StoredPayment
        /\ [payments[o] EXCEPT !.status = to].status = to
        /\ [payments[o] EXCEPT !.status = to].token = payments[o].token
    BY <1>2 DEF StoredPayment
  <1> HIDE DEF StoredPayment
  <1> QED
    BY <1>1, <1>3, NoneIsNoRow

\* A save replaces its row and no other.
LEMMA RowSaved ==
    ASSUME payments \in [Orders -> StoredPayment \cup {None}], NEW o \in Orders,
           NEW sp \in StoredPayment, SavePayment(o, sp)
    PROVE  /\ payments'[o] = sp /\ payments'[o] # None
           /\ \A p \in Orders \ {o} : payments'[p] = payments[p]
  BY NoneIsNoRow DEF SavePayment

-----------------------------------------------------------------------------
(* Checkouts change the row of an order nobody is concerned with yet. *)

\* Whatever happens to such a row, claims and records do not notice.
LEMMA CheckoutRow ==
    ASSUME IInv, NEW o \in Orders, checkout[o] # "redirected",
           \A p \in Orders \ {o} : payments'[p] = payments[p],
           UNCHANGED <<transactions, pc, rec>>
    PROVE  OneEngaged' /\ FulfilledOnce'
  <1>1. /\ \A h \in Handlers : pc[h] # "idle" => rec[h].order \in Orders \ {o}
        /\ \A i \in DOMAIN transactions : transactions[i].order \in Orders \ {o}
    BY DEF IInv, KnownLater, Known
  <1>2. /\ \A h \in Handlers : Engaged(h) => pc[h] # "idle"
        /\ \A h \in Handlers : Holding(h) => pc[h] # "idle"
    BY DEF Engaged, Holding
  <1>3. \A p \in Orders \ {o}, status \in Statuses : InStatus(p, status)' <=> InStatus(p, status)
    BY DEF InStatus
  <1>4. \A p \in Orders \ {o} : Done(p)' <=> Done(p)
    BY <1>3 DEF Done, Statuses
  <1>5. \A h \in Handlers : (Engaged(h)' <=> Engaged(h)) /\ (Holding(h)' <=> Holding(h))
    BY DEF Engaged, Holding
  <1> QED
    BY <1>1, <1>2, <1>3, <1>4, <1>5 DEF IInv, OneEngaged, FulfilledOnce, Statuses

\* What a checkout step does to its order's row: nothing, or a save, or the mark
\* of a failed Request.
LEMMA CheckoutEffect ==
    ASSUME TypeInv, NEW o \in Orders, Checkout(o)
    PROVE  /\ checkout[o] \in {"new", "saved", "refused", "issued", "recorded"}
           /\ checkout'[o] # "new"
           /\ \A p \in Orders \ {o} : payments'[p] = payments[p] /\ checkout'[p] = checkout[p]
           /\ UNCHANGED <<transactions, pc, rec>>
           /\ \/ payments'[o] = payments[o]
              \/ /\ payments'[o] # None /\ payments'[o].status = "pending"
                 /\ payments'[o].token \in {None, res[o]}
              \/ /\ payments[o] # None /\ payments'[o] # None /\ checkout'[o] = "over"
                 /\ payments'[o].status = "failed" /\ payments'[o].token = payments[o].token
           /\ checkout'[o] = "redirected" => checkout[o] = "recorded"
  <1> USE DEF TypeInv, TypeOK, StoreTypeOK, CheckoutAt, handlerVars
  <1>0. /\ NewStoredPayment \in StoredPayment
        /\ [status |-> "pending", token |-> res[o]] \in StoredPayment
        /\ NewStoredPayment.status = "pending" /\ NewStoredPayment.token = None
    BY DEF NewStoredPayment, StoredPayment, Statuses
  <1>1. CASE SaveOrder(o) \/ SaveOrderError(o)
    BY <1>0, <1>1, RowSaved DEF SaveOrder, SaveOrderError
  <1>2. CASE RequestError(o) \/ Redirect(o) \/ \E s \in Sessions : Request(o, s)
    BY <1>2 DEF RequestError, Redirect, Request
  <1>3. CASE MarkFailed(o)
    <2>1. CASE SetStatus(o, "failed")
      BY <1>3, <2>1, RowMoved DEF MarkFailed, Statuses
    <2>2. CASE UNCHANGED payments
      BY <1>3, <2>2 DEF MarkFailed
    <2> QED
      BY <1>3, <2>1, <2>2 DEF MarkFailed
  <1>4. CASE SaveToken(o) \/ SaveTokenError(o)
    BY <1>0, <1>4, RowSaved DEF SaveToken, SaveTokenError
  <1> QED
    BY <1>1, <1>2, <1>3, <1>4 DEF Checkout

\* What it does at the bank: nothing, or a new session of its order.
LEMMA CheckoutSession ==
    ASSUME TypeInv, NEW o \in Orders, Checkout(o)
    PROVE  /\ \A s \in Sessions : sessions'[s] = sessions[s] \/
                /\ sessions[s].stage = "unused"
                /\ sessions'[s].stage = "open" /\ sessions'[s].order = o
           /\ res' = res \/ \E s \in Sessions :
                /\ res' = [res EXCEPT ![o] = s]
                /\ sessions'[s].stage = "open" /\ sessions'[s].order = o
  <1> USE DEF TypeInv, TypeOK
  <1>1. ASSUME NEW s \in Sessions, Request(o, s)
        PROVE  /\ \A t \in Sessions : sessions'[t] = sessions[t] \/ t = s
               /\ sessions[s].stage = "unused"
               /\ sessions'[s].stage = "open" /\ sessions'[s].order = o
               /\ res' = [res EXCEPT ![o] = s]
    BY <1>1 DEF Request
  <1>2. CASE RequestError(o)
    <2>1. CASE UNCHANGED sessions
      BY <1>2, <2>1 DEF RequestError
    <2>2. ASSUME NEW s \in Sessions, sessions[s].stage = "unused",
                 sessions' = [sessions EXCEPT ![s] = [order |-> o, stage |-> "open"]]
          PROVE  \A t \in Sessions : sessions'[t] = sessions[t] \/
                   /\ sessions[t].stage = "unused"
                   /\ sessions'[t].stage = "open" /\ sessions'[t].order = o
      BY <2>2
    <2> QED
      BY <1>2, <2>1, <2>2 DEF RequestError
  <1>3. CASE UNCHANGED <<sessions, res>>
    BY <1>3
  <1> QED
    BY <1>1, <1>2, <1>3 DEF Checkout, SaveOrder, SaveOrderError, MarkFailed, SaveToken,
                            SaveTokenError, Redirect

LEMMA CheckoutStep ==
    ASSUME IInv, NEW o \in Orders, Checkout(o)
    PROVE  IInv'
  <1>0. TypeInv /\ TypeInv'
    BY CheckoutTypes DEF IInv
  <1>1. OneEngaged' /\ FulfilledOnce'
    BY <1>0, CheckoutEffect, CheckoutRow
  <1>2. KnownLater'
    <2>1. \A p : Known(p) => Known(p)'
      BY <1>0, CheckoutEffect DEF Known
    <2> QED
      BY <1>0, <2>1, CheckoutEffect, CheckoutSession DEF IInv, KnownLater
  <1>3. TokensBelong'
    <2> USE DEF Opened
    <2>1. \A s \in Sessions, p \in Orders : Opened(s, p) => Opened(s, p)'
      BY <1>0, CheckoutSession
    <2>2. ASSUME NEW p \in Orders, res'[p] # None
          PROVE  Opened(res[p], p)'
      <3>1. res[p] \in Sessions \cup {None}
        BY <1>0 DEF TypeInv, TypeOK
      <3>2. CASE res'[p] = res[p]
        BY <2>1, <2>2, <3>1, <3>2 DEF IInv, TokensBelong
      <3>3. CASE res'[p] # res[p]
        BY <1>0, <3>3, CheckoutSession DEF TypeInv, TypeOK
      <3> QED
        BY <3>2, <3>3
    <2>3. ASSUME NEW p \in Orders, payments'[p] # None, payments'[p].token # None
          PROVE  Opened(payments[p].token, p)'
      <3>1. \/ payments[p] # None /\ payments'[p].token = payments[p].token
            \/ payments'[p].token = res[p]
        BY <1>0, <2>3, CheckoutEffect
      <3>2. payments[p] # None => payments[p].token \in Sessions \cup {None}
        BY <1>0 DEF TypeInv, TypeOK, StoreTypeOK, StoredPayment
      <3>3. res[p] \in Sessions \cup {None}
        BY <1>0 DEF TypeInv, TypeOK
      <3> QED
        BY <2>1, <2>3, <3>1, <3>2, <3>3 DEF IInv, TokensBelong
    <2> QED
      BY <2>2, <2>3 DEF TokensBelong
  <1>4. StatusPlace'
    BY <1>0, CheckoutEffect DEF IInv, StatusPlace, Done, InStatus
  <1> QED
    BY <1>0, <1>1, <1>2, <1>3, <1>4 DEF IInv

-----------------------------------------------------------------------------
(* Steps that leave the store alone: the customer's, the bank's, a handler's *)
(* on its way, a client's that goes away, a crash.                           *)

StoreUntouched ==
    /\ UNCHANGED <<payments, transactions, res>>
    /\ \A o \in Orders : checkout'[o] = checkout[o] \/
        (checkout[o] \notin {"new", "redirected"} /\ checkout'[o] = "over")
    /\ \A s \in Sessions : sessions'[s] = sessions[s] \/
        /\ sessions'[s].order = sessions[s].order /\ Known(sessions[s].order)
        /\ sessions'[s].stage # "unused"
    /\ \A h \in Handlers : pc'[h] = "idle" \/
        /\ pc[h] # "idle" /\ rec'[h] = rec[h]
        /\ Holding(h)' => Holding(h)
        /\ Engaged(h)' => Engaged(h)

LEMMA UntouchedStep ==
    ASSUME IInv, TypeInv', StoreUntouched
    PROVE  IInv'
  <1> USE DEF StoreUntouched
  <1>1. \A o : Known(o) => Known(o)'
    BY DEF Known
  <1>2. \A o \in Orders, status \in Statuses : InStatus(o, status)' <=> InStatus(o, status)
    BY DEF InStatus
  <1>3. \A o \in Orders : Done(o)' <=> Done(o)
    BY <1>2 DEF Done, Statuses
  <1>4. \A h \in Handlers : pc[h] # "idle" => rec[h].order \in Orders
    BY DEF IInv, KnownLater, Known
  <1>5. /\ pc' \in [Handlers -> Steps]
        /\ \A h \in Handlers : pc'[h] = "idle" => ~Holding(h)' /\ ~Engaged(h)'
        /\ \A h \in Handlers : Holding(h) \/ Engaged(h) => pc[h] # "idle"
    BY DEF TypeInv, TypeOK, Holding, Engaged
  <1>6. TokensBelong'
    <2>1. \A o \in Orders :
             /\ res[o] \in Sessions \cup {None}
             /\ payments[o] # None => payments[o].token \in Sessions \cup {None}
      BY DEF IInv, TypeInv, TypeOK, StoreTypeOK, StoredPayment
    <2>2. \A s \in Sessions, o \in Orders : Opened(s, o) => Opened(s, o)'
      BY DEF Opened
    <2> QED
      BY <2>1, <2>2 DEF IInv, TokensBelong, Opened
  <1>7. KnownLater'
    BY <1>1 DEF IInv, KnownLater
  <1>8. StatusPlace'
    BY <1>2 DEF IInv, StatusPlace, Done, Statuses
  <1>9. OneEngaged'
    BY <1>2, <1>3, <1>4, <1>5 DEF IInv, OneEngaged, Statuses, KnownLater, Known
  <1>10. FulfilledOnce'
    BY DEF IInv, FulfilledOnce
  <1> QED
    BY <1>6, <1>7, <1>8, <1>9, <1>10 DEF IInv

\* The stage of one session moves, nothing else of any.
LEMMA StageMoved ==
    ASSUME TypeInv, NEW s \in Sessions, NEW stage, Known(sessions[s].order), stage # "unused",
           sessions' = [sessions EXCEPT ![s].stage = stage]
    PROVE  \A t \in Sessions : sessions'[t] = sessions[t] \/
             /\ sessions'[t].order = sessions[t].order /\ Known(sessions[t].order)
             /\ sessions'[t].stage # "unused"
  <1>1. sessions[s] \in [order : Orders \cup {None}, stage : Stages]
    BY DEF TypeInv, TypeOK
  <1>2. /\ [sessions[s] EXCEPT !.stage = stage].stage = stage
        /\ [sessions[s] EXCEPT !.stage = stage].order = sessions[s].order
    BY <1>1
  <1>3. sessions' = [sessions EXCEPT ![s] = [sessions[s] EXCEPT !.stage = stage]]
    OBVIOUS
  <1> DEFINE moved == [sessions[s] EXCEPT !.stage = stage]
  <1>4. moved.stage = stage /\ moved.order = sessions[s].order
        /\ sessions' = [sessions EXCEPT ![s] = moved]
    BY <1>2, <1>3
  <1> HIDE DEF moved, Known
  <1> QED
    BY <1>4 DEF TypeInv, TypeOK

LEMMA CustomerStep ==
    ASSUME IInv, NEW s \in Sessions, Pay(s) \/ Cancel(s)
    PROVE  IInv'
  <1>1. TypeInv /\ TypeInv'
    BY CustomerTypes DEF IInv
  <1>2. PICK stage \in {"paid", "cancelled"} : CustomerDecides(s, stage)
    BY DEF Pay, Cancel
  <1>3. Known(sessions[s].order) /\ sessions' = [sessions EXCEPT ![s].stage = stage]
    BY <1>2 DEF CustomerDecides
  <1>4. UNCHANGED <<payments, transactions, checkout, res, pc, rec>>
    BY <1>2 DEF CustomerDecides, storeVars, shopVars, handlerVars
  <1>5. \A t \in Sessions : sessions'[t] = sessions[t] \/
           /\ sessions'[t].order = sessions[t].order /\ Known(sessions[t].order)
           /\ sessions'[t].stage # "unused"
    BY <1>1, <1>3, StageMoved
  <1>6. StoreUntouched
    BY <1>4, <1>5 DEF StoreUntouched, Holding, Engaged
  <1> QED
    BY <1>1, <1>6, UntouchedStep

LEMMA BankStep ==
    ASSUME IInv, NEW h \in Handlers, Bank(h)
    PROVE  IInv'
  <1>1. TypeInv /\ TypeInv'
    BY BankTypes DEF IInv
  <1>2. UNCHANGED <<payments, transactions, checkout, res, pc, rec>>
    <2>1. CASE BankProcesses(h)
      BY <2>1 DEF BankProcesses, storeVars, shopVars
    <2>2. CASE BankRejects(h) \/ CallLost(h)
      BY <2>2 DEF BankRejects, CallLost, storeVars, shopVars, handlerVars
    <2> QED
      BY <2>1, <2>2 DEF Bank
  <1>3. \A t \in Sessions : sessions'[t] = sessions[t] \/
           /\ sessions'[t].order = sessions[t].order /\ Known(sessions[t].order)
           /\ sessions'[t].stage # "unused"
    <2>1. CASE BankProcesses(h)
      <3>1. PICK s \in Meant(wire[h]) : \E effect \in Effects(wire[h], s) :
               sessions' = [sessions EXCEPT ![s].stage = effect[1]]
        BY <2>1 DEF BankProcesses
      <3>2. PICK effect \in Effects(wire[h], s) :
               sessions' = [sessions EXCEPT ![s].stage = effect[1]]
        BY <3>1
      <3>3. s \in Sessions /\ Charged(s)
        BY DEF Meant
      <3>4. Known(sessions[s].order)
        BY <3>3 DEF IInv, KnownLater, Charged
      <3>5. effect[1] # "unused"
        BY <3>3 DEF Effects, Charged
      <3> QED
        BY <1>1, <3>2, <3>3, <3>4, <3>5, StageMoved
    <2>2. CASE BankRejects(h) \/ CallLost(h)
      BY <2>2 DEF BankRejects, CallLost
    <2> QED
      BY <2>1, <2>2 DEF Bank
  <1>4. StoreUntouched
    BY <1>2, <1>3 DEF StoreUntouched, Holding, Engaged
  <1> QED
    BY <1>1, <1>4, UntouchedStep

LEMMA FaultStep ==
    ASSUME IInv, ProcessDies \/ \E h \in Handlers : Disconnect(h)
    PROVE  IInv'
  <1>1. TypeInv /\ TypeInv'
    BY FaultTypes DEF IInv
  <1>2. StoreUntouched
    BY DEF ProcessDies, Disconnect, StoreUntouched, storeVars, shopVars, Holding, Engaged
  <1> QED
    BY <1>1, <1>2, UntouchedStep

\* A handler between its statements, or ending without one.
LEMMA QuietStep ==
    ASSUME IInv, NEW h \in Handlers, Handler(h), UNCHANGED storeVars, ~Claim(h)
    PROVE  IInv'
  <1>1. TypeInv /\ TypeInv'
    BY HandlerTypes DEF IInv
  <1>2. UNCHANGED <<checkout, res, sessions>> /\
        \A k \in Handlers \ {h} : pc'[k] = pc[k] /\ rec'[k] = rec[k]
    BY <1>1
       DEF Handler, Claim, NotClaimed, ClaimError, Verify, VerifyReply, SettleReply, CallError,
           ReleasePending, ReleasePendingError, ReleaseSucceeded, ReleaseSucceededError,
           Record, RecordError, Goto, End, shopVars, TypeInv, TypeOK
  <1>3. pc'[h] = "idle" \/
           /\ pc[h] # "idle" /\ rec'[h] = rec[h]
           /\ Holding(h)' => Holding(h)
           /\ Engaged(h)' => Engaged(h)
    BY <1>1
       DEF Handler, NotClaimed, ClaimError, Verify, VerifyReply, SettleReply, CallError,
           ReleasePending, ReleasePendingError, ReleaseSucceeded, ReleaseSucceededError,
           Record, RecordError, Goto, End, TypeInv, TypeOK, Holding, Engaged
  <1>4. \A k \in Handlers \ {h} : (Holding(k)' => Holding(k)) /\ (Engaged(k)' => Engaged(k))
    BY <1>2 DEF Holding, Engaged
  <1>5. StoreUntouched
    BY <1>2, <1>3, <1>4 DEF StoreUntouched, storeVars
  <1> QED
    BY <1>1, <1>5, UntouchedStep

-----------------------------------------------------------------------------
(* A callback arrives: nobody can name an order whose checkout is under way. *)

LEMMA LoadKnown ==
    ASSUME IInv, NEW c \in Delivered,
           NEW o \in LoadPayment(G!CallbackOrderID(gateway, c))
    PROVE  Known(o)
  <1> DEFINE key == G!CallbackOrderID(gateway, c)
  <1>1. c \in Callback
    BY DeliveredTypes DEF IInv
  <1>2. key \in {c.order, c.token}
    BY DEF G!CallbackOrderID
  <1>3. /\ c.order # None => Known(c.order)
        /\ c.token # None => Known(sessions[c.token].order)
    <2>1. ASSUME NEW s \in Sessions, sessions[s].stage \notin {"unused", "open"}, c = Genuine(s)
          PROVE  Known(c.order) /\ Known(sessions[c.token].order)
      <3>1. Known(sessions[s].order)
        BY <2>1 DEF IInv, KnownLater
      <3> QED
        BY <2>1, <3>1 DEF Genuine
    <2>2. CASE Nameable(c)
      BY <2>2 DEF Nameable
    <2> QED
      BY <2>1, <2>2 DEF Delivered, Charged
  <1>4. CASE o \in GetPayment(key)
    <2>1. o = key /\ o \in Orders
      BY <1>4 DEF GetPayment
    <2>2. o = c.order
      BY <1>1, <1>2, <2>1, KeysApart, NoneIsApart DEF Callback
    <2> QED
      BY <1>3, <2>1, <2>2, NoneIsApart
  <1>5. CASE o \in GetPaymentByToken(key)
    <2>1. o \in Orders /\ payments[o] # None /\ payments[o].token = key /\ key # None
      BY <1>5 DEF GetPaymentByToken
    <2>2. key \in Sessions
      BY <2>1 DEF IInv, TypeInv, TypeOK, StoreTypeOK, StoredPayment
    <2>3. key = c.token /\ key # None
      BY <1>1, <1>2, <2>1, <2>2, KeysApart DEF Callback
    <2>4. sessions[key].order = o
      BY <2>1 DEF IInv, TokensBelong, Opened
    <2> QED
      BY <1>3, <2>3, <2>4
  <1> QED
    BY <1>4, <1>5 DEF LoadPayment

LEMMA LoadStep ==
    ASSUME IInv, NEW h \in Handlers, NEW c \in Delivered, Load(h, c)
    PROVE  IInv'
  <1>1. TypeInv /\ TypeInv'
    BY LoadTypes DEF IInv
  <1>2. PICK o \in LoadPayment(G!CallbackOrderID(gateway, c)) :
           rec' = [rec EXCEPT ![h] =
                    [order |-> o, amount |-> Price[o], token |-> payments[o].token]]
    BY DEF Load
  <1>3. Known(o)
    BY LoadKnown
  <1>4. /\ rec'[h].order = o /\ pc[h] = "idle" /\ pc'[h] = "loaded"
        /\ \A k \in Handlers \ {h} : pc'[k] = pc[k] /\ rec'[k] = rec[k]
        /\ UNCHANGED <<payments, transactions, checkout, res, sessions>>
    BY <1>1, <1>2 DEF Load, TypeInv, TypeOK, storeVars, shopVars
  <1>5. \A k \in Handlers : (Holding(k)' <=> Holding(k)) /\ (Engaged(k)' <=> Engaged(k))
    BY <1>4 DEF Holding, Engaged
  <1>6. ~Engaged(h) /\ ~Holding(h)
    BY <1>4 DEF Holding, Engaged
  <1>7. KnownLater'
    BY <1>3, <1>4 DEF IInv, KnownLater, Known
  <1>8. OneEngaged'
    BY <1>4, <1>5, <1>6 DEF IInv, OneEngaged, Done, InStatus
  <1>9. TokensBelong' /\ StatusPlace' /\ FulfilledOnce'
    BY <1>4 DEF IInv, TokensBelong, StatusPlace, Done, FulfilledOnce, Opened,
       InStatus
  <1> QED
    BY <1>1, <1>7, <1>8, <1>9 DEF IInv

-----------------------------------------------------------------------------
(* Steps of a handler that change its payment's row. *)

\* The step of one handler that moves the row of its payment o from one status
\* to another.
RowStep(h, o, from, to) ==
    /\ o = rec[h].order
    /\ TransitionStatus(o, from, to)
    /\ UNCHANGED <<transactions, checkout, res, sessions>>
    /\ pc[h] # "idle"
    /\ pc'[h] # "idle" => rec'[h] = rec[h]
    /\ \A k \in Handlers \ {h} : pc'[k] = pc[k] /\ rec'[k] = rec[k]

\* What such a step leaves true whatever the two statuses.
LEMMA RowFrame ==
    ASSUME IInv, NEW h \in Handlers, NEW o, NEW from \in Statuses,
           NEW to \in {"pending", "processing", "succeeded"}, RowStep(h, o, from, to)
    PROVE  /\ TokensBelong' /\ KnownLater' /\ StatusPlace' /\ FulfilledOnce'
           /\ o \in Orders /\ InStatus(o, from) /\ InStatus(o, to)'
           /\ \A p \in Orders \ {o} : payments'[p] = payments[p]
  <1>0. o \in Orders /\ checkout[o] = "redirected"
    BY DEF IInv, KnownLater, Known, RowStep
  <1>1. /\ payments[o] # None /\ payments'[o] # None
        /\ payments'[o].status = to /\ payments'[o].token = payments[o].token
        /\ \A p \in Orders \ {o} : payments'[p] = payments[p]
    BY <1>0, RowMoved DEF RowStep, IInv, TypeInv, TypeOK, StoreTypeOK, Statuses
  <1>2. InStatus(o, from) /\ InStatus(o, to)'
    BY <1>1 DEF InStatus, RowStep, TransitionStatus
  <1>3. UNCHANGED <<transactions, checkout, res, sessions>>
    BY DEF RowStep
  <1>4. TokensBelong'
    BY <1>0, <1>1, <1>3 DEF IInv, TokensBelong, Opened
  <1>5. KnownLater'
    BY <1>3 DEF IInv, KnownLater, Known, RowStep
  <1>6. StatusPlace'
    BY <1>0, <1>1, <1>3 DEF IInv, StatusPlace, Done, InStatus
  <1>7. FulfilledOnce'
    BY <1>3 DEF IInv, FulfilledOnce
  <1> QED
    BY <1>0, <1>1, <1>2, <1>4, <1>5, <1>6, <1>7

\* A claim, whether its request goes on or stops: a pending order has no request
\* engaged and no record.
LEMMA ClaimEngages ==
    ASSUME IInv, NEW h \in Handlers, NEW o, RowStep(h, o, "pending", "processing"),
           pc'[h] \in {"claimed", "idle"}
    PROVE  OneEngaged'
  <1>1. /\ o \in Orders /\ InStatus(o, "pending") /\ InStatus(o, "processing")'
        /\ \A p \in Orders \ {o} : payments'[p] = payments[p]
    BY RowFrame DEF Statuses
  <1>2. /\ o = rec[h].order /\ UNCHANGED transactions
        /\ \A k \in Handlers \ {h} : pc'[k] = pc[k] /\ rec'[k] = rec[k]
        /\ pc'[h] # "idle" => rec'[h] = rec[h]
    BY DEF RowStep
  <1>3. ~Done(o) /\ Done(o)'
    BY <1>1 DEF Done, InStatus
  <1>4. /\ \A k \in Handlers : Engaged(k) => rec[k].order # o
        /\ \A i \in DOMAIN transactions : transactions[i].order # o
    BY <1>3 DEF IInv, OneEngaged
  <1>5. \A k \in Handlers \ {h} : (Holding(k)' <=> Holding(k)) /\ (Engaged(k)' <=> Engaged(k))
    BY <1>2 DEF Holding, Engaged
  <1>6. \A k \in Handlers : (Holding(k) => Engaged(k)) /\ (Engaged(k) => pc[k] # "idle")
    BY DEF Holding, Engaged
  <1>7. Engaged(h)' => pc'[h] # "idle"
    BY DEF Holding, Engaged
  <1>8. \A p \in Orders \ {o} : /\ Done(p)' <=> Done(p)
                                /\ InStatus(p, "processing")' <=> InStatus(p, "processing")
    BY <1>1 DEF Done, InStatus
  <1>9. \A k \in Handlers : pc[k] # "idle" => rec[k].order \in Orders
    BY DEF IInv, KnownLater, Known
  <1>10. \A i \in DOMAIN transactions : transactions[i].order \in Orders
    BY DEF IInv, KnownLater, Known
  <1>11. ASSUME NEW k \in Handlers, Engaged(k)'
         PROVE  Done(rec[k].order)' /\ (Holding(k)' => InStatus(rec[k].order, "processing")')
    <2>1. CASE k = h
      BY <1>1, <1>2, <1>3, <1>7, <1>11, <2>1 DEF Done, InStatus
    <2>2. CASE k # h
      BY <1>1, <1>2, <1>4, <1>5, <1>6, <1>9, <1>11, <2>2 DEF IInv, OneEngaged, Done, InStatus
    <2> QED
      BY <2>1, <2>2
  <1>12. \A k, l \in Handlers : Engaged(k)' /\ Engaged(l)' /\ rec'[k].order = rec'[l].order => k = l
    BY <1>2, <1>4, <1>5, <1>7 DEF IInv, OneEngaged
  <1>13. \A i \in DOMAIN transactions : Done(transactions[i].order)'
    BY <1>2, <1>4, <1>8, <1>10 DEF IInv, OneEngaged
  <1>14. \A i \in DOMAIN transactions, k \in Handlers :
            Engaged(k)' => rec'[k].order # transactions[i].order
    BY <1>2, <1>4, <1>5, <1>7 DEF IInv, OneEngaged
  <1>15. \A k \in Handlers : Holding(k)' => Engaged(k)'
    BY DEF Holding, Engaged
  <1> QED
    BY <1>2, <1>11, <1>12, <1>13, <1>14, <1>15 DEF OneEngaged

\* A release by the request that holds the order: back to pending, when it ends,
\* or on to succeeded, when it goes on to record.
LEMMA ReleaseEngages ==
    ASSUME IInv, NEW h \in Handlers, NEW o, NEW to \in {"pending", "succeeded"},
           RowStep(h, o, "processing", to), Holding(h),
           \/ to = "pending" /\ pc'[h] = "idle"
           \/ to = "succeeded" /\ pc'[h] = "recording"
    PROVE  OneEngaged'
  <1>1. /\ o \in Orders /\ InStatus(o, to)'
        /\ \A p \in Orders \ {o} : payments'[p] = payments[p]
    BY RowFrame DEF Statuses
  <1>2. /\ o = rec[h].order /\ UNCHANGED transactions
        /\ \A k \in Handlers \ {h} : pc'[k] = pc[k] /\ rec'[k] = rec[k]
        /\ pc'[h] # "idle" => rec'[h] = rec[h]
    BY DEF RowStep
  <1>3. to = "succeeded" => Done(o)'
    BY <1>1 DEF Done
  <1>4. /\ Engaged(h)
        /\ \A k \in Handlers \ {h} : Engaged(k) => rec[k].order # o
        /\ \A i \in DOMAIN transactions : transactions[i].order # o
    BY <1>2 DEF IInv, OneEngaged, Engaged
  <1>5. \A k \in Handlers \ {h} : (Holding(k)' <=> Holding(k)) /\ (Engaged(k)' <=> Engaged(k))
    BY <1>2 DEF Holding, Engaged
  <1>6. \A k \in Handlers : (Holding(k) => Engaged(k)) /\ (Engaged(k) => pc[k] # "idle")
    BY DEF Holding, Engaged
  <1>7. ~Holding(h)' /\ (Engaged(h)' <=> pc'[h] = "recording")
    BY DEF Holding, Engaged
  <1>8. \A p \in Orders \ {o} : /\ Done(p)' <=> Done(p)
                                /\ InStatus(p, "processing")' <=> InStatus(p, "processing")
    BY <1>1 DEF Done, InStatus
  <1>9. \A k \in Handlers : pc[k] # "idle" => rec[k].order \in Orders
    BY DEF IInv, KnownLater, Known
  <1>10. \A i \in DOMAIN transactions : transactions[i].order \in Orders
    BY DEF IInv, KnownLater, Known
  <1> QED
    BY <1>1, <1>2, <1>3, <1>4, <1>5, <1>6, <1>7, <1>8, <1>9, <1>10 DEF IInv, OneEngaged

\* The record of a request that has its order to itself is the order's first.
LEMMA RecordStep ==
    ASSUME IInv, NEW h \in Handlers, pc[h] = "recording", End(h), UNCHANGED payments,
           SaveTransaction(NewTransaction(h))
    PROVE  IInv'
  <1>1. TypeInv /\ TypeInv'
    <2>1. TypeInv
      BY DEF IInv
    <2>2. StoreTypeOK'
      BY <2>1, StatementTypes
    <2> QED
      BY <2>1, <2>2, EndTypes
  <1> DEFINE o == rec[h].order
             n == Len(transactions)
  <1>2. /\ Engaged(h) /\ o \in Orders /\ Known(o) /\ Done(o)
        /\ \A k \in Handlers \ {h} : Engaged(k) => rec[k].order # o
        /\ \A i \in DOMAIN transactions : transactions[i].order # o
    BY DEF IInv, OneEngaged, KnownLater, Known, Engaged
  <1>3. /\ n \in Nat /\ DOMAIN transactions = 1 .. n /\ DOMAIN transactions' = 1 .. n + 1
        /\ transactions'[n + 1].order = o
        /\ \A i \in 1 .. n : transactions'[i] = transactions[i]
    BY <1>1 DEF SaveTransaction, NewTransaction, TypeInv, TypeOK, StoreTypeOK
  <1>4. /\ UNCHANGED <<payments, checkout, res, sessions>>
        /\ pc'[h] = "idle"
        /\ \A k \in Handlers \ {h} : pc'[k] = pc[k] /\ rec'[k] = rec[k]
    BY <1>1 DEF End, shopVars, TypeInv, TypeOK
  <1>5. /\ \A k \in Handlers \ {h} : (Holding(k)' <=> Holding(k)) /\ (Engaged(k)' <=> Engaged(k))
        /\ ~Holding(h)' /\ ~Engaged(h)'
    BY <1>4 DEF Holding, Engaged
  <1> HIDE DEF o, n
  <1>6. FulfilledOnce'
    BY <1>2, <1>3 DEF IInv, FulfilledOnce
  <1>7. KnownLater'
    BY <1>2, <1>3, <1>4 DEF IInv, KnownLater, Known
  <1>8. OneEngaged'
    <2>1. ASSUME NEW k \in Handlers, Holding(k)'
          PROVE  InStatus(rec[k].order, "processing")'
      <3>1. k # h /\ Holding(k) /\ rec'[k] = rec[k]
        BY <1>4, <1>5, <2>1
      <3>2. InStatus(rec[k].order, "processing")
        BY <3>1 DEF IInv, OneEngaged
      <3> QED
        BY <1>4, <3>1, <3>2 DEF InStatus
    <2>2. \A k \in Handlers : Engaged(k)' => k # h /\ Engaged(k) /\ rec'[k] = rec[k]
      BY <1>4, <1>5
    <2>3. ASSUME NEW k \in Handlers, Engaged(k)'
          PROVE  Done(rec[k].order)'
      <3>1. Done(rec[k].order) /\ rec'[k] = rec[k]
        BY <2>2, <2>3 DEF IInv, OneEngaged
      <3> QED
        BY <1>4, <3>1 DEF Done, InStatus
    <2>4. \A k, l \in Handlers :
             Engaged(k)' /\ Engaged(l)' /\ rec'[k].order = rec'[l].order => k = l
      <3>1. \A k, l \in Handlers :
               Engaged(k) /\ Engaged(l) /\ rec[k].order = rec[l].order => k = l
        BY DEF IInv, OneEngaged
      <3> QED
        BY <2>2, <3>1
    <2>5. ASSUME NEW i \in DOMAIN transactions'
          PROVE  \/ transactions'[i].order = o
                 \/ i \in DOMAIN transactions /\ transactions'[i] = transactions[i]
      BY <1>3
    <2>6. ASSUME NEW i \in DOMAIN transactions'
          PROVE  Done(transactions[i].order)'
      <3>1. Done(transactions'[i].order)
        BY <1>2, <2>5 DEF IInv, OneEngaged
      <3> QED
        BY <1>4, <3>1 DEF Done, InStatus
    <2>7. ASSUME NEW i \in DOMAIN transactions', NEW k \in Handlers, Engaged(k)'
          PROVE  rec'[k].order # transactions'[i].order
      <3>1. k # h /\ Engaged(k) /\ rec'[k] = rec[k]
        BY <2>2, <2>7
      <3>2. CASE transactions'[i].order = o
        BY <1>2, <3>1, <3>2
      <3>3. CASE i \in DOMAIN transactions /\ transactions'[i] = transactions[i]
        BY <3>1, <3>3 DEF IInv, OneEngaged
      <3> QED
        BY <2>5, <3>2, <3>3
    <2> QED
      BY <2>1, <2>3, <2>4, <2>6, <2>7 DEF OneEngaged
  <1>9. TokensBelong' /\ StatusPlace'
    BY <1>4 DEF IInv, TokensBelong, StatusPlace, Done, Opened, InStatus
  <1> QED
    BY <1>1, <1>6, <1>7, <1>8, <1>9 DEF IInv

-----------------------------------------------------------------------------
(* Every step of a handler is one of these. *)

Claims(h) ==
    /\ RowStep(h, rec[h].order, "pending", "processing")
    /\ pc'[h] \in {"claimed", "idle"}

Releases(h) ==
    /\ Holding(h)
    /\ \/ RowStep(h, rec[h].order, "processing", "pending") /\ pc'[h] = "idle"
       \/ RowStep(h, rec[h].order, "processing", "succeeded") /\ pc'[h] = "recording"

Records(h) ==
    /\ pc[h] = "recording"
    /\ End(h) /\ UNCHANGED payments
    /\ SaveTransaction(NewTransaction(h))

LEMMA HandlerSteps ==
    ASSUME TypeInv, NEW h \in Handlers, Handler(h)
    PROVE  \/ UNCHANGED storeVars /\ ~Claim(h)
           \/ Claims(h) \/ Releases(h) \/ Records(h)
  <1> USE DEF TypeInv, TypeOK, storeVars
  <1> DEFINE Others == \A k \in Handlers \ {h} : pc'[k] = pc[k] /\ rec'[k] = rec[k]
  <1>1. ASSUME NEW from, NEW to, Goto(h, from, to)
        PROVE  /\ pc[h] = from /\ pc'[h] = to /\ rec'[h] = rec[h] /\ Others
               /\ UNCHANGED <<checkout, res>>
    BY <1>1 DEF Goto, shopVars
  <1>2. ASSUME End(h)
        PROVE  pc'[h] = "idle" /\ Others /\ UNCHANGED <<checkout, res, sessions>>
    BY <1>2 DEF End, shopVars
  <1> HIDE DEF TypeInv, TypeOK
  <1>3. CASE Claim(h)
    BY <1>1, <1>3 DEF Claim, Claims, RowStep
  <1>4. CASE ClaimError(h)
    BY <1>2, <1>4 DEF ClaimError, Claim, Goto, Claims, RowStep
  <1>5. CASE ReleasePending(h) \/ ReleasePendingError(h)
    BY <1>2, <1>5
       DEF ReleasePending, ReleasePendingError, Claim, Goto, Releases, RowStep, Holding
  <1>6. CASE ReleaseSucceeded(h) \/ ReleaseSucceededError(h)
    BY <1>1, <1>6
       DEF ReleaseSucceeded, ReleaseSucceededError, Claim, Goto, Releases, RowStep, Holding
  <1>7. CASE Record(h) \/ RecordError(h)
    BY <1>7 DEF Record, RecordError, Records, Claim, Goto
  <1>8. CASE NotClaimed(h) \/ Verify(h) \/ VerifyReply(h) \/ SettleReply(h) \/ CallError(h)
    <2>1. UNCHANGED storeVars
      BY <1>8 DEF NotClaimed, Verify, VerifyReply, SettleReply, CallError
    <2>2. CASE Claim(h)
      BY <1>3, <2>2
    <2> QED
      BY <2>1, <2>2
  <1> QED
    BY <1>3, <1>4, <1>5, <1>6, <1>7, <1>8 DEF Handler

LEMMA HandlerStep ==
    ASSUME IInv, NEW h \in Handlers, Handler(h)
    PROVE  IInv'
  <1>1. TypeInv /\ TypeInv'
    BY HandlerTypes DEF IInv
  <1>2. CASE UNCHANGED storeVars /\ ~Claim(h)
    BY <1>2, QuietStep
  <1>3. CASE Claims(h)
    BY <1>1, <1>3, RowFrame, ClaimEngages DEF Claims, IInv, Statuses
  <1>4. CASE Releases(h)
    BY <1>1, <1>4, RowFrame, ReleaseEngages DEF Releases, IInv, Statuses
  <1>5. CASE Records(h)
    BY <1>5, RecordStep DEF Records
  <1> QED
    BY <1>1, <1>2, <1>3, <1>4, <1>5, HandlerSteps

LEMMA FlowClaims ==
    ASSUME IInv, FlowStep
    PROVE  IInv'
  <1>1. CASE UNCHANGED vars
    <2>1. TypeInv'
      BY <1>1, FlowTypes DEF IInv, FlowStep
    <2>2. StoreUntouched
      BY <1>1 DEF vars, storeVars, shopVars, handlerVars, StoreUntouched, Holding, Engaged
    <2> QED
      BY <2>1, <2>2, UntouchedStep
  <1>2. CASE Running \/ ProcessDies
    BY <1>2, CheckoutStep, CustomerStep, LoadStep, HandlerStep, BankStep, FaultStep
       DEF Running
  <1> QED
    BY <1>1, <1>2 DEF FlowStep

LEMMA ClaimStep == IInv /\ [Next]_vars => IInv'
  BY NextFlows, FlowClaims

LEMMA ClaimsHold == Spec => []IInv
  BY ClaimInit, ClaimStep, PTL DEF Spec

-----------------------------------------------------------------------------
(* The theorems. *)

\* However many callbacks for however many orders are served at once, and
\* whatever fails, no two verify the same order, and its row says so.
THEOREM ClaimIsExclusive == Spec => []ClaimExclusive
  <1>1. IInv => ClaimExclusive
    BY DEF IInv, OneEngaged, ClaimExclusive, Engaged
  <1> QED
    BY <1>1, ClaimsHold, PTL

\* No order ever has two transactions.
THEOREM NothingFulfilledTwice == Spec => []FulfilledOnce
  <1>1. IInv => FulfilledOnce
    BY DEF IInv
  <1> QED
    BY <1>1, ClaimsHold, PTL

\* No order a customer was charged for is given up as failed.
THEOREM PaidNeverFailed == Spec => []FailedNeverPaid
  <1>1. IInv => FailedNeverPaid
    BY DEF IInv, FailedNeverPaid, KnownLater, StatusPlace, Known, Charged, InStatus
  <1> QED
    BY <1>1, ClaimsHold, PTL

\* Only checkouts that are not over, and handlers, change rows.
LEMMA RowChanges ==
    ASSUME IInv, FlowStep, NEW o \in Orders, payments'[o] # payments[o]
    PROVE  \/ checkout[o] \notin {"redirected", "over"}
           \/ \E h \in Handlers : rec[h].order = o /\ (Claims(h) \/ Releases(h))
  <1>1. CASE UNCHANGED payments
    BY <1>1
  <1>2. ASSUME NEW p \in Orders, Checkout(p)
        PROVE  checkout[o] \notin {"redirected", "over"}
    BY <1>2, CheckoutEffect DEF IInv
  <1>3. ASSUME NEW h \in Handlers, Handler(h)
        PROVE  rec[h].order = o /\ (Claims(h) \/ Releases(h))
    <2>1. CASE UNCHANGED storeVars \/ Records(h)
      BY <2>1 DEF storeVars, Records
    <2>2. CASE Claims(h) \/ Releases(h)
      BY <2>2, RowFrame DEF Claims, Releases, Statuses
    <2> QED
      BY <1>3, <2>1, <2>2, HandlerSteps DEF IInv
  <1>4. CASE UNCHANGED vars
    BY <1>1, <1>4 DEF vars, storeVars
  <1>5. ASSUME NEW s \in Sessions, Pay(s) \/ Cancel(s)
        PROVE  UNCHANGED payments
    BY <1>5 DEF Pay, Cancel, CustomerDecides, storeVars
  <1>6. ASSUME NEW h \in Handlers, (\E c \in Delivered : Load(h, c)) \/ Disconnect(h) \/ Bank(h)
        PROVE  UNCHANGED payments
    BY <1>6 DEF Load, Disconnect, Bank, BankProcesses, BankRejects, CallLost, storeVars
  <1>7. CASE ProcessDies
    BY <1>1, <1>7 DEF ProcessDies, storeVars
  <1> QED
    BY <1>1, <1>2, <1>3, <1>4, <1>5, <1>6, <1>7 DEF FlowStep, Running

\* A succeeded or failed row is never rewritten.
THEOREM FinalStatusHolds == Spec => FinalStatus
  <1>1. IInv /\ [Next]_vars =>
          \A o \in Orders : InStatus(o, "succeeded") \/ InStatus(o, "failed")
            => payments'[o] = payments[o]
    <2> SUFFICES ASSUME IInv, [Next]_vars, NEW o \in Orders, payments'[o] # payments[o]
                 PROVE  ~InStatus(o, "succeeded") /\ ~InStatus(o, "failed")
      OBVIOUS
    <2>1. CASE checkout[o] \notin {"redirected", "over"}
      BY <2>1 DEF IInv, StatusPlace, Done
    <2>2. CASE \E h \in Handlers : rec[h].order = o /\ (Claims(h) \/ Releases(h))
      BY <2>2 DEF Claims, Releases, RowStep, TransitionStatus, InStatus
    <2> QED
      BY <2>1, <2>2, RowChanges, NextFlows
  <1> QED
    BY <1>1, ClaimsHold, PTL DEF Spec, FinalStatus

\* Nobody but the request that claimed a payment ends its processing.
THEOREM OnlyHolderMoves == Spec => OnlyHolderReleases
  <1>1. IInv /\ [Next]_vars =>
          \A o \in Orders : InStatus(o, "processing") /\ payments'[o] # payments[o]
            => \E h \in Handlers : Holds(h, o) /\ pc'[h] \in {"idle", "recording"}
    <2> SUFFICES ASSUME IInv, [Next]_vars, NEW o \in Orders, payments'[o] # payments[o],
                        InStatus(o, "processing")
                 PROVE  \E h \in Handlers : Holds(h, o) /\ pc'[h] \in {"idle", "recording"}
      OBVIOUS
    <2>1. checkout[o] = "redirected"
      BY DEF IInv, StatusPlace, Done
    <2>2. PICK h \in Handlers : rec[h].order = o /\ (Claims(h) \/ Releases(h))
      BY <2>1, RowChanges, NextFlows
    <2>3. Releases(h)
      BY <2>2 DEF Claims, RowStep, TransitionStatus, InStatus
    <2> QED
      BY <2>2, <2>3 DEF Releases, Holds
  <1> QED
    BY <1>1, ClaimsHold, PTL DEF Spec, OnlyHolderReleases

=============================================================================
