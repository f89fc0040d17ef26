------------------------------ MODULE CalmProofs ------------------------------
(***************************************************************************)
(* The theorems about Webshop that need the shop's own side to work: calls *)
(* to the bank may be lost, late or refused, but no statement fails, no    *)
(* client goes away and the process lives.  Without that hypothesis they   *)
(* are false: the run client_gone shows one of them violated.              *)
(***************************************************************************)
EXTENDS PaymentProofs

\* Only calls to the bank fail.
OnlyCallsFail == Faults \subseteq {"transport", "refusal"}

\* NoOrphan and SucceededRecorded are inductive once it is known that no
\* request's context is cancelled.
CalmInv ==
    /\ IInv
    /\ \A h \in Handlers : ~gone[h]
    /\ NoOrphan
    /\ SucceededRecorded

CalmStep == Running \/ UNCHANGED vars

LEMMA CalmInit == Init => CalmInv
  BY ClaimInit DEF CalmInv, Init, StoreInit, NoOrphan, SucceededRecorded, InStatus

LEMMA NextIsCalm == OnlyCallsFail /\ [Next]_vars => CalmStep
  BY DEF OnlyCallsFail, CalmStep, Next, Crash

-----------------------------------------------------------------------------
(* Who moves: one handler, or nobody as far as claims are concerned.         *)

\* A request leaves its claim by a release and its record by recording.
LEMMA CalmHandler ==
    ASSUME IInv, OnlyCallsFail, NEW h \in Handlers, ~gone[h], Handler(h)
    PROVE  /\ ~gone'[h]
           /\ Claims(h) => pc'[h] = "claimed"
           /\ Holding(h) /\ ~Holding(h)' => Releases(h)
           /\ Holding(h) /\ Holding(h)' => rec'[h] = rec[h]
           /\ pc[h] = "recording" => Records(h)
           /\ pc[h] = "failing" => RowStep(h, rec[h].order, "processing", "pending")
  <1>0. TypeInv /\ ~Breaks(h)
    BY DEF IInv, Breaks, OnlyCallsFail
  <1>1. Holding(h) => InStatus(rec[h].order, "processing")
    BY DEF IInv, OneEngaged
  <1> USE DEF TypeInv, TypeOK, storeVars, shopVars
  <1>2. ASSUME NEW from, NEW to, Goto(h, from, to)
        PROVE  /\ pc[h] = from /\ pc'[h] = to /\ UNCHANGED <<checkout, res, cb, rec, gone>>
               /\ \A k \in Handlers \ {h} : pc'[k] = pc[k] /\ rec'[k] = rec[k]
    BY <1>0, <1>2 DEF Goto
  <1>3. ASSUME End(h)
        PROVE  /\ pc'[h] = "idle" /\ ~gone'[h] /\ UNCHANGED <<checkout, res, sessions>>
               /\ \A k \in Handlers \ {h} : pc'[k] = pc[k] /\ rec'[k] = rec[k]
    BY <1>0, <1>3 DEF End
  <1> HIDE DEF TypeInv, TypeOK
  <1>4. CASE Claim(h)
    BY <1>2, <1>4 DEF Claim, Claims, Holding
  <1>5. CASE NotClaimed(h)
    BY <1>3, <1>5 DEF NotClaimed, Claims, RowStep, TransitionStatus, Holding
  <1>6. CASE ReleasePending(h)
    <2>1. /\ pc[h] = "failing" /\ Holding(h) /\ End(h) /\ UNCHANGED transactions
          /\ TransitionStatus(rec[h].order, "processing", "pending")
      BY <1>1, <1>6 DEF ReleasePending, Holding
    <2>2. RowStep(h, rec[h].order, "processing", "pending") /\ pc'[h] = "idle"
      BY <1>3, <2>1 DEF RowStep
    <2> QED
      BY <1>3, <2>1, <2>2 DEF Releases, Claims, RowStep, TransitionStatus, InStatus, Holding
  <1>7. CASE ReleaseSucceeded(h)
    <2>1. /\ pc[h] = "accepted" /\ Holding(h) /\ Goto(h, "accepted", "recording")
          /\ UNCHANGED <<transactions, sessions>>
          /\ TransitionStatus(rec[h].order, "processing", "succeeded")
      BY <1>1, <1>7 DEF ReleaseSucceeded, Goto, Holding
    <2>2. RowStep(h, rec[h].order, "processing", "succeeded") /\ pc'[h] = "recording"
      BY <1>2, <2>1 DEF RowStep
    <2> QED
      BY <1>2, <2>1, <2>2 DEF Releases, Claims, RowStep, TransitionStatus, InStatus
  <1>8. CASE Record(h)
    <2>1. pc[h] = "recording" /\ Records(h)
      BY <1>8 DEF Record, Records
    <2>2. ~InStatus(rec[h].order, "pending")
      BY <2>1 DEF IInv, OneEngaged, Engaged, Done, InStatus
    <2> QED
      BY <1>3, <1>8, <2>1, <2>2 DEF Record, Claims, RowStep, TransitionStatus, Holding
  <1>9. CASE Verify(h) \/ VerifyReply(h) \/ SettleReply(h) \/ CallError(h)
    <2>1. UNCHANGED storeVars /\ Holding(h) /\ \E from, to : Goto(h, from, to) /\
             to \in {"verifying", "settling", "failing", "accepted"}
      BY <1>9 DEF Verify, VerifyReply, SettleReply, CallError, Holding, Goto
    <2>2. pc[h] \notin {"failing", "recording", "loaded"}
      BY <1>9 DEF Verify, VerifyReply, SettleReply, CallError, Goto
    <2> QED
      BY <1>1, <1>2, <2>1, <2>2 DEF Claims, RowStep, TransitionStatus, InStatus, Holding
  <1>10. ~ClaimError(h) /\ ~ReleasePendingError(h) /\ ~ReleaseSucceededError(h) /\ ~RecordError(h)
    BY <1>0 DEF ClaimError, ReleasePendingError, ReleaseSucceededError, RecordError
  <1> QED
    BY <1>4, <1>5, <1>6, <1>7, <1>8, <1>9, <1>10 DEF Handler

\* Steps of anybody else: requests stay where they are, and no row becomes
\* processing or succeeded.
Undisturbed ==
    /\ UNCHANGED transactions
    /\ \A h \in Handlers : ~gone'[h]
    /\ \A h \in Handlers : pc[h] # "idle" => pc'[h] = pc[h] /\ rec'[h] = rec[h]
    /\ \A o \in Orders, status \in {"processing", "succeeded"} :
        InStatus(o, status)' => InStatus(o, status)

LEMMA CalmSteps ==
    ASSUME CalmInv, OnlyCallsFail, CalmStep
    PROVE  Undisturbed \/ \E h \in Handlers : Handler(h)
  <1>0. TypeInv /\ \A h \in Handlers : ~gone[h]
    BY DEF CalmInv, IInv
  <1> USE DEF Undisturbed
  <1>1. CASE UNCHANGED vars
    BY <1>0, <1>1 DEF vars, storeVars, handlerVars, InStatus
  <1>2. ASSUME NEW o \in Orders, Checkout(o)
        PROVE  Undisturbed
    <2>1. UNCHANGED <<transactions, handlerVars>>
      BY <1>2 DEF Checkout, SaveOrder, SaveOrderError, Request, RequestError, MarkFailed,
                  SaveToken, SaveTokenError, Redirect, CheckoutAt
    <2> QED
      BY <1>0, <1>2, <2>1, CheckoutEffect DEF handlerVars, InStatus
  <1>3. ASSUME NEW s \in Sessions, Pay(s) \/ Cancel(s)
        PROVE  Undisturbed
    BY <1>0, <1>3 DEF Pay, Cancel, CustomerDecides, storeVars, handlerVars, InStatus
  <1>4. ASSUME NEW h \in Handlers, NEW c \in Delivered, Load(h, c)
        PROVE  Undisturbed
    <2>1. \A k \in Handlers \ {h} : pc'[k] = pc[k] /\ rec'[k] = rec[k]
      BY <1>0, <1>4 DEF Load, TypeInv, TypeOK
    <2> QED
      BY <1>0, <1>4, <2>1 DEF Load, storeVars, InStatus
  <1>5. ASSUME NEW h \in Handlers, Bank(h)
        PROVE  Undisturbed
    <2>1. UNCHANGED <<payments, transactions, pc, rec, gone>>
      BY <1>0, <1>5, BankFrame DEF Bank, BankProcesses, BankRejects, CallLost, handlerVars
    <2> QED
      BY <1>0, <2>1 DEF InStatus
  <1>6. \A h \in Handlers : ~Disconnect(h)
    BY DEF Disconnect, OnlyCallsFail
  <1> QED
    BY <1>1, <1>2, <1>3, <1>4, <1>5, <1>6 DEF CalmStep, Running

LEMMA UndisturbedCalm ==
    ASSUME CalmInv, IInv', Undisturbed
    PROVE  CalmInv'
  <1>1. NoOrphan'
    <2>1. \A h \in Handlers, o \in Orders : Holds(h, o) => Holds(h, o)'
      BY DEF Undisturbed, Holds, Holding
    <2> QED
      BY <2>1 DEF Undisturbed, CalmInv, NoOrphan
  <1>2. SucceededRecorded'
    BY DEF Undisturbed, CalmInv, SucceededRecorded
  <1> QED
    BY <1>1, <1>2 DEF CalmInv, Undisturbed

\* What one handler does to the rows, the others keep to.
LEMMA HandlerCalm ==
    ASSUME CalmInv, IInv', OnlyCallsFail, NEW h \in Handlers, Handler(h)
    PROVE  CalmInv'
  <1>0. IInv /\ TypeInv
    BY DEF CalmInv, IInv
  <1>1. /\ ~gone'[h]
        /\ Claims(h) => pc'[h] = "claimed"
        /\ Holding(h) /\ ~Holding(h)' => Releases(h)
        /\ Holding(h) /\ Holding(h)' => rec'[h] = rec[h]
        /\ pc[h] = "recording" => Records(h)
    BY <1>0, CalmHandler DEF CalmInv
  <1>2. \A k \in Handlers \ {h} : pc'[k] = pc[k] /\ rec'[k] = rec[k] /\ gone'[k] = gone[k]
    <2>1. \A k \in Handlers \ {h} : gone'[k] = gone[k]
      BY <1>0
         DEF Handler, Claim, NotClaimed, ClaimError, Verify, VerifyReply, SettleReply, CallError,
             ReleasePending, ReleasePendingError, ReleaseSucceeded, ReleaseSucceededError,
             Record, RecordError, Goto, End, TypeInv, TypeOK
    <2> QED
      BY <1>0, <2>1, HandlerFrame
  <1>3. \A k \in Handlers \ {h}, o \in Orders : Holds(k, o) => Holds(k, o)'
    BY <1>2 DEF Holds, Holding
  <1>4. FlowStep
    BY DEF FlowStep, Running
  <1>5. ASSUME NEW o \in Orders, InStatus(o, "processing")'
        PROVE  \E k \in Handlers : Holds(k, o)'
    <2>1. CASE Claims(h) /\ rec[h].order = o
      <3>1. pc'[h] = "claimed" /\ rec'[h] = rec[h]
        BY <1>1, <2>1 DEF Claims, RowStep
      <3> QED
        BY <2>1, <3>1 DEF Holds, Holding
    <2>2. CASE Releases(h) /\ rec[h].order = o
      <3>1. ~InStatus(o, "processing")'
        BY <1>0, <2>2, RowFrame DEF Releases, InStatus, Statuses
      <3> QED
        BY <1>5, <3>1
    <2>3. CASE payments'[o] = payments[o]
      <3>1. PICK k \in Handlers : Holds(k, o)
        BY <1>5, <2>3 DEF InStatus, CalmInv, NoOrphan
      <3>2. CASE k = h
        <4>1. ~(Releases(h) /\ rec[h].order = o)
          BY <2>3, <3>1, <1>0, <1>5, RowFrame DEF Releases, InStatus, Statuses
        <4>2. Holding(h)' /\ rec'[h] = rec[h]
          BY <1>1, <3>1, <3>2, <4>1 DEF Holds
        <4> QED
          BY <3>1, <3>2, <4>2 DEF Holds
      <3> QED
        BY <1>3, <3>1, <3>2
    <2> QED
      BY <1>0, <2>1, <2>2, <2>3, HandlerSteps, RowFrame
         DEF storeVars, Claims, Releases, Records, Statuses
  <1>6. NoOrphan'
    BY <1>5 DEF NoOrphan
  <1>7. SucceededRecorded'
    <2> SUFFICES ASSUME NEW o \in Orders, InStatus(o, "succeeded")',
                        ~\E k \in Handlers : pc'[k] = "recording" /\ rec'[k].order = o
                 PROVE  \E i \in DOMAIN transactions' : transactions'[i].order = o
      BY DEF SucceededRecorded
    <2>1. CASE Records(h)
      <3> DEFINE n == Len(transactions)
      <3>1. /\ n \in Nat /\ DOMAIN transactions = 1 .. n /\ DOMAIN transactions' = 1 .. n + 1
            /\ transactions'[n + 1].order = rec[h].order
            /\ \A i \in 1 .. n : transactions'[i] = transactions[i]
        BY <1>0, <2>1 DEF Records, SaveTransaction, NewTransaction, TypeInv, TypeOK, StoreTypeOK
      <3> HIDE DEF n
      <3>2. InStatus(o, "succeeded")
        BY <2>1 DEF Records, InStatus
      <3>3. \/ \E i \in 1 .. n : transactions[i].order = o
            \/ \E k \in Handlers : pc[k] = "recording" /\ rec[k].order = o
        BY <3>1, <3>2 DEF CalmInv, SucceededRecorded
      <3>4. rec[h].order = o \/ \E i \in 1 .. n : transactions[i].order = o
        BY <1>2, <3>3
      <3> QED
        BY <3>1, <3>4
    <2>2. CASE Releases(h) /\ rec[h].order = o
      <3>1. RowStep(h, o, "processing", "succeeded") /\ pc'[h] = "recording"
        BY <1>0, <2>2, RowFrame DEF Releases, InStatus, Statuses
      <3> QED
        BY <2>2, <3>1 DEF RowStep
    <2>3. CASE payments'[o] = payments[o] /\ UNCHANGED transactions /\ pc[h] # "recording"
      BY <1>2, <2>3 DEF InStatus, CalmInv, SucceededRecorded
    <2>4. CASE Claims(h) /\ rec[h].order = o
      BY <1>0, <2>4, RowFrame DEF Claims, InStatus, Statuses
    <2>5. pc[h] = "recording" => Records(h)
      BY <1>1
    <2> QED
      BY <1>0, <2>1, <2>2, <2>3, <2>4, <2>5, HandlerSteps, RowFrame
         DEF storeVars, Claims, Releases, RowStep, Statuses
  <1> QED
    BY <1>1, <1>2, <1>6, <1>7 DEF CalmInv

LEMMA CalmStays ==
    ASSUME CalmInv, OnlyCallsFail, CalmStep
    PROVE  CalmInv'
  <1>1. IInv'
    BY FlowClaims DEF CalmInv, CalmStep, FlowStep
  <1> QED
    BY <1>1, CalmSteps, UndisturbedCalm, HandlerCalm

\* A failing request ends by putting its order back to pending.
LEMMA FailingReleases ==
    ASSUME CalmInv, OnlyCallsFail, CalmStep, NEW h \in Handlers, pc[h] = "failing",
           pc'[h] = "idle"
    PROVE  payments'[rec[h].order].status = "pending"
  <1>0. IInv /\ TypeInv
    BY DEF CalmInv, IInv
  <1>1. PICK k \in Handlers : Handler(k)
    BY CalmSteps DEF Undisturbed
  <1>2. k = h
    BY <1>0, <1>1, HandlerFrame
  <1>3. RowStep(h, rec[h].order, "processing", "pending")
    BY <1>0, <1>1, <1>2, CalmHandler DEF CalmInv
  <1> QED
    BY <1>0, <1>3, RowFrame DEF InStatus, Statuses

-----------------------------------------------------------------------------
(* The theorems. *)

LEMMA CalmHolds == ASSUME OnlyCallsFail PROVE Spec => []CalmInv
  <1>1. CalmInv /\ [Next]_vars => CalmInv'
    BY CalmStays, NextIsCalm
  <1> QED
    BY <1>1, CalmInit, PTL DEF Spec

\* However calls to the bank fail, no payment is left processing without a
\* request that will release it.
THEOREM NoPaymentOrphaned == ASSUME OnlyCallsFail PROVE Spec => []NoOrphan
  <1>1. CalmInv => NoOrphan
    BY DEF CalmInv
  <1> QED
    BY <1>1, CalmHolds, PTL

\* Nor does an order succeed without its transaction being there or on its way.
THEOREM SuccessIsRecorded == ASSUME OnlyCallsFail PROVE Spec => []SucceededRecorded
  <1>1. CalmInv => SucceededRecorded
    BY DEF CalmInv
  <1> QED
    BY <1>1, CalmHolds, PTL

\* A request whose verify failed puts its payment back to pending; when its
\* client may go away it does not (the run client_gone).
THEOREM FailedVerifyIsReleased == ASSUME OnlyCallsFail PROVE Spec => FailedVerifyReleases
  <1>1. CalmInv /\ [Next]_vars =>
          \A h \in Handlers : pc[h] = "failing" /\ pc'[h] = "idle"
            => payments'[rec[h].order].status = "pending"
    BY FailingReleases, NextIsCalm
  <1> QED
    BY <1>1, CalmHolds, PTL DEF Spec, FailedVerifyReleases

=============================================================================
