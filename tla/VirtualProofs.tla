---------------------------- MODULE VirtualProofs ----------------------------
(***************************************************************************)
(* The theorems about the virtual gateway, for any orders, tokens, codes,  *)
(* goroutines, retention window and clock.                                 *)
(***************************************************************************)
EXTENDS Virtual, TLAPS

-----------------------------------------------------------------------------
(* The invariant.  None of the properties is inductive: that a payment is    *)
(* paid once rests on its token leaving pending when it is, that a code is   *)
(* verified first once on codes not being issued again after their entries   *)
(* were forgotten, and that a submit fits its request on what its goroutine  *)
(* carries over from the lookup.                                             *)

\* A page that is open was requested for its order and has not been paid.
PendingUnpaid ==
    \A t \in Tokens : pending[t] # None =>
        /\ requested[t] = pending[t].order
        /\ \A x \in paid : x.token # t

\* A Request about to return has its token to itself, and its time is past; a
\* submit carries the order of the token's Request.
TasksFit ==
    /\ \A th \in Threads : At(th, "store") =>
        requested[task[th].token] = None /\ task[th].now <= clock
    /\ \A th, u \in Threads :
        At(th, "store") /\ At(u, "store") /\ task[th].token = task[u].token => th = u
    /\ \A th \in Threads : At(th, "submit") => requested[task[th].token] = task[th].order

\* Codes are issued once.
CodesApart == \A x, y \in paid : x.code = y.code => x = y

\* An entry is of a payment that was paid; its flags say what was accepted.
IssuedKnown ==
    \A c \in Codes : issued[c] # None =>
        /\ \E x \in paid : x.code = c /\ x.order = issued[c].order
        /\ issued[c].verified => \E a \in accepted : a.code = c /\ a.order = issued[c].order
        /\ issued[c].refunded => issued[c].verified

\* A code verified before was paid, and says so while it is remembered.
FirstsKnown ==
    \A c \in Codes :
        /\ firsts[c] <= 1
        /\ firsts[c] # 0 => /\ \E x \in paid : x.code = c
                            /\ issued[c] # None => issued[c].verified

AcceptedPaid == \A a \in accepted : \E x \in paid : x.code = a.code /\ x.order = a.order

VInv ==
    /\ TypeOK
    /\ PendingUnpaid /\ TasksFit /\ CodesApart /\ IssuedKnown /\ FirstsKnown
    /\ PaidOnce /\ CodeFitsRequest /\ AcceptedPaid

LEMMA VirtualInit == Init => VInv
  BY RetentionAssumption
     DEF Init, VInv, TypeOK, Times, PendingUnpaid, TasksFit, At, CodesApart,
         IssuedKnown, FirstsKnown, PaidOnce, CodeFitsRequest, AcceptedPaid

-----------------------------------------------------------------------------
(* What may happen to each part without disturbing its conjunct. *)

\* Entries of pending go, nothing else of a token changes.
LEMMA PendingGoes ==
    ASSUME PendingUnpaid, UNCHANGED <<requested, paid>>,
           \A t \in Tokens : pending'[t] \in {pending[t], None}
    PROVE  PendingUnpaid'
  BY DEF PendingUnpaid

\* Goroutines end their second step, time passes.
LEMMA TasksEnd ==
    ASSUME TypeOK, clock' \in Times, clock <= clock', TasksFit, UNCHANGED requested,
           \A th \in Threads : task'[th] \in {task[th], None}
    PROVE  TasksFit'
  <1>1. \A th \in Threads, step \in {"store", "submit"} :
           At(th, step)' => At(th, step) /\ task'[th] = task[th]
    BY DEF At
  <1>2. \A th \in Threads : At(th, "store") => task[th].now \in Times
    BY DEF TypeOK, At, Storing, Submitting
  <1>3. \A th \in Threads : At(th, "store")' => task'[th].now <= clock'
    <2> SUFFICES ASSUME NEW th \in Threads, At(th, "store")'
                 PROVE  task'[th].now <= clock'
      OBVIOUS
    <2>1. task'[th].now = task[th].now /\ task[th].now \in Times /\ task[th].now <= clock
      BY <1>1, <1>2 DEF TasksFit
    <2> QED
      BY <2>1, RetentionAssumption DEF TypeOK, Times
  <1> QED
    BY <1>1, <1>3 DEF TasksFit

\* Entries of issued go, and nothing is paid or accepted.
LEMMA IssuedGoes ==
    ASSUME IssuedKnown, FirstsKnown, UNCHANGED <<paid, accepted, firsts>>,
           \A c \in Codes : issued'[c] \in {issued[c], None}
    PROVE  IssuedKnown' /\ FirstsKnown'
  BY DEF IssuedKnown, FirstsKnown

\* Nothing is paid or accepted.
LEMMA PaidStays ==
    ASSUME CodesApart, PaidOnce, CodeFitsRequest, AcceptedPaid,
           UNCHANGED <<paid, accepted>>,
           \A x \in paid : x.token # None => requested'[x.token] = requested[x.token]
    PROVE  CodesApart' /\ PaidOnce' /\ CodeFitsRequest' /\ AcceptedPaid'
  BY DEF CodesApart, PaidOnce, CodeFitsRequest, AcceptedPaid

LEMMA PruneGoes ==
    ASSUME NEW K, NEW map, DOMAIN map = K, NEW now
    PROVE  /\ DOMAIN Prune(map, now) = K
           /\ \A k \in K : Prune(map, now)[k] \in {map[k], None}
  BY DEF Prune

-----------------------------------------------------------------------------
(* The steps. *)

LEMMA TickStep == VInv /\ Tick => VInv'
  <1> SUFFICES ASSUME VInv, Tick
               PROVE  VInv'
    OBVIOUS
  <1> USE DEF VInv, Tick, gatewayVars, seenVars
  <1>1. clock \in Nat /\ MaxClock \in Nat /\ clock' \in Times /\ clock <= clock'
    BY RetentionAssumption DEF TypeOK, Times
  <1>2. TypeOK'
    BY <1>1 DEF TypeOK
  <1>3. TasksFit'
    BY <1>1, TasksEnd
  <1>4. IssuedKnown' /\ FirstsKnown' /\ PendingUnpaid'
    BY IssuedGoes, PendingGoes
  <1>5. CodesApart' /\ PaidOnce' /\ CodeFitsRequest' /\ AcceptedPaid'
    BY PaidStays
  <1> QED
    BY <1>2, <1>3, <1>4, <1>5

LEMMA RestartStep == VInv /\ Restart => VInv'
  <1> SUFFICES ASSUME VInv, Restart
               PROVE  VInv'
    OBVIOUS
  <1> USE DEF VInv, Restart, seenVars
  <1>1. clock \in Times /\ clock <= clock
    BY RetentionAssumption DEF TypeOK, Times
  <1>2. TypeOK'
    BY DEF TypeOK
  <1>3. TasksFit'
    BY <1>1, TasksEnd
  <1>4. IssuedKnown' /\ FirstsKnown' /\ PendingUnpaid'
    BY IssuedGoes, PendingGoes
  <1>5. CodesApart' /\ PaidOnce' /\ CodeFitsRequest' /\ AcceptedPaid'
    BY PaidStays
  <1> QED
    BY <1>2, <1>3, <1>4, <1>5

\* A Request draws a token nobody has.
LEMMA RequestTokenStep ==
    ASSUME VInv, NEW th \in Threads, NEW o \in Orders, NEW t \in Tokens, RequestToken(th, o, t)
    PROVE  VInv'
  <1> USE DEF VInv, RequestToken, gatewayVars, seenVars
  <1> DEFINE new == [step |-> "store", token |-> t, order |-> o, now |-> clock]
  <1>1. /\ new \in Storing /\ clock <= clock
        /\ new.step = "store" /\ new.token = t /\ new.now = clock
    BY RetentionAssumption DEF TypeOK, Storing, Times
  <1>2. task' = [task EXCEPT ![th] = new]
    OBVIOUS
  <1> HIDE DEF new
  <1>3. TypeOK'
    BY <1>1, <1>2 DEF TypeOK
  <1>4. \A u \in Threads \ {th}, step \in {"store", "submit"} :
            (At(u, step)' <=> At(u, step)) /\ task'[u] = task[u]
    BY <1>2 DEF At
  <1>5. /\ At(th, "store")' => task'[th].token = t /\ task'[th].now = clock
        /\ ~At(th, "submit")'
    BY <1>1, <1>2 DEF At, TypeOK
  <1>6. TasksFit'
    BY <1>1, <1>4, <1>5 DEF TasksFit
  <1>7. IssuedKnown' /\ FirstsKnown' /\ PendingUnpaid'
    BY IssuedGoes, PendingGoes
  <1>8. CodesApart' /\ PaidOnce' /\ CodeFitsRequest' /\ AcceptedPaid'
    BY PaidStays
  <1> QED
    BY <1>3, <1>6, <1>7, <1>8

\* It stores the payment and prunes both maps.
LEMMA RequestStoreStep ==
    ASSUME VInv, NEW th \in Threads, RequestStore(th)
    PROVE  VInv'
  <1> USE DEF VInv
  <1> DEFINE t == task[th].token
             o == task[th].order
             now == task[th].now
             new == [order |-> o, created |-> now]
  <1>1. t \in Tokens /\ o \in Orders /\ now \in Times /\ At(th, "store")
    BY DEF RequestStore, At, TypeOK, Storing, Submitting
  <1>2. /\ requested[t] = None
        /\ \A u \in Threads \ {th} : At(u, "store") => task[u].token # t
        /\ \A u \in Threads : At(u, "submit") => task[u].token # t
        /\ \A x \in paid : x.token # t
    <2>1. \A u \in Threads : At(u, "submit") => task[u].order \in Orders
      BY DEF At, TypeOK, Storing, Submitting
    <2>2. \A x \in paid : x.order \in Orders
      BY DEF TypeOK, Paid
    <2> QED
      BY <1>1, <2>1, <2>2, NoneIsNoKey DEF TasksFit, CodeFitsRequest
  <1>3. /\ pending' = [Prune(pending, now) EXCEPT ![t] = new]
        /\ issued' = Prune(issued, now)
        /\ requested' = [requested EXCEPT ![t] = o]
        /\ task' = [task EXCEPT ![th] = None]
        /\ UNCHANGED <<clock, paid, accepted, firsts>>
    BY DEF RequestStore
  <1>4. new \in PendingPayment /\ new.order = o
    BY <1>1 DEF PendingPayment
  <1> HIDE DEF t, o, now, new
  <1>5. /\ \A u \in Tokens \ {t} : pending'[u] \in {pending[u], None} /\ requested'[u] = requested[u]
        /\ pending'[t] = new /\ requested'[t] = o
        /\ DOMAIN pending' = Tokens
    BY <1>1, <1>3, PruneGoes DEF TypeOK
  <1>6. (\A c \in Codes : issued'[c] \in {issued[c], None}) /\ DOMAIN issued' = Codes
    BY <1>3, PruneGoes DEF TypeOK
  <1>7. TypeOK'
    <2>1. pending' \in [Tokens -> PendingPayment \cup {None}]
      BY <1>3, <1>4, <1>5 DEF TypeOK, Prune
    <2>2. issued' \in [Codes -> IssuedTx \cup {None}]
      BY <1>3, <1>6 DEF TypeOK, Prune
    <2> QED
      BY <1>1, <1>3, <2>1, <2>2 DEF TypeOK
  <1>8. PendingUnpaid'
    BY <1>2, <1>3, <1>4, <1>5 DEF PendingUnpaid
  <1>9. TasksFit'
    <2>1. \A u \in Threads, step \in {"store", "submit"} :
             At(u, step)' => u # th /\ At(u, step) /\ task'[u] = task[u]
      BY <1>3 DEF At, TypeOK
    <2>2. \A u \in Threads, step \in {"store", "submit"} : At(u, step) => task[u].token \in Tokens
      BY DEF At, TypeOK, Storing, Submitting
    <2> QED
      BY <1>2, <1>3, <1>5, <2>1, <2>2 DEF TasksFit
  <1>10. IssuedKnown' /\ FirstsKnown'
    BY <1>3, <1>6, IssuedGoes
  <1>11. CodesApart' /\ PaidOnce' /\ CodeFitsRequest' /\ AcceptedPaid'
    <2>1. \A x \in paid : x.token # None => x.token \in Tokens
      BY DEF TypeOK, Paid
    <2> QED
      BY <1>2, <1>3, <1>5, <2>1, PaidStays
  <1> QED
    BY <1>7, <1>8, <1>9, <1>10, <1>11

\* A page is looked up.
LEMMA PageLookupStep ==
    ASSUME VInv, NEW th \in Threads, NEW t \in Tokens, PageLookup(th, t)
    PROVE  VInv'
  <1> USE DEF VInv, PageLookup, gatewayVars, seenVars
  <1> DEFINE new == [step |-> "submit", token |-> t, order |-> pending[t].order]
  <1>1. pending[t] \in PendingPayment
    BY DEF TypeOK
  <1>2. /\ new \in Submitting
        /\ new.step = "submit" /\ new.token = t /\ new.order = requested[t]
        /\ task' = [task EXCEPT ![th] = new]
    BY <1>1 DEF Submitting, PendingPayment, PendingUnpaid
  <1> HIDE DEF new
  <1>3. TypeOK'
    BY <1>2 DEF TypeOK
  <1>4. \A u \in Threads \ {th}, step \in {"store", "submit"} :
            (At(u, step)' <=> At(u, step)) /\ task'[u] = task[u]
    BY <1>2 DEF At
  <1>5. /\ ~At(th, "store")'
        /\ At(th, "submit")' => requested[task'[th].token] = task'[th].order
    BY <1>2 DEF At, TypeOK
  <1>6. TasksFit'
    BY <1>4, <1>5 DEF TasksFit
  <1>7. IssuedKnown' /\ FirstsKnown' /\ PendingUnpaid'
    BY IssuedGoes, PendingGoes
  <1>8. CodesApart' /\ PaidOnce' /\ CodeFitsRequest' /\ AcceptedPaid'
    BY PaidStays
  <1> QED
    BY <1>3, <1>6, <1>7, <1>8

\* A payment is completed: its page closes, and when it is paid a new code is
\* issued for its order.
LEMMA FinishStep ==
    ASSUME VInv, NEW token \in Tokens \cup {None}, NEW o \in Orders, NEW isPaid,
           token # None => pending[token] # None /\ requested[token] = o,
           Finish(token, o, isPaid),
           task' \in [Threads -> Storing \cup Submitting \cup {None}],
           \A th \in Threads : task'[th] \in {task[th], None}
    PROVE  VInv'
  <1> USE DEF VInv
  <1>1. /\ UNCHANGED <<clock, requested, accepted, firsts>>
        /\ \A t \in Tokens : pending'[t] \in {pending[t], None}
        /\ \A t \in Tokens : pending'[t] # None => t # token
        /\ pending' \in [Tokens -> PendingPayment \cup {None}]
    BY DEF Finish, TypeOK
  <1>2. clock \in Times /\ clock <= clock
    BY RetentionAssumption DEF TypeOK, Times
  <1>3. TasksFit'
    BY <1>1, <1>2, TasksEnd
  <1>4. CASE UNCHANGED <<paid, issued>>
    <2>1. IssuedKnown' /\ FirstsKnown' /\ PendingUnpaid'
      BY <1>1, <1>4, IssuedGoes, PendingGoes
    <2>2. CodesApart' /\ PaidOnce' /\ CodeFitsRequest' /\ AcceptedPaid'
      BY <1>1, <1>4, PaidStays
    <2>3. TypeOK'
      BY <1>1, <1>4 DEF TypeOK
    <2> QED
      BY <1>3, <2>1, <2>2, <2>3
  <1>5. ASSUME NEW c \in Codes, \A x \in paid : x.code # c,
               paid' = paid \cup {[code |-> c, token |-> token, order |-> o]},
               issued' = [issued EXCEPT ![c] =
                        [order |-> o, token |-> token, verified |-> FALSE,
                         refunded |-> FALSE, created |-> clock]]
        PROVE  VInv'
    <2> DEFINE new == [code |-> c, token |-> token, order |-> o]
               entry == [order |-> o, token |-> token, verified |-> FALSE,
                         refunded |-> FALSE, created |-> clock]
    <2>1. /\ new \in Paid /\ new.code = c /\ new.token = token /\ new.order = o
          /\ entry \in IssuedTx /\ entry.order = o /\ ~entry.verified /\ ~entry.refunded
      BY <1>2 DEF Paid, IssuedTx
    <2>2. paid' = paid \cup {new} /\ issued' = [issued EXCEPT ![c] = entry]
      BY <1>5
    <2> HIDE DEF new, entry
    <2>3. TypeOK'
      BY <1>1, <2>1, <2>2 DEF TypeOK
    <2>4. \A x \in paid : x.token # None => x.token # token
      BY DEF PendingUnpaid, TypeOK, Paid
    <2>5. PendingUnpaid'
      BY <1>1, <2>1, <2>2 DEF PendingUnpaid
    <2>6. CodesApart' /\ PaidOnce'
      BY <1>5, <2>1, <2>2, <2>4 DEF CodesApart, PaidOnce
    <2>7. CodeFitsRequest' /\ AcceptedPaid'
      BY <1>1, <2>1, <2>2 DEF CodeFitsRequest, AcceptedPaid
    <2>8. issued'[c] = entry /\ \A d \in Codes \ {c} : issued'[d] = issued[d]
      BY <2>2 DEF TypeOK
    <2>9. IssuedKnown'
      BY <1>1, <2>1, <2>2, <2>8 DEF IssuedKnown
    <2>10. FirstsKnown'
      <3>1. firsts[c] = 0
        BY <1>5 DEF FirstsKnown
      <3> QED
        BY <1>1, <2>2, <2>8, <3>1 DEF FirstsKnown
    <2> QED
      BY <1>3, <2>3, <2>5, <2>6, <2>7, <2>9, <2>10
  <1> QED
    BY <1>4, <1>5 DEF Finish

LEMMA SimulateStep ==
    ASSUME VInv, NEW o \in Orders, NEW succeed, SimulatePayment(o, succeed)
    PROVE  VInv'
  <1>1. PICK t \in PendingOf(o) : Finish(t, o, succeed)
    BY DEF SimulatePayment
  <1>2. t \in Tokens \cup {None} /\ (t # None => pending[t] # None /\ requested[t] = o)
    BY DEF PendingOf, VInv, PendingUnpaid
  <1> QED
    BY <1>1, <1>2, FinishStep DEF SimulatePayment, VInv, TypeOK

LEMMA PageSubmitStep ==
    ASSUME VInv, NEW th \in Threads, NEW isPaid, PageSubmit(th, isPaid)
    PROVE  VInv'
  <1> DEFINE token == task[th].token
             o == task[th].order
  <1>1. token \in Tokens /\ o \in Orders /\ requested[token] = o
    BY DEF PageSubmit, VInv, TypeOK, TasksFit, At, Storing, Submitting
  <1>2. /\ task' \in [Threads -> Storing \cup Submitting \cup {None}]
        /\ \A u \in Threads : task'[u] \in {task[u], None}
    BY DEF PageSubmit, VInv, TypeOK
  <1>3. CASE pending[token] # None
    BY <1>1, <1>2, <1>3, FinishStep DEF PageSubmit
  <1>4. CASE pending[token] = None
    <2> USE DEF VInv
    <2>1. UNCHANGED <<pending, issued, clock, requested, paid, accepted, firsts>>
      BY <1>4 DEF PageSubmit, gatewayVars, seenVars
    <2>2. clock \in Times /\ clock <= clock
      BY RetentionAssumption DEF TypeOK, Times
    <2>3. TypeOK' /\ TasksFit'
      BY <1>2, <2>1, <2>2, TasksEnd DEF TypeOK
    <2>4. IssuedKnown' /\ FirstsKnown' /\ PendingUnpaid'
      BY <2>1, IssuedGoes, PendingGoes
    <2>5. CodesApart' /\ PaidOnce' /\ CodeFitsRequest' /\ AcceptedPaid'
      BY <2>1, PaidStays
    <2> QED
      BY <2>3, <2>4, <2>5
  <1> QED
    BY <1>3, <1>4

\* Verify and Refund set a flag of one entry and keep the rest of it.
LEMMA FlagSet ==
    ASSUME TypeOK, NEW c \in Codes, issued[c] # None,
           \/ issued' = [issued EXCEPT ![c].verified = TRUE]
           \/ issued' = [issued EXCEPT ![c].refunded = TRUE]
    PROVE  /\ issued' \in [Codes -> IssuedTx \cup {None}]
           /\ \A d \in Codes \ {c} : issued'[d] = issued[d]
           /\ issued'[c] # None /\ issued'[c].order = issued[c].order
           /\ issued'[c].created = issued[c].created
           /\ issued' = [issued EXCEPT ![c].verified = TRUE] =>
                issued'[c].verified /\ issued'[c].refunded = issued[c].refunded
           /\ issued' = [issued EXCEPT ![c].refunded = TRUE] =>
                issued'[c].verified = issued[c].verified
  <1> DEFINE ver == [issued[c] EXCEPT !.verified = TRUE]
             ref == [issued[c] EXCEPT !.refunded = TRUE]
  <1>1. issued[c] \in IssuedTx
    BY DEF TypeOK
  <1>2. /\ ver \in IssuedTx /\ ref \in IssuedTx
        /\ ver.order = issued[c].order /\ ref.order = issued[c].order
        /\ ver.created = issued[c].created /\ ref.created = issued[c].created
        /\ ver.verified /\ ver.refunded = issued[c].refunded
        /\ ref.verified = issued[c].verified
    BY <1>1 DEF IssuedTx
  <1>3. /\ [issued EXCEPT ![c].verified = TRUE] = [issued EXCEPT ![c] = ver]
        /\ [issued EXCEPT ![c].refunded = TRUE] = [issued EXCEPT ![c] = ref]
    OBVIOUS
  <1>4. /\ [issued EXCEPT ![c] = ver][c] = ver
        /\ [issued EXCEPT ![c] = ref][c] = ref
    BY DEF TypeOK
  <1>5. CASE issued' = [issued EXCEPT ![c] = ver]
    <2> HIDE DEF ver, ref
    <2>1. /\ issued'[c] = ver /\ \A d \in Codes \ {c} : issued'[d] = issued[d]
          /\ issued' \in [Codes -> IssuedTx \cup {None}]
      BY <1>2, <1>4, <1>5 DEF TypeOK
    <2>2. issued' = [issued EXCEPT ![c] = ref] => ref = ver
      BY <1>4, <2>1
    <2> QED
      BY <1>2, <1>3, <2>1, <2>2, NoneIsNoEntry
  <1>6. CASE issued' = [issued EXCEPT ![c] = ref]
    <2> HIDE DEF ver, ref
    <2>1. /\ issued'[c] = ref /\ \A d \in Codes \ {c} : issued'[d] = issued[d]
          /\ issued' \in [Codes -> IssuedTx \cup {None}]
      BY <1>2, <1>4, <1>6 DEF TypeOK
    <2>2. issued' = [issued EXCEPT ![c] = ver] => ref = ver
      BY <1>4, <2>1
    <2> QED
      BY <1>2, <1>3, <2>1, <2>2, NoneIsNoEntry
  <1> QED
    BY <1>3, <1>5, <1>6

LEMMA VerifyStep ==
    ASSUME VInv, NEW o \in Orders, NEW c \in Codes, NEW token \in TokensOf(o),
           NEW cbToken \in Tokens \cup {None}, Verify(o, token, cbToken, c)
    PROVE  VInv'
  <1> USE DEF VInv
  <1> DEFINE new == [code |-> c, token |-> token, order |-> o]
  <1>1. /\ issued[c] # None /\ issued[c].order = o
        /\ issued' = [issued EXCEPT ![c].verified = TRUE]
        /\ accepted' = accepted \cup {new}
        /\ UNCHANGED <<pending, task, clock, requested, paid>>
    BY DEF Verify
  <1>2. new \in Accepted /\ new.code = c /\ new.order = o
    BY DEF Accepted, TokensOf
  <1> HIDE DEF new
  <1>3. /\ issued' \in [Codes -> IssuedTx \cup {None}]
        /\ \A d \in Codes \ {c} : issued'[d] = issued[d]
        /\ issued'[c] # None /\ issued'[c].order = o
        /\ issued'[c].verified
    BY <1>1, FlagSet
  <1>4. /\ firsts' \in [Codes -> Nat] /\ firsts'[c] <= 1
        /\ \A d \in Codes \ {c} : firsts'[d] = firsts[d]
    <2>1. CASE issued[c].verified
      BY <2>1 DEF Verify, TypeOK, FirstsKnown
    <2>2. CASE ~issued[c].verified
      <3>1. firsts[c] = 0
        BY <1>1, <2>2 DEF FirstsKnown
      <3> QED
        BY <2>2, <3>1 DEF Verify, TypeOK
    <2> QED
      BY <2>1, <2>2
  <1>5. PICK x \in paid : x.code = c /\ x.order = o
    BY <1>1 DEF IssuedKnown
  <1>6. TypeOK'
    BY <1>1, <1>2, <1>3, <1>4 DEF TypeOK
  <1>7. PendingUnpaid' /\ CodesApart' /\ PaidOnce' /\ CodeFitsRequest'
    BY <1>1 DEF PendingUnpaid, CodesApart, PaidOnce, CodeFitsRequest
  <1>8. TasksFit'
    BY <1>1 DEF TasksFit, At
  <1>9. AcceptedPaid'
    BY <1>1, <1>2, <1>5 DEF AcceptedPaid
  <1>10. IssuedKnown'
    BY <1>1, <1>2, <1>3, <1>5 DEF IssuedKnown
  <1>11. FirstsKnown'
    BY <1>1, <1>3, <1>4, <1>5 DEF FirstsKnown
  <1> QED
    BY <1>6, <1>7, <1>8, <1>9, <1>10, <1>11

LEMMA RefundStep ==
    ASSUME VInv, NEW o \in Orders, NEW c \in Codes, Refund(o, c)
    PROVE  VInv'
  <1> USE DEF VInv, seenVars
  <1>1. /\ issued[c] # None /\ issued[c].verified
        /\ issued' = [issued EXCEPT ![c].refunded = TRUE]
        /\ UNCHANGED <<pending, task, clock, requested, paid, accepted, firsts>>
    BY DEF Refund
  <1>2. /\ issued' \in [Codes -> IssuedTx \cup {None}]
        /\ \A d \in Codes \ {c} : issued'[d] = issued[d]
        /\ issued'[c].order = issued[c].order /\ issued'[c].verified = issued[c].verified
    BY <1>1, FlagSet
  <1>3. TypeOK'
    BY <1>1, <1>2 DEF TypeOK
  <1>4. PendingUnpaid' /\ CodesApart' /\ PaidOnce' /\ CodeFitsRequest' /\ AcceptedPaid'
    BY <1>1 DEF PendingUnpaid, CodesApart, PaidOnce, CodeFitsRequest, AcceptedPaid
  <1>5. TasksFit'
    BY <1>1 DEF TasksFit, At
  <1>6. IssuedKnown' /\ FirstsKnown'
    BY <1>1, <1>2 DEF IssuedKnown, FirstsKnown
  <1> QED
    BY <1>3, <1>4, <1>5, <1>6

LEMMA VirtualStep == VInv /\ [Next]_vars => VInv'
  <1> SUFFICES ASSUME VInv, [Next]_vars
               PROVE  VInv'
    OBVIOUS
  <1>1. CASE UNCHANGED vars
    <2>1. UNCHANGED <<pending, issued, task, clock, requested, paid, accepted, firsts>>
      BY <1>1 DEF vars, gatewayVars, seenVars
    <2>2. TypeOK' /\ PendingUnpaid' /\ TasksFit' /\ CodesApart'
      BY <2>1 DEF VInv, TypeOK, PendingUnpaid, TasksFit, At, CodesApart
    <2>3. IssuedKnown' /\ FirstsKnown' /\ PaidOnce' /\ CodeFitsRequest' /\ AcceptedPaid'
      BY <2>1 DEF VInv, IssuedKnown, FirstsKnown, PaidOnce, CodeFitsRequest, AcceptedPaid
    <2> QED
      BY <2>2, <2>3 DEF VInv
  <1>2. CASE Tick
    BY <1>2, TickStep
  <1>3. CASE Restart
    BY <1>3, RestartStep
  <1>4. ASSUME NEW th \in Threads,
               \/ \E o \in Orders, t \in Tokens : RequestToken(th, o, t)
               \/ RequestStore(th)
               \/ \E t \in Tokens : PageLookup(th, t)
               \/ \E isPaid \in BOOLEAN : PageSubmit(th, isPaid)
        PROVE  VInv'
    BY <1>4, RequestTokenStep, RequestStoreStep, PageLookupStep, PageSubmitStep
  <1>5. ASSUME NEW o \in Orders, NEW succeed \in BOOLEAN, SimulatePayment(o, succeed)
        PROVE  VInv'
    BY <1>5, SimulateStep
  <1>6. ASSUME NEW o \in Orders, NEW c \in Codes,
               \/ \E token \in TokensOf(o), cbToken \in Tokens \cup {None} :
                    Verify(o, token, cbToken, c)
               \/ Refund(o, c)
        PROVE  VInv'
    BY <1>6, VerifyStep, RefundStep
  <1> QED
    BY <1>1, <1>2, <1>3, <1>4, <1>5, <1>6 DEF Next

LEMMA VirtualHolds == Spec => []VInv
  BY VirtualInit, VirtualStep, PTL DEF Spec

-----------------------------------------------------------------------------
(* The theorems. *)

\* Every state of the virtual gateway is well typed.
THEOREM VirtualTypes == Spec => []TypeOK
  <1>1. VInv => TypeOK
    BY DEF VInv
  <1> QED
    BY <1>1, VirtualHolds, PTL

\* However many submits and simulated payments race, and whatever the prunes and
\* restarts between them, a requested payment is paid with one code.
THEOREM TokenPaidOnce == Spec => []PaidOnce
  <1>1. VInv => PaidOnce
    BY DEF VInv
  <1> QED
    BY <1>1, VirtualHolds, PTL

\* A code stands for the order its payment was requested for, though complete
\* acts on an order read before it took the lock.
THEOREM CodeStandsForRequest == Spec => []CodeFitsRequest
  <1>1. VInv => CodeFitsRequest
    BY DEF VInv
  <1> QED
    BY <1>1, VirtualHolds, PTL

\* One of all verifications of a code reports that it was the first.
THEOREM OneFirstVerify == Spec => []FirstOnce
  <1>1. VInv => FirstOnce
    BY DEF VInv, FirstsKnown, FirstOnce
  <1> QED
    BY <1>1, VirtualHolds, PTL

\* What is verified was paid for its order, and what is refunded was verified.
THEOREM OnlyPaidAccepted == Spec => []AcceptedWasPaid
  <1>1. VInv => AcceptedWasPaid
    BY DEF VInv, AcceptedPaid, IssuedKnown, AcceptedWasPaid
  <1> QED
    BY <1>1, VirtualHolds, PTL

-----------------------------------------------------------------------------
(* Forgetting. *)

\* What is older than the window at an earlier time is so now.
LEMMA OldStays ==
    ASSUME NEW entry \in PendingPayment \cup IssuedTx \cup {None},
           NEW now \in Times, NEW later \in Times, now <= later, Old(entry, now)
    PROVE  Old(entry, later)
  <1>1. entry.created \in Nat /\ Retention \in Nat /\ now \in Nat /\ later \in Nat
    BY RetentionAssumption DEF Old, PendingPayment, IssuedTx, Times
  <1> QED
    BY <1>1 DEF Old

\* RequestStore drops what is too old at the time it read, and keeps the rest.
LEMMA StoreForgets ==
    ASSUME VInv, NEW th \in Threads, RequestStore(th)
    PROVE  /\ task[th].now \in Times /\ task[th].now <= clock /\ clock \in Times
           /\ \A t \in Tokens : /\ ~Old(pending'[t], task[th].now)
                                /\ pending[t] # None /\ pending'[t] = None =>
                                     Old(pending[t], task[th].now)
           /\ \A c \in Codes : /\ ~Old(issued'[c], task[th].now)
                               /\ issued[c] # None /\ issued'[c] = None =>
                                    Old(issued[c], task[th].now)
  <1> DEFINE now == task[th].now
             own == task[th].token
             new == [order |-> task[th].order, created |-> now]
  <1>1. /\ now \in Times /\ own \in Tokens /\ task[th].order \in Orders
        /\ now <= clock /\ clock \in Times
    BY DEF RequestStore, At, VInv, TypeOK, TasksFit, Storing, Submitting
  <1>2. new \in PendingPayment /\ new.created = now
    BY <1>1 DEF PendingPayment
  <1>3. new # None /\ ~Old(new, now)
    BY <1>1, <1>2, NoneIsNoEntry, RetentionAssumption DEF Old, Times
  <1>4. /\ pending' = [Prune(pending, now) EXCEPT ![own] = new]
        /\ issued' = Prune(issued, now)
    BY DEF RequestStore
  <1>5. DOMAIN pending = Tokens /\ DOMAIN issued = Codes
    BY DEF VInv, TypeOK
  <1> HIDE DEF now, own, new
  <1>6. ~Old(None, now)
    BY DEF Old
  <1>7. \A c \in Codes : /\ ~Old(issued'[c], now)
                         /\ issued[c] # None /\ issued'[c] = None => Old(issued[c], now)
    BY <1>4, <1>5, <1>6 DEF Prune
  <1>8. \A t \in Tokens : pending'[t] = IF t = own THEN new
                                        ELSE IF Old(pending[t], now) THEN None ELSE pending[t]
    BY <1>4, <1>5 DEF Prune
  <1>9. \A t \in Tokens : /\ ~Old(pending'[t], now)
                          /\ pending[t] # None /\ pending'[t] = None => Old(pending[t], now)
    BY <1>3, <1>6, <1>8
  <1> QED
    BY <1>1, <1>7, <1>9 DEF now

\* A payment's end takes its own entry of pending, and no code.
LEMMA FinishForgets ==
    ASSUME VInv, NEW token \in Tokens \cup {None}, NEW o \in Orders, NEW isPaid,
           Finish(token, o, isPaid)
    PROVE  /\ \A t \in Tokens : t # token => pending'[t] = pending[t]
           /\ \A c \in Codes : issued[c] # None => issued'[c] # None
  <1>1. \A t \in Tokens : t # token => pending'[t] = pending[t]
    BY DEF Finish
  <1>2. CASE UNCHANGED issued
    BY <1>1, <1>2
  <1>3. ASSUME NEW c \in Codes,
               issued' = [issued EXCEPT ![c] =
                        [order |-> o, token |-> token, verified |-> FALSE,
                         refunded |-> FALSE, created |-> clock]]
        PROVE  \A d \in Codes : issued[d] # None => issued'[d] # None
    <2> DEFINE entry == [order |-> o, token |-> token, verified |-> FALSE,
                         refunded |-> FALSE, created |-> clock]
    <2>1. entry \in IssuedTx
      BY DEF IssuedTx, VInv, TypeOK
    <2>2. entry # None /\ issued' = [issued EXCEPT ![c] = entry]
      BY <1>3, <2>1, NoneIsNoEntry
    <2> HIDE DEF entry
    <2> QED
      BY <2>2 DEF VInv, TypeOK
  <1> QED
    BY <1>1, <1>2, <1>3 DEF Finish

\* Every other step that forgets is a restart, or ends one payment.
LEMMA OthersForget ==
    ASSUME VInv, [Next]_vars, \A th \in Threads : ~RequestStore(th)
    PROVE  \/ Emptied
           \/ /\ UNCHANGED pending \/ \E token \in Tokens \cup {None} : EndsPayment(token)
              /\ \A c \in Codes : issued[c] # None => issued'[c] # None
              /\ \A th \in Threads : At(th, "store") => task'[th] # None
  <1> DEFINE OneEnds ==
               UNCHANGED pending \/ \E token \in Tokens \cup {None} : EndsPayment(token)
             CodesStay == \A c \in Codes : issued[c] # None => issued'[c] # None
             StoresStay == \A th \in Threads : At(th, "store") => task'[th] # None
  <1>1. UNCHANGED pending => OneEnds
    OBVIOUS
  <1>2. UNCHANGED issued => CodesStay
    OBVIOUS
  <1>3. UNCHANGED task => StoresStay
    BY DEF At
  <1>4. CASE UNCHANGED vars \/ Tick
    BY <1>1, <1>2, <1>3, <1>4 DEF vars, Tick, gatewayVars
  <1>5. CASE Restart
    BY <1>5 DEF Restart, Emptied
  <1>6. ASSUME NEW th \in Threads, NEW o \in Orders, NEW t \in Tokens, RequestToken(th, o, t)
        PROVE  OneEnds /\ CodesStay /\ StoresStay
    <2>1. StoresStay
      BY <1>6 DEF RequestToken, At, VInv, TypeOK
    <2> QED
      BY <1>1, <1>2, <1>6, <2>1 DEF RequestToken, gatewayVars
  <1>7. ASSUME NEW th \in Threads, NEW t \in Tokens, PageLookup(th, t)
        PROVE  OneEnds /\ CodesStay /\ StoresStay
    <2>1. StoresStay
      BY <1>7 DEF PageLookup, At, VInv, TypeOK
    <2> QED
      BY <1>1, <1>2, <1>7, <2>1 DEF PageLookup, gatewayVars
  <1>8. ASSUME NEW th \in Threads, NEW isPaid, PageSubmit(th, isPaid)
        PROVE  OneEnds /\ CodesStay /\ StoresStay
    <2>1. task[th].token \in Tokens /\ task[th].order \in Orders /\ task[th].step = "submit"
      BY <1>8 DEF PageSubmit, VInv, TypeOK, At, Storing, Submitting
    <2>2. StoresStay
      BY <1>8, <2>1 DEF PageSubmit, At, VInv, TypeOK
    <2>3. CASE Finish(task[th].token, task[th].order, isPaid)
      <3>1. task'[th] = None
        BY <1>8 DEF PageSubmit, VInv, TypeOK
      <3>2. /\ \A t \in Tokens : t # task[th].token => pending'[t] = pending[t]
            /\ CodesStay
        BY <2>1, <2>3, FinishForgets
      <3>3. EndsPayment(task[th].token)
        BY <1>8, <3>1, <3>2 DEF EndsPayment, PageSubmit
      <3> QED
        BY <2>1, <2>2, <3>2, <3>3
    <2> QED
      BY <1>1, <1>2, <1>8, <2>2, <2>3 DEF PageSubmit, gatewayVars
  <1>9. ASSUME NEW o \in Orders, NEW succeed, SimulatePayment(o, succeed)
        PROVE  OneEnds /\ CodesStay /\ StoresStay
    <2>1. PICK t \in Tokens \cup {None} : Finish(t, o, succeed)
      BY <1>9 DEF SimulatePayment, PendingOf
    <2>2. /\ \A u \in Tokens : u # t => pending'[u] = pending[u]
          /\ CodesStay
      BY <2>1, FinishForgets
    <2>3. EndsPayment(t)
      BY <1>9, <2>2 DEF EndsPayment, SimulatePayment
    <2> QED
      BY <1>3, <1>9, <2>2, <2>3 DEF SimulatePayment
  <1>10. ASSUME NEW o \in Orders, NEW c \in Codes,
               \/ \E token \in TokensOf(o), cbToken \in Tokens \cup {None} :
                    Verify(o, token, cbToken, c)
               \/ Refund(o, c)
        PROVE  OneEnds /\ CodesStay /\ StoresStay
    <2>1. /\ issued[c] # None
          /\ \/ issued' = [issued EXCEPT ![c].verified = TRUE]
             \/ issued' = [issued EXCEPT ![c].refunded = TRUE]
          /\ UNCHANGED <<pending, task>>
      BY <1>10 DEF Verify, Refund
    <2>2. CodesStay
      BY <2>1, FlagSet DEF VInv
    <2> QED
      BY <1>1, <1>3, <2>1, <2>2
  <1> QED
    BY <1>4, <1>5, <1>6, <1>7, <1>8, <1>9, <1>10 DEF Next

\* No payment leaves the maps before it ends or outlives the window, restarts
\* apart, although a prune may act on a time read long before.
THEOREM NothingForgottenEarly == Spec => ForgottenLate
  <1>1. VInv /\ [Next]_vars =>
          \/ Emptied
          \/ /\ \A c \in Codes : issued[c] # None /\ issued'[c] = None => Old(issued[c], clock)
             /\ \A t \in Tokens : pending[t] # None /\ pending'[t] = None =>
                  Old(pending[t], clock) \/ EndsPayment(t)
    <2> SUFFICES ASSUME VInv, [Next]_vars, ~Emptied
                 PROVE  /\ \A c \in Codes : issued[c] # None /\ issued'[c] = None
                             => Old(issued[c], clock)
                        /\ \A t \in Tokens : pending[t] # None /\ pending'[t] = None =>
                             Old(pending[t], clock) \/ EndsPayment(t)
      OBVIOUS
    <2>1. ASSUME NEW th \in Threads, RequestStore(th)
          PROVE  /\ \A c \in Codes : issued[c] # None /\ issued'[c] = None
                      => Old(issued[c], clock)
                 /\ \A t \in Tokens : pending[t] # None /\ pending'[t] = None
                      => Old(pending[t], clock)
      <3>1. /\ \A c \in Codes : issued[c] \in PendingPayment \cup IssuedTx \cup {None}
            /\ \A t \in Tokens : pending[t] \in PendingPayment \cup IssuedTx \cup {None}
        BY DEF VInv, TypeOK
      <3> QED
        BY <2>1, <3>1, StoreForgets, OldStays
    <2>2. CASE \A th \in Threads : ~RequestStore(th)
      <3>1. CASE UNCHANGED pending
        BY <2>2, <3>1, OthersForget
      <3>2. ASSUME NEW token \in Tokens \cup {None}, EndsPayment(token)
            PROVE  \A t \in Tokens : pending[t] # None /\ pending'[t] = None => EndsPayment(t)
        BY <3>2 DEF EndsPayment
      <3> QED
        BY <2>2, <3>1, <3>2, OthersForget
    <2> QED
      BY <2>1, <2>2
  <1> QED
    BY <1>1, VirtualHolds, PTL DEF Spec, ForgottenLate

\* A Request that returns leaves nothing older than the window it saw.
THEOREM WindowIsKept == Spec => WindowKept
  <1>1. VInv /\ [Next]_vars =>
          \A th \in Threads : At(th, "store") /\ task'[th] = None =>
            /\ \A t \in Tokens : ~Old(pending'[t], task[th].now)
            /\ \A c \in Codes : ~Old(issued'[c], task[th].now)
    <2> SUFFICES ASSUME VInv, [Next]_vars, NEW th \in Threads,
                        At(th, "store"), task'[th] = None
                 PROVE  /\ \A t \in Tokens : ~Old(pending'[t], task[th].now)
                        /\ \A c \in Codes : ~Old(issued'[c], task[th].now)
      OBVIOUS
    <2>1. CASE Emptied
      <3>1. ~Old(None, task[th].now)
        BY DEF Old
      <3> QED
        BY <2>1, <3>1 DEF Emptied
    <2>2. CASE \A u \in Threads : ~RequestStore(u)
      BY <2>1, <2>2, OthersForget
    <2>3. ASSUME NEW u \in Threads, RequestStore(u)
          PROVE  /\ \A t \in Tokens : ~Old(pending'[t], task[th].now)
                 /\ \A c \in Codes : ~Old(issued'[c], task[th].now)
      <3>1. u = th
        BY <2>3 DEF RequestStore, At, VInv, TypeOK
      <3> QED
        BY <2>3, <3>1, StoreForgets
    <2> QED
      BY <2>2, <2>3
  <1> QED
    BY <1>1, VirtualHolds, PTL DEF Spec, WindowKept

=============================================================================
