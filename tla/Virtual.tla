------------------------------ MODULE Virtual ------------------------------
(***************************************************************************)
(* virtual/virtual.go: the test gateway.  It is its own bank: it keeps the *)
(* payments whose page is open and the codes of those paid in two maps     *)
(* under one lock, forgets both after a retention window, and verifies and *)
(* refunds against them.                                                   *)
(*                                                                         *)
(* What runs under g.mu is one step.  A Request reads the time before it   *)
(* locks, and a submitted page is looked up under a read lock, released    *)
(* before complete locks again, so each takes two steps of its goroutine.  *)
(* The maps live in the process, and a restart of it empties them; what    *)
(* the merchant saw stays.                                                 *)
(***************************************************************************)
EXTENDS Naturals

CONSTANTS
    Orders,
    Tokens,     \* newRandHex(16): never issued twice
    Codes,      \* newRandHex(12): never issued twice
    Threads,    \* goroutines in Request or in the page's Handler
    None,
    Retention,  \* the retention window, in ticks
    MaxClock    \* bound: ticks of the clock

ASSUME NoneIsNoKey == None \notin Orders \cup Tokens \cup Codes
ASSUME RetentionAssumption == Retention \in Nat /\ MaxClock \in Nat

VARIABLES
    pending,    \* token -> the payment whose page is open, or None
    issued,     \* code -> the payment paid, or None
    task,       \* thread -> what it carries from its first step to its second
    clock,
    \* What the merchant saw: the order of each RequestResult, each code that was
    \* ever paid out, each VerifyResult, and how many of them were first ones.
    requested, paid, accepted, firsts

gatewayVars == <<pending, issued>>
seenVars == <<requested, paid, accepted, firsts>>
vars == <<gatewayVars, task, clock, seenVars>>

Times == 0 .. MaxClock
PendingPayment == [order : Orders, created : Times]
IssuedTx == [order : Orders, token : Tokens \cup {None}, verified : BOOLEAN,
             refunded : BOOLEAN, created : Times]
ASSUME NoneIsNoEntry == None \notin PendingPayment \cup IssuedTx

Storing == [step : {"store"}, token : Tokens, order : Orders, now : Times]
Submitting == [step : {"submit"}, token : Tokens, order : Orders]
Paid == [code : Codes, token : Tokens \cup {None}, order : Orders]
Accepted == [code : Codes, token : Tokens \cup {None}, order : Orders]

TypeOK ==
    /\ pending \in [Tokens -> PendingPayment \cup {None}]
    /\ issued \in [Codes -> IssuedTx \cup {None}]
    /\ task \in [Threads -> Storing \cup Submitting \cup {None}]
    /\ clock \in Times
    /\ requested \in [Tokens -> Orders \cup {None}]
    /\ paid \subseteq Paid
    /\ accepted \subseteq Accepted
    /\ firsts \in [Codes -> Nat]

Init ==
    /\ pending = [t \in Tokens |-> None]
    /\ issued = [c \in Codes |-> None]
    /\ task = [th \in Threads |-> None]
    /\ clock = 0
    /\ requested = [t \in Tokens |-> None]
    /\ paid = {}
    /\ accepted = {}
    /\ firsts = [c \in Codes |-> 0]

Tick ==
    /\ clock < MaxClock
    /\ clock' = clock + 1
    /\ UNCHANGED <<gatewayVars, task, seenVars>>

-----------------------------------------------------------------------------
(* Request *)

\* Older than the window at the time now.
Old(entry, now) == entry # None /\ entry.created + Retention < now

\* A bug: an entry as old as the window is dropped too.
PruneEarly(map, now) ==
    [k \in DOMAIN map |->
        IF map[k] # None /\ map[k].created + Retention <= now THEN None ELSE map[k]]

\* A bug: nothing is dropped.
PruneNothing(map, now) == map

Prune(map, now) == [k \in DOMAIN map |-> IF Old(map[k], now) THEN None ELSE map[k]]

At(th, step) == task[th] # None /\ task[th].step = step

RequestToken(th, o, t) ==
    /\ task[th] = None
    /\ requested[t] = None
    /\ \A u \in Threads : At(u, "store") => task[u].token # t
    /\ task' = [task EXCEPT ![th] = [step |-> "store", token |-> t, order |-> o, now |-> clock]]
    /\ UNCHANGED <<gatewayVars, clock, seenVars>>

\* A bug: the entry keeps when it expires instead of when it was made.
RequestStoreExpiry(th) ==
    /\ At(th, "store")
    /\ LET now == task[th].now
       IN  /\ pending' = [Prune(pending, now) EXCEPT ![task[th].token] =
                            [order |-> task[th].order, created |-> now + Retention]]
           /\ issued' = Prune(issued, now)
    /\ requested' = [requested EXCEPT ![task[th].token] = task[th].order]
    /\ task' = [task EXCEPT ![th] = None]
    /\ UNCHANGED <<clock, paid, accepted, firsts>>

\* The payment is stored and Request returns.
RequestStore(th) ==
    /\ At(th, "store")
    /\ LET now == task[th].now
       IN  /\ pending' = [Prune(pending, now) EXCEPT ![task[th].token] =
                            [order |-> task[th].order, created |-> now]]
           /\ issued' = Prune(issued, now)
    /\ requested' = [requested EXCEPT ![task[th].token] = task[th].order]
    /\ task' = [task EXCEPT ![th] = None]
    /\ UNCHANGED <<clock, paid, accepted, firsts>>

-----------------------------------------------------------------------------
(* complete, for the page and for SimulatePayment *)

\* The payment of token (None: one never requested) is over; when paid, a new
\* code is issued for it.
Finish(token, o, isPaid) ==
    /\ pending' = [t \in Tokens |-> IF t = token THEN None ELSE pending[t]]
    /\ IF isPaid
         THEN \E c \in Codes :
                /\ \A x \in paid : x.code # c
                /\ paid' = paid \cup {[code |-> c, token |-> token, order |-> o]}
                /\ issued' = [issued EXCEPT ![c] =
                        [order |-> o, token |-> token, verified |-> FALSE,
                         refunded |-> FALSE, created |-> clock]]
         ELSE UNCHANGED <<paid, issued>>
    /\ UNCHANGED <<clock, requested, accepted, firsts>>

\* A bug: whichever payment is pending is completed.
PendingAny(o) ==
    LET found == {t \in Tokens : pending[t] # None}
    IN  IF found = {} THEN {None} ELSE found

\* The tokens complete("", o) may pick: any pending one of the order, as a map
\* is ranged over in no particular order.
PendingOf(o) ==
    LET found == {t \in Tokens : pending[t] # None /\ pending[t].order = o}
    IN  IF found = {} THEN {None} ELSE found

SimulatePayment(o, succeed) ==
    /\ \E t \in PendingOf(o) : Finish(t, o, succeed)
    /\ UNCHANGED task

\* The page's Handler: a submit finds its payment pending ...
PageLookup(th, t) ==
    /\ task[th] = None
    /\ pending[t] # None
    /\ task' = [task EXCEPT ![th] = [step |-> "submit", token |-> t, order |-> pending[t].order]]
    /\ UNCHANGED <<gatewayVars, clock, seenVars>>

\* A bug, of releases before 0.11: the second of two submits is paid again.
PageSubmitBlind(th, isPaid) ==
    /\ At(th, "submit")
    /\ Finish(task[th].token, task[th].order, isPaid)
    /\ task' = [task EXCEPT ![th] = None]

\* ... and completes it, unless another submit or a prune was there first.
PageSubmit(th, isPaid) ==
    /\ At(th, "submit")
    /\ IF pending[task[th].token] # None
         THEN Finish(task[th].token, task[th].order, isPaid)
         ELSE UNCHANGED <<gatewayVars, clock, seenVars>>
    /\ task' = [task EXCEPT ![th] = None]

-----------------------------------------------------------------------------
(* Verify and Refund.  A call that is refused changes nothing. *)

\* What a merchant passes as Payment.Token: that of a Request of the order, or
\* none.
TokensOf(o) == {t \in Tokens : requested[t] = o} \cup {None}

\* A bug: the struct read from the map is changed, the map is not.
VerifyCopy(o, token, cbToken, code) ==
    /\ token \in {None, cbToken}
    /\ issued[code] # None
    /\ issued[code].order = o
    /\ firsts' = IF issued[code].verified THEN firsts
                                          ELSE [firsts EXCEPT ![code] = @ + 1]
    /\ accepted' = accepted \cup {[code |-> code, token |-> token, order |-> o]}
    /\ UNCHANGED <<gatewayVars, task, clock, requested, paid>>

\* A payment of order o with the given token is verified for a callback that
\* reports success, carries o, cbToken and code.
Verify(o, token, cbToken, code) ==
    /\ token \in {None, cbToken}
    /\ issued[code] # None
    /\ issued[code].order = o
    /\ issued' = [issued EXCEPT ![code].verified = TRUE]
    /\ firsts' = IF issued[code].verified THEN firsts
                                          ELSE [firsts EXCEPT ![code] = @ + 1]
    /\ accepted' = accepted \cup {[code |-> code, token |-> token, order |-> o]}
    /\ UNCHANGED <<pending, task, clock, requested, paid>>

\* A bug: a payment that was never verified is refunded.
RefundUnverified(o, code) ==
    /\ issued[code] # None
    /\ issued[code].order = o
    /\ issued' = [issued EXCEPT ![code].refunded = TRUE]
    /\ UNCHANGED <<pending, task, clock, seenVars>>

Refund(o, code) ==
    /\ issued[code] # None
    /\ issued[code].order = o
    /\ issued[code].verified
    /\ issued' = [issued EXCEPT ![code].refunded = TRUE]
    /\ UNCHANGED <<pending, task, clock, seenVars>>

\* The process dies and starts again, with New.
Restart ==
    /\ pending' = [t \in Tokens |-> None]
    /\ issued' = [c \in Codes |-> None]
    /\ task' = [th \in Threads |-> None]
    /\ UNCHANGED <<clock, seenVars>>

-----------------------------------------------------------------------------
Next ==
    \/ Tick \/ Restart
    \/ \E th \in Threads :
        \/ \E o \in Orders, t \in Tokens : RequestToken(th, o, t)
        \/ RequestStore(th)
        \/ \E t \in Tokens : PageLookup(th, t)
        \/ \E isPaid \in BOOLEAN : PageSubmit(th, isPaid)
    \/ \E o \in Orders, succeed \in BOOLEAN : SimulatePayment(o, succeed)
    \/ \E o \in Orders, code \in Codes :
        \/ \E token \in TokensOf(o), cbToken \in Tokens \cup {None} :
              Verify(o, token, cbToken, code)
        \/ Refund(o, code)

Spec == Init /\ [][Next]_vars

-----------------------------------------------------------------------------
(* Properties *)

\* However many submits of its page and SimulatePayments race, a requested
\* payment is paid once: one code is ever issued for its token
\* ("a double-submitted payment page is refused instead of issuing two codes").
PaidOnce ==
    \A x, y \in paid : x.token = y.token /\ x.token # None => x = y

\* The code stands for the order its payment was requested for, though the page
\* looked it up before it took the lock.
CodeFitsRequest ==
    \A x \in paid : x.token # None => requested[x.token] = x.order

\* Of all verifications of a code one is the first; every other says
\* AlreadyVerified.
FirstOnce == \A c \in Codes : firsts[c] <= 1

\* Only a code paid for an order verifies it, and only a verified one of it is
\* refunded.
AcceptedWasPaid ==
    /\ \A a \in accepted : \E x \in paid : x.code = a.code /\ x.order = a.order
    /\ \A c \in Codes : issued[c] # None /\ issued[c].refunded =>
        \E a \in accepted : a.code = c /\ a.order = issued[c].order

\* "Verify now accepts only transaction codes the gateway issued ..., for the
\* matching order and token" (CHANGELOG.md:151-153).
AcceptedFitsToken ==
    \A a \in accepted : \A x \in paid :
        x.code = a.code /\ a.token # None => x.token \in {None, a.token}

Emptied == (\A t \in Tokens : pending'[t] = None) /\ \A c \in Codes : issued'[c] = None

\* The step ends the payment of t, and no other: a submit of its page does, or a
\* SimulatePayment, which no goroutine is waiting in.
EndsPayment(t) ==
    /\ \A u \in Tokens \ {t} : pending'[u] = pending[u]
    /\ UNCHANGED task \/ \E th \in Threads :
                             At(th, "submit") /\ task[th].token = t /\ task'[th] = None

\* Nothing is forgotten before its time: unless the process ends and forgets all,
\* a payment leaves the maps when it is completed or older than the window.
ForgottenLate ==
    [][Emptied \/
       /\ \A c \in Codes : issued[c] # None /\ issued'[c] = None => Old(issued[c], clock)
       /\ \A t \in Tokens : pending[t] # None /\ pending'[t] = None =>
            Old(pending[t], clock) \/ EndsPayment(t)]_vars

\* And everything is forgotten in time: after a Request nothing older than the
\* window it saw is left ("does not grow without bound").
WindowKept ==
    [][\A th \in Threads : At(th, "store") /\ task'[th] = None =>
        /\ \A t \in Tokens : ~Old(pending'[t], task[th].now)
        /\ \A c \in Codes : ~Old(issued'[c], task[th].now)]_vars

=============================================================================
