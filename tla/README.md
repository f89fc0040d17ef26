# payjet in TLA+

payjet is a Go SDK for Iranian bank payment gateways. This directory specifies
the parts of it on which money depends: the payment flow it documents and
`examples/webshop` runs, the refunds its README documents, both implementations
of the stores, the six bank gateways, and the virtual test gateway. TLC checks the
modules on small instances; TLAPS proves every safety property and refinement those
runs check for every instance. Paths below are relative to `src/`.

```
tlc -workers 2 -config OneOrder.cfg MCRefunds.tla     # a run; PROJECT.json names each run's module
tlapm PaymentProofs.tla                               # proofs, of each *Proofs.tla
```

## 1. The system

| Component | State | Operations | Correct when |
| --- | --- | --- | --- |
| Payment flow (`examples/webshop/main.go`) | one checkout and any number of callback requests per order, each between two steps | checkout: save, Request, save the token, redirect; callback: load, claim, Verify, release, record | an order is fulfilled once, only for its own money; a charged customer gets the order; no order is stuck |
| Refund flow (`README.md:303-319`, `store.go`, `gateway.go`) | one refund request between two steps | GetPayment, GetTransaction, Refund, SetStatus | money goes back only for a recorded payment of that order; a row says refunded only when it did |
| Default stores (`store.go`, `db_store.go`) | `payjet_payments`, `payjet_transactions` | upsert, lookups, SetStatus, conditional TransitionStatus, append | each call takes effect at one moment, though SetStatus may be two statements; one of several claims wins |
| In-memory store (`examples/storage/main.go`) | rows by pointer under two maps, transactions per order, one mutex | the same | the same contract; what a caller looked up stays that payment |
| Bank gateways (`zarinpal`, `idpay`, `saman`, `parsian`, `mellat`, `pasargad`) | none | Request, Verify, Refund, CallbackOrderID | a success is the bank's and this payment's; a failure is classified for what it says |
| SOAP transport (`internal/soap`) | none | Post | only a complete 2xx reply that is no fault is handed on |
| Virtual gateway (`virtual/virtual.go`) | `pending` and `issued` maps under one lock | Request, page, SimulatePayment, Verify, Refund, prune | a payment is paid once; only issued codes verify; entries live exactly their window, unless the process ends |
| Interface (`gateway.go`, `errors.go`) | none | contracts, Param, ParseCallback, error classes | callers can tell a verdict from a fault; the bank's own callback is recognised |
| Money bridge, flexible JSON, wiring, demos | none | conversions, registration | not modelled, section 8 |

**Interaction.** The handlers call the stores and the gateway directly and keep
nothing themselves; all that two requests share is the database. A gateway calls
the bank over HTTP with a 30 second client timeout (`gateway.go:16-25`). The
customer pays on the bank's page and comes back through a callback, which is an
unauthenticated request: it may come any number of times, together, late, or with
parameters of several payments. A refund reads what the callback recorded and sets
the row's status beside it. The virtual gateway is its own bank, in the shop's
process: its calls cannot be lost, but a restart empties it while the rows stay.

**What is hard.** Concurrent callbacks; calls to the bank that fail here and
succeed there, or are processed after the handler has given up; the repeated
verify or refund that follows; Mellat's two calls; a statement that fails but took
effect; a client that disconnects; a crash between any two steps; parameters of one
payment in the callback of another; an unconditional SetStatus beside a
conditional one; rows shared by pointer. `PROJECT.json` lists these hazards with
their lines and the properties that watch them.

## 2. The modules

| Module | Models |
| --- | --- |
| `PaymentStore` | the default stores, one operator per operation |
| `Gateways` | each gateway's Verify and Refund, the virtual one's included, as pure operators: the checks before the call (in order), the call, what is made of the reply |
| `Webshop` | the flow: checkouts, callback handlers, bank, customer, faults; composes the two above |
| `Refunds` | the flow with refunds by several clerks, their calls to the bank and their faults; extends `Webshop` |
| `Fulfilment` | abstract: what the flow promises a shop. `Webshop!Fulfilled` and, with refunds, `Refunds!PromiseKept` are the refinements |
| `MemStore` | the in-memory store: rows at addresses that two maps and the callers point to |
| `StoreContract` | abstract: what a caller may rely on from any store, each call at one moment |
| `Stores` | both stores called by several callers; `ContractKept` is the refinement of `StoreContract` |
| `Replies` | the bank's callback read and every kind of reply to Request, Verify and Refund, with the HTTP and SOAP helpers |
| `Virtual` | the virtual gateway with its lock, its clock, its concurrent page requests and restarts |
| `MCWebshop`, `MCRefunds`, `MCStores`, `MCVirtual` | definitions for TLC's instances |
| `WebshopProofs`, `ClaimProofs` | types of `Webshop`; claims, single fulfilment, final rows, without hypotheses |
| `PaymentProofs` | money in `Webshop`: what succeeded was paid for; the flow implements `Fulfilment` |
| `CalmProofs` | what holds in `Webshop` while only calls to the bank fail |
| `RefundProofs` | all of these of `Refunds`, and that it implements `Fulfilment` |
| `RepliesProofs`, `VirtualProofs`, `StoresProofs` | the theorems about `Replies`, `Virtual` and `Stores` |

`Webshop`, how it corresponds to the code:

* `checkout[o]` is where the `checkoutHandler` of order o stands. Each statement or
  call has one action for success and one for error (`SaveOrder`,
  `SaveOrderError`, ...). The row a handler saves a second time is its own copy,
  as in the code, Status included.
* A *slot* in `Handlers` is a callback request at a time; `pc` runs
  `loaded` (row read) - `claimed` - `verifying` (call sent) - `settling` (Mellat) -
  `accepted` or `failing` - `recording` - `idle`. A slot can be used again, so the
  number of requests is unbounded; its size bounds how many run at once.
* A request that finds no payment, or whose lookup fails, changes nothing and is
  not followed.
* A failed statement may or may not have taken effect; the handler sees an error
  either way (`ClaimError`, `ReleasePendingError`, ...).
* `wire[h]` is a call on the way to the bank. It outlives its handler's patience
  (`CallError`), its client (`Disconnect`) and the process (`Crash`); the bank may
  process it then (`BankProcesses`) or it is lost.
* `Disconnect` cancels the request's context: from then on calls, statements and
  the release of that request fail, since all use `c.Request.Context()`.
* `Stray` callbacks are those besides the bank's own. They can name what exists
  and has been handed out, not an order or a token before its customer was
  redirected (`Nameable`): order IDs are random (`newOrderID`), and tokens are
  assumed not to be known earlier either.
* `buildGateway` does not offer Pasargad; the flow is run under it as well, because
  the README documents the flow for every gateway.
* Under the virtual gateway (`InProcess`) calls are neither lost, refused nor
  cancelled, a verify after the first answers that it was verified already, and
  `Crash` puts every session in `forgotten`: it can be paid, verified and refunded no
  more. Its own concurrency is `Virtual`'s subject, where the flow sees each call as
  one step.

`Refunds` adds clerks. The repository has no refund handler, only its README's
snippet, so the clerk is external and its steps are that snippet's: `BeginRefund`
(GetPayment, GetTransaction, the gateway's Refund up to its call), `RefundReply` or
`RefundError`, and `MarkRefunded`, which sets the status whatever it was and drops
the error. `refundWire` outlives its clerk as `wire` outlives its handler. `CrashAll`
ends requests and refunds alike.

`Stores` has a caller make any call at any time. All operations are one step but the
database's SetStatus, which looks for the row in a second statement when its UPDATE
affected none (`db_store.go:64-81`); `half` holds a caller between the two. `Backends`
distinguishes databases that count the rows an UPDATE finds from those that count the
rows it changes (MySQL), where that second statement also runs for a row that has the
status already. In memory a lookup returns a pointer, and `held` is one a caller keeps.
The contract differs from the words of `store.go` in one point it states: a SetStatus
during which the payment is first saved may answer ok without setting it.

`Replies` is a merchant calling one method at a time for one payment, as often as
it likes, and a bank whose answers may be lost, be cut off, or be replaced by
something undecodable or foreign (decodable, without the expected fields); Zarinpal's
response also has an envelope, which may come empty. A bank that refuses may do so with any HTTP status. Pasargad's login and Mellat's settle
are calls of their own. Before a verify the bank's callback is parsed: the parameters
of the merchant's CallbackURL and the bank's form become one map, in which a field is
found by its exact name or, failing that, in any other casing, in map order. The
payment's ID is written plainly, with leading zeros, or as no number at all: Mellat
sends a number, and Mellat and Parsian get one back.

`Virtual` makes one step of everything that runs under `g.mu`. `Request` reads the
clock before it locks (`RequestToken`, `RequestStore`), and the page is looked up
under the read lock and completed under the lock (`PageLookup`, `PageSubmit`), so
each is two steps. `Restart` empties the maps and ends what runs. `requested`, `paid`,
`accepted` and `firsts` record what callers saw.

## 3. The runs

| Run | Instance | Shows |
| --- | --- | --- |
| `one_order` | `OneOrder`, `MCRefunds` | one order, two callback requests and two refunds at a time, all seven gateways, any stray callback, every fault: the claim is exclusive, one record, failed only when nobody was charged, finished rows final; the flow with refunds implements `Fulfilment` |
| `two_orders` | `TwoOrders`, `MCRefunds` | two orders of one price, callbacks mixing all parameters, refunds, lost and late calls, under the five gateways that compare token or order: what succeeded was paid for by its own session, what is recorded names it, and no refund touches the other order |
| `two_prices` | `TwoPrices`, `MCWebshop` | two orders of different prices under all seven gateways (Saman ties a payment to its order by the amount alone), disconnects and crashes: the same, what Verify accepts belongs to its order, finished rows final, only the holder of a claim ends it |
| `retries` | `Retry`, `MCRefunds` | lost, late and refused calls, two requests and a refund at a time, stray callbacks between: no claim is orphaned, each success has its record, every failed verify releases; and, under fairness, a charged customer gets the order, no order stays processing, money given back is recorded as refunded |
| `stores` | `Stores`, `MCStores` | two callers of either store over either kind of database, statements failing before or after they took effect: both stores implement `StoreContract`; a row a caller holds stays the payment it looked up |
| `replies` | `Replies` | success and verdicts are the bank's, under every gateway for lost and undecodable replies and under Zarinpal, Parsian and Mellat for foreign ones; the bank's own callback is recognised |
| `virtual_gateway` | `Virtual`, `MCVirtual` | paid once, verified first once, refunds verified, entries kept exactly for the window, restarts apart |

Runs that exhibit a disagreement between the code and what is said of it:

| Run | Disagreement |
| --- | --- |
| `saman_token` | Saman accepts, for one order, the RefNum of another order of the same price; the token is not compared (`saman/saman.go:197`) |
| `client_gone` | a client that disconnects during the verify cancels the release too; the order stays processing (`examples/webshop/main.go:290`) |
| `virtual_token` | a code issued for one Request verifies another Request of the order (`virtual/virtual.go:150`) |
| `pasargad_foreign` | a JSON reply without ResultCode is a successful verify (`pasargad/pasargad.go:253`) |
| `idpay_foreign` | a JSON reply without status or error code is reported as the bank's rejection (`idpay/idpay.go:154`, `:197`); with `{"zarinpal"}` for `Gateways` and `Empty`, and none for `Foreign`, the same instance finds it of a Zarinpal reply whose `data` is empty (`zarinpal/zarinpal.go:206`, `:282`) |

What the positive results exclude because of these, and of what follows:

* Saman is not in `two_orders`, and disconnects are not in `retries`, whose
  properties a disconnect breaks; both are in `two_prices` and `one_order`.
* Foreign replies are excluded for IDPay, Saman and Pasargad in `replies`, and a Zarinpal
  response with an empty `data` (`Empty`).
* `TransactionBacked` leaves Pasargad out, whose result repeats the callback's
  reference. Its refund does not use that reference, and `RefundsImplementFulfilment`
  includes it; `two_orders` leaves it out because it would double the states.
* `GenuineAccepted` excepts an ID written otherwise than the number it is sent as
  (Mellat, Parsian: `mellat/mellat.go:141` sends what `:205` compares as a string), and a CallbackURL of the merchant's with a parameter of the
  field's name when the bank uses another casing: map order then decides.
* `stores` saves a payment that has a token again with another token only over a
  database (`Retoken`). The in-memory store keeps the old token's entry, leading to a row
  whose status no longer follows; the example saves each payment once.
* That a reversal asked for twice moves the money once is the bank's promise, not the
  code's: `reversed` is a set of sessions, and `PromiseKept` says which may be in it.
* `NoOrphan` and `SucceededRecorded` need statements that do not fail and no crash, as
  `main.go:260` and `main.go:297-299` say, so they are checked in `retries`.

**Deadlock** is not checked (`CHECK_DEADLOCK FALSE`): an instance has finitely many
orders, tokens or codes, and once they are all used up and finished nothing need
happen any more. In `Replies` a payment whose Request failed is over.

## 4. Bounds

* Two slots: a third concurrent request adds nothing two do not show for
  exclusion, since claims of a row are decided pairwise; `ClaimIsExclusive` is
  proved for any number. Two clerks in `one_order` for two refunds of one payment.
* One order with one session suffices for the claim; two orders with two sessions
  for parameters of one payment used for another. Stray callbacks: `Mixed` is all
  combinations, missing parameters and declines included; `MixedPaid` those that name
  an order, and declines; `CrossPaid` the successes that name an order, a token and a
  reference, each of any payment, which is what telling two payments apart turns on;
  `FewStray` a decline, a success without a reference and a forged one. `amount` in a
  stray callback is absent, the case in which IDPay and Parsian skip its comparison.
* Faults are spread: every fault with one order, lost and late calls with two orders of one
  price, disconnects and crashes with two prices, lost and refused calls for liveness.
* `Stores`: two orders, tokens and callers; two records in all (payments and
  transactions), with any number of saves of the same payment; the two statuses a claim
  is between; four addresses, so that one is free beside two rows under two maps
  and one held by a caller.
* `Virtual`: two orders, tokens, codes and threads; a window of one tick and a
  clock of two, so that entries within, at and beyond the window all occur.
* `Replies`: nothing is bounded but the one payment; a callback field has two spellings.
* Amounts are 1 and 2: only their equality is looked at.
* `Symmetry` is used in safety runs only; `SymmetryOfSlots` keeps orders of different
  prices apart.

## 5. Fairness

`HandlerFairness` and `ClerkFairness`: weak fairness of each running request and of the fate
of each call sent. The code justifies both: a handler waits for nothing but the database and
the HTTP client, whose timeout ends every call; there is no lock and no queue.

`RefundRetrySpec` adds what the code cannot give by itself:

* `BankFairness`: the bank answers again and again and not every answer is lost (strong
  fairness of `BankConfirms` and of reading a reply).
* `CallbackFairness`: the callback of a charged session is delivered again until it is served,
  and not each time while a stray one holds the claim or takes it first. Without it the
  property fails, as it should: the flow has no job of its own that re-verifies, and
  it turns away a callback that meets a claim.
* `RefundFairness`: the merchant asks again for a refund whose row is not marked.

Crashes and disconnects are excluded, since they leave orders processing (`main.go:260`
says so of a crash). Two limits are written into the properties:

* `PaidSucceeds`: Parsian and Pasargad have no code for a repeated verify. Whether a
  payment whose one confirmation was lost is ever delivered depends on the bank
  (`ReplyLost`); the safety runs allow either answer.
* `RefundRecorded`: the same for a repeated reversal of Saman, Parsian and Pasargad;
  it is stated for the gateways with such a code, and the virtual one
  (`Gateways!RepeatsRefund`).

## 6. Proofs

Every invariant, action property and refinement of a passing run is a theorem. Assumptions
are those of the modules: `None` is apart from the other values (of rows, replies, records
too), `Stray` is a set of callbacks, `Price` is a natural number per order, `Gateways`,
`Foreign` and `Faults` are subsets of the known ones, `Retention` and `MaxClock` are natural
numbers, and in `Stores` an address is free beside the orders' rows and one a caller holds
(`AddressesSuffice`: memory does not run out). Orders, sessions, slots, clerks, callers, tokens,
codes and goroutines may be any sets; nothing is assumed finite.

Some theorems have a hypothesis, and each is needed:

* (S) `SamanTellsApart`: when Saman is offered, orders have different prices. Its verify
  names no order and the code compares no token; the run `saman_token` is the counterexample.
* (C) `OnlyCallsFail`: calls to the bank may fail, statements and clients do not and the
  process lives. The run `client_gone` is the counterexample; `main.go:260` and `:297-299` say
  the same of crashes and statements.
* (F) Nothing foreign answers in place of the bank, for Pasargad (`SuccessHappened`), or for
  IDPay, Saman and Pasargad (`RefusalIsTheBanks`, which excludes Zarinpal's empty responses
  too): the runs `pasargad_foreign` and `idpay_foreign`.
* (R) `"memory" \notin Retoken`: no payment in memory gets a second token, as none in the
  repository does; see section 3.

| Module | Theorem | Statement |
| --- | --- | --- |
| `WebshopProofs` | `TypeCorrect` | `Spec => []TypeOK` |
| `ClaimProofs` | `ClaimIsExclusive` | `Spec => []ClaimExclusive` |
| | `NothingFulfilledTwice` | `Spec => []FulfilledOnce` |
| | `PaidNeverFailed` | `Spec => []FailedNeverPaid` |
| | `FinalStatusHolds` | `Spec => FinalStatus` |
| | `OnlyHolderMoves` | `Spec => OnlyHolderReleases` |
| `PaymentProofs` | `NothingGivenAway` (S) | `Spec => []SucceededIsPaid` |
| | `TransactionsBacked` (S) | `Spec => []TransactionBacked` |
| | `AcceptedBelongsToOrder` (S) | `Spec => []AcceptedBelongs` |
| | `FlowImplementsFulfilment` (S) | `Spec => Fulfilled` |
| `CalmProofs` | `NoPaymentOrphaned` (C) | `Spec => []NoOrphan` |
| | `SuccessIsRecorded` (C) | `Spec => []SucceededRecorded` |
| | `FailedVerifyIsReleased` (C) | `Spec => FailedVerifyReleases` |
| `RefundProofs` | `RefundTypesHold` | `RefundSpec => []RefundTypeOK` |
| | `RefundKeepsClaims` | `RefundSpec => []ClaimExclusive` |
| | `RefundedNotFulfilledTwice` | `RefundSpec => []FulfilledOnce` |
| | `RefundsFailNobody` | `RefundSpec => []FailedNeverPaid` |
| | `FinalRowHolds` | `RefundSpec => FinalRow` |
| | `RefundsGiveNothingAway`, `RefundsBacked` (S) | `RefundSpec => []SucceededIsPaid`, `[]TransactionBacked` |
| | `RefundsImplementFulfilment` (S) | `RefundSpec => PromiseKept` |
| | `RefundsOrphanNobody`, `RefundsFindRecords` (C) | `RefundSpec => []NoOrphan`, `[]SucceededRecorded` |
| | `RefundsLeaveReleases` (C) | `RefundSpec => FailedVerifyReleases` |
| `RepliesProofs` | `RepliesTypes` | `Spec => []TypeOK` |
| | `SuccessHappened` (F) | `Spec => []SuccessIsReal` |
| | `RefusalIsTheBanks` (F) | `Spec => []VerdictIsTheBanks` |
| | `OnlyTheVerifyDecides` | `Spec => []VerdictIsOnThePayment` |
| | `GenuineIsAccepted` | `Spec => []GenuineAccepted` |
| `StoresProofs` | `StoresTypes` (R) | `Spec => []TypeOK` |
| | `HeldStays` (R) | `Spec => []HeldPayment` |
| | `StoresKeepContract` (R) | `Spec => ContractKept` |
| `VirtualProofs` | `VirtualTypes` | `Spec => []TypeOK` |
| | `TokenPaidOnce` | `Spec => []PaidOnce` |
| | `CodeStandsForRequest` | `Spec => []CodeFitsRequest` |
| | `OneFirstVerify` | `Spec => []FirstOnce` |
| | `OnlyPaidAccepted` | `Spec => []AcceptedWasPaid` |
| | `NothingForgottenEarly` | `Spec => ForgottenLate` |
| | `WindowIsKept` | `Spec => WindowKept` |

**Claims.** `TypeOK` is strengthened to `TypeInv` (a request beyond idle has a callback and a
row, one waiting for the bank or past it passed every check, an accepted one holds the
bank's reply, and an opened session belongs to an order) and then to `IInv`. Neither exclusiveness nor single fulfilment is inductive:

* a checkout saving its row again (Status included) under a running callback
  would undo a claim. `KnownLater` says nobody pays, calls back or records before
  the customer was redirected, when the checkout is over with the row;
  `StatusPlace` says which checkout stands behind each status.
* a claim after a record would allow a second record. `OneEngaged` says that a
  request from claim to record has its order to itself and that a recorded order
  stays processing or succeeded: it never returns to pending.
* `TokensBelong` says rows and checkouts hold sessions of their own order, so
  that a payment made later cannot concern a failed order.

The step proof groups actions by effect: a checkout touches only the row of an
order nobody is concerned with yet (`CheckoutRow`); most handler, bank and customer
steps touch no row and engage nobody (`UntouchedStep`); claims, releases and
records remain, each with a lemma. The action properties follow from `IInv`.

**Money.** That a succeeded order was paid for is not inductive either: what a request
accepts depends on a reply, the reply on a call sent steps ago, the call on the row and the
callback read before that. `MoneyInv` follows that chain:

* `RowsTied`, `PagesTied`: a redirected order's row has its checkout's token, and only that
  token's page is ever paid on. So whatever names the row's token names its order.
* `CallTied`: what is on the wire is the call this request's row and callback make, and only
  Mellat has a settle there. A call that outlived its handler is on the wire of a slot that
  waits for nothing, so its answer reaches nobody.
* `ReplyTied`: a positive reply is about a session that is verified (or settled) by now and,
  where the reply names them, has the reply's reference and amount. Here the gateways differ: by
  token, by order, by reference, and Saman by amount, which is where (S) is used, in
  `VerifyAccepts`.
* `PaymentTied`, `RowsPaid`, `LedgerPaid`: so what was accepted, succeeded or recorded was paid
  for, and (but for Pasargad) the recorded reference is the session paid in.

`FlowImplementsFulfilment` maps each action to a step of the promise or a stutter: a bank's
verify to a payment made, a release to a fulfilment, which `PaymentTied` allows. Sessions only
move forward (`BankGrows`, `CustomerGrows`), so a promise once true stays true.

**Calm.** `NoOrphan` and `SucceededRecorded` are inductive with `IInv` and "no request's context
is cancelled", given (C).

**Refunds.** Both specifications share their actions, so the lemmas above are about `FlowStep`,
and `RefundProofs` adds what clerks do. `RefundClaims` (no hypothesis) adds that a clerk's order
is recorded: by `OneEngaged` no request is engaged with it but one about to record, so setting
its status unconditionally undoes no claim. `IInv` and `MoneyInv` allow for refunded rows.
`RefundInv` adds `ClerkTied` (the reversal under way names a session of a recorded order, though
the call may outlive its clerk), `ReversedRecorded` and `RefundedReturned`, from which
`PromiseKept` follows.

**Replies.** `RepliesInv` ties a call under way to how far the payment has got at the bank
(`CallTied`) and an answer to what the bank did when it gave it (`ReplyTied`). The lemmas about
`Verdict` (`DoneSays`, `RefusalSays`, `NextCalls`) say, over all gateways, which replies a method
takes for what; the theorems combine the two.

**The stores.** `StoresInv` says that the two maps agree (`MapsAgree`: what either leads to is
the row it says, and the map by token leads only to rows the map by order leads to), which (R)
makes inductive and which ensures a free address (`FreshIs`); references are sessions and rows
have the statuses in use. Each operation then is one lemma: it keeps `StoresInv` and is a step of
`StoreContract`. For the database the contract's history of an order is read off the table of
all transactions as the sequence of its n-th smallest places; `RankExists`, `NthSmallestAdd` and
`NthLargestIs` (ranks in a finite set: one for each n, unmoved by a new greatest element, counted
backwards from the other end) give that an insert appends, that `id DESC` lists it reversed, and
that the newest entry is its last.

**The virtual gateway.** None of its properties is inductive. `VInv` adds to them:

* `PendingUnpaid`: a token with an open page was requested for that order and has not been
  paid, so completing it cannot pay it twice (`PaidOnce`).
* `TasksFit`: a Request about to store has its token to itself and read a time that is
  past; a submit carries the order its token was requested for, even when the entry it
  came from is gone (`CodeFitsRequest`).
* `CodesApart`, `IssuedKnown`, `FirstsKnown`: a code is issued once, and one verified before
  says so for as long as it is remembered. That is why forgetting an entry, by a prune or
  a restart, cannot make a second first verification (`FirstOnce`).
* `AcceptedPaid`: the accepted ones, in terms of what was paid and not of the maps,
  which forget.

The two action properties split the steps by what they forget (`StoreForgets`,
`FinishForgets`, `OthersForget`): a Request forgets what is older than the window at the time it
read, which is no later than now (`OldStays`); a payment's end (`EndsPayment`) takes its own entry; a restart takes
all.

Only model-checked: liveness (`PaidSucceeds`, `ClaimReleased`, `RefundRecorded`), which is out of
the prover's reach.

## 7. Plan

Done: the inventory; the flow with its gateways and stores, the virtual gateway
inside it included; refunds; both stores and their contract; the abstract promises; replies
and callbacks; the virtual gateway by itself; and a theorem for every safety property and
refinement. Next, what the theorems do not say yet:

1. `OnlyHolderReleases` of `RefundSpec`, with the one exception a clerk's status makes; `TypeOK`
   and `HeldPayment` of `Stores` without (R), for which a stale entry of the map by token has to
   be counted among the addresses in use.
2. (S) as weak as it can be: Saman alone with one price, of which `ClaimProofs` is the part that
   stands; what remains true of money then (a session is never recorded for two orders unless
   their prices agree).
3. What the liveness properties rest on, as action properties that can be proved: no step
   disables a release whose request still runs, and a charged session's callback stays genuine.

## 8. Not modelled

* `internal/flexjson`, `module.go`, `examples/errors`, `examples/virtual`, the main of
  `examples/storage`: stateless decoding, one-time registration, straight-line demos.
* `money.go`: two conversions that are what microjet's decimal type makes of them, and that
  type is not in the repository.
* Pasargad's amount as a float64, which is exact below 2^53 Rials: amounts are only
  equal or different here.
* `Validate`, which every payment the flow makes passes, and the form `Redirect` writes.
* HTML pages, error texts, logging, SOAP envelopes, XML namespaces.
* The database's own failures beyond a statement that errs; microjet and gormx.
* Changing the gateway between a payment's Request and its callback: the code does
  not compare the row's `Gateway` with the configured one.
