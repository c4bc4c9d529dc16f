# A TLA+ verification of patala

patala is a Rust library that moves money over interchangeable *payment rails*
(Solana and Stellar USDC, Hyperswitch, twenty hosted-checkout processors, a
manual rail) behind one trait, `PaymentRail`: `quote`, `charge`, `verify`,
`refund`, plus `validate_destination` and `verify_webhook`. A `charge` returns a
`Receipt`; **the receipt is the entitlement only when `verify` says so**. This
directory models the parts where order, failure and concurrency decide whether
that holds, checks them with TLC on small instances and proves the most
important properties with TLAPS for every instance.

## 1. Inventory

| Part (source) | State it keeps | Operations | What is hard about it | What makes it correct |
|---|---|---|---|---|
| Failover chain (`patala-core/src/failover.rs`) | none of its own: rails, policy, opt-in flag | `plan`, `quote`, `charge`, `verify`, `refund` | policy may return any indices; a rail's error may hide a payment; two reasons for one error | never crosses the settlement class unasked; errors say what was tried; stops at the first success; receipts find their issuer |
| Rail contract, MockRail (`rail.rs`, `capabilities.rs`, `error.rs`, `mock.rs`) | none | the trait | what an implementation may answer | requests are validated before any work |
| Manual rail (`patala-fiat/src/manual.rs`) | order records in memory behind a mutex | `charge`, `mark_paid`, `mark_failed`, `verify` | retries, operators in any order, restart, a callback under the lock | only an operator's word verifies; the audit trail is stable |
| Stellar rail (`patala-stellar/src/lib.rs`, `rpc.rs`, `tx.rs`) | none locally; the account on the ledger | `charge`, `charge_split`, `verify`, `verify_split` | read-then-submit of a sequence number across awaits; lost and late answers; inclusion is not success | a receipt verifies exactly if it was paid; a payment serves one receipt; a call pays at most once |
| Recurring plans (`patala-stellar/src/recurring.rs`) | pre-signed transactions; the account | build, submit, cancel | three actors on one account; stale reads; time | in order, spaced, and cancelled for good |
| C ABI (`patala-ffi/src/lib.rs`, `abi.rs`) | handle registry, counter, a runtime mutex per handle, the caller's `*err` | `patala_new`, `patala_call`, `patala_close` | threads, close during a call, panics and poisoned locks | a handle names one rail for ever; no dead handle; errors tell about this call |
| Solana rail (`patala-solana`) | none locally | as Stellar | receipt on broadcast, blockhash expiry, commitment levels | `verify` only on a transfer at the configured commitment with this memo |
| Hosted-checkout adapters (`patala-fiat/src/<provider>`), Hyperswitch | none locally; the processor's session | create, poll, refund, webhook | status mapping, duplicated and reordered webhooks, retries with and without idempotency keys | fail closed: unknown status is not paid; amount and currency of the processor, not of the receipt |
| Currency table, HTTP helpers | none | pure functions | exponents 0, 2, 3; a processor's own scaling; rounding | conversion is exact or refused |
| Webhook seam (`patala-core/src/webhook.rs`) | none | the types of deliveries and events | authentic is not settled | money is claimed by `Settled` events only |
| Provider registry, destination verdicts | a map of rails; none | register, get, list; address checks | - | fail closed |
| Sidecar (`patala-sidecar`) | an immutable map of rails, a token | HTTP handlers | error mapping | "not settled" and "could not check" are never confused |
| UniFFI (`patala-uniffi`) | none | `new_fiat`, `new_hyperswitch`, conversions | defaults and refusals must match `from_env` and `new` | no half-configured rail |
| Python, Go, SDKs, site, docs | - | bindings and texts | - | not modelled |

How they interact: a consumer calls a rail, or a `FailoverRail` wrapping several,
directly, through the C ABI (one runtime per handle) or through the sidecar. Rails
share nothing with each other. Two charges on one Stellar account, and a recurring
plan on it, interact only through the ledger. Processor webhooks arrive
independently of polls.

The hazards this implies are listed, each at its line, under `hazards` in
`PROJECT.json`, with the properties that would catch them.

## 2. Modules

| Module | Models | Extends / composes |
|---|---|---|
| `Failover` | `FailoverRail`, with the rails as environment | |
| `FailoverProofs` | theorems about it | `Failover` |
| `ManualRail` | `ManualRail` and its operators, restart, poisoning | |
| `ManualRailProofs` | theorems about it | `ManualRail` |
| `Schedule` | abstract: a standing order of `Count` spaced instalments | |
| `Recurring` | `RecurringPlan`, the payer, the holder of the instalments, other users of the account, the ledger | refines `Schedule` |
| `RecurringProofs` | theorems about it, and the refinement | `Recurring` |
| `StellarRail` | `StellarRail`'s four operations over one account and an unreliable network | |
| `StellarRailProofs` | theorems about it | `StellarRail` |
| `FfiHandles` | the C ABI's registry, runtimes and error slots under host threads | |
| `FfiHandlesProofs` | theorems about it | `FfiHandles` |
| `SolanaRail` | `SolanaRail`'s `charge` and `verify` on a cluster with forks, expiry and other users | |
| `SolanaRailProofs` | theorems about it | `SolanaRail` |
| `FiatKit` | what all adapters share: currency conversion, validation, webhook vocabulary, HTTP exchange, signature checks, configuration | |
| `<Provider>Checkout` (21) | one adapter each: construction, `quote`, `charge`, `verify`, `refund`, `verify_webhook`; at the end of the module, its processor as the adapter sees it | `FiatKit` |
| `FiatRails` | `dyn PaymentRail`: dispatch to the adapter named | instances of the 21 |
| `FiatRailsProofs` | theorems about what each of the 21 adapters promises | `FiatRails` |
| `HostedCheckout` | a caller, one rail and its processor, with everything between them that can go wrong | `FiatRails` |
| `HostedCheckoutProofs` | theorems about it | `HostedCheckout`, `FiatRailsProofs` |
| `MC*` | instances for TLC | the module they name |

Definitions preceded by `Mutant:` are plausible errors of the definition that
follows them. They are used nowhere in the specifications; each serves to confirm
that one property notices it when it stands in for the original.

### Failover

`plan`, `quote` and `charge` are loops; each iteration is a step (`SkipUnknown`,
`FixClass`, `Admit`, `Block` for the arms of the `match`; `RailOk`, `RailRefuses`,
`RailFails`, `RailLosesAnswer` for what a rail may answer; `Exhausted` for
`terminal_error`). The struct has no interior mutability, so overlapping calls do
not affect each other and one call at a time is modelled, followed by others.
`RailLosesAnswer` is the case a test hardly reaches: the money moved, and the chain
sees `Err`. The chain cannot know, and does charge the next rail;
`FirstSuccessWins` states exactly how far that goes: every further movement of money
is paid for by a lost answer. `verify` and `refund` dispatch by `rail_id` to the
first rail of that id, and that rail may answer anything: `Ok(true)`, `Ok(false)` (a
receipt of its own that has not settled) or an error. `ReceiptsReachTheirIssuer` is
therefore about dispatch, not about the answer: the issuer is asked and no other rail.
Nothing enforces that ids differ, so it is stated for chains in which they do.

### ManualRail

One mutex makes every operation one step. Requests that are refused change nothing
and are not steps. References and currencies are opaque, with `Trim`, `Normalize`
and `Upper` as constant functions, because the code trims in `mark` and not in
`charge`, and folds case in `verify`. `Restart` empties the records and nothing else: up
to `MaxOld` receipts of an earlier run stay with their holders (`old`) and meet the
records of the new one, where they may not verify unless a receipt of this run does. The instructions text is represented by what
it tells the buyer. `quote`, `record` and `refund` (always `Unsupported`) change nothing.

### Recurring and Schedule

The three actors are interleaved: the holder of the signed instalments
(`SubmitInstalment`), the payer (`WantCancel`, `ReadSequence`, `BuildCancel`,
`SubmitCancel`, `CancelRefused`), and any other user of the account
(`OtherTransaction`). Validity on the ledger is the rule the code itself implements
in `would_be_valid`; applying a transaction (`Consume`) is external and stamps the
account's `seqTime` and `seqLedger`. The plan's amount is a constant the properties
do not tell apart, so of `validate_shape` only the count is kept. Sums with
`saturating_add` are natural-number sums: at the top of `u64` they saturate
and the transaction never becomes valid within any representable time.

`Schedule` says what a plan promises: instalments are decided in order, paid at most
once, no two closer than the floor, and may be forfeited. `ImplementsStandingOrder`
is the refinement, with instalments taken by other transactions, by failed payments
and by a cancellation as forfeits. Both `Spaced` and the refinement hold on accounts
other transactions use too, which the plan's documentation does not claim: another
transaction can only push the floor later, or take an instalment's number away.

### StellarRail

Each call awaits twice: `load_sequence`, then `submit_transaction`. What happens
between signing and the next await is one step (`LoadAndSubmit`). The network may
apply a posted transaction at any later time while it fits the account (`Apply`),
or never (`Lose`). The answer is a success (`AnswerOk`), a 2xx for an included
transaction that leaves out `successful`, which the code takes for a success
(`AnswerNoField`: `unwrap_or(true)`), or the one `Error::Rail` that stands for
everything else (`AnswerErr`: the timeout, a refusal, a broken body, `successful` false,
a foreign hash). `verify` does require `successful`, so it tells the two receipts apart.
It checks the signature against the account the receipt itself names, not against the
rail's own: the ledger therefore also holds transactions of other accounts (`Foreign`),
which may have signed anything in their own name. A transaction stands for
its hash, and a signature by `Own` exists exactly for what a call signed (SHA-256
injective, Ed25519 unforgeable). The memo is modelled as what it binds:
`memo_hash` binds reference and destination but not the amount, which the signed
transaction itself carries. A rail without a signer, another currency than USDC, or
an invalid issuer refuse before anything happens and are left to `RefuseCall`.
XDR, StrKey, `quote` and fee bids are not modelled.

### FfiHandles

The steps are what runs between two points where another thread may take over: the
counter, the registry mutex, the runtime mutex, and the rail's answer. `open` is
`OpenDraws` and `OpenInserts`, a call is `CallFinds`, then `CallPlain`,
`CallRejected` or `CallRuns` and its end. The registry mutex is held for one map
operation and every access recovers it from poisoning, so it is not a variable.
`RailOf` stands for parsing and building; a document that is not UTF-8 is refused.

### SolanaRail

`charge` awaits twice, the blockhash (`ChargeBegin`) and the broadcast, which ends in
a receipt (`ChargeSent`), in an error although the transaction is out there
(`ChargeUnanswered`), or in an error and nothing (`ChargeRefused`). The cluster lands a
transaction while its blockhash is fresh, with or without success, deepens it from
processed to confirmed to finalized, and may roll back whatever is not finalized. The
receipt names the signature the node answered with, which `charge` does not compare with
the one it made: its own transaction's, another's, or one nobody has heard of. A
transaction is identified by what it says, which is what a deterministic signature
gives. `verify` is total over receipts put together from any parts that occur
(`Presented`), not only over the ones `charge` issued. An RPC node that is unreachable
makes `verify` an error and changes nothing; the optional `confirmationStatus` of the
answer repeats what the commitment of the query already decided.

### FiatKit, the adapters, FiatRails

An adapter keeps no state, so it is a set of operators: what it sends
(`charge_request`, `refund_lookup`), and what it makes of the answer (`charge`,
`verify`, `refund`, `verify_webhook`), each returning Rust's `Result` as a record and
chained with `Then`, the `?` of the code. A call that makes two requests is two
operators, so that the composition can put other steps between them. A body is the
record of the fields the adapter reads; a signature is the secret and the bytes it was
made from; an idempotency key is the tuple of the parts it is formatted from; amounts in major units are their digits, with the trailing zeros a JSON
number loses; currencies are one representative per class (two, zero and three
decimals, and those a processor scales against ISO-4217: Stripe's ISK, which the code
converts, and HUF at PayPal, for HUF and TWD, and MGA at Stripe, which it does not), in
both cases. `Factor` is what the latter come to: a hundred. `MaxU64`
stands for the width of an amount. Configuration is a record of settings: an adapter
comes from its environment (`from_env` and `new`) or through the bindings
(`build_<provider>`, `new_hyperswitch`), and both are initial states of the composition.

What the processor shows (`Payload`, `Event`, `Headers`, `RefundAnswer`, `Worth`) is
external and read off the structs the adapter decodes and the fixtures of its tests.

### HostedCheckout

The processor keeps sessions with a phase (open, pending, approved, under- or
overpaid, paid, failed, refunded; a Xendit invoice may count as paid with part of its
amount), recognises the keys the adapter sends, and announces
every phase a session was in, as often and as late as it likes. Every exchange may lose
the request, lose the answer, end in an error status, or bring a body nobody can read.
Anybody may post a delivery that says a session was paid, signed with another secret or
none. The caller does what `patala-core` asks of it: it books an order when `verify`
says true or when a `Settled` event carries at least its amount in its currency, goes to
`verify` on an `Unconfirmed` one, completes the proofs that only a webhook can complete
(Square, Adyen), retries charges, and may fill in the amount of a receipt. PayPal's
capture and the second request of every refund are steps of their own (`CaptureCall`,
`RefundPost`). A processor's ids are its own (`IdsAssumption`): none is given twice and
no caller names an order by one; what a receipt leads to depends on that.

## 3. Runs

| Run | Instance and bounds | Shows |
|---|---|---|
| `failover` | 3 rails (final, custodial, final), every policy order of up to 3 indices, one index out of range, repetitions allowed; requests: USDC (all rails), USD (custodial only), malformed; opt-in on and off. 79,800 states | class boundary, meaning of each error, first success, dispatch, termination |
| `manual` | one order written in two ways and a blank; 2 amounts and zero; 4 spellings of currencies; 2 operators; `MaxMarks` = 3 marks; `MaxOld` = 1 receipt that outlives a restart. 338,650 states | attestation, receipts, audit |
| `manual_mark` | the same | **violation**: see findings |
| `recurring` | 3 instalments, floors of 3 seconds and 2 ledgers, `MaxNow` = 6, `MaxSeq` = 6 (two numbers beyond the plan). 977,936 states | order, spacing, cancellation, refinement |
| `stellar` | 2 overlapping calls over 9 jobs, `MaxSeq` = 2, amounts to 2, 2 operations, 4 transactions of another account. 24,065 states | receipts and proofs, of this account and in another's name, payments per call, termination |
| `ffi` | 2 threads, 2 handles, 3 documents. 21,208 states | handle identity, error slots, liveness after panics |
| `hosted` | each of the 21 adapters, in the currencies where its conversions differ; two orders at a time for Stripe, PayPal and Mercado Pago; `MaxSessions` = 2. 47,524 states | an order is booked only if paid; the payer is asked for what was requested; retries; refunds; paid orders do get booked |
| `hosted_dedup` | Mollie, two orders, a caller that deduplicates | **violation**: see findings |
| `hosted_refused` | Hyperswitch | **violation**: see findings |
| `hosted_amount` | PayPal and Stripe | **violation**: see findings |
| `solana` | two orders and three requests to refuse, five transactions of others, `MaxSends` = 2, `MaxReceipts` = 1, `MaxHeight` = 2, `Window` = 1. 127,292 states | a verified receipt is a payment; a transaction with one memo serves one receipt; what verified at finality stays verified |
| `solana_memo` | the same | **violation**: see findings |

Why the bounds are enough for the interesting cases: three candidates put a blocked
rail before, between and after two rails of the fixed class. Three marks are what
the audit rule needs (paid, failed, paid; or twice the same). Three instalments have a
first, a middle and a last one, the clock reaches two floors, and a ledger may take one second or several, so that either floor can be the one that binds. Two calls and
two sequence numbers let one number be raced for and let a late post be applied
after its caller gave up. Two threads and two handles allow an open, a close and a
call to overlap on one handle and to be mixed up between two. Two sessions are what a
retried charge, or two orders, can lead to; a refund, a capture or a webhook concerns
one. Two broadcasts put the rail's own transaction beside another one, or its own retry;
two blocks let a blockhash expire before its transaction lands. One receipt suffices
there, since `verify` is asked about every receipt that can be put together. `CHECK_DEADLOCK FALSE`
is set where a behaviour really may end: `stellar` (every call made once), `recurring`
and `solana` (all bounds reached), and `hosted` (a rail that could not be constructed).

Fairness. `Failover`: once a call began, it is polled to its end and every rail
answers (`WF(Plan \/ Attempt)`); nobody is obliged to call again. `Recurring`: a payer who wants out
keeps trying (`WF(Payer)`); the holders of instalments and other users owe nothing.
`StellarRail`: only the two HTTP timeouts are fair (`LoadFails`, `AnswerErr`; the client is
built with a 20 s timeout), neither success nor the ledger is. `FfiHandles`: a
thread inside the library runs, a rail answers or panics; for the runtime mutex only
weak fairness is assumed, since `std`'s mutex promises no order, and `NoDeadHandle`
claims no more than that somebody runs. `HostedCheckout`: the caller polls the receipts it holds and ends the calls it
began, and the processor sends an announcement until it is answered; no payer, no
retried charge and no refund is owed. `SolanaRail` states no liveness: nothing in the
code resends a transaction.

### Findings

1. `manual_mark`: `charge` keeps the reference as written, `mark` trims it. An order
   with surrounding whitespace is accepted and can never be settled.
2. `hosted_amount`: PayPal takes whole forints and Taiwan dollars, Stripe whole ariary,
   and `amount_minor` has two decimals for all three. `paypal_amount_value` and
   `stripe_amount` pass the number on, so the payer is asked for a hundred times what
   `quote` promised. (`AskedIsRequested` in run `hosted` says that the factor is a hundred
   there, and one everywhere else.)
3. `solana_memo`: `memo_matches` looks for the memo among all memos of the transaction, so
   a transfer with the memos of two orders verifies for both; a comment in `verify` says
   it is "redeemable for one (payer, reference) and nothing else". `charge` writes one.
4. `hosted_dedup`: the `event_id` of a Mollie delivery is the payment's id, so a caller
   that drops what it has seen drops the announcement that the payment was made.
5. `hosted_refused`: Hyperswitch's `verify` takes "nothing refunded" of a receipt that
   claims 0 for "all of it refunded". The payment of a charge that was pending never
   verifies with its own receipt.

Three disagreements with the documentation have no run of their own; the passing runs
reach them, and the properties there are worded around them:

6. `stellar`: a 2xx answer without `successful` counts as success (`unwrap_or(true)`),
   where the field's doc says it is always checked explicitly. `charge` then hands out a
   receipt for payments that failed; `ReceiptIsProof` says that it never verifies.
7. `failover`: a request *no* rail can handle ends in `CrossClassFailover` on a mixed
   chain, hiding its `InvalidRequest`; the comment on `terminal_error` justifies the
   preference by a rail "that could have handled this". `ErrorMeansExhausted` speaks of
   the other errors.
8. `manual`: `mark_failed` promises the rules of `mark_paid`, but a second `mark_failed`
   replaces the first marker. `AuditNamesFirstPayer` speaks of paid orders.

### What the model shows besides

Not violations of a stated promise, or not ones a run was spent on:

- Adapters that look a session up by the id in the proof (Stripe, Mollie, BTCPay and
  others) do not compare its reference with the receipt's: a receipt whose reference
  was changed still verifies. `BookedIsPaid` holds because the caller changes amounts only.
- Mollie, PayPal, Checkout.com, Square and Paystack post `receipt.amount_minor` as the
  amount to refund, which `charge` left at 0; a refund works only with a receipt the
  caller completed.
- PayPal, BTCPay, Coinbase Commerce, LNbits and OpenNode quote currencies that their
  `charge` refuses.
- Paystack's `verify` asks by reference and never reads the proof: the receipt of a
  refund verifies as the payment did (`RefundIsReal` excepts it).
- The `reference` of a Razorpay event is Razorpay's order id.
- Where a session is found only by its id, a payment made in a session whose `charge`
  answer was lost cannot be booked by polling; `PaidIsBooked` asks for a receipt.
- Only Stripe, Square and Hyperswitch make a retried charge one session.
- `new_fiat` says every processor is custodial; BTCPay and LNbits declare themselves
  non-custodial.
- A Xendit invoice that counts as paid may have been paid in part. `PAID` is read at
  `paid_amount`, but the receipt of a charge claims 0 and verifies at any amount, and a
  `SETTLED` invoice is read at its face value. `BookedIsPaid` grants this for Xendit only.
- Stellar's `verify` vouches for a payment and its reference, whoever paid: a transaction
  of another account, bound to the reference by that account, verifies as well. Only in
  the name of the rail's own account does it imply a call of this rail (`VerifiedIsPaid`).
- A Solana rail configured with `Confirmed` may see a verified receipt taken back by a fork.

## 4. Proofs

All theorems hold for every value of the constants that satisfies the `ASSUME` of
the module (checked by TLC in the runs), and rest on no other assumption. Each
component's inductive invariant is the conjunction `IInv` (`Inv` and `Trade` in
`HostedCheckoutProofs`) of its proof module; every
one was checked with TLC before it was proved.

**`FailoverProofs`** (assumption `ConstantsAssumption`: rails are indexed by
naturals, a policy returns a sequence of naturals, the two `None` values are distinct from real
ones). `TypeCorrect`, `ClassBoundary` (`SingleClass`), `CrossClassReported`
(`CrossClassReport`), `ErrorsExhaust` (`ErrorMeansExhausted`), `SuccessIsFirst`
(`FirstSuccessWins`), `ReceiptsGoHome` (`ReceiptsReachTheirIssuer`). None of these is
inductive alone: what the attempt loop may
conclude was decided in the plan loop. The inductive invariant therefore says, while
planning, what `eligible` and `blocked` are in terms of the candidates already looked
at (every one of the fixed class, or every one at all with the opt-in, is in
`eligible`; `blocked` is set exactly when one was left out), and, while trying, that
the rails asked are the prefix of `eligible` before `pos`, that none of them
succeeded, and that `last` is the error of the latest. For dispatch, the lemma
`DispatchTarget` says where a receipt goes: with distinct ids the first rail of its
`rail_id` is its issuer, and a foreign receipt finds none. Nothing is assumed of what the
issuer answers.

**`RecurringProofs`** (assumption `PlanAssumption`). `TypeCorrect`,
`InstalmentsInOrder` (`InOrder`), `InstalmentsSpaced` (`Spaced`),
`ToldPayerIsSafe` (`ToldIsSafe`), `CancelIsFinal` (`NothingAfterCancel`). `Spaced`
needs to know that the account's stamps are never older than the last applied
instalment's and that the account has passed every number in the log; `NothingAfterCancel` and
`ToldIsSafe` need that a cancellation left the account at or beyond the last
instalment's number, and that it never goes back. `PlanIsStandingOrder` is the
refinement (`ImplementsStandingOrder`), step by step: an applied instalment whose
payment succeeded is `Pay`, whose guard is `Spaced` in the next state; one that failed,
another transaction and a cancellation are `Forfeit`, or invisible once everything is
decided; a ledger close is `Pass`; the rest is invisible. The mapping names the latest
paid entry by `CHOOSE`; that there is one is carried along (`LatestExists`), because it
would otherwise need an induction over the log.

**`FfiHandlesProofs`**. `TypeCorrect`, `HandlesNameTheirRail` (`HandleNamesItsRail`),
`HandlesAreNotReused` (`ClosedStaysClosed`), `ErrReportsTheCall` (`ErrTellsThisCall`),
and `RuntimeIsExclusive` (`OneCallPerRuntime`, stated in the proof module). The
invariant says what a thread relies on between two of its steps, while others run: the
handle it drew is registered by nobody else and not closed (`InsertingOwns`), the
instance it looked up is that of the handle it asked for even if that was closed since
(`Holding`), every handle below the counter and none above was drawn (`Drawn`), and the
slot was cleared on entry (`SlotCleared`).

**`ManualRailProofs`**. `TypeCorrect`, `OnlyMarksSettle` (`VerifiedMeansAttested`),
`ReceiptsFollowTheirRecord` (`ReceiptFollowsRecord`), `AuditTrailIsFirstPayer`
(`AuditNamesFirstPayer`). A record's status is that of its latest mark
(`LatestMarkDecides`), a mark is of an order that exists and has left Pending
(`MarksSettle`), and a receipt keeps its record's terms, or less (`ReceiptsRepeatTerms`),
which needs that a retry never changes a record. For a receipt older than the last restart
there is no such record: if it verifies, an order of the same reference was charged again
and marked, and that order has a receipt of its own (`OrdersAreAcknowledged`).

**`StellarRailProofs`** (`StellarAssumption`, which also says that the calls made are
finitely many, so that they can be counted). `TypeCorrect`,
`ReceiptsAreProofs` (`ReceiptIsProof`), `OnlyPaymentsVerify` (`VerifiedIsPaid`),
`OneReceiptPerPayment` (`OnePaymentOneReceipt`), `OnePaymentPerCall`
(`PaidAtMostOncePerCall`). A call signs once and before it posts (`SignsOnce`), and a
receipt repeats a signed transaction that is in a ledger, successful or not
(`ReceiptsAreIncluded`). `OnlyPaymentsVerify` covers bindings in any account's name, and
concludes that a call signed it only for the rail's own. A payment of the account therefore belongs to a call, and `PaidAtMostOncePerCall`
is an injection from payments into calls.

**`SolanaRailProofs`** (`WindowAssumption`, `BoundsAssumption`, and `InputsAssumption`: an
amount is a natural number). `TypeCorrect`,
`OnlyPaymentsVerify` (`VerifiedIsPaid`), `OneReceiptPerPayment` (`OnePaymentOneReceipt`,
of transactions with one memo, as `charge` writes them), `VerifiedIsFinal` (the action
property `VerifiedStays`, of rails at `Finalized`) and `SettledReceiptsVerify`
(`SettledIsVerified`, stated in the proof module): on the receipts of `charge` that name
its own transaction, `verify` is exact, with one exception the proof turned up: a payer who pays himself moves nothing
and is never verified. The invariant says what `charge` signs (`CallIsPayable`) and that
a receipt repeats it, around whatever signature the node gave (`ReceiptsAreSigned`); soundness of `verify` needs neither, since it
holds for whatever is presented.

**`FiatRailsProofs`**. The adapters are operators, so these are facts about every
input and not about behaviours. `VerifyIsSound`: on each of the 21, `verify` says true
only about a session whose money the processor took (all of it, or on Xendit part of
it), whatever the receipt, the configuration and the transport. `WebhookIsSound`: `verify_webhook` calls a delivery
settled only if the session was paid, or the processor announced a payment under the
rail's own secret; on the rails whose webhooks carry no usable secret (`Unkeyed`) only
the former; the event names that session or nothing. `CaptureIsSound` is the second
request of PayPal's `verify`. Each has one lemma per adapter, about that adapter's own
status mapping and signature scheme, and a case split over the dispatcher. The further
lemmas are the rest of what a composition needs: what a charge posts
(`PostedReference`), what its receipt names (`ChargedReceipt`), that completing or
filling in a receipt does not re-point it (`ResolvedReceipt`, `NamedBy`), and that a rail
that could be constructed, through either constructor, holds the deployment's secret and
not an empty one (`BuiltRail`).

The other theorems of the module are about how much. `ChargeAsksWhatWasRequested`: what a
charge posts, in the units and with the rounding of its processor, is worth exactly
`Factor` times the request's amount in the request's currency, where `Factor` is 100 for
PayPal's HUF and Stripe's MGA and 1 for everything else, and `quote` promised the amount
itself. The
hypotheses are what the composition establishes: the amount fits a `u64`, the processor
takes the currency, and PayU's rail, which posts rupees whatever it is asked for, was
built for rupees. It rests on the round trip of `currency.rs`: quotient and remainder by
a power of ten make up the amount again (`DivMod`), an amount that was formatted reads
back as itself within its width, and a JSON number loses trailing zeros and no value
(`JsonKeeps`). `pow10` is given by cases for the exponents of the table, since the SMT
backend has no theory of exponentiation, and each adapter's instance of the helpers is
shown equal to `FiatKit`'s once (the `Kit` lemmas). `RefundIsSound`: a refund's receipt
keeps its reference and claims money only if the processor answered that it was given
back, and then exactly what the caller once asked the payer for.
`RefundReceiptIsNoPayment`: no answer makes `verify` accept such a receipt, Paystack's
excepted. Where the arms of a `CASE` overlap, TLC takes the first, as the code does; the
proofs hold whichever is taken.

**`HostedCheckoutProofs`** (`RailsAssumption`, `OrdersAssumption`: an order's reference is
its own and its amount a `u64`; `MaxSessionsAssumption`, `IdsAssumption`).
`TypeCorrect`, `OnlyPaidIsBooked` (`BookedIsPaid`), `RetriesMakeNoSecondSession`
(`OneSessionPerReference`), `PayerIsAskedForTheOrder` (`AskedIsRequested`),
`RefundsClaimOnlyWhatWasGivenBack` (`RefundIsReal`), for any choice of rails, any orders and any number of
sessions. `OnlyPaidIsBooked` leaves Xendit the underpaid invoice (`Took`), and
`PayerIsAskedForTheOrder` carries `Factor`. The adapters enter through the facts of
`FiatRailsProofs` alone.
`BookedIsPaid` is not inductive, because `verify` and `verify_webhook` only speak of the
session they were led to: the invariant says where a receipt can lead (`GoodReceipt`:
nowhere, to the sessions of its own reference, or by id to one of them; the lemma
`FoundIsOwn` draws the conclusion), that a session in a phase has been in it and was paid
before it was refunded (`GoodSession`), which makes a late or repeated announcement
harmless, that a call waiting for its second request holds such a receipt (`GoodCall`),
and that the rail's secret is the deployment's (`GoodRail`), which a stray delivery does
not have. `OneSessionPerReference` needs that every session was made under the key its
reference determines. That sessions only gain (`Grows`) is the frame of every step.

`Inv` says nothing of amounts, so the last two theorems have a second invariant on top of
it, `Trade`: every session was made by a charge of one of the caller's requests and
carries that charge's value and currency (`Sold`); a refund's receipt claims nothing, or
the amount of an order with a refunded session, and no answer makes it a payment
(`GoodRefund`). `RefundIsReal` alone is not inductive: that the amount a processor reports
back is the order's depends on what the session was once charged for, and that a refunded
session stays one is what `Follows` says of every step.

Only model-checked: the liveness properties
(`EveryCallReturns` twice, `CancelTakesHold`, `NoDeadHandle`, `PaidIsBooked`), which the
prover does not support. Every invariant and every action property that a passing run
checks is also a theorem.

## 5. Plan

1. **Abstract rail**: what any `PaymentRail` promises (a receipt verifies only if paid,
   and stays so on a final rail), with the rails shown to implement it.
2. The sidecar's error mapping and bearer gate, and the provider registry.

### Not modelled

- Destination verdicts: address parsing per network, without state or order.
- Provider registry: one map behind one lock; of it only the currency rule appears.
- Sidecar: stateless handlers over an immutable map of rails.
- MockRail's digest, path payments, Stellar account holdings and fee bids.
- Cryptography, XDR, base58 and StrKey, HTTP and JSON plumbing: injective functions or
  records in the models.
- Generated bindings, SDKs, the site, scripts and the documentation.
