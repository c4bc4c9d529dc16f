--------------------------- MODULE HostedCheckout ---------------------------
(***************************************************************************)
(* A caller, one hosted-checkout rail of patala-fiat and its processor.    *)
(* The adapter (FiatRails) is stateless: what persists is the processor's  *)
(* sessions and what the caller keeps, its receipts and its own book of    *)
(* paid orders.  Between them, requests and answers get lost, processors   *)
(* answer with errors or garbage, webhooks arrive late, twice, out of      *)
(* order, or from somebody else, and a call that makes two requests is     *)
(* interleaved with all of that.                                           *)
(*                                                                         *)
(* The caller follows the contract of patala-core: it gates on verify or   *)
(* on a Settled event whose amount and currency it reconciles with its own *)
(* order (webhook.rs), retries a charge whose answer it did not get, and   *)
(* may fill in the amount of a receipt before it passes it on (Receipt's   *)
(* fields are public).                                                     *)
(***************************************************************************)
EXTENDS FiatRails, FiniteSets

CONSTANTS Rails,       \* the providers of this instance
          Orders,      \* for each provider, the sets of PayRequests a caller may come with
          MaxSessions, \* bound: sessions the processor ever creates
          Ids,         \* the ids the processor gives them, in order
          Dedup        \* whether the caller drops a delivery whose event_id it has handled

ASSUME RailsAssumption == Rails \subseteq Providers
ASSUME OrdersAssumption ==
    /\ Rails \subseteq DOMAIN Orders
    /\ \A p \in Rails : \A reqs \in Orders[p] :
          /\ \A q, r \in reqs : q.reference = r.reference => q = r
          /\ \A q \in reqs : q.amount_minor \in 0..MaxU64
ASSUME MaxSessionsAssumption == MaxSessions \in Nat \ {0}
\* A processor's ids are its own: none is given twice, and no caller names an order by one.
ASSUME IdsAssumption ==
    /\ \A i, j \in 1..MaxSessions : Ids[i] = Ids[j] => i = j
    /\ \A i \in 1..MaxSessions :
          /\ Ids[i] # Blank
          /\ \A p \in Rails : \A reqs \in Orders[p] : \A q \in reqs : q.reference # Ids[i]
ASSUME DedupAssumption == Dedup \in BOOLEAN

VARIABLES provider,  \* which rail this is
          rail,      \* the rail as constructed, or the error of constructing it
          requests,  \* the caller's orders
          sessions,  \* the processor's sessions, in the order it created them
          receipts,  \* what charge returned to the caller
          call,      \* a call waiting for its second request, or Idle
          book,      \* what the caller has each order down as: "none" or "paid"
          returned,  \* what refund returned to the caller
          handled,   \* the event ids the caller has handled (only if Dedup)
          dropped    \* a settlement the caller dropped as a duplicate and never booked

given == <<provider, rail, requests>>
vars == <<given, sessions, receipts, call, book, returned, handled, dropped>>

References == {q.reference : q \in requests}
RequestOf(ref) == CHOOSE q \in requests : q.reference = ref
Idle == [op |-> "idle"]

\* The processor finds a session by its id or, where it keeps it, the caller's reference.
Found(name) == {i \in DOMAIN sessions : name \in {sessions[i].id, sessions[i].reference}}

\* A receipt as issued, or with the amount the caller knows it asked for.
Filled(receipt) == {receipt, [receipt EXCEPT !.amount_minor = RequestOf(receipt.reference).amount_minor]}

\* The settings of a complete deployment, with and without what is optional, one that lacks
\* something required, and one with a number nobody can read.
Environments(p) == {[v \in RequiredEnv(p) \cup opt |-> "live"] : opt \in SUBSET OptionalEnv(p)} \cup
                   {[v \in RequiredEnv(p) \ {x} |-> "live"] : x \in RequiredEnv(p)} \cup
                   {Over([timeout_secs |-> Unparsable], [v \in RequiredEnv(p) |-> "live"])}

Init == /\ provider \in Rails
        /\ \E env \in Environments(provider) : rail \in {Build(provider, env), new_fiat(provider, env)}
        /\ requests \in Orders[provider]
        /\ sessions = <<>>
        /\ receipts = {}
        /\ call = Idle
        /\ book = [r \in References |-> "none"]
        /\ returned = {}
        /\ handled = {}
        /\ dropped = FALSE

Book(ref) == book' = [book EXCEPT ![ref] = "paid"]

-----------------------------------------------------------------------------
(* The processor (external) *)

\* A POST that reached it: the session already made under the same key, or a new one.
SameKey(posted) == {i \in DOMAIN sessions : posted.key # NoKey /\ sessions[i].key = posted.key}
NewSession(posted, phase) ==
    [id |-> Ids[Len(sessions) + 1], reference |-> posted.reference, value |-> posted.value,
     currency |-> posted.currency, key |-> posted.key, phase |-> phase, past |-> {"open", phase}]

\* Hyperswitch may take the money at once, and refuses a payment_id it has seen; the others
\* answer a repeated key with the session it made.
FirstPhases == IF provider = "hyperswitch" THEN {"open", "paid"} ELSE {"open"}
RefusesRepeats == provider = "hyperswitch"

\* A payer pays, approves, pays too little or too much, or gives up; a merchant refunds.
\* "short" is an invoice that Xendit counts as paid although less was paid than it asked for.
Steps == {"open"} \X {"pending", "approved", "under", "over", "paid", "failed"}
         \cup {"pending", "under"} \X {"paid", "failed"}
         \cup {"open", "pending"} \X {"short"}
         \cup {<<"paid", "refunded">>}

Enter(s, phase) == [s EXCEPT !.phase = phase, !.past = @ \cup {phase}]

Advance(i) ==
    /\ \E phase \in Phases(provider) :
          /\ <<sessions[i].phase, phase>> \in Steps
          /\ sessions' = [sessions EXCEPT ![i] = Enter(@, phase)]
    /\ UNCHANGED <<given, receipts, call, book, returned, handled, dropped>>

-----------------------------------------------------------------------------
(* The caller's calls *)

\* charge: the caller keeps the receipt if it gets one; it may call again if it does not.
ChargeCall(req, net) ==
    /\ rail.ok
    /\ Reached(net)
    /\ \E posted \in {ChargeRequest(provider, rail.val, req)} :
          /\ posted.ok
          /\ Upper(posted.val.currency) \in Accepts(provider)
          /\ \E repeats \in {SameKey(posted.val)}, phase \in FirstPhases :
             \E s \in IF repeats = {} THEN {NewSession(posted.val, phase)}
                     ELSE {sessions[i] : i \in repeats} :
               /\ \/ repeats # {} /\ ~RefusesRepeats /\ sessions' = sessions
                  \/ /\ repeats = {}
                     /\ Len(sessions) < MaxSessions
                     /\ sessions' = Append(sessions, s)
               /\ \E res \in {Charge(provider, rail.val, req, net, Payload(provider, s))} :
                     receipts' = receipts \cup (IF res.ok THEN {res.val} ELSE {})
    /\ UNCHANGED <<given, call, book, returned, handled, dropped>>

\* verify: true books the order; an approved PayPal order waits for its capture.
VerifyCall(receipt, net) ==
    /\ call = Idle
    /\ \E i \in Found(Named(provider, receipt)) :
       \E res \in {Verify(provider, rail.val, receipt, net, Payload(provider, sessions[i]))} :
          \/ /\ res = Ok(TRUE)
             /\ Book(receipt.reference)
             /\ call' = Idle
          \/ /\ res = Err("Capture")
             /\ call' = [op |-> "capture", receipt |-> receipt]
             /\ book' = book
    /\ UNCHANGED <<given, sessions, receipts, returned, handled, dropped>>

\* The capture of verify's second request; an order that is no longer approved refuses it.
CaptureCall(net) ==
    /\ call.op = "capture"
    /\ call' = Idle
    /\ \E outcome \in {"paid", "pending"}, i \in Found(Named(provider, call.receipt)) :
          LET takes == Reached(net) /\ sessions[i].phase = "approved"
              s == IF takes THEN Enter(sessions[i], outcome) ELSE sessions[i]
          IN  /\ sessions' = [sessions EXCEPT ![i] = s]
              /\ \E res \in {VerifyCaptured(provider, rail.val, call.receipt,
                                   IF Reached(net) /\ ~takes THEN "http_error" ELSE net,
                                   Payload(provider, s))} :
                    IF res = Ok(TRUE) THEN Book(call.receipt.reference) ELSE book' = book
    /\ UNCHANGED <<given, receipts, returned, handled, dropped>>

\* refund, first half: the caller only asks for the money of an order it booked.
RefundBegin(receipt, net) ==
    /\ call = Idle
    /\ book[receipt.reference] = "paid"
    /\ \E i \in Found(Named(provider, receipt)) :
       \E ask \in {RefundLookup(provider, rail.val, receipt, net, Payload(provider, sessions[i]))} :
          /\ ask.ok
          /\ call' = [op |-> "refund", receipt |-> receipt, ask |-> ask.val]
    /\ UNCHANGED <<given, sessions, receipts, book, returned, handled, dropped>>

\* refund, second half: the processor gives back a paid session's money once, all of it; a
\* request under the key of a refund it made is answered with that refund.
RefundPost(net, done) ==
    /\ call.op = "refund"
    /\ call' = Idle
    /\ \E i \in Found(Named(provider, call.receipt)) :
          LET takes == /\ Reached(net)
                       /\ sessions[i].phase = "paid"
                       /\ call.ask.full \/ call.ask.value = sessions[i].value
              repeats == Reached(net) /\ sessions[i].phase = "refunded" /\ call.ask.key # NoKey
          IN  /\ sessions' = [sessions EXCEPT ![i] = IF takes /\ done THEN Enter(@, "refunded") ELSE @]
              /\ \E res \in {Refund(provider, rail.val, call.receipt,
                                   IF Reached(net) /\ ~takes /\ ~repeats THEN "http_error" ELSE net,
                                   RefundAnswer(provider, sessions[i], done \/ repeats))} :
                    returned' = returned \cup (IF res.ok THEN {res.val} ELSE {})
    /\ UNCHANGED <<given, receipts, book, handled, dropped>>

-----------------------------------------------------------------------------
(* Webhooks *)

\* The orders an event can be about: the reference it names, or that of the receipt whose
\* object it names (Razorpay's reference is its own order id, Yoco and Iyzico give none).
AboutOrders(event) ==
    (({event.reference} \ {Blank}) \cap References) \cup
    {r.reference : r \in {x \in receipts : Named(provider, x) \in
                                           {event.reference, event.object_id} \ {Blank}}}

\* A Settled event the caller can reconcile with an order of its own.
Reconciles(event, ref) ==
    /\ event.status = "Settled"
    /\ ref \in AboutOrders(event)
    /\ event.amount_minor >= RequestOf(ref).amount_minor
    /\ SameCode(event.currency, RequestOf(ref).currency)

\* An Unconfirmed event sends the caller to the receipts it holds for that object, or, if the
\* event names none, to all of them.
Confirms(event, r) ==
    /\ event.status = "Unconfirmed"
    /\ event.object_id \in {Blank, Named(provider, r)}
    /\ \E i \in Found(Named(provider, r)) :
          Verify(provider, rail.val, r, "ok", Payload(provider, sessions[i])) = Ok(TRUE)

Settles(event) == {ref \in References :
                     \/ Reconciles(event, ref)
                     \/ \E r \in receipts : Confirms(event, r) /\ r.reference = ref}

\* A settlement that names the payment completes the proof of that order's receipts.
Completed(event) ==
    {IF event.status = "Settled" /\ r.reference = event.reference
     THEN Resolved(provider, r, event.object_id) ELSE r : r \in receipts}

\* One delivery reaches the caller's route, `age` after it was signed under `secret`; the
\* adapter may fetch the session it is about.
Deliver(s, phase, secret, age, net) ==
    \E body \in {Event(provider, [s EXCEPT !.phase = phase], secret)} :
    \E res \in {VerifyWebhook(provider, rail.val,
                     [raw_body |-> body, headers |-> Headers(provider, secret, body, 0), now_unix |-> age],
                     net, Payload(provider, s))} :
        /\ res.ok
        /\ \E settles \in {Settles(res.val)}, again \in {Dedup /\ res.val.event_id \in handled} :
              /\ book' = [ref \in References |->
                            IF ~again /\ ref \in settles THEN "paid" ELSE book[ref]]
              /\ dropped' = (dropped \/ (again /\ \E ref \in settles : book[ref] = "none"))
              /\ handled' = IF Dedup THEN handled \cup {res.val.event_id} ELSE handled
              /\ receipts' = IF again THEN receipts ELSE Completed(res.val)
        /\ UNCHANGED <<given, sessions, call, returned>>

\* The processor announces each phase a session moved to, and may do so again at any time.
Announce(i, age, net) ==
    /\ rail.ok
    /\ \E phase \in sessions[i].past \ {"open"} :
          Deliver(sessions[i], phase, SecretOf(provider, rail.val), age, net)

\* Anybody can tell the route that a session was paid, but not under the rail's secret.
Stray(i) ==
    /\ rail.ok
    /\ \E secret \in {"guess", Blank} : Deliver(sessions[i], "paid", secret, 0, "ok")

-----------------------------------------------------------------------------
\* For a call that only reads, a lost request and a lost answer are the same.
Reads == Nets \ {"lost_request"}

\* A delivery in order, too old, and one whose session cannot be fetched.
Faults == {<<0, "ok">>, <<2, "ok">>, <<0, "lost_answer">>, <<0, "malformed">>}

Next == \/ \E i \in DOMAIN sessions : Advance(i)
        \/ \E req \in requests, net \in Nets : ChargeCall(req, net)
        \/ \E r \in receipts, net \in Reads : \E v \in Filled(r) : VerifyCall(v, net)
        \/ \E net \in Nets : CaptureCall(net)
        \/ \E r \in receipts, net \in Reads : \E v \in Filled(r) : RefundBegin(v, net)
        \/ \E net \in Nets, done \in BOOLEAN : RefundPost(net, done)
        \/ \E i \in DOMAIN sessions, f \in Faults : Announce(i, f[1], f[2])
        \/ \E i \in DOMAIN sessions : Stray(i)

\* The caller keeps polling what it holds a receipt for and finishes the calls it began, and
\* the processor keeps sending an announcement until it is handled.
Fairness == /\ WF_vars(\E r \in receipts : VerifyCall(r, "ok"))
            /\ WF_vars(CaptureCall("ok"))
            /\ WF_vars(\E done \in BOOLEAN : RefundPost("ok", done))
            /\ WF_vars(\E i \in DOMAIN sessions : Announce(i, 0, "ok"))

Spec == Init /\ [][Next]_vars /\ Fairness

-----------------------------------------------------------------------------
TypeOK ==
    /\ provider \in Rails
    /\ \A i \in DOMAIN sessions : /\ sessions[i].phase \in Phases(provider)
                                  /\ sessions[i].past \subseteq Phases(provider)
                                  /\ sessions[i].reference \in References
    /\ Len(sessions) <= MaxSessions
    /\ \A r \in receipts : r.rail_id = provider /\ r.reference \in References
    /\ call.op \in {"idle", "capture", "refund"}
    /\ book \in [References -> {"none", "paid"}]
    /\ dropped \in BOOLEAN

\* Whatever was lost, repeated, late or sent by somebody else: an order the caller booked
\* was paid to the processor, in a session of its own reference, and in full - except on
\* Xendit, where an invoice that counts as paid may have been paid in part: verify of a receipt
\* that claims 0 takes any amount, and a SETTLED invoice is read at its face value.
BookedIsPaid ==
    \A ref \in References : book[ref] = "paid" =>
        \E i \in DOMAIN sessions :
            /\ sessions[i].reference = ref
            /\ "paid" \in sessions[i].past \/ (provider = "xendit" /\ "short" \in sessions[i].past)

\* The payer is asked for exactly what the caller asked for and quote promised, in the
\* processor's own units, zero- and three-decimal currencies and Stripe's ISK included - except
\* where the processor takes whole units of a currency ISO-4217 gives two decimals (PayPal's
\* HUF and TWD, Stripe's MGA): there the payer is asked for exactly a hundred times as much.
AskedIsRequested ==
    \A i \in DOMAIN sessions :
        LET s == sessions[i]
        IN  /\ SameCode(s.currency, RequestOf(s.reference).currency)
            /\ Worth(provider, s.value, s.currency) =
                  RequestOf(s.reference).amount_minor * Factor(provider, s.currency)
            /\ \E q \in {Quote(provider, rail.val, RequestOf(s.reference))} :
                  q.ok /\ q.val.total_minor = RequestOf(s.reference).amount_minor

\* What the docs of paypal_amount_value and stripe_amount say of every currency: amount_minor is
\* turned into what the processor's amount field expects, so the payer is asked for what quote
\* promised, without exception.
AskedIsQuoted ==
    \A i \in DOMAIN sessions :
        LET s == sessions[i]
            q == Quote(provider, rail.val, RequestOf(s.reference))
        IN  q.ok /\ Worth(provider, s.value, s.currency) = q.val.total_minor

\* Where the adapter sends an idempotency key, a charge retried after a lost answer leaves
\* one session the payer can pay, not two.
Keyed == {"stripe", "square", "hyperswitch"}
OneSessionPerReference ==
    provider \in Keyed =>
        \A i, j \in DOMAIN sessions : sessions[i].reference = sessions[j].reference => i = j

\* A refund's receipt claims money only if the processor gave that money back, and it never
\* verifies as a payment - except where verify asks by the reference and never reads the
\* proof (Paystack).
RefundIsReal ==
    \A r \in returned :
        /\ r.amount_minor > 0 =>
              /\ \E i \in DOMAIN sessions : /\ sessions[i].reference = r.reference
                                            /\ sessions[i].phase = "refunded"
              /\ r.amount_minor = RequestOf(r.reference).amount_minor
        /\ provider # "paystack" =>
              \A i \in DOMAIN sessions :
                 Verify(provider, rail.val, r, "ok", Payload(provider, sessions[i])) # Ok(TRUE)

\* A settlement the caller drops as a repeated delivery is one it has already booked: the
\* event id names the delivery, not the object it is about.
DropsOnlyRepeats == ~dropped

\* verify refuses the receipt of a payment that went through only if it was refunded since.
RefusedOnlyIfRefunded ==
    \A r \in receipts : \A i \in Found(Named(provider, r)) :
        sessions[i].phase = "paid" =>
            Verify(provider, rail.val, r, "ok", Payload(provider, sessions[i])) = Ok(TRUE)

\* A paid session the caller holds the receipt of gets booked, unless it is refunded first.
\* (Hyperswitch is left out: RefusedOnlyIfRefunded fails for it.)
PaidIsBooked ==
    \A ref \in {q.reference : q \in UNION UNION {Orders[p] : p \in Rails}} :
        (/\ provider # "hyperswitch"
         /\ \E r \in receipts, i \in DOMAIN sessions :
               /\ r.reference = ref
               /\ sessions[i].reference = ref /\ sessions[i].phase = "paid"
               /\ Named(provider, r) = Blank \/ i \in Found(Named(provider, r)))
        ~> \/ ref \in References /\ book[ref] = "paid"
           \/ \E i \in DOMAIN sessions : "refunded" \in sessions[i].past
=============================================================================
