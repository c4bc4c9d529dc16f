--------------------------- MODULE StripeCheckout ---------------------------
(***************************************************************************)
(* patala-fiat/src/stripe: Checkout Sessions.  A charge creates a session  *)
(* under an Idempotency-Key derived from the reference; verify and refund  *)
(* fetch the session again; a webhook is HMAC-signed with its timestamp.   *)
(***************************************************************************)
EXTENDS FiatKit

Required == {"secret_key", "webhook_secret"}

Defaults == [requires_kyc |-> TRUE, currencies |-> {}, settlement_days |-> 2,
             timeout_secs |-> 15]

from_env(env) == FromEnv(env, Required, Defaults)

\* StripeRail::new refuses a half-configured adapter.
new(config) ==
    IF config.secret_key = Blank \/ config.webhook_secret = Blank
    THEN Err("InvalidRequest")
    ELSE Rail("stripe", config, "CustodialReversible", TRUE, TRUE, config.currencies)

build_stripe(config) == Then(FromMap(config, Required, Defaults), LAMBDA c : new(c))

check_currency(rail, code) == Supports(rail.capabilities.currencies, code)

\* do_form: no answer, or one over the size bound, is Error::Rail; else the status and the body.
do_form(net, body) == Exchange(net, body)

classify_error == Err("Rail")

\* The codes whose amounts Stripe takes in whole units; the conversions never ask.
STRIPE_ZERO_DECIMAL == {"BIF", "CLP", "DJF", "GNF", "JPY", "KMF", "KRW", "MGA", "PYG", "RWF",
                        "VND", "VUV", "XAF", "XOF", "XPF"}
STRIPE_FORCED_TWO_DECIMAL == {"ISK", "UGX"}
STRIPE_THREE_DECIMAL == {"KWD", "BHD", "JOD", "OMR", "TND"}

\* Mutant: the ISO exponent is taken for Stripe's.
stripe_amount_iso(amount_minor, code) ==
    IF Upper(code) \in STRIPE_THREE_DECIMAL THEN Err("InvalidRequest") ELSE Ok(amount_minor)

stripe_amount(amount_minor, code) ==
    CASE Upper(code) \in STRIPE_THREE_DECIMAL -> Err("InvalidRequest")
      [] Upper(code) \in STRIPE_FORCED_TWO_DECIMAL ->
            IF amount_minor * 100 > MaxU64 THEN Err("InvalidRequest") ELSE Ok(amount_minor * 100)
      [] OTHER -> Ok(amount_minor)

stripe_amount_to_minor(stripe_amt, code) ==
    CASE Upper(code) \in STRIPE_THREE_DECIMAL -> Err("InvalidRequest")
      [] Upper(code) \in STRIPE_FORCED_TWO_DECIMAL ->
            IF stripe_amt % 100 # 0 THEN Err("Rail") ELSE Ok(stripe_amt \div 100)
      [] OTHER -> Ok(stripe_amt)

quote(rail, req) ==
    IF ~validate(req) \/ ~check_currency(rail, req.currency)
    THEN Err("InvalidRequest")
    ELSE Then(stripe_amount(req.amount_minor, req.currency),
              LAMBDA v : Quoted(rail, req))

ChargeProof(session_id) == [session_id |-> session_id, status_at_charge |-> "open"]
RefundProof(id, status) == [refund_id |-> id, status_at_refund |-> status]

\* Mutant: no Idempotency-Key.
charge_request_unkeyed(rail, req) ==
    IF ~validate(req) \/ ~check_currency(rail, req.currency)
    THEN Err("InvalidRequest")
    ELSE Then(stripe_amount(req.amount_minor, req.currency),
              LAMBDA v : Ok([reference |-> req.reference, value |-> v,
                             currency |-> Lowered(Upper(req.currency)), key |-> NoKey]))

\* charge, up to the POST: the order of the checks and what is sent, under which key.
charge_request(rail, req) ==
    IF ~validate(req) \/ ~check_currency(rail, req.currency)
    THEN Err("InvalidRequest")
    ELSE Then(stripe_amount(req.amount_minor, req.currency),
              LAMBDA v : Ok([reference |-> req.reference, value |-> v,
                             currency |-> Lowered(Upper(req.currency)),
                             key |-> <<"begin", req.reference>>]))

\* charge, from the answer: nothing has settled yet, so the receipt claims 0.
charge(rail, req, net, created) ==
    Answered(do_form(net, created), classify_error,
         LAMBDA b : Decoded(b, {"id", "url"},
             LAMBDA s : IF s.id = Blank \/ s.url = Blank THEN Err("Rail")
                        ELSE Ok(Receipt(rail.id, 0, Upper(req.currency), req.reference,
                                        ChargeProof(s.id)))))

\* Only payment_status = "paid" is settled, and only with an amount.
evaluate_session(s) ==
    CASE s.id = Blank \/ s.client_reference_id = Blank -> Err("Rail")
      [] s.payment_status = "paid" ->
            IF s.amount_total = 0 THEN Err("Rail")
            ELSE Then(stripe_amount_to_minor(s.amount_total, s.currency),
                      LAMBDA a : Ok([reference |-> s.client_reference_id, settled |-> TRUE,
                                     amount_minor |-> a, currency |-> Upper(s.currency)]))
      [] OTHER -> Ok([reference |-> s.client_reference_id, settled |-> FALSE,
                      amount_minor |-> 0, currency |-> Upper(s.currency)])

IsChargeProof(proof) == Decodes(proof, {"session_id", "status_at_charge"})
Named(receipt) == receipt.proof.session_id

\* verify: false for a receipt that is not this rail's; else what the session says now.
verify(rail, receipt, net, session) ==
    IF receipt.rail_id # rail.id \/ ~IsChargeProof(receipt.proof) \/ Named(receipt) = Blank
    THEN Ok(FALSE)
    ELSE Answered(do_form(net, session), classify_error,
              LAMBDA b : Decoded(b, {"id", "payment_status"},
                  LAMBDA s : LET o == evaluate_session(s)
                             IN  Ok(/\ o.ok
                                    /\ o.val.settled
                                    /\ SameCode(o.val.currency, receipt.currency)
                                    /\ o.val.amount_minor >= receipt.amount_minor)))

\* refund, first half: the PaymentIntent to refund is looked up from the session.
refund_lookup(rail, receipt, net, session) ==
    IF receipt.rail_id # rail.id \/ ~IsChargeProof(receipt.proof) \/ Named(receipt) = Blank
    THEN Err("InvalidRequest")
    ELSE Answered(do_form(net, session), classify_error,
              LAMBDA b : Decoded(b, {"id", "payment_status"},
                  LAMBDA s : IF s.payment_intent = Blank THEN Err("Rail")
                             ELSE Ok([target |-> s.payment_intent, full |-> TRUE, value |-> 0, key |-> NoKey])))

\* Mutant: a refund that was accepted is a refund that was made.
refund_accepted(rail, receipt, net, refunded) ==
    Answered(do_form(net, refunded), classify_error,
         LAMBDA b : Decoded(b, {"id", "status", "amount", "currency"},
             LAMBDA f : Then(stripe_amount_to_minor(f.amount, f.currency),
                             LAMBDA a : Ok(Receipt(rail.id, a, Upper(f.currency), receipt.reference,
                                                   RefundProof(f.id, f.status))))))

\* refund, second half: only "succeeded" is money moved; anything else is a receipt for 0.
refund(rail, receipt, net, refunded) ==
    Answered(do_form(net, refunded), classify_error,
         LAMBDA b : Decoded(b, {"id", "status", "amount", "currency"},
             LAMBDA f : Then(IF f.status = "succeeded"
                             THEN stripe_amount_to_minor(f.amount, f.currency) ELSE Ok(0),
                             LAMBDA a : Ok(Receipt(rail.id, a, Upper(f.currency), receipt.reference,
                                                   RefundProof(f.id, f.status))))))

SIGNATURE_TOLERANCE == 1 \* five minutes, as the unit of a delivery's age

Age(now, t) == IF now >= t THEN now - t ELSE t - now

\* verify_and_parse: signature, then age, then event type, then the session it carries.
verify_and_parse(secret, body, h, now) ==
    CASE ~verify_hmac(secret, <<h.t, body>>, h.v1) -> Err("InvalidRequest")
      [] Age(now, h.t) > SIGNATURE_TOLERANCE -> Err("InvalidRequest")
      [] body.type \notin {"checkout.session.completed",
                           "checkout.session.async_payment_succeeded"} -> Err("InvalidRequest")
      [] OTHER -> Then(evaluate_session(body.object),
                       LAMBDA o : Ok([outcome |-> o,
                                      event_id |-> IF body.id = Blank THEN body.object.id
                                                   ELSE body.id]))

verify_webhook(rail, delivery, net, session) ==
    IF ~header(delivery, "Stripe-Signature") THEN Err("InvalidRequest")
    ELSE Then(verify_and_parse(rail.config.webhook_secret, delivery.raw_body,
                               delivery.headers["Stripe-Signature"], delivery.now_unix),
              LAMBDA e : Ok(settlement(rail.id, e.event_id, e.outcome.reference,
                                       e.outcome.settled, e.outcome.amount_minor,
                                       e.outcome.currency)))

-----------------------------------------------------------------------------
(* Stripe itself, as the adapter reads it (external). *)

Phases == {"open", "pending", "paid", "failed", "refunded"}

Accepts == {"USD", "JPY", "ISK", "MGA"}
Secret(rail) == rail.config.webhook_secret

\* What the payer is asked for, in ISO minor units: Stripe keeps ISK at two decimals, and
\* takes its zero-decimal codes in whole units, whatever ISO says of them.
Worth(value, code) ==
    CASE Upper(code) \in STRIPE_FORCED_TWO_DECIMAL -> value \div 100
      [] Upper(code) \in STRIPE_ZERO_DECIMAL -> value * pow10(exponent(code).val)
      [] OTHER -> value

\* A session as the API shows it.
Payload(s) ==
    [id |-> s.id, url |-> "https", client_reference_id |-> s.reference,
     amount_total |-> s.value, currency |-> s.currency,
     payment_status |-> IF s.phase \in {"paid", "refunded"} THEN "paid" ELSE "unpaid",
     payment_intent |-> IF s.phase \in {"paid", "refunded"} THEN s.id ELSE Blank]

\* The event of entering a phase: an asynchronous method completes the checkout unpaid.
Event(s, secret) ==
    [id |-> s.id \o s.phase, object |-> Payload(s),
     type |-> CASE s.phase = "pending" -> "checkout.session.completed"
                [] s.phase = "paid" -> "checkout.session.async_payment_succeeded"
                [] s.phase = "refunded" -> "charge.refunded"
                [] OTHER -> "checkout.session.expired"]

Headers(secret, body, t) ==
    Entry("Stripe-Signature", [t |-> t, v1 |-> Signature(secret, <<t, body>>)])

RefundAnswer(s, done) ==
    [id |-> "re", status |-> IF done THEN "succeeded" ELSE "pending",
     amount |-> s.value, currency |-> s.currency]
=============================================================================
