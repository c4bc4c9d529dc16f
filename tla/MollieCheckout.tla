--------------------------- MODULE MollieCheckout ---------------------------
(***************************************************************************)
(* patala-fiat/src/mollie: Payments API v2.  A webhook carries nothing but *)
(* a payment id and no signature, so the adapter fetches the payment again *)
(* under its own key before it says anything.                              *)
(***************************************************************************)
EXTENDS FiatKit

Required == {"api_key", "webhook_url"}

Defaults == [requires_kyc |-> TRUE, currencies |-> {}, settlement_days |-> 2,
             timeout_secs |-> 15]

from_env(env) == FromEnv(env, Required, Defaults)

new(config) ==
    IF config.api_key = Blank \/ config.webhook_url = Blank
    THEN Err("InvalidRequest")
    ELSE Rail("mollie", config, "CustodialReversible", TRUE, TRUE, config.currencies)

build_mollie(config) == Then(FromMap(config, Required, Defaults), LAMBDA c : new(c))

check_currency(rail, code) == Supports(rail.capabilities.currencies, code)

do_json(net, body) == Exchange(net, body)

classify_error == Err("Rail")

\* Only two-decimal currencies have a value format Mollie documents.
mollie_amount_value(amount_minor, code) ==
    Then(exponent(code),
         LAMBDA e : IF e # 2 THEN Err("InvalidRequest") ELSE minor_to_major_string(amount_minor, code))

mollie_amount_value_to_minor(value, code) ==
    Then(exponent(code),
         LAMBDA e : IF e # 2 THEN Err("InvalidRequest") ELSE major_string_to_minor(value, code))

quote(rail, req) ==
    IF ~validate(req) \/ ~check_currency(rail, req.currency)
    THEN Err("InvalidRequest")
    ELSE Then(mollie_amount_value(req.amount_minor, req.currency),
              LAMBDA v : Quoted(rail, req))

ChargeProof(payment_id) == [payment_id |-> payment_id]
RefundProof(id, status) == [refund_id |-> id, status_at_refund |-> status]

\* charge, up to the POST: no idempotency key.
charge_request(rail, req) ==
    IF ~validate(req) \/ ~check_currency(rail, req.currency)
    THEN Err("InvalidRequest")
    ELSE Then(mollie_amount_value(req.amount_minor, req.currency),
              LAMBDA v : Ok([reference |-> req.reference, value |-> v,
                             currency |-> Upper(req.currency), key |-> NoKey]))

charge(rail, req, net, created) ==
    Answered(do_json(net, created), classify_error,
        LAMBDA b : Decoded(b, {"id", "checkout"},
            LAMBDA p : IF p.id = Blank \/ p.checkout = Blank THEN Err("Rail")
                       ELSE Ok(Receipt(rail.id, 0, Upper(req.currency), req.reference,
                                       ChargeProof(p.id)))))

\* Only "paid", with a positive amount and a reference to reconcile against.
evaluate_payment(p) ==
    CASE p.id = Blank \/ p.patala_reference = Blank -> Err("Rail")
      [] p.status = "paid" ->
            Then(mollie_amount_value_to_minor(p.value, p.currency),
                 LAMBDA a : IF a = 0 THEN Err("Rail")
                            ELSE Ok([reference |-> p.patala_reference, settled |-> TRUE,
                                     amount_minor |-> a, currency |-> Upper(p.currency)]))
      [] OTHER -> Ok([reference |-> p.patala_reference, settled |-> FALSE,
                      amount_minor |-> 0, currency |-> Upper(p.currency)])

IsChargeProof(proof) == Decodes(proof, {"payment_id"})
Named(receipt) == receipt.proof.payment_id

fetch_outcome(net, payment) ==
    Answered(do_json(net, payment), classify_error,
        LAMBDA b : Decoded(b, {"id", "status"}, LAMBDA p : evaluate_payment(p)))

\* verify: every failure to fetch is a plain false here.
verify(rail, receipt, net, payment) ==
    LET o == fetch_outcome(net, payment)
    IN  Ok(/\ receipt.rail_id = rail.id
           /\ IsChargeProof(receipt.proof)
           /\ Named(receipt) # Blank
           /\ o.ok
           /\ o.val.settled
           /\ SameCode(o.val.currency, receipt.currency)
           /\ o.val.amount_minor >= receipt.amount_minor)

\* refund, up to the POST: for the amount the receipt names, which charge left at 0.
refund_lookup(rail, receipt, net, payment) ==
    IF receipt.rail_id # rail.id \/ ~IsChargeProof(receipt.proof) \/ Named(receipt) = Blank
    THEN Err("InvalidRequest")
    ELSE Then(mollie_amount_value(receipt.amount_minor, receipt.currency),
              LAMBDA v : Ok([target |-> Named(receipt), full |-> FALSE, value |-> v, key |-> NoKey]))

\* refund, from the answer: only "refunded" is money moved.
refund(rail, receipt, net, refunded) ==
    Answered(do_json(net, refunded), classify_error,
        LAMBDA b : Decoded(b, {"id", "status"},
            LAMBDA f : Then(IF f.status = "refunded"
                            THEN mollie_amount_value_to_minor(f.value, receipt.currency) ELSE Ok(0),
                            LAMBDA a : Ok(Receipt(rail.id, a, Upper(receipt.currency),
                                                  receipt.reference, RefundProof(f.id, f.status))))))

extract_payment_id(body) == IF body.id = Blank THEN Err("InvalidRequest") ELSE Ok(body.id)

\* The payment id the callback names is also its event id.
handle_webhook(body, net, payment) ==
    Then(extract_payment_id(body),
         LAMBDA id : Then(fetch_outcome(net, payment),
                          LAMBDA o : Ok([event_id |-> id, outcome |-> o])))

verify_webhook(rail, delivery, net, payment) ==
    Then(handle_webhook(delivery.raw_body, net, payment),
         LAMBDA e : Ok(with_object_id(
                           settlement(rail.id, e.event_id, e.outcome.reference, e.outcome.settled,
                                      e.outcome.amount_minor, e.outcome.currency), e.event_id)))

-----------------------------------------------------------------------------
(* Mollie itself, as the adapter reads it (external). *)

Phases == {"open", "pending", "paid", "failed", "refunded"}
Accepts == {"USD"}
Secret(rail) == Blank
Worth(value, code) == major_string_to_minor(value, code).val

\* A refunded payment keeps the status "paid".
Payload(s) ==
    [id |-> s.id, checkout |-> "https", patala_reference |-> s.reference, value |-> s.value,
     currency |-> s.currency, status |-> IF s.phase = "refunded" THEN "paid" ELSE s.phase]

Event(s, secret) == [id |-> s.id]
Headers(secret, body, t) == <<>>
RefundAnswer(s, done) ==
    [id |-> "re", status |-> IF done THEN "refunded" ELSE "pending", value |-> s.value]
=============================================================================
