--------------------------- MODULE PaypalCheckout ---------------------------
(***************************************************************************)
(* patala-fiat/src/paypal: Orders v2.  The payer only approves an order:   *)
(* verify is what captures it.  A webhook is authenticated by asking       *)
(* PayPal whether it sent it.                                              *)
(***************************************************************************)
EXTENDS FiatKit

Required == {"client_id", "client_secret", "webhook_id", "env"}

Defaults == [requires_kyc |-> TRUE, currencies |-> {}, settlement_days |-> 2,
             timeout_secs |-> 15]

\* PAYPAL_ENV must name one of the two hosts: there is no default.
BaseUrl(c) == IF c.env \in {"live", "sandbox"} THEN Ok(Over([base_url |-> c.env], c))
              ELSE Err("InvalidRequest")

from_env(env) == Then(FromEnv(env, Required, Defaults), LAMBDA c : BaseUrl(c))

new(config) ==
    IF \E v \in Required \cup {"base_url"} : config[v] = Blank
    THEN Err("InvalidRequest")
    ELSE Rail("paypal", config, "CustodialReversible", TRUE, TRUE, config.currencies)

\* The host is settled before anything else is looked at.
build_paypal(config) ==
    Then(FromMap(config, Required, Defaults),
         LAMBDA c : Then(BaseUrl(c), LAMBDA d : new(d)))

check_currency(rail, code) == Supports(rail.capabilities.currencies, code)

\* Every call fetches a token first; a failure to get one is a request that never left.
fetch_access_token(net) == IF net = "lost_request" THEN Err("Rail") ELSE Ok("token")

do_json(net, body) == Then(fetch_access_token(net), LAMBDA token : Exchange(net, body))

classify_error == Err("Rail")

ZERO_DECIMAL_CURRENCIES == {"JPY", "HUF", "TWD"}
THREE_DECIMAL_CURRENCIES == {"KWD", "BHD", "JOD", "OMR", "TND"}

\* Everything that is neither zero- nor three-decimal is divided by 100.
paypal_amount_value(amount_minor, code) ==
    CASE Upper(code) \in THREE_DECIMAL_CURRENCIES -> Err("InvalidRequest")
      [] Upper(code) \in ZERO_DECIMAL_CURRENCIES -> Ok(Major(amount_minor, 0, 0))
      [] OTHER -> Ok(Major(amount_minor \div 100, amount_minor % 100, 2))

\* The fraction is padded or cut to two digits; the sum is not checked and wraps.
paypal_amount_value_to_minor(v, code) ==
    CASE Upper(code) \in THREE_DECIMAL_CURRENCIES -> Err("InvalidRequest")
      [] Upper(code) \in ZERO_DECIMAL_CURRENCIES ->
            IF v.digits # 0 THEN Err("Rail") ELSE Ok(v.whole)
      [] OTHER -> Ok((v.whole * 100 + IF v.digits <= 2 THEN v.frac * pow10(2 - v.digits)
                                      ELSE v.frac \div pow10(v.digits - 2)) % (MaxU64 + 1))

\* quote: the currency is not checked against the ones charge can convert.
quote(rail, req) ==
    IF ~validate(req) \/ ~check_currency(rail, req.currency)
    THEN Err("InvalidRequest") ELSE Quoted(rail, req)

ChargeProof(order_id) == [paypal_order_id |-> order_id]
RefundProof(id, status) == [refund_id |-> id, status_at_refund |-> status]

\* charge, up to the POST: no PayPal-Request-Id, so no idempotency key.
charge_request(rail, req) ==
    IF ~validate(req) \/ ~check_currency(rail, req.currency)
    THEN Err("InvalidRequest")
    ELSE Then(paypal_amount_value(req.amount_minor, req.currency),
              LAMBDA v : Ok([reference |-> req.reference, value |-> v,
                             currency |-> Upper(req.currency), key |-> NoKey]))

charge(rail, req, net, created) ==
    Answered(do_json(net, created), classify_error,
        LAMBDA b : Decoded(b, {"id", "approve"},
            LAMBDA o : IF o.id = Blank \/ o.approve = Blank THEN Err("Rail")
                       ELSE Ok(Receipt(rail.id, 0, Upper(req.currency), req.reference,
                                       ChargeProof(o.id)))))

find_completed_capture(order) == order.capture_status = "COMPLETED"

unit_reference(order) == IF order.custom_id # Blank THEN order.custom_id ELSE order.reference_id

\* A COMPLETED order without a COMPLETED capture is an error; another reference, another
\* currency or too little is no match.
match_capture_for_receipt(order, receipt) ==
    CASE ~find_completed_capture(order) -> Err("Rail")
      [] unit_reference(order) # receipt.reference -> Ok(FALSE)
      [] ~SameCode(order.currency, receipt.currency) -> Ok(FALSE)
      [] OTHER -> Then(paypal_amount_value_to_minor(order.value, order.currency),
                       LAMBDA a : IF a = 0 THEN Err("Rail") ELSE Ok(a >= receipt.amount_minor))

IsChargeProof(proof) == Decodes(proof, {"paypal_order_id"})
Named(receipt) == receipt.proof.paypal_order_id

\* verify, up to the order's status: an APPROVED order has still to be captured.
verify(rail, receipt, net, order) ==
    CASE receipt.rail_id # rail.id \/ ~IsChargeProof(receipt.proof) -> Ok(FALSE)
      [] Named(receipt) = Blank -> Err("InvalidRequest")
      [] OTHER -> Answered(do_json(net, order), classify_error,
             LAMBDA b : Decoded(b, {"id", "status"},
                 LAMBDA o : CASE o.id = Blank -> Err("Rail")
                              [] o.status = "COMPLETED" -> match_capture_for_receipt(o, receipt)
                              [] o.status = "APPROVED" -> Err("Capture")
                              [] OTHER -> Ok(FALSE)))

\* verify, from the answer to the capture.
verify_captured(rail, receipt, net, order) ==
    Answered(do_json(net, order), classify_error,
        LAMBDA b : Decoded(b, {"id", "status"},
            LAMBDA o : IF o.status # "COMPLETED" THEN Ok(FALSE)
                       ELSE match_capture_for_receipt(o, receipt)))

\* refund, up to the POST: the completed capture is looked up, its reference must be the
\* receipt's, and the amount asked back is the receipt's.
refund_lookup(rail, receipt, net, order) ==
    IF receipt.rail_id # rail.id \/ ~IsChargeProof(receipt.proof) \/ Named(receipt) = Blank
    THEN Err("InvalidRequest")
    ELSE Answered(do_json(net, order), classify_error,
             LAMBDA b : Decoded(b, {"id", "status"},
                 LAMBDA o : IF ~find_completed_capture(o) \/ unit_reference(o) # receipt.reference
                            THEN Err("Rail")
                            ELSE Then(paypal_amount_value(receipt.amount_minor, receipt.currency),
                                      LAMBDA v : Ok([target |-> o.id, full |-> FALSE, value |-> v, key |-> NoKey]))))

refund(rail, receipt, net, refunded) ==
    Answered(do_json(net, refunded), classify_error,
        LAMBDA b : Decoded(b, {"id", "status"},
            LAMBDA f : LET code == IF f.currency = Blank THEN receipt.currency ELSE Upper(f.currency)
                       IN  Then(IF f.status = "COMPLETED"
                                THEN paypal_amount_value_to_minor(f.value, code) ELSE Ok(0),
                                LAMBDA a : Ok(Receipt(rail.id, a, code, receipt.reference,
                                                      RefundProof(f.id, f.status))))))

\* Only PAYMENT.CAPTURE.COMPLETED, with a completed capture, a reference and an id.
parse_capture_completed(body) ==
    IF \/ body.event_type # "PAYMENT.CAPTURE.COMPLETED"
       \/ body.status # "COMPLETED"
       \/ body.custom_id = Blank
       \/ (body.id = Blank /\ body.capture_id = Blank)
    THEN Err("InvalidRequest")
    ELSE Ok([event_id |-> IF body.id # Blank THEN body.id ELSE body.capture_id,
             custom_id |-> body.custom_id, currency |-> body.currency, value |-> body.value])

\* PayPal is asked whether it sent the delivery; a failure to ask is Error::Rail.
handle_webhook(rail, delivery, net) ==
    IF ~header(delivery, "PAYPAL-TRANSMISSION") THEN Err("InvalidRequest")
    ELSE Answered(do_json(net, [verification_status |->
                      IF verify_hmac(rail.config.webhook_id, delivery.raw_body,
                                     delivery.headers["PAYPAL-TRANSMISSION"])
                      THEN "SUCCESS" ELSE "FAILURE"]), classify_error,
             LAMBDA b : IF ~Decodes(b, {"verification_status"}) THEN Err("InvalidRequest")
                        ELSE IF b.verification_status # "SUCCESS" THEN Err("InvalidRequest")
                        ELSE parse_capture_completed(delivery.raw_body))

verify_webhook(rail, delivery, net, order) ==
    Then(handle_webhook(rail, delivery, net),
         LAMBDA e : Then(paypal_amount_value_to_minor(e.value, e.currency),
             LAMBDA a : IF a = 0 THEN Err("InvalidRequest")
                        ELSE Ok(settlement(rail.id, e.event_id, e.custom_id, TRUE, a,
                                           Upper(e.currency)))))

-----------------------------------------------------------------------------
(* PayPal itself, as the adapter reads it (external). *)

Phases == {"open", "approved", "pending", "paid", "refunded"}
Accepts == {"USD", "JPY", "HUF"}
Secret(rail) == rail.config.webhook_id

\* What the payer is asked for, in ISO minor units: an amount without decimals is in whole units.
Worth(value, code) ==
    LET e == exponent(code).val IN value.whole * pow10(e) + value.frac * pow10(e - value.digits)

\* An order whose capture is pending or was refunded is itself COMPLETED.
Payload(s) ==
    [id |-> s.id, approve |-> "https", custom_id |-> s.reference, reference_id |-> s.reference,
     value |-> s.value, currency |-> s.currency,
     status |-> CASE s.phase = "open" -> "CREATED" [] s.phase = "approved" -> "APPROVED"
                  [] OTHER -> "COMPLETED",
     capture_status |-> CASE s.phase = "paid" -> "COMPLETED" [] s.phase = "pending" -> "PENDING"
                          [] s.phase = "refunded" -> "REFUNDED" [] OTHER -> Blank]

Event(s, secret) ==
    [id |-> s.id \o s.phase, capture_id |-> s.id, custom_id |-> s.reference, value |-> s.value,
     currency |-> s.currency, status |-> Payload(s).capture_status,
     event_type |-> CASE s.phase = "paid" -> "PAYMENT.CAPTURE.COMPLETED"
                      [] s.phase = "pending" -> "PAYMENT.CAPTURE.PENDING"
                      [] s.phase = "refunded" -> "PAYMENT.CAPTURE.REFUNDED"
                      [] OTHER -> "CHECKOUT.ORDER.APPROVED"]

Headers(secret, body, t) == Entry("PAYPAL-TRANSMISSION", Signature(secret, body))
RefundAnswer(s, done) ==
    [id |-> "re", status |-> IF done THEN "COMPLETED" ELSE "PENDING", value |-> s.value,
     currency |-> s.currency]
=============================================================================
