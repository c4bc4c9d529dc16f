--------------------------- MODULE SquareCheckout ---------------------------
(***************************************************************************)
(* patala-fiat/src/square: payment links.  The link is created under the   *)
(* reference as idempotency key; the payment's id is only learned from a   *)
(* webhook, and until the caller has put it into the proof a receipt never *)
(* verifies and cannot be refunded.                                        *)
(***************************************************************************)
EXTENDS FiatKit

Required == {"access_token", "webhook_signature_key", "location_id", "notification_url",
             "api_base_url"}

Defaults == [requires_kyc |-> TRUE, currencies |-> {}, settlement_days |-> 2,
             timeout_secs |-> 15]

from_env(env) == FromEnv(env, Required, Defaults)

new(config) ==
    IF \E v \in Required : config[v] = Blank
    THEN Err("InvalidRequest")
    ELSE Rail("square", config, "CustodialReversible", TRUE, TRUE, config.currencies)

build_square(config) == Then(FromMap(config, Required, Defaults), LAMBDA c : new(c))

check_currency(rail, code) == Supports(rail.capabilities.currencies, code)

do_json(net, body) == Exchange(net, body)

classify_error == Err("Rail")

SQUARE_THREE_DECIMAL == {"KWD", "BHD", "JOD", "OMR", "TND"}

square_amount(amount_minor, code) ==
    IF Upper(code) \in SQUARE_THREE_DECIMAL THEN Err("InvalidRequest") ELSE Ok(amount_minor)

quote(rail, req) ==
    IF ~validate(req) \/ ~check_currency(rail, req.currency)
    THEN Err("InvalidRequest")
    ELSE Then(square_amount(req.amount_minor, req.currency), LAMBDA v : Quoted(rail, req))

\* payment_id is None (Blank) until a webhook has named it.
ChargeProof(order_id, payment_id) == [order_id |-> order_id, payment_id |-> payment_id]

with_resolved_payment_id(proof, payment_id) == ChargeProof(proof.order_id, payment_id)

\* charge, up to the POST: the reference is the idempotency key.
charge_request(rail, req) ==
    IF ~validate(req) \/ ~check_currency(rail, req.currency)
    THEN Err("InvalidRequest")
    ELSE Then(square_amount(req.amount_minor, req.currency),
              LAMBDA v : Ok([reference |-> req.reference, value |-> v,
                             currency |-> Upper(req.currency), key |-> <<req.reference>>]))

charge(rail, req, net, created) ==
    Answered(do_json(net, created), classify_error,
        LAMBDA b : Decoded(b, {"link_id", "url", "order_id"},
            LAMBDA l : IF l.link_id = Blank \/ l.url = Blank THEN Err("Rail")
                       ELSE Ok(Receipt(rail.id, 0, Upper(req.currency), req.reference,
                                       ChargeProof(l.order_id, Blank)))))

\* Only COMPLETED, with a positive amount.
parse_square_payment(p) ==
    CASE p.id = Blank \/ p.reference_id = Blank -> Err("Rail")
      [] p.status = "COMPLETED" ->
            IF p.amount = 0 THEN Err("Rail")
            ELSE Ok([reference |-> p.reference_id, event_id |-> p.id, settled |-> TRUE,
                     amount_minor |-> p.amount, currency |-> Upper(p.currency)])
      [] OTHER -> Ok([reference |-> p.reference_id, event_id |-> p.id, settled |-> FALSE,
                      amount_minor |-> 0, currency |-> Upper(p.currency)])

IsChargeProof(proof) == Decodes(proof, {"order_id", "payment_id"})
Named(receipt) == receipt.proof.payment_id

\* verify: a payment of another reference is no match.
verify(rail, receipt, net, payment) ==
    IF receipt.rail_id # rail.id \/ ~IsChargeProof(receipt.proof) \/ Named(receipt) = Blank
    THEN Ok(FALSE)
    ELSE Answered(do_json(net, payment), classify_error,
             LAMBDA b : Decoded(b, {"id", "status"},
                 LAMBDA p : LET o == parse_square_payment(p)
                            IN  Ok(/\ o.ok
                                   /\ o.val.reference = receipt.reference
                                   /\ o.val.settled
                                   /\ SameCode(o.val.currency, receipt.currency)
                                   /\ o.val.amount_minor >= receipt.amount_minor)))

\* refund, up to the POST: the receipt's amount, under a key of the reference.
refund_lookup(rail, receipt, net, payment) ==
    IF receipt.rail_id # rail.id \/ ~IsChargeProof(receipt.proof) \/ Named(receipt) = Blank
    THEN Err("InvalidRequest")
    ELSE Ok([target |-> Named(receipt), full |-> FALSE, value |-> receipt.amount_minor,
             key |-> <<"refund", receipt.reference>>])

\* refund, from the answer: the receipt carries no proof at all.
refund(rail, receipt, net, refunded) ==
    Answered(do_json(net, refunded), classify_error,
        LAMBDA b : Decoded(b, {"id"},
            LAMBDA f : IF f.id = Blank THEN Err("Rail")
                       ELSE Ok(Receipt(rail.id, IF f.status = "COMPLETED" THEN f.amount ELSE 0,
                                       IF f.currency = Blank THEN receipt.currency
                                       ELSE Upper(f.currency),
                                       receipt.reference, <<>>))))

\* The signature covers the notification URL and the body.
verify_and_parse(key, url, body, signature) ==
    CASE ~verify_hmac(key, <<url, body>>, signature) -> Err("InvalidRequest")
      [] body.type # "payment.updated" -> Err("InvalidRequest")
      [] OTHER -> Then(parse_square_payment(body.payment),
             LAMBDA o : IF ~o.settled THEN Err("InvalidRequest")
                        ELSE Ok([o EXCEPT !.event_id = IF body.event_id = Blank THEN @
                                                       ELSE body.event_id]))

verify_webhook(rail, delivery, net, payment) ==
    IF ~header(delivery, "x-square-hmacsha256-signature") THEN Err("InvalidRequest")
    ELSE Then(verify_and_parse(rail.config.webhook_signature_key, rail.config.notification_url,
                               delivery.raw_body,
                               delivery.headers["x-square-hmacsha256-signature"]),
              LAMBDA e : Ok(with_object_id(
                                settlement(rail.id, e.event_id, e.reference, TRUE,
                                           e.amount_minor, e.currency),
                                delivery.raw_body.payment.id)))

-----------------------------------------------------------------------------
(* Square itself, as the adapter reads it (external). *)

Phases == {"open", "pending", "paid", "failed", "refunded"}
Accepts == {"USD", "JPY"}
Secret(rail) == rail.config.webhook_signature_key
Worth(value, code) == value

\* A refunded payment stays COMPLETED.
Payload(s) ==
    [link_id |-> s.id, url |-> "https", order_id |-> s.id, id |-> s.id,
     reference_id |-> s.reference, amount |-> s.value, currency |-> s.currency,
     status |-> CASE s.phase \in {"paid", "refunded"} -> "COMPLETED"
                  [] s.phase = "pending" -> "APPROVED" [] OTHER -> "CANCELED"]

Event(s, secret) == [event_id |-> s.id \o s.phase, payment |-> Payload(s),
             type |-> IF s.phase = "refunded" THEN "refund.updated" ELSE "payment.updated"]

Headers(secret, body, t) == Entry("x-square-hmacsha256-signature", Signature(secret, <<"live", body>>))

RefundAnswer(s, done) == [id |-> "re", status |-> IF done THEN "COMPLETED" ELSE "PENDING",
                          amount |-> s.value, currency |-> s.currency]
=============================================================================
