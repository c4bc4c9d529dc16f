------------------------ MODULE CheckoutcomCheckout ------------------------
(***************************************************************************)
(* patala-fiat/src/checkoutcom: hosted payments.  CLP is sent at two       *)
(* decimals; only Captured is settled; a refund is only accepted, so its   *)
(* receipt claims 0.                                                       *)
(***************************************************************************)
EXTENDS FiatKit

Required == {"secret_key", "webhook_secret", "api_base_url"}

Defaults == [requires_kyc |-> TRUE, currencies |-> {}, settlement_days |-> 2,
             timeout_secs |-> 15]

from_env(env) == FromEnv(env, Required, Defaults)

new(config) ==
    IF \E v \in Required : config[v] = Blank
    THEN Err("InvalidRequest")
    ELSE Rail("checkoutcom", config, "CustodialReversible", TRUE, TRUE, config.currencies)

build_checkoutcom(config) == Then(FromMap(config, Required, Defaults), LAMBDA c : new(c))

check_currency(rail, code) == Supports(rail.capabilities.currencies, code)

do_json(net, body) == Exchange(net, body)

classify_error == Err("Rail")

CHECKOUTCOM_FORCED_TWO_DECIMAL == {"CLP"}

checkout_com_amount(amount_minor, code) ==
    IF Upper(code) \notin CHECKOUTCOM_FORCED_TWO_DECIMAL THEN Ok(amount_minor)
    ELSE IF amount_minor * 100 > MaxU64 THEN Err("InvalidRequest") ELSE Ok(amount_minor * 100)

checkout_com_amount_to_minor(amt, code) ==
    IF Upper(code) \notin CHECKOUTCOM_FORCED_TWO_DECIMAL THEN Ok(amt)
    ELSE IF amt % 100 # 0 THEN Err("Rail") ELSE Ok(amt \div 100)

quote(rail, req) ==
    IF ~validate(req) \/ ~check_currency(rail, req.currency)
    THEN Err("InvalidRequest")
    ELSE Then(checkout_com_amount(req.amount_minor, req.currency), LAMBDA v : Quoted(rail, req))

ChargeProof(payment_id) == [payment_id |-> payment_id, status_at_charge |-> "pending"]
RefundProof(action_id) == [action_id |-> action_id]

charge_request(rail, req) ==
    IF ~validate(req) \/ ~check_currency(rail, req.currency)
    THEN Err("InvalidRequest")
    ELSE Then(checkout_com_amount(req.amount_minor, req.currency),
              LAMBDA v : Ok([reference |-> req.reference, value |-> v,
                             currency |-> Upper(req.currency), key |-> NoKey]))

charge(rail, req, net, created) ==
    Answered(do_json(net, created), classify_error,
        LAMBDA b : Decoded(b, {"id", "redirect"},
            LAMBDA c : IF c.id = Blank \/ c.redirect = Blank THEN Err("Rail")
                       ELSE Ok(Receipt(rail.id, 0, Upper(req.currency), req.reference,
                                       ChargeProof(c.id)))))

\* The reference, or else the one in the metadata; only Captured, with a positive amount.
evaluate_payment(p) ==
    LET reference == IF p.reference # Blank THEN p.reference ELSE p.patala_reference
    IN  CASE p.id = Blank \/ reference = Blank -> Err("Rail")
          [] p.status = "Captured" ->
                IF p.amount = 0 THEN Err("Rail")
                ELSE Then(checkout_com_amount_to_minor(p.amount, p.currency),
                          LAMBDA a : Ok([reference |-> reference, settled |-> TRUE,
                                         amount_minor |-> a, currency |-> Upper(p.currency)]))
          [] OTHER -> Ok([reference |-> reference, settled |-> FALSE, amount_minor |-> 0,
                          currency |-> Upper(p.currency)])

IsChargeProof(proof) == Decodes(proof, {"payment_id", "status_at_charge"})
Named(receipt) == receipt.proof.payment_id

verify(rail, receipt, net, payment) ==
    IF receipt.rail_id # rail.id \/ ~IsChargeProof(receipt.proof) \/ Named(receipt) = Blank
    THEN Ok(FALSE)
    ELSE Answered(do_json(net, payment), classify_error,
             LAMBDA b : Decoded(b, {"id", "status"},
                 LAMBDA p : LET o == evaluate_payment(p)
                            IN  Ok(/\ o.ok
                                   /\ o.val.settled
                                   /\ SameCode(o.val.currency, receipt.currency)
                                   /\ o.val.amount_minor >= receipt.amount_minor)))

\* refund, up to the POST: for the amount the receipt names.
refund_lookup(rail, receipt, net, payment) ==
    IF receipt.rail_id # rail.id \/ ~IsChargeProof(receipt.proof) \/ Named(receipt) = Blank
    THEN Err("InvalidRequest")
    ELSE Then(checkout_com_amount(receipt.amount_minor, receipt.currency),
              LAMBDA v : Ok([target |-> Named(receipt), full |-> FALSE, value |-> v, key |-> NoKey]))

\* refund, from the answer: a body that does not parse is only a missing action id.
refund(rail, receipt, net, refunded) ==
    Answered(do_json(net, refunded), classify_error,
        LAMBDA b : Ok(Receipt(rail.id, 0, Upper(receipt.currency), receipt.reference,
                              RefundProof(IF Decodes(b, {"action_id"}) THEN b.action_id
                                          ELSE Blank))))

verify_and_parse(secret, body, signature) ==
    CASE ~verify_hmac(secret, body, signature) -> Err("InvalidRequest")
      [] body.type # "payment_captured" -> Err("InvalidRequest")
      [] OTHER -> Then(evaluate_payment(body.data),
             LAMBDA o : IF ~o.settled THEN Err("InvalidRequest")
                        ELSE Ok([outcome |-> o,
                                 event_id |-> IF body.id = Blank THEN body.data.id ELSE body.id]))

verify_webhook(rail, delivery, net, payment) ==
    IF ~header(delivery, "Cko-Signature") THEN Err("InvalidRequest")
    ELSE Then(verify_and_parse(rail.config.webhook_secret, delivery.raw_body,
                               delivery.headers["Cko-Signature"]),
              LAMBDA e : Ok(settlement(rail.id, e.event_id, e.outcome.reference,
                                       e.outcome.settled, e.outcome.amount_minor,
                                       e.outcome.currency)))

-----------------------------------------------------------------------------
(* Checkout.com itself, as the adapter reads it (external). *)

Phases == {"open", "pending", "paid", "failed", "refunded"}
Accepts == {"USD", "KWD", "CLP"}
Secret(rail) == rail.config.webhook_secret

\* CLP is the currency it keeps at two decimals.
Worth(value, code) == IF Upper(code) = "CLP" THEN value \div 100 ELSE value

Payload(s) ==
    [id |-> s.id, redirect |-> "https", reference |-> s.reference, patala_reference |-> s.reference,
     amount |-> s.value, currency |-> s.currency,
     status |-> CASE s.phase = "paid" -> "Captured" [] s.phase = "pending" -> "Authorized"
                  [] s.phase = "refunded" -> "Refunded" [] OTHER -> "Pending"]

Event(s, secret) ==
    [id |-> s.id \o s.phase, data |-> Payload(s),
     type |-> IF s.phase = "paid" THEN "payment_captured" ELSE "payment_" \o s.phase]

Headers(secret, body, t) == Entry("Cko-Signature", Signature(secret, body))
RefundAnswer(s, done) == [action_id |-> "act"]
=============================================================================
