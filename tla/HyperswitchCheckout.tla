------------------------ MODULE HyperswitchCheckout ------------------------
(***************************************************************************)
(* patala-hyperswitch: payments of a self-hosted switch, confirmed at once *)
(* with the payer's token.  The caller's reference is the payment's id.    *)
(* charge may come back succeeded, and then its receipt claims the amount; *)
(* verify also looks at the refunds made since.                            *)
(***************************************************************************)
EXTENDS FiatKit, SequencesExt

Required == {"base_url", "api_key"}

Defaults == [connector |-> Blank, webhook_secret |-> Blank, requires_kyc |-> TRUE,
             currencies |-> {"USD"}, settlement_days |-> 2, timeout_secs |-> 30]

from_env(env) == FromEnv(env, Required, Defaults)

new(config) ==
    IF config.base_url = Blank \/ config.api_key = Blank \/ config.currencies = {}
    THEN Err("InvalidRequest")
    ELSE Rail("hyperswitch", config, "CustodialReversible", TRUE, TRUE, config.currencies)

\* The binding's constructor takes the configuration field by field.
new_hyperswitch(config) == Then(FromMap(config, Required, Defaults), LAMBDA c : new(c))

check_currency(rail, code) == \E c \in rail.capabilities.currencies : SameCode(c, code)

\* post and get are one exchange; parse_response refuses a status that is no success.
parse_response(response) == Answered(response, Err("Rail"), LAMBDA b : Ok(b))
post(net, body) == parse_response(Exchange(net, body))
get(net, body) == parse_response(Exchange(net, body))

quote(rail, req) ==
    IF ~validate(req) \/ ~check_currency(rail, req.currency)
    THEN Err("InvalidRequest") ELSE Quoted(rail, req)

ChargeProof(payment_id, status) == [payment_id |-> payment_id, status_at_charge |-> status]
RefundProof(refund_id, payment_id, status) ==
    [refund_id |-> refund_id, payment_id |-> payment_id, status_at_refund |-> status]

is_settled_success(status) == status = "succeeded"

\* An Option<u64>: empty, or the number.
unwrap_or(option, default) == IF option = <<>> THEN default ELSE option[1]

\* charge, up to the POST: the reference is the payment_id, so it can be used once.
charge_request(rail, req) ==
    IF ~validate(req) \/ ~check_currency(rail, req.currency)
    THEN Err("InvalidRequest")
    ELSE Ok([reference |-> req.reference, value |-> req.amount_minor, currency |-> req.currency,
             key |-> <<req.reference>>])

\* charge, from the answer: a payment that has not succeeded yet claims 0.
charge(rail, req, net, created) ==
    Then(post(net, created),
         LAMBDA b : Decoded(b, {"payment_id", "status", "amount", "currency"},
             LAMBDA p : Ok(Receipt(rail.id,
                                   IF is_settled_success(p.status)
                                   THEN unwrap_or(p.amount_received, p.amount) ELSE 0,
                                   p.currency, req.reference, ChargeProof(p.payment_id, p.status)))))

IsChargeProof(proof) == Decodes(proof, {"payment_id", "status_at_charge"})
Named(receipt) == receipt.proof.payment_id

\* What the succeeded refunds of a payment add up to.
Refunded(refunds) ==
    FoldLeft(LAMBDA sum, r : sum + (IF r.status = "succeeded" THEN r.amount ELSE 0), 0, refunds)

\* verify: succeeded, enough received, and less than the receipt's amount given back.
verify(rail, receipt, net, payment) ==
    IF receipt.rail_id # rail.id \/ ~IsChargeProof(receipt.proof) \/ Named(receipt) = Blank
    THEN Ok(FALSE)
    ELSE Then(get(net, payment),
              LAMBDA b : Decoded(b, {"payment_id", "status", "amount", "currency"},
                  LAMBDA p : Ok(/\ p.currency = receipt.currency
                                /\ is_settled_success(p.status)
                                /\ unwrap_or(p.amount_received, 0) >= receipt.amount_minor
                                /\ Refunded(p.refunds) < receipt.amount_minor)))

\* refund, up to the POST: the receipt's amount, against its payment.
refund_lookup(rail, receipt, net, payment) ==
    IF receipt.rail_id # rail.id \/ ~IsChargeProof(receipt.proof) \/ Named(receipt) = Blank
    THEN Err("InvalidRequest")
    ELSE Ok([target |-> Named(receipt), full |-> FALSE, value |-> receipt.amount_minor,
             key |-> NoKey])

\* refund, from the answer: only a succeeded refund is money moved.
refund(rail, receipt, net, refunded) ==
    Then(post(net, refunded),
         LAMBDA b : Decoded(b, {"refund_id", "payment_id", "amount", "currency", "status"},
             LAMBDA f : Ok(Receipt(rail.id, IF f.status = "succeeded" THEN f.amount ELSE 0,
                                   f.currency, receipt.reference,
                                   RefundProof(f.refund_id, f.payment_id, f.status)))))

verify_webhook_signature(secret, body, signature) == verify_hmac(secret, body, signature)

\* verify_webhook reads nothing out of the body: the signature is the event's id.
verify_webhook(rail, delivery, net, payment) ==
    CASE rail.config.webhook_secret = Blank -> Unsupported
      [] ~header(delivery, "X-Webhook-Signature-512") -> Err("InvalidRequest")
      [] ~verify_webhook_signature(rail.config.webhook_secret, delivery.raw_body,
                                   delivery.headers["X-Webhook-Signature-512"]) ->
            Err("InvalidRequest")
      [] OTHER -> Ok(unconfirmed(rail.id, delivery.headers["X-Webhook-Signature-512"], Blank))

-----------------------------------------------------------------------------
(* Hyperswitch itself, as the adapter reads it (external). *)

Phases == {"open", "pending", "paid", "failed", "refunded"}
Accepts == {"USD"}
Secret(rail) == rail.config.webhook_secret
Worth(value, code) == value

Payload(s) ==
    [payment_id |-> s.reference, amount |-> s.value, currency |-> Upper(s.currency),
     status |-> CASE s.phase \in {"paid", "refunded"} -> "succeeded"
                  [] s.phase = "pending" -> "processing" [] s.phase = "failed" -> "failed"
                  [] OTHER -> "requires_customer_action",
     amount_received |-> IF s.phase \in {"paid", "refunded"} THEN <<s.value>> ELSE <<>>,
     refunds |-> IF s.phase = "refunded"
                 THEN <<[status |-> "failed", amount |-> s.value], [status |-> "succeeded", amount |-> s.value]>>
                 ELSE <<>>]

Event(s, secret) == [payment |-> s.reference, status |-> s.phase]
Headers(secret, body, t) == Entry("X-Webhook-Signature-512", Signature(secret, body))

RefundAnswer(s, done) ==
    [refund_id |-> "re", payment_id |-> s.reference, amount |-> s.value,
     currency |-> Upper(s.currency), status |-> IF done THEN "succeeded" ELSE "pending"]
=============================================================================
