-------------------------- MODULE PaystackCheckout --------------------------
(***************************************************************************)
(* patala-fiat/src/paystack: transactions named by the caller's reference. *)
(* verify and refund ask by the receipt's reference and never read its     *)
(* proof.                                                                  *)
(***************************************************************************)
EXTENDS FiatKit

Required == {"secret_key"}
DEFAULT_CURRENCIES == {"NGN", "GHS", "ZAR", "KES", "USD"}

Defaults == [requires_kyc |-> TRUE, currencies |-> DEFAULT_CURRENCIES,
             settlement_days |-> 2, timeout_secs |-> 15]

from_env(env) == FromEnv(env, Required, Defaults)

new(config) ==
    IF config.secret_key = Blank \/ config.currencies = {}
    THEN Err("InvalidRequest")
    ELSE Rail("paystack", config, "CustodialReversible", TRUE, TRUE, config.currencies)

build_paystack(config) == Then(FromMap(config, Required, Defaults), LAMBDA c : new(c))

check_currency(rail, code) == \E c \in rail.capabilities.currencies : SameCode(c, code)

do_json(net, body) == Exchange(net, body)

classify_error == Err("Rail")

quote(rail, req) ==
    IF ~validate(req) \/ ~check_currency(rail, req.currency)
    THEN Err("InvalidRequest") ELSE Quoted(rail, req)

ChargeProof(access_code) == [authorization_url |-> "https", access_code |-> access_code]

charge_request(rail, req) ==
    IF ~validate(req) \/ ~check_currency(rail, req.currency)
    THEN Err("InvalidRequest")
    ELSE Ok([reference |-> req.reference, value |-> req.amount_minor,
             currency |-> Upper(req.currency), key |-> NoKey])

\* charge, from the answer: the receipt takes the reference Paystack answers with.
charge(rail, req, net, created) ==
    Answered(do_json(net, created), classify_error,
        LAMBDA b : Decoded(b, {"status", "data"},
            LAMBDA c : IF ~c.status \/ c.data.authorization_url = Blank THEN Err("Rail")
                       ELSE Ok(Receipt(rail.id, 0, Upper(req.currency),
                                       IF c.data.reference = Blank THEN req.reference
                                       ELSE c.data.reference,
                                       ChargeProof(c.data.access_code)))))

is_settled_success(status) == status = "success"

\* safe_path_segment: the reference is what the transaction is asked for by.
Named(receipt) == receipt.reference

verify(rail, receipt, net, transaction) ==
    IF receipt.rail_id # rail.id \/ Named(receipt) = Blank THEN Ok(FALSE)
    ELSE Answered(do_json(net, transaction), classify_error,
             LAMBDA b : Decoded(b, {"status", "data"},
                 LAMBDA t : Ok(/\ t.status
                               /\ t.data.reference \in {Blank, Named(receipt)}
                               /\ is_settled_success(t.data.status)
                               /\ SameCode(t.data.currency, receipt.currency)
                               /\ t.data.amount >= receipt.amount_minor)))

\* refund, up to the POST: the receipt's amount, against its reference.
refund_lookup(rail, receipt, net, transaction) ==
    IF receipt.rail_id # rail.id \/ Named(receipt) = Blank THEN Err("InvalidRequest")
    ELSE Ok([target |-> Named(receipt), full |-> FALSE, value |-> receipt.amount_minor,
             key |-> NoKey])

\* refund, from the answer: only "processed" is money moved; the proof is empty.
refund(rail, receipt, net, refunded) ==
    Answered(do_json(net, refunded), classify_error,
        LAMBDA b : Decoded(b, {"status", "data"},
            LAMBDA f : IF ~f.status THEN Err("Rail")
                       ELSE Ok(Receipt(rail.id, IF f.data.status = "processed" THEN f.data.amount
                                                ELSE 0,
                                       IF f.data.currency = Blank THEN receipt.currency
                                       ELSE Upper(f.data.currency),
                                       receipt.reference, <<>>))))

\* charge.success and nothing else, with a successful transaction, a reference, an amount
\* and an id; the transaction's id is the event's.
verify_and_parse(secret, body, signature) ==
    IF \/ ~verify_hmac(secret, body, signature)
       \/ body.event # "charge.success"
       \/ body.data.status # "success"
       \/ body.data.reference = Blank \/ body.data.amount = 0
       \/ body.data.id = Blank
    THEN Err("InvalidRequest")
    ELSE Ok([event_id |-> body.data.id, reference |-> body.data.reference,
             amount_minor |-> body.data.amount, currency |-> body.data.currency])

verify_webhook(rail, delivery, net, transaction) ==
    IF ~header(delivery, "X-Paystack-Signature") THEN Err("InvalidRequest")
    ELSE Then(verify_and_parse(rail.config.secret_key, delivery.raw_body,
                               delivery.headers["X-Paystack-Signature"]),
              LAMBDA e : Ok(settlement(rail.id, e.event_id, e.reference, TRUE, e.amount_minor,
                                       e.currency)))

-----------------------------------------------------------------------------
(* Paystack itself, as the adapter reads it (external). *)

Phases == {"open", "pending", "paid", "failed", "refunded"}
Accepts == {"USD", "ZAR"}
Secret(rail) == rail.config.secret_key
Worth(value, code) == value

\* The data of a transaction; a refunded one is "reversed".
Transaction(s) ==
    [id |-> s.id, reference |-> s.reference, amount |-> s.value, currency |-> s.currency,
     status |-> CASE s.phase = "paid" -> "success" [] s.phase = "refunded" -> "reversed"
                  [] OTHER -> "abandoned"]

Payload(s) ==
    [status |-> TRUE,
     data |-> Over([authorization_url |-> "https", access_code |-> s.id], Transaction(s))]

Event(s, secret) == [data |-> Transaction(s),
                     event |-> IF s.phase = "paid" THEN "charge.success" ELSE "charge." \o s.phase]

Headers(secret, body, t) == Entry("X-Paystack-Signature", Signature(secret, body))
RefundAnswer(s, done) ==
    [status |-> TRUE, data |-> [status |-> IF done THEN "processed" ELSE "pending",
                                amount |-> s.value, currency |-> s.currency]]
=============================================================================
