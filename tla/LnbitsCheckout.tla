--------------------------- MODULE LnbitsCheckout ---------------------------
(***************************************************************************)
(* patala-fiat/src/lnbits: Lightning invoices of the organiser's own node. *)
(* The node never tells an invoice's price again, so the proof carries it; *)
(* a paid invoice counts even after its quote has expired.  The webhook's  *)
(* secret is a query parameter.                                            *)
(***************************************************************************)
EXTENDS FiatKit

Required == {"base_url", "api_key", "webhook_secret"}

Defaults == [requires_kyc |-> FALSE, currencies |-> {}, webhook_url |-> Blank,
             quote_ttl_secs |-> 1, timeout_secs |-> 20]

\* The quote's time to live must be a positive number where it is set.
from_env(env) == FromEnv(env, Required, Defaults)

new(config) ==
    IF (\E v \in Required : config[v] = Blank) \/ config.quote_ttl_secs = 0
    THEN Err("InvalidRequest")
    ELSE Rail("lnbits", config, "NonCustodialFinal", FALSE, FALSE, config.currencies)

build_lnbits(config) == Then(FromMap(config, Required, Defaults), LAMBDA c : new(c))

check_currency(rail, code) == Supports(rail.capabilities.currencies, code)

do_json(net, body) == Exchange(net, body)

classify_error == Err("Rail")

\* quote: the currency is not checked against the ones charge can convert.
quote(rail, req) ==
    IF ~validate(req) \/ ~check_currency(rail, req.currency)
    THEN Err("InvalidRequest") ELSE Quoted(rail, req)

ChargeProof(payment_hash, amount_minor, currency) ==
    [payment_hash |-> payment_hash, amount_minor |-> amount_minor, currency |-> currency]

\* charge, up to the POST: the decimal string goes out as a floating-point number.
charge_request(rail, req) ==
    IF ~validate(req) \/ ~check_currency(rail, req.currency)
    THEN Err("InvalidRequest")
    ELSE Then(minor_to_major_string(req.amount_minor, req.currency),
              LAMBDA v : Ok([reference |-> req.reference, value |-> JsonNumber(v),
                             currency |-> Lowered(Upper(req.currency)), key |-> NoKey]))

charge(rail, req, net, created) ==
    Answered(do_json(net, created), classify_error,
        LAMBDA b : Decoded(b, {"payment_hash", "payment_request"},
            LAMBDA p : IF p.payment_hash = Blank \/ p.payment_request = Blank THEN Err("Rail")
                       ELSE Ok(Receipt(rail.id, 0, Upper(req.currency), req.reference,
                                       ChargeProof(p.payment_hash, req.amount_minor,
                                                   Upper(req.currency))))))

IsChargeProof(proof) == Decodes(proof, {"payment_hash", "amount_minor", "currency"})
Named(receipt) == receipt.proof.payment_hash

\* Expiry is computed and ignored: only `paid` decides.
verify_paid_wins_over_expiry_even_though_test_name_says_otherwise(paid) == paid

\* verify: amount and currency against the proof, then what the node says of the hash.
verify(rail, receipt, net, payment) ==
    CASE \/ receipt.rail_id # rail.id
         \/ ~IsChargeProof(receipt.proof)
         \/ ~SameCode(receipt.proof.currency, receipt.currency)
         \/ receipt.proof.amount_minor < receipt.amount_minor -> Ok(FALSE)
      [] Named(receipt) = Blank -> Err("InvalidRequest")
      [] OTHER -> Answered(do_json(net, payment), classify_error,
             LAMBDA b : Decoded(b, {"paid"},
                 LAMBDA p : Ok(verify_paid_wins_over_expiry_even_though_test_name_says_otherwise(p.paid))))

\* verify_and_extract: the static secret, then the payment hash, which is also the event id.
verify_and_extract(expected_secret, given_secret, body) ==
    IF \/ given_secret = Blank
       \/ ~constant_time_eq(given_secret, expected_secret)
       \/ body.payment_hash = Blank
    THEN Err("InvalidRequest")
    ELSE Ok(body.payment_hash)

verify_webhook(rail, delivery, net, payment) ==
    Then(verify_and_extract(rail.config.webhook_secret, query_param(delivery, "secret"),
                            delivery.raw_body),
         LAMBDA hash : Ok(unconfirmed(rail.id, hash, hash)))

-----------------------------------------------------------------------------
(* LNbits itself, as the adapter reads it (external). *)

Phases == {"open", "paid", "failed"}
Accepts == {"USD", "JPY", "KWD"}
Secret(rail) == rail.config.webhook_secret
Worth(value, code) == major_string_to_minor(value, code).val

Payload(s) == [payment_hash |-> s.id, payment_request |-> "lnbc", paid |-> s.phase = "paid"]
Event(s, secret) == [payment_hash |-> s.id]
Headers(secret, body, t) == Entry("secret", secret)
=============================================================================
