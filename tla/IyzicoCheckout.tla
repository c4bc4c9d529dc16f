--------------------------- MODULE IyzicoCheckout ---------------------------
(***************************************************************************)
(* patala-fiat/src/iyzico: checkout forms named by a token.  The callback  *)
(* is not signed: only its token is read, and the form is fetched again.   *)
(* The event it comes to names the token and no reference.                 *)
(***************************************************************************)
EXTENDS FiatKit

Required == {"api_key", "secret_key"}
DEFAULT_CURRENCIES == {"TRY", "USD", "EUR", "GBP"}

Defaults == [requires_kyc |-> TRUE, currencies |-> DEFAULT_CURRENCIES, base_url |-> "live",
             settlement_days |-> 2, timeout_secs |-> 15]

from_env(env) == FromEnv(env, Required, Defaults)

new(config) ==
    IF config.api_key = Blank \/ config.secret_key = Blank \/ config.currencies = {}
    THEN Err("InvalidRequest")
    ELSE Rail("iyzico", config, "CustodialReversible", TRUE, TRUE, config.currencies)

build_iyzico(config) == Then(FromMap(config, Required, Defaults), LAMBDA c : new(c))

check_currency(rail, code) == \E c \in rail.capabilities.currencies : SameCode(c, code)

\* do_post, with auth_headers under a fresh random key.
do_post(net, body) == Exchange(net, body)

classify_error == Err("Rail")

quote(rail, req) ==
    IF ~validate(req) \/ ~check_currency(rail, req.currency)
    THEN Err("InvalidRequest")
    ELSE Then(minor_to_major_string(req.amount_minor, req.currency), LAMBDA v : Quoted(rail, req))

ChargeProof(token) == [token |-> token]

charge_request(rail, req) ==
    IF ~validate(req) \/ ~check_currency(rail, req.currency)
    THEN Err("InvalidRequest")
    ELSE Then(minor_to_major_string(req.amount_minor, req.currency),
              LAMBDA v : Ok([reference |-> req.reference, value |-> v,
                             currency |-> Upper(req.currency), key |-> NoKey]))

charge(rail, req, net, created) ==
    Answered(do_post(net, created), classify_error,
        LAMBDA b : Decoded(b, {"status"},
            LAMBDA c : IF c.status # "success" \/ c.token = Blank \/ c.payment_page_url = Blank
                       THEN Err("Rail")
                       ELSE Ok(Receipt(rail.id, 0, Upper(req.currency), req.reference,
                                       ChargeProof(c.token)))))

\* Only SUCCESS, with a positive amount and a payment id; the price must convert anyway.
evaluate_checkout_form(res) ==
    IF res.status # "success" THEN Err("Rail")
    ELSE Then(major_string_to_minor(res.paid_price, res.currency),
              LAMBDA a : CASE res.payment_status # "SUCCESS" ->
                                 Ok([event_id |-> res.payment_id, settled |-> FALSE,
                                     amount_minor |-> 0, currency |-> Upper(res.currency)])
                           [] a = 0 \/ res.payment_id = Blank -> Err("Rail")
                           [] OTHER -> Ok([event_id |-> res.payment_id, settled |-> TRUE,
                                           amount_minor |-> a, currency |-> Upper(res.currency)]))

IsChargeProof(proof) == Decodes(proof, {"token"})

\* safe_reference: the token is what the form is asked for by.
Named(receipt) == receipt.proof.token

retrieve_checkout_form(net, form) ==
    Answered(do_post(net, form), classify_error, LAMBDA b : Decoded(b, {"status"}, LAMBDA f : Ok(f)))

\* A form that was retrieved and says something else than success is None.
retrieve_and_evaluate(net, form) ==
    Then(retrieve_checkout_form(net, form), LAMBDA f : Ok(evaluate_checkout_form(f)))

verify(rail, receipt, net, form) ==
    IF receipt.rail_id # rail.id \/ ~IsChargeProof(receipt.proof) \/ Named(receipt) = Blank
    THEN Ok(FALSE)
    ELSE Then(retrieve_and_evaluate(net, form),
              LAMBDA o : Ok(/\ o.ok
                            /\ o.val.settled
                            /\ SameCode(o.val.currency, receipt.currency)
                            /\ o.val.amount_minor >= receipt.amount_minor))

\* extract_token: from JSON if the content type says so, else from the form fields.
extract_token(content_type, body) ==
    CASE content_type = "application/json" /\ body.encoding = "json" /\ body.token # Blank ->
            Ok(body.token)
      [] content_type # "application/json" /\ body.encoding = "form" -> Ok(body.token)
      [] OTHER -> Err("Rail")

handle_webhook(content_type, body, net, form) ==
    Then(extract_token(content_type, body),
         LAMBDA token : Then(retrieve_checkout_form(net, form),
             LAMBDA f : Then(evaluate_checkout_form(f),
                             LAMBDA o : Ok([token |-> token, outcome |-> o]))))

verify_webhook(rail, delivery, net, form) ==
    Then(handle_webhook(IF header(delivery, "Content-Type") THEN delivery.headers["Content-Type"]
                        ELSE Blank, delivery.raw_body, net, form),
         LAMBDA e : Ok(with_object_id(settlement(rail.id, e.token, Blank, e.outcome.settled,
                                                 e.outcome.amount_minor, e.outcome.currency),
                                      e.token)))

-----------------------------------------------------------------------------
(* iyzico itself, as the adapter reads it (external). *)

Phases == {"open", "pending", "paid", "failed"}
Accepts == {"USD"}
Secret(rail) == Blank
Worth(value, code) == major_string_to_minor(value, code).val

Payload(s) ==
    [status |-> "success", token |-> s.id, payment_page_url |-> "https", paid_price |-> s.value,
     currency |-> s.currency, payment_id |-> IF s.phase = "open" THEN Blank ELSE s.id,
     payment_status |-> CASE s.phase = "paid" -> "SUCCESS" [] s.phase = "failed" -> "FAILURE"
                          [] OTHER -> "INIT_THREEDS"]

\* The callback is a form post; an integration may also relay it as JSON.
Event(s, secret) == [token |-> s.id, encoding |-> IF s.phase = "paid" THEN "json" ELSE "form"]
Headers(secret, body, t) ==
    Entry("Content-Type", IF body.encoding = "json" THEN "application/json"
                          ELSE "application/x-www-form-urlencoded")
=============================================================================
