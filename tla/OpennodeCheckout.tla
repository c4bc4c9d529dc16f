-------------------------- MODULE OpennodeCheckout --------------------------
(***************************************************************************)
(* patala-fiat/src/opennode: charges.  Amounts travel as JSON numbers or   *)
(* strings; the webhook is a form whose hashed_order signs the charge id   *)
(* and nothing else, so it only names the charge.                          *)
(***************************************************************************)
EXTENDS FiatKit

Required == {"api_key"}

Defaults == [requires_kyc |-> FALSE, currencies |-> {}, base_url |-> "live",
             timeout_secs |-> 20]

from_env(env) == FromEnv(env, Required, Defaults)

new(config) ==
    IF config.api_key = Blank
    THEN Err("InvalidRequest")
    ELSE Rail("opennode", config, "CustodialReversible", FALSE, TRUE, config.currencies)

build_opennode(config) == Then(FromMap(config, Required, Defaults), LAMBDA c : new(c))

check_currency(rail, code) == Supports(rail.capabilities.currencies, code)

do_json(net, body) == Exchange(net, body)

classify_error == Err("Rail")

\* quote: the currency is not checked against the ones charge can convert.
quote(rail, req) ==
    IF ~validate(req) \/ ~check_currency(rail, req.currency)
    THEN Err("InvalidRequest") ELSE Quoted(rail, req)

ChargeProof(charge_id) == [charge_id |-> charge_id, hosted_checkout_url |-> "https"]

\* charge, up to the POST: the decimal string goes out as a floating-point number.
charge_request(rail, req) ==
    IF ~validate(req) \/ ~check_currency(rail, req.currency)
    THEN Err("InvalidRequest")
    ELSE Then(minor_to_major_string(req.amount_minor, req.currency),
              LAMBDA v : Ok([reference |-> req.reference, value |-> JsonNumber(v),
                             currency |-> Upper(req.currency), key |-> NoKey]))

charge(rail, req, net, created) ==
    Answered(do_json(net, created), classify_error,
        LAMBDA b : Decoded(b, {"id", "hosted_checkout_url"},
            LAMBDA c : IF c.id = Blank \/ c.hosted_checkout_url = Blank THEN Err("Rail")
                       ELSE Ok(Receipt(rail.id, 0, Upper(req.currency), req.reference,
                                       ChargeProof(c.id)))))

\* A number or a string is read as its text; anything else is malformed.
flexible_json_amount_to_string(raw) ==
    IF DOMAIN raw = DOMAIN Major(0, 0, 0) THEN Ok(raw) ELSE Err("Rail")

classify_charge_state(status) ==
    CASE status = "paid" -> "Paid"
      [] status \in {"unpaid", "processing"} -> "Pending"
      [] OTHER -> "Failed"

IsChargeProof(proof) == Decodes(proof, {"charge_id", "hosted_checkout_url"})
Named(receipt) == receipt.proof.charge_id

fetch_charge(charge_id, net, charge_object) ==
    IF charge_id = Blank THEN Err("InvalidRequest")
    ELSE Answered(do_json(net, charge_object), classify_error,
             LAMBDA b : Decoded(b, {"id", "status"},
                 LAMBDA c : IF c.id = Blank THEN Err("Rail") ELSE Ok(c)))

\* verify: the amount must convert whatever the state.
verify(rail, receipt, net, charge_object) ==
    IF receipt.rail_id # rail.id \/ ~IsChargeProof(receipt.proof) THEN Ok(FALSE)
    ELSE Then(fetch_charge(Named(receipt), net, charge_object),
         LAMBDA c : Then(flexible_json_amount_to_string(c.amount),
         LAMBDA text : Then(major_string_to_minor(text, c.currency),
         LAMBDA a : Ok(/\ classify_charge_state(c.status) = "Paid"
                       /\ SameCode(c.currency, receipt.currency)
                       /\ a >= receipt.amount_minor))))

\* parse_form_body and verify_and_extract: the id is required, and signed; it is also the
\* event's.
verify_and_extract(api_key, form) ==
    IF form.id = Blank \/ ~verify_hmac(api_key, form.id, form.hashed_order)
    THEN Err("InvalidRequest") ELSE Ok(form.id)

verify_webhook(rail, delivery, net, charge_object) ==
    Then(verify_and_extract(rail.config.api_key, delivery.raw_body),
         LAMBDA id : Ok(unconfirmed(rail.id, id, id)))

-----------------------------------------------------------------------------
(* OpenNode itself, as the adapter reads it (external). *)

Phases == {"open", "pending", "under", "paid", "failed"}
Accepts == {"USD", "JPY"}
Secret(rail) == rail.config.api_key
Worth(value, code) == major_string_to_minor(value, code).val

Payload(s) ==
    [id |-> s.id, hosted_checkout_url |-> "https", amount |-> s.value, currency |-> s.currency,
     status |-> CASE s.phase = "paid" -> "paid" [] s.phase = "pending" -> "processing"
                  [] s.phase = "under" -> "underpaid" [] s.phase = "failed" -> "expired"
                  [] OTHER -> "unpaid"]

Event(s, secret) == [id |-> s.id, hashed_order |-> Signature(secret, s.id)]
Headers(secret, body, t) == <<>>
=============================================================================
