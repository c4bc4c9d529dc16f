------------------------- MODULE MercadopagoCheckout -------------------------
(***************************************************************************)
(* patala-fiat/src/mercadopago: preferences whose payments are searched by *)
(* the caller's reference.  Amounts travel as JSON numbers.  A webhook     *)
(* names a payment, signs that name, and the payment is fetched.           *)
(***************************************************************************)
EXTENDS FiatKit

Required == {"access_token", "webhook_secret"}
DEFAULT_CURRENCIES == {"ARS", "BRL", "CLP", "COP", "MXN", "PEN", "UYU"}

Defaults == [requires_kyc |-> TRUE, currencies |-> DEFAULT_CURRENCIES,
             settlement_days |-> 2, timeout_secs |-> 15]

from_env(env) == FromEnv(env, Required, Defaults)

new(config) ==
    IF config.access_token = Blank \/ config.webhook_secret = Blank \/ config.currencies = {}
    THEN Err("InvalidRequest")
    ELSE Rail("mercadopago", config, "CustodialReversible", TRUE, TRUE, config.currencies)

build_mercadopago(config) == Then(FromMap(config, Required, Defaults), LAMBDA c : new(c))

check_currency(rail, code) == \E c \in rail.capabilities.currencies : SameCode(c, code)

do_json(net, body) == Exchange(net, body)

classify_error == Err("Rail")

amount_minor_to_json_number(amount, code) == minor_to_major_string(amount, code)
json_number_to_amount_minor(n, code) == major_string_to_minor(n, code)

quote(rail, req) ==
    IF ~validate(req) \/ ~check_currency(rail, req.currency)
    THEN Err("InvalidRequest")
    ELSE Then(amount_minor_to_json_number(req.amount_minor, req.currency),
              LAMBDA v : Quoted(rail, req))

ChargeProof(preference_id) == [preference_id |-> preference_id, init_point |-> "https"]

charge_request(rail, req) ==
    IF ~validate(req) \/ ~check_currency(rail, req.currency)
    THEN Err("InvalidRequest")
    ELSE Then(amount_minor_to_json_number(req.amount_minor, Upper(req.currency)),
              LAMBDA v : Ok([reference |-> req.reference, value |-> v,
                             currency |-> Upper(req.currency), key |-> NoKey]))

charge(rail, req, net, created) ==
    Answered(do_json(net, created), classify_error,
        LAMBDA b : Decoded(b, {"id", "init_point"},
            LAMBDA c : IF c.init_point = Blank THEN Err("Rail")
                       ELSE Ok(Receipt(rail.id, 0, Upper(req.currency), req.reference,
                                       ChargeProof(c.id)))))

\* Only "approved", with an amount and an id.
evaluate_payment(p) ==
    IF p.external_reference = Blank THEN Err("Rail")
    ELSE Then(json_number_to_amount_minor(p.transaction_amount, p.currency_id),
              LAMBDA a : IF p.status = "approved" /\ (a = 0 \/ p.id = Blank) THEN Err("Rail")
                         ELSE Ok([reference |-> p.external_reference, event_id |-> p.id,
                                  settled |-> p.status = "approved",
                                  amount_minor |-> IF p.status = "approved" THEN a ELSE 0,
                                  currency |-> Upper(p.currency_id)]))

\* The reference is what the payments are searched by.
Named(receipt) == receipt.reference

\* verify: some payment of this reference settles it.
verify(rail, receipt, net, found) ==
    IF receipt.rail_id # rail.id \/ Named(receipt) = Blank THEN Ok(FALSE)
    ELSE Answered(do_json(net, found), classify_error,
             LAMBDA b : Decoded(b, {"results"},
                 LAMBDA r : Ok(\E i \in DOMAIN r.results :
                     LET p == r.results[i]
                         o == evaluate_payment(p)
                     IN  /\ p.external_reference = receipt.reference
                         /\ o.ok
                         /\ o.val.settled
                         /\ SameCode(o.val.currency, receipt.currency)
                         /\ o.val.amount_minor >= receipt.amount_minor)))

\* The signature covers the payment's id, the request id and a timestamp nobody checks.
verify_signature_and_extract_id(secret, body, h, request_id) ==
    IF \/ body.data_id = Blank
       \/ ~verify_hmac(secret, <<body.data_id, request_id, h.ts>>, h.v1)
       \/ body.type # "payment"
    THEN Err("InvalidRequest") ELSE Ok(body.data_id)

\* handle_webhook: the payment that was named is fetched and must be that payment.
handle_webhook(rail, body, h, request_id, net, found) ==
    Then(verify_signature_and_extract_id(rail.config.webhook_secret, body, h, request_id),
         LAMBDA data_id :
           Answered(do_json(net, found), classify_error,
               LAMBDA b : Decoded(b, {"payment"},
                   LAMBDA f : IF f.payment.id # data_id THEN Err("Rail")
                              ELSE evaluate_payment(f.payment))))

verify_webhook(rail, delivery, net, found) ==
    IF ~header(delivery, "x-signature") \/ ~header(delivery, "x-request-id")
    THEN Err("InvalidRequest")
    ELSE Then(handle_webhook(rail, delivery.raw_body, delivery.headers["x-signature"],
                             delivery.headers["x-request-id"], net, found),
              LAMBDA e : Ok(with_object_id(settlement(rail.id, e.event_id, e.reference, e.settled,
                                                      e.amount_minor, e.currency),
                                           e.event_id)))

-----------------------------------------------------------------------------
(* Mercado Pago itself, as the adapter reads it (external). *)

Phases == {"open", "pending", "paid", "failed", "refunded"}
Accepts == {"BRL", "CLP"}
Secret(rail) == rail.config.webhook_secret
Worth(value, code) == major_string_to_minor(value, code).val

Payment(s, id, status) ==
    [id |-> id, status |-> status, transaction_amount |-> JsonNumber(s.value),
     currency_id |-> s.currency, external_reference |-> s.reference]

Current(s) == Payment(s, s.id, CASE s.phase = "paid" -> "approved" [] s.phase = "pending" -> "in_process"
                                 [] s.phase = "refunded" -> "refunded" [] OTHER -> "rejected")

\* A preference, the search result with a first attempt that was rejected, and the payment.
Payload(s) ==
    [id |-> s.id, init_point |-> "https", payment |-> Current(s),
     results |-> IF s.phase = "open" THEN <<>>
                 ELSE <<Payment(s, s.id \o "try", "rejected"), Current(s)>>]

Event(s, secret) == [type |-> "payment", data_id |-> s.id]

Headers(secret, body, t) ==
    Over(Entry("x-request-id", "request"),
         Entry("x-signature", [ts |-> t, v1 |-> Signature(secret, <<body.data_id, "request", t>>)]))
=============================================================================
