--------------------------- MODULE PayfastCheckout ---------------------------
(***************************************************************************)
(* patala-fiat/src/payfast: a form the payer submits, signed offline.      *)
(* PayFast cannot be polled: the only confirmation is its notification,    *)
(* whose signature proves nothing when no passphrase is configured, so it  *)
(* is posted back and must be answered VALID.                              *)
(***************************************************************************)
EXTENDS FiatKit

Required == {"merchant_id", "merchant_key"}

Defaults == [passphrase |-> Blank, requires_kyc |-> TRUE, settlement_days |-> 2,
             timeout_secs |-> 15]

from_env(env) == FromEnv(env, Required, Defaults)

new(config) ==
    IF config.merchant_id = Blank \/ config.merchant_key = Blank
    THEN Err("InvalidRequest")
    ELSE Rail("payfast", config, "CustodialReversible", TRUE, TRUE, {"ZAR"})

build_payfast(config) == Then(FromMap(config, Required, Defaults), LAMBDA c : new(c))

quote(rail, req) ==
    IF ~validate(req) \/ ~SameCode(req.currency, "ZAR")
    THEN Err("InvalidRequest")
    ELSE Then(minor_to_major_string(req.amount_minor, "ZAR"),
              LAMBDA v : Quoted(rail, [req EXCEPT !.currency = "ZAR"]))

\* An unkeyed digest of the fields, with the passphrase as one more field if there is one.
compute_signature(fields, passphrase) == Signature(passphrase, fields)

\* The signature of a notification covers every field of it but the signature.
Fields(body) == [k \in DOMAIN body \ {"signature"} |-> body[k]]
verify_signature(body, given, passphrase) == compute_signature(Fields(body), passphrase) = given

ChargeProof(fields, signature) == [process_url |-> "https", signed_fields_query |-> <<fields, signature>>]

\* charge makes no request: the payer's browser takes the signed form to PayFast.
charge_request(rail, req) ==
    IF ~validate(req) \/ ~SameCode(req.currency, "ZAR")
    THEN Err("InvalidRequest")
    ELSE Then(minor_to_major_string(req.amount_minor, "ZAR"),
              LAMBDA v : Ok([reference |-> req.reference, value |-> v, currency |-> "ZAR",
                             key |-> NoKey]))

charge(rail, req, net, created) ==
    Then(charge_request(rail, req),
         LAMBDA form : Ok(Receipt(rail.id, 0, "ZAR", req.reference,
                                  ChargeProof(form, compute_signature(form, rail.config.passphrase)))))

\* Nothing verify could ask by.
Named(receipt) == Blank
verify(rail, receipt, net, answer) == Unsupported

\* COMPLETE with a positive amount; every notification carries PayFast's own payment id.
evaluate_notification(n) ==
    IF n.m_payment_id = Blank \/ n.pf_payment_id = Blank THEN Err("Rail")
    ELSE Then(major_string_to_minor(n.amount_gross, "ZAR"),
              LAMBDA a : IF n.payment_status = "COMPLETE" /\ a = 0 THEN Err("Rail")
                         ELSE Ok([reference |-> n.m_payment_id, event_id |-> n.pf_payment_id,
                                  settled |-> n.payment_status = "COMPLETE",
                                  amount_minor |-> IF n.payment_status = "COMPLETE" THEN a ELSE 0]))

\* parse_query_map, signature, outcome.
verify_and_parse(passphrase, body) ==
    IF \/ "signature" \notin DOMAIN body
       \/ ~verify_signature(body, body.signature, passphrase)
    THEN Err("Rail") ELSE evaluate_notification(body)

\* The notification goes back as it came, and the literal VALID must come back.
confirm_with_payfast(net, body, answer) ==
    Answered(Exchange(net, [text |-> IF Fields(body) \in answer.sent THEN "VALID" ELSE "INVALID"]),
             Err("Rail"),
             LAMBDA b : IF Decodes(b, {"text"}) /\ b.text = "VALID" THEN Ok(TRUE) ELSE Err("Rail"))

handle_itn(rail, body, net, answer) ==
    Then(verify_and_parse(rail.config.passphrase, body),
         LAMBDA e : Then(confirm_with_payfast(net, body, answer), LAMBDA valid : Ok(e)))

verify_webhook(rail, delivery, net, answer) ==
    Then(handle_itn(rail, delivery.raw_body, net, answer),
         LAMBDA e : Ok(settlement(rail.id, e.event_id, e.reference, e.settled, e.amount_minor, "ZAR")))

-----------------------------------------------------------------------------
(* PayFast itself, as the adapter reads it (external). *)

Phases == {"open", "pending", "paid", "failed"}
Accepts == {"ZAR"}
Secret(rail) == rail.config.passphrase
Worth(value, code) == major_string_to_minor(value, code).val

Notification(s) ==
    [m_payment_id |-> s.reference, pf_payment_id |-> s.id, amount_gross |-> s.value,
     payment_status |-> CASE s.phase = "paid" -> "COMPLETE" [] s.phase = "failed" -> "CANCELLED"
                          [] OTHER -> "PENDING"]

\* It says VALID to the notifications it did send.
Payload(s) == [sent |-> {Notification([s EXCEPT !.phase = phase]) : phase \in s.past}]

Event(s, secret) ==
    Over([signature |-> compute_signature(Notification(s), secret)], Notification(s))

Headers(secret, body, t) == <<>>
=============================================================================
