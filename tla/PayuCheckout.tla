---------------------------- MODULE PayuCheckout ----------------------------
(***************************************************************************)
(* patala-fiat/src/payu: a hosted form in INR, hashed offline.  verify     *)
(* asks PayU by the caller's reference; the callback carries a hash in the *)
(* reverse order of the request's.                                         *)
(***************************************************************************)
EXTENDS FiatKit

Required == {"merchant_key", "salt"}

Defaults == [requires_kyc |-> TRUE, settlement_days |-> 2, timeout_secs |-> 15]

from_env(env) == FromEnv(env, Required, Defaults)

new(config) ==
    IF config.merchant_key = Blank \/ config.salt = Blank
    THEN Err("InvalidRequest")
    ELSE Rail("payu", config, "CustodialReversible", FALSE, TRUE, {"INR"})

build_payu(config) == Then(FromMap(config, Required, Defaults), LAMBDA c : new(c))

check_currency(rail, code) == \E c \in rail.capabilities.currencies : SameCode(c, code)

do_verify_call(net, body) == Exchange(net, body)

unexpected_status == Err("Rail")

quote(rail, req) ==
    IF ~validate(req) \/ ~check_currency(rail, req.currency)
    THEN Err("InvalidRequest")
    ELSE Then(minor_to_major_string(req.amount_minor, "INR"), LAMBDA v : Quoted(rail, req))

\* Digests that start or end with the salt; the response's covers the status too.
request_hash(salt, txnid, amount) == Signature(salt, <<txnid, amount>>)
response_hash(salt, status, txnid, amount) == Signature(salt, <<status, amount, txnid>>)

ChargeProof(fields) == [fields |-> fields, checkout_url |-> "https"]

\* charge makes no request: the payer's browser posts the hashed form.
charge_request(rail, req) ==
    IF ~validate(req) \/ ~check_currency(rail, req.currency)
    THEN Err("InvalidRequest")
    ELSE Then(minor_to_major_string(req.amount_minor, "INR"),
              LAMBDA v : Ok([reference |-> req.reference, value |-> v, currency |-> "INR",
                             key |-> NoKey]))

charge(rail, req, net, created) ==
    Then(charge_request(rail, req),
         LAMBDA form : Ok(Receipt(rail.id, 0, "INR", req.reference,
                                  ChargeProof([txnid |-> form.reference, amount |-> form.value,
                                               hash |-> request_hash(rail.config.salt, form.reference,
                                                                     form.value)]))))

is_settled_success_ci(status) == status \in {"success", "SUCCESS", "Success"}

\* The reference is what the payment is asked for by.
Named(receipt) == receipt.reference

\* verify: the entry under the reference, successful, identified, with a positive amount.
verify(rail, receipt, net, answer) ==
    IF receipt.rail_id # rail.id \/ Named(receipt) = Blank THEN Ok(FALSE)
    ELSE Answered(do_verify_call(net, answer), unexpected_status,
             LAMBDA b : Decoded(b, {"transaction_details"},
                 LAMBDA v :
                   IF Named(receipt) \notin DOMAIN v.transaction_details THEN Ok(FALSE)
                   ELSE LET d == v.transaction_details[Named(receipt)]
                            a == major_string_to_minor(d.amount, "INR")
                        IN  Ok(/\ d.txn_id \in {Blank, Named(receipt)}
                               /\ is_settled_success_ci(d.status)
                               /\ d.mihpayid # Blank
                               /\ a.ok
                               /\ a.val # 0
                               /\ SameCode(receipt.currency, "INR")
                               /\ a.val >= receipt.amount_minor)))

\* verify_and_parse: the fields, the hash over them, an id; only "success" in this case settles.
verify_and_parse(salt, body) ==
    IF \/ body.txnid = Blank
       \/ ~constant_time_eq(response_hash(salt, body.status, body.txnid, body.amount), body.hash)
       \/ body.mihpayid = Blank
    THEN Err("InvalidRequest")
    ELSE Then(major_string_to_minor(body.amount, "INR"),
              LAMBDA a : IF body.status = "success" /\ a = 0 THEN Err("InvalidRequest")
                         ELSE Ok([event_id |-> body.mihpayid, reference |-> body.txnid,
                                  settled |-> body.status = "success", amount_minor |-> a]))

verify_webhook(rail, delivery, net, answer) ==
    Then(verify_and_parse(rail.config.salt, delivery.raw_body),
         LAMBDA e : Ok(settlement(rail.id, e.event_id, e.reference, e.settled, e.amount_minor, "INR")))

-----------------------------------------------------------------------------
(* PayU itself, as the adapter reads it (external). *)

Phases == {"open", "pending", "paid", "failed"}
Accepts == {"INR"}
Secret(rail) == rail.config.salt
Worth(value, code) == major_string_to_minor(value, code).val

Status(s) == CASE s.phase = "paid" -> "success" [] s.phase = "failed" -> "failure"
               [] OTHER -> "pending"

\* A form nobody has submitted yet is not listed.
Payload(s) ==
    [transaction_details |->
        IF s.phase = "open" THEN <<>>
        ELSE Entry(s.reference, [mihpayid |-> s.id, status |-> Status(s), txn_id |-> s.reference,
                                 amount |-> s.value])]

Event(s, secret) ==
    [txnid |-> s.reference, amount |-> s.value, status |-> Status(s), mihpayid |-> s.id,
     hash |-> response_hash(secret, Status(s), s.reference, s.value)]

Headers(secret, body, t) == <<>>
=============================================================================
