---------------------------- MODULE AdyenCheckout ----------------------------
(***************************************************************************)
(* patala-fiat/src/adyen: Pay by Link.  A link cannot be looked up, so     *)
(* verify is Unsupported: the AUTHORISATION webhook is the only word on    *)
(* settlement, and it is also where the caller learns the pspReference a   *)
(* refund needs.  A refund is only received, so its receipt claims 0.      *)
(***************************************************************************)
EXTENDS FiatKit

Required == {"api_key", "merchant_account", "hmac_key_hex", "api_base_url"}

Defaults == [requires_kyc |-> TRUE, currencies |-> {}, settlement_days |-> 2,
             timeout_secs |-> 15]

from_env(env) == FromEnv(env, Required, Defaults)

\* AdyenRail::new also decodes the HMAC key, which must be hex.
new(config) ==
    IF \E v \in Required : config[v] = Blank
    THEN Err("InvalidRequest")
    ELSE Rail("adyen", config, "CustodialReversible", TRUE, TRUE, config.currencies)

build_adyen(config) == Then(FromMap(config, Required, Defaults), LAMBDA c : new(c))

check_currency(rail, code) == Supports(rail.capabilities.currencies, code)

do_json(net, body) == Exchange(net, body)

classify_error == Err("Rail")

ADYEN_NON_ISO_STANDARD == {"CLP", "CVE", "IDR", "ISK"}

adyen_amount(amount_minor, code) ==
    IF Upper(code) \in ADYEN_NON_ISO_STANDARD THEN Err("InvalidRequest") ELSE Ok(amount_minor)

quote(rail, req) ==
    IF ~validate(req) \/ ~check_currency(rail, req.currency)
    THEN Err("InvalidRequest")
    ELSE Then(adyen_amount(req.amount_minor, req.currency), LAMBDA v : Quoted(rail, req))

\* psp_reference is None (Blank) until a webhook has named it.
ChargeProof(link_id, psp_reference) == [payment_link_id |-> link_id, psp_reference |-> psp_reference]
RefundProof(psp_reference, status) ==
    [refund_psp_reference |-> psp_reference, status_at_refund |-> status]

charge_request(rail, req) ==
    IF ~validate(req) \/ ~check_currency(rail, req.currency)
    THEN Err("InvalidRequest")
    ELSE Then(adyen_amount(req.amount_minor, req.currency),
              LAMBDA v : Ok([reference |-> req.reference, value |-> v,
                             currency |-> Upper(req.currency), key |-> NoKey]))

charge(rail, req, net, created) ==
    Answered(do_json(net, created), classify_error,
        LAMBDA b : Decoded(b, {"id", "url"},
            LAMBDA l : IF l.id = Blank \/ l.url = Blank THEN Err("Rail")
                       ELSE Ok(Receipt(rail.id, 0, Upper(req.currency), req.reference,
                                       ChargeProof(l.id, Blank)))))

IsChargeProof(proof) == Decodes(proof, {"payment_link_id", "psp_reference"})
Named(receipt) == receipt.proof.psp_reference

verify(rail, receipt, net, link) == Unsupported

\* refund, up to the POST: the receipt's amount, against the pspReference of the payment.
refund_lookup(rail, receipt, net, link) ==
    CASE receipt.rail_id # rail.id \/ ~IsChargeProof(receipt.proof) -> Err("InvalidRequest")
      [] Named(receipt) = Blank -> Err("Rail")
      [] OTHER -> Then(adyen_amount(receipt.amount_minor, receipt.currency),
                       LAMBDA v : Ok([target |-> Named(receipt), full |-> FALSE, value |-> v,
                                      key |-> NoKey]))

\* refund, from the answer: received is not refunded.
refund(rail, receipt, net, refunded) ==
    Answered(do_json(net, refunded), classify_error,
        LAMBDA b : Decoded(b, {"psp_reference"},
            LAMBDA f : Ok(Receipt(rail.id, 0, Upper(receipt.currency), receipt.reference,
                                  RefundProof(f.psp_reference, f.status)))))

\* Each item carries its own signature, over the fields it is signed for.
verify_item_hmac(item, key) == verify_hmac(key, item.signed, item.hmac_signature)

\* What one notification item comes to: skipped, or the outcome of an authorisation.
Usable(item, key) ==
    /\ verify_item_hmac(item, key)
    /\ item.event_code = "AUTHORISATION"
    /\ item.merchant_reference # Blank
    /\ item.psp_reference # Blank
    /\ ~(item.success = "true" /\ item.value = 0)

FirstUsable(items, key) ==
    CHOOSE i \in DOMAIN items : /\ Usable(items[i], key)
                               /\ \A j \in 1..(i - 1) : ~Usable(items[j], key)

\* The first usable item of the notification decides; without one it is an error.
verify_and_parse(key, items) ==
    IF ~\E i \in DOMAIN items : Usable(items[i], key) THEN Err("InvalidRequest")
    ELSE LET item == items[FirstUsable(items, key)]
         IN  Ok([event_id |-> item.psp_reference, reference |-> item.merchant_reference,
                 settled |-> item.success = "true", currency |-> Upper(item.currency),
                 amount_minor |-> IF item.success = "true" THEN item.value ELSE 0])

verify_webhook(rail, delivery, net, link) ==
    Then(verify_and_parse(rail.config.hmac_key_hex, delivery.raw_body.notification_items),
         LAMBDA e : Ok(with_object_id(settlement(rail.id, e.event_id, e.reference, e.settled,
                                                 e.amount_minor, e.currency), e.event_id)))

-----------------------------------------------------------------------------
(* Adyen itself, as the adapter reads it (external). *)

Phases == {"open", "pending", "paid", "failed", "refunded"}
Accepts == {"USD", "JPY", "KWD"}
Secret(rail) == rail.config.hmac_key_hex
Worth(value, code) == value
Payload(s) == [id |-> s.id, url |-> "https"]

\* One item, signed under `secret`.
Item(s, secret) ==
    LET fields == [psp_reference |-> s.id, merchant_reference |-> s.reference, value |-> s.value,
                   currency |-> s.currency, success |-> IF s.phase = "paid" THEN "true" ELSE "false",
                   event_code |-> CASE s.phase = "refunded" -> "REFUND"
                                    [] s.phase \in {"paid", "failed"} -> "AUTHORISATION"
                                    [] OTHER -> "PENDING"]
    IN  Over([signed |-> fields, hmac_signature |-> Signature(secret, fields)], fields)

\* A notification batches a report of another kind with the one about this phase.
Event(s, secret) ==
    [notification_items |-> <<Item([s EXCEPT !.phase = "pending"], secret), Item(s, secret)>>]

Headers(secret, body, t) == <<>>

RefundAnswer(s, done) == [psp_reference |-> "re", status |-> "received"]
=============================================================================
