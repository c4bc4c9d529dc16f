---------------------------- MODULE YocoCheckout ----------------------------
(***************************************************************************)
(* patala-fiat/src/yoco: checkouts in ZAR.  Webhooks follow the Svix       *)
(* scheme (id, timestamp, body) under a key the adapter decodes itself;    *)
(* they name the checkout, never the caller's reference.                   *)
(***************************************************************************)
EXTENDS FiatKit

Required == {"secret_key", "webhook_secret"}

Defaults == [requires_kyc |-> TRUE, settlement_days |-> 2, timeout_secs |-> 15]

from_env(env) == FromEnv(env, Required, Defaults)

\* A secret that is nothing but its prefix decodes to no key at all.
decode_webhook_secret(whsec) == IF whsec = "whsec_" THEN Err("InvalidRequest") ELSE Ok(whsec)

new(config) ==
    IF config.secret_key = Blank \/ config.webhook_secret = Blank
    THEN Err("InvalidRequest")
    ELSE Then(decode_webhook_secret(config.webhook_secret),
              LAMBDA key : Rail("yoco", [config EXCEPT !.webhook_secret = key],
                                "CustodialReversible", TRUE, TRUE, {"ZAR"}))

build_yoco(config) == Then(FromMap(config, Required, Defaults), LAMBDA c : new(c))

do_json(net, body) == Exchange(net, body)

classify_error == Err("Rail")

quote(rail, req) ==
    IF ~validate(req) \/ ~SameCode(req.currency, "ZAR")
    THEN Err("InvalidRequest") ELSE Quoted(rail, [req EXCEPT !.currency = "ZAR"])

ChargeProof(checkout_id) == [checkout_id |-> checkout_id, redirect_url |-> "https"]

charge_request(rail, req) ==
    IF ~validate(req) \/ ~SameCode(req.currency, "ZAR")
    THEN Err("InvalidRequest")
    ELSE Ok([reference |-> req.reference, value |-> req.amount_minor, currency |-> "ZAR",
             key |-> NoKey])

charge(rail, req, net, created) ==
    Answered(do_json(net, created), classify_error,
        LAMBDA b : Decoded(b, {"id", "redirect_url"},
            LAMBDA c : IF c.id = Blank \/ c.redirect_url = Blank THEN Err("Rail")
                       ELSE Ok(Receipt(rail.id, 0, "ZAR", req.reference, ChargeProof(c.id)))))

\* completed or succeeded, in any case, with an amount.
evaluate_checkout(c) ==
    LET settled == c.status \in {"completed", "succeeded"}
    IN  IF c.id = Blank \/ (settled /\ c.amount = 0) THEN Err("Rail")
        ELSE Ok([event_id |-> c.id, settled |-> settled, currency |-> c.currency,
                 amount_minor |-> IF settled THEN c.amount ELSE 0])

IsChargeProof(proof) == Decodes(proof, {"checkout_id"})
Named(receipt) == receipt.proof.checkout_id

verify(rail, receipt, net, checkout) ==
    IF receipt.rail_id # rail.id \/ ~IsChargeProof(receipt.proof) \/ Named(receipt) = Blank
    THEN Ok(FALSE)
    ELSE Answered(do_json(net, checkout), classify_error,
             LAMBDA b : Decoded(b, {"id", "status"},
                 LAMBDA c : LET o == evaluate_checkout(c)
                            IN  Ok(/\ c.id \in {Blank, Named(receipt)}
                                   /\ o.ok
                                   /\ o.val.settled
                                   /\ SameCode(o.val.currency, receipt.currency)
                                   /\ o.val.amount_minor >= receipt.amount_minor)))

SIGNATURE_TOLERANCE_SECS == 1 \* five minutes, as the unit of a delivery's age

Age(now, t) == IF now >= t THEN now - t ELSE t - now

\* Age first, then the signature over id, timestamp and body, then the type of event.
verify_and_parse(key, body, id, t, signature, now) ==
    IF \/ id = Blank
       \/ Age(now, t) > SIGNATURE_TOLERANCE_SECS
       \/ signature # Signature(key, <<id, t, body>>)
       \/ body.type # "payment.succeeded"
    THEN Err("InvalidRequest")
    ELSE Then(evaluate_checkout(body.payload),
              LAMBDA o : Ok(Over([checkout_id |-> body.payload.id], o)))

verify_webhook(rail, delivery, net, checkout) ==
    IF \E h \in {"webhook-id", "webhook-timestamp", "webhook-signature"} : ~header(delivery, h)
    THEN Err("InvalidRequest")
    ELSE Then(verify_and_parse(rail.config.webhook_secret, delivery.raw_body,
                               delivery.headers["webhook-id"], delivery.headers["webhook-timestamp"],
                               delivery.headers["webhook-signature"], delivery.now_unix),
              LAMBDA e : Ok(with_object_id(settlement(rail.id, e.event_id, Blank, e.settled,
                                                      e.amount_minor, e.currency),
                                           e.checkout_id)))

-----------------------------------------------------------------------------
(* Yoco itself, as the adapter reads it (external). *)

Phases == {"open", "pending", "paid", "failed"}
Accepts == {"ZAR"}
Secret(rail) == rail.config.webhook_secret
Worth(value, code) == value

Payload(s) ==
    [id |-> s.id, redirect_url |-> "https", amount |-> s.value, currency |-> s.currency,
     status |-> CASE s.phase = "paid" -> "completed" [] s.phase = "failed" -> "cancelled"
                  [] OTHER -> "created"]

Event(s, secret) ==
    [type |-> IF s.phase = "paid" THEN "payment.succeeded" ELSE "payment." \o s.phase,
     payload |-> Payload(s)]

Headers(secret, body, t) ==
    Over(Entry("webhook-id", "msg"),
         Over(Entry("webhook-timestamp", t),
              Entry("webhook-signature", Signature(secret, <<"msg", t, body>>))))
=============================================================================
