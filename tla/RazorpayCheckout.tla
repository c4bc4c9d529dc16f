-------------------------- MODULE RazorpayCheckout --------------------------
(***************************************************************************)
(* patala-fiat/src/razorpay: orders, each with the payments attempted on   *)
(* it.  verify looks for a captured payment of the order; a webhook's      *)
(* reference is Razorpay's order id, not the caller's reference.           *)
(***************************************************************************)
EXTENDS FiatKit

Required == {"key_id", "key_secret", "webhook_secret"}

Defaults == [requires_kyc |-> TRUE, settlement_days |-> 2, timeout_secs |-> 15]

from_env(env) == FromEnv(env, Required, Defaults)

new(config) ==
    IF \E v \in Required : config[v] = Blank
    THEN Err("InvalidRequest")
    ELSE Rail("razorpay", config, "CustodialReversible", FALSE, TRUE, {"INR"})

build_razorpay(config) == Then(FromMap(config, Required, Defaults), LAMBDA c : new(c))

check_currency(rail, code) == \E c \in rail.capabilities.currencies : SameCode(c, code)

do_json(net, body) == Exchange(net, body)

classify_error == Err("Rail")

quote(rail, req) ==
    IF ~validate(req) \/ ~check_currency(rail, req.currency)
    THEN Err("InvalidRequest") ELSE Quoted(rail, req)

ChargeProof(order_id) == [order_id |-> order_id]

charge_request(rail, req) ==
    IF ~validate(req) \/ ~check_currency(rail, req.currency)
    THEN Err("InvalidRequest")
    ELSE Ok([reference |-> req.reference, value |-> req.amount_minor,
             currency |-> Upper(req.currency), key |-> NoKey])

charge(rail, req, net, created) ==
    Answered(do_json(net, created), classify_error,
        LAMBDA b : Decoded(b, {"id"},
            LAMBDA o : IF o.id = Blank THEN Err("Rail")
                       ELSE Ok(Receipt(rail.id, 0, Upper(req.currency), req.reference,
                                       ChargeProof(o.id)))))

\* Only "captured", with an amount; a payment without an id cannot be told from a repeat.
evaluate_payment(p) ==
    CASE p.order_id = Blank \/ p.id = Blank -> Err("Rail")
      [] p.status = "captured" /\ p.amount = 0 -> Err("Rail")
      [] OTHER -> Ok([order_id |-> p.order_id, event_id |-> p.id,
                      settled |-> p.status = "captured",
                      amount_minor |-> IF p.status = "captured" THEN p.amount ELSE 0,
                      currency |-> Upper(p.currency)])

IsChargeProof(proof) == Decodes(proof, {"order_id"})
Named(receipt) == receipt.proof.order_id

\* verify: the first captured payment of this order, whatever failed before it.
verify(rail, receipt, net, order) ==
    IF receipt.rail_id # rail.id \/ ~IsChargeProof(receipt.proof) \/ Named(receipt) = Blank
    THEN Ok(FALSE)
    ELSE Answered(do_json(net, order), classify_error,
             LAMBDA b : Decoded(b, {"items"},
                 LAMBDA l : LET Captured(i) == /\ l.items[i].order_id = Named(receipt)
                                               /\ l.items[i].status = "captured"
                            IN  Ok(\E i \in DOMAIN l.items :
                                     LET o == evaluate_payment(l.items[i])
                                     IN  /\ Captured(i)
                                         /\ \A j \in 1..(i - 1) : ~Captured(j)
                                         /\ o.ok
                                         /\ o.val.settled
                                         /\ SameCode(o.val.currency, receipt.currency)
                                         /\ o.val.amount_minor >= receipt.amount_minor)))

\* payment.captured and nothing else; the reference it reports is the order's id.
verify_and_parse(secret, body, signature) ==
    IF ~verify_hmac(secret, body, signature) \/ body.event # "payment.captured"
    THEN Err("InvalidRequest")
    ELSE Then(evaluate_payment(body.payment),
              LAMBDA o : Ok([event_id |-> o.event_id, reference |-> o.order_id,
                             settled |-> o.settled, amount_minor |-> o.amount_minor,
                             currency |-> o.currency]))

verify_webhook(rail, delivery, net, order) ==
    IF ~header(delivery, "X-Razorpay-Signature") THEN Err("InvalidRequest")
    ELSE Then(verify_and_parse(rail.config.webhook_secret, delivery.raw_body,
                               delivery.headers["X-Razorpay-Signature"]),
              LAMBDA e : Ok(settlement(rail.id, e.event_id, e.reference, e.settled,
                                       e.amount_minor, e.currency)))

-----------------------------------------------------------------------------
(* Razorpay itself, as the adapter reads it (external). *)

Phases == {"open", "pending", "paid", "failed", "refunded"}
Accepts == {"INR"}
Secret(rail) == rail.config.webhook_secret
Worth(value, code) == value

Payment(s, id, status) ==
    [id |-> id, order_id |-> s.id, amount |-> s.value, currency |-> s.currency, status |-> status]

Current(s) == Payment(s, s.id \o "pay",
                      CASE s.phase = "paid" -> "captured" [] s.phase = "pending" -> "authorized"
                        [] s.phase = "refunded" -> "refunded" [] OTHER -> "failed")

\* An order is answered with its id, and listed with a first attempt that failed.
Payload(s) ==
    [id |-> s.id,
     items |-> IF s.phase = "open" THEN <<>>
               ELSE <<Payment(s, s.id \o "try", "failed"), Current(s)>>]

Event(s, secret) ==
    [event |-> IF s.phase = "paid" THEN "payment.captured" ELSE "payment." \o s.phase,
     payment |-> Current(s)]

Headers(secret, body, t) == Entry("X-Razorpay-Signature", Signature(secret, body))
=============================================================================
