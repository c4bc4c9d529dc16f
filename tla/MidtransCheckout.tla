-------------------------- MODULE MidtransCheckout --------------------------
(***************************************************************************)
(* patala-fiat/src/midtrans: Snap transactions named by the caller's       *)
(* reference, in IDR only.  A captured card payment counts only once the   *)
(* fraud check accepted it; the notification carries its own signature.    *)
(***************************************************************************)
EXTENDS FiatKit

Required == {"server_key"}

Defaults == [requires_kyc |-> TRUE, settlement_days |-> 2, timeout_secs |-> 15]

from_env(env) == FromEnv(env, Required, Defaults)

new(config) ==
    IF config.server_key = Blank
    THEN Err("InvalidRequest")
    ELSE Rail("midtrans", config, "CustodialReversible", TRUE, TRUE, {"IDR"})

build_midtrans(config) == Then(FromMap(config, Required, Defaults), LAMBDA c : new(c))

do_request(net, body) == Exchange(net, body)

classify_error == Err("Rail")

quote(rail, req) ==
    IF ~validate(req) \/ ~SameCode(req.currency, "IDR")
    THEN Err("InvalidRequest")
    ELSE Then(minor_to_major_string(req.amount_minor, "IDR"),
              LAMBDA v : Quoted(rail, [req EXCEPT !.currency = "IDR"]))

\* The proof holds the link only: nothing verify needs.
ChargeProof(link) == [redirect_url |-> link]

charge_request(rail, req) ==
    IF ~validate(req) \/ ~SameCode(req.currency, "IDR")
    THEN Err("InvalidRequest")
    ELSE Then(minor_to_major_string(req.amount_minor, "IDR"),
              LAMBDA v : Ok([reference |-> req.reference, value |-> v, currency |-> "IDR",
                             key |-> NoKey]))

charge(rail, req, net, created) ==
    Answered(do_request(net, created), classify_error,
        LAMBDA b : Decoded(b, {"redirect_url"},
            LAMBDA c : IF c.redirect_url = Blank THEN Err("Rail")
                       ELSE Ok(Receipt(rail.id, 0, "IDR", req.reference,
                                       ChargeProof(c.redirect_url)))))

currency_or_idr(s) == IF s.currency = Blank THEN "IDR" ELSE s.currency

\* Mutant: every capture counts, whatever the fraud check says.
evaluate_status_unchecked(s) ==
    IF s.order_id = Blank \/ s.transaction_id = Blank THEN Err("Rail")
    ELSE Then(major_string_to_minor(s.gross_amount, currency_or_idr(s)),
              LAMBDA a : LET settled == s.transaction_status \in {"settlement", "capture"}
                         IN  Ok([event_id |-> s.transaction_id, settled |-> settled,
                                 amount_minor |-> IF settled THEN a ELSE 0,
                                 currency |-> currency_or_idr(s)]))

\* settlement, or a capture the fraud check accepted, with a positive amount.
evaluate_status(s) ==
    IF s.order_id = Blank \/ s.transaction_id = Blank THEN Err("Rail")
    ELSE Then(major_string_to_minor(s.gross_amount, currency_or_idr(s)),
              LAMBDA a : LET settled == \/ s.transaction_status = "settlement"
                                        \/ /\ s.transaction_status = "capture"
                                           /\ s.fraud_status = "accept"
                         IN  IF settled /\ a = 0 THEN Err("Rail")
                             ELSE Ok([event_id |-> s.transaction_id, settled |-> settled,
                                      amount_minor |-> IF settled THEN a ELSE 0,
                                      currency |-> currency_or_idr(s)]))

\* safe_path_segment: the reference is what the transaction is asked for by.
Named(receipt) == receipt.reference

verify(rail, receipt, net, transaction) ==
    IF receipt.rail_id # rail.id \/ Named(receipt) = Blank THEN Ok(FALSE)
    ELSE Answered(do_request(net, transaction), classify_error,
             LAMBDA b : Decoded(b, {"order_id"},
                 LAMBDA t : LET o == evaluate_status(t)
                            IN  Ok(/\ t.order_id \in {Blank, Named(receipt)}
                                   /\ o.ok
                                   /\ o.val.settled
                                   /\ SameCode(o.val.currency, receipt.currency)
                                   /\ o.val.amount_minor >= receipt.amount_minor)))

\* The signature is over the order, the status code and the amount, not the status.
verify_and_parse(server_key, body) ==
    IF \/ ~verify_hmac(server_key, <<body.order_id, body.status_code, body.gross_amount>>,
                       body.signature_key)
       \/ body.order_id = Blank \/ body.status_code = Blank
    THEN Err("InvalidRequest")
    ELSE Then(evaluate_status(body),
              LAMBDA o : Ok([outcome |-> o, reference |-> body.order_id]))

verify_webhook(rail, delivery, net, transaction) ==
    Then(verify_and_parse(rail.config.server_key, delivery.raw_body),
         LAMBDA e : Ok(settlement(rail.id, e.outcome.event_id, e.reference, e.outcome.settled,
                                  e.outcome.amount_minor, e.outcome.currency)))

-----------------------------------------------------------------------------
(* Midtrans itself, as the adapter reads it (external). *)

Phases == {"open", "pending", "paid", "failed"}
Accepts == {"IDR"}
Secret(rail) == rail.config.server_key
Worth(value, code) == major_string_to_minor(value, code).val

\* A pending payment here is a capture the fraud check has challenged.
Payload(s) ==
    [redirect_url |-> "https", order_id |-> s.reference, transaction_id |-> s.id,
     gross_amount |-> s.value, currency |-> s.currency,
     transaction_status |-> CASE s.phase = "paid" /\ "pending" \notin s.past -> "settlement"
                              [] s.phase \in {"paid", "pending"} -> "capture"
                              [] s.phase = "failed" -> "deny" [] OTHER -> "pending",
     fraud_status |-> IF s.phase = "pending" THEN "challenge" ELSE "accept",
     status_code |-> IF s.phase = "paid" THEN "200" ELSE "201"]

Event(s, secret) ==
    LET p == Payload(s)
    IN  Over([signature_key |-> Signature(secret, <<p.order_id, p.status_code, p.gross_amount>>)], p)

Headers(secret, body, t) == <<>>
=============================================================================
