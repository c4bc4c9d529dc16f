---------------------- MODULE CoinbasecommerceCheckout ----------------------
(***************************************************************************)
(* patala-fiat/src/coinbasecommerce: charges with a timeline, of which the *)
(* last entry counts.  A webhook only names the charge.                    *)
(***************************************************************************)
EXTENDS FiatKit, SequencesExt

Required == {"api_key", "webhook_secret"}

Defaults == [requires_kyc |-> FALSE, currencies |-> {}, base_url |-> "live",
             timeout_secs |-> 20]

from_env(env) == FromEnv(env, Required, Defaults)

new(config) ==
    IF config.api_key = Blank \/ config.webhook_secret = Blank
    THEN Err("InvalidRequest")
    ELSE Rail("coinbasecommerce", config, "CustodialReversible", FALSE, TRUE, config.currencies)

build_coinbasecommerce(config) == Then(FromMap(config, Required, Defaults), LAMBDA c : new(c))

check_currency(rail, code) == Supports(rail.capabilities.currencies, code)

do_json(net, body) == Exchange(net, body)

classify_error == Err("Rail")

\* quote: the currency is not checked against the ones charge can convert.
quote(rail, req) ==
    IF ~validate(req) \/ ~check_currency(rail, req.currency)
    THEN Err("InvalidRequest") ELSE Quoted(rail, req)

ChargeProof(charge_id) == [charge_id |-> charge_id, hosted_url |-> "https"]

charge_request(rail, req) ==
    IF ~validate(req) \/ ~check_currency(rail, req.currency)
    THEN Err("InvalidRequest")
    ELSE Then(minor_to_major_string(req.amount_minor, req.currency),
              LAMBDA v : Ok([reference |-> req.reference, value |-> v,
                             currency |-> Upper(req.currency), key |-> NoKey]))

charge(rail, req, net, created) ==
    Answered(do_json(net, created), classify_error,
        LAMBDA b : Decoded(b, {"id", "hosted_url"},
            LAMBDA c : IF c.id = Blank \/ c.hosted_url = Blank THEN Err("Rail")
                       ELSE Ok(Receipt(rail.id, 0, Upper(req.currency), req.reference,
                                       ChargeProof(c.id)))))

\* An underpaid, overpaid or late charge is UNRESOLVED, and RESOLVED by hand: never a guess.
classify_charge_state(latest) ==
    CASE latest = "COMPLETED" -> "Paid"
      [] latest \in {"NEW", "PENDING"} -> "Pending"
      [] latest \in {"EXPIRED", "CANCELED"} -> "Failed"
      [] latest \in {"UNRESOLVED", "RESOLVED"} -> "RequiresManualReview"
      [] OTHER -> "Unrecognised"

IsChargeProof(proof) == Decodes(proof, {"charge_id", "hosted_url"})
Named(receipt) == receipt.proof.charge_id

fetch_charge(charge_id, net, charge_object) ==
    IF charge_id = Blank THEN Err("InvalidRequest")
    ELSE Answered(do_json(net, charge_object), classify_error,
             LAMBDA b : Decoded(b, {"id", "timeline"},
                 LAMBDA c : IF c.id = Blank THEN Err("Rail") ELSE Ok(c)))

\* verify: the last entry of the timeline decides, then currency and amount.
verify(rail, receipt, net, charge_object) ==
    IF receipt.rail_id # rail.id \/ ~IsChargeProof(receipt.proof) THEN Ok(FALSE)
    ELSE Then(fetch_charge(Named(receipt), net, charge_object),
              LAMBDA c :
                IF c.timeline = <<>> THEN Err("Rail")
                ELSE LET state == classify_charge_state(Last(c.timeline))
                     IN  CASE state = "Paid" ->
                                Then(major_string_to_minor(c.amount, c.currency),
                                     LAMBDA a : Ok(/\ SameCode(c.currency, receipt.currency)
                                                   /\ a >= receipt.amount_minor))
                           [] state \in {"Pending", "Failed"} -> Ok(FALSE)
                           [] OTHER -> Err("Rail"))

\* verify_and_extract: a charge:* event; the charge's id is the event's.
verify_and_extract(secret, body, signature) ==
    IF \/ ~verify_hmac(secret, body, signature)
       \/ ~body.charge_event
       \/ body.charge_id = Blank
    THEN Err("InvalidRequest")
    ELSE Ok(body.charge_id)

verify_webhook(rail, delivery, net, charge_object) ==
    IF ~header(delivery, "X-CC-Webhook-Signature") THEN Err("InvalidRequest")
    ELSE Then(verify_and_extract(rail.config.webhook_secret, delivery.raw_body,
                                 delivery.headers["X-CC-Webhook-Signature"]),
              LAMBDA id : Ok(unconfirmed(rail.id, id, id)))

-----------------------------------------------------------------------------
(* Coinbase Commerce itself, as the adapter reads it (external). *)

Phases == {"open", "pending", "under", "paid", "failed"}
Accepts == {"USD", "JPY"}
Secret(rail) == rail.config.webhook_secret
Worth(value, code) == major_string_to_minor(value, code).val

\* The timeline of a charge grows by one entry a phase.
Payload(s) ==
    [id |-> s.id, hosted_url |-> "https", amount |-> s.value, currency |-> s.currency,
     timeline |-> (IF "pending" \in s.past THEN <<"NEW", "PENDING">> ELSE <<"NEW">>) \o
                  (CASE s.phase = "paid" -> <<"COMPLETED">> [] s.phase = "under" -> <<"UNRESOLVED">>
                     [] s.phase = "failed" -> <<"EXPIRED">> [] OTHER -> <<>>)]

Event(s, secret) == [charge_event |-> TRUE, charge_id |-> s.id]
Headers(secret, body, t) == Entry("X-CC-Webhook-Signature", Signature(secret, body))
=============================================================================
