------------------------- MODULE FlutterwaveCheckout -------------------------
(***************************************************************************)
(* patala-fiat/src/flutterwave: transactions named by the caller's tx_ref. *)
(* Amounts are decimal strings or JSON numbers; a webhook is authenticated *)
(* by a static hash.                                                       *)
(***************************************************************************)
EXTENDS FiatKit

Required == {"secret_key", "webhook_hash"}
DEFAULT_CURRENCIES == {"NGN", "GHS", "KES", "UGX", "TZS", "ZAR", "USD", "XOF", "XAF", "RWF"}

Defaults == [requires_kyc |-> TRUE, currencies |-> DEFAULT_CURRENCIES,
             settlement_days |-> 2, timeout_secs |-> 15]

from_env(env) == FromEnv(env, Required, Defaults)

new(config) ==
    IF config.secret_key = Blank \/ config.webhook_hash = Blank \/ config.currencies = {}
    THEN Err("InvalidRequest")
    ELSE Rail("flutterwave", config, "CustodialReversible", TRUE, TRUE, config.currencies)

build_flutterwave(config) == Then(FromMap(config, Required, Defaults), LAMBDA c : new(c))

check_currency(rail, code) == \E c \in rail.capabilities.currencies : SameCode(c, code)

do_json_post(net, body) == Exchange(net, body)
do_get_query(net, body) == Exchange(net, body)

classify_error == Err("Rail")

quote(rail, req) ==
    IF ~validate(req) \/ ~check_currency(rail, req.currency)
    THEN Err("InvalidRequest")
    ELSE Then(minor_to_major_string(req.amount_minor, req.currency), LAMBDA v : Quoted(rail, req))

\* The proof holds the link only: nothing verify needs.
ChargeProof(link) == [redirect_url |-> link]

charge_request(rail, req) ==
    IF ~validate(req) \/ ~check_currency(rail, req.currency)
    THEN Err("InvalidRequest")
    ELSE Then(minor_to_major_string(req.amount_minor, req.currency),
              LAMBDA v : Ok([reference |-> req.reference, value |-> v,
                             currency |-> Upper(req.currency), key |-> NoKey]))

charge(rail, req, net, created) ==
    Answered(do_json_post(net, created), classify_error,
        LAMBDA b : Decoded(b, {"status", "data"},
            LAMBDA c : IF c.status # "success" \/ c.data.link = Blank THEN Err("Rail")
                       ELSE Ok(Receipt(rail.id, 0, Upper(req.currency), req.reference,
                                       ChargeProof(c.data.link)))))

\* The amount as Flutterwave writes it, a string or a number, is read as its text.
amount_as_string(v) == v

\* Only "successful", with a positive amount; the amount must convert whatever the status.
evaluate_transaction(t) ==
    IF t.tx_ref = Blank THEN Err("Rail")
    ELSE Then(major_string_to_minor(amount_as_string(t.amount), t.currency),
              LAMBDA a : CASE t.status # "successful" ->
                                 Ok([reference |-> t.tx_ref, event_id |-> t.id, settled |-> FALSE,
                                     amount_minor |-> 0, currency |-> Upper(t.currency)])
                           [] a = 0 -> Err("Rail")
                           [] OTHER -> Ok([reference |-> t.tx_ref, event_id |-> t.id,
                                           settled |-> TRUE, amount_minor |-> a,
                                           currency |-> Upper(t.currency)]))

\* safe_reference: the reference is what the transaction is asked for by.
Named(receipt) == receipt.reference

verify(rail, receipt, net, transaction) ==
    IF receipt.rail_id # rail.id \/ Named(receipt) = Blank THEN Ok(FALSE)
    ELSE Answered(do_get_query(net, transaction), classify_error,
             LAMBDA b : Decoded(b, {"status", "data"},
                 LAMBDA t : LET o == evaluate_transaction(t.data)
                            IN  Ok(/\ t.status = "success"
                                   /\ t.data.tx_ref \in {Blank, Named(receipt)}
                                   /\ o.ok
                                   /\ o.val.settled
                                   /\ SameCode(o.val.currency, receipt.currency)
                                   /\ o.val.amount_minor >= receipt.amount_minor)))

\* The static hash, the event type, an id to deduplicate on, then the transaction.
verify_and_parse(configured_hash, body, given_hash) ==
    IF \/ given_hash = Blank
       \/ ~constant_time_eq(given_hash, configured_hash)
       \/ body.event # "charge.completed"
       \/ body.data.id = Blank
    THEN Err("InvalidRequest")
    ELSE evaluate_transaction(body.data)

verify_webhook(rail, delivery, net, transaction) ==
    IF ~header(delivery, "verif-hash") THEN Err("InvalidRequest")
    ELSE Then(verify_and_parse(rail.config.webhook_hash, delivery.raw_body,
                               delivery.headers["verif-hash"]),
              LAMBDA e : Ok(settlement(rail.id, e.event_id, e.reference, e.settled,
                                       e.amount_minor, e.currency)))

-----------------------------------------------------------------------------
(* Flutterwave itself, as the adapter reads it (external). *)

Phases == {"open", "pending", "paid", "failed"}
Accepts == {"USD", "XOF", "ZAR"}
Secret(rail) == rail.config.webhook_hash
Worth(value, code) == major_string_to_minor(value, code).val

\* The data of a transaction.
Transaction(s) ==
    [id |-> s.id, tx_ref |-> s.reference, amount |-> JsonNumber(s.value), currency |-> s.currency,
     link |-> "https", status |-> IF s.phase = "paid" THEN "successful" ELSE s.phase]

Payload(s) == [status |-> "success", data |-> Transaction(s)]

\* Every final outcome of a charge is a charge.completed.
Event(s, secret) ==
    [data |-> Transaction(s),
     event |-> IF s.phase \in {"paid", "failed"} THEN "charge.completed" ELSE "charge.created"]

Headers(secret, body, t) == Entry("verif-hash", secret)
=============================================================================
