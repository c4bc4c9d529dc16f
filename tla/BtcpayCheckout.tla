--------------------------- MODULE BtcpayCheckout ---------------------------
(***************************************************************************)
(* patala-fiat/src/btcpay: Greenfield invoices on the organiser's own      *)
(* BTCPay server.  No idempotency key, no refund; a webhook only names the *)
(* invoice, and verify is what reads its state.                            *)
(***************************************************************************)
EXTENDS FiatKit

Required == {"base_url", "api_key", "store_id", "webhook_secret"}

Defaults == [requires_kyc |-> FALSE, currencies |-> {}, timeout_secs |-> 20]

from_env(env) == FromEnv(env, Required, Defaults)

new(config) ==
    IF \E v \in Required : config[v] = Blank
    THEN Err("InvalidRequest")
    ELSE Rail("btcpay", config, "NonCustodialFinal", FALSE, FALSE, config.currencies)

build_btcpay(config) == Then(FromMap(config, Required, Defaults), LAMBDA c : new(c))

check_currency(rail, code) == Supports(rail.capabilities.currencies, code)

do_json(net, body) == Exchange(net, body)

classify_error == Err("Rail")

\* quote: the currency is not checked against the ones charge can convert.
quote(rail, req) ==
    IF ~validate(req) \/ ~check_currency(rail, req.currency)
    THEN Err("InvalidRequest") ELSE Quoted(rail, req)

ChargeProof(invoice_id) == [invoice_id |-> invoice_id, checkout_link |-> "https"]

\* charge, up to the POST: the amount goes out as a decimal string, under no key.
charge_request(rail, req) ==
    IF ~validate(req) \/ ~check_currency(rail, req.currency)
    THEN Err("InvalidRequest")
    ELSE Then(minor_to_major_string(req.amount_minor, req.currency),
              LAMBDA v : Ok([reference |-> req.reference, value |-> v,
                             currency |-> Upper(req.currency), key |-> NoKey]))

\* charge, from the answer.
charge(rail, req, net, created) ==
    Answered(do_json(net, created), classify_error,
        LAMBDA b : Decoded(b, {"id", "checkoutLink"},
            LAMBDA i : IF i.id = Blank \/ i.checkoutLink = Blank THEN Err("Rail")
                       ELSE Ok(Receipt(rail.id, 0, Upper(req.currency), req.reference,
                                       ChargeProof(i.id)))))

\* Settled is paid unless it is overpaid; what Settled never goes with is inconsistent.
classify_invoice_state(status, additional) ==
    CASE status = "Settled" /\ additional \in {Blank, "None", "Marked", "PaidLate"} -> "Paid"
      [] status = "Settled" /\ additional = "PaidOver" -> "Overpaid"
      [] status = "Settled" -> "Inconsistent"
      [] status \in {"New", "Processing"} -> "Pending"
      [] OTHER -> "Failed"

IsChargeProof(proof) == Decodes(proof, {"invoice_id", "checkout_link"})
Named(receipt) == receipt.proof.invoice_id

fetch_invoice(net, invoice) ==
    Answered(do_json(net, invoice), classify_error,
        LAMBDA b : Decoded(b, {"id"}, LAMBDA i : IF i.id = Blank THEN Err("Rail") ELSE Ok(i)))

\* verify: an amount that does not convert is an error whatever the state; an overpaid or
\* inconsistent invoice is an error too, never a guess.
verify(rail, receipt, net, invoice) ==
    CASE receipt.rail_id # rail.id \/ ~IsChargeProof(receipt.proof) -> Ok(FALSE)
      [] Named(receipt) = Blank -> Err("InvalidRequest")
      [] OTHER -> Then(fetch_invoice(net, invoice),
              LAMBDA i : Then(major_string_to_minor(i.amount, i.currency),
                  LAMBDA a : LET state == classify_invoice_state(i.status, i.additionalStatus)
                             IN  IF state \in {"Overpaid", "Inconsistent"} THEN Err("Rail")
                                 ELSE Ok(/\ state = "Paid"
                                         /\ SameCode(i.currency, receipt.currency)
                                         /\ a >= receipt.amount_minor)))

\* verify_and_extract: the signature over the raw body, an Invoice* event, its invoice id,
\* which is also the event id.
verify_and_extract(secret, body, signature) ==
    CASE ~verify_hmac(secret, body, signature) -> Err("InvalidRequest")
      [] ~body.invoice_event -> Err("InvalidRequest")
      [] body.invoiceId = Blank -> Err("InvalidRequest")
      [] OTHER -> Ok([event_id |-> body.invoiceId, invoice_id |-> body.invoiceId])

verify_webhook(rail, delivery, net, invoice) ==
    IF ~header(delivery, "BTCPay-Sig") THEN Err("InvalidRequest")
    ELSE Then(verify_and_extract(rail.config.webhook_secret, delivery.raw_body,
                                 delivery.headers["BTCPay-Sig"]),
              LAMBDA e : Ok(unconfirmed(rail.id, e.event_id, e.invoice_id)))

-----------------------------------------------------------------------------
(* The BTCPay server, as the adapter reads it (external). *)

Phases == {"open", "pending", "paid", "over", "under", "failed"}
Accepts == {"USD", "JPY", "KWD", "ISK"}
Secret(rail) == rail.config.webhook_secret
Worth(value, code) == major_string_to_minor(value, code).val

Payload(s) ==
    [id |-> s.id, checkoutLink |-> "https", amount |-> s.value, currency |-> s.currency,
     status |-> CASE s.phase = "open" -> "New" [] s.phase = "pending" -> "Processing"
                  [] s.phase \in {"paid", "over"} -> "Settled" [] s.phase = "under" -> "Expired"
                  [] OTHER -> "Invalid",
     additionalStatus |-> CASE s.phase = "over" -> "PaidOver" [] s.phase = "under" -> "PaidPartial"
                            [] OTHER -> "None"]

Event(s, secret) == [invoice_event |-> TRUE, invoiceId |-> s.id]
Headers(secret, body, t) == Entry("BTCPay-Sig", Signature(secret, body))
=============================================================================
