--------------------------- MODULE XenditCheckout ---------------------------
(***************************************************************************)
(* patala-fiat/src/xendit: invoices listed by the caller's reference.  A   *)
(* callback is authenticated by a static token alone, so nothing ties the  *)
(* token to the body that came with it.                                    *)
(***************************************************************************)
EXTENDS FiatKit

Required == {"secret_key", "webhook_token"}
DEFAULT_CURRENCIES == {"IDR", "PHP", "VND", "THB", "MYR"}

Defaults == [requires_kyc |-> TRUE, currencies |-> DEFAULT_CURRENCIES,
             settlement_days |-> 2, timeout_secs |-> 15]

from_env(env) == FromEnv(env, Required, Defaults)

new(config) ==
    IF config.secret_key = Blank \/ config.webhook_token = Blank \/ config.currencies = {}
    THEN Err("InvalidRequest")
    ELSE Rail("xendit", config, "CustodialReversible", FALSE, TRUE, config.currencies)

build_xendit(config) == Then(FromMap(config, Required, Defaults), LAMBDA c : new(c))

check_currency(rail, code) == \E c \in rail.capabilities.currencies : SameCode(c, code)

do_json(net, body) == Exchange(net, body)

classify_error == Err("Rail")

quote(rail, req) ==
    IF ~validate(req) \/ ~check_currency(rail, req.currency)
    THEN Err("InvalidRequest")
    ELSE Then(minor_to_major_string(req.amount_minor, req.currency), LAMBDA v : Quoted(rail, req))

ChargeProof(invoice_id) == [invoice_url |-> "https", invoice_id |-> invoice_id]

charge_request(rail, req) ==
    IF ~validate(req) \/ ~check_currency(rail, req.currency)
    THEN Err("InvalidRequest")
    ELSE Then(minor_to_major_string(req.amount_minor, Upper(req.currency)),
              LAMBDA v : Ok([reference |-> req.reference, value |-> v,
                             currency |-> Upper(req.currency), key |-> NoKey]))

charge(rail, req, net, created) ==
    Answered(do_json(net, created), classify_error,
        LAMBDA b : Decoded(b, {"invoice_url", "id"},
            LAMBDA i : IF i.invoice_url = Blank THEN Err("Rail")
                       ELSE Ok(Receipt(rail.id, 0, Upper(req.currency), req.reference,
                                       ChargeProof(i.id)))))

\* An amount is null (empty) or a number, read back without its trailing zeros.
xendit_number_to_string(v) == IF v = <<>> THEN Err("Rail") ELSE Ok(JsonNumber(v[1]))

\* Mutant: SETTLED, which follows PAID, is not known.
invoice_to_outcome_paid(i) ==
    IF i.external_id = Blank THEN Err("Rail")
    ELSE Then(xendit_number_to_string(i.amount),
         LAMBDA v : Then(major_string_to_minor(v, i.currency),
             LAMBDA a : Ok([reference |-> i.external_id, event_id |-> i.id,
                            settled |-> i.status = "PAID",
                            amount_minor |-> IF i.status = "PAID" THEN a ELSE 0,
                            currency |-> i.currency])))

\* PAID is worth what was paid, SETTLED what was asked; both need an amount and an id.
invoice_to_outcome(i) ==
    IF i.external_id = Blank THEN Err("Rail")
    ELSE Then(xendit_number_to_string(IF i.status = "PAID" /\ i.paid_amount # <<>>
                                      THEN i.paid_amount ELSE i.amount),
         LAMBDA v : Then(major_string_to_minor(v, i.currency),
             LAMBDA a : LET settled == i.status \in {"PAID", "SETTLED"}
                        IN  IF settled /\ (a = 0 \/ i.id = Blank) THEN Err("Rail")
                            ELSE Ok([reference |-> i.external_id, event_id |-> i.id,
                                     settled |-> settled,
                                     amount_minor |-> IF settled THEN a ELSE 0,
                                     currency |-> i.currency])))

\* safe_query_value: the reference is what the invoices are listed by.
Named(receipt) == receipt.reference

\* verify: the first invoice of the list decides, whatever the others say.
verify(rail, receipt, net, invoice) ==
    IF receipt.rail_id # rail.id \/ Named(receipt) = Blank THEN Ok(FALSE)
    ELSE Answered(do_json(net, invoice), classify_error,
             LAMBDA b : Decoded(b, {"invoices"},
                 LAMBDA l : LET first == l.invoices[1]
                                o == invoice_to_outcome(first)
                            IN  Ok(/\ l.invoices # <<>>
                                   /\ first.external_id = Named(receipt)
                                   /\ o.ok
                                   /\ o.val.settled
                                   /\ SameCode(o.val.currency, receipt.currency)
                                   /\ o.val.amount_minor >= receipt.amount_minor)))

verify_and_parse(webhook_token, body, token) ==
    IF ~constant_time_eq(token, webhook_token) \/ body.status \notin {"PAID", "SETTLED"}
    THEN Err("InvalidRequest") ELSE invoice_to_outcome(body)

verify_webhook(rail, delivery, net, invoice) ==
    IF query_param(delivery, "x-callback-token") = Blank THEN Err("InvalidRequest")
    ELSE Then(verify_and_parse(rail.config.webhook_token, delivery.raw_body,
                               delivery.headers["x-callback-token"]),
              LAMBDA e : Ok(settlement(rail.id, e.event_id, e.reference, TRUE, e.amount_minor,
                                       e.currency)))

-----------------------------------------------------------------------------
(* Xendit itself, as the adapter reads it (external). *)

Phases == {"open", "pending", "short", "paid", "failed"}
Accepts == {"IDR"}
Secret(rail) == rail.config.webhook_token
Worth(value, code) == major_string_to_minor(value, code).val

\* Less than was asked for.
Part(value) == Major(value.whole \div 2, 0, 0)

\* An invoice can be paid with less than it asks for; what was pending shows up as SETTLED.
Invoice(s) ==
    [id |-> s.id, external_id |-> s.reference, amount |-> <<s.value>>, currency |-> s.currency,
     paid_amount |-> CASE s.phase = "paid" -> <<s.value>> [] s.phase = "short" -> <<Part(s.value)>>
                       [] OTHER -> <<>>,
     invoice_url |-> "https",
     status |-> CASE s.phase \in {"paid", "short"} /\ "pending" \in s.past -> "SETTLED"
                  [] s.phase \in {"paid", "short"} -> "PAID" [] s.phase = "failed" -> "EXPIRED"
                  [] OTHER -> "PENDING"]

Payload(s) == Over([invoices |-> <<Invoice(s)>>], Invoice(s))

Event(s, secret) == Invoice(s)
Headers(secret, body, t) == Entry("x-callback-token", secret)
=============================================================================
