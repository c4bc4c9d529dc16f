------------------------------ MODULE FiatKit ------------------------------
(***************************************************************************)
(* What every hosted-checkout adapter of patala-fiat is written with: the  *)
(* ISO-4217 table and its minor/major conversions (currency.rs), request   *)
(* validation and the webhook vocabulary of patala-core, the HTTP and HMAC *)
(* helpers (httpshared.rs), and Rust's Result with its `?`.                *)
(*                                                                         *)
(* Abstractions: a currency code is one of a few representatives of its    *)
(* class (two-, zero-, three-decimal, the one Stripe forces to two, HUF for *)
(* the two PayPal and MGA for the one Stripe takes in whole units) in      *)
(* either case; an amount in major units is a record of its digits; a body *)
(* is the record of the fields the adapter reads; an HMAC is the secret it *)
(* was computed under.                                                     *)
(***************************************************************************)
EXTENDS Integers, Sequences, TLC

\* Rust's Result<T, Error>: Error keeps its variant, not its text.
Ok(v) == [ok |-> TRUE, val |-> v]
Err(kind) == [ok |-> FALSE, err |-> kind]

\* The `?` operator: go on with the value, or return the error.  (EXCEPT, with its @, makes TLC
\* evaluate r once.)
Then(r, Op(_)) == [[res |-> r] EXCEPT !.res = IF @.ok THEN Op(@.val) ELSE @].res

\* A string field that is absent, empty or blank.
Blank == ""

\* An idempotency key is the parts it is formatted from; a request may come without one.
NoKey == <<>>

\* A map with one entry, and one whose entries win over those of another.
Entry(name, value) == [n \in {name} |-> value]
Over(f, g) == [n \in DOMAIN f \cup DOMAIN g |-> IF n \in DOMAIN f THEN f[n] ELSE g[n]]

-----------------------------------------------------------------------------
(* currency.rs *)

MaxU64 == 1000000 \* stands for u64::MAX, far above every amount of an instance

\* 10u64.pow(e), for the exponents of the table.
pow10(e) == CASE e = 0 -> 1 [] e = 1 -> 10 [] e = 2 -> 100 [] e = 3 -> 1000

\* The codes of an instance, each with its lower case.
Codes == {"USD", "IDR", "INR", "ZAR", "BRL", "HUF", "MGA", "JPY", "ISK", "CLP", "XOF", "KWD"}
Lower == [u \in Codes |-> CASE u = "USD" -> "usd" [] u = "IDR" -> "idr" [] u = "INR" -> "inr"
                            [] u = "ZAR" -> "zar" [] u = "BRL" -> "brl" [] u = "JPY" -> "jpy"
                            [] u = "ISK" -> "isk" [] u = "CLP" -> "clp" [] u = "XOF" -> "xof"
                            [] u = "HUF" -> "huf" [] u = "MGA" -> "mga" [] u = "KWD" -> "kwd"]

\* to_ascii_lowercase(), of a code in upper case.
Lowered(u) == IF u \in Codes THEN Lower[u] ELSE u

\* trim().to_ascii_uppercase(): the code itself, or the one it is the lower case of.
Upper(c) == IF \E u \in Codes : Lower[u] = c THEN CHOOSE u \in Codes : Lower[u] = c ELSE c

SameCode(a, b) == Upper(a) = Upper(b)

CURRENCY_DEFS == [c \in Codes |-> CASE c \in {"USD", "IDR", "INR", "ZAR", "BRL", "HUF", "MGA"} -> 2
                                   [] c \in {"JPY", "ISK", "CLP", "XOF"} -> 0
                                   [] c = "KWD" -> 3]

exponent(code) == IF Upper(code) \in DOMAIN CURRENCY_DEFS
                  THEN Ok(CURRENCY_DEFS[Upper(code)])
                  ELSE Err("InvalidRequest")

\* A decimal string: `digits` fractional digits whose value is `frac`.
Major(whole, frac, digits) == [whole |-> whole, frac |-> frac, digits |-> digits]

minor_to_major_string(amount, code) ==
    Then(exponent(code), LAMBDA e : Ok(Major(amount \div pow10(e), amount % pow10(e), e)))

\* More fractional digits than the currency has, or an overflow, is refused.
major_string_to_minor(s, code) ==
    Then(exponent(code),
         LAMBDA e : IF s.digits > e \/ s.whole * pow10(e) + s.frac * pow10(e - s.digits) > MaxU64
                    THEN Err("Rail")
                    ELSE Ok(s.whole * pow10(e) + s.frac * pow10(e - s.digits)))

\* A decimal that travels as a JSON number loses its trailing zeros.
JsonNumber(v) ==
    IF v.frac = 0 THEN Major(v.whole, 0, 0)
    ELSE CHOOSE w \in {Major(v.whole, v.frac \div pow10(k), v.digits - k) : k \in 0..v.digits} :
            w.frac * pow10(v.digits - w.digits) = v.frac /\ w.frac % 10 # 0

-----------------------------------------------------------------------------
(* patala-core: PayRequest::validate and the WebhookEvent constructors *)

validate(req) == /\ req.amount_minor # 0
                 /\ req.currency # Blank
                 /\ req.destination # Blank
                 /\ req.reference # Blank

\* Mutant: two fields of the same type change places.
ReceiptSwapped(rail_id, amount, currency, reference, proof) ==
    [rail_id |-> rail_id, amount_minor |-> amount, currency |-> reference,
     reference |-> currency, proof |-> proof]

Receipt(rail_id, amount, currency, reference, proof) ==
    [rail_id |-> rail_id, amount_minor |-> amount, currency |-> currency,
     reference |-> reference, proof |-> proof]

\* The constructed rail, with the capabilities its adapter declares.
Rail(id, config, class, reversible, holds_funds, currencies) ==
    Ok([id |-> id, config |-> config,
        capabilities |-> [class |-> class, reversible |-> reversible, holds_funds |-> holds_funds,
                          currencies |-> currencies]])

\* Quote: no adapter adds a fee of its own.
Quoted(rail, req) ==
    Ok([rail_id |-> rail.id, amount_minor |-> req.amount_minor, currency |-> req.currency,
        fee_minor |-> 0, total_minor |-> req.amount_minor])

\* An authentic delivery that names an object and says nothing about money.
unconfirmed(rail_id, event_id, object_id) ==
    [rail_id |-> rail_id, event_id |-> event_id, reference |-> Blank, object_id |-> object_id,
     status |-> "Unconfirmed", amount_minor |-> 0, currency |-> Blank]

\* The money fields are cleared unless the delivery says Settled.
settlement(rail_id, event_id, reference, settled, amount, currency) ==
    [rail_id |-> rail_id, event_id |-> event_id, reference |-> reference, object_id |-> Blank,
     status |-> IF settled THEN "Settled" ELSE "NotSettled",
     amount_minor |-> IF settled THEN amount ELSE 0,
     currency |-> IF settled THEN currency ELSE Blank]

with_object_id(event, object_id) == [event EXCEPT !.object_id = object_id]

\* header_or_empty: an absent header and an empty one are the same, and both a rejection.
header(delivery, name) == name \in DOMAIN delivery.headers

\* The parameters of the delivery's query string; they travel with the headers here.
query_param(delivery, name) ==
    IF name \in DOMAIN delivery.headers THEN delivery.headers[name] ELSE Blank

-----------------------------------------------------------------------------
(* httpshared.rs and the shape of one HTTP exchange *)

\* A body that does not decode into the struct the adapter asks for.
Garbage == [garbage |-> TRUE]
Decodes(body, fields) == fields \subseteq DOMAIN body

\* A decoded body with serde's defaults for the fields it leaves out.
Decoded(body, fields, k(_)) == IF Decodes(body, fields) THEN k(body) ELSE Err("Rail")

\* What one exchange can come to: no answer at all (the request or the answer was lost, a
\* timeout, a body over the size bound), an error status, a body nobody can parse, an answer.
Nets == {"lost_request", "lost_answer", "http_error", "malformed", "ok"}
Reached(net) == net \in {"lost_answer", "malformed", "ok"}

\* What `send` and the bounded read give the adapter.
Exchange(net, body) ==
    CASE net \in {"lost_request", "lost_answer"} -> Err("Rail")
      [] net = "http_error" -> Ok([status |-> 500, body |-> Garbage])
      [] net = "malformed" -> Ok([status |-> 200, body |-> Garbage])
      [] OTHER -> Ok([status |-> 200, body |-> body])

\* Go on with a 2xx body; any other status is the adapter's own error.
Answered(response, refusal, k(_)) ==
    Then(response, LAMBDA r : IF r.status = 200 THEN k(r.body) ELSE refusal)

\* A signature is the secret it was computed under and the bytes it was computed over.
Signature(secret, payload) == [key |-> secret, over |-> payload]

\* Fails closed on an empty secret and on a signature that is empty or does not match.
verify_hmac(secret, payload, signature) ==
    /\ secret # Blank
    /\ signature.key = secret
    /\ signature.over = payload

\* Static-token schemes compare whole strings.
constant_time_eq(a, b) == a = b

\* An offline adapter's answer to anything its trait method does not implement.
Unsupported == Err("Unsupported")

\* check_currency: an empty list means unrestricted.
Supports(currencies, code) == currencies = {} \/ \E c \in currencies : SameCode(c, code)

\* A number that does not parse.
Unparsable == "?"

\* non_empty_env and the optional variables: every required variable must be set and not
\* blank; an optional one that is unset or does not parse takes its default.
FromEnv(env, required, defaults) ==
    IF \A v \in required : v \in DOMAIN env /\ env[v] # Blank
    THEN Ok(Over([v \in {w \in DOMAIN env : env[w] # Unparsable} |-> env[v]], defaults))
    ELSE Err("InvalidRequest")

\* get_string, get_string_or, get_u8, get_u64 of patala-uniffi: a missing key is left blank for
\* the adapter's `new` to refuse, and a number that does not parse is refused here.
FromMap(config, required, defaults) ==
    IF \E v \in DOMAIN config : config[v] = Unparsable
    THEN Err("InvalidRequest")
    ELSE Ok(Over(config, Over([v \in required |-> Blank], defaults)))
=============================================================================
