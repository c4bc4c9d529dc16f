-------------------------- MODULE FiatRailsProofs --------------------------
(***************************************************************************)
(* What the 21 fiat adapters promise, proved for every receipt, transport  *)
(* outcome, configuration and session: verify and verify_webhook say       *)
(* "paid" only of a session whose money the processor took; charge posts   *)
(* the caller's reference and exactly the amount it asked for, and returns *)
(* a receipt for the session it made; refund claims no money that was not  *)
(* given back, and its receipt never verifies; and a rail that could be    *)
(* built holds the deployment's secret.                                    *)
(*                                                                         *)
(* Each part has one lemma per adapter, about the adapter's own operators, *)
(* and a result about the dispatcher that splits on the provider.  Blank   *)
(* (the empty string) is never expanded next to other strings; facts about *)
(* it are lemmas of their own.                                             *)
(***************************************************************************)
EXTENDS FiatRails, TLAPS

\* A session record as the processor keeps it.
IsSession(s) ==
    s = [id |-> s.id, reference |-> s.reference, value |-> s.value, currency |-> s.currency,
         key |-> s.key, phase |-> s.phase, past |-> s.past]

\* A receipt record (patala-core's Receipt).
IsReceipt(r) ==
    r = [rail_id |-> r.rail_id, amount_minor |-> r.amount_minor, currency |-> r.currency,
         reference |-> r.reference, proof |-> r.proof]

\* The idempotency key an adapter derives from the caller's reference, if it sends one.
KeyOf(p, ref) ==
    IF p = "stripe" THEN <<"begin", ref>>
    ELSE IF p \in {"hyperswitch", "square"} THEN <<ref>> ELSE NoKey

\* The rails whose webhooks are not authenticated by a secret the adapter holds: it asks the
\* processor again instead.
Unkeyed == {"hyperswitch", "iyzico", "mollie", "payfast"}

-----------------------------------------------------------------------------
(* The dispatcher *)

\* The Adyen adapter's empty string is the one the dispatcher names.
LEMMA AdyenBlank == Adyen!Blank = Blank
BY Zenon DEF Blank, Adyen!Blank

\* The BTCPay adapter's empty string is the one the dispatcher names.
LEMMA BtcpayBlank == Btcpay!Blank = Blank
BY Zenon DEF Blank, Btcpay!Blank

\* The Checkout.com adapter's empty string is the one the dispatcher names.
LEMMA CheckoutcomBlank == Checkoutcom!Blank = Blank
BY Zenon DEF Blank, Checkoutcom!Blank

\* The Coinbase Commerce adapter's empty string is the one the dispatcher names.
LEMMA CoinbasecommerceBlank == Coinbasecommerce!Blank = Blank
BY Zenon DEF Blank, Coinbasecommerce!Blank

\* The Flutterwave adapter's empty string is the one the dispatcher names.
LEMMA FlutterwaveBlank == Flutterwave!Blank = Blank
BY Zenon DEF Blank, Flutterwave!Blank

\* The Hyperswitch adapter's empty string is the one the dispatcher names.
LEMMA HyperswitchBlank == Hyperswitch!Blank = Blank
BY Zenon DEF Blank, Hyperswitch!Blank

\* The iyzico adapter's empty string is the one the dispatcher names.
LEMMA IyzicoBlank == Iyzico!Blank = Blank
BY Zenon DEF Blank, Iyzico!Blank

\* The LNbits adapter's empty string is the one the dispatcher names.
LEMMA LnbitsBlank == Lnbits!Blank = Blank
BY Zenon DEF Blank, Lnbits!Blank

\* The Mercado Pago adapter's empty string is the one the dispatcher names.
LEMMA MercadopagoBlank == Mercadopago!Blank = Blank
BY Zenon DEF Blank, Mercadopago!Blank

\* The Midtrans adapter's empty string is the one the dispatcher names.
LEMMA MidtransBlank == Midtrans!Blank = Blank
BY Zenon DEF Blank, Midtrans!Blank

\* The Mollie adapter's empty string is the one the dispatcher names.
LEMMA MollieBlank == Mollie!Blank = Blank
BY Zenon DEF Blank, Mollie!Blank

\* The OpenNode adapter's empty string is the one the dispatcher names.
LEMMA OpennodeBlank == Opennode!Blank = Blank
BY Zenon DEF Blank, Opennode!Blank

\* The PayFast adapter's empty string is the one the dispatcher names.
LEMMA PayfastBlank == Payfast!Blank = Blank
BY Zenon DEF Blank, Payfast!Blank

\* The PayPal adapter's empty string is the one the dispatcher names.
LEMMA PaypalBlank == Paypal!Blank = Blank
BY Zenon DEF Blank, Paypal!Blank

\* The Paystack adapter's empty string is the one the dispatcher names.
LEMMA PaystackBlank == Paystack!Blank = Blank
BY Zenon DEF Blank, Paystack!Blank

\* The PayU adapter's empty string is the one the dispatcher names.
LEMMA PayuBlank == Payu!Blank = Blank
BY Zenon DEF Blank, Payu!Blank

\* The Razorpay adapter's empty string is the one the dispatcher names.
LEMMA RazorpayBlank == Razorpay!Blank = Blank
BY Zenon DEF Blank, Razorpay!Blank

\* The Square adapter's empty string is the one the dispatcher names.
LEMMA SquareBlank == Square!Blank = Blank
BY Zenon DEF Blank, Square!Blank

\* The Stripe adapter's empty string is the one the dispatcher names.
LEMMA StripeBlank == Stripe!Blank = Blank
BY Zenon DEF Blank, Stripe!Blank

\* The Xendit adapter's empty string is the one the dispatcher names.
LEMMA XenditBlank == Xendit!Blank = Blank
BY Zenon DEF Blank, Xendit!Blank

\* The Yoco adapter's empty string is the one the dispatcher names.
LEMMA YocoBlank == Yoco!Blank = Blank
BY Zenon DEF Blank, Yoco!Blank

\* A call on the rail "adyen" is the Adyen adapter's own operation.
LEMMA AdyenDispatch ==
  /\ Phases("adyen") = Adyen!Phases
  /\ \A s : Payload("adyen", s) = Adyen!Payload(s)
  /\ \A s, secret : Event("adyen", s, secret) = Adyen!Event(s, secret)
  /\ \A rail : SecretOf("adyen", rail) = Adyen!Secret(rail)
  /\ \A secret, body, t : Headers("adyen", secret, body, t) = Adyen!Headers(secret, body, t)
  /\ \A receipt : Named("adyen", receipt) = Adyen!Named(receipt)
  /\ \A rail, receipt, net, pay :
        Verify("adyen", rail, receipt, net, pay) = Adyen!verify(rail, receipt, net, pay)
  /\ \A rail, d, net, pay :
        VerifyWebhook("adyen", rail, d, net, pay) = Adyen!verify_webhook(rail, d, net, pay)
BY DEF Phases, Payload, Event, SecretOf, Headers, Named, Verify, VerifyWebhook

\* A call on the rail "btcpay" is the BTCPay adapter's own operation.
LEMMA BtcpayDispatch ==
  /\ Phases("btcpay") = Btcpay!Phases
  /\ \A s : Payload("btcpay", s) = Btcpay!Payload(s)
  /\ \A s, secret : Event("btcpay", s, secret) = Btcpay!Event(s, secret)
  /\ \A rail : SecretOf("btcpay", rail) = Btcpay!Secret(rail)
  /\ \A secret, body, t : Headers("btcpay", secret, body, t) = Btcpay!Headers(secret, body, t)
  /\ \A receipt : Named("btcpay", receipt) = Btcpay!Named(receipt)
  /\ \A rail, receipt, net, pay :
        Verify("btcpay", rail, receipt, net, pay) = Btcpay!verify(rail, receipt, net, pay)
  /\ \A rail, d, net, pay :
        VerifyWebhook("btcpay", rail, d, net, pay) = Btcpay!verify_webhook(rail, d, net, pay)
BY DEF Phases, Payload, Event, SecretOf, Headers, Named, Verify, VerifyWebhook

\* A call on the rail "checkoutcom" is the Checkout.com adapter's own operation.
LEMMA CheckoutcomDispatch ==
  /\ Phases("checkoutcom") = Checkoutcom!Phases
  /\ \A s : Payload("checkoutcom", s) = Checkoutcom!Payload(s)
  /\ \A s, secret : Event("checkoutcom", s, secret) = Checkoutcom!Event(s, secret)
  /\ \A rail : SecretOf("checkoutcom", rail) = Checkoutcom!Secret(rail)
  /\ \A secret, body, t :
        Headers("checkoutcom", secret, body, t) = Checkoutcom!Headers(secret, body, t)
  /\ \A receipt : Named("checkoutcom", receipt) = Checkoutcom!Named(receipt)
  /\ \A rail, receipt, net, pay :
        Verify("checkoutcom", rail, receipt, net, pay) = Checkoutcom!verify(rail, receipt, net, pay)
  /\ \A rail, d, net, pay :
        VerifyWebhook("checkoutcom", rail, d, net, pay) =
          Checkoutcom!verify_webhook(rail, d, net, pay)
BY DEF Phases, Payload, Event, SecretOf, Headers, Named, Verify, VerifyWebhook

\* A call on the rail "coinbasecommerce" is the Coinbase Commerce adapter's own operation.
LEMMA CoinbasecommerceDispatch ==
  /\ Phases("coinbasecommerce") = Coinbasecommerce!Phases
  /\ \A s : Payload("coinbasecommerce", s) = Coinbasecommerce!Payload(s)
  /\ \A s, secret : Event("coinbasecommerce", s, secret) = Coinbasecommerce!Event(s, secret)
  /\ \A rail : SecretOf("coinbasecommerce", rail) = Coinbasecommerce!Secret(rail)
  /\ \A secret, body, t :
        Headers("coinbasecommerce", secret, body, t) = Coinbasecommerce!Headers(secret, body, t)
  /\ \A receipt : Named("coinbasecommerce", receipt) = Coinbasecommerce!Named(receipt)
  /\ \A rail, receipt, net, pay :
        Verify("coinbasecommerce", rail, receipt, net, pay) = Coinbasecommerce!verify(rail, receipt, net, pay)
  /\ \A rail, d, net, pay :
        VerifyWebhook("coinbasecommerce", rail, d, net, pay) =
          Coinbasecommerce!verify_webhook(rail, d, net, pay)
BY DEF Phases, Payload, Event, SecretOf, Headers, Named, Verify, VerifyWebhook

\* A call on the rail "flutterwave" is the Flutterwave adapter's own operation.
LEMMA FlutterwaveDispatch ==
  /\ Phases("flutterwave") = Flutterwave!Phases
  /\ \A s : Payload("flutterwave", s) = Flutterwave!Payload(s)
  /\ \A s, secret : Event("flutterwave", s, secret) = Flutterwave!Event(s, secret)
  /\ \A rail : SecretOf("flutterwave", rail) = Flutterwave!Secret(rail)
  /\ \A secret, body, t :
        Headers("flutterwave", secret, body, t) = Flutterwave!Headers(secret, body, t)
  /\ \A receipt : Named("flutterwave", receipt) = Flutterwave!Named(receipt)
  /\ \A rail, receipt, net, pay :
        Verify("flutterwave", rail, receipt, net, pay) = Flutterwave!verify(rail, receipt, net, pay)
  /\ \A rail, d, net, pay :
        VerifyWebhook("flutterwave", rail, d, net, pay) =
          Flutterwave!verify_webhook(rail, d, net, pay)
BY DEF Phases, Payload, Event, SecretOf, Headers, Named, Verify, VerifyWebhook

\* A call on the rail "hyperswitch" is the Hyperswitch adapter's own operation.
LEMMA HyperswitchDispatch ==
  /\ Phases("hyperswitch") = Hyperswitch!Phases
  /\ \A s : Payload("hyperswitch", s) = Hyperswitch!Payload(s)
  /\ \A s, secret : Event("hyperswitch", s, secret) = Hyperswitch!Event(s, secret)
  /\ \A rail : SecretOf("hyperswitch", rail) = Hyperswitch!Secret(rail)
  /\ \A secret, body, t :
        Headers("hyperswitch", secret, body, t) = Hyperswitch!Headers(secret, body, t)
  /\ \A receipt : Named("hyperswitch", receipt) = Hyperswitch!Named(receipt)
  /\ \A rail, receipt, net, pay :
        Verify("hyperswitch", rail, receipt, net, pay) = Hyperswitch!verify(rail, receipt, net, pay)
  /\ \A rail, d, net, pay :
        VerifyWebhook("hyperswitch", rail, d, net, pay) =
          Hyperswitch!verify_webhook(rail, d, net, pay)
BY DEF Phases, Payload, Event, SecretOf, Headers, Named, Verify, VerifyWebhook

\* A call on the rail "iyzico" is the iyzico adapter's own operation.
LEMMA IyzicoDispatch ==
  /\ Phases("iyzico") = Iyzico!Phases
  /\ \A s : Payload("iyzico", s) = Iyzico!Payload(s)
  /\ \A s, secret : Event("iyzico", s, secret) = Iyzico!Event(s, secret)
  /\ \A rail : SecretOf("iyzico", rail) = Iyzico!Secret(rail)
  /\ \A secret, body, t : Headers("iyzico", secret, body, t) = Iyzico!Headers(secret, body, t)
  /\ \A receipt : Named("iyzico", receipt) = Iyzico!Named(receipt)
  /\ \A rail, receipt, net, pay :
        Verify("iyzico", rail, receipt, net, pay) = Iyzico!verify(rail, receipt, net, pay)
  /\ \A rail, d, net, pay :
        VerifyWebhook("iyzico", rail, d, net, pay) = Iyzico!verify_webhook(rail, d, net, pay)
BY DEF Phases, Payload, Event, SecretOf, Headers, Named, Verify, VerifyWebhook

\* A call on the rail "lnbits" is the LNbits adapter's own operation.
LEMMA LnbitsDispatch ==
  /\ Phases("lnbits") = Lnbits!Phases
  /\ \A s : Payload("lnbits", s) = Lnbits!Payload(s)
  /\ \A s, secret : Event("lnbits", s, secret) = Lnbits!Event(s, secret)
  /\ \A rail : SecretOf("lnbits", rail) = Lnbits!Secret(rail)
  /\ \A secret, body, t : Headers("lnbits", secret, body, t) = Lnbits!Headers(secret, body, t)
  /\ \A receipt : Named("lnbits", receipt) = Lnbits!Named(receipt)
  /\ \A rail, receipt, net, pay :
        Verify("lnbits", rail, receipt, net, pay) = Lnbits!verify(rail, receipt, net, pay)
  /\ \A rail, d, net, pay :
        VerifyWebhook("lnbits", rail, d, net, pay) = Lnbits!verify_webhook(rail, d, net, pay)
BY DEF Phases, Payload, Event, SecretOf, Headers, Named, Verify, VerifyWebhook

\* A call on the rail "mercadopago" is the Mercado Pago adapter's own operation.
LEMMA MercadopagoDispatch ==
  /\ Phases("mercadopago") = Mercadopago!Phases
  /\ \A s : Payload("mercadopago", s) = Mercadopago!Payload(s)
  /\ \A s, secret : Event("mercadopago", s, secret) = Mercadopago!Event(s, secret)
  /\ \A rail : SecretOf("mercadopago", rail) = Mercadopago!Secret(rail)
  /\ \A secret, body, t :
        Headers("mercadopago", secret, body, t) = Mercadopago!Headers(secret, body, t)
  /\ \A receipt : Named("mercadopago", receipt) = Mercadopago!Named(receipt)
  /\ \A rail, receipt, net, pay :
        Verify("mercadopago", rail, receipt, net, pay) = Mercadopago!verify(rail, receipt, net, pay)
  /\ \A rail, d, net, pay :
        VerifyWebhook("mercadopago", rail, d, net, pay) =
          Mercadopago!verify_webhook(rail, d, net, pay)
BY DEF Phases, Payload, Event, SecretOf, Headers, Named, Verify, VerifyWebhook

\* A call on the rail "midtrans" is the Midtrans adapter's own operation.
LEMMA MidtransDispatch ==
  /\ Phases("midtrans") = Midtrans!Phases
  /\ \A s : Payload("midtrans", s) = Midtrans!Payload(s)
  /\ \A s, secret : Event("midtrans", s, secret) = Midtrans!Event(s, secret)
  /\ \A rail : SecretOf("midtrans", rail) = Midtrans!Secret(rail)
  /\ \A secret, body, t : Headers("midtrans", secret, body, t) = Midtrans!Headers(secret, body, t)
  /\ \A receipt : Named("midtrans", receipt) = Midtrans!Named(receipt)
  /\ \A rail, receipt, net, pay :
        Verify("midtrans", rail, receipt, net, pay) = Midtrans!verify(rail, receipt, net, pay)
  /\ \A rail, d, net, pay :
        VerifyWebhook("midtrans", rail, d, net, pay) = Midtrans!verify_webhook(rail, d, net, pay)
BY DEF Phases, Payload, Event, SecretOf, Headers, Named, Verify, VerifyWebhook

\* A call on the rail "mollie" is the Mollie adapter's own operation.
LEMMA MollieDispatch ==
  /\ Phases("mollie") = Mollie!Phases
  /\ \A s : Payload("mollie", s) = Mollie!Payload(s)
  /\ \A s, secret : Event("mollie", s, secret) = Mollie!Event(s, secret)
  /\ \A rail : SecretOf("mollie", rail) = Mollie!Secret(rail)
  /\ \A secret, body, t : Headers("mollie", secret, body, t) = Mollie!Headers(secret, body, t)
  /\ \A receipt : Named("mollie", receipt) = Mollie!Named(receipt)
  /\ \A rail, receipt, net, pay :
        Verify("mollie", rail, receipt, net, pay) = Mollie!verify(rail, receipt, net, pay)
  /\ \A rail, d, net, pay :
        VerifyWebhook("mollie", rail, d, net, pay) = Mollie!verify_webhook(rail, d, net, pay)
BY DEF Phases, Payload, Event, SecretOf, Headers, Named, Verify, VerifyWebhook

\* A call on the rail "opennode" is the OpenNode adapter's own operation.
LEMMA OpennodeDispatch ==
  /\ Phases("opennode") = Opennode!Phases
  /\ \A s : Payload("opennode", s) = Opennode!Payload(s)
  /\ \A s, secret : Event("opennode", s, secret) = Opennode!Event(s, secret)
  /\ \A rail : SecretOf("opennode", rail) = Opennode!Secret(rail)
  /\ \A secret, body, t : Headers("opennode", secret, body, t) = Opennode!Headers(secret, body, t)
  /\ \A receipt : Named("opennode", receipt) = Opennode!Named(receipt)
  /\ \A rail, receipt, net, pay :
        Verify("opennode", rail, receipt, net, pay) = Opennode!verify(rail, receipt, net, pay)
  /\ \A rail, d, net, pay :
        VerifyWebhook("opennode", rail, d, net, pay) = Opennode!verify_webhook(rail, d, net, pay)
BY DEF Phases, Payload, Event, SecretOf, Headers, Named, Verify, VerifyWebhook

\* A call on the rail "payfast" is the PayFast adapter's own operation.
LEMMA PayfastDispatch ==
  /\ Phases("payfast") = Payfast!Phases
  /\ \A s : Payload("payfast", s) = Payfast!Payload(s)
  /\ \A s, secret : Event("payfast", s, secret) = Payfast!Event(s, secret)
  /\ \A rail : SecretOf("payfast", rail) = Payfast!Secret(rail)
  /\ \A secret, body, t : Headers("payfast", secret, body, t) = Payfast!Headers(secret, body, t)
  /\ \A receipt : Named("payfast", receipt) = Payfast!Named(receipt)
  /\ \A rail, receipt, net, pay :
        Verify("payfast", rail, receipt, net, pay) = Payfast!verify(rail, receipt, net, pay)
  /\ \A rail, d, net, pay :
        VerifyWebhook("payfast", rail, d, net, pay) = Payfast!verify_webhook(rail, d, net, pay)
BY DEF Phases, Payload, Event, SecretOf, Headers, Named, Verify, VerifyWebhook

\* A call on the rail "paypal" is the PayPal adapter's own operation.
LEMMA PaypalDispatch ==
  /\ Phases("paypal") = Paypal!Phases
  /\ \A s : Payload("paypal", s) = Paypal!Payload(s)
  /\ \A s, secret : Event("paypal", s, secret) = Paypal!Event(s, secret)
  /\ \A rail : SecretOf("paypal", rail) = Paypal!Secret(rail)
  /\ \A secret, body, t : Headers("paypal", secret, body, t) = Paypal!Headers(secret, body, t)
  /\ \A receipt : Named("paypal", receipt) = Paypal!Named(receipt)
  /\ \A rail, receipt, net, pay :
        Verify("paypal", rail, receipt, net, pay) = Paypal!verify(rail, receipt, net, pay)
  /\ \A rail, d, net, pay :
        VerifyWebhook("paypal", rail, d, net, pay) = Paypal!verify_webhook(rail, d, net, pay)
BY DEF Phases, Payload, Event, SecretOf, Headers, Named, Verify, VerifyWebhook

\* A call on the rail "paystack" is the Paystack adapter's own operation.
LEMMA PaystackDispatch ==
  /\ Phases("paystack") = Paystack!Phases
  /\ \A s : Payload("paystack", s) = Paystack!Payload(s)
  /\ \A s, secret : Event("paystack", s, secret) = Paystack!Event(s, secret)
  /\ \A rail : SecretOf("paystack", rail) = Paystack!Secret(rail)
  /\ \A secret, body, t : Headers("paystack", secret, body, t) = Paystack!Headers(secret, body, t)
  /\ \A receipt : Named("paystack", receipt) = Paystack!Named(receipt)
  /\ \A rail, receipt, net, pay :
        Verify("paystack", rail, receipt, net, pay) = Paystack!verify(rail, receipt, net, pay)
  /\ \A rail, d, net, pay :
        VerifyWebhook("paystack", rail, d, net, pay) = Paystack!verify_webhook(rail, d, net, pay)
BY DEF Phases, Payload, Event, SecretOf, Headers, Named, Verify, VerifyWebhook

\* A call on the rail "payu" is the PayU adapter's own operation.
LEMMA PayuDispatch ==
  /\ Phases("payu") = Payu!Phases
  /\ \A s : Payload("payu", s) = Payu!Payload(s)
  /\ \A s, secret : Event("payu", s, secret) = Payu!Event(s, secret)
  /\ \A rail : SecretOf("payu", rail) = Payu!Secret(rail)
  /\ \A secret, body, t : Headers("payu", secret, body, t) = Payu!Headers(secret, body, t)
  /\ \A receipt : Named("payu", receipt) = Payu!Named(receipt)
  /\ \A rail, receipt, net, pay :
        Verify("payu", rail, receipt, net, pay) = Payu!verify(rail, receipt, net, pay)
  /\ \A rail, d, net, pay :
        VerifyWebhook("payu", rail, d, net, pay) = Payu!verify_webhook(rail, d, net, pay)
BY DEF Phases, Payload, Event, SecretOf, Headers, Named, Verify, VerifyWebhook

\* A call on the rail "razorpay" is the Razorpay adapter's own operation.
LEMMA RazorpayDispatch ==
  /\ Phases("razorpay") = Razorpay!Phases
  /\ \A s : Payload("razorpay", s) = Razorpay!Payload(s)
  /\ \A s, secret : Event("razorpay", s, secret) = Razorpay!Event(s, secret)
  /\ \A rail : SecretOf("razorpay", rail) = Razorpay!Secret(rail)
  /\ \A secret, body, t : Headers("razorpay", secret, body, t) = Razorpay!Headers(secret, body, t)
  /\ \A receipt : Named("razorpay", receipt) = Razorpay!Named(receipt)
  /\ \A rail, receipt, net, pay :
        Verify("razorpay", rail, receipt, net, pay) = Razorpay!verify(rail, receipt, net, pay)
  /\ \A rail, d, net, pay :
        VerifyWebhook("razorpay", rail, d, net, pay) = Razorpay!verify_webhook(rail, d, net, pay)
BY DEF Phases, Payload, Event, SecretOf, Headers, Named, Verify, VerifyWebhook

\* A call on the rail "square" is the Square adapter's own operation.
LEMMA SquareDispatch ==
  /\ Phases("square") = Square!Phases
  /\ \A s : Payload("square", s) = Square!Payload(s)
  /\ \A s, secret : Event("square", s, secret) = Square!Event(s, secret)
  /\ \A rail : SecretOf("square", rail) = Square!Secret(rail)
  /\ \A secret, body, t : Headers("square", secret, body, t) = Square!Headers(secret, body, t)
  /\ \A receipt : Named("square", receipt) = Square!Named(receipt)
  /\ \A rail, receipt, net, pay :
        Verify("square", rail, receipt, net, pay) = Square!verify(rail, receipt, net, pay)
  /\ \A rail, d, net, pay :
        VerifyWebhook("square", rail, d, net, pay) = Square!verify_webhook(rail, d, net, pay)
BY DEF Phases, Payload, Event, SecretOf, Headers, Named, Verify, VerifyWebhook

\* A call on the rail "stripe" is the Stripe adapter's own operation.
LEMMA StripeDispatch ==
  /\ Phases("stripe") = Stripe!Phases
  /\ \A s : Payload("stripe", s) = Stripe!Payload(s)
  /\ \A s, secret : Event("stripe", s, secret) = Stripe!Event(s, secret)
  /\ \A rail : SecretOf("stripe", rail) = Stripe!Secret(rail)
  /\ \A secret, body, t : Headers("stripe", secret, body, t) = Stripe!Headers(secret, body, t)
  /\ \A receipt : Named("stripe", receipt) = Stripe!Named(receipt)
  /\ \A rail, receipt, net, pay :
        Verify("stripe", rail, receipt, net, pay) = Stripe!verify(rail, receipt, net, pay)
  /\ \A rail, d, net, pay :
        VerifyWebhook("stripe", rail, d, net, pay) = Stripe!verify_webhook(rail, d, net, pay)
BY DEF Phases, Payload, Event, SecretOf, Headers, Named, Verify, VerifyWebhook

\* A call on the rail "xendit" is the Xendit adapter's own operation.
LEMMA XenditDispatch ==
  /\ Phases("xendit") = Xendit!Phases
  /\ \A s : Payload("xendit", s) = Xendit!Payload(s)
  /\ \A s, secret : Event("xendit", s, secret) = Xendit!Event(s, secret)
  /\ \A rail : SecretOf("xendit", rail) = Xendit!Secret(rail)
  /\ \A secret, body, t : Headers("xendit", secret, body, t) = Xendit!Headers(secret, body, t)
  /\ \A receipt : Named("xendit", receipt) = Xendit!Named(receipt)
  /\ \A rail, receipt, net, pay :
        Verify("xendit", rail, receipt, net, pay) = Xendit!verify(rail, receipt, net, pay)
  /\ \A rail, d, net, pay :
        VerifyWebhook("xendit", rail, d, net, pay) = Xendit!verify_webhook(rail, d, net, pay)
BY DEF Phases, Payload, Event, SecretOf, Headers, Named, Verify, VerifyWebhook

\* A call on the rail "yoco" is the Yoco adapter's own operation.
LEMMA YocoDispatch ==
  /\ Phases("yoco") = Yoco!Phases
  /\ \A s : Payload("yoco", s) = Yoco!Payload(s)
  /\ \A s, secret : Event("yoco", s, secret) = Yoco!Event(s, secret)
  /\ \A rail : SecretOf("yoco", rail) = Yoco!Secret(rail)
  /\ \A secret, body, t : Headers("yoco", secret, body, t) = Yoco!Headers(secret, body, t)
  /\ \A receipt : Named("yoco", receipt) = Yoco!Named(receipt)
  /\ \A rail, receipt, net, pay :
        Verify("yoco", rail, receipt, net, pay) = Yoco!verify(rail, receipt, net, pay)
  /\ \A rail, d, net, pay :
        VerifyWebhook("yoco", rail, d, net, pay) = Yoco!verify_webhook(rail, d, net, pay)
BY DEF Phases, Payload, Event, SecretOf, Headers, Named, Verify, VerifyWebhook

-----------------------------------------------------------------------------
(* verify *)

\* BTCPay's verify answers true only about a session whose money was taken.
LEMMA BtcpayVerify ==
  ASSUME NEW rail, NEW receipt, NEW net, NEW s, NEW pay,
         pay = Btcpay!Payload(s), s.phase \in Btcpay!Phases,
         Btcpay!verify(rail, receipt, net, pay) = Ok(TRUE)
  PROVE  s.phase \in {"paid", "refunded"}
<1>1. Btcpay!classify_invoice_state(pay.status, pay.additionalStatus) = "Paid"
  BY DEF Ok, Btcpay!verify, Btcpay!IsChargeProof, Btcpay!Ok, Btcpay!Named, Btcpay!Err,
          Btcpay!Then, Btcpay!fetch_invoice, Btcpay!Decodes, Btcpay!Answered, Btcpay!do_json,
          Btcpay!classify_error, Btcpay!Decoded, Btcpay!Exchange, Btcpay!Garbage
<1> QED BY <1>1 DEF Btcpay!classify_invoice_state, Btcpay!Payload

\* Checkout.com's verify answers true only about a session whose money was taken.
LEMMA CheckoutcomVerify ==
  ASSUME NEW rail, NEW receipt, NEW net, NEW s, NEW pay,
         pay = Checkoutcom!Payload(s), s.phase \in Checkoutcom!Phases,
         Checkoutcom!verify(rail, receipt, net, pay) = Ok(TRUE)
  PROVE  s.phase \in {"paid", "refunded"}
<1>1. /\ Checkoutcom!evaluate_payment(pay).ok
      /\ Checkoutcom!evaluate_payment(pay).val.settled
  BY DEF Ok, Checkoutcom!verify, Checkoutcom!IsChargeProof, Checkoutcom!Named, Checkoutcom!Ok,
          Checkoutcom!Answered, Checkoutcom!do_json, Checkoutcom!classify_error,
          Checkoutcom!Decoded, Checkoutcom!Decodes, Checkoutcom!Then, Checkoutcom!Exchange,
          Checkoutcom!Err, Checkoutcom!Garbage
<1> QED BY <1>1 DEF Checkoutcom!evaluate_payment, Checkoutcom!Payload, Checkoutcom!Err,
          Checkoutcom!Then, Checkoutcom!Ok

\* Coinbase Commerce's verify answers true only about a session whose money was taken.
LEMMA CoinbasecommerceVerify ==
  ASSUME NEW rail, NEW receipt, NEW net, NEW s, NEW pay,
         pay = Coinbasecommerce!Payload(s), s.phase \in Coinbasecommerce!Phases,
         Coinbasecommerce!verify(rail, receipt, net, pay) = Ok(TRUE)
  PROVE  s.phase \in {"paid", "refunded"}
<1>1. Coinbasecommerce!classify_charge_state(Coinbasecommerce!Last(pay.timeline)) = "Paid"
  BY DEF Ok, Coinbasecommerce!verify, Coinbasecommerce!IsChargeProof, Coinbasecommerce!Ok,
          Coinbasecommerce!Then, Coinbasecommerce!fetch_charge, Coinbasecommerce!Named,
          Coinbasecommerce!Err, Coinbasecommerce!Decodes, Coinbasecommerce!Answered,
          Coinbasecommerce!do_json, Coinbasecommerce!classify_error, Coinbasecommerce!Decoded,
          Coinbasecommerce!Exchange, Coinbasecommerce!Garbage
<1>2. Coinbasecommerce!Last(pay.timeline) = "COMPLETED"
  BY <1>1 DEF Coinbasecommerce!classify_charge_state
<1>3. CASE "pending" \in s.past
  BY <1>2, <1>3 DEF Coinbasecommerce!Payload, Coinbasecommerce!Last
<1>4. CASE "pending" \notin s.past
  BY <1>2, <1>4 DEF Coinbasecommerce!Payload, Coinbasecommerce!Last
<1> QED BY <1>3, <1>4

\* Flutterwave's verify answers true only about a session whose money was taken.
LEMMA FlutterwaveVerify ==
  ASSUME NEW rail, NEW receipt, NEW net, NEW s, NEW pay,
         pay = Flutterwave!Payload(s), s.phase \in Flutterwave!Phases,
         Flutterwave!verify(rail, receipt, net, pay) = Ok(TRUE)
  PROVE  s.phase \in {"paid", "refunded"}
<1>1. /\ Flutterwave!evaluate_transaction(pay.data).ok
      /\ Flutterwave!evaluate_transaction(pay.data).val.settled
  BY DEF Ok, Flutterwave!verify, Flutterwave!Named, Flutterwave!Ok, Flutterwave!Answered,
          Flutterwave!do_get_query, Flutterwave!classify_error, Flutterwave!Decoded,
          Flutterwave!Then, Flutterwave!Exchange, Flutterwave!Err, Flutterwave!Decodes,
          Flutterwave!Garbage
<1> QED BY <1>1 DEF Flutterwave!evaluate_transaction, Flutterwave!Payload, Flutterwave!Phases,
          Flutterwave!Err, Flutterwave!Then, Flutterwave!Ok, Flutterwave!Transaction

\* Hyperswitch's verify answers true only about a session whose money was taken.
LEMMA HyperswitchVerify ==
  ASSUME NEW rail, NEW receipt, NEW net, NEW s, NEW pay,
         pay = Hyperswitch!Payload(s), s.phase \in Hyperswitch!Phases,
         Hyperswitch!verify(rail, receipt, net, pay) = Ok(TRUE)
  PROVE  s.phase \in {"paid", "refunded"}
<1>1. pay.status = "succeeded"
  BY DEF Ok, Hyperswitch!verify, Hyperswitch!IsChargeProof, Hyperswitch!Named, Hyperswitch!Ok,
          Hyperswitch!Then, Hyperswitch!get, Hyperswitch!Decoded, Hyperswitch!is_settled_success,
          Hyperswitch!Decodes, Hyperswitch!parse_response, Hyperswitch!Exchange, Hyperswitch!Err,
          Hyperswitch!Answered, Hyperswitch!Garbage
<1> QED BY <1>1 DEF Hyperswitch!Payload

\* iyzico's verify answers true only about a session whose money was taken.
LEMMA IyzicoVerify ==
  ASSUME NEW rail, NEW receipt, NEW net, NEW s, NEW pay,
         pay = Iyzico!Payload(s), s.phase \in Iyzico!Phases,
         Iyzico!verify(rail, receipt, net, pay) = Ok(TRUE)
  PROVE  s.phase \in {"paid", "refunded"}
<1>1. /\ Iyzico!evaluate_checkout_form(pay).ok
      /\ Iyzico!evaluate_checkout_form(pay).val.settled
  <2>1. Iyzico!retrieve_checkout_form(net, pay).ok =>
          Iyzico!retrieve_checkout_form(net, pay).val = pay
    BY DEF Iyzico!retrieve_checkout_form, Iyzico!Answered, Iyzico!do_post, Iyzico!classify_error,
          Iyzico!Decoded, Iyzico!Ok, Iyzico!Then, Iyzico!Exchange, Iyzico!Err, Iyzico!Decodes,
          Iyzico!Garbage
  <2> QED BY <2>1 DEF Ok, Iyzico!verify, Iyzico!IsChargeProof, Iyzico!Named, Iyzico!Ok,
          Iyzico!Then, Iyzico!retrieve_and_evaluate, Iyzico!Decodes
<1> QED BY <1>1 DEF Iyzico!evaluate_checkout_form, Iyzico!Payload, Iyzico!Err, Iyzico!Then,
          Iyzico!Ok

\* LNbits's verify answers true only about a session whose money was taken.
LEMMA LnbitsVerify ==
  ASSUME NEW rail, NEW receipt, NEW net, NEW s, NEW pay,
         pay = Lnbits!Payload(s), s.phase \in Lnbits!Phases,
         Lnbits!verify(rail, receipt, net, pay) = Ok(TRUE)
  PROVE  s.phase \in {"paid", "refunded"}
<1>1. pay.paid
  BY DEF Ok, Lnbits!verify, Lnbits!IsChargeProof, Lnbits!Ok, Lnbits!Named, Lnbits!Err,
          Lnbits!Answered, Lnbits!do_json, Lnbits!classify_error, Lnbits!Decoded,
          Lnbits!verify_paid_wins_over_expiry_even_though_test_name_says_otherwise,
          Lnbits!Decodes, Lnbits!Then, Lnbits!Exchange, Lnbits!Garbage
<1> QED BY <1>1 DEF Lnbits!Payload

\* Mercado Pago's verify answers true only about a session whose money was taken.
LEMMA MercadopagoVerify ==
  ASSUME NEW rail, NEW receipt, NEW net, NEW s, NEW pay,
         pay = Mercadopago!Payload(s), s.phase \in Mercadopago!Phases,
         Mercadopago!verify(rail, receipt, net, pay) = Ok(TRUE)
  PROVE  s.phase \in {"paid", "refunded"}
<1>1. \E i \in DOMAIN pay.results :
        /\ Mercadopago!evaluate_payment(pay.results[i]).ok
        /\ Mercadopago!evaluate_payment(pay.results[i]).val.settled
  BY DEF Ok, Mercadopago!verify, Mercadopago!Named, Mercadopago!Ok, Mercadopago!Answered,
          Mercadopago!do_json, Mercadopago!classify_error, Mercadopago!Decoded, Mercadopago!Then,
          Mercadopago!Exchange, Mercadopago!Err, Mercadopago!Decodes, Mercadopago!Garbage
<1>2. PICK i \in DOMAIN pay.results : /\ Mercadopago!evaluate_payment(pay.results[i]).ok
                                       /\ Mercadopago!evaluate_payment(pay.results[i]).val.settled
  BY <1>1
<1>3. pay.results[i].status = "approved"
  BY <1>2 DEF Mercadopago!evaluate_payment, Mercadopago!Then, Mercadopago!Ok, Mercadopago!Err
<1>4. s.phase # "open" /\ i \in {1, 2}
  BY DEF Mercadopago!Payload
<1> QED BY <1>3, <1>4, SMTT(60) DEF Mercadopago!Payload, Mercadopago!Payment, Mercadopago!Current

\* Midtrans's verify answers true only about a session whose money was taken.
LEMMA MidtransVerify ==
  ASSUME NEW rail, NEW receipt, NEW net, NEW s, NEW pay,
         pay = Midtrans!Payload(s), s.phase \in Midtrans!Phases,
         Midtrans!verify(rail, receipt, net, pay) = Ok(TRUE)
  PROVE  s.phase \in {"paid", "refunded"}
<1>1. /\ Midtrans!evaluate_status(pay).ok
      /\ Midtrans!evaluate_status(pay).val.settled
  BY DEF Ok, Midtrans!verify, Midtrans!Named, Midtrans!Ok, Midtrans!Answered, Midtrans!do_request,
          Midtrans!classify_error, Midtrans!Decoded, Midtrans!Then, Midtrans!Exchange,
          Midtrans!Err, Midtrans!Decodes, Midtrans!Garbage
<1> QED BY <1>1 DEF Midtrans!evaluate_status, Midtrans!Payload, Midtrans!Err, Midtrans!Then,
          Midtrans!currency_or_idr, Midtrans!Ok

\* Mollie's verify answers true only about a session whose money was taken.
LEMMA MollieVerify ==
  ASSUME NEW rail, NEW receipt, NEW net, NEW s, NEW pay,
         pay = Mollie!Payload(s), s.phase \in Mollie!Phases,
         Mollie!verify(rail, receipt, net, pay) = Ok(TRUE)
  PROVE  s.phase \in {"paid", "refunded"}
<1>1. /\ Mollie!evaluate_payment(pay).ok
      /\ Mollie!evaluate_payment(pay).val.settled
  BY DEF Ok, Mollie!verify, Mollie!fetch_outcome, Mollie!Ok, Mollie!IsChargeProof, Mollie!Named,
          Mollie!Answered, Mollie!do_json, Mollie!classify_error, Mollie!Decoded, Mollie!Decodes,
          Mollie!Then, Mollie!Exchange, Mollie!Err, Mollie!Garbage
<1> QED BY <1>1 DEF Mollie!evaluate_payment, Mollie!Payload, Mollie!Err, Mollie!Then, Mollie!Ok

\* OpenNode's verify answers true only about a session whose money was taken.
LEMMA OpennodeVerify ==
  ASSUME NEW rail, NEW receipt, NEW net, NEW s, NEW pay,
         pay = Opennode!Payload(s), s.phase \in Opennode!Phases,
         Opennode!verify(rail, receipt, net, pay) = Ok(TRUE)
  PROVE  s.phase \in {"paid", "refunded"}
<1>1. Opennode!classify_charge_state(pay.status) = "Paid"
  BY DEF Ok, Opennode!verify, Opennode!IsChargeProof, Opennode!Ok, Opennode!Then,
          Opennode!fetch_charge, Opennode!Named, Opennode!Decodes, Opennode!Err,
          Opennode!Answered, Opennode!do_json, Opennode!classify_error, Opennode!Decoded,
          Opennode!Exchange, Opennode!Garbage
<1> QED BY <1>1 DEF Opennode!classify_charge_state, Opennode!Payload

\* PayPal's verify answers true only about a session whose money was taken.
LEMMA PaypalVerify ==
  ASSUME NEW rail, NEW receipt, NEW net, NEW s, NEW pay,
         pay = Paypal!Payload(s), s.phase \in Paypal!Phases,
         Paypal!verify(rail, receipt, net, pay) = Ok(TRUE)
  PROVE  s.phase \in {"paid", "refunded"}
<1>1. pay.capture_status = "COMPLETED"
  BY DEF Ok, Paypal!verify, Paypal!IsChargeProof, Paypal!Ok, Paypal!Named, Paypal!Err,
          Paypal!Answered, Paypal!do_json, Paypal!classify_error, Paypal!Decoded,
          Paypal!match_capture_for_receipt, Paypal!Decodes, Paypal!Then,
          Paypal!fetch_access_token, Paypal!Exchange, Paypal!find_completed_capture,
          Paypal!unit_reference, Paypal!Garbage
<1>2. Paypal!Blank # "COMPLETED"
  BY Zenon DEF Paypal!Blank
<1> QED BY <1>1, <1>2, SMT DEF Paypal!Payload

\* Paystack's verify answers true only about a session whose money was taken.
LEMMA PaystackVerify ==
  ASSUME NEW rail, NEW receipt, NEW net, NEW s, NEW pay,
         pay = Paystack!Payload(s), s.phase \in Paystack!Phases,
         Paystack!verify(rail, receipt, net, pay) = Ok(TRUE)
  PROVE  s.phase \in {"paid", "refunded"}
<1>1. pay.data.status = "success"
  BY DEF Ok, Paystack!verify, Paystack!Named, Paystack!Ok, Paystack!Answered, Paystack!do_json,
          Paystack!classify_error, Paystack!Decoded, Paystack!is_settled_success, Paystack!Then,
          Paystack!Exchange, Paystack!Err, Paystack!Decodes, Paystack!Garbage
<1> QED BY <1>1 DEF Paystack!Payload, Paystack!Over, Paystack!Transaction

\* PayU's verify answers true only about a session whose money was taken.
LEMMA PayuVerify ==
  ASSUME NEW rail, NEW receipt, NEW net, NEW s, NEW pay,
         pay = Payu!Payload(s), s.phase \in Payu!Phases,
         Payu!verify(rail, receipt, net, pay) = Ok(TRUE)
  PROVE  s.phase \in {"paid", "refunded"}
<1>1. \E ref \in DOMAIN pay.transaction_details :
        Payu!is_settled_success_ci(pay.transaction_details[ref].status)
  BY DEF Ok, Payu!verify, Payu!Named, Payu!Ok, Payu!Answered, Payu!do_verify_call,
          Payu!unexpected_status, Payu!Decoded, Payu!Then, Payu!Exchange, Payu!Err, Payu!Decodes,
          Payu!Garbage
<1> QED BY <1>1 DEF Payu!is_settled_success_ci, Payu!Payload, Payu!Entry, Payu!Status

\* Razorpay's verify answers true only about a session whose money was taken.
LEMMA RazorpayVerify ==
  ASSUME NEW rail, NEW receipt, NEW net, NEW s, NEW pay,
         pay = Razorpay!Payload(s), s.phase \in Razorpay!Phases,
         Razorpay!verify(rail, receipt, net, pay) = Ok(TRUE)
  PROVE  s.phase \in {"paid", "refunded"}
<1>1. \E i \in DOMAIN pay.items : pay.items[i].status = "captured"
  BY ZenonT(90) DEF Ok, Razorpay!verify, Razorpay!IsChargeProof, Razorpay!Named, Razorpay!Ok,
          Razorpay!Answered, Razorpay!do_json, Razorpay!classify_error, Razorpay!Decoded,
          Razorpay!Decodes, Razorpay!Then, Razorpay!Exchange, Razorpay!Err, Razorpay!Garbage
<1> QED BY <1>1, SMTT(60) DEF Razorpay!Payload, Razorpay!Payment, Razorpay!Current

\* Square's verify answers true only about a session whose money was taken.
LEMMA SquareVerify ==
  ASSUME NEW rail, NEW receipt, NEW net, NEW s, NEW pay,
         pay = Square!Payload(s), s.phase \in Square!Phases,
         Square!verify(rail, receipt, net, pay) = Ok(TRUE)
  PROVE  s.phase \in {"paid", "refunded"}
<1>1. /\ Square!parse_square_payment(pay).ok
      /\ Square!parse_square_payment(pay).val.settled
  BY DEF Ok, Square!verify, Square!IsChargeProof, Square!Named, Square!Ok, Square!Answered,
          Square!do_json, Square!classify_error, Square!Decoded, Square!Decodes, Square!Then,
          Square!Exchange, Square!Err, Square!Garbage
<1> QED BY <1>1 DEF Square!parse_square_payment, Square!Payload, Square!Err, Square!Ok

\* Stripe's verify answers true only about a session whose money was taken.
LEMMA StripeVerify ==
  ASSUME NEW rail, NEW receipt, NEW net, NEW s, NEW pay,
         pay = Stripe!Payload(s), s.phase \in Stripe!Phases,
         Stripe!verify(rail, receipt, net, pay) = Ok(TRUE)
  PROVE  s.phase \in {"paid", "refunded"}
<1>1. /\ Stripe!evaluate_session(pay).ok
      /\ Stripe!evaluate_session(pay).val.settled
  BY DEF Ok, Stripe!verify, Stripe!IsChargeProof, Stripe!Named, Stripe!Ok, Stripe!Answered,
          Stripe!do_form, Stripe!classify_error, Stripe!Decoded, Stripe!Decodes, Stripe!Then,
          Stripe!Exchange, Stripe!Err, Stripe!Garbage
<1> QED BY <1>1 DEF Stripe!evaluate_session, Stripe!Payload, Stripe!Err, Stripe!Then, Stripe!Ok

\* A Xendit invoice reads PAID or SETTLED only once it was paid, in full or in part.
LEMMA XenditStatus ==
  ASSUME NEW s, Xendit!Invoice(s).status \in {"PAID", "SETTLED"}
  PROVE  s.phase \in {"paid", "short"}
<1>1. Xendit!Invoice(s).status =
         (CASE s.phase \in {"paid", "short"} /\ "pending" \in s.past -> "SETTLED"
            [] s.phase \in {"paid", "short"} -> "PAID" [] s.phase = "failed" -> "EXPIRED"
            [] OTHER -> "PENDING")
  BY SMT DEF Xendit!Invoice
<1> QED BY <1>1, SMT

\* Xendit's verify answers true only about a session whose money was taken, if not all of it.
LEMMA XenditVerify ==
  ASSUME NEW rail, NEW receipt, NEW net, NEW s, NEW pay,
         pay = Xendit!Payload(s), s.phase \in Xendit!Phases,
         Xendit!verify(rail, receipt, net, pay) = Ok(TRUE)
  PROVE  s.phase \in {"paid", "short"}
<1>1. /\ Xendit!invoice_to_outcome(pay.invoices[1]).ok
      /\ Xendit!invoice_to_outcome(pay.invoices[1]).val.settled
  BY DEF Ok, Xendit!verify, Xendit!Named, Xendit!Ok, Xendit!Answered, Xendit!do_json,
          Xendit!classify_error, Xendit!Decoded, Xendit!Then, Xendit!Exchange, Xendit!Err,
          Xendit!Decodes, Xendit!Garbage
<1>2. pay.invoices = <<Xendit!Invoice(s)>>
  BY DEF Xendit!Payload, Xendit!Over
<1>3. pay.invoices[1] = Xendit!Invoice(s)
  BY <1>2
<1>4. pay.invoices[1].status \in {"PAID", "SETTLED"}
  BY <1>1 DEF Xendit!invoice_to_outcome, Xendit!Err, Xendit!Then, Xendit!Ok
<1> QED BY <1>3, <1>4, XenditStatus

\* Yoco's verify answers true only about a session whose money was taken.
LEMMA YocoVerify ==
  ASSUME NEW rail, NEW receipt, NEW net, NEW s, NEW pay,
         pay = Yoco!Payload(s), s.phase \in Yoco!Phases,
         Yoco!verify(rail, receipt, net, pay) = Ok(TRUE)
  PROVE  s.phase \in {"paid", "refunded"}
<1>1. /\ Yoco!evaluate_checkout(pay).ok
      /\ Yoco!evaluate_checkout(pay).val.settled
  BY DEF Ok, Yoco!verify, Yoco!IsChargeProof, Yoco!Named, Yoco!Ok, Yoco!Answered, Yoco!do_json,
          Yoco!classify_error, Yoco!Decoded, Yoco!Decodes, Yoco!Then, Yoco!Exchange, Yoco!Err,
          Yoco!Garbage
<1> QED BY <1>1 DEF Yoco!evaluate_checkout, Yoco!Payload, Yoco!Err, Yoco!Ok

\* verify of every fiat rail: whatever the receipt, the configuration and the transport say,
\* Ok(true) is only answered about a session whose money the processor took (it may have
\* been refunded since); on Xendit it may be less money than the invoice asked for, since the
\* receipt of a charge claims 0.
THEOREM VerifyIsSound ==
  ASSUME NEW p \in Providers, NEW rail, NEW receipt, NEW net, NEW s, s.phase \in Phases(p),
         Verify(p, rail, receipt, net, Payload(p, s)) = Ok(TRUE)
  PROVE  s.phase \in {"paid", "refunded"} \/ (p = "xendit" /\ s.phase = "short")
<1>1. CASE p = "adyen"
  BY <1>1, AdyenDispatch DEF Ok, Adyen!verify, Adyen!Unsupported, Adyen!Err
<1>2. CASE p = "btcpay"
  <2>1. /\ Btcpay!verify(rail, receipt, net, Btcpay!Payload(s)) = Ok(TRUE)
        /\ s.phase \in Btcpay!Phases
    BY <1>2, BtcpayDispatch
  <2> QED BY <2>1, BtcpayVerify
<1>3. CASE p = "checkoutcom"
  <2>1. /\ Checkoutcom!verify(rail, receipt, net, Checkoutcom!Payload(s)) = Ok(TRUE)
        /\ s.phase \in Checkoutcom!Phases
    BY <1>3, CheckoutcomDispatch
  <2> QED BY <2>1, CheckoutcomVerify
<1>4. CASE p = "coinbasecommerce"
  <2>1. /\ Coinbasecommerce!verify(rail, receipt, net, Coinbasecommerce!Payload(s)) = Ok(TRUE)
        /\ s.phase \in Coinbasecommerce!Phases
    BY <1>4, CoinbasecommerceDispatch
  <2> QED BY <2>1, CoinbasecommerceVerify
<1>5. CASE p = "flutterwave"
  <2>1. /\ Flutterwave!verify(rail, receipt, net, Flutterwave!Payload(s)) = Ok(TRUE)
        /\ s.phase \in Flutterwave!Phases
    BY <1>5, FlutterwaveDispatch
  <2> QED BY <2>1, FlutterwaveVerify
<1>6. CASE p = "hyperswitch"
  <2>1. /\ Hyperswitch!verify(rail, receipt, net, Hyperswitch!Payload(s)) = Ok(TRUE)
        /\ s.phase \in Hyperswitch!Phases
    BY <1>6, HyperswitchDispatch
  <2> QED BY <2>1, HyperswitchVerify
<1>7. CASE p = "iyzico"
  <2>1. /\ Iyzico!verify(rail, receipt, net, Iyzico!Payload(s)) = Ok(TRUE)
        /\ s.phase \in Iyzico!Phases
    BY <1>7, IyzicoDispatch
  <2> QED BY <2>1, IyzicoVerify
<1>8. CASE p = "lnbits"
  <2>1. /\ Lnbits!verify(rail, receipt, net, Lnbits!Payload(s)) = Ok(TRUE)
        /\ s.phase \in Lnbits!Phases
    BY <1>8, LnbitsDispatch
  <2> QED BY <2>1, LnbitsVerify
<1>9. CASE p = "mercadopago"
  <2>1. /\ Mercadopago!verify(rail, receipt, net, Mercadopago!Payload(s)) = Ok(TRUE)
        /\ s.phase \in Mercadopago!Phases
    BY <1>9, MercadopagoDispatch
  <2> QED BY <2>1, MercadopagoVerify
<1>10. CASE p = "midtrans"
  <2>1. /\ Midtrans!verify(rail, receipt, net, Midtrans!Payload(s)) = Ok(TRUE)
        /\ s.phase \in Midtrans!Phases
    BY <1>10, MidtransDispatch
  <2> QED BY <2>1, MidtransVerify
<1>11. CASE p = "mollie"
  <2>1. /\ Mollie!verify(rail, receipt, net, Mollie!Payload(s)) = Ok(TRUE)
        /\ s.phase \in Mollie!Phases
    BY <1>11, MollieDispatch
  <2> QED BY <2>1, MollieVerify
<1>12. CASE p = "opennode"
  <2>1. /\ Opennode!verify(rail, receipt, net, Opennode!Payload(s)) = Ok(TRUE)
        /\ s.phase \in Opennode!Phases
    BY <1>12, OpennodeDispatch
  <2> QED BY <2>1, OpennodeVerify
<1>13. CASE p = "payfast"
  BY <1>13, PayfastDispatch DEF Ok, Payfast!verify, Payfast!Unsupported, Payfast!Err
<1>14. CASE p = "paypal"
  <2>1. /\ Paypal!verify(rail, receipt, net, Paypal!Payload(s)) = Ok(TRUE)
        /\ s.phase \in Paypal!Phases
    BY <1>14, PaypalDispatch
  <2> QED BY <2>1, PaypalVerify
<1>15. CASE p = "paystack"
  <2>1. /\ Paystack!verify(rail, receipt, net, Paystack!Payload(s)) = Ok(TRUE)
        /\ s.phase \in Paystack!Phases
    BY <1>15, PaystackDispatch
  <2> QED BY <2>1, PaystackVerify
<1>16. CASE p = "payu"
  <2>1. Payu!verify(rail, receipt, net, Payu!Payload(s)) = Ok(TRUE) /\ s.phase \in Payu!Phases
    BY <1>16, PayuDispatch
  <2> QED BY <2>1, PayuVerify
<1>17. CASE p = "razorpay"
  <2>1. /\ Razorpay!verify(rail, receipt, net, Razorpay!Payload(s)) = Ok(TRUE)
        /\ s.phase \in Razorpay!Phases
    BY <1>17, RazorpayDispatch
  <2> QED BY <2>1, RazorpayVerify
<1>18. CASE p = "square"
  <2>1. /\ Square!verify(rail, receipt, net, Square!Payload(s)) = Ok(TRUE)
        /\ s.phase \in Square!Phases
    BY <1>18, SquareDispatch
  <2> QED BY <2>1, SquareVerify
<1>19. CASE p = "stripe"
  <2>1. /\ Stripe!verify(rail, receipt, net, Stripe!Payload(s)) = Ok(TRUE)
        /\ s.phase \in Stripe!Phases
    BY <1>19, StripeDispatch
  <2> QED BY <2>1, StripeVerify
<1>20. CASE p = "xendit"
  <2>1. /\ Xendit!verify(rail, receipt, net, Xendit!Payload(s)) = Ok(TRUE)
        /\ s.phase \in Xendit!Phases
    BY <1>20, XenditDispatch
  <2> QED BY <1>20, <2>1, XenditVerify
<1>21. CASE p = "yoco"
  <2>1. Yoco!verify(rail, receipt, net, Yoco!Payload(s)) = Ok(TRUE) /\ s.phase \in Yoco!Phases
    BY <1>21, YocoDispatch
  <2> QED BY <2>1, YocoVerify
<1> QED BY <1>1, <1>2, <1>3, <1>4, <1>5, <1>6, <1>7, <1>8, <1>9, <1>10, <1>11, <1>12, <1>13,
          <1>14, <1>15, <1>16, <1>17, <1>18, <1>19, <1>20, <1>21 DEF Providers

-----------------------------------------------------------------------------
(* verify_webhook *)

\* An Adyen notification item that passes its HMAC check was signed with that key, carries
\* the session's reference and id, and reports success only of a paid session.
LEMMA AdyenItem ==
  ASSUME NEW s, NEW secret, NEW key, Adyen!Usable(Adyen!Item(s, secret), key)
  PROVE  /\ key = secret
         /\ Adyen!Item(s, secret).merchant_reference = s.reference
         /\ Adyen!Item(s, secret).psp_reference = s.id
         /\ Adyen!Item(s, secret).success = "true" => s.phase = "paid"
BY DEF Adyen!Item, Adyen!Usable, Adyen!Over, Adyen!Signature, Adyen!verify_item_hmac,
          Adyen!verify_hmac

\* Adyen's batch parser only succeeds on a batch with an item it can use.
LEMMA AdyenUsable ==
  ASSUME NEW key, NEW items, Adyen!verify_and_parse(key, items).ok
  PROVE  \E i \in DOMAIN items : Adyen!Usable(items[i], key)
BY DEF Adyen!verify_and_parse, Adyen!Err, Adyen!Ok

\* Of Adyen's two items, the one the parser picks is the first it can use.
LEMMA AdyenFirst ==
  ASSUME NEW key, NEW items, DOMAIN items = {1, 2}, Adyen!verify_and_parse(key, items).ok
  PROVE  \E i \in {1, 2} : i = Adyen!FirstUsable(items, key) /\ Adyen!Usable(items[i], key)
<1> DEFINE U(i) == Adyen!Usable(items[i], key)
           First(i) == U(i) /\ \A j \in 1..(i - 1) : ~U(j)
<1>1. \E i \in DOMAIN items : U(i)
  BY AdyenUsable
<1>2. \E i \in DOMAIN items : First(i)
  <2>1. CASE U(1)
    BY <2>1
  <2>2. CASE ~U(1)
    BY <2>2, <1>1
  <2> QED BY <2>1, <2>2
<1>3. Adyen!FirstUsable(items, key) = CHOOSE i \in DOMAIN items : First(i)
  BY DEF Adyen!FirstUsable
<1> HIDE DEF First
<1>4. PICK i : i = CHOOSE k \in DOMAIN items : First(k)
  OBVIOUS
<1>5. i \in DOMAIN items /\ First(i)
  BY <1>2, <1>4
<1> QED BY <1>3, <1>4, <1>5 DEF First

\* What Adyen's batch parser returns is read off that first usable item.
LEMMA AdyenOutcome ==
  ASSUME NEW key, NEW items, \E i \in DOMAIN items : Adyen!Usable(items[i], key)
  PROVE  LET item == items[Adyen!FirstUsable(items, key)]
         IN  Adyen!verify_and_parse(key, items) =
               Adyen!Ok([event_id |-> item.psp_reference, reference |-> item.merchant_reference,
                         settled |-> item.success = "true", currency |-> Adyen!Upper(item.currency),
                         amount_minor |-> IF item.success = "true" THEN item.value ELSE 0])
BY Zenon DEF Adyen!verify_and_parse, Adyen!Ok

\* Adyen's item about a session still pending is not an authorisation: it is passed over.
LEMMA AdyenPending ==
  ASSUME NEW s, NEW secret, NEW key, s.phase = "pending"
  PROVE  ~Adyen!Usable(Adyen!Item(s, secret), key)
BY DEF Adyen!Usable, Adyen!Item, Adyen!Over

\* Whichever item of a delivery about t is usable, it speaks of t and was signed with the key.
LEMMA AdyenSays ==
  ASSUME NEW t, IsSession(t), NEW secret, NEW key, NEW items, NEW i \in {1, 2},
         items = <<Adyen!Item([t EXCEPT !.phase = "pending"], secret), Adyen!Item(t, secret)>>,
         Adyen!Usable(items[i], key)
  PROVE  /\ key = secret
         /\ items[i].merchant_reference = t.reference
         /\ items[i].psp_reference = t.id
         /\ items[i].success = "true" => t.phase = "paid"
<1>1. CASE i = 1
  <2>1. PICK x : x = [t EXCEPT !.phase = "pending"]
    OBVIOUS
  <2>2. x.phase = "pending"
    BY <2>1 DEF IsSession
  <2>3. items[i] = Adyen!Item(x, secret)
    BY <1>1, <2>1
  <2> QED BY <2>2, <2>3, AdyenPending
<1>2. CASE i = 2
  BY <1>2, AdyenItem
<1> QED BY <1>1, <1>2

\* The three fields of the parsed outcome that verify_webhook reads.
LEMMA AdyenFields ==
  ASSUME NEW v, NEW a, NEW b, NEW c, NEW d, NEW x,
         v = Adyen!Ok([event_id |-> a, reference |-> b, settled |-> c = "true", currency |-> d,
                       amount_minor |-> x])
  PROVE  v.val.event_id = a /\ v.val.reference = b /\ (v.val.settled => c = "true")
<1>1. v.val.settled => c = "true"
  BY Zenon DEF Adyen!Ok
<1>2. v.val.event_id = a /\ v.val.reference = b
  BY DEF Adyen!Ok
<1> QED BY <1>1, <1>2

\* The outcome of a parsed Adyen batch is one usable item's.
LEMMA AdyenParsed ==
  ASSUME NEW key, NEW items, DOMAIN items = {1, 2}, NEW v, v = Adyen!verify_and_parse(key, items), v.ok
  PROVE  \E i \in {1, 2} : /\ Adyen!Usable(items[i], key)
                           /\ v.val.settled => items[i].success = "true"
                           /\ v.val.reference = items[i].merchant_reference
                           /\ v.val.event_id = items[i].psp_reference
<1>1. PICK i \in {1, 2} : i = Adyen!FirstUsable(items, key) /\ Adyen!Usable(items[i], key)
  BY AdyenFirst
<1>2. v = Adyen!Ok([event_id |-> items[i].psp_reference, reference |-> items[i].merchant_reference,
                    settled |-> items[i].success = "true", currency |-> Adyen!Upper(items[i].currency),
                    amount_minor |-> IF items[i].success = "true" THEN items[i].value ELSE 0])
  BY <1>1, AdyenOutcome, AdyenUsable
<1> QED BY <1>1, <1>2, AdyenFields

\* A settled Adyen batch about t was signed with the rail's key, and t was paid.
LEMMA AdyenBatch ==
  ASSUME NEW t, IsSession(t), NEW secret, NEW key, NEW items,
         items = <<Adyen!Item([t EXCEPT !.phase = "pending"], secret), Adyen!Item(t, secret)>>,
         NEW v, v = Adyen!verify_and_parse(key, items), v.ok, v.val.settled
  PROVE  /\ key = secret /\ t.phase = "paid"
         /\ v.val.reference = t.reference /\ v.val.event_id = t.id
<1>1. DOMAIN items = {1, 2}
  OBVIOUS
<1>2. PICK i \in {1, 2} : /\ Adyen!Usable(items[i], key)
                          /\ v.val.settled => items[i].success = "true"
                          /\ v.val.reference = items[i].merchant_reference
                          /\ v.val.event_id = items[i].psp_reference
  BY <1>1, AdyenParsed
<1>3. /\ key = secret
      /\ items[i].merchant_reference = t.reference
      /\ items[i].psp_reference = t.id
      /\ items[i].success = "true" => t.phase = "paid"
  BY <1>2, AdyenSays
<1> QED BY <1>2, <1>3

\* Adyen's verify_webhook calls a delivery settled only if it was made with the rail's
\* own secret about a payment, or the session it fetched was paid; it names that session.
LEMMA AdyenWebhook ==
  ASSUME NEW rail, NEW secret, NEW age, NEW net, NEW s, NEW t, NEW body, NEW d, NEW pay, NEW e,
         t.id = s.id, t.reference = s.reference, t.past = s.past, IsSession(t),
         s.phase \in Adyen!Phases, t.phase \in Adyen!Phases,
         body = Adyen!Event(t, secret), pay = Adyen!Payload(s),
         d = [raw_body |-> body, headers |-> Adyen!Headers(secret, body, 0), now_unix |-> age],
         e = Adyen!verify_webhook(rail, d, net, pay), e.ok, e.val.status = "Settled"
  PROVE  /\ \/ t.phase \in {"paid", "refunded"} /\ Adyen!Secret(rail) = secret
            \/ s.phase \in {"paid", "refunded"}
            \/ "paid" \in s.past
         /\ e.val.reference \in {s.id, s.reference, Adyen!Blank}
         /\ e.val.object_id \in {s.id, Adyen!Blank}
<1> DEFINE items == body.notification_items
           key == rail.config.hmac_key_hex
           v == Adyen!verify_and_parse(key, items)
<1>1. e = Adyen!Then(v, LAMBDA x : Adyen!Ok(Adyen!with_object_id(Adyen!settlement(rail.id, x.event_id,
             x.reference, x.settled, x.amount_minor, x.currency), x.event_id)))
  BY SMT DEF Adyen!verify_webhook
<1> HIDE DEF v
<1>2. /\ v.ok /\ v.val.settled
      /\ e.val.reference = v.val.reference
      /\ e.val.object_id = v.val.event_id
  BY <1>1, SMT DEF Adyen!Then, Adyen!settlement, Adyen!Ok, Adyen!with_object_id
<1>3. items = <<Adyen!Item([t EXCEPT !.phase = "pending"], secret), Adyen!Item(t, secret)>>
  BY DEF Adyen!Event
<1> HIDE DEF items
<1>4. /\ key = secret /\ t.phase = "paid"
      /\ v.val.reference = t.reference /\ v.val.event_id = t.id
  BY <1>2, <1>3, AdyenBatch DEF v
<1> QED BY <1>2, <1>4 DEF Adyen!Secret

\* BTCPay's verify_webhook calls a delivery settled only if it was made with the rail's
\* own secret about a payment, or the session it fetched was paid; it names that session.
LEMMA BtcpayWebhook ==
  ASSUME NEW rail, NEW secret, NEW age, NEW net, NEW s, NEW t, NEW body, NEW d, NEW pay, NEW e,
         t.id = s.id, t.reference = s.reference, t.past = s.past,
         s.phase \in Btcpay!Phases, t.phase \in Btcpay!Phases,
         body = Btcpay!Event(t, secret), pay = Btcpay!Payload(s),
         d = [raw_body |-> body, headers |-> Btcpay!Headers(secret, body, 0), now_unix |-> age],
         e = Btcpay!verify_webhook(rail, d, net, pay), e.ok, e.val.status = "Settled"
  PROVE  /\ \/ t.phase \in {"paid", "refunded"} /\ Btcpay!Secret(rail) = secret
            \/ s.phase \in {"paid", "refunded"}
            \/ "paid" \in s.past
         /\ e.val.reference \in {s.id, s.reference, Btcpay!Blank}
         /\ e.val.object_id \in {s.id, Btcpay!Blank}
BY DEF Btcpay!verify_webhook, Btcpay!Payload, Btcpay!Event, Btcpay!Headers, Btcpay!Secret,
          Btcpay!Phases, Btcpay!header, Btcpay!Err, Btcpay!Then, Btcpay!verify_and_extract,
          Btcpay!Ok, Btcpay!unconfirmed, Btcpay!Entry, Btcpay!Signature, Btcpay!verify_hmac

\* Checkout.com's verify_webhook calls a delivery settled only if it was made with the rail's
\* own secret about a payment, or the session it fetched was paid; it names that session.
LEMMA CheckoutcomWebhook ==
  ASSUME NEW rail, NEW secret, NEW age, NEW net, NEW s, NEW t, NEW body, NEW d, NEW pay, NEW e,
         t.id = s.id, t.reference = s.reference, t.past = s.past,
         s.phase \in Checkoutcom!Phases, t.phase \in Checkoutcom!Phases,
         body = Checkoutcom!Event(t, secret), pay = Checkoutcom!Payload(s),
         d = [raw_body |-> body, headers |-> Checkoutcom!Headers(secret, body, 0), now_unix |-> age],
         e = Checkoutcom!verify_webhook(rail, d, net, pay), e.ok, e.val.status = "Settled"
  PROVE  /\ \/ t.phase \in {"paid", "refunded"} /\ Checkoutcom!Secret(rail) = secret
            \/ s.phase \in {"paid", "refunded"}
            \/ "paid" \in s.past
         /\ e.val.reference \in {s.id, s.reference, Checkoutcom!Blank}
         /\ e.val.object_id \in {s.id, Checkoutcom!Blank}
<1>1. /\ Checkoutcom!evaluate_payment(body.data).ok
      /\ Checkoutcom!evaluate_payment(body.data).val.settled
      /\ e.val.reference = Checkoutcom!evaluate_payment(body.data).val.reference
      /\ e.val.object_id = Checkoutcom!Blank
      /\ Checkoutcom!Secret(rail) = secret
  BY DEF Checkoutcom!verify_webhook, Checkoutcom!Headers, Checkoutcom!Secret, Checkoutcom!header,
          Checkoutcom!Err, Checkoutcom!Then, Checkoutcom!verify_and_parse, Checkoutcom!Ok,
          Checkoutcom!settlement, Checkoutcom!Entry, Checkoutcom!Signature,
          Checkoutcom!verify_hmac
<1> QED BY <1>1 DEF Checkoutcom!evaluate_payment, Checkoutcom!Payload, Checkoutcom!Event,
          Checkoutcom!Phases, Checkoutcom!Err, Checkoutcom!Then, Checkoutcom!Ok

\* Coinbase Commerce's verify_webhook calls a delivery settled only if it was made with the rail's
\* own secret about a payment, or the session it fetched was paid; it names that session.
LEMMA CoinbasecommerceWebhook ==
  ASSUME NEW rail, NEW secret, NEW age, NEW net, NEW s, NEW t, NEW body, NEW d, NEW pay, NEW e,
         t.id = s.id, t.reference = s.reference, t.past = s.past,
         s.phase \in Coinbasecommerce!Phases, t.phase \in Coinbasecommerce!Phases,
         body = Coinbasecommerce!Event(t, secret), pay = Coinbasecommerce!Payload(s),
         d = [raw_body |-> body, headers |-> Coinbasecommerce!Headers(secret, body, 0), now_unix |-> age],
         e = Coinbasecommerce!verify_webhook(rail, d, net, pay), e.ok, e.val.status = "Settled"
  PROVE  /\ \/ t.phase \in {"paid", "refunded"} /\ Coinbasecommerce!Secret(rail) = secret
            \/ s.phase \in {"paid", "refunded"}
            \/ "paid" \in s.past
         /\ e.val.reference \in {s.id, s.reference, Coinbasecommerce!Blank}
         /\ e.val.object_id \in {s.id, Coinbasecommerce!Blank}
BY DEF Coinbasecommerce!verify_webhook, Coinbasecommerce!Payload, Coinbasecommerce!Event,
          Coinbasecommerce!Headers, Coinbasecommerce!Secret, Coinbasecommerce!Phases,
          Coinbasecommerce!header, Coinbasecommerce!Err, Coinbasecommerce!Then,
          Coinbasecommerce!verify_and_extract, Coinbasecommerce!Ok, Coinbasecommerce!unconfirmed,
          Coinbasecommerce!Entry, Coinbasecommerce!Signature, Coinbasecommerce!verify_hmac

\* Flutterwave's verify_webhook calls a delivery settled only if it was made with the rail's
\* own secret about a payment, or the session it fetched was paid; it names that session.
LEMMA FlutterwaveWebhook ==
  ASSUME NEW rail, NEW secret, NEW age, NEW net, NEW s, NEW t, NEW body, NEW d, NEW pay, NEW e,
         t.id = s.id, t.reference = s.reference, t.past = s.past,
         s.phase \in Flutterwave!Phases, t.phase \in Flutterwave!Phases,
         body = Flutterwave!Event(t, secret), pay = Flutterwave!Payload(s),
         d = [raw_body |-> body, headers |-> Flutterwave!Headers(secret, body, 0), now_unix |-> age],
         e = Flutterwave!verify_webhook(rail, d, net, pay), e.ok, e.val.status = "Settled"
  PROVE  /\ \/ t.phase \in {"paid", "refunded"} /\ Flutterwave!Secret(rail) = secret
            \/ s.phase \in {"paid", "refunded"}
            \/ "paid" \in s.past
         /\ e.val.reference \in {s.id, s.reference, Flutterwave!Blank}
         /\ e.val.object_id \in {s.id, Flutterwave!Blank}
<1>1. /\ Flutterwave!evaluate_transaction(body.data).ok
      /\ Flutterwave!evaluate_transaction(body.data).val.settled
      /\ e.val.reference = Flutterwave!evaluate_transaction(body.data).val.reference
      /\ e.val.object_id = Flutterwave!Blank
      /\ Flutterwave!Secret(rail) = secret
  BY DEF Flutterwave!verify_webhook, Flutterwave!Headers, Flutterwave!Secret, Flutterwave!header,
          Flutterwave!Err, Flutterwave!Then, Flutterwave!verify_and_parse, Flutterwave!Ok,
          Flutterwave!settlement, Flutterwave!Entry, Flutterwave!constant_time_eq
<1> QED BY <1>1 DEF Flutterwave!evaluate_transaction, Flutterwave!Payload, Flutterwave!Event,
          Flutterwave!Phases, Flutterwave!Err, Flutterwave!Then, Flutterwave!Ok,
          Flutterwave!Transaction

\* Hyperswitch's verify_webhook calls a delivery about a session settled only if the
\* processor, asked again, says that the session was paid, whatever the delivery says.
LEMMA HyperswitchWebhook ==
  ASSUME NEW rail, NEW secret, NEW age, NEW net, NEW s, NEW t, NEW body, NEW d, NEW pay, NEW e,
         t.id = s.id, t.reference = s.reference, t.past = s.past,
         s.phase \in Hyperswitch!Phases, t.phase \in Hyperswitch!Phases,
         body = Hyperswitch!Event(t, secret), pay = Hyperswitch!Payload(s),
         d = [raw_body |-> body, headers |-> Hyperswitch!Headers(secret, body, 0), now_unix |-> age],
         e = Hyperswitch!verify_webhook(rail, d, net, pay), e.ok, e.val.status = "Settled"
  PROVE  /\ \/ s.phase \in {"paid", "refunded"}
            \/ "paid" \in s.past
         /\ e.val.reference \in {s.id, s.reference, Hyperswitch!Blank}
         /\ e.val.object_id \in {s.id, Hyperswitch!Blank}
BY DEF Hyperswitch!verify_webhook, Hyperswitch!Payload, Hyperswitch!Event, Hyperswitch!Headers,
          Hyperswitch!Secret, Hyperswitch!Phases, Hyperswitch!Unsupported, Hyperswitch!header,
          Hyperswitch!Err, Hyperswitch!verify_webhook_signature, Hyperswitch!Ok,
          Hyperswitch!unconfirmed, Hyperswitch!Entry, Hyperswitch!Signature,
          Hyperswitch!verify_hmac

\* iyzico's verify_webhook calls a delivery about a session settled only if the
\* processor, asked again, says that the session was paid, whatever the delivery says.
LEMMA IyzicoWebhook ==
  ASSUME NEW rail, NEW secret, NEW age, NEW net, NEW s, NEW t, NEW body, NEW d, NEW pay, NEW e,
         t.id = s.id, t.reference = s.reference, t.past = s.past,
         s.phase \in Iyzico!Phases, t.phase \in Iyzico!Phases,
         body = Iyzico!Event(t, secret), pay = Iyzico!Payload(s),
         d = [raw_body |-> body, headers |-> Iyzico!Headers(secret, body, 0), now_unix |-> age],
         e = Iyzico!verify_webhook(rail, d, net, pay), e.ok, e.val.status = "Settled"
  PROVE  /\ \/ s.phase \in {"paid", "refunded"}
            \/ "paid" \in s.past
         /\ e.val.reference \in {s.id, s.reference, Iyzico!Blank}
         /\ e.val.object_id \in {s.id, Iyzico!Blank}
<1> DEFINE ct == IF body.encoding = "json" THEN "application/json"
                 ELSE "application/x-www-form-urlencoded"
           v == Iyzico!handle_webhook(ct, body, net, pay)
<1>1. e = Iyzico!Then(v, LAMBDA x : Iyzico!Ok(Iyzico!with_object_id(Iyzico!settlement(rail.id,
             x.token, Iyzico!Blank, x.outcome.settled, x.outcome.amount_minor,
             x.outcome.currency), x.token)))
  BY SMT DEF Iyzico!verify_webhook, Iyzico!Headers, Iyzico!header, Iyzico!Entry
<1> HIDE DEF v, ct
<1>2. /\ v.ok /\ v.val.outcome.settled
      /\ e.val.reference = Iyzico!Blank
      /\ e.val.object_id = v.val.token
  BY <1>1, SMT DEF Iyzico!Then, Iyzico!settlement, Iyzico!Ok, Iyzico!with_object_id
<1>3. Iyzico!extract_token(ct, body).ok => Iyzico!extract_token(ct, body).val = body.token
  BY SMT DEF Iyzico!extract_token, Iyzico!Ok, Iyzico!Err
<1>4. Iyzico!retrieve_checkout_form(net, pay).ok =>
        Iyzico!retrieve_checkout_form(net, pay).val = pay
  BY DEF Iyzico!retrieve_checkout_form, Iyzico!Answered, Iyzico!do_post, Iyzico!classify_error,
          Iyzico!Decoded, Iyzico!Ok, Iyzico!Then, Iyzico!Exchange, Iyzico!Err, Iyzico!Decodes,
          Iyzico!Garbage
<1>5. /\ Iyzico!evaluate_checkout_form(pay).ok
      /\ v.val = [token |-> body.token, outcome |-> Iyzico!evaluate_checkout_form(pay).val]
  BY <1>2, <1>3, <1>4, SMT DEF v, Iyzico!handle_webhook, Iyzico!Then, Iyzico!Ok
<1> QED BY <1>2, <1>5 DEF Iyzico!evaluate_checkout_form, Iyzico!Payload, Iyzico!Event,
          Iyzico!Phases, Iyzico!Err, Iyzico!Then, Iyzico!Ok

\* LNbits's verify_webhook calls a delivery settled only if it was made with the rail's
\* own secret about a payment, or the session it fetched was paid; it names that session.
LEMMA LnbitsWebhook ==
  ASSUME NEW rail, NEW secret, NEW age, NEW net, NEW s, NEW t, NEW body, NEW d, NEW pay, NEW e,
         t.id = s.id, t.reference = s.reference, t.past = s.past,
         s.phase \in Lnbits!Phases, t.phase \in Lnbits!Phases,
         body = Lnbits!Event(t, secret), pay = Lnbits!Payload(s),
         d = [raw_body |-> body, headers |-> Lnbits!Headers(secret, body, 0), now_unix |-> age],
         e = Lnbits!verify_webhook(rail, d, net, pay), e.ok, e.val.status = "Settled"
  PROVE  /\ \/ t.phase \in {"paid", "refunded"} /\ Lnbits!Secret(rail) = secret
            \/ s.phase \in {"paid", "refunded"}
            \/ "paid" \in s.past
         /\ e.val.reference \in {s.id, s.reference, Lnbits!Blank}
         /\ e.val.object_id \in {s.id, Lnbits!Blank}
BY DEF Lnbits!verify_webhook, Lnbits!Payload, Lnbits!Event, Lnbits!Headers, Lnbits!Secret,
          Lnbits!Phases, Lnbits!Then, Lnbits!verify_and_extract, Lnbits!query_param, Lnbits!Ok,
          Lnbits!unconfirmed, Lnbits!Entry, Lnbits!constant_time_eq, Lnbits!Err

\* Mercado Pago's handle_webhook answers with the payment it fetched, not with the body.
LEMMA MercadopagoFetched ==
  ASSUME NEW rail, NEW body, NEW h, NEW id, NEW net, NEW found,
         Mercadopago!handle_webhook(rail, body, h, id, net, found).ok
  PROVE  Mercadopago!handle_webhook(rail, body, h, id, net, found) =
           Mercadopago!evaluate_payment(found.payment)
BY DEF Mercadopago!handle_webhook, Mercadopago!Then, Mercadopago!verify_signature_and_extract_id,
          Mercadopago!Answered, Mercadopago!do_json, Mercadopago!classify_error,
          Mercadopago!Decoded, Mercadopago!Err, Mercadopago!verify_hmac, Mercadopago!Ok,
          Mercadopago!Exchange, Mercadopago!Decodes, Mercadopago!Garbage

\* Mercado Pago's verify_webhook calls a delivery settled only if it was made with the rail's
\* own secret about a payment, or the session it fetched was paid; it names that session.
LEMMA MercadopagoWebhook ==
  ASSUME NEW rail, NEW secret, NEW age, NEW net, NEW s, NEW t, NEW body, NEW d, NEW pay, NEW e,
         t.id = s.id, t.reference = s.reference, t.past = s.past,
         s.phase \in Mercadopago!Phases, t.phase \in Mercadopago!Phases,
         body = Mercadopago!Event(t, secret), pay = Mercadopago!Payload(s),
         d = [raw_body |-> body, headers |-> Mercadopago!Headers(secret, body, 0), now_unix |-> age],
         e = Mercadopago!verify_webhook(rail, d, net, pay), e.ok, e.val.status = "Settled"
  PROVE  /\ \/ t.phase \in {"paid", "refunded"} /\ Mercadopago!Secret(rail) = secret
            \/ s.phase \in {"paid", "refunded"}
            \/ "paid" \in s.past
         /\ e.val.reference \in {s.id, s.reference, Mercadopago!Blank}
         /\ e.val.object_id \in {s.id, Mercadopago!Blank}
<1> DEFINE h == [ts |-> 0, v1 |-> Mercadopago!Signature(secret, <<body.data_id, "request", 0>>)]
           v == Mercadopago!handle_webhook(rail, body, h, "request", net, pay)
<1>1. e = Mercadopago!Then(v, LAMBDA x : Mercadopago!Ok(Mercadopago!with_object_id(
             Mercadopago!settlement(rail.id, x.event_id, x.reference, x.settled, x.amount_minor,
             x.currency), x.event_id)))
  BY SMT DEF Mercadopago!verify_webhook, Mercadopago!Headers, Mercadopago!header, Mercadopago!Err,
          Mercadopago!Over, Mercadopago!Entry
<1> HIDE DEF v
<1>2. /\ v.ok /\ v.val.settled
      /\ e.val.reference = v.val.reference
      /\ e.val.object_id = v.val.event_id
  BY <1>1, SMT DEF Mercadopago!Then, Mercadopago!settlement, Mercadopago!Ok,
          Mercadopago!with_object_id
<1>3. v = Mercadopago!evaluate_payment(pay.payment)
  BY <1>2, MercadopagoFetched DEF v
<1> QED BY <1>2, <1>3 DEF Mercadopago!evaluate_payment, Mercadopago!Payload, Mercadopago!Event,
          Mercadopago!Phases, Mercadopago!Err, Mercadopago!Then, Mercadopago!Ok,
          Mercadopago!Current, Mercadopago!Payment

\* Midtrans settles on a settlement, or on a capture that fraud screening accepted.
LEMMA MidtransOutcome ==
  ASSUME NEW n, Midtrans!evaluate_status(n).ok, Midtrans!evaluate_status(n).val.settled
  PROVE  \/ n.transaction_status = "settlement"
         \/ n.transaction_status = "capture" /\ n.fraud_status = "accept"
BY DEF Midtrans!evaluate_status, Midtrans!Err, Midtrans!Then, Midtrans!currency_or_idr,
          Midtrans!Ok

\* Midtrans's verify_webhook calls a delivery settled only if it was made with the rail's
\* own secret about a payment, or the session it fetched was paid; it names that session.
LEMMA MidtransWebhook ==
  ASSUME NEW rail, NEW secret, NEW age, NEW net, NEW s, NEW t, NEW body, NEW d, NEW pay, NEW e,
         t.id = s.id, t.reference = s.reference, t.past = s.past,
         s.phase \in Midtrans!Phases, t.phase \in Midtrans!Phases,
         body = Midtrans!Event(t, secret), pay = Midtrans!Payload(s),
         d = [raw_body |-> body, headers |-> Midtrans!Headers(secret, body, 0), now_unix |-> age],
         e = Midtrans!verify_webhook(rail, d, net, pay), e.ok, e.val.status = "Settled"
  PROVE  /\ \/ t.phase \in {"paid", "refunded"} /\ Midtrans!Secret(rail) = secret
            \/ s.phase \in {"paid", "refunded"}
            \/ "paid" \in s.past
         /\ e.val.reference \in {s.id, s.reference, Midtrans!Blank}
         /\ e.val.object_id \in {s.id, Midtrans!Blank}
<1> DEFINE v == Midtrans!verify_and_parse(rail.config.server_key, body)
<1>1. e = Midtrans!Then(v, LAMBDA x : Midtrans!Ok(Midtrans!settlement(rail.id, x.outcome.event_id,
             x.reference, x.outcome.settled, x.outcome.amount_minor, x.outcome.currency)))
  BY SMT DEF Midtrans!verify_webhook
<1> HIDE DEF v
<1>2. /\ v.ok /\ v.val.outcome.settled
      /\ e.val.reference = v.val.reference
      /\ e.val.object_id = Midtrans!Blank
  BY <1>1, SMT DEF Midtrans!Then, Midtrans!settlement, Midtrans!Ok
<1>3. /\ rail.config.server_key = body.signature_key.key
      /\ Midtrans!evaluate_status(body).ok
      /\ v.val = [outcome |-> Midtrans!evaluate_status(body).val, reference |-> body.order_id]
  BY <1>2, SMTT(60) DEF v, Midtrans!verify_and_parse, Midtrans!verify_hmac, Midtrans!Err,
          Midtrans!Then, Midtrans!Ok
<1>4. /\ body.signature_key.key = secret
      /\ body.order_id = t.reference
      /\ body.transaction_status = Midtrans!Payload(t).transaction_status
      /\ body.fraud_status = Midtrans!Payload(t).fraud_status
  BY ZenonT(60) DEF Midtrans!Event, Midtrans!Payload, Midtrans!Over, Midtrans!Signature
<1>5. t.phase = "paid"
  BY <1>2, <1>3, <1>4, MidtransOutcome DEF Midtrans!Payload, Midtrans!Phases
<1> QED BY <1>2, <1>3, <1>4, <1>5 DEF Midtrans!Secret

\* Mollie's verify_webhook calls a delivery about a session settled only if the
\* processor, asked again, says that the session was paid, whatever the delivery says.
LEMMA MollieWebhook ==
  ASSUME NEW rail, NEW secret, NEW age, NEW net, NEW s, NEW t, NEW body, NEW d, NEW pay, NEW e,
         t.id = s.id, t.reference = s.reference, t.past = s.past,
         s.phase \in Mollie!Phases, t.phase \in Mollie!Phases,
         body = Mollie!Event(t, secret), pay = Mollie!Payload(s),
         d = [raw_body |-> body, headers |-> Mollie!Headers(secret, body, 0), now_unix |-> age],
         e = Mollie!verify_webhook(rail, d, net, pay), e.ok, e.val.status = "Settled"
  PROVE  /\ \/ s.phase \in {"paid", "refunded"}
            \/ "paid" \in s.past
         /\ e.val.reference \in {s.id, s.reference, Mollie!Blank}
         /\ e.val.object_id \in {s.id, Mollie!Blank}
<1> DEFINE v == Mollie!handle_webhook(body, net, pay)
<1>1. e = Mollie!Then(v, LAMBDA x : Mollie!Ok(Mollie!with_object_id(Mollie!settlement(rail.id,
             x.event_id, x.outcome.reference, x.outcome.settled, x.outcome.amount_minor,
             x.outcome.currency), x.event_id)))
  BY SMT DEF Mollie!verify_webhook
<1> HIDE DEF v
<1>2. /\ v.ok /\ v.val.outcome.settled
      /\ e.val.reference = v.val.outcome.reference
      /\ e.val.object_id = v.val.event_id
  BY <1>1, SMT DEF Mollie!Then, Mollie!settlement, Mollie!Ok, Mollie!with_object_id
<1>3. /\ Mollie!fetch_outcome(net, pay).ok
      /\ v.val = [event_id |-> body.id, outcome |-> Mollie!fetch_outcome(net, pay).val]
  BY <1>2, SMT DEF v, Mollie!handle_webhook, Mollie!Then, Mollie!extract_payment_id, Mollie!Ok,
          Mollie!Err
<1>4. Mollie!fetch_outcome(net, pay).ok =>
        Mollie!fetch_outcome(net, pay) = Mollie!evaluate_payment(pay)
  BY DEF Mollie!fetch_outcome, Mollie!Answered, Mollie!do_json, Mollie!classify_error,
          Mollie!Decoded, Mollie!Then, Mollie!Exchange, Mollie!Err, Mollie!Decodes, Mollie!Ok,
          Mollie!Garbage
<1> QED BY <1>2, <1>3, <1>4 DEF Mollie!evaluate_payment, Mollie!Payload, Mollie!Event,
          Mollie!Phases, Mollie!Err, Mollie!Then, Mollie!Ok

\* OpenNode's verify_webhook calls a delivery settled only if it was made with the rail's
\* own secret about a payment, or the session it fetched was paid; it names that session.
LEMMA OpennodeWebhook ==
  ASSUME NEW rail, NEW secret, NEW age, NEW net, NEW s, NEW t, NEW body, NEW d, NEW pay, NEW e,
         t.id = s.id, t.reference = s.reference, t.past = s.past,
         s.phase \in Opennode!Phases, t.phase \in Opennode!Phases,
         body = Opennode!Event(t, secret), pay = Opennode!Payload(s),
         d = [raw_body |-> body, headers |-> Opennode!Headers(secret, body, 0), now_unix |-> age],
         e = Opennode!verify_webhook(rail, d, net, pay), e.ok, e.val.status = "Settled"
  PROVE  /\ \/ t.phase \in {"paid", "refunded"} /\ Opennode!Secret(rail) = secret
            \/ s.phase \in {"paid", "refunded"}
            \/ "paid" \in s.past
         /\ e.val.reference \in {s.id, s.reference, Opennode!Blank}
         /\ e.val.object_id \in {s.id, Opennode!Blank}
BY DEF Opennode!verify_webhook, Opennode!Payload, Opennode!Event, Opennode!Headers,
          Opennode!Secret, Opennode!Phases, Opennode!Then, Opennode!verify_and_extract,
          Opennode!Ok, Opennode!unconfirmed, Opennode!Signature, Opennode!verify_hmac,
          Opennode!Err

\* PayFast settles only on COMPLETE, under the caller's m_payment_id.
LEMMA PayfastOutcome ==
  ASSUME NEW n, Payfast!evaluate_notification(n).ok, Payfast!evaluate_notification(n).val.settled
  PROVE  /\ n.payment_status = "COMPLETE"
         /\ Payfast!evaluate_notification(n).val.reference = n.m_payment_id
BY DEF Payfast!evaluate_notification, Payfast!Err, Payfast!Then, Payfast!Ok

\* PayFast's verify_webhook calls a delivery about a session settled only if the
\* processor, asked again, says that the session was paid, whatever the delivery says.
LEMMA PayfastWebhook ==
  ASSUME NEW rail, NEW secret, NEW age, NEW net, NEW s, NEW t, NEW body, NEW d, NEW pay, NEW e,
         t.id = s.id, t.reference = s.reference, t.past = s.past, IsSession(s),
         s.phase \in Payfast!Phases, t.phase \in Payfast!Phases,
         body = Payfast!Event(t, secret), pay = Payfast!Payload(s),
         d = [raw_body |-> body, headers |-> Payfast!Headers(secret, body, 0), now_unix |-> age],
         e = Payfast!verify_webhook(rail, d, net, pay), e.ok, e.val.status = "Settled"
  PROVE  /\ \/ s.phase \in {"paid", "refunded"}
            \/ "paid" \in s.past
         /\ e.val.reference \in {s.id, s.reference, Payfast!Blank}
         /\ e.val.object_id \in {s.id, Payfast!Blank}
<1> DEFINE h == Payfast!handle_itn(rail, body, net, pay)
           v == Payfast!verify_and_parse(rail.config.passphrase, body)
<1>1. e = Payfast!Then(h, LAMBDA x : Payfast!Ok(Payfast!settlement(rail.id, x.event_id, x.reference,
             x.settled, x.amount_minor, "ZAR")))
  BY SMT DEF Payfast!verify_webhook
<1> HIDE DEF h
<1>2. /\ h.ok
      /\ h.val.settled
      /\ e.val.reference = h.val.reference
      /\ e.val.object_id = Payfast!Blank
  BY <1>1, SMT DEF Payfast!Then, Payfast!settlement, Payfast!Ok
<1>3. Payfast!confirm_with_payfast(net, body, pay).ok /\ v.ok /\ h.val = v.val
  BY <1>2, SMT DEF h, Payfast!handle_itn, Payfast!Then, Payfast!Ok
<1>4. Payfast!Fields(body) \in pay.sent
  BY <1>3, SMT DEF Payfast!confirm_with_payfast, Payfast!Answered, Payfast!Exchange, Payfast!Err,
          Payfast!Decodes, Payfast!Ok, Payfast!Then, Payfast!Garbage
<1>5. v.ok => v = Payfast!evaluate_notification(body)
  BY SMT DEF Payfast!verify_and_parse, Payfast!Err
<1>6. body.payment_status = "COMPLETE" /\ h.val.reference = body.m_payment_id
  <2> HIDE DEF v
  <2> QED BY <1>2, <1>3, <1>5, PayfastOutcome
<1>7. PICK phase \in s.past : Payfast!Fields(body) = Payfast!Notification([s EXCEPT !.phase = phase])
  BY <1>4 DEF Payfast!Payload
<1>8. Payfast!Fields(body).payment_status = body.payment_status /\ body.m_payment_id = t.reference
  BY DEF Payfast!Fields, Payfast!Event, Payfast!Over, Payfast!Notification
<1>9. phase = "paid"
  BY <1>6, <1>7, <1>8 DEF Payfast!Notification, IsSession
<1> QED BY <1>2, <1>6, <1>7, <1>8, <1>9

\* PayPal's verify_webhook calls a delivery settled only if it was made with the rail's
\* own secret about a payment, or the session it fetched was paid; it names that session.
LEMMA PaypalWebhook ==
  ASSUME NEW rail, NEW secret, NEW age, NEW net, NEW s, NEW t, NEW body, NEW d, NEW pay, NEW e,
         t.id = s.id, t.reference = s.reference, t.past = s.past,
         s.phase \in Paypal!Phases, t.phase \in Paypal!Phases,
         body = Paypal!Event(t, secret), pay = Paypal!Payload(s),
         d = [raw_body |-> body, headers |-> Paypal!Headers(secret, body, 0), now_unix |-> age],
         e = Paypal!verify_webhook(rail, d, net, pay), e.ok, e.val.status = "Settled"
  PROVE  /\ \/ t.phase \in {"paid", "refunded"} /\ Paypal!Secret(rail) = secret
            \/ s.phase \in {"paid", "refunded"}
            \/ "paid" \in s.past
         /\ e.val.reference \in {s.id, s.reference, Paypal!Blank}
         /\ e.val.object_id \in {s.id, Paypal!Blank}
<1> DEFINE h == Paypal!handle_webhook(rail, d, net)
<1>1. e = Paypal!Then(h, LAMBDA x : Paypal!Then(Paypal!paypal_amount_value_to_minor(x.value, x.currency),
             LAMBDA a : IF a = 0 THEN Paypal!Err("InvalidRequest")
                        ELSE Paypal!Ok(Paypal!settlement(rail.id, x.event_id, x.custom_id, TRUE, a,
                                           Paypal!Upper(x.currency)))))
  BY SMT DEF Paypal!verify_webhook
<1> HIDE DEF h
<1>2. h.ok /\ e.val.reference = h.val.custom_id /\ e.val.object_id = Paypal!Blank
  BY <1>1, SMT DEF Paypal!Then, Paypal!settlement, Paypal!Ok, Paypal!Err
<1>3. /\ Paypal!Secret(rail) = secret
      /\ Paypal!parse_capture_completed(body).ok
      /\ h = Paypal!parse_capture_completed(body)
  BY <1>2 DEF h, Paypal!handle_webhook, Paypal!Secret, Paypal!Signature, Paypal!Headers,
          Paypal!header, Paypal!Err, Paypal!Answered, Paypal!do_json, Paypal!verify_hmac,
          Paypal!classify_error, Paypal!Decodes, Paypal!Entry, Paypal!Then,
          Paypal!fetch_access_token, Paypal!Exchange, Paypal!Ok, Paypal!Garbage
<1>4. body.status = "COMPLETED" /\ h.val.custom_id = body.custom_id
  BY <1>3, SMT DEF Paypal!parse_capture_completed, Paypal!Ok, Paypal!Err
<1>5. body.custom_id = t.reference /\ t.phase = "paid"
  <2>1. Paypal!Blank # "COMPLETED"
    BY Zenon DEF Paypal!Blank
  <2> QED BY <1>4, <2>1, SMT DEF Paypal!Event, Paypal!Payload
<1> QED BY <1>2, <1>3, <1>4, <1>5

\* Paystack's verify_webhook calls a delivery settled only if it was made with the rail's
\* own secret about a payment, or the session it fetched was paid; it names that session.
LEMMA PaystackWebhook ==
  ASSUME NEW rail, NEW secret, NEW age, NEW net, NEW s, NEW t, NEW body, NEW d, NEW pay, NEW e,
         t.id = s.id, t.reference = s.reference, t.past = s.past,
         s.phase \in Paystack!Phases, t.phase \in Paystack!Phases,
         body = Paystack!Event(t, secret), pay = Paystack!Payload(s),
         d = [raw_body |-> body, headers |-> Paystack!Headers(secret, body, 0), now_unix |-> age],
         e = Paystack!verify_webhook(rail, d, net, pay), e.ok, e.val.status = "Settled"
  PROVE  /\ \/ t.phase \in {"paid", "refunded"} /\ Paystack!Secret(rail) = secret
            \/ s.phase \in {"paid", "refunded"}
            \/ "paid" \in s.past
         /\ e.val.reference \in {s.id, s.reference, Paystack!Blank}
         /\ e.val.object_id \in {s.id, Paystack!Blank}
BY ZenonT(90) DEF Paystack!verify_webhook, Paystack!Payload, Paystack!Event, Paystack!Headers,
          Paystack!Secret, Paystack!Phases, Paystack!header, Paystack!Err, Paystack!Then,
          Paystack!verify_and_parse, Paystack!Ok, Paystack!settlement, Paystack!Over,
          Paystack!Transaction, Paystack!Entry, Paystack!Signature, Paystack!verify_hmac

\* PayU's verify_webhook calls a delivery settled only if it was made with the rail's
\* own secret about a payment, or the session it fetched was paid; it names that session.
LEMMA PayuWebhook ==
  ASSUME NEW rail, NEW secret, NEW age, NEW net, NEW s, NEW t, NEW body, NEW d, NEW pay, NEW e,
         t.id = s.id, t.reference = s.reference, t.past = s.past,
         s.phase \in Payu!Phases, t.phase \in Payu!Phases,
         body = Payu!Event(t, secret), pay = Payu!Payload(s),
         d = [raw_body |-> body, headers |-> Payu!Headers(secret, body, 0), now_unix |-> age],
         e = Payu!verify_webhook(rail, d, net, pay), e.ok, e.val.status = "Settled"
  PROVE  /\ \/ t.phase \in {"paid", "refunded"} /\ Payu!Secret(rail) = secret
            \/ s.phase \in {"paid", "refunded"}
            \/ "paid" \in s.past
         /\ e.val.reference \in {s.id, s.reference, Payu!Blank}
         /\ e.val.object_id \in {s.id, Payu!Blank}
BY ZenonT(90) DEF Payu!verify_webhook, Payu!Payload, Payu!Event, Payu!Headers, Payu!Secret,
          Payu!Phases,
          Payu!Then, Payu!verify_and_parse, Payu!Ok, Payu!settlement, Payu!Entry, Payu!Status,
          Payu!response_hash, Payu!constant_time_eq, Payu!Err, Payu!Signature

\* Razorpay's verify_webhook calls a delivery settled only if it was made with the rail's
\* own secret about a payment, or the session it fetched was paid; it names that session.
LEMMA RazorpayWebhook ==
  ASSUME NEW rail, NEW secret, NEW age, NEW net, NEW s, NEW t, NEW body, NEW d, NEW pay, NEW e,
         t.id = s.id, t.reference = s.reference, t.past = s.past,
         s.phase \in Razorpay!Phases, t.phase \in Razorpay!Phases,
         body = Razorpay!Event(t, secret), pay = Razorpay!Payload(s),
         d = [raw_body |-> body, headers |-> Razorpay!Headers(secret, body, 0), now_unix |-> age],
         e = Razorpay!verify_webhook(rail, d, net, pay), e.ok, e.val.status = "Settled"
  PROVE  /\ \/ t.phase \in {"paid", "refunded"} /\ Razorpay!Secret(rail) = secret
            \/ s.phase \in {"paid", "refunded"}
            \/ "paid" \in s.past
         /\ e.val.reference \in {s.id, s.reference, Razorpay!Blank}
         /\ e.val.object_id \in {s.id, Razorpay!Blank}
BY ZenonT(90) DEF Razorpay!verify_webhook, Razorpay!Payload, Razorpay!Event, Razorpay!Headers,
          Razorpay!Secret, Razorpay!Phases, Razorpay!header, Razorpay!Err, Razorpay!Then,
          Razorpay!verify_and_parse, Razorpay!Ok, Razorpay!settlement, Razorpay!Payment,
          Razorpay!Current, Razorpay!Entry, Razorpay!Signature, Razorpay!verify_hmac,
          Razorpay!evaluate_payment

\* Square's payment parser settles only a completed payment, under its own reference.
LEMMA SquareOutcome ==
  ASSUME NEW s, Square!parse_square_payment(Square!Payload(s)).ok
  PROVE  LET val == Square!parse_square_payment(Square!Payload(s)).val
         IN  val.reference = s.reference /\ (val.settled => s.phase \in {"paid", "refunded"})
BY DEF Square!parse_square_payment, Square!Payload, Square!Err, Square!Ok

\* Square's verify_webhook calls a delivery settled only if it was made with the rail's
\* own secret about a payment, or the session it fetched was paid; it names that session.
LEMMA SquareWebhook ==
  ASSUME NEW rail, NEW secret, NEW age, NEW net, NEW s, NEW t, NEW body, NEW d, NEW pay, NEW e,
         t.id = s.id, t.reference = s.reference, t.past = s.past,
         s.phase \in Square!Phases, t.phase \in Square!Phases,
         body = Square!Event(t, secret), pay = Square!Payload(s),
         d = [raw_body |-> body, headers |-> Square!Headers(secret, body, 0), now_unix |-> age],
         e = Square!verify_webhook(rail, d, net, pay), e.ok, e.val.status = "Settled"
  PROVE  /\ \/ t.phase \in {"paid", "refunded"} /\ Square!Secret(rail) = secret
            \/ s.phase \in {"paid", "refunded"}
            \/ "paid" \in s.past
         /\ e.val.reference \in {s.id, s.reference, Square!Blank}
         /\ e.val.object_id \in {s.id, Square!Blank}
<1> DEFINE sig == Square!Signature(secret, <<"live", body>>)
           v == Square!verify_and_parse(rail.config.webhook_signature_key,
                                        rail.config.notification_url, body, sig)
           o == Square!parse_square_payment(body.payment)
<1>1. e = Square!Then(v, LAMBDA x : Square!Ok(Square!with_object_id(Square!settlement(rail.id,
             x.event_id, x.reference, TRUE, x.amount_minor, x.currency), body.payment.id)))
  BY SMT DEF Square!verify_webhook, Square!Headers, Square!header, Square!Err, Square!Entry
<1> HIDE DEF v
<1>2. v.ok /\ e.val.reference = v.val.reference /\ e.val.object_id = body.payment.id
  BY <1>1, SMT DEF Square!Then, Square!settlement, Square!Ok, Square!with_object_id
<1>3. Square!Secret(rail) = secret /\ o.ok /\ o.val.settled
  BY <1>2, SMT DEF v, Square!verify_and_parse, Square!Secret, Square!Signature,
          Square!verify_hmac, Square!Err, Square!Then, Square!Ok
<1>4. v.val.reference = o.val.reference
  <2>1. v.val = [o.val EXCEPT !.event_id = IF body.event_id = Square!Blank THEN @ ELSE body.event_id]
    BY <1>2, <1>3, SMT DEF v, Square!verify_and_parse, Square!verify_hmac, Square!Err,
          Square!Then, Square!Ok
  <2>2. "reference" \in DOMAIN o.val
    BY <1>3, SMT DEF Square!parse_square_payment, Square!Err, Square!Ok
  <2> QED BY <2>1, <2>2
<1>5. body.payment = Square!Payload(t) /\ Square!Payload(t).id = t.id
  BY DEF Square!Event, Square!Payload
<1> QED BY <1>2, <1>3, <1>4, <1>5, SquareOutcome

\* Stripe's session evaluation settles only a paid session, under its own reference.
LEMMA StripeOutcome ==
  ASSUME NEW s, Stripe!evaluate_session(Stripe!Payload(s)).ok
  PROVE  LET val == Stripe!evaluate_session(Stripe!Payload(s)).val
         IN  val.reference = s.reference /\ (val.settled => s.phase \in {"paid", "refunded"})
BY DEF Stripe!evaluate_session, Stripe!Payload, Stripe!Err, Stripe!Then, Stripe!Ok

\* Stripe's verify_webhook calls a delivery settled only if it was made with the rail's
\* own secret about a payment, or the session it fetched was paid; it names that session.
LEMMA StripeWebhook ==
  ASSUME NEW rail, NEW secret, NEW age, NEW net, NEW s, NEW t, NEW body, NEW d, NEW pay, NEW e,
         t.id = s.id, t.reference = s.reference, t.past = s.past,
         s.phase \in Stripe!Phases, t.phase \in Stripe!Phases,
         body = Stripe!Event(t, secret), pay = Stripe!Payload(s),
         d = [raw_body |-> body, headers |-> Stripe!Headers(secret, body, 0), now_unix |-> age],
         e = Stripe!verify_webhook(rail, d, net, pay), e.ok, e.val.status = "Settled"
  PROVE  /\ \/ t.phase \in {"paid", "refunded"} /\ Stripe!Secret(rail) = secret
            \/ s.phase \in {"paid", "refunded"}
            \/ "paid" \in s.past
         /\ e.val.reference \in {s.id, s.reference, Stripe!Blank}
         /\ e.val.object_id \in {s.id, Stripe!Blank}
<1> DEFINE v == Stripe!verify_and_parse(rail.config.webhook_secret, body,
                    [t |-> 0, v1 |-> Stripe!Signature(secret, <<0, body>>)], age)
<1>1. e = Stripe!Then(v, LAMBDA x : Stripe!Ok(Stripe!settlement(rail.id, x.event_id,
             x.outcome.reference, x.outcome.settled, x.outcome.amount_minor, x.outcome.currency)))
  BY SMT DEF Stripe!verify_webhook, Stripe!Headers, Stripe!header, Stripe!Err, Stripe!Entry
<1> HIDE DEF v
<1>2. /\ v.ok /\ v.val.outcome.settled
      /\ e.val.reference = v.val.outcome.reference
      /\ e.val.object_id = Stripe!Blank
  BY <1>1, SMT DEF Stripe!Then, Stripe!settlement, Stripe!Ok
<1>3. /\ Stripe!Secret(rail) = secret /\ Stripe!evaluate_session(body.object).ok
      /\ v.val.outcome = Stripe!evaluate_session(body.object).val
  BY <1>2, SMT DEF v, Stripe!verify_and_parse, Stripe!Secret, Stripe!Signature,
          Stripe!verify_hmac, Stripe!Err, Stripe!SIGNATURE_TOLERANCE, Stripe!Then, Stripe!Ok
<1>4. body.object = Stripe!Payload(t)
  BY SMTT(30) DEF Stripe!Event
<1> QED BY <1>2, <1>3, <1>4, StripeOutcome

\* Xendit's verify_webhook calls a delivery settled only if it was made with the rail's
\* own secret about a payment, or the session it fetched was paid; it names that session.
LEMMA XenditWebhook ==
  ASSUME NEW rail, NEW secret, NEW age, NEW net, NEW s, NEW t, NEW body, NEW d, NEW pay, NEW e,
         t.id = s.id, t.reference = s.reference, t.past = s.past,
         s.phase \in Xendit!Phases, t.phase \in Xendit!Phases,
         body = Xendit!Event(t, secret), pay = Xendit!Payload(s),
         d = [raw_body |-> body, headers |-> Xendit!Headers(secret, body, 0), now_unix |-> age],
         e = Xendit!verify_webhook(rail, d, net, pay), e.ok, e.val.status = "Settled"
  PROVE  /\ t.phase \in {"paid", "short"} /\ Xendit!Secret(rail) = secret
         /\ e.val.reference \in {s.id, s.reference, Xendit!Blank}
         /\ e.val.object_id \in {s.id, Xendit!Blank}
<1> DEFINE v == Xendit!verify_and_parse(rail.config.webhook_token, body, secret)
<1>1. e = Xendit!Then(v, LAMBDA x : Xendit!Ok(Xendit!settlement(rail.id, x.event_id, x.reference,
                                           TRUE, x.amount_minor, x.currency)))
  BY SMT DEF Xendit!verify_webhook, Xendit!Headers, Xendit!query_param, Xendit!Err, Xendit!Entry
<1> HIDE DEF v
<1>2. v.ok /\ e.val.reference = v.val.reference /\ e.val.object_id = Xendit!Blank
  BY <1>1, SMT DEF Xendit!Then, Xendit!settlement, Xendit!Ok
<1>3. /\ rail.config.webhook_token = secret /\ body.status \in {"PAID", "SETTLED"}
      /\ v = Xendit!invoice_to_outcome(body)
  BY <1>2, SMT DEF v, Xendit!verify_and_parse, Xendit!Err, Xendit!constant_time_eq
<1>4. v.val.reference = body.external_id
  BY <1>2, <1>3, SMT DEF Xendit!invoice_to_outcome, Xendit!Err, Xendit!Then, Xendit!Ok
<1>5. body = Xendit!Invoice(t)
  BY DEF Xendit!Event
<1>6. body.external_id = s.reference
  BY <1>5 DEF Xendit!Invoice
<1> QED BY <1>2, <1>3, <1>4, <1>5, <1>6, XenditStatus DEF Xendit!Secret

\* Yoco's checkout evaluation settles only a completed checkout.
LEMMA YocoOutcome ==
  ASSUME NEW s, Yoco!evaluate_checkout(Yoco!Payload(s)).ok,
         Yoco!evaluate_checkout(Yoco!Payload(s)).val.settled
  PROVE  s.phase \in {"paid", "refunded"}
BY DEF Yoco!evaluate_checkout, Yoco!Payload, Yoco!Err, Yoco!Ok

\* Yoco's verify_webhook calls a delivery settled only if it was made with the rail's
\* own secret about a payment, or the session it fetched was paid; it names that session.
LEMMA YocoWebhook ==
  ASSUME NEW rail, NEW secret, NEW age, NEW net, NEW s, NEW t, NEW body, NEW d, NEW pay, NEW e,
         t.id = s.id, t.reference = s.reference, t.past = s.past,
         s.phase \in Yoco!Phases, t.phase \in Yoco!Phases,
         body = Yoco!Event(t, secret), pay = Yoco!Payload(s),
         d = [raw_body |-> body, headers |-> Yoco!Headers(secret, body, 0), now_unix |-> age],
         e = Yoco!verify_webhook(rail, d, net, pay), e.ok, e.val.status = "Settled"
  PROVE  /\ \/ t.phase \in {"paid", "refunded"} /\ Yoco!Secret(rail) = secret
            \/ s.phase \in {"paid", "refunded"}
            \/ "paid" \in s.past
         /\ e.val.reference \in {s.id, s.reference, Yoco!Blank}
         /\ e.val.object_id \in {s.id, Yoco!Blank}
<1> DEFINE v == Yoco!verify_and_parse(rail.config.webhook_secret, body, "msg", 0,
                    Yoco!Signature(secret, <<"msg", 0, body>>), age)
<1>1. e = Yoco!Then(v, LAMBDA x : Yoco!Ok(Yoco!with_object_id(Yoco!settlement(rail.id, x.event_id,
             Yoco!Blank, x.settled, x.amount_minor, x.currency), x.checkout_id)))
  BY SMT DEF Yoco!verify_webhook, Yoco!Headers, Yoco!header, Yoco!Err, Yoco!Over, Yoco!Entry
<1> HIDE DEF v
<1>2. /\ v.ok /\ v.val.settled
      /\ e.val.reference = Yoco!Blank
      /\ e.val.object_id = v.val.checkout_id
  BY <1>1, SMT DEF Yoco!Then, Yoco!settlement, Yoco!Ok, Yoco!with_object_id
<1>3. /\ Yoco!Secret(rail) = secret
      /\ Yoco!evaluate_checkout(body.payload).ok
      /\ v.val = Yoco!Over([checkout_id |-> body.payload.id], Yoco!evaluate_checkout(body.payload).val)
  BY <1>2, SMT DEF v, Yoco!verify_and_parse, Yoco!Secret, Yoco!Signature,
          Yoco!SIGNATURE_TOLERANCE_SECS, Yoco!Err, Yoco!Then, Yoco!Ok
<1>4. body.payload = Yoco!Payload(t) /\ Yoco!Payload(t).id = t.id
  BY DEF Yoco!Event, Yoco!Payload
<1>5. /\ v.val.checkout_id = body.payload.id
      /\ v.val.settled = Yoco!evaluate_checkout(body.payload).val.settled
  BY <1>3 DEF Yoco!evaluate_checkout, Yoco!Over, Yoco!Ok, Yoco!Err
<1> QED BY <1>2, <1>3, <1>4, <1>5, YocoOutcome

\* verify_webhook of every fiat rail: a Settled event is about a session that was paid, or was
\* signed with the rail's own secret by a processor announcing a payment (by Xendit: perhaps of
\* a part only); on the rails whose webhooks carry no usable secret only the first can happen.
\* It names that session or nothing.  t is the session as the delivery presents it, s the session as it is now.
THEOREM WebhookIsSound ==
  ASSUME NEW p \in Providers, NEW rail, NEW secret, NEW age, NEW net, NEW s, NEW t, NEW body, NEW e,
         IsSession(s), IsSession(t), t.id = s.id, t.reference = s.reference, t.past = s.past,
         s.phase \in Phases(p), t.phase \in Phases(p), body = Event(p, t, secret),
         e = VerifyWebhook(p, rail, [raw_body |-> body, headers |-> Headers(p, secret, body, 0),
                                     now_unix |-> age], net, Payload(p, s)),
         e.ok, e.val.status = "Settled"
  PROVE  /\ \/ /\ p \notin Unkeyed /\ SecretOf(p, rail) = secret
               /\ t.phase \in {"paid", "refunded"} \/ (p = "xendit" /\ t.phase = "short")
            \/ s.phase \in {"paid", "refunded"}
            \/ "paid" \in s.past
         /\ e.val.reference \in {s.id, s.reference, Blank}
         /\ e.val.object_id \in {s.id, Blank}
<1>1. CASE p = "adyen"
  BY <1>1, AdyenDispatch, AdyenWebhook, AdyenBlank DEF Unkeyed
<1>2. CASE p = "btcpay"
  BY <1>2, BtcpayDispatch, BtcpayWebhook, BtcpayBlank DEF Unkeyed
<1>3. CASE p = "checkoutcom"
  BY <1>3, CheckoutcomDispatch, CheckoutcomWebhook, CheckoutcomBlank DEF Unkeyed
<1>4. CASE p = "coinbasecommerce"
  BY <1>4, CoinbasecommerceDispatch, CoinbasecommerceWebhook, CoinbasecommerceBlank DEF Unkeyed
<1>5. CASE p = "flutterwave"
  BY <1>5, FlutterwaveDispatch, FlutterwaveWebhook, FlutterwaveBlank DEF Unkeyed
<1>6. CASE p = "hyperswitch"
  BY <1>6, HyperswitchDispatch, HyperswitchWebhook, HyperswitchBlank
<1>7. CASE p = "iyzico"
  BY <1>7, IyzicoDispatch, IyzicoWebhook, IyzicoBlank
<1>8. CASE p = "lnbits"
  BY <1>8, LnbitsDispatch, LnbitsWebhook, LnbitsBlank DEF Unkeyed
<1>9. CASE p = "mercadopago"
  BY <1>9, MercadopagoDispatch, MercadopagoWebhook, MercadopagoBlank DEF Unkeyed
<1>10. CASE p = "midtrans"
  BY <1>10, MidtransDispatch, MidtransWebhook, MidtransBlank DEF Unkeyed
<1>11. CASE p = "mollie"
  BY <1>11, MollieDispatch, MollieWebhook, MollieBlank
<1>12. CASE p = "opennode"
  BY <1>12, OpennodeDispatch, OpennodeWebhook, OpennodeBlank DEF Unkeyed
<1>13. CASE p = "payfast"
  BY <1>13, PayfastDispatch, PayfastWebhook, PayfastBlank
<1>14. CASE p = "paypal"
  BY <1>14, PaypalDispatch, PaypalWebhook, PaypalBlank DEF Unkeyed
<1>15. CASE p = "paystack"
  BY <1>15, PaystackDispatch, PaystackWebhook, PaystackBlank DEF Unkeyed
<1>16. CASE p = "payu"
  BY <1>16, PayuDispatch, PayuWebhook, PayuBlank DEF Unkeyed
<1>17. CASE p = "razorpay"
  BY <1>17, RazorpayDispatch, RazorpayWebhook, RazorpayBlank DEF Unkeyed
<1>18. CASE p = "square"
  BY <1>18, SquareDispatch, SquareWebhook, SquareBlank DEF Unkeyed
<1>19. CASE p = "stripe"
  BY <1>19, StripeDispatch, StripeWebhook, StripeBlank DEF Unkeyed
<1>20. CASE p = "xendit"
  BY <1>20, XenditDispatch, XenditWebhook, XenditBlank DEF Unkeyed
<1>21. CASE p = "yoco"
  BY <1>21, YocoDispatch, YocoWebhook, YocoBlank DEF Unkeyed
<1> QED BY <1>1, <1>2, <1>3, <1>4, <1>5, <1>6, <1>7, <1>8, <1>9, <1>10, <1>11, <1>12, <1>13,
          <1>14, <1>15, <1>16, <1>17, <1>18, <1>19, <1>20, <1>21 DEF Providers

-----------------------------------------------------------------------------
(* The second request of verify *)

\* PayPal's second request: verify answers true only if the capture it asked for completed.
LEMMA PaypalCaptured ==
  ASSUME NEW rail, NEW receipt, NEW net, NEW s, NEW pay, pay = Paypal!Payload(s),
         Paypal!verify_captured(rail, receipt, net, pay) = Ok(TRUE)
  PROVE  s.phase \in {"paid", "refunded"}
<1>1. pay.capture_status = "COMPLETED"
  BY DEF Ok, Paypal!verify_captured, Paypal!Answered, Paypal!do_json, Paypal!classify_error,
          Paypal!Decoded, Paypal!Ok, Paypal!match_capture_for_receipt, Paypal!Then,
          Paypal!fetch_access_token, Paypal!Exchange, Paypal!Err, Paypal!Decodes,
          Paypal!find_completed_capture, Paypal!unit_reference, Paypal!Garbage
<1>2. Paypal!Blank # "COMPLETED"
  BY Zenon DEF Paypal!Blank
<1> QED BY <1>1, <1>2, SMT DEF Paypal!Payload

\* The capture that ends verify on PayPal: Ok(true) only if the order's money was taken.
THEOREM CaptureIsSound ==
  ASSUME NEW p \in Providers, NEW rail, NEW receipt, NEW net, NEW s,
         VerifyCaptured(p, rail, receipt, net, Payload(p, s)) = Ok(TRUE)
  PROVE  s.phase \in {"paid", "refunded"}
<1>1. CASE p = "paypal"
  <2>1. Paypal!verify_captured(rail, receipt, net, Paypal!Payload(s)) = Ok(TRUE)
    BY <1>1, PaypalDispatch DEF VerifyCaptured
  <2> QED BY <2>1, PaypalCaptured
<1>2. CASE p # "paypal"
  BY <1>2 DEF VerifyCaptured, Unsupported, Err, Ok
<1> QED BY <1>1, <1>2

-----------------------------------------------------------------------------
(* charge *)

\* What a charge posts carries the caller's reference, which is not empty, and the
\* idempotency key that reference determines, if the adapter sends one.
LEMMA PostedReference ==
  ASSUME NEW p \in Providers, NEW rail, NEW req, ChargeRequest(p, rail, req).ok
  PROVE  /\ ChargeRequest(p, rail, req).val.reference = req.reference
         /\ req.reference # Blank
         /\ ChargeRequest(p, rail, req).val.key = KeyOf(p, req.reference)
<1>1. CASE p = "adyen"
  BY <1>1, AdyenBlank DEF ChargeRequest, KeyOf, NoKey, Adyen!charge_request, Adyen!validate,
          Adyen!Err, Adyen!Then, Adyen!Ok, Adyen!NoKey
<1>2. CASE p = "btcpay"
  BY <1>2, BtcpayBlank DEF ChargeRequest, KeyOf, NoKey, Btcpay!charge_request, Btcpay!validate,
          Btcpay!Err, Btcpay!Then, Btcpay!Ok, Btcpay!NoKey
<1>3. CASE p = "checkoutcom"
  BY <1>3, CheckoutcomBlank DEF ChargeRequest, KeyOf, NoKey, Checkoutcom!charge_request,
          Checkoutcom!validate, Checkoutcom!Err, Checkoutcom!Then, Checkoutcom!Ok,
          Checkoutcom!NoKey
<1>4. CASE p = "coinbasecommerce"
  BY <1>4, CoinbasecommerceBlank DEF ChargeRequest, KeyOf, NoKey, Coinbasecommerce!charge_request,
          Coinbasecommerce!validate, Coinbasecommerce!Err, Coinbasecommerce!Then,
          Coinbasecommerce!Ok, Coinbasecommerce!NoKey
<1>5. CASE p = "flutterwave"
  BY <1>5, FlutterwaveBlank DEF ChargeRequest, KeyOf, NoKey, Flutterwave!charge_request,
          Flutterwave!validate, Flutterwave!Err, Flutterwave!Then, Flutterwave!Ok,
          Flutterwave!NoKey
<1>6. CASE p = "hyperswitch"
  BY <1>6, HyperswitchBlank DEF ChargeRequest, KeyOf, Hyperswitch!charge_request,
          Hyperswitch!validate, Hyperswitch!Err, Hyperswitch!Ok
<1>7. CASE p = "iyzico"
  BY <1>7, IyzicoBlank DEF ChargeRequest, KeyOf, NoKey, Iyzico!charge_request, Iyzico!validate,
          Iyzico!Err, Iyzico!Then, Iyzico!Ok, Iyzico!NoKey
<1>8. CASE p = "lnbits"
  BY <1>8, LnbitsBlank DEF ChargeRequest, KeyOf, NoKey, Lnbits!charge_request, Lnbits!validate,
          Lnbits!Err, Lnbits!Then, Lnbits!Ok, Lnbits!NoKey
<1>9. CASE p = "mercadopago"
  BY <1>9, MercadopagoBlank DEF ChargeRequest, KeyOf, NoKey, Mercadopago!charge_request,
          Mercadopago!validate, Mercadopago!Err, Mercadopago!Then, Mercadopago!Ok,
          Mercadopago!NoKey
<1>10. CASE p = "midtrans"
  BY <1>10, MidtransBlank DEF ChargeRequest, KeyOf, NoKey, Midtrans!charge_request,
          Midtrans!validate, Midtrans!Err, Midtrans!Then, Midtrans!Ok, Midtrans!NoKey
<1>11. CASE p = "mollie"
  BY <1>11, MollieBlank DEF ChargeRequest, KeyOf, NoKey, Mollie!charge_request, Mollie!validate,
          Mollie!Err, Mollie!Then, Mollie!mollie_amount_value, Mollie!Ok, Mollie!NoKey
<1>12. CASE p = "opennode"
  BY <1>12, OpennodeBlank DEF ChargeRequest, KeyOf, NoKey, Opennode!charge_request,
          Opennode!validate, Opennode!Err, Opennode!Then, Opennode!Ok, Opennode!NoKey
<1>13. CASE p = "payfast"
  BY <1>13, PayfastBlank DEF ChargeRequest, KeyOf, NoKey, Payfast!charge_request,
          Payfast!validate, Payfast!Err, Payfast!Then, Payfast!Ok, Payfast!NoKey
<1>14. CASE p = "paypal"
  BY <1>14, PaypalBlank DEF ChargeRequest, KeyOf, NoKey, Paypal!charge_request, Paypal!validate,
          Paypal!Err, Paypal!Then, Paypal!paypal_amount_value, Paypal!Ok, Paypal!NoKey,
          Paypal!THREE_DECIMAL_CURRENCIES, Paypal!ZERO_DECIMAL_CURRENCIES
<1>15. CASE p = "paystack"
  BY <1>15, PaystackBlank DEF ChargeRequest, KeyOf, NoKey, Paystack!charge_request,
          Paystack!validate, Paystack!Err, Paystack!Ok, Paystack!NoKey
<1>16. CASE p = "payu"
  BY <1>16, PayuBlank DEF ChargeRequest, KeyOf, NoKey, Payu!charge_request, Payu!validate,
          Payu!Err, Payu!Then, Payu!Ok, Payu!NoKey
<1>17. CASE p = "razorpay"
  BY <1>17, RazorpayBlank DEF ChargeRequest, KeyOf, NoKey, Razorpay!charge_request,
          Razorpay!validate, Razorpay!Err, Razorpay!Ok, Razorpay!NoKey
<1>18. CASE p = "square"
  BY <1>18, SquareBlank DEF ChargeRequest, KeyOf, Square!charge_request, Square!validate,
          Square!Err, Square!Then, Square!Ok
<1>19. CASE p = "stripe"
  BY <1>19, StripeBlank DEF ChargeRequest, KeyOf, Stripe!charge_request, Stripe!validate,
          Stripe!Err, Stripe!Then, Stripe!Ok
<1>20. CASE p = "xendit"
  BY <1>20, XenditBlank DEF ChargeRequest, KeyOf, NoKey, Xendit!charge_request, Xendit!validate,
          Xendit!Err, Xendit!Then, Xendit!Ok, Xendit!NoKey
<1>21. CASE p = "yoco"
  BY <1>21, YocoBlank DEF ChargeRequest, KeyOf, NoKey, Yoco!charge_request, Yoco!validate,
          Yoco!Err, Yoco!Ok, Yoco!NoKey
<1> QED BY <1>1, <1>2, <1>3, <1>4, <1>5, <1>6, <1>7, <1>8, <1>9, <1>10, <1>11, <1>12, <1>13,
          <1>14, <1>15, <1>16, <1>17, <1>18, <1>19, <1>20, <1>21 DEF Providers

\* The receipt of Adyen's charge is this rail's and names the session it created.
LEMMA AdyenCharged ==
  ASSUME NEW rail, NEW req, NEW net, NEW s, NEW created, NEW c,
         created = Adyen!Payload(s), c = Adyen!charge(rail, req, net, created), c.ok
  PROVE  /\ IsReceipt(c.val) /\ c.val.rail_id = rail.id
         /\ c.val.reference \in {s.reference, req.reference}
         /\ Adyen!Named(c.val) \in {s.id, s.reference, c.val.reference, Adyen!Blank}
BY DEF IsReceipt, Adyen!charge, Adyen!Named, Adyen!Payload, Adyen!Answered, Adyen!do_json,
          Adyen!classify_error, Adyen!Decoded, Adyen!Err, Adyen!Ok, Adyen!Receipt,
          Adyen!ChargeProof, Adyen!Then, Adyen!Exchange, Adyen!Decodes, Adyen!Garbage

\* The receipt of BTCPay's charge is this rail's and names the session it created.
LEMMA BtcpayCharged ==
  ASSUME NEW rail, NEW req, NEW net, NEW s, NEW created, NEW c,
         created = Btcpay!Payload(s), c = Btcpay!charge(rail, req, net, created), c.ok
  PROVE  /\ IsReceipt(c.val) /\ c.val.rail_id = rail.id
         /\ c.val.reference \in {s.reference, req.reference}
         /\ Btcpay!Named(c.val) \in {s.id, s.reference, c.val.reference, Btcpay!Blank}
BY DEF IsReceipt, Btcpay!charge, Btcpay!Named, Btcpay!Payload, Btcpay!Answered, Btcpay!do_json,
          Btcpay!classify_error, Btcpay!Decoded, Btcpay!Err, Btcpay!Ok, Btcpay!Receipt,
          Btcpay!ChargeProof, Btcpay!Then, Btcpay!Exchange, Btcpay!Decodes, Btcpay!Garbage

\* The receipt of Checkout.com's charge is this rail's and names the session it created.
LEMMA CheckoutcomCharged ==
  ASSUME NEW rail, NEW req, NEW net, NEW s, NEW created, NEW c,
         created = Checkoutcom!Payload(s), c = Checkoutcom!charge(rail, req, net, created), c.ok
  PROVE  /\ IsReceipt(c.val) /\ c.val.rail_id = rail.id
         /\ c.val.reference \in {s.reference, req.reference}
         /\ Checkoutcom!Named(c.val) \in {s.id, s.reference, c.val.reference, Checkoutcom!Blank}
BY DEF IsReceipt, Checkoutcom!charge, Checkoutcom!Named, Checkoutcom!Payload,
          Checkoutcom!Answered, Checkoutcom!do_json, Checkoutcom!classify_error,
          Checkoutcom!Decoded, Checkoutcom!Err, Checkoutcom!Ok, Checkoutcom!Receipt,
          Checkoutcom!ChargeProof, Checkoutcom!Then, Checkoutcom!Exchange, Checkoutcom!Decodes,
          Checkoutcom!Garbage

\* The receipt of Coinbase Commerce's charge is this rail's and names the session it created.
LEMMA CoinbasecommerceCharged ==
  ASSUME NEW rail, NEW req, NEW net, NEW s, NEW created, NEW c,
         created = Coinbasecommerce!Payload(s), c = Coinbasecommerce!charge(rail, req, net, created), c.ok
  PROVE  /\ IsReceipt(c.val) /\ c.val.rail_id = rail.id
         /\ c.val.reference \in {s.reference, req.reference}
         /\ Coinbasecommerce!Named(c.val) \in {s.id, s.reference, c.val.reference, Coinbasecommerce!Blank}
BY DEF IsReceipt, Coinbasecommerce!charge, Coinbasecommerce!Named, Coinbasecommerce!Payload,
          Coinbasecommerce!Answered, Coinbasecommerce!do_json, Coinbasecommerce!classify_error,
          Coinbasecommerce!Decoded, Coinbasecommerce!Err, Coinbasecommerce!Ok,
          Coinbasecommerce!Receipt, Coinbasecommerce!ChargeProof, Coinbasecommerce!Then,
          Coinbasecommerce!Exchange, Coinbasecommerce!Decodes, Coinbasecommerce!Garbage

\* The receipt of Flutterwave's charge is this rail's and names the session it created.
LEMMA FlutterwaveCharged ==
  ASSUME NEW rail, NEW req, NEW net, NEW s, NEW created, NEW c,
         created = Flutterwave!Payload(s), c = Flutterwave!charge(rail, req, net, created), c.ok
  PROVE  /\ IsReceipt(c.val) /\ c.val.rail_id = rail.id
         /\ c.val.reference \in {s.reference, req.reference}
         /\ Flutterwave!Named(c.val) \in {s.id, s.reference, c.val.reference, Flutterwave!Blank}
BY DEF IsReceipt, Flutterwave!charge, Flutterwave!Named, Flutterwave!Payload,
          Flutterwave!Answered, Flutterwave!do_json_post, Flutterwave!classify_error,
          Flutterwave!Decoded, Flutterwave!Err, Flutterwave!Ok, Flutterwave!Receipt,
          Flutterwave!ChargeProof, Flutterwave!Transaction, Flutterwave!Then,
          Flutterwave!Exchange, Flutterwave!Decodes, Flutterwave!Garbage

\* The receipt of Hyperswitch's charge is this rail's and names the session it created.
LEMMA HyperswitchCharged ==
  ASSUME NEW rail, NEW req, NEW net, NEW s, NEW created, NEW c,
         created = Hyperswitch!Payload(s), c = Hyperswitch!charge(rail, req, net, created), c.ok
  PROVE  /\ IsReceipt(c.val) /\ c.val.rail_id = rail.id
         /\ c.val.reference \in {s.reference, req.reference}
         /\ Hyperswitch!Named(c.val) \in {s.id, s.reference, c.val.reference, Hyperswitch!Blank}
<1>1. PICK a : c.val = Hyperswitch!Receipt(rail.id, a, created.currency, req.reference,
                            Hyperswitch!ChargeProof(created.payment_id, created.status))
  BY DEF Hyperswitch!charge, Hyperswitch!Then, Hyperswitch!post, Hyperswitch!Decoded,
          Hyperswitch!Ok, Hyperswitch!parse_response, Hyperswitch!Exchange, Hyperswitch!Decodes,
          Hyperswitch!Err, Hyperswitch!Answered, Hyperswitch!Garbage
<1>2. created.payment_id = s.reference
  BY DEF Hyperswitch!Payload
<1> QED BY <1>1, <1>2 DEF IsReceipt, Hyperswitch!Receipt, Hyperswitch!ChargeProof,
          Hyperswitch!Named

\* The receipt of iyzico's charge is this rail's and names the session it created.
LEMMA IyzicoCharged ==
  ASSUME NEW rail, NEW req, NEW net, NEW s, NEW created, NEW c,
         created = Iyzico!Payload(s), c = Iyzico!charge(rail, req, net, created), c.ok
  PROVE  /\ IsReceipt(c.val) /\ c.val.rail_id = rail.id
         /\ c.val.reference \in {s.reference, req.reference}
         /\ Iyzico!Named(c.val) \in {s.id, s.reference, c.val.reference, Iyzico!Blank}
BY DEF IsReceipt, Iyzico!charge, Iyzico!Named, Iyzico!Payload, Iyzico!Answered, Iyzico!do_post,
          Iyzico!classify_error, Iyzico!Decoded, Iyzico!Err, Iyzico!Ok, Iyzico!Receipt,
          Iyzico!ChargeProof, Iyzico!Then, Iyzico!Exchange, Iyzico!Decodes, Iyzico!Garbage

\* The receipt of LNbits's charge is this rail's and names the session it created.
LEMMA LnbitsCharged ==
  ASSUME NEW rail, NEW req, NEW net, NEW s, NEW created, NEW c,
         created = Lnbits!Payload(s), c = Lnbits!charge(rail, req, net, created), c.ok
  PROVE  /\ IsReceipt(c.val) /\ c.val.rail_id = rail.id
         /\ c.val.reference \in {s.reference, req.reference}
         /\ Lnbits!Named(c.val) \in {s.id, s.reference, c.val.reference, Lnbits!Blank}
BY DEF IsReceipt, Lnbits!charge, Lnbits!Named, Lnbits!Payload, Lnbits!Answered, Lnbits!do_json,
          Lnbits!classify_error, Lnbits!Decoded, Lnbits!Err, Lnbits!Ok, Lnbits!Receipt,
          Lnbits!ChargeProof, Lnbits!Then, Lnbits!Exchange, Lnbits!Decodes, Lnbits!Garbage

\* The receipt of Mercado Pago's charge is this rail's and names the session it created.
LEMMA MercadopagoCharged ==
  ASSUME NEW rail, NEW req, NEW net, NEW s, NEW created, NEW c,
         created = Mercadopago!Payload(s), c = Mercadopago!charge(rail, req, net, created), c.ok
  PROVE  /\ IsReceipt(c.val) /\ c.val.rail_id = rail.id
         /\ c.val.reference \in {s.reference, req.reference}
         /\ Mercadopago!Named(c.val) \in {s.id, s.reference, c.val.reference, Mercadopago!Blank}
BY DEF IsReceipt, Mercadopago!charge, Mercadopago!Named, Mercadopago!Payload,
          Mercadopago!Answered, Mercadopago!do_json, Mercadopago!classify_error,
          Mercadopago!Decoded, Mercadopago!Err, Mercadopago!Ok, Mercadopago!Receipt,
          Mercadopago!ChargeProof, Mercadopago!Current, Mercadopago!Payment, Mercadopago!Then,
          Mercadopago!Exchange, Mercadopago!Decodes, Mercadopago!Garbage

\* The receipt of Midtrans's charge is this rail's and names the session it created.
LEMMA MidtransCharged ==
  ASSUME NEW rail, NEW req, NEW net, NEW s, NEW created, NEW c,
         created = Midtrans!Payload(s), c = Midtrans!charge(rail, req, net, created), c.ok
  PROVE  /\ IsReceipt(c.val) /\ c.val.rail_id = rail.id
         /\ c.val.reference \in {s.reference, req.reference}
         /\ Midtrans!Named(c.val) \in {s.id, s.reference, c.val.reference, Midtrans!Blank}
BY DEF IsReceipt, Midtrans!charge, Midtrans!Named, Midtrans!Payload, Midtrans!Answered,
          Midtrans!do_request, Midtrans!classify_error, Midtrans!Decoded, Midtrans!Err,
          Midtrans!Ok, Midtrans!Receipt, Midtrans!ChargeProof, Midtrans!Then, Midtrans!Exchange,
          Midtrans!Decodes, Midtrans!Garbage

\* The receipt of Mollie's charge is this rail's and names the session it created.
LEMMA MollieCharged ==
  ASSUME NEW rail, NEW req, NEW net, NEW s, NEW created, NEW c,
         created = Mollie!Payload(s), c = Mollie!charge(rail, req, net, created), c.ok
  PROVE  /\ IsReceipt(c.val) /\ c.val.rail_id = rail.id
         /\ c.val.reference \in {s.reference, req.reference}
         /\ Mollie!Named(c.val) \in {s.id, s.reference, c.val.reference, Mollie!Blank}
BY DEF IsReceipt, Mollie!charge, Mollie!Named, Mollie!Payload, Mollie!Answered, Mollie!do_json,
          Mollie!classify_error, Mollie!Decoded, Mollie!Err, Mollie!Ok, Mollie!Receipt,
          Mollie!ChargeProof, Mollie!Then, Mollie!Exchange, Mollie!Decodes, Mollie!Garbage

\* The receipt of OpenNode's charge is this rail's and names the session it created.
LEMMA OpennodeCharged ==
  ASSUME NEW rail, NEW req, NEW net, NEW s, NEW created, NEW c,
         created = Opennode!Payload(s), c = Opennode!charge(rail, req, net, created), c.ok
  PROVE  /\ IsReceipt(c.val) /\ c.val.rail_id = rail.id
         /\ c.val.reference \in {s.reference, req.reference}
         /\ Opennode!Named(c.val) \in {s.id, s.reference, c.val.reference, Opennode!Blank}
BY DEF IsReceipt, Opennode!charge, Opennode!Named, Opennode!Payload, Opennode!Answered,
          Opennode!do_json, Opennode!classify_error, Opennode!Decoded, Opennode!Err, Opennode!Ok,
          Opennode!Receipt, Opennode!ChargeProof, Opennode!Then, Opennode!Exchange,
          Opennode!Decodes, Opennode!Garbage

\* The receipt of PayFast's charge is this rail's and names the session it created.
LEMMA PayfastCharged ==
  ASSUME NEW rail, NEW req, NEW net, NEW s, NEW created, NEW c,
         created = Payfast!Payload(s), c = Payfast!charge(rail, req, net, created), c.ok
  PROVE  /\ IsReceipt(c.val) /\ c.val.rail_id = rail.id
         /\ c.val.reference \in {s.reference, req.reference}
         /\ Payfast!Named(c.val) \in {s.id, s.reference, c.val.reference, Payfast!Blank}
BY DEF IsReceipt, Payfast!charge, Payfast!Named, Payfast!Payload, Payfast!Then,
          Payfast!charge_request, Payfast!Ok, Payfast!Receipt, Payfast!ChargeProof,
          Payfast!compute_signature, Payfast!Notification, Payfast!validate, Payfast!Err,
          Payfast!NoKey, Payfast!Signature

\* The receipt of PayPal's charge is this rail's and names the session it created.
LEMMA PaypalCharged ==
  ASSUME NEW rail, NEW req, NEW net, NEW s, NEW created, NEW c,
         created = Paypal!Payload(s), c = Paypal!charge(rail, req, net, created), c.ok
  PROVE  /\ IsReceipt(c.val) /\ c.val.rail_id = rail.id
         /\ c.val.reference \in {s.reference, req.reference}
         /\ Paypal!Named(c.val) \in {s.id, s.reference, c.val.reference, Paypal!Blank}
BY DEF IsReceipt, Paypal!charge, Paypal!Named, Paypal!Payload, Paypal!Answered, Paypal!do_json,
          Paypal!classify_error, Paypal!Decoded, Paypal!Err, Paypal!Ok, Paypal!Receipt,
          Paypal!ChargeProof, Paypal!Then, Paypal!fetch_access_token, Paypal!Exchange,
          Paypal!Decodes, Paypal!Garbage

\* Paystack's charge: the receipt is read off the initialised transaction, whose reference
\* falls back to the caller's.
LEMMA PaystackAnswered ==
  ASSUME NEW rail, NEW req, NEW net, NEW created, NEW c,
         c = Paystack!charge(rail, req, net, created), c.ok
  PROVE  c.val = Paystack!Receipt(rail.id, 0, Paystack!Upper(req.currency),
                   IF created.data.reference = Paystack!Blank THEN req.reference
                   ELSE created.data.reference,
                   Paystack!ChargeProof(created.data.access_code))
BY SMTT(30) DEF Paystack!charge, Paystack!Answered, Paystack!do_json, Paystack!classify_error,
          Paystack!Decoded, Paystack!Err, Paystack!Ok, Paystack!Then, Paystack!Exchange,
          Paystack!Decodes, Paystack!Garbage

\* The receipt of Paystack's charge is this rail's and names the session it created.
LEMMA PaystackCharged ==
  ASSUME NEW rail, NEW req, NEW net, NEW s, NEW created, NEW c,
         created = Paystack!Payload(s), c = Paystack!charge(rail, req, net, created), c.ok
  PROVE  /\ IsReceipt(c.val) /\ c.val.rail_id = rail.id
         /\ c.val.reference \in {s.reference, req.reference}
         /\ Paystack!Named(c.val) \in {s.id, s.reference, c.val.reference, Paystack!Blank}
<1>1. c.val = Paystack!Receipt(rail.id, 0, Paystack!Upper(req.currency),
                 IF created.data.reference = Paystack!Blank THEN req.reference ELSE created.data.reference,
                 Paystack!ChargeProof(created.data.access_code))
  BY PaystackAnswered
<1>2. created.data.reference = s.reference
  BY DEF Paystack!Payload, Paystack!Over, Paystack!Transaction
<1> QED BY <1>1, <1>2 DEF IsReceipt, Paystack!Receipt, Paystack!ChargeProof, Paystack!Named

\* The receipt of PayU's charge is this rail's and names the session it created.
LEMMA PayuCharged ==
  ASSUME NEW rail, NEW req, NEW net, NEW s, NEW created, NEW c,
         created = Payu!Payload(s), c = Payu!charge(rail, req, net, created), c.ok
  PROVE  /\ IsReceipt(c.val) /\ c.val.rail_id = rail.id
         /\ c.val.reference \in {s.reference, req.reference}
         /\ Payu!Named(c.val) \in {s.id, s.reference, c.val.reference, Payu!Blank}
BY DEF IsReceipt, Payu!charge, Payu!Named, Payu!Payload, Payu!Then, Payu!charge_request, Payu!Ok,
          Payu!Receipt, Payu!ChargeProof, Payu!request_hash, Payu!Entry, Payu!Status,
          Payu!validate, Payu!Err, Payu!NoKey, Payu!Signature

\* The receipt of Razorpay's charge is this rail's and names the session it created.
LEMMA RazorpayCharged ==
  ASSUME NEW rail, NEW req, NEW net, NEW s, NEW created, NEW c,
         created = Razorpay!Payload(s), c = Razorpay!charge(rail, req, net, created), c.ok
  PROVE  /\ IsReceipt(c.val) /\ c.val.rail_id = rail.id
         /\ c.val.reference \in {s.reference, req.reference}
         /\ Razorpay!Named(c.val) \in {s.id, s.reference, c.val.reference, Razorpay!Blank}
BY DEF IsReceipt, Razorpay!charge, Razorpay!Named, Razorpay!Payload, Razorpay!Answered,
          Razorpay!do_json, Razorpay!classify_error, Razorpay!Decoded, Razorpay!Err, Razorpay!Ok,
          Razorpay!Receipt, Razorpay!ChargeProof, Razorpay!Payment, Razorpay!Current,
          Razorpay!Then, Razorpay!Exchange, Razorpay!Decodes, Razorpay!Garbage

\* The receipt of Square's charge is this rail's and names the session it created.
LEMMA SquareCharged ==
  ASSUME NEW rail, NEW req, NEW net, NEW s, NEW created, NEW c,
         created = Square!Payload(s), c = Square!charge(rail, req, net, created), c.ok
  PROVE  /\ IsReceipt(c.val) /\ c.val.rail_id = rail.id
         /\ c.val.reference \in {s.reference, req.reference}
         /\ Square!Named(c.val) \in {s.id, s.reference, c.val.reference, Square!Blank}
BY DEF IsReceipt, Square!charge, Square!Named, Square!Payload, Square!Answered, Square!do_json,
          Square!classify_error, Square!Decoded, Square!Err, Square!Ok, Square!Receipt,
          Square!ChargeProof, Square!Then, Square!Exchange, Square!Decodes, Square!Garbage

\* The receipt of Stripe's charge is this rail's and names the session it created.
LEMMA StripeCharged ==
  ASSUME NEW rail, NEW req, NEW net, NEW s, NEW created, NEW c,
         created = Stripe!Payload(s), c = Stripe!charge(rail, req, net, created), c.ok
  PROVE  /\ IsReceipt(c.val) /\ c.val.rail_id = rail.id
         /\ c.val.reference \in {s.reference, req.reference}
         /\ Stripe!Named(c.val) \in {s.id, s.reference, c.val.reference, Stripe!Blank}
BY DEF IsReceipt, Stripe!charge, Stripe!Named, Stripe!Payload, Stripe!Answered, Stripe!do_form,
          Stripe!classify_error, Stripe!Decoded, Stripe!Err, Stripe!Ok, Stripe!Receipt,
          Stripe!ChargeProof, Stripe!Then, Stripe!Exchange, Stripe!Decodes, Stripe!Garbage

\* The receipt of Xendit's charge is this rail's and names the session it created.
LEMMA XenditCharged ==
  ASSUME NEW rail, NEW req, NEW net, NEW s, NEW created, NEW c,
         created = Xendit!Payload(s), c = Xendit!charge(rail, req, net, created), c.ok
  PROVE  /\ IsReceipt(c.val) /\ c.val.rail_id = rail.id
         /\ c.val.reference \in {s.reference, req.reference}
         /\ Xendit!Named(c.val) \in {s.id, s.reference, c.val.reference, Xendit!Blank}
<1>1. c.val = Xendit!Receipt(rail.id, 0, Xendit!Upper(req.currency), req.reference,
                            Xendit!ChargeProof(created.id))
  BY DEF Xendit!charge, Xendit!Answered, Xendit!do_json, Xendit!classify_error, Xendit!Decoded,
          Xendit!Err, Xendit!Ok, Xendit!Then, Xendit!Exchange, Xendit!Decodes, Xendit!Garbage
<1> QED BY <1>1 DEF IsReceipt, Xendit!Receipt, Xendit!Named

\* The receipt of Yoco's charge is this rail's and names the session it created.
LEMMA YocoCharged ==
  ASSUME NEW rail, NEW req, NEW net, NEW s, NEW created, NEW c,
         created = Yoco!Payload(s), c = Yoco!charge(rail, req, net, created), c.ok
  PROVE  /\ IsReceipt(c.val) /\ c.val.rail_id = rail.id
         /\ c.val.reference \in {s.reference, req.reference}
         /\ Yoco!Named(c.val) \in {s.id, s.reference, c.val.reference, Yoco!Blank}
BY DEF IsReceipt, Yoco!charge, Yoco!Named, Yoco!Payload, Yoco!Answered, Yoco!do_json,
          Yoco!classify_error, Yoco!Decoded, Yoco!Err, Yoco!Ok, Yoco!Receipt, Yoco!ChargeProof,
          Yoco!Then, Yoco!Exchange, Yoco!Decodes, Yoco!Garbage

\* On every rail, the receipt of a successful charge is the rail's own and names the session
\* the processor answered with, or nothing.
LEMMA ChargedReceipt ==
  ASSUME NEW p \in Providers, NEW rail, NEW req, NEW net, NEW s, NEW c,
         c = Charge(p, rail, req, net, Payload(p, s)), c.ok
  PROVE  /\ IsReceipt(c.val) /\ c.val.rail_id = rail.id
         /\ c.val.reference \in {s.reference, req.reference}
         /\ Named(p, c.val) \in {s.id, s.reference, c.val.reference, Blank}
<1>1. CASE p = "adyen"
  <2>1. c = Adyen!charge(rail, req, net, Adyen!Payload(s)) /\ Named(p, c.val) = Adyen!Named(c.val)
    BY <1>1, AdyenDispatch DEF Charge
  <2> QED BY <2>1, AdyenCharged, AdyenBlank
<1>2. CASE p = "btcpay"
  <2>1. /\ c = Btcpay!charge(rail, req, net, Btcpay!Payload(s))
        /\ Named(p, c.val) = Btcpay!Named(c.val)
    BY <1>2, BtcpayDispatch DEF Charge
  <2> QED BY <2>1, BtcpayCharged, BtcpayBlank
<1>3. CASE p = "checkoutcom"
  <2>1. /\ c = Checkoutcom!charge(rail, req, net, Checkoutcom!Payload(s))
        /\ Named(p, c.val) = Checkoutcom!Named(c.val)
    BY <1>3, CheckoutcomDispatch DEF Charge
  <2> QED BY <2>1, CheckoutcomCharged, CheckoutcomBlank
<1>4. CASE p = "coinbasecommerce"
  <2>1. /\ c = Coinbasecommerce!charge(rail, req, net, Coinbasecommerce!Payload(s))
        /\ Named(p, c.val) = Coinbasecommerce!Named(c.val)
    BY <1>4, CoinbasecommerceDispatch DEF Charge
  <2> QED BY <2>1, CoinbasecommerceCharged, CoinbasecommerceBlank
<1>5. CASE p = "flutterwave"
  <2>1. /\ c = Flutterwave!charge(rail, req, net, Flutterwave!Payload(s))
        /\ Named(p, c.val) = Flutterwave!Named(c.val)
    BY <1>5, FlutterwaveDispatch DEF Charge
  <2> QED BY <2>1, FlutterwaveCharged, FlutterwaveBlank
<1>6. CASE p = "hyperswitch"
  <2>1. /\ c = Hyperswitch!charge(rail, req, net, Hyperswitch!Payload(s))
        /\ Named(p, c.val) = Hyperswitch!Named(c.val)
    BY <1>6, HyperswitchDispatch DEF Charge
  <2> QED BY <2>1, HyperswitchCharged, HyperswitchBlank
<1>7. CASE p = "iyzico"
  <2>1. /\ c = Iyzico!charge(rail, req, net, Iyzico!Payload(s))
        /\ Named(p, c.val) = Iyzico!Named(c.val)
    BY <1>7, IyzicoDispatch DEF Charge
  <2> QED BY <2>1, IyzicoCharged, IyzicoBlank
<1>8. CASE p = "lnbits"
  <2>1. /\ c = Lnbits!charge(rail, req, net, Lnbits!Payload(s))
        /\ Named(p, c.val) = Lnbits!Named(c.val)
    BY <1>8, LnbitsDispatch DEF Charge
  <2> QED BY <2>1, LnbitsCharged, LnbitsBlank
<1>9. CASE p = "mercadopago"
  <2>1. /\ c = Mercadopago!charge(rail, req, net, Mercadopago!Payload(s))
        /\ Named(p, c.val) = Mercadopago!Named(c.val)
    BY <1>9, MercadopagoDispatch DEF Charge
  <2> QED BY <2>1, MercadopagoCharged, MercadopagoBlank
<1>10. CASE p = "midtrans"
  <2>1. /\ c = Midtrans!charge(rail, req, net, Midtrans!Payload(s))
        /\ Named(p, c.val) = Midtrans!Named(c.val)
    BY <1>10, MidtransDispatch DEF Charge
  <2> QED BY <2>1, MidtransCharged, MidtransBlank
<1>11. CASE p = "mollie"
  <2>1. /\ c = Mollie!charge(rail, req, net, Mollie!Payload(s))
        /\ Named(p, c.val) = Mollie!Named(c.val)
    BY <1>11, MollieDispatch DEF Charge
  <2> QED BY <2>1, MollieCharged, MollieBlank
<1>12. CASE p = "opennode"
  <2>1. /\ c = Opennode!charge(rail, req, net, Opennode!Payload(s))
        /\ Named(p, c.val) = Opennode!Named(c.val)
    BY <1>12, OpennodeDispatch DEF Charge
  <2> QED BY <2>1, OpennodeCharged, OpennodeBlank
<1>13. CASE p = "payfast"
  <2>1. /\ c = Payfast!charge(rail, req, net, Payfast!Payload(s))
        /\ Named(p, c.val) = Payfast!Named(c.val)
    BY <1>13, PayfastDispatch DEF Charge
  <2> QED BY <2>1, PayfastCharged, PayfastBlank
<1>14. CASE p = "paypal"
  <2>1. /\ c = Paypal!charge(rail, req, net, Paypal!Payload(s))
        /\ Named(p, c.val) = Paypal!Named(c.val)
    BY <1>14, PaypalDispatch DEF Charge
  <2> QED BY <2>1, PaypalCharged, PaypalBlank
<1>15. CASE p = "paystack"
  <2>1. /\ c = Paystack!charge(rail, req, net, Paystack!Payload(s))
        /\ Named(p, c.val) = Paystack!Named(c.val)
    BY <1>15, PaystackDispatch DEF Charge
  <2> QED BY <2>1, PaystackCharged, PaystackBlank
<1>16. CASE p = "payu"
  <2>1. c = Payu!charge(rail, req, net, Payu!Payload(s)) /\ Named(p, c.val) = Payu!Named(c.val)
    BY <1>16, PayuDispatch DEF Charge
  <2> QED BY <2>1, PayuCharged, PayuBlank
<1>17. CASE p = "razorpay"
  <2>1. /\ c = Razorpay!charge(rail, req, net, Razorpay!Payload(s))
        /\ Named(p, c.val) = Razorpay!Named(c.val)
    BY <1>17, RazorpayDispatch DEF Charge
  <2> QED BY <2>1, RazorpayCharged, RazorpayBlank
<1>18. CASE p = "square"
  <2>1. /\ c = Square!charge(rail, req, net, Square!Payload(s))
        /\ Named(p, c.val) = Square!Named(c.val)
    BY <1>18, SquareDispatch DEF Charge
  <2> QED BY <2>1, SquareCharged, SquareBlank
<1>19. CASE p = "stripe"
  <2>1. /\ c = Stripe!charge(rail, req, net, Stripe!Payload(s))
        /\ Named(p, c.val) = Stripe!Named(c.val)
    BY <1>19, StripeDispatch DEF Charge
  <2> QED BY <2>1, StripeCharged, StripeBlank
<1>20. CASE p = "xendit"
  <2>1. /\ c = Xendit!charge(rail, req, net, Xendit!Payload(s))
        /\ Named(p, c.val) = Xendit!Named(c.val)
    BY <1>20, XenditDispatch DEF Charge
  <2> QED BY <2>1, XenditCharged, XenditBlank
<1>21. CASE p = "yoco"
  <2>1. c = Yoco!charge(rail, req, net, Yoco!Payload(s)) /\ Named(p, c.val) = Yoco!Named(c.val)
    BY <1>21, YocoDispatch DEF Charge
  <2> QED BY <2>1, YocoCharged, YocoBlank
<1> QED BY <1>1, <1>2, <1>3, <1>4, <1>5, <1>6, <1>7, <1>8, <1>9, <1>10, <1>11, <1>12, <1>13,
          <1>14, <1>15, <1>16, <1>17, <1>18, <1>19, <1>20, <1>21 DEF Providers

-----------------------------------------------------------------------------
(* Receipts, phases and construction *)

\* The session a receipt names is determined by its proof and its reference: filling in the
\* amount does not change it.
LEMMA NamedBy ==
  ASSUME NEW p \in Providers, NEW q, NEW r, q.proof = r.proof, q.reference = r.reference
  PROVE  Named(p, q) = Named(p, r)
<1>1. CASE p = "adyen"
  BY <1>1 DEF Named, Adyen!Named
<1>2. CASE p = "btcpay"
  BY <1>2 DEF Named, Btcpay!Named
<1>3. CASE p = "checkoutcom"
  BY <1>3 DEF Named, Checkoutcom!Named
<1>4. CASE p = "coinbasecommerce"
  BY <1>4 DEF Named, Coinbasecommerce!Named
<1>5. CASE p = "flutterwave"
  BY <1>5 DEF Named, Flutterwave!Named
<1>6. CASE p = "hyperswitch"
  BY <1>6 DEF Named, Hyperswitch!Named
<1>7. CASE p = "iyzico"
  BY <1>7 DEF Named, Iyzico!Named
<1>8. CASE p = "lnbits"
  BY <1>8 DEF Named, Lnbits!Named
<1>9. CASE p = "mercadopago"
  BY <1>9 DEF Named, Mercadopago!Named
<1>10. CASE p = "midtrans"
  BY <1>10 DEF Named, Midtrans!Named
<1>11. CASE p = "mollie"
  BY <1>11 DEF Named, Mollie!Named
<1>12. CASE p = "opennode"
  BY <1>12 DEF Named, Opennode!Named
<1>13. CASE p = "payfast"
  BY <1>13 DEF Named, Payfast!Named
<1>14. CASE p = "paypal"
  BY <1>14 DEF Named, Paypal!Named
<1>15. CASE p = "paystack"
  BY <1>15 DEF Named, Paystack!Named
<1>16. CASE p = "payu"
  BY <1>16 DEF Named, Payu!Named
<1>17. CASE p = "razorpay"
  BY <1>17 DEF Named, Razorpay!Named
<1>18. CASE p = "square"
  BY <1>18 DEF Named, Square!Named
<1>19. CASE p = "stripe"
  BY <1>19 DEF Named, Stripe!Named
<1>20. CASE p = "xendit"
  BY <1>20 DEF Named, Xendit!Named
<1>21. CASE p = "yoco"
  BY <1>21 DEF Named, Yoco!Named
<1> QED BY <1>1, <1>2, <1>3, <1>4, <1>5, <1>6, <1>7, <1>8, <1>9, <1>10, <1>11, <1>12, <1>13,
          <1>14, <1>15, <1>16, <1>17, <1>18, <1>19, <1>20, <1>21 DEF Providers

\* Completing the proof of a receipt with the object a settlement names keeps the receipt's
\* rail and reference; it names what it named before or that object.
LEMMA ResolvedReceipt ==
  ASSUME NEW p \in Providers, NEW r, IsReceipt(r), NEW object, NEW q, q = Resolved(p, r, object)
  PROVE  /\ IsReceipt(q) /\ q.rail_id = r.rail_id /\ q.reference = r.reference
         /\ Named(p, q) \in {Named(p, r), object}
<1>1. CASE p = "square"
  <2>1. q = [r EXCEPT !.proof = Square!ChargeProof(r.proof.order_id, object)]
    BY <1>1 DEF Resolved, Square!with_resolved_payment_id
  <2> QED BY <1>1, <2>1 DEF IsReceipt, Named, Square!Named, Square!ChargeProof
<1>2. CASE p = "adyen"
  <2>1. q = [r EXCEPT !.proof = Adyen!ChargeProof(r.proof.payment_link_id, object)]
    BY <1>2 DEF Resolved
  <2> QED BY <1>2, <2>1 DEF IsReceipt, Named, Adyen!Named, Adyen!ChargeProof
<1>3. CASE p \notin {"square", "adyen"}
  BY <1>3 DEF Resolved
<1> QED BY <1>1, <1>2, <1>3

\* Every rail's sessions can be open and paid; those that can be approved can be captured;
\* and only a rail that has refunded sessions looks one up for a refund.
LEMMA PhasesFacts ==
  ASSUME NEW p \in Providers
  PROVE  /\ {"open", "paid"} \subseteq Phases(p)
         /\ "approved" \in Phases(p) => {"paid", "pending"} \subseteq Phases(p)
         /\ \A rail, receipt, net, pay : RefundLookup(p, rail, receipt, net, pay).ok => "refunded" \in Phases(p)
<1>1. CASE p = "adyen"
  BY <1>1 DEF Phases, Adyen!Phases
<1>2. CASE p = "btcpay"
  BY <1>2 DEF Phases, Btcpay!Phases, RefundLookup, Unsupported, Err
<1>3. CASE p = "checkoutcom"
  BY <1>3 DEF Phases, Checkoutcom!Phases
<1>4. CASE p = "coinbasecommerce"
  BY <1>4 DEF Phases, Coinbasecommerce!Phases, RefundLookup, Unsupported, Err
<1>5. CASE p = "flutterwave"
  BY <1>5 DEF Phases, Flutterwave!Phases, RefundLookup, Unsupported, Err
<1>6. CASE p = "hyperswitch"
  BY <1>6 DEF Phases, Hyperswitch!Phases
<1>7. CASE p = "iyzico"
  BY <1>7 DEF Phases, Iyzico!Phases, RefundLookup, Unsupported, Err
<1>8. CASE p = "lnbits"
  BY <1>8 DEF Phases, Lnbits!Phases, RefundLookup, Unsupported, Err
<1>9. CASE p = "mercadopago"
  BY <1>9 DEF Phases, Mercadopago!Phases, RefundLookup, Unsupported, Err
<1>10. CASE p = "midtrans"
  BY <1>10 DEF Phases, Midtrans!Phases, RefundLookup, Unsupported, Err
<1>11. CASE p = "mollie"
  BY <1>11 DEF Phases, Mollie!Phases
<1>12. CASE p = "opennode"
  BY <1>12 DEF Phases, Opennode!Phases, RefundLookup, Unsupported, Err
<1>13. CASE p = "payfast"
  BY <1>13 DEF Phases, Payfast!Phases, RefundLookup, Unsupported, Err
<1>14. CASE p = "paypal"
  BY <1>14 DEF Phases, Paypal!Phases
<1>15. CASE p = "paystack"
  BY <1>15 DEF Phases, Paystack!Phases
<1>16. CASE p = "payu"
  BY <1>16 DEF Phases, Payu!Phases, RefundLookup, Unsupported, Err
<1>17. CASE p = "razorpay"
  BY <1>17 DEF Phases, Razorpay!Phases, RefundLookup, Unsupported, Err
<1>18. CASE p = "square"
  BY <1>18 DEF Phases, Square!Phases
<1>19. CASE p = "stripe"
  BY <1>19 DEF Phases, Stripe!Phases
<1>20. CASE p = "xendit"
  BY <1>20 DEF Phases, Xendit!Phases, RefundLookup, Unsupported, Err
<1>21. CASE p = "yoco"
  BY <1>21 DEF Phases, Yoco!Phases, RefundLookup, Unsupported, Err
<1> QED BY <1>1, <1>2, <1>3, <1>4, <1>5, <1>6, <1>7, <1>8, <1>9, <1>10, <1>11, <1>12, <1>13,
          <1>14, <1>15, <1>16, <1>17, <1>18, <1>19, <1>20, <1>21 DEF Providers

\* A Adyen rail that could be constructed from a deployment's settings has its own id
\* and the deployment's webhook secret, not an empty one.
LEMMA AdyenBuilt ==
  ASSUME NEW env, \A v \in DOMAIN env \ {"timeout_secs"} : env[v] = "live", NEW r, r.ok,
         r \in {Then(Adyen!from_env(env), LAMBDA c : Adyen!new(c)), Adyen!build_adyen(env)}
  PROVE  r.val.id = "adyen" /\ Adyen!Secret(r.val) = "live"
<1>1. "live" # Adyen!Unparsable
  BY Zenon DEF Adyen!Unparsable
<1>2. ASSUME NEW c, Adyen!new(c).ok
      PROVE  /\ Adyen!new(c).val.id = "adyen"
             /\ Adyen!Secret(Adyen!new(c).val) = c.hmac_key_hex
             /\ c.hmac_key_hex # Adyen!Blank
  BY <1>2, ZenonT(30) DEF Adyen!new, Adyen!Secret, Adyen!Required, Adyen!Err, Adyen!Rail, Adyen!Ok
<1>3. Adyen!FromEnv(env, Adyen!Required, Adyen!Defaults).ok =>
        Adyen!FromEnv(env, Adyen!Required, Adyen!Defaults).val.hmac_key_hex = "live"
  BY <1>1 DEF Adyen!FromEnv, Adyen!Over, Adyen!Ok, Adyen!Err, Adyen!Required
<1>4. Adyen!FromMap(env, Adyen!Required, Adyen!Defaults).ok =>
        Adyen!FromMap(env, Adyen!Required, Adyen!Defaults).val.hmac_key_hex \in {"live", Adyen!Blank}
  BY <1>1 DEF Adyen!FromMap, Adyen!Over, Adyen!Ok, Adyen!Err, Adyen!Required
<1>5. CASE r = Then(Adyen!from_env(env), LAMBDA c : Adyen!new(c))
  BY <1>2, <1>3, <1>5 DEF Then, Adyen!from_env
<1>6. CASE r = Adyen!build_adyen(env)
  BY <1>2, <1>4, <1>6 DEF Adyen!Then, Adyen!build_adyen
<1> QED BY <1>5, <1>6

\* A BTCPay rail that could be constructed from a deployment's settings has its own id
\* and the deployment's webhook secret, not an empty one.
LEMMA BtcpayBuilt ==
  ASSUME NEW env, \A v \in DOMAIN env \ {"timeout_secs"} : env[v] = "live", NEW r, r.ok,
         r \in {Then(Btcpay!from_env(env), LAMBDA c : Btcpay!new(c)), Btcpay!build_btcpay(env)}
  PROVE  r.val.id = "btcpay" /\ Btcpay!Secret(r.val) = "live"
<1>1. "live" # Btcpay!Unparsable
  BY Zenon DEF Btcpay!Unparsable
<1>2. ASSUME NEW c, Btcpay!new(c).ok
      PROVE  /\ Btcpay!new(c).val.id = "btcpay"
             /\ Btcpay!Secret(Btcpay!new(c).val) = c.webhook_secret
             /\ c.webhook_secret # Btcpay!Blank
  BY <1>2, ZenonT(30) DEF Btcpay!new, Btcpay!Secret, Btcpay!Required, Btcpay!Err, Btcpay!Rail,
          Btcpay!Ok
<1>3. Btcpay!FromEnv(env, Btcpay!Required, Btcpay!Defaults).ok =>
        Btcpay!FromEnv(env, Btcpay!Required, Btcpay!Defaults).val.webhook_secret = "live"
  BY <1>1 DEF Btcpay!FromEnv, Btcpay!Over, Btcpay!Ok, Btcpay!Err, Btcpay!Required
<1>4. Btcpay!FromMap(env, Btcpay!Required, Btcpay!Defaults).ok =>
        Btcpay!FromMap(env, Btcpay!Required, Btcpay!Defaults).val.webhook_secret \in {"live", Btcpay!Blank}
  BY <1>1 DEF Btcpay!FromMap, Btcpay!Over, Btcpay!Ok, Btcpay!Err, Btcpay!Required
<1>5. CASE r = Then(Btcpay!from_env(env), LAMBDA c : Btcpay!new(c))
  BY <1>2, <1>3, <1>5 DEF Then, Btcpay!from_env
<1>6. CASE r = Btcpay!build_btcpay(env)
  BY <1>2, <1>4, <1>6 DEF Btcpay!Then, Btcpay!build_btcpay
<1> QED BY <1>5, <1>6

\* A Checkout.com rail that could be constructed from a deployment's settings has its own id
\* and the deployment's webhook secret, not an empty one.
LEMMA CheckoutcomBuilt ==
  ASSUME NEW env, \A v \in DOMAIN env \ {"timeout_secs"} : env[v] = "live", NEW r, r.ok,
         r \in {Then(Checkoutcom!from_env(env),
                LAMBDA c : Checkoutcom!new(c)), Checkoutcom!build_checkoutcom(env)}
  PROVE  r.val.id = "checkoutcom" /\ Checkoutcom!Secret(r.val) = "live"
<1>1. "live" # Checkoutcom!Unparsable
  BY Zenon DEF Checkoutcom!Unparsable
<1>2. ASSUME NEW c, Checkoutcom!new(c).ok
      PROVE  /\ Checkoutcom!new(c).val.id = "checkoutcom"
             /\ Checkoutcom!Secret(Checkoutcom!new(c).val) = c.webhook_secret
             /\ c.webhook_secret # Checkoutcom!Blank
  BY <1>2, ZenonT(30) DEF Checkoutcom!new, Checkoutcom!Secret, Checkoutcom!Required,
          Checkoutcom!Err,
          Checkoutcom!Rail, Checkoutcom!Ok
<1>3. Checkoutcom!FromEnv(env, Checkoutcom!Required, Checkoutcom!Defaults).ok =>
        Checkoutcom!FromEnv(env, Checkoutcom!Required, Checkoutcom!Defaults).val.webhook_secret = "live"
  BY <1>1 DEF Checkoutcom!FromEnv, Checkoutcom!Over, Checkoutcom!Ok, Checkoutcom!Err,
          Checkoutcom!Required
<1>4. Checkoutcom!FromMap(env, Checkoutcom!Required, Checkoutcom!Defaults).ok =>
        Checkoutcom!FromMap(env, Checkoutcom!Required, Checkoutcom!Defaults).val.webhook_secret \in {"live", Checkoutcom!Blank}
  BY <1>1 DEF Checkoutcom!FromMap, Checkoutcom!Over, Checkoutcom!Ok, Checkoutcom!Err,
          Checkoutcom!Required
<1>5. CASE r = Then(Checkoutcom!from_env(env), LAMBDA c : Checkoutcom!new(c))
  BY <1>2, <1>3, <1>5 DEF Then, Checkoutcom!from_env
<1>6. CASE r = Checkoutcom!build_checkoutcom(env)
  BY <1>2, <1>4, <1>6 DEF Checkoutcom!Then, Checkoutcom!build_checkoutcom
<1> QED BY <1>5, <1>6

\* A Coinbase Commerce rail that could be constructed from a deployment's settings has its own id
\* and the deployment's webhook secret, not an empty one.
LEMMA CoinbasecommerceBuilt ==
  ASSUME NEW env, \A v \in DOMAIN env \ {"timeout_secs"} : env[v] = "live", NEW r, r.ok,
         r \in {Then(Coinbasecommerce!from_env(env),
                LAMBDA c : Coinbasecommerce!new(c)), Coinbasecommerce!build_coinbasecommerce(env)}
  PROVE  r.val.id = "coinbasecommerce" /\ Coinbasecommerce!Secret(r.val) = "live"
<1>1. "live" # Coinbasecommerce!Unparsable
  BY Zenon DEF Coinbasecommerce!Unparsable
<1>2. ASSUME NEW c, Coinbasecommerce!new(c).ok
      PROVE  /\ Coinbasecommerce!new(c).val.id = "coinbasecommerce"
             /\ Coinbasecommerce!Secret(Coinbasecommerce!new(c).val) = c.webhook_secret
             /\ c.webhook_secret # Coinbasecommerce!Blank
  BY <1>2, ZenonT(30) DEF Coinbasecommerce!new, Coinbasecommerce!Secret, Coinbasecommerce!Err,
          Coinbasecommerce!Rail, Coinbasecommerce!Ok
<1>3. Coinbasecommerce!FromEnv(env, Coinbasecommerce!Required, Coinbasecommerce!Defaults).ok =>
        Coinbasecommerce!FromEnv(env, Coinbasecommerce!Required, Coinbasecommerce!Defaults).val.webhook_secret = "live"
  BY <1>1 DEF Coinbasecommerce!FromEnv, Coinbasecommerce!Over, Coinbasecommerce!Ok,
          Coinbasecommerce!Err, Coinbasecommerce!Required
<1>4. Coinbasecommerce!FromMap(env, Coinbasecommerce!Required, Coinbasecommerce!Defaults).ok =>
        Coinbasecommerce!FromMap(env, Coinbasecommerce!Required, Coinbasecommerce!Defaults).val.webhook_secret \in {"live", Coinbasecommerce!Blank}
  BY <1>1 DEF Coinbasecommerce!FromMap, Coinbasecommerce!Over, Coinbasecommerce!Ok,
          Coinbasecommerce!Err, Coinbasecommerce!Required
<1>5. CASE r = Then(Coinbasecommerce!from_env(env), LAMBDA c : Coinbasecommerce!new(c))
  BY <1>2, <1>3, <1>5 DEF Then, Coinbasecommerce!from_env
<1>6. CASE r = Coinbasecommerce!build_coinbasecommerce(env)
  BY <1>2, <1>4, <1>6 DEF Coinbasecommerce!Then, Coinbasecommerce!build_coinbasecommerce
<1> QED BY <1>5, <1>6

\* A Flutterwave rail that could be constructed from a deployment's settings has its own id
\* and the deployment's webhook secret, not an empty one.
LEMMA FlutterwaveBuilt ==
  ASSUME NEW env, \A v \in DOMAIN env \ {"timeout_secs"} : env[v] = "live", NEW r, r.ok,
         r \in {Then(Flutterwave!from_env(env),
                LAMBDA c : Flutterwave!new(c)), Flutterwave!build_flutterwave(env)}
  PROVE  r.val.id = "flutterwave" /\ Flutterwave!Secret(r.val) = "live"
<1>1. "live" # Flutterwave!Unparsable
  BY Zenon DEF Flutterwave!Unparsable
<1>2. ASSUME NEW c, Flutterwave!new(c).ok
      PROVE  /\ Flutterwave!new(c).val.id = "flutterwave"
             /\ Flutterwave!Secret(Flutterwave!new(c).val) = c.webhook_hash
             /\ c.webhook_hash # Flutterwave!Blank
  BY <1>2, ZenonT(30) DEF Flutterwave!new, Flutterwave!Secret, Flutterwave!Err, Flutterwave!Rail,
          Flutterwave!Ok
<1>3. Flutterwave!FromEnv(env, Flutterwave!Required, Flutterwave!Defaults).ok =>
        Flutterwave!FromEnv(env, Flutterwave!Required, Flutterwave!Defaults).val.webhook_hash = "live"
  BY <1>1 DEF Flutterwave!FromEnv, Flutterwave!Over, Flutterwave!Ok, Flutterwave!Err,
          Flutterwave!Required
<1>4. Flutterwave!FromMap(env, Flutterwave!Required, Flutterwave!Defaults).ok =>
        Flutterwave!FromMap(env, Flutterwave!Required, Flutterwave!Defaults).val.webhook_hash \in {"live", Flutterwave!Blank}
  BY <1>1 DEF Flutterwave!FromMap, Flutterwave!Over, Flutterwave!Ok, Flutterwave!Err,
          Flutterwave!Required
<1>5. CASE r = Then(Flutterwave!from_env(env), LAMBDA c : Flutterwave!new(c))
  BY <1>2, <1>3, <1>5 DEF Then, Flutterwave!from_env
<1>6. CASE r = Flutterwave!build_flutterwave(env)
  BY <1>2, <1>4, <1>6 DEF Flutterwave!Then, Flutterwave!build_flutterwave
<1> QED BY <1>5, <1>6

\* A Hyperswitch rail that could be constructed from a deployment's settings has its own id.
LEMMA HyperswitchBuilt ==
  ASSUME NEW env, \A v \in DOMAIN env \ {"timeout_secs"} : env[v] = "live", NEW r, r.ok,
         r \in {Then(Hyperswitch!from_env(env),
                LAMBDA c : Hyperswitch!new(c)), Hyperswitch!new_hyperswitch(env)}
  PROVE  r.val.id = "hyperswitch"
BY DEF Then, Hyperswitch!from_env, Hyperswitch!new, Hyperswitch!new_hyperswitch, Hyperswitch!Err,
          Hyperswitch!Rail, Hyperswitch!Then, Hyperswitch!Ok

\* A iyzico rail that could be constructed from a deployment's settings has its own id.
LEMMA IyzicoBuilt ==
  ASSUME NEW env, \A v \in DOMAIN env \ {"timeout_secs"} : env[v] = "live", NEW r, r.ok,
         r \in {Then(Iyzico!from_env(env), LAMBDA c : Iyzico!new(c)), Iyzico!build_iyzico(env)}
  PROVE  r.val.id = "iyzico"
BY DEF Then, Iyzico!from_env, Iyzico!new, Iyzico!build_iyzico, Iyzico!Err, Iyzico!Rail,
          Iyzico!Then, Iyzico!Ok

\* A LNbits rail that could be constructed from a deployment's settings has its own id
\* and the deployment's webhook secret, not an empty one.
LEMMA LnbitsBuilt ==
  ASSUME NEW env, \A v \in DOMAIN env \ {"timeout_secs"} : env[v] = "live", NEW r, r.ok,
         r \in {Then(Lnbits!from_env(env), LAMBDA c : Lnbits!new(c)), Lnbits!build_lnbits(env)}
  PROVE  r.val.id = "lnbits" /\ Lnbits!Secret(r.val) = "live"
<1>1. "live" # Lnbits!Unparsable
  BY Zenon DEF Lnbits!Unparsable
<1>2. ASSUME NEW c, Lnbits!new(c).ok
      PROVE  /\ Lnbits!new(c).val.id = "lnbits"
             /\ Lnbits!Secret(Lnbits!new(c).val) = c.webhook_secret
             /\ c.webhook_secret # Lnbits!Blank
  BY <1>2, ZenonT(30) DEF Lnbits!new, Lnbits!Secret, Lnbits!Required, Lnbits!Err, Lnbits!Rail,
          Lnbits!Ok
<1>3. Lnbits!FromEnv(env, Lnbits!Required, Lnbits!Defaults).ok =>
        Lnbits!FromEnv(env, Lnbits!Required, Lnbits!Defaults).val.webhook_secret = "live"
  BY <1>1 DEF Lnbits!FromEnv, Lnbits!Over, Lnbits!Ok, Lnbits!Err, Lnbits!Required
<1>4. Lnbits!FromMap(env, Lnbits!Required, Lnbits!Defaults).ok =>
        Lnbits!FromMap(env, Lnbits!Required, Lnbits!Defaults).val.webhook_secret \in {"live", Lnbits!Blank}
  BY <1>1 DEF Lnbits!FromMap, Lnbits!Over, Lnbits!Ok, Lnbits!Err, Lnbits!Required
<1>5. CASE r = Then(Lnbits!from_env(env), LAMBDA c : Lnbits!new(c))
  BY <1>2, <1>3, <1>5 DEF Then, Lnbits!from_env
<1>6. CASE r = Lnbits!build_lnbits(env)
  BY <1>2, <1>4, <1>6 DEF Lnbits!Then, Lnbits!build_lnbits
<1> QED BY <1>5, <1>6

\* A Mercado Pago rail that could be constructed from a deployment's settings has its own id
\* and the deployment's webhook secret, not an empty one.
LEMMA MercadopagoBuilt ==
  ASSUME NEW env, \A v \in DOMAIN env \ {"timeout_secs"} : env[v] = "live", NEW r, r.ok,
         r \in {Then(Mercadopago!from_env(env),
                LAMBDA c : Mercadopago!new(c)), Mercadopago!build_mercadopago(env)}
  PROVE  r.val.id = "mercadopago" /\ Mercadopago!Secret(r.val) = "live"
<1>1. "live" # Mercadopago!Unparsable
  BY Zenon DEF Mercadopago!Unparsable
<1>2. ASSUME NEW c, Mercadopago!new(c).ok
      PROVE  /\ Mercadopago!new(c).val.id = "mercadopago"
             /\ Mercadopago!Secret(Mercadopago!new(c).val) = c.webhook_secret
             /\ c.webhook_secret # Mercadopago!Blank
  BY <1>2, ZenonT(30) DEF Mercadopago!new, Mercadopago!Secret, Mercadopago!Err, Mercadopago!Rail,
          Mercadopago!Ok
<1>3. Mercadopago!FromEnv(env, Mercadopago!Required, Mercadopago!Defaults).ok =>
        Mercadopago!FromEnv(env, Mercadopago!Required, Mercadopago!Defaults).val.webhook_secret = "live"
  BY <1>1 DEF Mercadopago!FromEnv, Mercadopago!Over, Mercadopago!Ok, Mercadopago!Err,
          Mercadopago!Required
<1>4. Mercadopago!FromMap(env, Mercadopago!Required, Mercadopago!Defaults).ok =>
        Mercadopago!FromMap(env, Mercadopago!Required, Mercadopago!Defaults).val.webhook_secret \in {"live", Mercadopago!Blank}
  BY <1>1 DEF Mercadopago!FromMap, Mercadopago!Over, Mercadopago!Ok, Mercadopago!Err,
          Mercadopago!Required
<1>5. CASE r = Then(Mercadopago!from_env(env), LAMBDA c : Mercadopago!new(c))
  BY <1>2, <1>3, <1>5 DEF Then, Mercadopago!from_env
<1>6. CASE r = Mercadopago!build_mercadopago(env)
  BY <1>2, <1>4, <1>6 DEF Mercadopago!Then, Mercadopago!build_mercadopago
<1> QED BY <1>5, <1>6

\* A Midtrans rail that could be constructed from a deployment's settings has its own id
\* and the deployment's webhook secret, not an empty one.
LEMMA MidtransBuilt ==
  ASSUME NEW env, \A v \in DOMAIN env \ {"timeout_secs"} : env[v] = "live", NEW r, r.ok,
         r \in {Then(Midtrans!from_env(env),
                LAMBDA c : Midtrans!new(c)), Midtrans!build_midtrans(env)}
  PROVE  r.val.id = "midtrans" /\ Midtrans!Secret(r.val) = "live"
<1>1. "live" # Midtrans!Unparsable
  BY Zenon DEF Midtrans!Unparsable
<1>2. ASSUME NEW c, Midtrans!new(c).ok
      PROVE  /\ Midtrans!new(c).val.id = "midtrans"
             /\ Midtrans!Secret(Midtrans!new(c).val) = c.server_key
             /\ c.server_key # Midtrans!Blank
  BY <1>2, ZenonT(30) DEF Midtrans!new, Midtrans!Secret, Midtrans!Err, Midtrans!Rail, Midtrans!Ok
<1>3. Midtrans!FromEnv(env, Midtrans!Required, Midtrans!Defaults).ok =>
        Midtrans!FromEnv(env, Midtrans!Required, Midtrans!Defaults).val.server_key = "live"
  BY <1>1 DEF Midtrans!FromEnv, Midtrans!Over, Midtrans!Ok, Midtrans!Err, Midtrans!Required
<1>4. Midtrans!FromMap(env, Midtrans!Required, Midtrans!Defaults).ok =>
        Midtrans!FromMap(env, Midtrans!Required, Midtrans!Defaults).val.server_key \in {"live", Midtrans!Blank}
  BY <1>1 DEF Midtrans!FromMap, Midtrans!Over, Midtrans!Ok, Midtrans!Err, Midtrans!Required
<1>5. CASE r = Then(Midtrans!from_env(env), LAMBDA c : Midtrans!new(c))
  BY <1>2, <1>3, <1>5 DEF Then, Midtrans!from_env
<1>6. CASE r = Midtrans!build_midtrans(env)
  BY <1>2, <1>4, <1>6 DEF Midtrans!Then, Midtrans!build_midtrans
<1> QED BY <1>5, <1>6

\* A Mollie rail that could be constructed from a deployment's settings has its own id.
LEMMA MollieBuilt ==
  ASSUME NEW env, \A v \in DOMAIN env \ {"timeout_secs"} : env[v] = "live", NEW r, r.ok,
         r \in {Then(Mollie!from_env(env), LAMBDA c : Mollie!new(c)), Mollie!build_mollie(env)}
  PROVE  r.val.id = "mollie"
BY DEF Then, Mollie!from_env, Mollie!new, Mollie!build_mollie, Mollie!Err, Mollie!Rail,
          Mollie!Then, Mollie!Ok

\* A OpenNode rail that could be constructed from a deployment's settings has its own id
\* and the deployment's webhook secret, not an empty one.
LEMMA OpennodeBuilt ==
  ASSUME NEW env, \A v \in DOMAIN env \ {"timeout_secs"} : env[v] = "live", NEW r, r.ok,
         r \in {Then(Opennode!from_env(env),
                LAMBDA c : Opennode!new(c)), Opennode!build_opennode(env)}
  PROVE  r.val.id = "opennode" /\ Opennode!Secret(r.val) = "live"
<1>1. "live" # Opennode!Unparsable
  BY Zenon DEF Opennode!Unparsable
<1>2. ASSUME NEW c, Opennode!new(c).ok
      PROVE  /\ Opennode!new(c).val.id = "opennode"
             /\ Opennode!Secret(Opennode!new(c).val) = c.api_key
             /\ c.api_key # Opennode!Blank
  BY <1>2, ZenonT(30) DEF Opennode!new, Opennode!Secret, Opennode!Err, Opennode!Rail, Opennode!Ok
<1>3. Opennode!FromEnv(env, Opennode!Required, Opennode!Defaults).ok =>
        Opennode!FromEnv(env, Opennode!Required, Opennode!Defaults).val.api_key = "live"
  BY <1>1 DEF Opennode!FromEnv, Opennode!Over, Opennode!Ok, Opennode!Err, Opennode!Required
<1>4. Opennode!FromMap(env, Opennode!Required, Opennode!Defaults).ok =>
        Opennode!FromMap(env, Opennode!Required, Opennode!Defaults).val.api_key \in {"live", Opennode!Blank}
  BY <1>1 DEF Opennode!FromMap, Opennode!Over, Opennode!Ok, Opennode!Err, Opennode!Required
<1>5. CASE r = Then(Opennode!from_env(env), LAMBDA c : Opennode!new(c))
  BY <1>2, <1>3, <1>5 DEF Then, Opennode!from_env
<1>6. CASE r = Opennode!build_opennode(env)
  BY <1>2, <1>4, <1>6 DEF Opennode!Then, Opennode!build_opennode
<1> QED BY <1>5, <1>6

\* A PayFast rail that could be constructed from a deployment's settings has its own id.
LEMMA PayfastBuilt ==
  ASSUME NEW env, \A v \in DOMAIN env \ {"timeout_secs"} : env[v] = "live", NEW r, r.ok,
         r \in {Then(Payfast!from_env(env),
                LAMBDA c : Payfast!new(c)), Payfast!build_payfast(env)}
  PROVE  r.val.id = "payfast"
BY DEF Then, Payfast!from_env, Payfast!new, Payfast!build_payfast, Payfast!Err, Payfast!Rail,
          Payfast!Then, Payfast!Ok

\* A PayPal rail that could be constructed from a deployment's settings has its own id
\* and the deployment's webhook secret, not an empty one.
LEMMA PaypalBuilt ==
  ASSUME NEW env, \A v \in DOMAIN env \ {"timeout_secs"} : env[v] = "live", NEW r, r.ok,
         r \in {Then(Paypal!from_env(env), LAMBDA c : Paypal!new(c)), Paypal!build_paypal(env)}
  PROVE  r.val.id = "paypal" /\ Paypal!Secret(r.val) = "live"
<1>1. "live" # Paypal!Unparsable
  BY Zenon DEF Paypal!Unparsable
<1>2. ASSUME NEW c, Paypal!new(c).ok
      PROVE  /\ Paypal!new(c).val.id = "paypal"
             /\ Paypal!Secret(Paypal!new(c).val) = c.webhook_id
             /\ c.webhook_id # Paypal!Blank
  BY <1>2, ZenonT(30) DEF Paypal!new, Paypal!Secret, Paypal!Required, Paypal!Err, Paypal!Rail,
          Paypal!Ok
<1> DEFINE E == Paypal!FromEnv(env, Paypal!Required, Paypal!Defaults)
           M == Paypal!FromMap(env, Paypal!Required, Paypal!Defaults)
<1>3. ASSUME NEW c, "webhook_id" \in DOMAIN c, Paypal!BaseUrl(c).ok
      PROVE  Paypal!BaseUrl(c).val.webhook_id = c.webhook_id
  BY <1>3 DEF Paypal!BaseUrl, Paypal!Over, Paypal!Ok, Paypal!Err
<1>4. E.ok => "webhook_id" \in DOMAIN E.val /\ E.val.webhook_id = "live"
  BY <1>1 DEF Paypal!FromEnv, Paypal!Over, Paypal!Ok, Paypal!Err, Paypal!Required
<1>5. M.ok => "webhook_id" \in DOMAIN M.val /\ M.val.webhook_id \in {"live", Paypal!Blank}
  BY <1>1 DEF Paypal!FromMap, Paypal!Over, Paypal!Ok, Paypal!Err, Paypal!Required
<1> HIDE DEF E, M
<1>6. CASE r = Then(Paypal!from_env(env), LAMBDA c : Paypal!new(c))
  <2>1. PICK f : f = Paypal!from_env(env)
    OBVIOUS
  <2>2. f.ok /\ r = Paypal!new(f.val)
    BY <1>6, <2>1 DEF Then
  <2>3. E.ok /\ f = Paypal!BaseUrl(E.val)
    BY <2>1, <2>2 DEF Paypal!from_env, Paypal!Then, E
  <2> QED BY <1>2, <1>3, <1>4, <2>2, <2>3
<1>7. CASE r = Paypal!build_paypal(env)
  <2>1. M.ok /\ r = Paypal!Then(Paypal!BaseUrl(M.val), LAMBDA d : Paypal!new(d))
    BY <1>7 DEF Paypal!build_paypal, Paypal!Then, M
  <2>2. Paypal!BaseUrl(M.val).ok /\ r = Paypal!new(Paypal!BaseUrl(M.val).val)
    BY <2>1 DEF Paypal!Then
  <2> QED BY <1>2, <1>3, <1>5, <2>1, <2>2
<1> QED BY <1>6, <1>7

\* A Paystack rail that could be constructed from a deployment's settings has its own id
\* and the deployment's webhook secret, not an empty one.
LEMMA PaystackBuilt ==
  ASSUME NEW env, \A v \in DOMAIN env \ {"timeout_secs"} : env[v] = "live", NEW r, r.ok,
         r \in {Then(Paystack!from_env(env),
                LAMBDA c : Paystack!new(c)), Paystack!build_paystack(env)}
  PROVE  r.val.id = "paystack" /\ Paystack!Secret(r.val) = "live"
<1>1. "live" # Paystack!Unparsable
  BY Zenon DEF Paystack!Unparsable
<1>2. ASSUME NEW c, Paystack!new(c).ok
      PROVE  /\ Paystack!new(c).val.id = "paystack"
             /\ Paystack!Secret(Paystack!new(c).val) = c.secret_key
             /\ c.secret_key # Paystack!Blank
  BY <1>2, ZenonT(30) DEF Paystack!new, Paystack!Secret, Paystack!Err, Paystack!Rail, Paystack!Ok
<1>3. Paystack!FromEnv(env, Paystack!Required, Paystack!Defaults).ok =>
        Paystack!FromEnv(env, Paystack!Required, Paystack!Defaults).val.secret_key = "live"
  BY <1>1 DEF Paystack!FromEnv, Paystack!Over, Paystack!Ok, Paystack!Err, Paystack!Required
<1>4. Paystack!FromMap(env, Paystack!Required, Paystack!Defaults).ok =>
        Paystack!FromMap(env, Paystack!Required, Paystack!Defaults).val.secret_key \in {"live", Paystack!Blank}
  BY <1>1 DEF Paystack!FromMap, Paystack!Over, Paystack!Ok, Paystack!Err, Paystack!Required
<1>5. CASE r = Then(Paystack!from_env(env), LAMBDA c : Paystack!new(c))
  BY <1>2, <1>3, <1>5 DEF Then, Paystack!from_env
<1>6. CASE r = Paystack!build_paystack(env)
  BY <1>2, <1>4, <1>6 DEF Paystack!Then, Paystack!build_paystack
<1> QED BY <1>5, <1>6

\* A PayU rail that could be constructed from a deployment's settings has its own id
\* and the deployment's webhook secret, not an empty one.
LEMMA PayuBuilt ==
  ASSUME NEW env, \A v \in DOMAIN env \ {"timeout_secs"} : env[v] = "live", NEW r, r.ok,
         r \in {Then(Payu!from_env(env), LAMBDA c : Payu!new(c)), Payu!build_payu(env)}
  PROVE  r.val.id = "payu" /\ Payu!Secret(r.val) = "live"
<1>1. "live" # Payu!Unparsable
  BY Zenon DEF Payu!Unparsable
<1>2. ASSUME NEW c, Payu!new(c).ok
      PROVE  /\ Payu!new(c).val.id = "payu"
             /\ Payu!Secret(Payu!new(c).val) = c.salt
             /\ c.salt # Payu!Blank
  BY <1>2, ZenonT(30) DEF Payu!new, Payu!Secret, Payu!Err, Payu!Rail, Payu!Ok
<1>3. Payu!FromEnv(env, Payu!Required, Payu!Defaults).ok =>
        Payu!FromEnv(env, Payu!Required, Payu!Defaults).val.salt = "live"
  BY <1>1 DEF Payu!FromEnv, Payu!Over, Payu!Ok, Payu!Err, Payu!Required
<1>4. Payu!FromMap(env, Payu!Required, Payu!Defaults).ok =>
        Payu!FromMap(env, Payu!Required, Payu!Defaults).val.salt \in {"live", Payu!Blank}
  BY <1>1 DEF Payu!FromMap, Payu!Over, Payu!Ok, Payu!Err, Payu!Required
<1>5. CASE r = Then(Payu!from_env(env), LAMBDA c : Payu!new(c))
  BY <1>2, <1>3, <1>5 DEF Then, Payu!from_env
<1>6. CASE r = Payu!build_payu(env)
  BY <1>2, <1>4, <1>6 DEF Payu!Then, Payu!build_payu
<1> QED BY <1>5, <1>6

\* A Razorpay rail that could be constructed from a deployment's settings has its own id
\* and the deployment's webhook secret, not an empty one.
LEMMA RazorpayBuilt ==
  ASSUME NEW env, \A v \in DOMAIN env \ {"timeout_secs"} : env[v] = "live", NEW r, r.ok,
         r \in {Then(Razorpay!from_env(env),
                LAMBDA c : Razorpay!new(c)), Razorpay!build_razorpay(env)}
  PROVE  r.val.id = "razorpay" /\ Razorpay!Secret(r.val) = "live"
<1>1. "live" # Razorpay!Unparsable
  BY Zenon DEF Razorpay!Unparsable
<1>2. ASSUME NEW c, Razorpay!new(c).ok
      PROVE  /\ Razorpay!new(c).val.id = "razorpay"
             /\ Razorpay!Secret(Razorpay!new(c).val) = c.webhook_secret
             /\ c.webhook_secret # Razorpay!Blank
  BY <1>2, ZenonT(30) DEF Razorpay!new, Razorpay!Secret, Razorpay!Required, Razorpay!Err,
          Razorpay!Rail,
          Razorpay!Ok
<1>3. Razorpay!FromEnv(env, Razorpay!Required, Razorpay!Defaults).ok =>
        Razorpay!FromEnv(env, Razorpay!Required, Razorpay!Defaults).val.webhook_secret = "live"
  BY <1>1 DEF Razorpay!FromEnv, Razorpay!Over, Razorpay!Ok, Razorpay!Err, Razorpay!Required
<1>4. Razorpay!FromMap(env, Razorpay!Required, Razorpay!Defaults).ok =>
        Razorpay!FromMap(env, Razorpay!Required, Razorpay!Defaults).val.webhook_secret \in {"live", Razorpay!Blank}
  BY <1>1 DEF Razorpay!FromMap, Razorpay!Over, Razorpay!Ok, Razorpay!Err, Razorpay!Required
<1>5. CASE r = Then(Razorpay!from_env(env), LAMBDA c : Razorpay!new(c))
  BY <1>2, <1>3, <1>5 DEF Then, Razorpay!from_env
<1>6. CASE r = Razorpay!build_razorpay(env)
  BY <1>2, <1>4, <1>6 DEF Razorpay!Then, Razorpay!build_razorpay
<1> QED BY <1>5, <1>6

\* A Square rail that could be constructed from a deployment's settings has its own id
\* and the deployment's webhook secret, not an empty one.
LEMMA SquareBuilt ==
  ASSUME NEW env, \A v \in DOMAIN env \ {"timeout_secs"} : env[v] = "live", NEW r, r.ok,
         r \in {Then(Square!from_env(env), LAMBDA c : Square!new(c)), Square!build_square(env)}
  PROVE  r.val.id = "square" /\ Square!Secret(r.val) = "live"
<1>1. "live" # Square!Unparsable
  BY Zenon DEF Square!Unparsable
<1>2. ASSUME NEW c, Square!new(c).ok
      PROVE  /\ Square!new(c).val.id = "square"
             /\ Square!Secret(Square!new(c).val) = c.webhook_signature_key
             /\ c.webhook_signature_key # Square!Blank
  BY <1>2, ZenonT(30) DEF Square!new, Square!Secret, Square!Required, Square!Err, Square!Rail,
          Square!Ok
<1>3. Square!FromEnv(env, Square!Required, Square!Defaults).ok =>
        Square!FromEnv(env, Square!Required, Square!Defaults).val.webhook_signature_key = "live"
  BY <1>1 DEF Square!FromEnv, Square!Over, Square!Ok, Square!Err, Square!Required
<1>4. Square!FromMap(env, Square!Required, Square!Defaults).ok =>
        Square!FromMap(env, Square!Required, Square!Defaults).val.webhook_signature_key \in {"live", Square!Blank}
  BY <1>1 DEF Square!FromMap, Square!Over, Square!Ok, Square!Err, Square!Required
<1>5. CASE r = Then(Square!from_env(env), LAMBDA c : Square!new(c))
  BY <1>2, <1>3, <1>5 DEF Then, Square!from_env
<1>6. CASE r = Square!build_square(env)
  BY <1>2, <1>4, <1>6 DEF Square!Then, Square!build_square
<1> QED BY <1>5, <1>6

\* A Stripe rail that could be constructed from a deployment's settings has its own id
\* and the deployment's webhook secret, not an empty one.
LEMMA StripeBuilt ==
  ASSUME NEW env, \A v \in DOMAIN env \ {"timeout_secs"} : env[v] = "live", NEW r, r.ok,
         r \in {Then(Stripe!from_env(env), LAMBDA c : Stripe!new(c)), Stripe!build_stripe(env)}
  PROVE  r.val.id = "stripe" /\ Stripe!Secret(r.val) = "live"
<1>1. "live" # Stripe!Unparsable
  BY Zenon DEF Stripe!Unparsable
<1>2. ASSUME NEW c, Stripe!new(c).ok
      PROVE  /\ Stripe!new(c).val.id = "stripe"
             /\ Stripe!Secret(Stripe!new(c).val) = c.webhook_secret
             /\ c.webhook_secret # Stripe!Blank
  BY <1>2, ZenonT(30) DEF Stripe!new, Stripe!Secret, Stripe!Err, Stripe!Rail, Stripe!Ok
<1>3. Stripe!FromEnv(env, Stripe!Required, Stripe!Defaults).ok =>
        Stripe!FromEnv(env, Stripe!Required, Stripe!Defaults).val.webhook_secret = "live"
  BY <1>1 DEF Stripe!FromEnv, Stripe!Over, Stripe!Ok, Stripe!Err, Stripe!Required
<1>4. Stripe!FromMap(env, Stripe!Required, Stripe!Defaults).ok =>
        Stripe!FromMap(env, Stripe!Required, Stripe!Defaults).val.webhook_secret \in {"live", Stripe!Blank}
  BY <1>1 DEF Stripe!FromMap, Stripe!Over, Stripe!Ok, Stripe!Err, Stripe!Required
<1>5. CASE r = Then(Stripe!from_env(env), LAMBDA c : Stripe!new(c))
  BY <1>2, <1>3, <1>5 DEF Then, Stripe!from_env
<1>6. CASE r = Stripe!build_stripe(env)
  BY <1>2, <1>4, <1>6 DEF Stripe!Then, Stripe!build_stripe
<1> QED BY <1>5, <1>6

\* A Xendit rail that could be constructed from a deployment's settings has its own id
\* and the deployment's webhook secret, not an empty one.
LEMMA XenditBuilt ==
  ASSUME NEW env, \A v \in DOMAIN env \ {"timeout_secs"} : env[v] = "live", NEW r, r.ok,
         r \in {Then(Xendit!from_env(env), LAMBDA c : Xendit!new(c)), Xendit!build_xendit(env)}
  PROVE  r.val.id = "xendit" /\ Xendit!Secret(r.val) = "live"
<1>1. "live" # Xendit!Unparsable
  BY Zenon DEF Xendit!Unparsable
<1>2. ASSUME NEW c, Xendit!new(c).ok
      PROVE  /\ Xendit!new(c).val.id = "xendit"
             /\ Xendit!Secret(Xendit!new(c).val) = c.webhook_token
             /\ c.webhook_token # Xendit!Blank
  BY <1>2, ZenonT(30) DEF Xendit!new, Xendit!Secret, Xendit!Err, Xendit!Rail, Xendit!Ok
<1>3. Xendit!FromEnv(env, Xendit!Required, Xendit!Defaults).ok =>
        Xendit!FromEnv(env, Xendit!Required, Xendit!Defaults).val.webhook_token = "live"
  BY <1>1 DEF Xendit!FromEnv, Xendit!Over, Xendit!Ok, Xendit!Err, Xendit!Required
<1>4. Xendit!FromMap(env, Xendit!Required, Xendit!Defaults).ok =>
        Xendit!FromMap(env, Xendit!Required, Xendit!Defaults).val.webhook_token \in {"live", Xendit!Blank}
  BY <1>1 DEF Xendit!FromMap, Xendit!Over, Xendit!Ok, Xendit!Err, Xendit!Required
<1>5. CASE r = Then(Xendit!from_env(env), LAMBDA c : Xendit!new(c))
  BY <1>2, <1>3, <1>5 DEF Then, Xendit!from_env
<1>6. CASE r = Xendit!build_xendit(env)
  BY <1>2, <1>4, <1>6 DEF Xendit!Then, Xendit!build_xendit
<1> QED BY <1>5, <1>6

\* A Yoco rail that could be constructed from a deployment's settings has its own id
\* and the deployment's webhook secret, not an empty one.
LEMMA YocoBuilt ==
  ASSUME NEW env, \A v \in DOMAIN env \ {"timeout_secs"} : env[v] = "live", NEW r, r.ok,
         r \in {Then(Yoco!from_env(env), LAMBDA c : Yoco!new(c)), Yoco!build_yoco(env)}
  PROVE  r.val.id = "yoco" /\ Yoco!Secret(r.val) = "live"
<1>1. "live" # Yoco!Unparsable
  BY Zenon DEF Yoco!Unparsable
<1> QED BY <1>1 DEF Then, Yoco!from_env, Yoco!new, Yoco!build_yoco, Yoco!Secret, Yoco!FromEnv,
          Yoco!Required, Yoco!Defaults, Yoco!Err, Yoco!Then, Yoco!decode_webhook_secret,
          Yoco!Rail, Yoco!FromMap, Yoco!Ok, Yoco!Over

\* On every rail and through both constructors: a rail built from a deployment whose settings
\* are the live ones has its own id and, where its webhooks are signed, the live secret.
LEMMA BuiltRail ==
  ASSUME NEW p \in Providers, NEW env, \A v \in DOMAIN env \ {"timeout_secs"} : env[v] = "live",
         NEW r, r \in {Build(p, env), new_fiat(p, env)}, r.ok
  PROVE  r.val.id = p /\ (p \notin Unkeyed => SecretOf(p, r.val) = "live")
<1>1. CASE p = "adyen"
  <2>1. r \in {Then(Adyen!from_env(env), LAMBDA c : Adyen!new(c)), Adyen!build_adyen(env)}
    BY <1>1, Zenon DEF Build, new_fiat
  <2> QED BY <1>1, <2>1, AdyenBuilt, AdyenDispatch DEF Unkeyed
<1>2. CASE p = "btcpay"
  <2>1. r \in {Then(Btcpay!from_env(env), LAMBDA c : Btcpay!new(c)), Btcpay!build_btcpay(env)}
    BY <1>2, Zenon DEF Build, new_fiat
  <2> QED BY <1>2, <2>1, BtcpayBuilt, BtcpayDispatch DEF Unkeyed
<1>3. CASE p = "checkoutcom"
  <2>1. r \in {Then(Checkoutcom!from_env(env),
               LAMBDA c : Checkoutcom!new(c)), Checkoutcom!build_checkoutcom(env)}
    BY <1>3, Zenon DEF Build, new_fiat
  <2> QED BY <1>3, <2>1, CheckoutcomBuilt, CheckoutcomDispatch DEF Unkeyed
<1>4. CASE p = "coinbasecommerce"
  <2>1. r \in {Then(Coinbasecommerce!from_env(env),
               LAMBDA c : Coinbasecommerce!new(c)), Coinbasecommerce!build_coinbasecommerce(env)}
    BY <1>4, Zenon DEF Build, new_fiat
  <2> QED BY <1>4, <2>1, CoinbasecommerceBuilt, CoinbasecommerceDispatch DEF Unkeyed
<1>5. CASE p = "flutterwave"
  <2>1. r \in {Then(Flutterwave!from_env(env),
               LAMBDA c : Flutterwave!new(c)), Flutterwave!build_flutterwave(env)}
    BY <1>5, Zenon DEF Build, new_fiat
  <2> QED BY <1>5, <2>1, FlutterwaveBuilt, FlutterwaveDispatch DEF Unkeyed
<1>6. CASE p = "hyperswitch"
  <2>1. r \in {Then(Hyperswitch!from_env(env),
               LAMBDA c : Hyperswitch!new(c)), Hyperswitch!new_hyperswitch(env)}
    BY <1>6, Zenon DEF Build, new_fiat
  <2> QED BY <1>6, <2>1, HyperswitchBuilt, HyperswitchDispatch DEF Unkeyed
<1>7. CASE p = "iyzico"
  <2>1. r \in {Then(Iyzico!from_env(env), LAMBDA c : Iyzico!new(c)), Iyzico!build_iyzico(env)}
    BY <1>7, Zenon DEF Build, new_fiat
  <2> QED BY <1>7, <2>1, IyzicoBuilt, IyzicoDispatch DEF Unkeyed
<1>8. CASE p = "lnbits"
  <2>1. r \in {Then(Lnbits!from_env(env), LAMBDA c : Lnbits!new(c)), Lnbits!build_lnbits(env)}
    BY <1>8, Zenon DEF Build, new_fiat
  <2> QED BY <1>8, <2>1, LnbitsBuilt, LnbitsDispatch DEF Unkeyed
<1>9. CASE p = "mercadopago"
  <2>1. r \in {Then(Mercadopago!from_env(env),
               LAMBDA c : Mercadopago!new(c)), Mercadopago!build_mercadopago(env)}
    BY <1>9, Zenon DEF Build, new_fiat
  <2> QED BY <1>9, <2>1, MercadopagoBuilt, MercadopagoDispatch DEF Unkeyed
<1>10. CASE p = "midtrans"
  <2>1. r \in {Then(Midtrans!from_env(env),
               LAMBDA c : Midtrans!new(c)), Midtrans!build_midtrans(env)}
    BY <1>10, Zenon DEF Build, new_fiat
  <2> QED BY <1>10, <2>1, MidtransBuilt, MidtransDispatch DEF Unkeyed
<1>11. CASE p = "mollie"
  <2>1. r \in {Then(Mollie!from_env(env), LAMBDA c : Mollie!new(c)), Mollie!build_mollie(env)}
    BY <1>11, Zenon DEF Build, new_fiat
  <2> QED BY <1>11, <2>1, MollieBuilt, MollieDispatch DEF Unkeyed
<1>12. CASE p = "opennode"
  <2>1. r \in {Then(Opennode!from_env(env),
               LAMBDA c : Opennode!new(c)), Opennode!build_opennode(env)}
    BY <1>12, Zenon DEF Build, new_fiat
  <2> QED BY <1>12, <2>1, OpennodeBuilt, OpennodeDispatch DEF Unkeyed
<1>13. CASE p = "payfast"
  <2>1. r \in {Then(Payfast!from_env(env), LAMBDA c : Payfast!new(c)), Payfast!build_payfast(env)}
    BY <1>13, Zenon DEF Build, new_fiat
  <2> QED BY <1>13, <2>1, PayfastBuilt, PayfastDispatch DEF Unkeyed
<1>14. CASE p = "paypal"
  <2>1. r \in {Then(Paypal!from_env(env), LAMBDA c : Paypal!new(c)), Paypal!build_paypal(env)}
    BY <1>14, Zenon DEF Build, new_fiat
  <2> QED BY <1>14, <2>1, PaypalBuilt, PaypalDispatch DEF Unkeyed
<1>15. CASE p = "paystack"
  <2>1. r \in {Then(Paystack!from_env(env),
               LAMBDA c : Paystack!new(c)), Paystack!build_paystack(env)}
    BY <1>15, Zenon DEF Build, new_fiat
  <2> QED BY <1>15, <2>1, PaystackBuilt, PaystackDispatch DEF Unkeyed
<1>16. CASE p = "payu"
  <2>1. r \in {Then(Payu!from_env(env), LAMBDA c : Payu!new(c)), Payu!build_payu(env)}
    BY <1>16, Zenon DEF Build, new_fiat
  <2> QED BY <1>16, <2>1, PayuBuilt, PayuDispatch DEF Unkeyed
<1>17. CASE p = "razorpay"
  <2>1. r \in {Then(Razorpay!from_env(env),
               LAMBDA c : Razorpay!new(c)), Razorpay!build_razorpay(env)}
    BY <1>17, Zenon DEF Build, new_fiat
  <2> QED BY <1>17, <2>1, RazorpayBuilt, RazorpayDispatch DEF Unkeyed
<1>18. CASE p = "square"
  <2>1. r \in {Then(Square!from_env(env), LAMBDA c : Square!new(c)), Square!build_square(env)}
    BY <1>18, Zenon DEF Build, new_fiat
  <2> QED BY <1>18, <2>1, SquareBuilt, SquareDispatch DEF Unkeyed
<1>19. CASE p = "stripe"
  <2>1. r \in {Then(Stripe!from_env(env), LAMBDA c : Stripe!new(c)), Stripe!build_stripe(env)}
    BY <1>19, Zenon DEF Build, new_fiat
  <2> QED BY <1>19, <2>1, StripeBuilt, StripeDispatch DEF Unkeyed
<1>20. CASE p = "xendit"
  <2>1. r \in {Then(Xendit!from_env(env), LAMBDA c : Xendit!new(c)), Xendit!build_xendit(env)}
    BY <1>20, Zenon DEF Build, new_fiat
  <2> QED BY <1>20, <2>1, XenditBuilt, XenditDispatch DEF Unkeyed
<1>21. CASE p = "yoco"
  <2>1. r \in {Then(Yoco!from_env(env), LAMBDA c : Yoco!new(c)), Yoco!build_yoco(env)}
    BY <1>21, Zenon DEF Build, new_fiat
  <2> QED BY <1>21, <2>1, YocoBuilt, YocoDispatch DEF Unkeyed
<1> QED BY <1>1, <1>2, <1>3, <1>4, <1>5, <1>6, <1>7, <1>8, <1>9, <1>10, <1>11, <1>12, <1>13,
          <1>14, <1>15, <1>16, <1>17, <1>18, <1>19, <1>20, <1>21 DEF Providers

-----------------------------------------------------------------------------
(* currency.rs: an amount survives being formatted and read back *)

\* The lower-case forms of the codes are not codes, and no two codes share one.
LEMMA LowerIsLower ==
  /\ \A u \in Codes : Lower[u] \notin Codes
  /\ \A u, v \in Codes : Lower[u] = Lower[v] => u = v
BY DEF Lower, Codes

\* Upper-casing the lower-case form of a code gives the code back.
LEMMA UpperOfLower ==
  ASSUME NEW u \in Codes
  PROVE  Upper(Lower[u]) = u
BY LowerIsLower DEF Upper

\* Upper-casing leaves a code in upper case alone.
LEMMA UpperOfCode ==
  ASSUME NEW u \in Codes
  PROVE  Upper(u) = u
BY LowerIsLower DEF Upper

\* Upper-casing a code twice is upper-casing it once, whatever string it is given.
LEMMA UpperIdempotent ==
  ASSUME NEW c
  PROVE  Upper(Upper(c)) = Upper(c)
<1>1. CASE \E u \in Codes : Lower[u] = c
  <2>1. Upper(c) \in Codes
    BY <1>1 DEF Upper
  <2> QED BY <2>1, UpperOfCode
<1>2. CASE ~\E u \in Codes : Lower[u] = c
  BY <1>2 DEF Upper
<1> QED BY <1>1, <1>2

\* Upper-casing, lower-casing and upper-casing again is upper-casing.
LEMMA UpperOfLowered ==
  ASSUME NEW c
  PROVE  Upper(Lowered(Upper(c))) = Upper(c)
<1>1. CASE Upper(c) \in Codes
  BY <1>1, UpperOfLower DEF Lowered
<1>2. CASE Upper(c) \notin Codes
  BY <1>2, UpperIdempotent DEF Lowered
<1> QED BY <1>1, <1>2

\* A code with an exponent is in the table, and has none, two or three decimals.
LEMMA Exponents ==
  ASSUME NEW c, exponent(c).ok
  PROVE  /\ Upper(c) \in Codes
         /\ exponent(c) = Ok(CURRENCY_DEFS[Upper(c)])
         /\ exponent(c).val \in {0, 2, 3}
<1>1. Upper(c) \in Codes
  BY DEF exponent, Err, Ok, CURRENCY_DEFS
<1>2. exponent(c) = Ok(CURRENCY_DEFS[Upper(c)])
  BY <1>1 DEF exponent, CURRENCY_DEFS
<1>3. CURRENCY_DEFS[Upper(c)] \in {0, 2, 3}
  BY <1>1 DEF CURRENCY_DEFS, Codes
<1> QED BY <1>1, <1>2, <1>3 DEF Ok

\* Codes that differ in case only have the same exponent.
LEMMA ExponentUpper ==
  ASSUME NEW a, NEW b, SameCode(a, b)
  PROVE  exponent(a) = exponent(b)
BY DEF exponent, SameCode

\* minor_to_major_string splits the amount at the currency's exponent, if it has one.
LEMMA ToMajor ==
  ASSUME NEW a, NEW c
  PROVE  /\ exponent(c).ok => minor_to_major_string(a, c) =
                Ok(Major(a \div pow10(exponent(c).val), a % pow10(exponent(c).val), exponent(c).val))
         /\ minor_to_major_string(a, c).ok => exponent(c).ok
<1>1. ~exponent(c).ok => minor_to_major_string(a, c) = exponent(c)
  BY DEF minor_to_major_string, Then
<1> QED BY <1>1 DEF minor_to_major_string, Then

\* u64::MAX is a natural number.
LEMMA MaxNat == MaxU64 \in Nat
BY SMT DEF MaxU64

\* The powers of ten of the table are positive.
LEMMA PowNat ==
  ASSUME NEW e \in 0..3
  PROVE  pow10(e) \in Nat \ {0}
BY DEF pow10

\* What reading a decimal gives, when it has no more digits than the currency and fits.
LEMMA ToMinor ==
  ASSUME NEW c, exponent(c).ok, NEW w \in Nat, NEW f \in Nat, NEW d \in Nat, NEW n \in Nat,
         d <= exponent(c).val,
         n = w * pow10(exponent(c).val) + f * pow10(exponent(c).val - d), n <= MaxU64
  PROVE  major_string_to_minor(Major(w, f, d), c) = Ok(n)
<1> DEFINE s == Major(w, f, d)
           e == exponent(c).val
<1>1. s.whole = w /\ s.frac = f /\ s.digits = d
  BY DEF Major
<1>2. exponent(c).val \in {0, 2, 3}
  BY Exponents
<1>3. ~(d > e) /\ ~(n > MaxU64)
  BY <1>2, MaxNat
<1>4. major_string_to_minor(s, c) =
         IF s.digits > e \/ s.whole * pow10(e) + s.frac * pow10(e - s.digits) > MaxU64
         THEN Err("Rail") ELSE Ok(s.whole * pow10(e) + s.frac * pow10(e - s.digits))
  BY Zenon DEF major_string_to_minor, Then
<1> HIDE DEF s, e
<1>5. s.whole * pow10(e) + s.frac * pow10(e - s.digits) = n
  BY <1>1 DEF e
<1>6. major_string_to_minor(s, c) = Ok(n)
  BY <1>1, <1>3, <1>4, <1>5
<1> QED BY <1>6 DEF s

\* Quotient and remainder by a power of ten make up the amount again.
LEMMA DivMod ==
  ASSUME NEW a \in Nat, NEW k \in {0, 2, 3}
  PROVE  /\ a \div pow10(k) \in Nat /\ a % pow10(k) \in Nat
         /\ a = (a \div pow10(k)) * pow10(k) + (a % pow10(k)) * pow10(k - k)
<1>1. CASE k = 0
  BY <1>1 DEF pow10
<1>2. CASE k = 2
  BY <1>2 DEF pow10
<1>3. CASE k = 3
  BY <1>3 DEF pow10
<1> QED BY <1>1, <1>2, <1>3

\* An amount formatted as a decimal reads back as itself.
LEMMA RoundTrip ==
  ASSUME NEW a \in 0..MaxU64, NEW c, NEW d, SameCode(c, d), minor_to_major_string(a, c).ok
  PROVE  major_string_to_minor(minor_to_major_string(a, c).val, d) = Ok(a)
<1>1. /\ exponent(c).ok /\ exponent(d) = exponent(c)
      /\ minor_to_major_string(a, c) =
            Ok(Major(a \div pow10(exponent(c).val), a % pow10(exponent(c).val), exponent(c).val))
  BY ToMajor, ExponentUpper
<1>2. exponent(c).val \in {0, 2, 3}
  BY <1>1, Exponents
<1>3. a \in Nat /\ a <= MaxU64
  BY MaxNat
<1>4. PICK k : k = exponent(c).val
  OBVIOUS
<1>5. PICK w, f : w = a \div pow10(k) /\ f = a % pow10(k)
  OBVIOUS
<1>6. w \in Nat /\ f \in Nat /\ a = w * pow10(k) + f * pow10(k - k)
  BY <1>2, <1>3, <1>4, <1>5, DivMod
<1>7. major_string_to_minor(Major(w, f, k), d) = Ok(a)
  <2>1. exponent(d).ok /\ exponent(d).val = k /\ k \in Nat /\ k <= k
    BY <1>1, <1>2, <1>4
  <2> QED BY <1>3, <1>6, <2>1, ToMinor
<1> QED BY <1>1, <1>4, <1>5, <1>7 DEF Ok

\* A decimal sent as a JSON number loses trailing zeros, not its value.
LEMMA JsonKeeps ==
  ASSUME NEW w \in Nat, NEW k \in {0, 2, 3}, NEW f \in 0..(pow10(k) - 1)
  PROVE  \E g \in Nat, d \in 0..k :
            JsonNumber(Major(w, f, k)) = Major(w, g, d) /\ g * pow10(k - d) = f
<1> DEFINE v == Major(w, f, k)
           S == {Major(v.whole, v.frac \div pow10(j), v.digits - j) : j \in 0..v.digits}
           P(x) == x.frac * pow10(v.digits - x.digits) = v.frac /\ x.frac % 10 # 0
<1>1. v.whole = w /\ v.frac = f /\ v.digits = k
  BY DEF Major
<1>2. CASE f = 0
  <2>1. JsonNumber(v) = Major(w, 0, 0)
    BY <1>1, <1>2 DEF JsonNumber
  <2>2. 0 * pow10(k - 0) = 0 /\ 0 \in 0..k
    BY DEF pow10
  <2> QED BY <1>2, <2>1, <2>2
<1>3. CASE f # 0
  <2>1. \E j \in 0..k : (f \div pow10(j)) * pow10(k - (k - j)) = f /\ (f \div pow10(j)) % 10 # 0
    <3>0. f \in Nat /\ f # 0
      BY <1>3, PowNat
    <3>1. CASE k = 0
      BY <1>3, <3>1 DEF pow10
    <3>2. CASE k = 2
      <4>1. f \in 1..99
        BY <1>3, <3>2 DEF pow10
      <4>2. CASE f % 10 # 0
        <5>1. (f \div pow10(0)) * pow10(k - (k - 0)) = f /\ (f \div pow10(0)) % 10 # 0
          BY <3>2, <4>1, <4>2 DEF pow10
        <5> QED BY <5>1, <3>2
      <4>3. CASE f % 10 = 0
        <5>1. (f \div pow10(1)) * pow10(k - (k - 1)) = f /\ (f \div pow10(1)) % 10 # 0
          BY <3>2, <4>1, <4>3 DEF pow10
        <5> QED BY <5>1, <3>2
      <4> QED BY <4>2, <4>3
    <3>3. CASE k = 3
      <4>1. f \in 1..999
        BY <1>3, <3>3 DEF pow10
      <4>2. CASE f % 10 # 0
        <5>1. (f \div pow10(0)) * pow10(k - (k - 0)) = f /\ (f \div pow10(0)) % 10 # 0
          BY <3>3, <4>1, <4>2 DEF pow10
        <5> QED BY <5>1, <3>3
      <4>3. CASE f % 10 = 0 /\ f % 100 # 0
        <5>1. (f \div pow10(1)) * pow10(k - (k - 1)) = f /\ (f \div pow10(1)) % 10 # 0
          BY <3>3, <4>1, <4>3 DEF pow10
        <5> QED BY <5>1, <3>3
      <4>4. CASE f % 100 = 0
        <5>1. (f \div pow10(2)) * pow10(k - (k - 2)) = f /\ (f \div pow10(2)) % 10 # 0
          BY <3>3, <4>1, <4>4 DEF pow10
        <5> QED BY <5>1, <3>3
      <4> QED BY <4>2, <4>3, <4>4
    <3> QED BY <3>1, <3>2, <3>3
  <2>2. \E x \in S : P(x)
    <3>1. PICK j \in 0..k : (f \div pow10(j)) * pow10(k - (k - j)) = f /\ (f \div pow10(j)) % 10 # 0
      BY <2>1
    <3>2. Major(w, f \div pow10(j), k - j) \in S
      BY <1>1
    <3>3. P(Major(w, f \div pow10(j), k - j))
      BY <1>1, <3>1 DEF Major
    <3> QED BY <3>2, <3>3
  <2>3. JsonNumber(v) = CHOOSE x \in S : P(x)
    BY <1>1, <1>3, Zenon DEF JsonNumber
  <2>4. JsonNumber(v) \in S /\ P(JsonNumber(v))
    <3> HIDE DEF S, P
    <3> QED BY <2>2, <2>3
  <2>5. PICK j \in 0..k : JsonNumber(v) = Major(w, f \div pow10(j), k - j)
    BY <1>1, <2>4
  <2>6. (f \div pow10(j)) * pow10(k - (k - j)) = f
    BY <1>1, <2>4, <2>5 DEF Major
  <2>7. f \div pow10(j) \in Nat /\ k - j \in 0..k
    <3>1. f \in Nat /\ j \in 0..3 /\ pow10(j) \in Nat \ {0}
      BY PowNat
    <3> QED BY <3>1
  <2> QED BY <2>5, <2>6, <2>7
<1> QED BY <1>2, <1>3

\* An amount formatted as a decimal and sent as a JSON number reads back as itself.
LEMMA JsonRoundTrip ==
  ASSUME NEW a \in 0..MaxU64, NEW c, NEW d, SameCode(c, d), minor_to_major_string(a, c).ok
  PROVE  major_string_to_minor(JsonNumber(minor_to_major_string(a, c).val), d) = Ok(a)
<1>1. /\ exponent(c).ok /\ exponent(d) = exponent(c)
      /\ minor_to_major_string(a, c) =
            Ok(Major(a \div pow10(exponent(c).val), a % pow10(exponent(c).val), exponent(c).val))
  BY ToMajor, ExponentUpper
<1>2. a \in Nat /\ a <= MaxU64 /\ exponent(c).val \in {0, 2, 3}
  BY <1>1, Exponents, MaxNat
<1>3. PICK k : k = exponent(c).val
  OBVIOUS
<1>4. PICK w, f : w = a \div pow10(k) /\ f = a % pow10(k)
  OBVIOUS
<1>5. /\ w \in Nat /\ f \in 0..(pow10(k) - 1)
      /\ a = w * pow10(k) + f * pow10(k - k) /\ pow10(k - k) = 1
  <2>1. a % pow10(k) < pow10(k) /\ pow10(k - k) = 1 /\ pow10(k) \in Nat
    <3>1. CASE k = 0
      BY <1>2, <3>1 DEF pow10
    <3>2. CASE k = 2
      BY <1>2, <3>2 DEF pow10
    <3>3. CASE k = 3
      BY <1>2, <3>3 DEF pow10
    <3> QED BY <1>2, <1>3, <3>1, <3>2, <3>3
  <2>2. w \in Nat /\ f \in Nat /\ a = w * pow10(k) + f * pow10(k - k)
    BY <1>2, <1>3, <1>4, DivMod
  <2>3. f \in 0..(pow10(k) - 1)
    BY <1>4, <2>1, <2>2
  <2> QED BY <2>1, <2>2, <2>3
<1>6. PICK g \in Nat, d2 \in 0..k :
         JsonNumber(Major(w, f, k)) = Major(w, g, d2) /\ g * pow10(k - d2) = f
  BY <1>2, <1>3, <1>5, JsonKeeps
<1>7. a = w * pow10(k) + g * pow10(k - d2)
  BY <1>5, <1>6
<1>8. major_string_to_minor(Major(w, g, d2), d) = Ok(a)
  <2>1. exponent(d).ok /\ exponent(d).val = k /\ d2 \in Nat /\ d2 <= k
    BY <1>1, <1>2, <1>3
  <2> QED BY <1>2, <1>5, <1>7, <2>1, ToMinor
<1> QED BY <1>1, <1>3, <1>4, <1>6, <1>8 DEF Ok

\* Codes that differ in case only format an amount alike.
LEMMA SameMajor ==
  ASSUME NEW a, NEW c, NEW d, SameCode(c, d)
  PROVE  minor_to_major_string(a, c) = minor_to_major_string(a, d)
BY ExponentUpper DEF minor_to_major_string

\* Adyen's adapter uses the currency helpers of FiatKit as they are.
LEMMA AdyenKit ==
  /\ \A c : Adyen!Upper(c) = Upper(c)
BY DEF Upper, Codes, Lower, Adyen!Upper, Adyen!Codes, Adyen!Lower

\* BTCPay's adapter uses the currency helpers of FiatKit as they are.
LEMMA BtcpayKit ==
  /\ \A c : Btcpay!Upper(c) = Upper(c)
  /\ \A a, c : Btcpay!minor_to_major_string(a, c) = minor_to_major_string(a, c)
  /\ \A v, c : Btcpay!major_string_to_minor(v, c) = major_string_to_minor(v, c)
<1>1. \A c : Btcpay!Upper(c) = Upper(c)
  BY DEF Upper, Codes, Lower, Btcpay!Upper, Btcpay!Codes, Btcpay!Lower
<1>2. \A c : Btcpay!exponent(c) = exponent(c)
  BY <1>1 DEF exponent, CURRENCY_DEFS, Codes, Ok, Err, Btcpay!exponent, Btcpay!CURRENCY_DEFS,
     Btcpay!Codes, Btcpay!Ok, Btcpay!Err
<1>3. Btcpay!MaxU64 = MaxU64
  BY SMT DEF MaxU64, Btcpay!MaxU64
<1>4. \A e : Btcpay!pow10(e) = pow10(e)
  BY DEF pow10, Btcpay!pow10
<1>5. \A a, c : Btcpay!minor_to_major_string(a, c) = minor_to_major_string(a, c)
  BY <1>2, <1>4 DEF minor_to_major_string, Then, Ok, Major, Btcpay!minor_to_major_string,
     Btcpay!Then, Btcpay!Ok, Btcpay!Major
<1>6. \A v, c : Btcpay!major_string_to_minor(v, c) = major_string_to_minor(v, c)
  BY <1>3, <1>2, <1>4 DEF major_string_to_minor, Then, Ok, Err, Btcpay!major_string_to_minor,
     Btcpay!Then, Btcpay!Ok, Btcpay!Err
<1> QED BY <1>1, <1>5, <1>6

\* Checkout.com's adapter uses the currency helpers of FiatKit as they are.
LEMMA CheckoutcomKit ==
  /\ \A c : Checkoutcom!Upper(c) = Upper(c)
BY DEF Upper, Codes, Lower, Checkoutcom!Upper, Checkoutcom!Codes, Checkoutcom!Lower

\* Coinbase Commerce's adapter uses the currency helpers of FiatKit as they are.
LEMMA CoinbasecommerceKit ==
  /\ \A c : Coinbasecommerce!Upper(c) = Upper(c)
  /\ \A a, c : Coinbasecommerce!minor_to_major_string(a, c) = minor_to_major_string(a, c)
  /\ \A v, c : Coinbasecommerce!major_string_to_minor(v, c) = major_string_to_minor(v, c)
<1>1. \A c : Coinbasecommerce!Upper(c) = Upper(c)
  BY DEF Upper, Codes, Lower, Coinbasecommerce!Upper, Coinbasecommerce!Codes,
     Coinbasecommerce!Lower
<1>2. \A c : Coinbasecommerce!exponent(c) = exponent(c)
  BY <1>1 DEF exponent, CURRENCY_DEFS, Codes, Ok, Err, Coinbasecommerce!exponent,
     Coinbasecommerce!CURRENCY_DEFS, Coinbasecommerce!Codes, Coinbasecommerce!Ok,
     Coinbasecommerce!Err
<1>3. Coinbasecommerce!MaxU64 = MaxU64
  BY SMT DEF MaxU64, Coinbasecommerce!MaxU64
<1>4. \A e : Coinbasecommerce!pow10(e) = pow10(e)
  BY DEF pow10, Coinbasecommerce!pow10
<1>5. \A a, c : Coinbasecommerce!minor_to_major_string(a, c) = minor_to_major_string(a, c)
  BY <1>2, <1>4 DEF minor_to_major_string, Then, Ok, Major,
     Coinbasecommerce!minor_to_major_string, Coinbasecommerce!Then, Coinbasecommerce!Ok,
     Coinbasecommerce!Major
<1>6. \A v, c : Coinbasecommerce!major_string_to_minor(v, c) = major_string_to_minor(v, c)
  BY <1>3, <1>2, <1>4 DEF major_string_to_minor, Then, Ok, Err,
     Coinbasecommerce!major_string_to_minor, Coinbasecommerce!Then, Coinbasecommerce!Ok,
     Coinbasecommerce!Err
<1> QED BY <1>1, <1>5, <1>6

\* Flutterwave's adapter uses the currency helpers of FiatKit as they are.
LEMMA FlutterwaveKit ==
  /\ \A c : Flutterwave!Upper(c) = Upper(c)
  /\ \A a, b : Flutterwave!SameCode(a, b) = SameCode(a, b)
  /\ \A a, c : Flutterwave!minor_to_major_string(a, c) = minor_to_major_string(a, c)
  /\ \A v, c : Flutterwave!major_string_to_minor(v, c) = major_string_to_minor(v, c)
<1>1. \A c : Flutterwave!Upper(c) = Upper(c)
  BY DEF Upper, Codes, Lower, Flutterwave!Upper, Flutterwave!Codes, Flutterwave!Lower
<1>2. \A a, b : Flutterwave!SameCode(a, b) = SameCode(a, b)
  BY <1>1 DEF SameCode, Flutterwave!SameCode
<1>3. \A c : Flutterwave!exponent(c) = exponent(c)
  BY <1>1 DEF exponent, CURRENCY_DEFS, Codes, Ok, Err, Flutterwave!exponent,
     Flutterwave!CURRENCY_DEFS, Flutterwave!Codes, Flutterwave!Ok, Flutterwave!Err
<1>4. Flutterwave!MaxU64 = MaxU64
  BY SMT DEF MaxU64, Flutterwave!MaxU64
<1>5. \A e : Flutterwave!pow10(e) = pow10(e)
  BY DEF pow10, Flutterwave!pow10
<1>6. \A a, c : Flutterwave!minor_to_major_string(a, c) = minor_to_major_string(a, c)
  BY <1>3, <1>5 DEF minor_to_major_string, Then, Ok, Major, Flutterwave!minor_to_major_string,
     Flutterwave!Then, Flutterwave!Ok, Flutterwave!Major
<1>7. \A v, c : Flutterwave!major_string_to_minor(v, c) = major_string_to_minor(v, c)
  BY <1>4, <1>3, <1>5 DEF major_string_to_minor, Then, Ok, Err,
     Flutterwave!major_string_to_minor, Flutterwave!Then, Flutterwave!Ok, Flutterwave!Err
<1> QED BY <1>1, <1>2, <1>6, <1>7

\* Hyperswitch's adapter uses the currency helpers of FiatKit as they are.
LEMMA HyperswitchKit ==
  /\ \A a, b : Hyperswitch!SameCode(a, b) = SameCode(a, b)
BY DEF SameCode, Upper, Codes, Lower, Hyperswitch!SameCode, Hyperswitch!Upper,
          Hyperswitch!Codes, Hyperswitch!Lower

\* iyzico's adapter uses the currency helpers of FiatKit as they are.
LEMMA IyzicoKit ==
  /\ \A c : Iyzico!Upper(c) = Upper(c)
  /\ \A a, b : Iyzico!SameCode(a, b) = SameCode(a, b)
  /\ \A a, c : Iyzico!minor_to_major_string(a, c) = minor_to_major_string(a, c)
  /\ \A v, c : Iyzico!major_string_to_minor(v, c) = major_string_to_minor(v, c)
<1>1. \A c : Iyzico!Upper(c) = Upper(c)
  BY DEF Upper, Codes, Lower, Iyzico!Upper, Iyzico!Codes, Iyzico!Lower
<1>2. \A a, b : Iyzico!SameCode(a, b) = SameCode(a, b)
  BY <1>1 DEF SameCode, Iyzico!SameCode
<1>3. \A c : Iyzico!exponent(c) = exponent(c)
  BY <1>1 DEF exponent, CURRENCY_DEFS, Codes, Ok, Err, Iyzico!exponent, Iyzico!CURRENCY_DEFS,
     Iyzico!Codes, Iyzico!Ok, Iyzico!Err
<1>4. Iyzico!MaxU64 = MaxU64
  BY SMT DEF MaxU64, Iyzico!MaxU64
<1>5. \A e : Iyzico!pow10(e) = pow10(e)
  BY DEF pow10, Iyzico!pow10
<1>6. \A a, c : Iyzico!minor_to_major_string(a, c) = minor_to_major_string(a, c)
  BY <1>3, <1>5 DEF minor_to_major_string, Then, Ok, Major, Iyzico!minor_to_major_string,
     Iyzico!Then, Iyzico!Ok, Iyzico!Major
<1>7. \A v, c : Iyzico!major_string_to_minor(v, c) = major_string_to_minor(v, c)
  BY <1>4, <1>3, <1>5 DEF major_string_to_minor, Then, Ok, Err, Iyzico!major_string_to_minor,
     Iyzico!Then, Iyzico!Ok, Iyzico!Err
<1> QED BY <1>1, <1>2, <1>6, <1>7

\* LNbits's adapter uses the currency helpers of FiatKit as they are.
LEMMA LnbitsKit ==
  /\ \A c : Lnbits!Upper(c) = Upper(c)
  /\ \A c : Lnbits!Lowered(c) = Lowered(c)
  /\ \A a, c : Lnbits!minor_to_major_string(a, c) = minor_to_major_string(a, c)
  /\ \A v, c : Lnbits!major_string_to_minor(v, c) = major_string_to_minor(v, c)
<1>1. \A c : Lnbits!Upper(c) = Upper(c)
  BY DEF Upper, Codes, Lower, Lnbits!Upper, Lnbits!Codes, Lnbits!Lower
<1>2. \A c : Lnbits!Lowered(c) = Lowered(c)
  BY DEF Lowered, Codes, Lower, Lnbits!Lowered, Lnbits!Codes, Lnbits!Lower
<1>3. \A c : Lnbits!exponent(c) = exponent(c)
  BY <1>1 DEF exponent, CURRENCY_DEFS, Codes, Ok, Err, Lnbits!exponent, Lnbits!CURRENCY_DEFS,
     Lnbits!Codes, Lnbits!Ok, Lnbits!Err
<1>4. Lnbits!MaxU64 = MaxU64
  BY SMT DEF MaxU64, Lnbits!MaxU64
<1>5. \A e : Lnbits!pow10(e) = pow10(e)
  BY DEF pow10, Lnbits!pow10
<1>6. \A a, c : Lnbits!minor_to_major_string(a, c) = minor_to_major_string(a, c)
  BY <1>3, <1>5 DEF minor_to_major_string, Then, Ok, Major, Lnbits!minor_to_major_string,
     Lnbits!Then, Lnbits!Ok, Lnbits!Major
<1>7. \A v, c : Lnbits!major_string_to_minor(v, c) = major_string_to_minor(v, c)
  BY <1>4, <1>3, <1>5 DEF major_string_to_minor, Then, Ok, Err, Lnbits!major_string_to_minor,
     Lnbits!Then, Lnbits!Ok, Lnbits!Err
<1> QED BY <1>1, <1>2, <1>6, <1>7

\* Mercado Pago's adapter uses the currency helpers of FiatKit as they are.
LEMMA MercadopagoKit ==
  /\ \A c : Mercadopago!Upper(c) = Upper(c)
  /\ \A a, b : Mercadopago!SameCode(a, b) = SameCode(a, b)
  /\ \A a, c : Mercadopago!minor_to_major_string(a, c) = minor_to_major_string(a, c)
  /\ \A v, c : Mercadopago!major_string_to_minor(v, c) = major_string_to_minor(v, c)
<1>1. \A c : Mercadopago!Upper(c) = Upper(c)
  BY DEF Upper, Codes, Lower, Mercadopago!Upper, Mercadopago!Codes, Mercadopago!Lower
<1>2. \A a, b : Mercadopago!SameCode(a, b) = SameCode(a, b)
  BY <1>1 DEF SameCode, Mercadopago!SameCode
<1>3. \A c : Mercadopago!exponent(c) = exponent(c)
  BY <1>1 DEF exponent, CURRENCY_DEFS, Codes, Ok, Err, Mercadopago!exponent,
     Mercadopago!CURRENCY_DEFS, Mercadopago!Codes, Mercadopago!Ok, Mercadopago!Err
<1>4. Mercadopago!MaxU64 = MaxU64
  BY SMT DEF MaxU64, Mercadopago!MaxU64
<1>5. \A e : Mercadopago!pow10(e) = pow10(e)
  BY DEF pow10, Mercadopago!pow10
<1>6. \A a, c : Mercadopago!minor_to_major_string(a, c) = minor_to_major_string(a, c)
  BY <1>3, <1>5 DEF minor_to_major_string, Then, Ok, Major, Mercadopago!minor_to_major_string,
     Mercadopago!Then, Mercadopago!Ok, Mercadopago!Major
<1>7. \A v, c : Mercadopago!major_string_to_minor(v, c) = major_string_to_minor(v, c)
  BY <1>4, <1>3, <1>5 DEF major_string_to_minor, Then, Ok, Err,
     Mercadopago!major_string_to_minor, Mercadopago!Then, Mercadopago!Ok, Mercadopago!Err
<1> QED BY <1>1, <1>2, <1>6, <1>7

\* Midtrans's adapter uses the currency helpers of FiatKit as they are.
LEMMA MidtransKit ==
  /\ \A a, b : Midtrans!SameCode(a, b) = SameCode(a, b)
  /\ \A a, c : Midtrans!minor_to_major_string(a, c) = minor_to_major_string(a, c)
  /\ \A v, c : Midtrans!major_string_to_minor(v, c) = major_string_to_minor(v, c)
<1>1. \A c : Midtrans!Upper(c) = Upper(c)
  BY DEF Upper, Codes, Lower, Midtrans!Upper, Midtrans!Codes, Midtrans!Lower
<1>2. \A a, b : Midtrans!SameCode(a, b) = SameCode(a, b)
  BY <1>1 DEF SameCode, Midtrans!SameCode
<1>3. \A c : Midtrans!exponent(c) = exponent(c)
  BY <1>1 DEF exponent, CURRENCY_DEFS, Codes, Ok, Err, Midtrans!exponent, Midtrans!CURRENCY_DEFS,
     Midtrans!Codes, Midtrans!Ok, Midtrans!Err
<1>4. Midtrans!MaxU64 = MaxU64
  BY SMT DEF MaxU64, Midtrans!MaxU64
<1>5. \A e : Midtrans!pow10(e) = pow10(e)
  BY DEF pow10, Midtrans!pow10
<1>6. \A a, c : Midtrans!minor_to_major_string(a, c) = minor_to_major_string(a, c)
  BY <1>3, <1>5 DEF minor_to_major_string, Then, Ok, Major, Midtrans!minor_to_major_string,
     Midtrans!Then, Midtrans!Ok, Midtrans!Major
<1>7. \A v, c : Midtrans!major_string_to_minor(v, c) = major_string_to_minor(v, c)
  BY <1>4, <1>3, <1>5 DEF major_string_to_minor, Then, Ok, Err, Midtrans!major_string_to_minor,
     Midtrans!Then, Midtrans!Ok, Midtrans!Err
<1> QED BY <1>2, <1>6, <1>7

\* Mollie's adapter uses the currency helpers of FiatKit as they are.
LEMMA MollieKit ==
  /\ \A c : Mollie!Upper(c) = Upper(c)
  /\ \A c : Mollie!exponent(c) = exponent(c)
  /\ \A a, c : Mollie!minor_to_major_string(a, c) = minor_to_major_string(a, c)
  /\ \A v, c : Mollie!major_string_to_minor(v, c) = major_string_to_minor(v, c)
<1>1. \A c : Mollie!Upper(c) = Upper(c)
  BY DEF Upper, Codes, Lower, Mollie!Upper, Mollie!Codes, Mollie!Lower
<1>2. \A c : Mollie!exponent(c) = exponent(c)
  BY <1>1 DEF exponent, CURRENCY_DEFS, Codes, Ok, Err, Mollie!exponent, Mollie!CURRENCY_DEFS,
     Mollie!Codes, Mollie!Ok, Mollie!Err
<1>3. Mollie!MaxU64 = MaxU64
  BY SMT DEF MaxU64, Mollie!MaxU64
<1>4. \A e : Mollie!pow10(e) = pow10(e)
  BY DEF pow10, Mollie!pow10
<1>5. \A a, c : Mollie!minor_to_major_string(a, c) = minor_to_major_string(a, c)
  BY <1>2, <1>4 DEF minor_to_major_string, Then, Ok, Major, Mollie!minor_to_major_string,
     Mollie!Then, Mollie!Ok, Mollie!Major
<1>6. \A v, c : Mollie!major_string_to_minor(v, c) = major_string_to_minor(v, c)
  BY <1>3, <1>2, <1>4 DEF major_string_to_minor, Then, Ok, Err, Mollie!major_string_to_minor,
     Mollie!Then, Mollie!Ok, Mollie!Err
<1> QED BY <1>1, <1>2, <1>5, <1>6

\* OpenNode's adapter uses the currency helpers of FiatKit as they are.
LEMMA OpennodeKit ==
  /\ \A c : Opennode!Upper(c) = Upper(c)
  /\ \A a, c : Opennode!minor_to_major_string(a, c) = minor_to_major_string(a, c)
  /\ \A v, c : Opennode!major_string_to_minor(v, c) = major_string_to_minor(v, c)
<1>1. \A c : Opennode!Upper(c) = Upper(c)
  BY DEF Upper, Codes, Lower, Opennode!Upper, Opennode!Codes, Opennode!Lower
<1>2. \A c : Opennode!exponent(c) = exponent(c)
  BY <1>1 DEF exponent, CURRENCY_DEFS, Codes, Ok, Err, Opennode!exponent, Opennode!CURRENCY_DEFS,
     Opennode!Codes, Opennode!Ok, Opennode!Err
<1>3. Opennode!MaxU64 = MaxU64
  BY SMT DEF MaxU64, Opennode!MaxU64
<1>4. \A e : Opennode!pow10(e) = pow10(e)
  BY DEF pow10, Opennode!pow10
<1>5. \A a, c : Opennode!minor_to_major_string(a, c) = minor_to_major_string(a, c)
  BY <1>2, <1>4 DEF minor_to_major_string, Then, Ok, Major, Opennode!minor_to_major_string,
     Opennode!Then, Opennode!Ok, Opennode!Major
<1>6. \A v, c : Opennode!major_string_to_minor(v, c) = major_string_to_minor(v, c)
  BY <1>3, <1>2, <1>4 DEF major_string_to_minor, Then, Ok, Err, Opennode!major_string_to_minor,
     Opennode!Then, Opennode!Ok, Opennode!Err
<1> QED BY <1>1, <1>5, <1>6

\* PayFast's adapter uses the currency helpers of FiatKit as they are.
LEMMA PayfastKit ==
  /\ \A a, b : Payfast!SameCode(a, b) = SameCode(a, b)
  /\ \A a, c : Payfast!minor_to_major_string(a, c) = minor_to_major_string(a, c)
  /\ \A v, c : Payfast!major_string_to_minor(v, c) = major_string_to_minor(v, c)
<1>1. \A c : Payfast!Upper(c) = Upper(c)
  BY DEF Upper, Codes, Lower, Payfast!Upper, Payfast!Codes, Payfast!Lower
<1>2. \A a, b : Payfast!SameCode(a, b) = SameCode(a, b)
  BY <1>1 DEF SameCode, Payfast!SameCode
<1>3. \A c : Payfast!exponent(c) = exponent(c)
  BY <1>1 DEF exponent, CURRENCY_DEFS, Codes, Ok, Err, Payfast!exponent, Payfast!CURRENCY_DEFS,
     Payfast!Codes, Payfast!Ok, Payfast!Err
<1>4. Payfast!MaxU64 = MaxU64
  BY SMT DEF MaxU64, Payfast!MaxU64
<1>5. \A e : Payfast!pow10(e) = pow10(e)
  BY DEF pow10, Payfast!pow10
<1>6. \A a, c : Payfast!minor_to_major_string(a, c) = minor_to_major_string(a, c)
  BY <1>3, <1>5 DEF minor_to_major_string, Then, Ok, Major, Payfast!minor_to_major_string,
     Payfast!Then, Payfast!Ok, Payfast!Major
<1>7. \A v, c : Payfast!major_string_to_minor(v, c) = major_string_to_minor(v, c)
  BY <1>4, <1>3, <1>5 DEF major_string_to_minor, Then, Ok, Err, Payfast!major_string_to_minor,
     Payfast!Then, Payfast!Ok, Payfast!Err
<1> QED BY <1>2, <1>6, <1>7

\* PayPal's adapter uses the currency helpers of FiatKit as they are.
LEMMA PaypalKit ==
  /\ \A c : Paypal!Upper(c) = Upper(c)
  /\ \A c : Paypal!exponent(c) = exponent(c)
  /\ \A e : Paypal!pow10(e) = pow10(e)
<1>1. \A c : Paypal!Upper(c) = Upper(c)
  BY DEF Upper, Codes, Lower, Paypal!Upper, Paypal!Codes, Paypal!Lower
<1>2. \A c : Paypal!exponent(c) = exponent(c)
  BY <1>1 DEF exponent, CURRENCY_DEFS, Codes, Ok, Err, Paypal!exponent, Paypal!CURRENCY_DEFS,
     Paypal!Codes, Paypal!Ok, Paypal!Err
<1>3. \A e : Paypal!pow10(e) = pow10(e)
  BY DEF pow10, Paypal!pow10
<1> QED BY <1>1, <1>2, <1>3

\* Paystack's adapter uses the currency helpers of FiatKit as they are.
LEMMA PaystackKit ==
  /\ \A c : Paystack!Upper(c) = Upper(c)
  /\ \A a, b : Paystack!SameCode(a, b) = SameCode(a, b)
<1>1. \A c : Paystack!Upper(c) = Upper(c)
  BY DEF Upper, Codes, Lower, Paystack!Upper, Paystack!Codes, Paystack!Lower
<1>2. \A a, b : Paystack!SameCode(a, b) = SameCode(a, b)
  BY <1>1 DEF SameCode, Paystack!SameCode
<1> QED BY <1>1, <1>2

\* PayU's adapter uses the currency helpers of FiatKit as they are.
LEMMA PayuKit ==
  /\ \A a, b : Payu!SameCode(a, b) = SameCode(a, b)
  /\ \A a, c : Payu!minor_to_major_string(a, c) = minor_to_major_string(a, c)
  /\ \A v, c : Payu!major_string_to_minor(v, c) = major_string_to_minor(v, c)
<1>1. \A c : Payu!Upper(c) = Upper(c)
  BY DEF Upper, Codes, Lower, Payu!Upper, Payu!Codes, Payu!Lower
<1>2. \A a, b : Payu!SameCode(a, b) = SameCode(a, b)
  BY <1>1 DEF SameCode, Payu!SameCode
<1>3. \A c : Payu!exponent(c) = exponent(c)
  BY <1>1 DEF exponent, CURRENCY_DEFS, Codes, Ok, Err, Payu!exponent, Payu!CURRENCY_DEFS,
     Payu!Codes, Payu!Ok, Payu!Err
<1>4. Payu!MaxU64 = MaxU64
  BY SMT DEF MaxU64, Payu!MaxU64
<1>5. \A e : Payu!pow10(e) = pow10(e)
  BY DEF pow10, Payu!pow10
<1>6. \A a, c : Payu!minor_to_major_string(a, c) = minor_to_major_string(a, c)
  BY <1>3, <1>5 DEF minor_to_major_string, Then, Ok, Major, Payu!minor_to_major_string,
     Payu!Then, Payu!Ok, Payu!Major
<1>7. \A v, c : Payu!major_string_to_minor(v, c) = major_string_to_minor(v, c)
  BY <1>4, <1>3, <1>5 DEF major_string_to_minor, Then, Ok, Err, Payu!major_string_to_minor,
     Payu!Then, Payu!Ok, Payu!Err
<1> QED BY <1>2, <1>6, <1>7

\* Razorpay's adapter uses the currency helpers of FiatKit as they are.
LEMMA RazorpayKit ==
  /\ \A c : Razorpay!Upper(c) = Upper(c)
  /\ \A a, b : Razorpay!SameCode(a, b) = SameCode(a, b)
<1>1. \A c : Razorpay!Upper(c) = Upper(c)
  BY DEF Upper, Codes, Lower, Razorpay!Upper, Razorpay!Codes, Razorpay!Lower
<1>2. \A a, b : Razorpay!SameCode(a, b) = SameCode(a, b)
  BY <1>1 DEF SameCode, Razorpay!SameCode
<1> QED BY <1>1, <1>2

\* Square's adapter uses the currency helpers of FiatKit as they are.
LEMMA SquareKit ==
  /\ \A c : Square!Upper(c) = Upper(c)
BY DEF Upper, Codes, Lower, Square!Upper, Square!Codes, Square!Lower

\* Stripe's adapter uses the currency helpers of FiatKit as they are.
LEMMA StripeKit ==
  /\ \A c : Stripe!Upper(c) = Upper(c)
  /\ \A c : Stripe!Lowered(c) = Lowered(c)
  /\ \A c : Stripe!exponent(c) = exponent(c)
  /\ \A e : Stripe!pow10(e) = pow10(e)
<1>1. \A c : Stripe!Upper(c) = Upper(c)
  BY DEF Upper, Codes, Lower, Stripe!Upper, Stripe!Codes, Stripe!Lower
<1>2. \A c : Stripe!Lowered(c) = Lowered(c)
  BY DEF Lowered, Codes, Lower, Stripe!Lowered, Stripe!Codes, Stripe!Lower
<1>3. \A c : Stripe!exponent(c) = exponent(c)
  BY <1>1 DEF exponent, CURRENCY_DEFS, Codes, Ok, Err, Stripe!exponent, Stripe!CURRENCY_DEFS,
     Stripe!Codes, Stripe!Ok, Stripe!Err
<1>4. \A e : Stripe!pow10(e) = pow10(e)
  BY DEF pow10, Stripe!pow10
<1> QED BY <1>1, <1>2, <1>3, <1>4

\* Xendit's adapter uses the currency helpers of FiatKit as they are.
LEMMA XenditKit ==
  /\ \A c : Xendit!Upper(c) = Upper(c)
  /\ \A a, b : Xendit!SameCode(a, b) = SameCode(a, b)
  /\ \A a, c : Xendit!minor_to_major_string(a, c) = minor_to_major_string(a, c)
  /\ \A v, c : Xendit!major_string_to_minor(v, c) = major_string_to_minor(v, c)
<1>1. \A c : Xendit!Upper(c) = Upper(c)
  BY DEF Upper, Codes, Lower, Xendit!Upper, Xendit!Codes, Xendit!Lower
<1>2. \A a, b : Xendit!SameCode(a, b) = SameCode(a, b)
  BY <1>1 DEF SameCode, Xendit!SameCode
<1>3. \A c : Xendit!exponent(c) = exponent(c)
  BY <1>1 DEF exponent, CURRENCY_DEFS, Codes, Ok, Err, Xendit!exponent, Xendit!CURRENCY_DEFS,
     Xendit!Codes, Xendit!Ok, Xendit!Err
<1>4. Xendit!MaxU64 = MaxU64
  BY SMT DEF MaxU64, Xendit!MaxU64
<1>5. \A e : Xendit!pow10(e) = pow10(e)
  BY DEF pow10, Xendit!pow10
<1>6. \A a, c : Xendit!minor_to_major_string(a, c) = minor_to_major_string(a, c)
  BY <1>3, <1>5 DEF minor_to_major_string, Then, Ok, Major, Xendit!minor_to_major_string,
     Xendit!Then, Xendit!Ok, Xendit!Major
<1>7. \A v, c : Xendit!major_string_to_minor(v, c) = major_string_to_minor(v, c)
  BY <1>4, <1>3, <1>5 DEF major_string_to_minor, Then, Ok, Err, Xendit!major_string_to_minor,
     Xendit!Then, Xendit!Ok, Xendit!Err
<1> QED BY <1>1, <1>2, <1>6, <1>7

\* Yoco's adapter uses the currency helpers of FiatKit as they are.
LEMMA YocoKit ==
  /\ \A a, b : Yoco!SameCode(a, b) = SameCode(a, b)
BY DEF SameCode, Upper, Codes, Lower, Yoco!SameCode, Yoco!Upper, Yoco!Codes, Yoco!Lower

\* LNbits's adapter sends its decimals as FiatKit's JSON numbers.
LEMMA LnbitsJson == \A v : Lnbits!JsonNumber(v) = JsonNumber(v)
BY Zenon DEF JsonNumber, pow10, Major, Lnbits!JsonNumber, Lnbits!pow10, Lnbits!Major

\* OpenNode's adapter sends its decimals as FiatKit's JSON numbers.
LEMMA OpennodeJson == \A v : Opennode!JsonNumber(v) = JsonNumber(v)
BY Zenon DEF JsonNumber, pow10, Major, Opennode!JsonNumber, Opennode!pow10, Opennode!Major

-----------------------------------------------------------------------------
(* charge and quote: the amount *)

\* Adyen's charge asks for the request's amount in the request's currency, and so does
\* its quote.
LEMMA AdyenAsks ==
  ASSUME NEW rail, NEW req, req.amount_minor \in 0..MaxU64,
         NEW c, c = Adyen!charge_request(rail, req), c.ok,
         Upper(c.val.currency) \in Adyen!Accepts
  PROVE  /\ SameCode(c.val.currency, req.currency)
         /\ Adyen!Worth(c.val.value, c.val.currency) = req.amount_minor
         /\ Adyen!quote(rail, req).ok
         /\ Adyen!quote(rail, req).val.total_minor = req.amount_minor
<1>1. PICK m : m = Adyen!adyen_amount(req.amount_minor, req.currency)
  OBVIOUS
<1>2. /\ m.ok /\ c.val.value = m.val
      /\ c.val.currency = Adyen!Upper(req.currency)
      /\ Adyen!validate(req) /\ Adyen!check_currency(rail, req.currency)
  BY <1>1 DEF Adyen!charge_request, Adyen!Then, Adyen!Ok, Adyen!Err
<1>3. SameCode(c.val.currency, req.currency)
  BY <1>2, AdyenKit, UpperIdempotent DEF SameCode
<1>4. Adyen!Worth(c.val.value, c.val.currency) = req.amount_minor
  BY <1>1, <1>2 DEF Adyen!Worth, Adyen!adyen_amount, Adyen!Ok, Adyen!Err
<1>5. /\ Adyen!quote(rail, req).ok
      /\ Adyen!quote(rail, req).val.total_minor = req.amount_minor
  BY <1>1, <1>2 DEF Adyen!quote, Adyen!Quoted, Adyen!Then, Adyen!Ok
<1> QED BY <1>3, <1>4, <1>5

\* BTCPay's charge asks for the request's amount in the request's currency, and so does
\* its quote.
LEMMA BtcpayAsks ==
  ASSUME NEW rail, NEW req, req.amount_minor \in 0..MaxU64,
         NEW c, c = Btcpay!charge_request(rail, req), c.ok,
         Upper(c.val.currency) \in Btcpay!Accepts
  PROVE  /\ SameCode(c.val.currency, req.currency)
         /\ Btcpay!Worth(c.val.value, c.val.currency) = req.amount_minor
         /\ Btcpay!quote(rail, req).ok
         /\ Btcpay!quote(rail, req).val.total_minor = req.amount_minor
<1>1. PICK m : m = Btcpay!minor_to_major_string(req.amount_minor, req.currency)
  OBVIOUS
<1>2. /\ m.ok /\ c.val.value = m.val
      /\ c.val.currency = Btcpay!Upper(req.currency)
      /\ Btcpay!validate(req) /\ Btcpay!check_currency(rail, req.currency)
  BY <1>1 DEF Btcpay!charge_request, Btcpay!Then, Btcpay!Ok, Btcpay!Err
<1>3. SameCode(c.val.currency, req.currency)
  BY <1>2, BtcpayKit, UpperIdempotent DEF SameCode
<1>4. Btcpay!Worth(c.val.value, c.val.currency) = req.amount_minor
  <2>1. /\ m = minor_to_major_string(req.amount_minor, req.currency)
        /\ SameCode(req.currency, c.val.currency)
    BY <1>1, <1>2, <1>3, BtcpayKit DEF SameCode
  <2>2. major_string_to_minor(m.val, c.val.currency) = Ok(req.amount_minor)
    BY <1>2, <2>1, RoundTrip
  <2> QED BY <1>2, <2>2, BtcpayKit DEF Btcpay!Worth, Ok
<1>5. /\ Btcpay!quote(rail, req).ok
      /\ Btcpay!quote(rail, req).val.total_minor = req.amount_minor
  BY <1>1, <1>2 DEF Btcpay!quote, Btcpay!Quoted, Btcpay!Ok
<1> QED BY <1>3, <1>4, <1>5

\* Checkout.com's charge asks for the request's amount in the request's currency, and so does
\* its quote.
LEMMA CheckoutcomAsks ==
  ASSUME NEW rail, NEW req, req.amount_minor \in 0..MaxU64,
         NEW c, c = Checkoutcom!charge_request(rail, req), c.ok,
         Upper(c.val.currency) \in Checkoutcom!Accepts
  PROVE  /\ SameCode(c.val.currency, req.currency)
         /\ Checkoutcom!Worth(c.val.value, c.val.currency) = req.amount_minor
         /\ Checkoutcom!quote(rail, req).ok
         /\ Checkoutcom!quote(rail, req).val.total_minor = req.amount_minor
<1>1. PICK m : m = Checkoutcom!checkout_com_amount(req.amount_minor, req.currency)
  OBVIOUS
<1>2. /\ m.ok /\ c.val.value = m.val
      /\ c.val.currency = Checkoutcom!Upper(req.currency)
      /\ Checkoutcom!validate(req) /\ Checkoutcom!check_currency(rail, req.currency)
  BY <1>1 DEF Checkoutcom!charge_request, Checkoutcom!Then, Checkoutcom!Ok, Checkoutcom!Err
<1>3. SameCode(c.val.currency, req.currency)
  BY <1>2, CheckoutcomKit, UpperIdempotent DEF SameCode
<1>4. Checkoutcom!Worth(c.val.value, c.val.currency) = req.amount_minor
  <2>1. req.amount_minor \in Nat /\ Upper(c.val.currency) = Upper(req.currency)
    BY <1>3, MaxNat DEF SameCode
  <2>2. CASE Upper(req.currency) \in Checkoutcom!CHECKOUTCOM_FORCED_TWO_DECIMAL
    <3>1. m.val = req.amount_minor * 100
      BY <1>1, <1>2, <2>2, CheckoutcomKit DEF Checkoutcom!checkout_com_amount, Checkoutcom!Ok,
              Checkoutcom!Err
    <3> QED BY <1>2, <2>1, <2>2, <3>1, CheckoutcomKit DEF Checkoutcom!Worth, Checkoutcom!Accepts,
        Checkoutcom!CHECKOUTCOM_FORCED_TWO_DECIMAL
  <2>3. CASE Upper(req.currency) \notin Checkoutcom!CHECKOUTCOM_FORCED_TWO_DECIMAL
    <3>1. m.val = req.amount_minor
      BY <1>1, <1>2, <2>3, CheckoutcomKit DEF Checkoutcom!checkout_com_amount, Checkoutcom!Ok,
              Checkoutcom!Err
    <3> QED BY <1>2, <2>1, <2>3, <3>1, CheckoutcomKit DEF Checkoutcom!Worth, Checkoutcom!Accepts,
        Checkoutcom!CHECKOUTCOM_FORCED_TWO_DECIMAL
  <2> QED BY <2>2, <2>3
<1>5. /\ Checkoutcom!quote(rail, req).ok
      /\ Checkoutcom!quote(rail, req).val.total_minor = req.amount_minor
  BY <1>1, <1>2 DEF Checkoutcom!quote, Checkoutcom!Quoted, Checkoutcom!Then, Checkoutcom!Ok
<1> QED BY <1>3, <1>4, <1>5

\* Coinbase Commerce's charge asks for the request's amount in the request's currency, and so does
\* its quote.
LEMMA CoinbasecommerceAsks ==
  ASSUME NEW rail, NEW req, req.amount_minor \in 0..MaxU64,
         NEW c, c = Coinbasecommerce!charge_request(rail, req), c.ok,
         Upper(c.val.currency) \in Coinbasecommerce!Accepts
  PROVE  /\ SameCode(c.val.currency, req.currency)
         /\ Coinbasecommerce!Worth(c.val.value, c.val.currency) = req.amount_minor
         /\ Coinbasecommerce!quote(rail, req).ok
         /\ Coinbasecommerce!quote(rail, req).val.total_minor = req.amount_minor
<1>1. PICK m : m = Coinbasecommerce!minor_to_major_string(req.amount_minor, req.currency)
  OBVIOUS
<1>2. /\ m.ok /\ c.val.value = m.val
      /\ c.val.currency = Coinbasecommerce!Upper(req.currency)
      /\ Coinbasecommerce!validate(req) /\ Coinbasecommerce!check_currency(rail, req.currency)
  BY <1>1 DEF Coinbasecommerce!charge_request, Coinbasecommerce!Then, Coinbasecommerce!Ok,
          Coinbasecommerce!Err
<1>3. SameCode(c.val.currency, req.currency)
  BY <1>2, CoinbasecommerceKit, UpperIdempotent DEF SameCode
<1>4. Coinbasecommerce!Worth(c.val.value, c.val.currency) = req.amount_minor
  <2>1. /\ m = minor_to_major_string(req.amount_minor, req.currency)
        /\ SameCode(req.currency, c.val.currency)
    BY <1>1, <1>2, <1>3, CoinbasecommerceKit DEF SameCode
  <2>2. major_string_to_minor(m.val, c.val.currency) = Ok(req.amount_minor)
    BY <1>2, <2>1, RoundTrip
  <2> QED BY <1>2, <2>2, CoinbasecommerceKit DEF Coinbasecommerce!Worth, Ok
<1>5. /\ Coinbasecommerce!quote(rail, req).ok
      /\ Coinbasecommerce!quote(rail, req).val.total_minor = req.amount_minor
  BY <1>1, <1>2 DEF Coinbasecommerce!quote, Coinbasecommerce!Quoted, Coinbasecommerce!Ok
<1> QED BY <1>3, <1>4, <1>5

\* Flutterwave's charge asks for the request's amount in the request's currency, and so does
\* its quote.
LEMMA FlutterwaveAsks ==
  ASSUME NEW rail, NEW req, req.amount_minor \in 0..MaxU64,
         NEW c, c = Flutterwave!charge_request(rail, req), c.ok,
         Upper(c.val.currency) \in Flutterwave!Accepts
  PROVE  /\ SameCode(c.val.currency, req.currency)
         /\ Flutterwave!Worth(c.val.value, c.val.currency) = req.amount_minor
         /\ Flutterwave!quote(rail, req).ok
         /\ Flutterwave!quote(rail, req).val.total_minor = req.amount_minor
<1>1. PICK m : m = Flutterwave!minor_to_major_string(req.amount_minor, req.currency)
  OBVIOUS
<1>2. /\ m.ok /\ c.val.value = m.val
      /\ c.val.currency = Flutterwave!Upper(req.currency)
      /\ Flutterwave!validate(req) /\ Flutterwave!check_currency(rail, req.currency)
  BY <1>1 DEF Flutterwave!charge_request, Flutterwave!Then, Flutterwave!Ok, Flutterwave!Err
<1>3. SameCode(c.val.currency, req.currency)
  BY <1>2, FlutterwaveKit, UpperIdempotent DEF SameCode
<1>4. Flutterwave!Worth(c.val.value, c.val.currency) = req.amount_minor
  <2>1. /\ m = minor_to_major_string(req.amount_minor, req.currency)
        /\ SameCode(req.currency, c.val.currency)
    BY <1>1, <1>2, <1>3, FlutterwaveKit DEF SameCode
  <2>2. major_string_to_minor(m.val, c.val.currency) = Ok(req.amount_minor)
    BY <1>2, <2>1, RoundTrip
  <2> QED BY <1>2, <2>2, FlutterwaveKit DEF Flutterwave!Worth, Ok
<1>5. /\ Flutterwave!quote(rail, req).ok
      /\ Flutterwave!quote(rail, req).val.total_minor = req.amount_minor
  BY <1>1, <1>2 DEF Flutterwave!quote, Flutterwave!Quoted, Flutterwave!Then, Flutterwave!Ok
<1> QED BY <1>3, <1>4, <1>5

\* Hyperswitch's charge asks for the request's amount in the request's currency, and so does
\* its quote.
LEMMA HyperswitchAsks ==
  ASSUME NEW rail, NEW req, req.amount_minor \in 0..MaxU64,
         NEW c, c = Hyperswitch!charge_request(rail, req), c.ok,
         Upper(c.val.currency) \in Hyperswitch!Accepts
  PROVE  /\ SameCode(c.val.currency, req.currency)
         /\ Hyperswitch!Worth(c.val.value, c.val.currency) = req.amount_minor
         /\ Hyperswitch!quote(rail, req).ok
         /\ Hyperswitch!quote(rail, req).val.total_minor = req.amount_minor
<1>2. /\ c.val.value = req.amount_minor /\ c.val.currency = req.currency
      /\ Hyperswitch!validate(req) /\ Hyperswitch!check_currency(rail, req.currency)
  BY DEF Hyperswitch!charge_request, Hyperswitch!Ok, Hyperswitch!Err
<1>3. SameCode(c.val.currency, req.currency)
  BY <1>2 DEF SameCode
<1>4. Hyperswitch!Worth(c.val.value, c.val.currency) = req.amount_minor
  BY <1>2 DEF Hyperswitch!Worth
<1>5. /\ Hyperswitch!quote(rail, req).ok
      /\ Hyperswitch!quote(rail, req).val.total_minor = req.amount_minor
  BY <1>2 DEF Hyperswitch!quote, Hyperswitch!Quoted, Hyperswitch!Ok
<1> QED BY <1>3, <1>4, <1>5

\* iyzico's charge asks for the request's amount in the request's currency, and so does
\* its quote.
LEMMA IyzicoAsks ==
  ASSUME NEW rail, NEW req, req.amount_minor \in 0..MaxU64,
         NEW c, c = Iyzico!charge_request(rail, req), c.ok,
         Upper(c.val.currency) \in Iyzico!Accepts
  PROVE  /\ SameCode(c.val.currency, req.currency)
         /\ Iyzico!Worth(c.val.value, c.val.currency) = req.amount_minor
         /\ Iyzico!quote(rail, req).ok
         /\ Iyzico!quote(rail, req).val.total_minor = req.amount_minor
<1>1. PICK m : m = Iyzico!minor_to_major_string(req.amount_minor, req.currency)
  OBVIOUS
<1>2. /\ m.ok /\ c.val.value = m.val
      /\ c.val.currency = Iyzico!Upper(req.currency)
      /\ Iyzico!validate(req) /\ Iyzico!check_currency(rail, req.currency)
  BY <1>1 DEF Iyzico!charge_request, Iyzico!Then, Iyzico!Ok, Iyzico!Err
<1>3. SameCode(c.val.currency, req.currency)
  BY <1>2, IyzicoKit, UpperIdempotent DEF SameCode
<1>4. Iyzico!Worth(c.val.value, c.val.currency) = req.amount_minor
  <2>1. /\ m = minor_to_major_string(req.amount_minor, req.currency)
        /\ SameCode(req.currency, c.val.currency)
    BY <1>1, <1>2, <1>3, IyzicoKit DEF SameCode
  <2>2. major_string_to_minor(m.val, c.val.currency) = Ok(req.amount_minor)
    BY <1>2, <2>1, RoundTrip
  <2> QED BY <1>2, <2>2, IyzicoKit DEF Iyzico!Worth, Ok
<1>5. /\ Iyzico!quote(rail, req).ok
      /\ Iyzico!quote(rail, req).val.total_minor = req.amount_minor
  BY <1>1, <1>2 DEF Iyzico!quote, Iyzico!Quoted, Iyzico!Then, Iyzico!Ok
<1> QED BY <1>3, <1>4, <1>5

\* LNbits's charge asks for the request's amount in the request's currency, and so does
\* its quote.
LEMMA LnbitsAsks ==
  ASSUME NEW rail, NEW req, req.amount_minor \in 0..MaxU64,
         NEW c, c = Lnbits!charge_request(rail, req), c.ok,
         Upper(c.val.currency) \in Lnbits!Accepts
  PROVE  /\ SameCode(c.val.currency, req.currency)
         /\ Lnbits!Worth(c.val.value, c.val.currency) = req.amount_minor
         /\ Lnbits!quote(rail, req).ok
         /\ Lnbits!quote(rail, req).val.total_minor = req.amount_minor
<1>1. PICK m : m = Lnbits!minor_to_major_string(req.amount_minor, req.currency)
  OBVIOUS
<1>2. /\ m.ok /\ c.val.value = Lnbits!JsonNumber(m.val)
      /\ c.val.currency = Lnbits!Lowered(Lnbits!Upper(req.currency))
      /\ Lnbits!validate(req) /\ Lnbits!check_currency(rail, req.currency)
  BY <1>1 DEF Lnbits!charge_request, Lnbits!Then, Lnbits!Ok, Lnbits!Err
<1>3. SameCode(c.val.currency, req.currency)
  BY <1>2, LnbitsKit, UpperOfLowered DEF SameCode
<1>4. Lnbits!Worth(c.val.value, c.val.currency) = req.amount_minor
  <2>1. /\ m = minor_to_major_string(req.amount_minor, req.currency)
        /\ SameCode(req.currency, c.val.currency)
    BY <1>1, <1>2, <1>3, LnbitsKit DEF SameCode
  <2>2. major_string_to_minor(JsonNumber(m.val), c.val.currency) = Ok(req.amount_minor)
    BY <1>2, <2>1, JsonRoundTrip
  <2> QED BY <1>2, <2>2, LnbitsKit, LnbitsJson DEF Lnbits!Worth, Ok
<1>5. /\ Lnbits!quote(rail, req).ok
      /\ Lnbits!quote(rail, req).val.total_minor = req.amount_minor
  BY <1>1, <1>2 DEF Lnbits!quote, Lnbits!Quoted, Lnbits!Ok
<1> QED BY <1>3, <1>4, <1>5

\* Mercado Pago's charge asks for the request's amount in the request's currency, and so does
\* its quote.
LEMMA MercadopagoAsks ==
  ASSUME NEW rail, NEW req, req.amount_minor \in 0..MaxU64,
         NEW c, c = Mercadopago!charge_request(rail, req), c.ok,
         Upper(c.val.currency) \in Mercadopago!Accepts
  PROVE  /\ SameCode(c.val.currency, req.currency)
         /\ Mercadopago!Worth(c.val.value, c.val.currency) = req.amount_minor
         /\ Mercadopago!quote(rail, req).ok
         /\ Mercadopago!quote(rail, req).val.total_minor = req.amount_minor
<1>1. PICK m : m = 
            Mercadopago!minor_to_major_string(req.amount_minor, Mercadopago!Upper(req.currency))
  OBVIOUS
<1>2. /\ m.ok /\ c.val.value = m.val
      /\ c.val.currency = Mercadopago!Upper(req.currency)
      /\ Mercadopago!validate(req) /\ Mercadopago!check_currency(rail, req.currency)
  BY <1>1 DEF Mercadopago!charge_request, Mercadopago!Then, Mercadopago!Ok, Mercadopago!Err,
          Mercadopago!amount_minor_to_json_number
<1>3. SameCode(c.val.currency, req.currency)
  BY <1>2, MercadopagoKit, UpperIdempotent DEF SameCode
<1>4. Mercadopago!Worth(c.val.value, c.val.currency) = req.amount_minor
  <2>1. /\ m = minor_to_major_string(req.amount_minor, Mercadopago!Upper(req.currency))
        /\ SameCode(Mercadopago!Upper(req.currency), c.val.currency)
    BY <1>1, <1>2, <1>3, MercadopagoKit, UpperIdempotent DEF SameCode
  <2>2. major_string_to_minor(m.val, c.val.currency) = Ok(req.amount_minor)
    BY <1>2, <2>1, RoundTrip
  <2> QED BY <1>2, <2>2, MercadopagoKit DEF Mercadopago!Worth, Ok
<1>5. Mercadopago!minor_to_major_string(req.amount_minor, req.currency).ok
  BY <1>1, <1>2, MercadopagoKit, UpperIdempotent, SameMajor DEF SameCode
<1>6. /\ Mercadopago!quote(rail, req).ok
      /\ Mercadopago!quote(rail, req).val.total_minor = req.amount_minor
  BY <1>2, <1>5 DEF Mercadopago!quote, Mercadopago!Quoted, Mercadopago!Then, Mercadopago!Ok,
          Mercadopago!amount_minor_to_json_number
<1> QED BY <1>3, <1>4, <1>6

\* Midtrans's charge asks for the request's amount in the request's currency, and so does
\* its quote.
LEMMA MidtransAsks ==
  ASSUME NEW rail, NEW req, req.amount_minor \in 0..MaxU64,
         NEW c, c = Midtrans!charge_request(rail, req), c.ok,
         Upper(c.val.currency) \in Midtrans!Accepts
  PROVE  /\ SameCode(c.val.currency, req.currency)
         /\ Midtrans!Worth(c.val.value, c.val.currency) = req.amount_minor
         /\ Midtrans!quote(rail, req).ok
         /\ Midtrans!quote(rail, req).val.total_minor = req.amount_minor
<1>1. PICK m : m = Midtrans!minor_to_major_string(req.amount_minor, "IDR")
  OBVIOUS
<1>2. /\ m.ok /\ c.val.value = m.val
      /\ c.val.currency = "IDR"
      /\ Midtrans!validate(req) /\ Midtrans!SameCode(req.currency, "IDR")
  BY <1>1 DEF Midtrans!charge_request, Midtrans!Then, Midtrans!Ok, Midtrans!Err
<1>3. SameCode(c.val.currency, req.currency)
  BY <1>2, MidtransKit DEF SameCode
<1>4. Midtrans!Worth(c.val.value, c.val.currency) = req.amount_minor
  <2>1. /\ m = minor_to_major_string(req.amount_minor, "IDR")
        /\ SameCode("IDR", c.val.currency)
    BY <1>1, <1>2, <1>3, MidtransKit DEF SameCode
  <2>2. major_string_to_minor(m.val, c.val.currency) = Ok(req.amount_minor)
    BY <1>2, <2>1, RoundTrip
  <2> QED BY <1>2, <2>2, MidtransKit DEF Midtrans!Worth, Ok
<1>5. /\ Midtrans!quote(rail, req).ok
      /\ Midtrans!quote(rail, req).val.total_minor = req.amount_minor
  BY <1>1, <1>2 DEF Midtrans!quote, Midtrans!Quoted, Midtrans!Then, Midtrans!Ok
<1> QED BY <1>3, <1>4, <1>5

\* Mollie's charge asks for the request's amount in the request's currency, and so does
\* its quote.
LEMMA MollieAsks ==
  ASSUME NEW rail, NEW req, req.amount_minor \in 0..MaxU64,
         NEW c, c = Mollie!charge_request(rail, req), c.ok,
         Upper(c.val.currency) \in Mollie!Accepts
  PROVE  /\ SameCode(c.val.currency, req.currency)
         /\ Mollie!Worth(c.val.value, c.val.currency) = req.amount_minor
         /\ Mollie!quote(rail, req).ok
         /\ Mollie!quote(rail, req).val.total_minor = req.amount_minor
<1>1. PICK m : m = Mollie!mollie_amount_value(req.amount_minor, req.currency)
  OBVIOUS
<1>2. /\ m.ok /\ c.val.value = m.val
      /\ c.val.currency = Mollie!Upper(req.currency)
      /\ Mollie!validate(req) /\ Mollie!check_currency(rail, req.currency)
  BY <1>1 DEF Mollie!charge_request, Mollie!Then, Mollie!Ok, Mollie!Err
<1>3. SameCode(c.val.currency, req.currency)
  BY <1>2, MollieKit, UpperIdempotent DEF SameCode
<1>4. Mollie!Worth(c.val.value, c.val.currency) = req.amount_minor
  <2>1. m = minor_to_major_string(req.amount_minor, req.currency)
    BY <1>1, <1>2, MollieKit DEF Mollie!mollie_amount_value, Mollie!Then, Mollie!Err
  <2>2. major_string_to_minor(m.val, c.val.currency) = Ok(req.amount_minor)
    BY <1>2, <1>3, <2>1, RoundTrip DEF SameCode
  <2> QED BY <1>2, <2>2, MollieKit DEF Mollie!Worth, Ok
<1>5. /\ Mollie!quote(rail, req).ok
      /\ Mollie!quote(rail, req).val.total_minor = req.amount_minor
  BY <1>1, <1>2 DEF Mollie!quote, Mollie!Quoted, Mollie!Then, Mollie!Ok
<1> QED BY <1>3, <1>4, <1>5

\* OpenNode's charge asks for the request's amount in the request's currency, and so does
\* its quote.
LEMMA OpennodeAsks ==
  ASSUME NEW rail, NEW req, req.amount_minor \in 0..MaxU64,
         NEW c, c = Opennode!charge_request(rail, req), c.ok,
         Upper(c.val.currency) \in Opennode!Accepts
  PROVE  /\ SameCode(c.val.currency, req.currency)
         /\ Opennode!Worth(c.val.value, c.val.currency) = req.amount_minor
         /\ Opennode!quote(rail, req).ok
         /\ Opennode!quote(rail, req).val.total_minor = req.amount_minor
<1>1. PICK m : m = Opennode!minor_to_major_string(req.amount_minor, req.currency)
  OBVIOUS
<1>2. /\ m.ok /\ c.val.value = Opennode!JsonNumber(m.val)
      /\ c.val.currency = Opennode!Upper(req.currency)
      /\ Opennode!validate(req) /\ Opennode!check_currency(rail, req.currency)
  BY <1>1 DEF Opennode!charge_request, Opennode!Then, Opennode!Ok, Opennode!Err
<1>3. SameCode(c.val.currency, req.currency)
  BY <1>2, OpennodeKit, UpperIdempotent DEF SameCode
<1>4. Opennode!Worth(c.val.value, c.val.currency) = req.amount_minor
  <2>1. /\ m = minor_to_major_string(req.amount_minor, req.currency)
        /\ SameCode(req.currency, c.val.currency)
    BY <1>1, <1>2, <1>3, OpennodeKit DEF SameCode
  <2>2. major_string_to_minor(JsonNumber(m.val), c.val.currency) = Ok(req.amount_minor)
    BY <1>2, <2>1, JsonRoundTrip
  <2> QED BY <1>2, <2>2, OpennodeKit, OpennodeJson DEF Opennode!Worth, Ok
<1>5. /\ Opennode!quote(rail, req).ok
      /\ Opennode!quote(rail, req).val.total_minor = req.amount_minor
  BY <1>1, <1>2 DEF Opennode!quote, Opennode!Quoted, Opennode!Ok
<1> QED BY <1>3, <1>4, <1>5

\* PayFast's charge asks for the request's amount in the request's currency, and so does
\* its quote.
LEMMA PayfastAsks ==
  ASSUME NEW rail, NEW req, req.amount_minor \in 0..MaxU64,
         NEW c, c = Payfast!charge_request(rail, req), c.ok,
         Upper(c.val.currency) \in Payfast!Accepts
  PROVE  /\ SameCode(c.val.currency, req.currency)
         /\ Payfast!Worth(c.val.value, c.val.currency) = req.amount_minor
         /\ Payfast!quote(rail, req).ok
         /\ Payfast!quote(rail, req).val.total_minor = req.amount_minor
<1>1. PICK m : m = Payfast!minor_to_major_string(req.amount_minor, "ZAR")
  OBVIOUS
<1>2. /\ m.ok /\ c.val.value = m.val
      /\ c.val.currency = "ZAR"
      /\ Payfast!validate(req) /\ Payfast!SameCode(req.currency, "ZAR")
  BY <1>1 DEF Payfast!charge_request, Payfast!Then, Payfast!Ok, Payfast!Err
<1>3. SameCode(c.val.currency, req.currency)
  BY <1>2, PayfastKit DEF SameCode
<1>4. Payfast!Worth(c.val.value, c.val.currency) = req.amount_minor
  <2>1. /\ m = minor_to_major_string(req.amount_minor, "ZAR")
        /\ SameCode("ZAR", c.val.currency)
    BY <1>1, <1>2, <1>3, PayfastKit DEF SameCode
  <2>2. major_string_to_minor(m.val, c.val.currency) = Ok(req.amount_minor)
    BY <1>2, <2>1, RoundTrip
  <2> QED BY <1>2, <2>2, PayfastKit DEF Payfast!Worth, Ok
<1>5. /\ Payfast!quote(rail, req).ok
      /\ Payfast!quote(rail, req).val.total_minor = req.amount_minor
  BY <1>1, <1>2 DEF Payfast!quote, Payfast!Quoted, Payfast!Then, Payfast!Ok
<1> QED BY <1>3, <1>4, <1>5

\* PayPal's charge asks for the request's amount in the request's currency, and so does
\* its quote; but forints, which have two decimals, go out as if they had none.
LEMMA PaypalAsks ==
  ASSUME NEW rail, NEW req, req.amount_minor \in 0..MaxU64,
         NEW c, c = Paypal!charge_request(rail, req), c.ok,
         Upper(c.val.currency) \in Paypal!Accepts
  PROVE  /\ SameCode(c.val.currency, req.currency)
         /\ Paypal!Worth(c.val.value, c.val.currency)
               = req.amount_minor * Factor("paypal", c.val.currency)
         /\ Paypal!quote(rail, req).ok
         /\ Paypal!quote(rail, req).val.total_minor = req.amount_minor
<1>1. PICK m : m = Paypal!paypal_amount_value(req.amount_minor, req.currency)
  OBVIOUS
<1>2. /\ m.ok /\ c.val.value = m.val
      /\ c.val.currency = Paypal!Upper(req.currency)
      /\ Paypal!validate(req) /\ Paypal!check_currency(rail, req.currency)
  BY <1>1 DEF Paypal!charge_request, Paypal!Then, Paypal!Ok, Paypal!Err
<1>3. SameCode(c.val.currency, req.currency)
  BY <1>2, PaypalKit, UpperIdempotent DEF SameCode
<1>4. Paypal!Worth(c.val.value, c.val.currency) = req.amount_minor * Factor("paypal", c.val.currency)
  <2>0. /\ req.amount_minor \in Nat
        /\ Upper(c.val.currency) = Upper(req.currency)
        /\ Paypal!Upper(req.currency) = Upper(req.currency)
    BY <1>3, MaxNat, PaypalKit DEF SameCode
  <2>1. PICK e : e = exponent(c.val.currency).val
    OBVIOUS
  <2>2. Paypal!Worth(c.val.value, c.val.currency)
           = c.val.value.whole * pow10(e) + c.val.value.frac * pow10(e - c.val.value.digits)
    BY <2>1, PaypalKit, Zenon DEF Paypal!Worth
  <2>3. CASE Upper(c.val.currency) = "USD"
    <3>1. m.val = Paypal!Major(req.amount_minor \div 100, req.amount_minor % 100, 2)
      BY <1>1, <1>2, <2>0, <2>3 DEF Paypal!paypal_amount_value, Paypal!THREE_DECIMAL_CURRENCIES,
              Paypal!ZERO_DECIMAL_CURRENCIES, Paypal!Ok
    <3>2. /\ c.val.value.whole = req.amount_minor \div 100
          /\ c.val.value.frac = req.amount_minor % 100 /\ c.val.value.digits = 2
      BY <1>2, <3>1 DEF Paypal!Major
    <3>3. e = 2
      BY <2>1, <2>3 DEF exponent, CURRENCY_DEFS, Codes, Ok
    <3>4. req.amount_minor = (req.amount_minor \div 100) * pow10(2)
                             + (req.amount_minor % 100) * pow10(2 - 2)
      BY <2>0 DEF pow10
    <3>5. Factor("paypal", c.val.currency) = 1
      BY <2>3 DEF Factor, WholeUnits
    <3> QED BY <2>0, <2>2, <3>2, <3>3, <3>4, <3>5
  <2>4. CASE Upper(c.val.currency) \in {"JPY", "HUF"}
    <3>1. m.val = Paypal!Major(req.amount_minor, 0, 0)
      BY <1>1, <1>2, <2>0, <2>4 DEF Paypal!paypal_amount_value, Paypal!THREE_DECIMAL_CURRENCIES,
              Paypal!ZERO_DECIMAL_CURRENCIES, Paypal!Ok
    <3>2. /\ c.val.value.whole = req.amount_minor
          /\ c.val.value.frac = 0 /\ c.val.value.digits = 0
      BY <1>2, <3>1 DEF Paypal!Major
    <3>3. e = IF Upper(c.val.currency) = "JPY" THEN 0 ELSE 2
      BY <2>1, <2>4 DEF exponent, CURRENCY_DEFS, Codes, Ok
    <3>4. Factor("paypal", c.val.currency) = pow10(e) /\ pow10(e) \in Nat /\ pow10(e - 0) = pow10(e)
      BY <2>4, <3>3 DEF Factor, WholeUnits, pow10
    <3> QED BY <2>0, <2>2, <3>2, <3>4
  <2> QED BY <2>3, <2>4 DEF Paypal!Accepts
<1>5. /\ Paypal!quote(rail, req).ok
      /\ Paypal!quote(rail, req).val.total_minor = req.amount_minor
  BY <1>1, <1>2 DEF Paypal!quote, Paypal!Quoted, Paypal!Ok
<1> QED BY <1>3, <1>4, <1>5

\* Paystack's charge asks for the request's amount in the request's currency, and so does
\* its quote.
LEMMA PaystackAsks ==
  ASSUME NEW rail, NEW req, req.amount_minor \in 0..MaxU64,
         NEW c, c = Paystack!charge_request(rail, req), c.ok,
         Upper(c.val.currency) \in Paystack!Accepts
  PROVE  /\ SameCode(c.val.currency, req.currency)
         /\ Paystack!Worth(c.val.value, c.val.currency) = req.amount_minor
         /\ Paystack!quote(rail, req).ok
         /\ Paystack!quote(rail, req).val.total_minor = req.amount_minor
<1>2. /\ c.val.value = req.amount_minor /\ c.val.currency = Paystack!Upper(req.currency)
      /\ Paystack!validate(req) /\ Paystack!check_currency(rail, req.currency)
  BY DEF Paystack!charge_request, Paystack!Ok, Paystack!Err
<1>3. SameCode(c.val.currency, req.currency)
  BY <1>2, PaystackKit, UpperIdempotent DEF SameCode
<1>4. Paystack!Worth(c.val.value, c.val.currency) = req.amount_minor
  BY <1>2 DEF Paystack!Worth
<1>5. /\ Paystack!quote(rail, req).ok
      /\ Paystack!quote(rail, req).val.total_minor = req.amount_minor
  BY <1>2 DEF Paystack!quote, Paystack!Quoted, Paystack!Ok
<1> QED BY <1>3, <1>4, <1>5

\* PayU's charge asks for the request's amount in the request's currency, and so does
\* its quote.
LEMMA PayuAsks ==
  ASSUME NEW rail, NEW req, req.amount_minor \in 0..MaxU64,
         rail.capabilities.currencies = {"INR"},
         NEW c, c = Payu!charge_request(rail, req), c.ok,
         Upper(c.val.currency) \in Payu!Accepts
  PROVE  /\ SameCode(c.val.currency, req.currency)
         /\ Payu!Worth(c.val.value, c.val.currency) = req.amount_minor
         /\ Payu!quote(rail, req).ok
         /\ Payu!quote(rail, req).val.total_minor = req.amount_minor
<1>1. PICK m : m = Payu!minor_to_major_string(req.amount_minor, "INR")
  OBVIOUS
<1>2. /\ m.ok /\ c.val.value = m.val
      /\ c.val.currency = "INR"
      /\ Payu!validate(req) /\ Payu!check_currency(rail, req.currency)
  BY <1>1 DEF Payu!charge_request, Payu!Then, Payu!Ok, Payu!Err
<1>3. SameCode(c.val.currency, req.currency)
  BY <1>2, PayuKit DEF SameCode, Payu!check_currency
<1>4. Payu!Worth(c.val.value, c.val.currency) = req.amount_minor
  <2>1. /\ m = minor_to_major_string(req.amount_minor, "INR")
        /\ SameCode("INR", c.val.currency)
    BY <1>1, <1>2, <1>3, PayuKit DEF SameCode
  <2>2. major_string_to_minor(m.val, c.val.currency) = Ok(req.amount_minor)
    BY <1>2, <2>1, RoundTrip
  <2> QED BY <1>2, <2>2, PayuKit DEF Payu!Worth, Ok
<1>5. /\ Payu!quote(rail, req).ok
      /\ Payu!quote(rail, req).val.total_minor = req.amount_minor
  BY <1>1, <1>2 DEF Payu!quote, Payu!Quoted, Payu!Then, Payu!Ok
<1> QED BY <1>3, <1>4, <1>5

\* Razorpay's charge asks for the request's amount in the request's currency, and so does
\* its quote.
LEMMA RazorpayAsks ==
  ASSUME NEW rail, NEW req, req.amount_minor \in 0..MaxU64,
         NEW c, c = Razorpay!charge_request(rail, req), c.ok,
         Upper(c.val.currency) \in Razorpay!Accepts
  PROVE  /\ SameCode(c.val.currency, req.currency)
         /\ Razorpay!Worth(c.val.value, c.val.currency) = req.amount_minor
         /\ Razorpay!quote(rail, req).ok
         /\ Razorpay!quote(rail, req).val.total_minor = req.amount_minor
<1>2. /\ c.val.value = req.amount_minor /\ c.val.currency = Razorpay!Upper(req.currency)
      /\ Razorpay!validate(req) /\ Razorpay!check_currency(rail, req.currency)
  BY DEF Razorpay!charge_request, Razorpay!Ok, Razorpay!Err
<1>3. SameCode(c.val.currency, req.currency)
  BY <1>2, RazorpayKit, UpperIdempotent DEF SameCode
<1>4. Razorpay!Worth(c.val.value, c.val.currency) = req.amount_minor
  BY <1>2 DEF Razorpay!Worth
<1>5. /\ Razorpay!quote(rail, req).ok
      /\ Razorpay!quote(rail, req).val.total_minor = req.amount_minor
  BY <1>2 DEF Razorpay!quote, Razorpay!Quoted, Razorpay!Ok
<1> QED BY <1>3, <1>4, <1>5

\* Square's charge asks for the request's amount in the request's currency, and so does
\* its quote.
LEMMA SquareAsks ==
  ASSUME NEW rail, NEW req, req.amount_minor \in 0..MaxU64,
         NEW c, c = Square!charge_request(rail, req), c.ok,
         Upper(c.val.currency) \in Square!Accepts
  PROVE  /\ SameCode(c.val.currency, req.currency)
         /\ Square!Worth(c.val.value, c.val.currency) = req.amount_minor
         /\ Square!quote(rail, req).ok
         /\ Square!quote(rail, req).val.total_minor = req.amount_minor
<1>1. PICK m : m = Square!square_amount(req.amount_minor, req.currency)
  OBVIOUS
<1>2. /\ m.ok /\ c.val.value = m.val
      /\ c.val.currency = Square!Upper(req.currency)
      /\ Square!validate(req) /\ Square!check_currency(rail, req.currency)
  BY <1>1 DEF Square!charge_request, Square!Then, Square!Ok, Square!Err
<1>3. SameCode(c.val.currency, req.currency)
  BY <1>2, SquareKit, UpperIdempotent DEF SameCode
<1>4. Square!Worth(c.val.value, c.val.currency) = req.amount_minor
  BY <1>1, <1>2 DEF Square!Worth, Square!square_amount, Square!Ok, Square!Err
<1>5. /\ Square!quote(rail, req).ok
      /\ Square!quote(rail, req).val.total_minor = req.amount_minor
  BY <1>1, <1>2 DEF Square!quote, Square!Quoted, Square!Then, Square!Ok
<1> QED BY <1>3, <1>4, <1>5

\* Stripe's charge asks for the request's amount in the request's currency, and so does
\* its quote; but ariary, which have two decimals, go out as if they had none.
LEMMA StripeAsks ==
  ASSUME NEW rail, NEW req, req.amount_minor \in 0..MaxU64,
         NEW c, c = Stripe!charge_request(rail, req), c.ok,
         Upper(c.val.currency) \in Stripe!Accepts
  PROVE  /\ SameCode(c.val.currency, req.currency)
         /\ Stripe!Worth(c.val.value, c.val.currency)
               = req.amount_minor * Factor("stripe", c.val.currency)
         /\ Stripe!quote(rail, req).ok
         /\ Stripe!quote(rail, req).val.total_minor = req.amount_minor
<1>1. PICK m : m = Stripe!stripe_amount(req.amount_minor, req.currency)
  OBVIOUS
<1>2. /\ m.ok /\ c.val.value = m.val
      /\ c.val.currency = Stripe!Lowered(Stripe!Upper(req.currency))
      /\ Stripe!validate(req) /\ Stripe!check_currency(rail, req.currency)
  BY <1>1 DEF Stripe!charge_request, Stripe!Then, Stripe!Ok, Stripe!Err
<1>3. SameCode(c.val.currency, req.currency)
  BY <1>2, StripeKit, UpperOfLowered DEF SameCode
<1>4. Stripe!Worth(c.val.value, c.val.currency) = req.amount_minor * Factor("stripe", c.val.currency)
  <2>1. /\ req.amount_minor \in Nat /\ Upper(c.val.currency) = Upper(req.currency)
        /\ Stripe!Upper(c.val.currency) = Upper(req.currency)
        /\ Stripe!Upper(req.currency) = Upper(req.currency)
        /\ Upper(req.currency) \in {"USD", "JPY", "ISK", "MGA"}
    BY <1>3, MaxNat, StripeKit DEF SameCode, Stripe!Accepts
  <2>2. CASE Upper(req.currency) = "ISK"
    <3>1. m.val = req.amount_minor * 100
      BY <1>1, <1>2, <2>1, <2>2 DEF Stripe!stripe_amount, Stripe!Ok, Stripe!Err,
              Stripe!STRIPE_THREE_DECIMAL, Stripe!STRIPE_FORCED_TWO_DECIMAL
    <3>2. Factor("stripe", c.val.currency) = 1
      BY <2>1, <2>2 DEF Factor, WholeUnits
    <3>3. Stripe!Worth(c.val.value, c.val.currency) = c.val.value \div 100
      BY <2>1, <2>2 DEF Stripe!Worth, Stripe!STRIPE_FORCED_TWO_DECIMAL, Stripe!STRIPE_ZERO_DECIMAL
    <3> QED BY <1>2, <2>1, <3>1, <3>2, <3>3
  <2>3. CASE Upper(req.currency) \in {"USD", "JPY", "MGA"}
    <3>1. m.val = req.amount_minor
      BY <1>1, <1>2, <2>1, <2>3 DEF Stripe!stripe_amount, Stripe!Ok, Stripe!Err,
              Stripe!STRIPE_THREE_DECIMAL, Stripe!STRIPE_FORCED_TWO_DECIMAL
    <3>2. CASE Upper(req.currency) = "USD"
      <4>1. Stripe!Worth(c.val.value, c.val.currency) = c.val.value
        BY <2>1, <3>2 DEF Stripe!Worth, Stripe!STRIPE_FORCED_TWO_DECIMAL, Stripe!STRIPE_ZERO_DECIMAL
      <4>2. Factor("stripe", c.val.currency) = 1
        BY <2>1, <3>2 DEF Factor, WholeUnits
      <4> QED BY <1>2, <2>1, <3>1, <4>1, <4>2
    <3>3. CASE Upper(req.currency) \in {"JPY", "MGA"}
      <4>1. PICK e : e = exponent(c.val.currency).val
        OBVIOUS
      <4>2. Stripe!Worth(c.val.value, c.val.currency)
               = c.val.value * Stripe!pow10(Stripe!exponent(c.val.currency).val)
        BY <2>1, <3>3 DEF Stripe!Worth, Stripe!STRIPE_FORCED_TWO_DECIMAL, Stripe!STRIPE_ZERO_DECIMAL
      <4>3. Stripe!pow10(Stripe!exponent(c.val.currency).val) = pow10(e)
        BY <4>1, StripeKit
      <4>4. e = IF Upper(c.val.currency) = "JPY" THEN 0 ELSE 2
        BY <2>1, <3>3, <4>1 DEF exponent, CURRENCY_DEFS, Codes, Ok
      <4>5. Factor("stripe", c.val.currency) = pow10(e)
        BY <2>1, <3>3, <4>4 DEF Factor, WholeUnits, pow10
      <4> QED BY <1>2, <3>1, <4>2, <4>3, <4>5
    <3> QED BY <2>3, <3>2, <3>3
  <2> QED BY <2>1, <2>2, <2>3
<1>5. /\ Stripe!quote(rail, req).ok
      /\ Stripe!quote(rail, req).val.total_minor = req.amount_minor
  BY <1>1, <1>2 DEF Stripe!quote, Stripe!Quoted, Stripe!Then, Stripe!Ok
<1> QED BY <1>3, <1>4, <1>5

\* Xendit's charge asks for the request's amount in the request's currency, and so does
\* its quote.
LEMMA XenditAsks ==
  ASSUME NEW rail, NEW req, req.amount_minor \in 0..MaxU64,
         NEW c, c = Xendit!charge_request(rail, req), c.ok,
         Upper(c.val.currency) \in Xendit!Accepts
  PROVE  /\ SameCode(c.val.currency, req.currency)
         /\ Xendit!Worth(c.val.value, c.val.currency) = req.amount_minor
         /\ Xendit!quote(rail, req).ok
         /\ Xendit!quote(rail, req).val.total_minor = req.amount_minor
<1>1. PICK m : m = Xendit!minor_to_major_string(req.amount_minor, Xendit!Upper(req.currency))
  OBVIOUS
<1>2. /\ m.ok /\ c.val.value = m.val
      /\ c.val.currency = Xendit!Upper(req.currency)
      /\ Xendit!validate(req) /\ Xendit!check_currency(rail, req.currency)
  BY <1>1 DEF Xendit!charge_request, Xendit!Then, Xendit!Ok, Xendit!Err
<1>3. SameCode(c.val.currency, req.currency)
  BY <1>2, XenditKit, UpperIdempotent DEF SameCode
<1>4. Xendit!Worth(c.val.value, c.val.currency) = req.amount_minor
  <2>1. /\ m = minor_to_major_string(req.amount_minor, Xendit!Upper(req.currency))
        /\ SameCode(Xendit!Upper(req.currency), c.val.currency)
    BY <1>1, <1>2, <1>3, XenditKit, UpperIdempotent DEF SameCode
  <2>2. major_string_to_minor(m.val, c.val.currency) = Ok(req.amount_minor)
    BY <1>2, <2>1, RoundTrip
  <2> QED BY <1>2, <2>2, XenditKit DEF Xendit!Worth, Ok
<1>5. Xendit!minor_to_major_string(req.amount_minor, req.currency).ok
  BY <1>1, <1>2, XenditKit, UpperIdempotent, SameMajor DEF SameCode
<1>6. /\ Xendit!quote(rail, req).ok
      /\ Xendit!quote(rail, req).val.total_minor = req.amount_minor
  BY <1>2, <1>5 DEF Xendit!quote, Xendit!Quoted, Xendit!Then, Xendit!Ok
<1> QED BY <1>3, <1>4, <1>6

\* Yoco's charge asks for the request's amount in the request's currency, and so does
\* its quote.
LEMMA YocoAsks ==
  ASSUME NEW rail, NEW req, req.amount_minor \in 0..MaxU64,
         NEW c, c = Yoco!charge_request(rail, req), c.ok,
         Upper(c.val.currency) \in Yoco!Accepts
  PROVE  /\ SameCode(c.val.currency, req.currency)
         /\ Yoco!Worth(c.val.value, c.val.currency) = req.amount_minor
         /\ Yoco!quote(rail, req).ok
         /\ Yoco!quote(rail, req).val.total_minor = req.amount_minor
<1>2. /\ c.val.value = req.amount_minor /\ c.val.currency = "ZAR"
      /\ Yoco!validate(req) /\ Yoco!SameCode(req.currency, "ZAR")
  BY DEF Yoco!charge_request, Yoco!Ok, Yoco!Err
<1>3. SameCode(c.val.currency, req.currency)
  BY <1>2, YocoKit DEF SameCode
<1>4. Yoco!Worth(c.val.value, c.val.currency) = req.amount_minor
  BY <1>2 DEF Yoco!Worth
<1>5. /\ Yoco!quote(rail, req).ok
      /\ Yoco!quote(rail, req).val.total_minor = req.amount_minor
  BY <1>2 DEF Yoco!quote, Yoco!Quoted, Yoco!Ok
<1> QED BY <1>3, <1>4, <1>5

\* On every fiat rail: what a charge posts, in the processor's own units and rounding, is worth
\* exactly the amount the caller asked for, in the currency it asked for, and quote had
\* promised that amount; a hundred times the amount, though quote promised the amount, where
\* the adapter hands a two-decimal amount to a processor that takes whole units (PayPal's HUF,
\* the same as its TWD, and Stripe's MGA).  (PayU posts rupees whatever it is asked for; the rail it is built
\* as takes no other currency.)
THEOREM ChargeAsksWhatWasRequested ==
  ASSUME NEW p \in Providers, NEW rail, p = "payu" => rail.capabilities.currencies = {"INR"},
         NEW req, req.amount_minor \in 0..MaxU64,
         NEW c, c = ChargeRequest(p, rail, req), c.ok, Upper(c.val.currency) \in Accepts(p)
  PROVE  /\ SameCode(c.val.currency, req.currency)
         /\ Worth(p, c.val.value, c.val.currency) = req.amount_minor * Factor(p, c.val.currency)
         /\ Quote(p, rail, req).ok
         /\ Quote(p, rail, req).val.total_minor = req.amount_minor
<1>0. /\ req.amount_minor \in Nat
      /\ p \notin {"paypal", "stripe"} => Factor(p, c.val.currency) = 1
  BY MaxNat DEF Factor, WholeUnits
<1>1. CASE p = "adyen"
  <2>1. /\ c = Adyen!charge_request(rail, req)
        /\ Accepts(p) = Adyen!Accepts
        /\ Worth(p, c.val.value, c.val.currency) = Adyen!Worth(c.val.value, c.val.currency)
        /\ Quote(p, rail, req) = Adyen!quote(rail, req)
    BY <1>1 DEF ChargeRequest, Accepts, Worth, Quote
  <2> QED BY <1>0, <1>1, <2>1, AdyenAsks
<1>2. CASE p = "btcpay"
  <2>1. /\ c = Btcpay!charge_request(rail, req)
        /\ Accepts(p) = Btcpay!Accepts
        /\ Worth(p, c.val.value, c.val.currency) = Btcpay!Worth(c.val.value, c.val.currency)
        /\ Quote(p, rail, req) = Btcpay!quote(rail, req)
    BY <1>2 DEF ChargeRequest, Accepts, Worth, Quote
  <2> QED BY <1>0, <1>2, <2>1, BtcpayAsks
<1>3. CASE p = "checkoutcom"
  <2>1. /\ c = Checkoutcom!charge_request(rail, req)
        /\ Accepts(p) = Checkoutcom!Accepts
        /\ Worth(p, c.val.value, c.val.currency) = Checkoutcom!Worth(c.val.value, c.val.currency)
        /\ Quote(p, rail, req) = Checkoutcom!quote(rail, req)
    BY <1>3 DEF ChargeRequest, Accepts, Worth, Quote
  <2> QED BY <1>0, <1>3, <2>1, CheckoutcomAsks
<1>4. CASE p = "coinbasecommerce"
  <2>1. /\ c = Coinbasecommerce!charge_request(rail, req)
        /\ Accepts(p) = Coinbasecommerce!Accepts
        /\ Worth(p, c.val.value, c.val.currency) = Coinbasecommerce!Worth(c.val.value, c.val.currency)
        /\ Quote(p, rail, req) = Coinbasecommerce!quote(rail, req)
    BY <1>4 DEF ChargeRequest, Accepts, Worth, Quote
  <2> QED BY <1>0, <1>4, <2>1, CoinbasecommerceAsks
<1>5. CASE p = "flutterwave"
  <2>1. /\ c = Flutterwave!charge_request(rail, req)
        /\ Accepts(p) = Flutterwave!Accepts
        /\ Worth(p, c.val.value, c.val.currency) = Flutterwave!Worth(c.val.value, c.val.currency)
        /\ Quote(p, rail, req) = Flutterwave!quote(rail, req)
    BY <1>5 DEF ChargeRequest, Accepts, Worth, Quote
  <2> QED BY <1>0, <1>5, <2>1, FlutterwaveAsks
<1>6. CASE p = "hyperswitch"
  <2>1. /\ c = Hyperswitch!charge_request(rail, req)
        /\ Accepts(p) = Hyperswitch!Accepts
        /\ Worth(p, c.val.value, c.val.currency) = Hyperswitch!Worth(c.val.value, c.val.currency)
        /\ Quote(p, rail, req) = Hyperswitch!quote(rail, req)
    BY <1>6 DEF ChargeRequest, Accepts, Worth, Quote
  <2> QED BY <1>0, <1>6, <2>1, HyperswitchAsks
<1>7. CASE p = "iyzico"
  <2>1. /\ c = Iyzico!charge_request(rail, req)
        /\ Accepts(p) = Iyzico!Accepts
        /\ Worth(p, c.val.value, c.val.currency) = Iyzico!Worth(c.val.value, c.val.currency)
        /\ Quote(p, rail, req) = Iyzico!quote(rail, req)
    BY <1>7 DEF ChargeRequest, Accepts, Worth, Quote
  <2> QED BY <1>0, <1>7, <2>1, IyzicoAsks
<1>8. CASE p = "lnbits"
  <2>1. /\ c = Lnbits!charge_request(rail, req)
        /\ Accepts(p) = Lnbits!Accepts
        /\ Worth(p, c.val.value, c.val.currency) = Lnbits!Worth(c.val.value, c.val.currency)
        /\ Quote(p, rail, req) = Lnbits!quote(rail, req)
    BY <1>8 DEF ChargeRequest, Accepts, Worth, Quote
  <2> QED BY <1>0, <1>8, <2>1, LnbitsAsks
<1>9. CASE p = "mercadopago"
  <2>1. /\ c = Mercadopago!charge_request(rail, req)
        /\ Accepts(p) = Mercadopago!Accepts
        /\ Worth(p, c.val.value, c.val.currency) = Mercadopago!Worth(c.val.value, c.val.currency)
        /\ Quote(p, rail, req) = Mercadopago!quote(rail, req)
    BY <1>9 DEF ChargeRequest, Accepts, Worth, Quote
  <2> QED BY <1>0, <1>9, <2>1, MercadopagoAsks
<1>10. CASE p = "midtrans"
  <2>1. /\ c = Midtrans!charge_request(rail, req)
        /\ Accepts(p) = Midtrans!Accepts
        /\ Worth(p, c.val.value, c.val.currency) = Midtrans!Worth(c.val.value, c.val.currency)
        /\ Quote(p, rail, req) = Midtrans!quote(rail, req)
    BY <1>10 DEF ChargeRequest, Accepts, Worth, Quote
  <2> QED BY <1>0, <1>10, <2>1, MidtransAsks
<1>11. CASE p = "mollie"
  <2>1. /\ c = Mollie!charge_request(rail, req)
        /\ Accepts(p) = Mollie!Accepts
        /\ Worth(p, c.val.value, c.val.currency) = Mollie!Worth(c.val.value, c.val.currency)
        /\ Quote(p, rail, req) = Mollie!quote(rail, req)
    BY <1>11 DEF ChargeRequest, Accepts, Worth, Quote
  <2> QED BY <1>0, <1>11, <2>1, MollieAsks
<1>12. CASE p = "opennode"
  <2>1. /\ c = Opennode!charge_request(rail, req)
        /\ Accepts(p) = Opennode!Accepts
        /\ Worth(p, c.val.value, c.val.currency) = Opennode!Worth(c.val.value, c.val.currency)
        /\ Quote(p, rail, req) = Opennode!quote(rail, req)
    BY <1>12 DEF ChargeRequest, Accepts, Worth, Quote
  <2> QED BY <1>0, <1>12, <2>1, OpennodeAsks
<1>13. CASE p = "payfast"
  <2>1. /\ c = Payfast!charge_request(rail, req)
        /\ Accepts(p) = Payfast!Accepts
        /\ Worth(p, c.val.value, c.val.currency) = Payfast!Worth(c.val.value, c.val.currency)
        /\ Quote(p, rail, req) = Payfast!quote(rail, req)
    BY <1>13 DEF ChargeRequest, Accepts, Worth, Quote
  <2> QED BY <1>0, <1>13, <2>1, PayfastAsks
<1>14. CASE p = "paypal"
  <2>1. /\ c = Paypal!charge_request(rail, req)
        /\ Accepts(p) = Paypal!Accepts
        /\ Worth(p, c.val.value, c.val.currency) = Paypal!Worth(c.val.value, c.val.currency)
        /\ Quote(p, rail, req) = Paypal!quote(rail, req)
    BY <1>14 DEF ChargeRequest, Accepts, Worth, Quote
  <2> QED BY <1>14, <2>1, PaypalAsks
<1>15. CASE p = "paystack"
  <2>1. /\ c = Paystack!charge_request(rail, req)
        /\ Accepts(p) = Paystack!Accepts
        /\ Worth(p, c.val.value, c.val.currency) = Paystack!Worth(c.val.value, c.val.currency)
        /\ Quote(p, rail, req) = Paystack!quote(rail, req)
    BY <1>15 DEF ChargeRequest, Accepts, Worth, Quote
  <2> QED BY <1>0, <1>15, <2>1, PaystackAsks
<1>16. CASE p = "payu"
  <2>1. /\ c = Payu!charge_request(rail, req)
        /\ Accepts(p) = Payu!Accepts
        /\ Worth(p, c.val.value, c.val.currency) = Payu!Worth(c.val.value, c.val.currency)
        /\ Quote(p, rail, req) = Payu!quote(rail, req)
    BY <1>16 DEF ChargeRequest, Accepts, Worth, Quote
  <2> QED BY <1>0, <1>16, <2>1, PayuAsks
<1>17. CASE p = "razorpay"
  <2>1. /\ c = Razorpay!charge_request(rail, req)
        /\ Accepts(p) = Razorpay!Accepts
        /\ Worth(p, c.val.value, c.val.currency) = Razorpay!Worth(c.val.value, c.val.currency)
        /\ Quote(p, rail, req) = Razorpay!quote(rail, req)
    BY <1>17 DEF ChargeRequest, Accepts, Worth, Quote
  <2> QED BY <1>0, <1>17, <2>1, RazorpayAsks
<1>18. CASE p = "square"
  <2>1. /\ c = Square!charge_request(rail, req)
        /\ Accepts(p) = Square!Accepts
        /\ Worth(p, c.val.value, c.val.currency) = Square!Worth(c.val.value, c.val.currency)
        /\ Quote(p, rail, req) = Square!quote(rail, req)
    BY <1>18 DEF ChargeRequest, Accepts, Worth, Quote
  <2> QED BY <1>0, <1>18, <2>1, SquareAsks
<1>19. CASE p = "stripe"
  <2>1. /\ c = Stripe!charge_request(rail, req)
        /\ Accepts(p) = Stripe!Accepts
        /\ Worth(p, c.val.value, c.val.currency) = Stripe!Worth(c.val.value, c.val.currency)
        /\ Quote(p, rail, req) = Stripe!quote(rail, req)
    BY <1>19 DEF ChargeRequest, Accepts, Worth, Quote
  <2> QED BY <1>19, <2>1, StripeAsks
<1>20. CASE p = "xendit"
  <2>1. /\ c = Xendit!charge_request(rail, req)
        /\ Accepts(p) = Xendit!Accepts
        /\ Worth(p, c.val.value, c.val.currency) = Xendit!Worth(c.val.value, c.val.currency)
        /\ Quote(p, rail, req) = Xendit!quote(rail, req)
    BY <1>20 DEF ChargeRequest, Accepts, Worth, Quote
  <2> QED BY <1>0, <1>20, <2>1, XenditAsks
<1>21. CASE p = "yoco"
  <2>1. /\ c = Yoco!charge_request(rail, req)
        /\ Accepts(p) = Yoco!Accepts
        /\ Worth(p, c.val.value, c.val.currency) = Yoco!Worth(c.val.value, c.val.currency)
        /\ Quote(p, rail, req) = Yoco!quote(rail, req)
    BY <1>21 DEF ChargeRequest, Accepts, Worth, Quote
  <2> QED BY <1>0, <1>21, <2>1, YocoAsks
<1> QED BY <1>1, <1>2, <1>3, <1>4, <1>5, <1>6, <1>7, <1>8, <1>9, <1>10, <1>11, <1>12,
          <1>13, <1>14, <1>15, <1>16, <1>17, <1>18, <1>19, <1>20, <1>21 DEF Providers

\* A PayU rail takes rupees only, however it was constructed.
LEMMA PayuCurrencies ==
  ASSUME NEW env, NEW r, r \in {Build("payu", env), new_fiat("payu", env)}, r.ok
  PROVE  r.val.capabilities.currencies = {"INR"}
<1>1. ASSUME NEW c, Payu!new(c).ok
      PROVE  Payu!new(c).val.capabilities.currencies = {"INR"}
  BY <1>1, ZenonT(30) DEF Payu!new, Payu!Err, Payu!Rail, Payu!Ok
<1>2. \/ r = Then(Payu!from_env(env), LAMBDA c : Payu!new(c))
      \/ r = Payu!build_payu(env)
  BY Zenon DEF Build, new_fiat
<1>3. CASE r = Then(Payu!from_env(env), LAMBDA c : Payu!new(c))
  BY <1>1, <1>3 DEF Then, Payu!from_env
<1>4. CASE r = Payu!build_payu(env)
  BY <1>1, <1>4 DEF Payu!Then, Payu!build_payu
<1> QED BY <1>2, <1>3, <1>4

-----------------------------------------------------------------------------
(* refund *)

\* The rails that can refund; the others keep the trait's default, Unsupported.
Refunders == {"adyen", "checkoutcom", "hyperswitch", "mollie", "paypal", "paystack", "square",
              "stripe"}

\* Adyen only acknowledges a refund: its receipt claims no money.
LEMMA AdyenRefundSays ==
  ASSUME NEW rail, NEW receipt, NEW net \in Nets, NEW s, NEW done \in BOOLEAN,
         NEW r, r = Adyen!refund(rail, receipt, net, Adyen!RefundAnswer(s, done)), r.ok
  PROVE  /\ r.val.reference = receipt.reference
         /\ r.val.amount_minor = 0
BY DEF Nets, Adyen!refund, Adyen!RefundAnswer, Adyen!Answered, Adyen!do_json,
          Adyen!classify_error, Adyen!Decoded, Adyen!Ok, Adyen!Receipt, Adyen!RefundProof,
          Adyen!Then, Adyen!Exchange, Adyen!Err, Adyen!Decodes, Adyen!Garbage

\* Checkout.com only accepts a refund: its receipt claims no money.
LEMMA CheckoutcomRefundSays ==
  ASSUME NEW rail, NEW receipt, NEW net \in Nets, NEW s, NEW done \in BOOLEAN,
         NEW r, r = Checkoutcom!refund(rail, receipt, net, Checkoutcom!RefundAnswer(s, done)), r.ok
  PROVE  /\ r.val.reference = receipt.reference
         /\ r.val.amount_minor = 0
BY DEF Nets, Checkoutcom!refund, Checkoutcom!RefundAnswer, Checkoutcom!Answered,
          Checkoutcom!do_json, Checkoutcom!classify_error, Checkoutcom!Ok, Checkoutcom!Receipt,
          Checkoutcom!RefundProof, Checkoutcom!Decodes, Checkoutcom!Then, Checkoutcom!Exchange,
          Checkoutcom!Err, Checkoutcom!Garbage

\* Hyperswitch's refund claims money only if the processor answered that it is done, and then
\* the session's, read back from its answer.
LEMMA HyperswitchRefundSays ==
  ASSUME NEW rail, NEW receipt, NEW net \in Nets, NEW s, NEW done \in BOOLEAN,
         NEW r, r = Hyperswitch!refund(rail, receipt, net, Hyperswitch!RefundAnswer(s, done)), r.ok
  PROVE  /\ r.val.reference = receipt.reference
         /\ r.val.amount_minor > 0 => net = "ok" /\ done /\ r.val.amount_minor = s.value
BY DEF Nets, Hyperswitch!refund, Hyperswitch!RefundAnswer, Hyperswitch!Then, Hyperswitch!post,
          Hyperswitch!Decoded, Hyperswitch!Ok, Hyperswitch!Receipt, Hyperswitch!RefundProof,
          Hyperswitch!parse_response, Hyperswitch!Exchange, Hyperswitch!Decodes, Hyperswitch!Err,
          Hyperswitch!Answered, Hyperswitch!Garbage

\* Mollie's refund claims money only if the processor answered that it is done, and then
\* the session's, read back from its answer.
LEMMA MollieRefundSays ==
  ASSUME NEW rail, NEW receipt, NEW net \in Nets, NEW s, NEW done \in BOOLEAN,
         NEW a, a = Mollie!mollie_amount_value_to_minor(s.value, receipt.currency),
         NEW r, r = Mollie!refund(rail, receipt, net, Mollie!RefundAnswer(s, done)), r.ok
  PROVE  /\ r.val.reference = receipt.reference
         /\ r.val.amount_minor > 0 => /\ net = "ok" /\ done
                                      /\ a.ok /\ r.val.amount_minor = a.val
BY DEF Nets, Mollie!refund, Mollie!RefundAnswer, Mollie!Answered, Mollie!do_json,
          Mollie!classify_error, Mollie!Decoded, Mollie!Then, Mollie!Ok, Mollie!Receipt,
          Mollie!RefundProof, Mollie!Exchange, Mollie!Err, Mollie!Decodes, Mollie!Garbage

\* PayPal's refund claims money only if the processor answered that it is done, and then
\* the session's, read back from its answer.
LEMMA PaypalRefundSays ==
  ASSUME NEW rail, NEW receipt, NEW net \in Nets, NEW s, NEW done \in BOOLEAN,
         s.currency # Paypal!Blank,
         NEW a, a = Paypal!paypal_amount_value_to_minor(s.value, Paypal!Upper(s.currency)),
         NEW r, r = Paypal!refund(rail, receipt, net, Paypal!RefundAnswer(s, done)), r.ok
  PROVE  /\ r.val.reference = receipt.reference
         /\ r.val.amount_minor > 0 => /\ net = "ok" /\ done
                                      /\ a.ok /\ r.val.amount_minor = a.val
BY DEF Nets, Paypal!refund, Paypal!RefundAnswer, Paypal!Answered, Paypal!do_json,
          Paypal!classify_error, Paypal!Decoded, Paypal!Then, Paypal!Ok, Paypal!Receipt,
          Paypal!RefundProof, Paypal!fetch_access_token, Paypal!Exchange, Paypal!Err,
          Paypal!Decodes, Paypal!Garbage

\* Paystack's refund claims money only if the processor answered that it is done, and then
\* the session's, read back from its answer.
LEMMA PaystackRefundSays ==
  ASSUME NEW rail, NEW receipt, NEW net \in Nets, NEW s, NEW done \in BOOLEAN,
         NEW r, r = Paystack!refund(rail, receipt, net, Paystack!RefundAnswer(s, done)), r.ok
  PROVE  /\ r.val.reference = receipt.reference
         /\ r.val.amount_minor > 0 => net = "ok" /\ done /\ r.val.amount_minor = s.value
BY DEF Nets, Paystack!refund, Paystack!RefundAnswer, Paystack!Answered, Paystack!do_json,
          Paystack!classify_error, Paystack!Decoded, Paystack!Err, Paystack!Ok, Paystack!Receipt,
          Paystack!Then, Paystack!Exchange, Paystack!Decodes, Paystack!Garbage

\* Square's refund claims money only if the processor answered that it is done, and then
\* the session's, read back from its answer.
LEMMA SquareRefundSays ==
  ASSUME NEW rail, NEW receipt, NEW net \in Nets, NEW s, NEW done \in BOOLEAN,
         NEW r, r = Square!refund(rail, receipt, net, Square!RefundAnswer(s, done)), r.ok
  PROVE  /\ r.val.reference = receipt.reference
         /\ r.val.amount_minor > 0 => net = "ok" /\ done /\ r.val.amount_minor = s.value
BY DEF Nets, Square!refund, Square!RefundAnswer, Square!Answered, Square!do_json,
          Square!classify_error, Square!Decoded, Square!Err, Square!Ok, Square!Receipt,
          Square!Then, Square!Exchange, Square!Decodes, Square!Garbage

\* Stripe's refund claims money only if the processor answered that it is done, and then
\* the session's, read back from its answer.
LEMMA StripeRefundSays ==
  ASSUME NEW rail, NEW receipt, NEW net \in Nets, NEW s, NEW done \in BOOLEAN,
         NEW a, a = Stripe!stripe_amount_to_minor(s.value, s.currency),
         NEW r, r = Stripe!refund(rail, receipt, net, Stripe!RefundAnswer(s, done)), r.ok
  PROVE  /\ r.val.reference = receipt.reference
         /\ r.val.amount_minor > 0 => /\ net = "ok" /\ done
                                      /\ a.ok /\ r.val.amount_minor = a.val
BY DEF Nets, Stripe!refund, Stripe!RefundAnswer, Stripe!Answered, Stripe!do_form,
          Stripe!classify_error, Stripe!Decoded, Stripe!Then, Stripe!Ok, Stripe!Receipt,
          Stripe!RefundProof, Stripe!Exchange, Stripe!Err, Stripe!Decodes, Stripe!Garbage

\* What Stripe's charge sent reads back as the request's amount, where it was scaled included.
LEMMA StripeReads ==
  ASSUME NEW amount \in Nat, NEW code, NEW d, Upper(d) = Upper(code),
         NEW m, m = Stripe!stripe_amount(amount, code), m.ok,
         NEW a, a = Stripe!stripe_amount_to_minor(m.val, d), a.ok
  PROVE  a.val = amount
<1>1. Stripe!Upper(d) = Stripe!Upper(code)
  BY StripeKit
<1>2. Stripe!Upper(code) \notin Stripe!STRIPE_THREE_DECIMAL
  BY DEF Stripe!stripe_amount, Stripe!Err, Stripe!STRIPE_THREE_DECIMAL,
          Stripe!STRIPE_FORCED_TWO_DECIMAL
<1>3. CASE Stripe!Upper(code) \in Stripe!STRIPE_FORCED_TWO_DECIMAL
  <2>1. m.val = amount * 100
    BY <1>2, <1>3 DEF Stripe!stripe_amount, Stripe!Ok, Stripe!Err
  <2>2. a.val = m.val \div 100
    BY <1>1, <1>2, <1>3 DEF Stripe!stripe_amount_to_minor, Stripe!Ok, Stripe!Err
  <2> QED BY <2>1, <2>2
<1>4. CASE Stripe!Upper(code) \notin Stripe!STRIPE_FORCED_TWO_DECIMAL
  BY <1>1, <1>2, <1>4 DEF Stripe!stripe_amount, Stripe!stripe_amount_to_minor, Stripe!Ok
<1> QED BY <1>3, <1>4

\* Mollie's amounts read back as what they are worth, if the receipt's currency has two decimals
\* like the ones Mollie takes.
LEMMA MollieReads ==
  ASSUME NEW v, NEW code, NEW d, Upper(d) \in Mollie!Accepts,
         NEW a, a = Mollie!mollie_amount_value_to_minor(v, code), a.ok
  PROVE  a.val = Mollie!Worth(v, d)
<1>1. /\ Mollie!exponent(code).ok /\ Mollie!exponent(code).val = 2
      /\ a = Mollie!major_string_to_minor(v, code)
  BY DEF Mollie!mollie_amount_value_to_minor, Mollie!Then, Mollie!Err
<1>2. Mollie!exponent(d) = Mollie!exponent(code)
  <2>1. exponent(code) = Ok(2)
    BY <1>1, MollieKit, Exponents DEF Ok
  <2>2. exponent(d) = Ok(2)
    BY DEF exponent, CURRENCY_DEFS, Codes, Mollie!Accepts
  <2> QED BY <2>1, <2>2, MollieKit
<1> QED BY <1>1, <1>2 DEF Mollie!Worth, Mollie!major_string_to_minor

\* PayPal's adapter counts in u64 too.
LEMMA PaypalMax == Paypal!MaxU64 = MaxU64
BY SMT DEF MaxU64, Paypal!MaxU64

\* PayPal's unchecked sum does not wrap on what a charge formatted: the amount reads back.
LEMMA PaypalReads ==
  ASSUME NEW rail, NEW req, req.amount_minor \in 0..MaxU64,
         NEW c, c = Paypal!charge_request(rail, req), c.ok,
         Upper(c.val.currency) \in Paypal!Accepts,
         NEW a,
         a = Paypal!paypal_amount_value_to_minor(c.val.value, Paypal!Upper(c.val.currency))
  PROVE  c.val.currency # Paypal!Blank /\ a.val = req.amount_minor
<1>1. PICK m : m = Paypal!paypal_amount_value(req.amount_minor, req.currency)
  OBVIOUS
<1>2. m.ok /\ c.val.value = m.val /\ c.val.currency = Paypal!Upper(req.currency)
  BY <1>1 DEF Paypal!charge_request, Paypal!Then, Paypal!Ok, Paypal!Err
<1>3. /\ Paypal!Upper(Paypal!Upper(c.val.currency)) = Paypal!Upper(req.currency)
      /\ Paypal!Upper(req.currency) \in Paypal!Accepts
      /\ c.val.currency \in Paypal!Accepts
  BY <1>2, PaypalKit, UpperIdempotent
<1>4. c.val.currency # Paypal!Blank
  BY <1>3, Zenon DEF Paypal!Accepts, Paypal!Blank
<1>5. req.amount_minor \in Nat /\ req.amount_minor < MaxU64 + 1 /\ MaxU64 \in Nat
  BY MaxNat
<1>7. CASE Paypal!Upper(req.currency) = "USD"
  <2>1. m.val = Paypal!Major(req.amount_minor \div 100, req.amount_minor % 100, 2)
    BY <1>1, <1>2, <1>7 DEF Paypal!paypal_amount_value, Paypal!THREE_DECIMAL_CURRENCIES,
            Paypal!ZERO_DECIMAL_CURRENCIES, Paypal!Ok
  <2>2. a = Paypal!Ok(((req.amount_minor \div 100) * 100 + (req.amount_minor % 100) * 1)
                       % (MaxU64 + 1))
    BY <1>2, <1>3, <1>5, PaypalMax, <1>7, <2>1 DEF Paypal!paypal_amount_value_to_minor,
            Paypal!THREE_DECIMAL_CURRENCIES, Paypal!ZERO_DECIMAL_CURRENCIES, Paypal!Major, Paypal!pow10
  <2>3. (req.amount_minor \div 100) * 100 + (req.amount_minor % 100) * 1 = req.amount_minor
    BY <1>5
  <2>4. req.amount_minor % (MaxU64 + 1) = req.amount_minor
    BY <1>5
  <2> QED BY <1>4, <2>2, <2>3, <2>4 DEF Paypal!Ok
<1>8. CASE Paypal!Upper(req.currency) \in {"JPY", "HUF"}
  <2>1. m.val = Paypal!Major(req.amount_minor, 0, 0)
    BY <1>1, <1>2, <1>8 DEF Paypal!paypal_amount_value, Paypal!THREE_DECIMAL_CURRENCIES,
            Paypal!ZERO_DECIMAL_CURRENCIES, Paypal!Ok
  <2>2. a = Paypal!Ok(req.amount_minor)
    BY <1>2, <1>3, <1>8, <2>1 DEF Paypal!paypal_amount_value_to_minor,
            Paypal!THREE_DECIMAL_CURRENCIES, Paypal!ZERO_DECIMAL_CURRENCIES, Paypal!Major
  <2> QED BY <1>4, <2>2 DEF Paypal!Ok
<1> QED BY <1>3, <1>7, <1>8 DEF Paypal!Accepts

\* Adyen's refund of a session a charge made claims nothing, or the money of the request.
LEMMA AdyenRefunded ==
  ASSUME NEW rail, NEW req, req.amount_minor \in 0..MaxU64,
         NEW c, c = Adyen!charge_request(rail, req), c.ok,
         Upper(c.val.currency) \in Adyen!Accepts,
         NEW s, s.value = c.val.value, s.currency = c.val.currency,
         NEW receipt, NEW net \in Nets, NEW done \in BOOLEAN,
         NEW r, r = Adyen!refund(rail, receipt, net, Adyen!RefundAnswer(s, done)), r.ok
  PROVE  /\ r.val.reference = receipt.reference
         /\ r.val.amount_minor > 0 => net = "ok" /\ done /\ r.val.amount_minor = req.amount_minor
BY AdyenRefundSays

\* Checkout.com's refund of a session a charge made claims nothing, or the money of the request.
LEMMA CheckoutcomRefunded ==
  ASSUME NEW rail, NEW req, req.amount_minor \in 0..MaxU64,
         NEW c, c = Checkoutcom!charge_request(rail, req), c.ok,
         Upper(c.val.currency) \in Checkoutcom!Accepts,
         NEW s, s.value = c.val.value, s.currency = c.val.currency,
         NEW receipt, NEW net \in Nets, NEW done \in BOOLEAN,
         NEW r, r = Checkoutcom!refund(rail, receipt, net, Checkoutcom!RefundAnswer(s, done)), r.ok
  PROVE  /\ r.val.reference = receipt.reference
         /\ r.val.amount_minor > 0 => net = "ok" /\ done /\ r.val.amount_minor = req.amount_minor
BY CheckoutcomRefundSays

\* Hyperswitch's refund of a session a charge made claims nothing, or the money of the request.
LEMMA HyperswitchRefunded ==
  ASSUME NEW rail, NEW req, req.amount_minor \in 0..MaxU64,
         NEW c, c = Hyperswitch!charge_request(rail, req), c.ok,
         Upper(c.val.currency) \in Hyperswitch!Accepts,
         NEW s, s.value = c.val.value, s.currency = c.val.currency,
         NEW receipt, NEW net \in Nets, NEW done \in BOOLEAN,
         NEW r, r = Hyperswitch!refund(rail, receipt, net, Hyperswitch!RefundAnswer(s, done)), r.ok
  PROVE  /\ r.val.reference = receipt.reference
         /\ r.val.amount_minor > 0 => net = "ok" /\ done /\ r.val.amount_minor = req.amount_minor
<1>1. c.val.value = req.amount_minor
  BY HyperswitchAsks DEF Hyperswitch!Worth
<1> QED BY <1>1, HyperswitchRefundSays

\* Mollie's refund of a session a charge made claims nothing, or the money of the request.
LEMMA MollieRefunded ==
  ASSUME NEW rail, NEW req, req.amount_minor \in 0..MaxU64,
         NEW c, c = Mollie!charge_request(rail, req), c.ok,
         Upper(c.val.currency) \in Mollie!Accepts,
         NEW s, s.value = c.val.value, s.currency = c.val.currency,
         NEW receipt, NEW net \in Nets, NEW done \in BOOLEAN,
         NEW r, r = Mollie!refund(rail, receipt, net, Mollie!RefundAnswer(s, done)), r.ok
  PROVE  /\ r.val.reference = receipt.reference
         /\ r.val.amount_minor > 0 => net = "ok" /\ done /\ r.val.amount_minor = req.amount_minor
<1>1. PICK a : a = Mollie!mollie_amount_value_to_minor(s.value, receipt.currency)
  OBVIOUS
<1>2. a.ok => a.val = req.amount_minor
  <2>1. Mollie!Worth(s.value, s.currency) = req.amount_minor
    BY MollieAsks
  <2> QED BY <1>1, <2>1, MollieReads
<1> QED BY <1>1, <1>2, MollieRefundSays

\* PayPal's refund of a session a charge made claims nothing, or the money of the request.
LEMMA PaypalRefunded ==
  ASSUME NEW rail, NEW req, req.amount_minor \in 0..MaxU64,
         NEW c, c = Paypal!charge_request(rail, req), c.ok,
         Upper(c.val.currency) \in Paypal!Accepts,
         NEW s, s.value = c.val.value, s.currency = c.val.currency,
         NEW receipt, NEW net \in Nets, NEW done \in BOOLEAN,
         NEW r, r = Paypal!refund(rail, receipt, net, Paypal!RefundAnswer(s, done)), r.ok
  PROVE  /\ r.val.reference = receipt.reference
         /\ r.val.amount_minor > 0 => net = "ok" /\ done /\ r.val.amount_minor = req.amount_minor
<1>1. PICK a : a = Paypal!paypal_amount_value_to_minor(s.value, Paypal!Upper(s.currency))
  OBVIOUS
<1>2. s.currency # Paypal!Blank /\ (a.ok => a.val = req.amount_minor)
  BY <1>1, PaypalReads
<1> QED BY <1>1, <1>2, PaypalRefundSays

\* Paystack's refund of a session a charge made claims nothing, or the money of the request.
LEMMA PaystackRefunded ==
  ASSUME NEW rail, NEW req, req.amount_minor \in 0..MaxU64,
         NEW c, c = Paystack!charge_request(rail, req), c.ok,
         Upper(c.val.currency) \in Paystack!Accepts,
         NEW s, s.value = c.val.value, s.currency = c.val.currency,
         NEW receipt, NEW net \in Nets, NEW done \in BOOLEAN,
         NEW r, r = Paystack!refund(rail, receipt, net, Paystack!RefundAnswer(s, done)), r.ok
  PROVE  /\ r.val.reference = receipt.reference
         /\ r.val.amount_minor > 0 => net = "ok" /\ done /\ r.val.amount_minor = req.amount_minor
<1>1. c.val.value = req.amount_minor
  BY PaystackAsks DEF Paystack!Worth
<1> QED BY <1>1, PaystackRefundSays

\* Square's refund of a session a charge made claims nothing, or the money of the request.
LEMMA SquareRefunded ==
  ASSUME NEW rail, NEW req, req.amount_minor \in 0..MaxU64,
         NEW c, c = Square!charge_request(rail, req), c.ok,
         Upper(c.val.currency) \in Square!Accepts,
         NEW s, s.value = c.val.value, s.currency = c.val.currency,
         NEW receipt, NEW net \in Nets, NEW done \in BOOLEAN,
         NEW r, r = Square!refund(rail, receipt, net, Square!RefundAnswer(s, done)), r.ok
  PROVE  /\ r.val.reference = receipt.reference
         /\ r.val.amount_minor > 0 => net = "ok" /\ done /\ r.val.amount_minor = req.amount_minor
<1>1. c.val.value = req.amount_minor
  BY SquareAsks DEF Square!Worth
<1> QED BY <1>1, SquareRefundSays

\* Stripe's refund of a session a charge made claims nothing, or the money of the request.
LEMMA StripeRefunded ==
  ASSUME NEW rail, NEW req, req.amount_minor \in 0..MaxU64,
         NEW c, c = Stripe!charge_request(rail, req), c.ok,
         Upper(c.val.currency) \in Stripe!Accepts,
         NEW s, s.value = c.val.value, s.currency = c.val.currency,
         NEW receipt, NEW net \in Nets, NEW done \in BOOLEAN,
         NEW r, r = Stripe!refund(rail, receipt, net, Stripe!RefundAnswer(s, done)), r.ok
  PROVE  /\ r.val.reference = receipt.reference
         /\ r.val.amount_minor > 0 => net = "ok" /\ done /\ r.val.amount_minor = req.amount_minor
<1>1. PICK a : a = Stripe!stripe_amount_to_minor(s.value, s.currency)
  OBVIOUS
<1>2. a.ok => a.val = req.amount_minor
  <2>1. PICK m : m = Stripe!stripe_amount(req.amount_minor, req.currency)
    OBVIOUS
  <2>2. m.ok /\ s.value = m.val
    BY <2>1 DEF Stripe!charge_request, Stripe!Then, Stripe!Ok, Stripe!Err
  <2>3. Upper(s.currency) = Upper(req.currency)
    BY StripeAsks DEF SameCode
  <2>4. req.amount_minor \in Nat
    BY MaxNat
  <2> QED BY <1>1, <2>1, <2>2, <2>3, <2>4, StripeReads
<1> QED BY <1>1, <1>2, StripeRefundSays

\* On every rail that can refund: the receipt of a refund carries the reference of the receipt
\* it was asked with, and claims money only if the processor answered that the money was given
\* back; what it claims is then exactly the amount of the caller's request.
THEOREM RefundIsSound ==
  ASSUME NEW p \in Refunders, NEW rail, NEW req, req.amount_minor \in 0..MaxU64,
         NEW c, c = ChargeRequest(p, rail, req), c.ok, Upper(c.val.currency) \in Accepts(p),
         NEW s, s.value = c.val.value, s.currency = c.val.currency,
         NEW receipt, NEW net \in Nets, NEW done \in BOOLEAN,
         NEW r, r = Refund(p, rail, receipt, net, RefundAnswer(p, s, done)), r.ok
  PROVE  /\ r.val.reference = receipt.reference
         /\ r.val.amount_minor > 0 => net = "ok" /\ done /\ r.val.amount_minor = req.amount_minor
<1>1. CASE p = "adyen"
  <2>1. /\ c = Adyen!charge_request(rail, req)
        /\ Accepts(p) = Adyen!Accepts
        /\ r = Adyen!refund(rail, receipt, net, Adyen!RefundAnswer(s, done))
    BY <1>1 DEF ChargeRequest, Accepts, Refund, RefundAnswer
  <2> QED BY <2>1, AdyenRefunded
<1>2. CASE p = "checkoutcom"
  <2>1. /\ c = Checkoutcom!charge_request(rail, req)
        /\ Accepts(p) = Checkoutcom!Accepts
        /\ r = Checkoutcom!refund(rail, receipt, net, Checkoutcom!RefundAnswer(s, done))
    BY <1>2 DEF ChargeRequest, Accepts, Refund, RefundAnswer
  <2> QED BY <2>1, CheckoutcomRefunded
<1>3. CASE p = "hyperswitch"
  <2>1. /\ c = Hyperswitch!charge_request(rail, req)
        /\ Accepts(p) = Hyperswitch!Accepts
        /\ r = Hyperswitch!refund(rail, receipt, net, Hyperswitch!RefundAnswer(s, done))
    BY <1>3 DEF ChargeRequest, Accepts, Refund, RefundAnswer
  <2> QED BY <2>1, HyperswitchRefunded
<1>4. CASE p = "mollie"
  <2>1. /\ c = Mollie!charge_request(rail, req)
        /\ Accepts(p) = Mollie!Accepts
        /\ r = Mollie!refund(rail, receipt, net, Mollie!RefundAnswer(s, done))
    BY <1>4 DEF ChargeRequest, Accepts, Refund, RefundAnswer
  <2> QED BY <2>1, MollieRefunded
<1>5. CASE p = "paypal"
  <2>1. /\ c = Paypal!charge_request(rail, req)
        /\ Accepts(p) = Paypal!Accepts
        /\ r = Paypal!refund(rail, receipt, net, Paypal!RefundAnswer(s, done))
    BY <1>5 DEF ChargeRequest, Accepts, Refund, RefundAnswer
  <2> QED BY <2>1, PaypalRefunded
<1>6. CASE p = "paystack"
  <2>1. /\ c = Paystack!charge_request(rail, req)
        /\ Accepts(p) = Paystack!Accepts
        /\ r = Paystack!refund(rail, receipt, net, Paystack!RefundAnswer(s, done))
    BY <1>6 DEF ChargeRequest, Accepts, Refund, RefundAnswer
  <2> QED BY <2>1, PaystackRefunded
<1>7. CASE p = "square"
  <2>1. /\ c = Square!charge_request(rail, req)
        /\ Accepts(p) = Square!Accepts
        /\ r = Square!refund(rail, receipt, net, Square!RefundAnswer(s, done))
    BY <1>7 DEF ChargeRequest, Accepts, Refund, RefundAnswer
  <2> QED BY <2>1, SquareRefunded
<1>8. CASE p = "stripe"
  <2>1. /\ c = Stripe!charge_request(rail, req)
        /\ Accepts(p) = Stripe!Accepts
        /\ r = Stripe!refund(rail, receipt, net, Stripe!RefundAnswer(s, done))
    BY <1>8 DEF ChargeRequest, Accepts, Refund, RefundAnswer
  <2> QED BY <2>1, StripeRefunded
<1> QED BY <1>1, <1>2, <1>3, <1>4, <1>5, <1>6, <1>7, <1>8 DEF Refunders

\* Adyen cannot verify by polling: no receipt of its verifies.
LEMMA AdyenRefundReceipt ==
  ASSUME NEW rail, NEW r, NEW n, NEW pay
  PROVE  Adyen!verify(rail, r, n, pay) # Ok(TRUE)
BY DEF Ok, Adyen!verify, Adyen!Unsupported, Adyen!Err

\* The receipt of Checkout.com's refund has no proof of a charge: verify does not accept it.
LEMMA CheckoutcomRefundReceipt ==
  ASSUME NEW rail, NEW receipt, NEW net, NEW answer,
         NEW r, r = Checkoutcom!refund(rail, receipt, net, answer), r.ok, NEW n, NEW pay
  PROVE  Checkoutcom!verify(rail, r.val, n, pay) # Ok(TRUE)
<1>1. ~Checkoutcom!IsChargeProof(r.val.proof)
  BY DEF Checkoutcom!IsChargeProof, Checkoutcom!refund, Checkoutcom!Answered, Checkoutcom!do_json,
          Checkoutcom!classify_error, Checkoutcom!Ok, Checkoutcom!Receipt,
          Checkoutcom!RefundProof, Checkoutcom!Decodes, Checkoutcom!Then, Checkoutcom!Exchange,
          Checkoutcom!Err, Checkoutcom!Garbage
<1> QED BY <1>1 DEF Ok, Checkoutcom!verify, Checkoutcom!Ok

\* The receipt of Hyperswitch's refund has no proof of a charge: verify does not accept it.
LEMMA HyperswitchRefundReceipt ==
  ASSUME NEW rail, NEW receipt, NEW net, NEW answer,
         NEW r, r = Hyperswitch!refund(rail, receipt, net, answer), r.ok, NEW n, NEW pay
  PROVE  Hyperswitch!verify(rail, r.val, n, pay) # Ok(TRUE)
<1>1. ~Hyperswitch!IsChargeProof(r.val.proof)
  BY DEF Hyperswitch!IsChargeProof, Hyperswitch!refund, Hyperswitch!Then, Hyperswitch!post,
          Hyperswitch!Decoded, Hyperswitch!Ok, Hyperswitch!Receipt, Hyperswitch!RefundProof,
          Hyperswitch!parse_response, Hyperswitch!Exchange, Hyperswitch!Decodes, Hyperswitch!Err,
          Hyperswitch!Answered, Hyperswitch!Garbage
<1> QED BY <1>1 DEF Ok, Hyperswitch!verify, Hyperswitch!Ok

\* The receipt of Mollie's refund has no proof of a charge: verify does not accept it.
LEMMA MollieRefundReceipt ==
  ASSUME NEW rail, NEW receipt, NEW net, NEW answer,
         NEW r, r = Mollie!refund(rail, receipt, net, answer), r.ok, NEW n, NEW pay
  PROVE  Mollie!verify(rail, r.val, n, pay) # Ok(TRUE)
<1>1. ~Mollie!IsChargeProof(r.val.proof)
  BY DEF Mollie!IsChargeProof, Mollie!refund, Mollie!Answered, Mollie!do_json,
          Mollie!classify_error, Mollie!Decoded, Mollie!Then, Mollie!Ok, Mollie!Receipt,
          Mollie!RefundProof, Mollie!Exchange, Mollie!Err, Mollie!Decodes, Mollie!Garbage
<1> QED BY <1>1 DEF Ok, Mollie!verify, Mollie!Ok

\* The receipt of PayPal's refund has no proof of a charge: verify does not accept it.
LEMMA PaypalRefundReceipt ==
  ASSUME NEW rail, NEW receipt, NEW net, NEW answer,
         NEW r, r = Paypal!refund(rail, receipt, net, answer), r.ok, NEW n, NEW pay
  PROVE  Paypal!verify(rail, r.val, n, pay) # Ok(TRUE)
<1>1. ~Paypal!IsChargeProof(r.val.proof)
  BY DEF Paypal!IsChargeProof, Paypal!refund, Paypal!Answered, Paypal!do_json,
          Paypal!classify_error, Paypal!Decoded, Paypal!Then, Paypal!Ok, Paypal!Receipt,
          Paypal!RefundProof, Paypal!fetch_access_token, Paypal!Exchange, Paypal!Err,
          Paypal!Decodes, Paypal!Garbage
<1> QED BY <1>1 DEF Ok, Paypal!verify, Paypal!Ok, Paypal!Err

\* The receipt of Square's refund has no proof of a charge: verify does not accept it.
LEMMA SquareRefundReceipt ==
  ASSUME NEW rail, NEW receipt, NEW net, NEW answer,
         NEW r, r = Square!refund(rail, receipt, net, answer), r.ok, NEW n, NEW pay
  PROVE  Square!verify(rail, r.val, n, pay) # Ok(TRUE)
<1>1. ~Square!IsChargeProof(r.val.proof)
  BY DEF Square!IsChargeProof, Square!refund, Square!Answered, Square!do_json,
          Square!classify_error, Square!Decoded, Square!Err, Square!Ok, Square!Receipt,
          Square!Then, Square!Exchange, Square!Decodes, Square!Garbage
<1> QED BY <1>1 DEF Ok, Square!verify, Square!Ok

\* The receipt of Stripe's refund has no proof of a charge: verify does not accept it.
LEMMA StripeRefundReceipt ==
  ASSUME NEW rail, NEW receipt, NEW net, NEW answer,
         NEW r, r = Stripe!refund(rail, receipt, net, answer), r.ok, NEW n, NEW pay
  PROVE  Stripe!verify(rail, r.val, n, pay) # Ok(TRUE)
<1>1. ~Stripe!IsChargeProof(r.val.proof)
  BY DEF Stripe!IsChargeProof, Stripe!refund, Stripe!Answered, Stripe!do_form,
          Stripe!classify_error, Stripe!Decoded, Stripe!Then, Stripe!Ok, Stripe!Receipt,
          Stripe!RefundProof, Stripe!Exchange, Stripe!Err, Stripe!Decodes, Stripe!Garbage
<1> QED BY <1>1 DEF Ok, Stripe!verify, Stripe!Ok

\* The receipt of a refund never verifies as a payment, whatever the processor answers then.
\* (Paystack is left out: its verify asks by the reference and never reads the proof.)
THEOREM RefundReceiptIsNoPayment ==
  ASSUME NEW p \in Refunders \ {"paystack"}, NEW rail, NEW receipt, NEW net, NEW answer,
         NEW r, r = Refund(p, rail, receipt, net, answer), r.ok, NEW n, NEW pay
  PROVE  Verify(p, rail, r.val, n, pay) # Ok(TRUE)
<1>1. CASE p = "adyen"
  <2>1. /\ r = Adyen!refund(rail, receipt, net, answer)
        /\ Verify(p, rail, r.val, n, pay) = Adyen!verify(rail, r.val, n, pay)
    BY <1>1, AdyenDispatch DEF Refund
  <2> QED BY <2>1, AdyenRefundReceipt
<1>2. CASE p = "checkoutcom"
  <2>1. /\ r = Checkoutcom!refund(rail, receipt, net, answer)
        /\ Verify(p, rail, r.val, n, pay) = Checkoutcom!verify(rail, r.val, n, pay)
    BY <1>2, CheckoutcomDispatch DEF Refund
  <2> QED BY <2>1, CheckoutcomRefundReceipt
<1>3. CASE p = "hyperswitch"
  <2>1. /\ r = Hyperswitch!refund(rail, receipt, net, answer)
        /\ Verify(p, rail, r.val, n, pay) = Hyperswitch!verify(rail, r.val, n, pay)
    BY <1>3, HyperswitchDispatch DEF Refund
  <2> QED BY <2>1, HyperswitchRefundReceipt
<1>4. CASE p = "mollie"
  <2>1. /\ r = Mollie!refund(rail, receipt, net, answer)
        /\ Verify(p, rail, r.val, n, pay) = Mollie!verify(rail, r.val, n, pay)
    BY <1>4, MollieDispatch DEF Refund
  <2> QED BY <2>1, MollieRefundReceipt
<1>5. CASE p = "paypal"
  <2>1. /\ r = Paypal!refund(rail, receipt, net, answer)
        /\ Verify(p, rail, r.val, n, pay) = Paypal!verify(rail, r.val, n, pay)
    BY <1>5, PaypalDispatch DEF Refund
  <2> QED BY <2>1, PaypalRefundReceipt
<1>6. CASE p = "square"
  <2>1. /\ r = Square!refund(rail, receipt, net, answer)
        /\ Verify(p, rail, r.val, n, pay) = Square!verify(rail, r.val, n, pay)
    BY <1>6, SquareDispatch DEF Refund
  <2> QED BY <2>1, SquareRefundReceipt
<1>7. CASE p = "stripe"
  <2>1. /\ r = Stripe!refund(rail, receipt, net, answer)
        /\ Verify(p, rail, r.val, n, pay) = Stripe!verify(rail, r.val, n, pay)
    BY <1>7, StripeDispatch DEF Refund
  <2> QED BY <2>1, StripeRefundReceipt
<1> QED BY <1>1, <1>2, <1>3, <1>4, <1>5, <1>6, <1>7 DEF Refunders
=============================================================================
