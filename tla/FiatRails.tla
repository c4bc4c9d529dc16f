----------------------------- MODULE FiatRails -----------------------------
(***************************************************************************)
(* The fiat rails behind `dyn PaymentRail`: one call of the trait goes to  *)
(* the adapter whose id was asked for.                                     *)
(***************************************************************************)
EXTENDS FiatKit

Adyen == INSTANCE AdyenCheckout
Btcpay == INSTANCE BtcpayCheckout
Checkoutcom == INSTANCE CheckoutcomCheckout
Coinbasecommerce == INSTANCE CoinbasecommerceCheckout
Flutterwave == INSTANCE FlutterwaveCheckout
Hyperswitch == INSTANCE HyperswitchCheckout
Iyzico == INSTANCE IyzicoCheckout
Lnbits == INSTANCE LnbitsCheckout
Mercadopago == INSTANCE MercadopagoCheckout
Midtrans == INSTANCE MidtransCheckout
Mollie == INSTANCE MollieCheckout
Opennode == INSTANCE OpennodeCheckout
Payfast == INSTANCE PayfastCheckout
Paypal == INSTANCE PaypalCheckout
Paystack == INSTANCE PaystackCheckout
Payu == INSTANCE PayuCheckout
Razorpay == INSTANCE RazorpayCheckout
Square == INSTANCE SquareCheckout
Stripe == INSTANCE StripeCheckout
Xendit == INSTANCE XenditCheckout
Yoco == INSTANCE YocoCheckout

Providers == {"adyen", "btcpay", "checkoutcom", "coinbasecommerce", "flutterwave",
              "hyperswitch", "iyzico", "lnbits", "mercadopago", "midtrans", "mollie",
              "opennode", "payfast", "paypal", "paystack", "payu", "razorpay", "square",
              "stripe", "xendit", "yoco"}

\* The constructors (each rail's from_env and new).
Build(p, env) ==
    CASE p = "adyen" -> Then(Adyen!from_env(env), LAMBDA c : Adyen!new(c))
      [] p = "btcpay" -> Then(Btcpay!from_env(env), LAMBDA c : Btcpay!new(c))
      [] p = "checkoutcom" -> Then(Checkoutcom!from_env(env), LAMBDA c : Checkoutcom!new(c))
      [] p = "coinbasecommerce" -> Then(Coinbasecommerce!from_env(env), LAMBDA c : Coinbasecommerce!new(c))
      [] p = "flutterwave" -> Then(Flutterwave!from_env(env), LAMBDA c : Flutterwave!new(c))
      [] p = "hyperswitch" -> Then(Hyperswitch!from_env(env), LAMBDA c : Hyperswitch!new(c))
      [] p = "iyzico" -> Then(Iyzico!from_env(env), LAMBDA c : Iyzico!new(c))
      [] p = "lnbits" -> Then(Lnbits!from_env(env), LAMBDA c : Lnbits!new(c))
      [] p = "mercadopago" -> Then(Mercadopago!from_env(env), LAMBDA c : Mercadopago!new(c))
      [] p = "midtrans" -> Then(Midtrans!from_env(env), LAMBDA c : Midtrans!new(c))
      [] p = "mollie" -> Then(Mollie!from_env(env), LAMBDA c : Mollie!new(c))
      [] p = "opennode" -> Then(Opennode!from_env(env), LAMBDA c : Opennode!new(c))
      [] p = "payfast" -> Then(Payfast!from_env(env), LAMBDA c : Payfast!new(c))
      [] p = "paypal" -> Then(Paypal!from_env(env), LAMBDA c : Paypal!new(c))
      [] p = "paystack" -> Then(Paystack!from_env(env), LAMBDA c : Paystack!new(c))
      [] p = "payu" -> Then(Payu!from_env(env), LAMBDA c : Payu!new(c))
      [] p = "razorpay" -> Then(Razorpay!from_env(env), LAMBDA c : Razorpay!new(c))
      [] p = "square" -> Then(Square!from_env(env), LAMBDA c : Square!new(c))
      [] p = "stripe" -> Then(Stripe!from_env(env), LAMBDA c : Stripe!new(c))
      [] p = "xendit" -> Then(Xendit!from_env(env), LAMBDA c : Xendit!new(c))
      [] p = "yoco" -> Then(Yoco!from_env(env), LAMBDA c : Yoco!new(c))

\* PatalaRail::new_fiat and new_hyperswitch: the same rails, for a caller behind the bindings.
new_fiat(p, config) ==
    CASE p = "adyen" -> Adyen!build_adyen(config)
      [] p = "btcpay" -> Btcpay!build_btcpay(config)
      [] p = "checkoutcom" -> Checkoutcom!build_checkoutcom(config)
      [] p = "coinbasecommerce" -> Coinbasecommerce!build_coinbasecommerce(config)
      [] p = "flutterwave" -> Flutterwave!build_flutterwave(config)
      [] p = "hyperswitch" -> Hyperswitch!new_hyperswitch(config)
      [] p = "iyzico" -> Iyzico!build_iyzico(config)
      [] p = "lnbits" -> Lnbits!build_lnbits(config)
      [] p = "mercadopago" -> Mercadopago!build_mercadopago(config)
      [] p = "midtrans" -> Midtrans!build_midtrans(config)
      [] p = "mollie" -> Mollie!build_mollie(config)
      [] p = "opennode" -> Opennode!build_opennode(config)
      [] p = "payfast" -> Payfast!build_payfast(config)
      [] p = "paypal" -> Paypal!build_paypal(config)
      [] p = "paystack" -> Paystack!build_paystack(config)
      [] p = "payu" -> Payu!build_payu(config)
      [] p = "razorpay" -> Razorpay!build_razorpay(config)
      [] p = "square" -> Square!build_square(config)
      [] p = "stripe" -> Stripe!build_stripe(config)
      [] p = "xendit" -> Xendit!build_xendit(config)
      [] p = "yoco" -> Yoco!build_yoco(config)

RequiredEnv(p) ==
    CASE p = "adyen" -> Adyen!Required
      [] p = "btcpay" -> Btcpay!Required
      [] p = "checkoutcom" -> Checkoutcom!Required
      [] p = "coinbasecommerce" -> Coinbasecommerce!Required
      [] p = "flutterwave" -> Flutterwave!Required
      [] p = "hyperswitch" -> Hyperswitch!Required
      [] p = "iyzico" -> Iyzico!Required
      [] p = "lnbits" -> Lnbits!Required
      [] p = "mercadopago" -> Mercadopago!Required
      [] p = "midtrans" -> Midtrans!Required
      [] p = "mollie" -> Mollie!Required
      [] p = "opennode" -> Opennode!Required
      [] p = "payfast" -> Payfast!Required
      [] p = "paypal" -> Paypal!Required
      [] p = "paystack" -> Paystack!Required
      [] p = "payu" -> Payu!Required
      [] p = "razorpay" -> Razorpay!Required
      [] p = "square" -> Square!Required
      [] p = "stripe" -> Stripe!Required
      [] p = "xendit" -> Xendit!Required
      [] p = "yoco" -> Yoco!Required

\* What an operator may set on top, and the adapter's checks depend on.
OptionalEnv(p) == CASE p = "hyperswitch" -> {"webhook_secret"}
                    [] p = "payfast" -> {"passphrase"}
                    [] OTHER -> {}

\* PaymentRail::quote.
Quote(p, rail, req) ==
    CASE p = "adyen" -> Adyen!quote(rail, req)
      [] p = "btcpay" -> Btcpay!quote(rail, req)
      [] p = "checkoutcom" -> Checkoutcom!quote(rail, req)
      [] p = "coinbasecommerce" -> Coinbasecommerce!quote(rail, req)
      [] p = "flutterwave" -> Flutterwave!quote(rail, req)
      [] p = "hyperswitch" -> Hyperswitch!quote(rail, req)
      [] p = "iyzico" -> Iyzico!quote(rail, req)
      [] p = "lnbits" -> Lnbits!quote(rail, req)
      [] p = "mercadopago" -> Mercadopago!quote(rail, req)
      [] p = "midtrans" -> Midtrans!quote(rail, req)
      [] p = "mollie" -> Mollie!quote(rail, req)
      [] p = "opennode" -> Opennode!quote(rail, req)
      [] p = "payfast" -> Payfast!quote(rail, req)
      [] p = "paypal" -> Paypal!quote(rail, req)
      [] p = "paystack" -> Paystack!quote(rail, req)
      [] p = "payu" -> Payu!quote(rail, req)
      [] p = "razorpay" -> Razorpay!quote(rail, req)
      [] p = "square" -> Square!quote(rail, req)
      [] p = "stripe" -> Stripe!quote(rail, req)
      [] p = "xendit" -> Xendit!quote(rail, req)
      [] p = "yoco" -> Yoco!quote(rail, req)

\* PaymentRail::charge, up to the request that is sent, and from its answer.
ChargeRequest(p, rail, req) ==
    CASE p = "adyen" -> Adyen!charge_request(rail, req)
      [] p = "btcpay" -> Btcpay!charge_request(rail, req)
      [] p = "checkoutcom" -> Checkoutcom!charge_request(rail, req)
      [] p = "coinbasecommerce" -> Coinbasecommerce!charge_request(rail, req)
      [] p = "flutterwave" -> Flutterwave!charge_request(rail, req)
      [] p = "hyperswitch" -> Hyperswitch!charge_request(rail, req)
      [] p = "iyzico" -> Iyzico!charge_request(rail, req)
      [] p = "lnbits" -> Lnbits!charge_request(rail, req)
      [] p = "mercadopago" -> Mercadopago!charge_request(rail, req)
      [] p = "midtrans" -> Midtrans!charge_request(rail, req)
      [] p = "mollie" -> Mollie!charge_request(rail, req)
      [] p = "opennode" -> Opennode!charge_request(rail, req)
      [] p = "payfast" -> Payfast!charge_request(rail, req)
      [] p = "paypal" -> Paypal!charge_request(rail, req)
      [] p = "paystack" -> Paystack!charge_request(rail, req)
      [] p = "payu" -> Payu!charge_request(rail, req)
      [] p = "razorpay" -> Razorpay!charge_request(rail, req)
      [] p = "square" -> Square!charge_request(rail, req)
      [] p = "stripe" -> Stripe!charge_request(rail, req)
      [] p = "xendit" -> Xendit!charge_request(rail, req)
      [] p = "yoco" -> Yoco!charge_request(rail, req)

Charge(p, rail, req, net, created) ==
    CASE p = "adyen" -> Adyen!charge(rail, req, net, created)
      [] p = "btcpay" -> Btcpay!charge(rail, req, net, created)
      [] p = "checkoutcom" -> Checkoutcom!charge(rail, req, net, created)
      [] p = "coinbasecommerce" -> Coinbasecommerce!charge(rail, req, net, created)
      [] p = "flutterwave" -> Flutterwave!charge(rail, req, net, created)
      [] p = "hyperswitch" -> Hyperswitch!charge(rail, req, net, created)
      [] p = "iyzico" -> Iyzico!charge(rail, req, net, created)
      [] p = "lnbits" -> Lnbits!charge(rail, req, net, created)
      [] p = "mercadopago" -> Mercadopago!charge(rail, req, net, created)
      [] p = "midtrans" -> Midtrans!charge(rail, req, net, created)
      [] p = "mollie" -> Mollie!charge(rail, req, net, created)
      [] p = "opennode" -> Opennode!charge(rail, req, net, created)
      [] p = "payfast" -> Payfast!charge(rail, req, net, created)
      [] p = "paypal" -> Paypal!charge(rail, req, net, created)
      [] p = "paystack" -> Paystack!charge(rail, req, net, created)
      [] p = "payu" -> Payu!charge(rail, req, net, created)
      [] p = "razorpay" -> Razorpay!charge(rail, req, net, created)
      [] p = "square" -> Square!charge(rail, req, net, created)
      [] p = "stripe" -> Stripe!charge(rail, req, net, created)
      [] p = "xendit" -> Xendit!charge(rail, req, net, created)
      [] p = "yoco" -> Yoco!charge(rail, req, net, created)

\* PaymentRail::verify, and the capture PayPal's goes on to.
Verify(p, rail, receipt, net, payload) ==
    CASE p = "adyen" -> Adyen!verify(rail, receipt, net, payload)
      [] p = "btcpay" -> Btcpay!verify(rail, receipt, net, payload)
      [] p = "checkoutcom" -> Checkoutcom!verify(rail, receipt, net, payload)
      [] p = "coinbasecommerce" -> Coinbasecommerce!verify(rail, receipt, net, payload)
      [] p = "flutterwave" -> Flutterwave!verify(rail, receipt, net, payload)
      [] p = "hyperswitch" -> Hyperswitch!verify(rail, receipt, net, payload)
      [] p = "iyzico" -> Iyzico!verify(rail, receipt, net, payload)
      [] p = "lnbits" -> Lnbits!verify(rail, receipt, net, payload)
      [] p = "mercadopago" -> Mercadopago!verify(rail, receipt, net, payload)
      [] p = "midtrans" -> Midtrans!verify(rail, receipt, net, payload)
      [] p = "mollie" -> Mollie!verify(rail, receipt, net, payload)
      [] p = "opennode" -> Opennode!verify(rail, receipt, net, payload)
      [] p = "payfast" -> Payfast!verify(rail, receipt, net, payload)
      [] p = "paypal" -> Paypal!verify(rail, receipt, net, payload)
      [] p = "paystack" -> Paystack!verify(rail, receipt, net, payload)
      [] p = "payu" -> Payu!verify(rail, receipt, net, payload)
      [] p = "razorpay" -> Razorpay!verify(rail, receipt, net, payload)
      [] p = "square" -> Square!verify(rail, receipt, net, payload)
      [] p = "stripe" -> Stripe!verify(rail, receipt, net, payload)
      [] p = "xendit" -> Xendit!verify(rail, receipt, net, payload)
      [] p = "yoco" -> Yoco!verify(rail, receipt, net, payload)

VerifyCaptured(p, rail, receipt, net, payload) ==
    CASE p = "paypal" -> Paypal!verify_captured(rail, receipt, net, payload)
      [] OTHER -> Unsupported

Named(p, receipt) ==
    CASE p = "adyen" -> Adyen!Named(receipt)
      [] p = "btcpay" -> Btcpay!Named(receipt)
      [] p = "checkoutcom" -> Checkoutcom!Named(receipt)
      [] p = "coinbasecommerce" -> Coinbasecommerce!Named(receipt)
      [] p = "flutterwave" -> Flutterwave!Named(receipt)
      [] p = "hyperswitch" -> Hyperswitch!Named(receipt)
      [] p = "iyzico" -> Iyzico!Named(receipt)
      [] p = "lnbits" -> Lnbits!Named(receipt)
      [] p = "mercadopago" -> Mercadopago!Named(receipt)
      [] p = "midtrans" -> Midtrans!Named(receipt)
      [] p = "mollie" -> Mollie!Named(receipt)
      [] p = "opennode" -> Opennode!Named(receipt)
      [] p = "payfast" -> Payfast!Named(receipt)
      [] p = "paypal" -> Paypal!Named(receipt)
      [] p = "paystack" -> Paystack!Named(receipt)
      [] p = "payu" -> Payu!Named(receipt)
      [] p = "razorpay" -> Razorpay!Named(receipt)
      [] p = "square" -> Square!Named(receipt)
      [] p = "stripe" -> Stripe!Named(receipt)
      [] p = "xendit" -> Xendit!Named(receipt)
      [] p = "yoco" -> Yoco!Named(receipt)

\* Square and Adyen name the payment only in a webhook; the caller puts it into the proof.
Resolved(p, receipt, object_id) ==
    CASE p = "square" -> [receipt EXCEPT !.proof = Square!with_resolved_payment_id(@, object_id)]
      [] p = "adyen" -> [receipt EXCEPT !.proof = Adyen!ChargeProof(@.payment_link_id, object_id)]
      [] OTHER -> receipt

\* PaymentRail::refund: the trait's default is Unsupported.
RefundLookup(p, rail, receipt, net, payload) ==
    CASE p = "adyen" -> Adyen!refund_lookup(rail, receipt, net, payload)
      [] p = "checkoutcom" -> Checkoutcom!refund_lookup(rail, receipt, net, payload)
      [] p = "hyperswitch" -> Hyperswitch!refund_lookup(rail, receipt, net, payload)
      [] p = "mollie" -> Mollie!refund_lookup(rail, receipt, net, payload)
      [] p = "paypal" -> Paypal!refund_lookup(rail, receipt, net, payload)
      [] p = "paystack" -> Paystack!refund_lookup(rail, receipt, net, payload)
      [] p = "square" -> Square!refund_lookup(rail, receipt, net, payload)
      [] p = "stripe" -> Stripe!refund_lookup(rail, receipt, net, payload)
      [] OTHER -> Unsupported

Refund(p, rail, receipt, net, refunded) ==
    CASE p = "adyen" -> Adyen!refund(rail, receipt, net, refunded)
      [] p = "checkoutcom" -> Checkoutcom!refund(rail, receipt, net, refunded)
      [] p = "hyperswitch" -> Hyperswitch!refund(rail, receipt, net, refunded)
      [] p = "mollie" -> Mollie!refund(rail, receipt, net, refunded)
      [] p = "paypal" -> Paypal!refund(rail, receipt, net, refunded)
      [] p = "paystack" -> Paystack!refund(rail, receipt, net, refunded)
      [] p = "square" -> Square!refund(rail, receipt, net, refunded)
      [] p = "stripe" -> Stripe!refund(rail, receipt, net, refunded)

\* PaymentRail::verify_webhook.
VerifyWebhook(p, rail, delivery, net, payload) ==
    CASE p = "adyen" -> Adyen!verify_webhook(rail, delivery, net, payload)
      [] p = "btcpay" -> Btcpay!verify_webhook(rail, delivery, net, payload)
      [] p = "checkoutcom" -> Checkoutcom!verify_webhook(rail, delivery, net, payload)
      [] p = "coinbasecommerce" -> Coinbasecommerce!verify_webhook(rail, delivery, net, payload)
      [] p = "flutterwave" -> Flutterwave!verify_webhook(rail, delivery, net, payload)
      [] p = "hyperswitch" -> Hyperswitch!verify_webhook(rail, delivery, net, payload)
      [] p = "iyzico" -> Iyzico!verify_webhook(rail, delivery, net, payload)
      [] p = "lnbits" -> Lnbits!verify_webhook(rail, delivery, net, payload)
      [] p = "mercadopago" -> Mercadopago!verify_webhook(rail, delivery, net, payload)
      [] p = "midtrans" -> Midtrans!verify_webhook(rail, delivery, net, payload)
      [] p = "mollie" -> Mollie!verify_webhook(rail, delivery, net, payload)
      [] p = "opennode" -> Opennode!verify_webhook(rail, delivery, net, payload)
      [] p = "payfast" -> Payfast!verify_webhook(rail, delivery, net, payload)
      [] p = "paypal" -> Paypal!verify_webhook(rail, delivery, net, payload)
      [] p = "paystack" -> Paystack!verify_webhook(rail, delivery, net, payload)
      [] p = "payu" -> Payu!verify_webhook(rail, delivery, net, payload)
      [] p = "razorpay" -> Razorpay!verify_webhook(rail, delivery, net, payload)
      [] p = "square" -> Square!verify_webhook(rail, delivery, net, payload)
      [] p = "stripe" -> Stripe!verify_webhook(rail, delivery, net, payload)
      [] p = "xendit" -> Xendit!verify_webhook(rail, delivery, net, payload)
      [] p = "yoco" -> Yoco!verify_webhook(rail, delivery, net, payload)

-----------------------------------------------------------------------------
(* The processors (external). *)

Phases(p) ==
    CASE p = "adyen" -> Adyen!Phases
      [] p = "btcpay" -> Btcpay!Phases
      [] p = "checkoutcom" -> Checkoutcom!Phases
      [] p = "coinbasecommerce" -> Coinbasecommerce!Phases
      [] p = "flutterwave" -> Flutterwave!Phases
      [] p = "hyperswitch" -> Hyperswitch!Phases
      [] p = "iyzico" -> Iyzico!Phases
      [] p = "lnbits" -> Lnbits!Phases
      [] p = "mercadopago" -> Mercadopago!Phases
      [] p = "midtrans" -> Midtrans!Phases
      [] p = "mollie" -> Mollie!Phases
      [] p = "opennode" -> Opennode!Phases
      [] p = "payfast" -> Payfast!Phases
      [] p = "paypal" -> Paypal!Phases
      [] p = "paystack" -> Paystack!Phases
      [] p = "payu" -> Payu!Phases
      [] p = "razorpay" -> Razorpay!Phases
      [] p = "square" -> Square!Phases
      [] p = "stripe" -> Stripe!Phases
      [] p = "xendit" -> Xendit!Phases
      [] p = "yoco" -> Yoco!Phases

Accepts(p) ==
    CASE p = "adyen" -> Adyen!Accepts
      [] p = "btcpay" -> Btcpay!Accepts
      [] p = "checkoutcom" -> Checkoutcom!Accepts
      [] p = "coinbasecommerce" -> Coinbasecommerce!Accepts
      [] p = "flutterwave" -> Flutterwave!Accepts
      [] p = "hyperswitch" -> Hyperswitch!Accepts
      [] p = "iyzico" -> Iyzico!Accepts
      [] p = "lnbits" -> Lnbits!Accepts
      [] p = "mercadopago" -> Mercadopago!Accepts
      [] p = "midtrans" -> Midtrans!Accepts
      [] p = "mollie" -> Mollie!Accepts
      [] p = "opennode" -> Opennode!Accepts
      [] p = "payfast" -> Payfast!Accepts
      [] p = "paypal" -> Paypal!Accepts
      [] p = "paystack" -> Paystack!Accepts
      [] p = "payu" -> Payu!Accepts
      [] p = "razorpay" -> Razorpay!Accepts
      [] p = "square" -> Square!Accepts
      [] p = "stripe" -> Stripe!Accepts
      [] p = "xendit" -> Xendit!Accepts
      [] p = "yoco" -> Yoco!Accepts

Worth(p, value, code) ==
    CASE p = "adyen" -> Adyen!Worth(value, code)
      [] p = "btcpay" -> Btcpay!Worth(value, code)
      [] p = "checkoutcom" -> Checkoutcom!Worth(value, code)
      [] p = "coinbasecommerce" -> Coinbasecommerce!Worth(value, code)
      [] p = "flutterwave" -> Flutterwave!Worth(value, code)
      [] p = "hyperswitch" -> Hyperswitch!Worth(value, code)
      [] p = "iyzico" -> Iyzico!Worth(value, code)
      [] p = "lnbits" -> Lnbits!Worth(value, code)
      [] p = "mercadopago" -> Mercadopago!Worth(value, code)
      [] p = "midtrans" -> Midtrans!Worth(value, code)
      [] p = "mollie" -> Mollie!Worth(value, code)
      [] p = "opennode" -> Opennode!Worth(value, code)
      [] p = "payfast" -> Payfast!Worth(value, code)
      [] p = "paypal" -> Paypal!Worth(value, code)
      [] p = "paystack" -> Paystack!Worth(value, code)
      [] p = "payu" -> Payu!Worth(value, code)
      [] p = "razorpay" -> Razorpay!Worth(value, code)
      [] p = "square" -> Square!Worth(value, code)
      [] p = "stripe" -> Stripe!Worth(value, code)
      [] p = "xendit" -> Xendit!Worth(value, code)
      [] p = "yoco" -> Yoco!Worth(value, code)

\* Where the adapter sends an ISO minor amount to a processor that takes whole units.
WholeUnits == {<<"paypal", "HUF">>, <<"stripe", "MGA">>}

\* How many times the order's amount a charge asks for.
Factor(p, code) == IF <<p, Upper(code)>> \in WholeUnits THEN 100 ELSE 1

Payload(p, s) ==
    CASE p = "adyen" -> Adyen!Payload(s)
      [] p = "btcpay" -> Btcpay!Payload(s)
      [] p = "checkoutcom" -> Checkoutcom!Payload(s)
      [] p = "coinbasecommerce" -> Coinbasecommerce!Payload(s)
      [] p = "flutterwave" -> Flutterwave!Payload(s)
      [] p = "hyperswitch" -> Hyperswitch!Payload(s)
      [] p = "iyzico" -> Iyzico!Payload(s)
      [] p = "lnbits" -> Lnbits!Payload(s)
      [] p = "mercadopago" -> Mercadopago!Payload(s)
      [] p = "midtrans" -> Midtrans!Payload(s)
      [] p = "mollie" -> Mollie!Payload(s)
      [] p = "opennode" -> Opennode!Payload(s)
      [] p = "payfast" -> Payfast!Payload(s)
      [] p = "paypal" -> Paypal!Payload(s)
      [] p = "paystack" -> Paystack!Payload(s)
      [] p = "payu" -> Payu!Payload(s)
      [] p = "razorpay" -> Razorpay!Payload(s)
      [] p = "square" -> Square!Payload(s)
      [] p = "stripe" -> Stripe!Payload(s)
      [] p = "xendit" -> Xendit!Payload(s)
      [] p = "yoco" -> Yoco!Payload(s)

Event(p, s, secret) ==
    CASE p = "adyen" -> Adyen!Event(s, secret)
      [] p = "btcpay" -> Btcpay!Event(s, secret)
      [] p = "checkoutcom" -> Checkoutcom!Event(s, secret)
      [] p = "coinbasecommerce" -> Coinbasecommerce!Event(s, secret)
      [] p = "flutterwave" -> Flutterwave!Event(s, secret)
      [] p = "hyperswitch" -> Hyperswitch!Event(s, secret)
      [] p = "iyzico" -> Iyzico!Event(s, secret)
      [] p = "lnbits" -> Lnbits!Event(s, secret)
      [] p = "mercadopago" -> Mercadopago!Event(s, secret)
      [] p = "midtrans" -> Midtrans!Event(s, secret)
      [] p = "mollie" -> Mollie!Event(s, secret)
      [] p = "opennode" -> Opennode!Event(s, secret)
      [] p = "payfast" -> Payfast!Event(s, secret)
      [] p = "paypal" -> Paypal!Event(s, secret)
      [] p = "paystack" -> Paystack!Event(s, secret)
      [] p = "payu" -> Payu!Event(s, secret)
      [] p = "razorpay" -> Razorpay!Event(s, secret)
      [] p = "square" -> Square!Event(s, secret)
      [] p = "stripe" -> Stripe!Event(s, secret)
      [] p = "xendit" -> Xendit!Event(s, secret)
      [] p = "yoco" -> Yoco!Event(s, secret)

SecretOf(p, rail) ==
    CASE p = "adyen" -> Adyen!Secret(rail)
      [] p = "btcpay" -> Btcpay!Secret(rail)
      [] p = "checkoutcom" -> Checkoutcom!Secret(rail)
      [] p = "coinbasecommerce" -> Coinbasecommerce!Secret(rail)
      [] p = "flutterwave" -> Flutterwave!Secret(rail)
      [] p = "hyperswitch" -> Hyperswitch!Secret(rail)
      [] p = "iyzico" -> Iyzico!Secret(rail)
      [] p = "lnbits" -> Lnbits!Secret(rail)
      [] p = "mercadopago" -> Mercadopago!Secret(rail)
      [] p = "midtrans" -> Midtrans!Secret(rail)
      [] p = "mollie" -> Mollie!Secret(rail)
      [] p = "opennode" -> Opennode!Secret(rail)
      [] p = "payfast" -> Payfast!Secret(rail)
      [] p = "paypal" -> Paypal!Secret(rail)
      [] p = "paystack" -> Paystack!Secret(rail)
      [] p = "payu" -> Payu!Secret(rail)
      [] p = "razorpay" -> Razorpay!Secret(rail)
      [] p = "square" -> Square!Secret(rail)
      [] p = "stripe" -> Stripe!Secret(rail)
      [] p = "xendit" -> Xendit!Secret(rail)
      [] p = "yoco" -> Yoco!Secret(rail)

Headers(p, secret, body, t) ==
    CASE p = "adyen" -> Adyen!Headers(secret, body, t)
      [] p = "btcpay" -> Btcpay!Headers(secret, body, t)
      [] p = "checkoutcom" -> Checkoutcom!Headers(secret, body, t)
      [] p = "coinbasecommerce" -> Coinbasecommerce!Headers(secret, body, t)
      [] p = "flutterwave" -> Flutterwave!Headers(secret, body, t)
      [] p = "hyperswitch" -> Hyperswitch!Headers(secret, body, t)
      [] p = "iyzico" -> Iyzico!Headers(secret, body, t)
      [] p = "lnbits" -> Lnbits!Headers(secret, body, t)
      [] p = "mercadopago" -> Mercadopago!Headers(secret, body, t)
      [] p = "midtrans" -> Midtrans!Headers(secret, body, t)
      [] p = "mollie" -> Mollie!Headers(secret, body, t)
      [] p = "opennode" -> Opennode!Headers(secret, body, t)
      [] p = "payfast" -> Payfast!Headers(secret, body, t)
      [] p = "paypal" -> Paypal!Headers(secret, body, t)
      [] p = "paystack" -> Paystack!Headers(secret, body, t)
      [] p = "payu" -> Payu!Headers(secret, body, t)
      [] p = "razorpay" -> Razorpay!Headers(secret, body, t)
      [] p = "square" -> Square!Headers(secret, body, t)
      [] p = "stripe" -> Stripe!Headers(secret, body, t)
      [] p = "xendit" -> Xendit!Headers(secret, body, t)
      [] p = "yoco" -> Yoco!Headers(secret, body, t)

RefundAnswer(p, s, done) ==
    CASE p = "adyen" -> Adyen!RefundAnswer(s, done)
      [] p = "checkoutcom" -> Checkoutcom!RefundAnswer(s, done)
      [] p = "hyperswitch" -> Hyperswitch!RefundAnswer(s, done)
      [] p = "mollie" -> Mollie!RefundAnswer(s, done)
      [] p = "paypal" -> Paypal!RefundAnswer(s, done)
      [] p = "paystack" -> Paystack!RefundAnswer(s, done)
      [] p = "square" -> Square!RefundAnswer(s, done)
      [] p = "stripe" -> Stripe!RefundAnswer(s, done)
=============================================================================
