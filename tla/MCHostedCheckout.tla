-------------------------- MODULE MCHostedCheckout --------------------------
(* Instances of HostedCheckout: the currencies in which a rail's conversions differ. *)
EXTENDS HostedCheckout

Req(ref, amount, code) ==
    [reference |-> ref, amount_minor |-> amount, currency |-> code, destination |-> "dest"]

One(amount, code) == {Req("a", amount, code)}

AllRails == Providers
MCIds == <<"s1", "s2", "s3">>

\* Two currencies apart for every rail; two orders at a time where a session is found by its
\* id, by the caller's reference, and where verify takes two requests.
MCOrders ==
    [p \in {"midtrans", "xendit"} |-> {One(1050, "IDR"), One(700, "usd")}]
    @@ [p \in {"payfast", "yoco"} |-> {One(1050, "zar"), One(700, "usd")}]
    @@ [p \in {"payu", "razorpay"} |-> {One(1050, "inr"), One(700, "usd")}]
    @@ [p \in {"mercadopago"} |-> {{Req("a", 1050, "BRL"), Req("b", 7, "CLP")}}]
    @@ [p \in {"stripe"} |-> {{Req("a", 105, "usd"), Req("b", 7, "JPY")}, One(3, "ISK"), One(5, "mga")}]
    @@ [p \in {"paypal"} |-> {{Req("a", 105, "usd"), Req("b", 7, "JPY")}, One(5, "huf")}]
    @@ [p \in {"checkoutcom"} |-> {One(105, "usd"), One(1000, "CLP"), One(1005, "KWD")}]
    @@ [p \in {"flutterwave", "paystack"} |-> {One(105, "ZAR"), One(7, "XOF")}]
    @@ [p \in {"adyen", "square", "lnbits"} |-> {One(105, "usd"), One(1005, "KWD")}]
    @@ [p \in AllRails |-> {One(105, "usd"), One(7, "JPY")}]

TwoOrders == [p \in {"mollie"} |-> {{Req("a", 105, "usd"), Req("b", 210, "USD")}}]
=============================================================================
