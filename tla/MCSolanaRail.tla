---------------------------- MODULE MCSolanaRail ----------------------------
(* An instance of SolanaRail: two orders, one payer, and what others put on chain. *)
EXTENDS SolanaRail, TLC

Req(ref, amount, dest) ==
    [reference |-> ref, amount_minor |-> amount, currency |-> "USDC", destination |-> dest]

\* Two orders, and three requests that charge must turn away before it signs anything.
MCRequests == {Req("a", 1, "shop"), Req("b", 2, "shop"), Req("c", 0, "shop"), Req("c", 1, "bad"),
               [Req("c", 1, "shop") EXCEPT !.currency = "EUR"]}

\* Somebody else's transfer, which the payer signed too and whose memo is the payer's; a
\* transfer the payer split between two owners; one of another mint, one without this rail's
\* memo, and one made for two orders past a bystander whose balance stays.
MCForeign ==
    {[serialize_message("other", "usdc", "shop", 1, binding_memo("payer", "a"), 0)
        EXCEPT !.signers = {"other", "payer"}],
     [serialize_message("payer", "usdc", "shop", 1, binding_memo("payer", "b"), 0)
        EXCEPT !.moves = ("payer" :> -2) @@ ("shop" :> 1) @@ ("other" :> 1)],
     serialize_message("payer", "fake", "shop", 1, binding_memo("payer", "a"), 0),
     serialize_message("payer", "usdc", "shop", 2, <<"coffee", binding_reference("payer", "a")>>, 0),
     [serialize_message("payer", "usdc", "shop", 1, binding_memo("payer", "a"), 0)
        EXCEPT !.memos = {binding_memo("payer", "a"), binding_memo("payer", "b")},
               !.moves = @ @@ ("other" :> 0)]}
=============================================================================
