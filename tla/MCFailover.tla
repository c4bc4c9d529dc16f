----------------------------- MODULE MCFailover -----------------------------
(***************************************************************************)
(* Three wrapped rails, two of one class around one of the other, so that  *)
(* the policy can order them to be blocked before, between and after the   *)
(* rails of the fixed class.                                               *)
(***************************************************************************)
EXTENDS Failover

MCRails == 0..2
MCClass == <<"NonCustodialFinal", "CustodialReversible", "NonCustodialFinal">>
MCRailClass == [i \in MCRails |-> MCClass[i + 1]]
MCId == [i \in MCRails |-> <<"solana", "hyperswitch", "stellar">>[i + 1]]
MCRequests == {"usdc", "usd", "malformed"}
MCWellFormed == {"usdc", "usd"}
\* The final rails settle USDC only, the custodial one takes both.
MCAccepts == [i \in MCRails |-> IF i = 1 THEN {"usdc", "usd"} ELSE {"usdc"}]

\* Every order of up to three candidates, index 3 being out of range.
MCOrders == UNION {[1..n -> 0..3] : n \in 0..3}

\* InOrderPolicy, the one policy that ships: construction order.
InOrderPolicy == {<<0, 1, 2>>}
=============================================================================
