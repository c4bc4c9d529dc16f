---------------------------- MODULE MCManualRail ----------------------------
(***************************************************************************)
(* An order reference written with and without a trailing space; a         *)
(* currency written in two ways and one the table does not hold.           *)
(***************************************************************************)
EXTENDS ManualRail

MCReferences == {"a", "a_", ""}
MCTrim == [r \in MCReferences |-> IF r = "a_" THEN "a" ELSE r]
MCCurrencies == {"ZAR", "zar", "USD", "QQQ"}
MCNormalize == [c \in MCCurrencies |->
                   CASE c = "zar" -> "ZAR" [] c = "QQQ" -> Unknown [] OTHER -> c]
MCUpper == [c \in MCCurrencies |-> IF c = "zar" THEN "ZAR" ELSE c]
MCOperators == {"ann", "bob"}
=============================================================================
