--------------------------- MODULE MCStellarRail ----------------------------
(***************************************************************************)
(* Two charges of one order that differ in their amount, a charge of       *)
(* another order, splits of one leg and of two, and requests that are      *)
(* refused: a blank reference, a bad address, a leg of nothing, a sum that *)
(* is too large.                                                           *)
(***************************************************************************)
EXTENDS StellarRail

Pays(d, a) == [dest |-> d, amount |-> a]
MCJobs == {
    [kind |-> "charge", ref |-> "r1", legs |-> <<Pays("d1", 1)>>],
    [kind |-> "charge", ref |-> "r1", legs |-> <<Pays("d1", 2)>>],
    [kind |-> "charge", ref |-> "r2", legs |-> <<Pays("d1", 1)>>],
    [kind |-> "split", ref |-> "r1", legs |-> <<Pays("d1", 1)>>],
    [kind |-> "split", ref |-> "r2", legs |-> <<Pays("d1", 1), Pays("d2", 1)>>],
    [kind |-> "split", ref |-> "r2", legs |-> <<Pays("d1", 0)>>],
    [kind |-> "split", ref |-> "r2", legs |-> <<Pays("d1", 2), Pays("d2", 1)>>],
    [kind |-> "charge", ref |-> "", legs |-> <<Pays("d1", 1)>>],
    [kind |-> "charge", ref |-> "r1", legs |-> <<Pays("not a key", 1)>>]}

\* Another account's transactions: payments it bound to itself, one whose memo
\* names this rail's account, a memo of the other kind, one that failed.
Other(j, k, a, n, ok) ==
    [tx |-> [source |-> "other", legs |-> j.legs, seq |-> n,
             memo |-> Memo(k, a, j.ref, j.legs)],
     successful |-> ok]
ForR2 == [kind |-> "charge", ref |-> "r2", legs |-> <<Pays("d1", 1)>>]
MCForeign == {Other(ForR2, "charge", "other", 1, TRUE),
              Other(ForR2, "charge", "own", 2, TRUE),
              Other(ForR2, "split", "other", 2, TRUE),
              Other(ForR2, "charge", "other", 2, FALSE)}
=============================================================================
