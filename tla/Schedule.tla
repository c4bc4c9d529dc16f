------------------------------ MODULE Schedule ------------------------------
(***************************************************************************)
(* What a recurring plan promises, without saying how: a standing order of *)
(* Count instalments that are paid one after the other, each at most once, *)
(* no two of them closer than Step seconds or Gap ledgers.  Instalments    *)
(* may be forfeited (a payment that fails, another use of the account, a   *)
(* cancellation of all that are left); a forfeited one is never paid.      *)
(***************************************************************************)
EXTENDS Naturals

CONSTANTS Count, Step, Gap

VARIABLES
    done,       \* instalments 1..done are decided: paid or forfeited
    paid,       \* the instalments that were paid
    lastTime,   \* when the latest one was paid
    lastLedger, \* in which ledger
    now,        \* ledger time
    ledger      \* ledger number

vars == <<done, paid, lastTime, lastLedger, now, ledger>>

Init ==
    /\ done = 0 /\ paid = {}
    /\ lastTime \in Nat /\ lastLedger \in Nat
    /\ now \in Nat /\ ledger \in Nat

Pay ==
    /\ done < Count
    /\ paid # {} => now >= lastTime + Step /\ ledger >= lastLedger + Gap
    /\ done' = done + 1
    /\ paid' = paid \cup {done + 1}
    /\ lastTime' = now /\ lastLedger' = ledger
    /\ UNCHANGED <<now, ledger>>

Forfeit ==
    /\ done' \in (done + 1)..Count
    /\ UNCHANGED <<paid, lastTime, lastLedger, now, ledger>>

Pass ==
    /\ now' \in Nat /\ now' >= now
    /\ ledger' = ledger + 1
    /\ UNCHANGED <<done, paid, lastTime, lastLedger>>

Next == Pay \/ Forfeit \/ Pass

Spec == Init /\ [][Next]_vars
=============================================================================
