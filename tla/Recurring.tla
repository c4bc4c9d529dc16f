----------------------------- MODULE Recurring ------------------------------
(***************************************************************************)
(* RecurringPlan (patala-stellar/src/recurring.rs): Count pre-signed       *)
(* transactions on a source account, spaced by PreconditionsV2, and a      *)
(* BUMP_SEQUENCE transaction that cancels the ones left.                   *)
(*                                                                         *)
(* Three actors share the account: whoever holds the signed instalments    *)
(* submits them; the payer reads the account's sequence number, builds a   *)
(* cancellation from what it read and submits it later; and nothing stops  *)
(* another transaction (a StellarRail::charge, say) from using the account *)
(* although the plan's docs ask for a dedicated one.  The ledger applies   *)
(* what is valid when it arrives, by the rule recurring.rs implements in   *)
(* would_be_valid, and time passes.                                        *)
(*                                                                         *)
(* A transaction the network refuses changes nothing and is not a step.    *)
(***************************************************************************)
EXTENDS Integers, Sequences

CONSTANTS
    BaseSeq,    \* base_seq: the account's sequence when the plan was made
    Count,      \* how many instalments
    Step,       \* min_seq_age_step_seconds
    Gap,        \* min_seq_ledger_gap_step
    MaxSeq,     \* i64::MAX, the bound of a sequence number
    MaxNow      \* bound: ledger time

MaxInstalments == 3650

ASSUME PlanAssumption ==
    /\ BaseSeq \in Nat
    /\ Count \in 1..MaxInstalments     \* validate_shape
    /\ Step \in Nat /\ Gap \in Nat
    /\ MaxSeq \in Nat /\ BaseSeq <= MaxSeq
    /\ MaxNow \in Nat

VARIABLES
    seq, seqTime, seqLedger,    \* the account: seqNum, seqTime, seqLedger
    now, ledger,                \* the ledger that would close now
    signed,                     \* instalments built and signed
    payer,                      \* "content", "wants", "read", "built", "told"
    observed,                   \* the sequence the payer last read
    cancelSeq,                  \* seqNum of the cancellation it built
    cancelled,                  \* history: a cancellation was applied
    log,                        \* history: instalments applied, in order
    burnt                       \* history: instalments whose seqNum others took

account == <<seq, seqTime, seqLedger>>
clock == <<now, ledger>>
payerVars == <<payer, observed, cancelSeq>>
history == <<cancelled, log, burnt>>
vars == <<account, clock, signed, payerVars, history>>

Instalments == 1..Count
\* Mutant: the cancellation stops one short.
LastSeqShort == BaseSeq + Count - 1
LastSeq == BaseSeq + Count

Init ==
    /\ seq = BaseSeq /\ seqTime = 0 /\ seqLedger = 0
    /\ now = 0 /\ ledger = 0
    /\ signed = {}
    /\ payer = "content" /\ observed = BaseSeq /\ cancelSeq = 0
    /\ cancelled = FALSE /\ log = <<>> /\ burnt = {}

-----------------------------------------------------------------------------
\* build_instalment: index i takes sequence number BaseSeq + i; the first
\* waits for nothing, every later one the fixed floor.
Buildable(i) == i \in Instalments /\ BaseSeq + i <= MaxSeq
\* Mutant: the floor is put on the first instalment only.
MinSeqAgeFirstOnly(i) == IF i = 1 THEN Step ELSE 0
\* Mutant: no floor in ledgers.
MinSeqLedgerGapNone(i) == 0
MinSeqAge(i) == IF i = 1 THEN 0 ELSE Step
MinSeqLedgerGap(i) == IF i = 1 THEN 0 ELSE Gap

BuildInstalment(i) ==
    /\ Buildable(i)
    /\ i \notin signed
    /\ signed' = signed \cup {i}
    /\ UNCHANGED <<account, clock, payerVars, history>>

\* Mutant: counting from zero.
BuildAllFromZero ==
    /\ \A i \in Instalments : Buildable(i)
    /\ signed' = 0..Count
    /\ UNCHANGED <<account, clock, payerVars, history>>

\* build_all_instalments: every instalment, or an error and none.
BuildAllInstalments ==
    /\ \A i \in Instalments : Buildable(i)
    /\ signed # Instalments
    /\ signed' = Instalments
    /\ UNCHANGED <<account, clock, payerVars, history>>

\* Mutant: any lower sequence number will do, as with a min_seq_num.
WouldBeValidAbove(i) ==
    /\ seq < BaseSeq + i
    /\ now >= seqTime + MinSeqAge(i)
    /\ ledger >= seqLedger + MinSeqLedgerGap(i)

\* would_be_valid with min_seq_num = None, as build_instalment sets it.
WouldBeValid(i) ==
    /\ seq = BaseSeq + i - 1
    /\ now >= seqTime + MinSeqAge(i)
    /\ ledger >= seqLedger + MinSeqLedgerGap(i)

\* A transaction that is applied consumes its sequence number and stamps the
\* account, whether or not its operation succeeds.
Consume(s) ==
    /\ seq' = s
    /\ seqTime' = now
    /\ seqLedger' = ledger

SubmitInstalment(i) ==
    /\ i \in signed
    /\ WouldBeValid(i)
    /\ Consume(BaseSeq + i)
    /\ \E ok \in BOOLEAN :      \* FALSE: applied, but the payment failed
          log' = Append(log, [instalment |-> i, time |-> now,
                              ledger |-> ledger, paid |-> ok])
    /\ UNCHANGED <<clock, signed, payerVars, cancelled, burnt>>

\* Any other transaction of the account, at the next sequence number.
OtherTransaction ==
    /\ seq < MaxSeq
    /\ Consume(seq + 1)
    /\ burnt' = burnt \cup ({seq + 1 - BaseSeq} \cap Instalments)
    /\ UNCHANGED <<clock, signed, payerVars, cancelled, log>>

-----------------------------------------------------------------------------
\* The payer decides to stop.
WantCancel ==
    /\ payer = "content"
    /\ payer' = "wants"
    /\ UNCHANGED <<account, clock, signed, observed, cancelSeq, history>>

\* The caller must fetch the current sequence (docs of
\* build_cancel_transaction); StellarRpc::load_sequence.
ReadSequence ==
    /\ payer = "wants"
    /\ payer' = "read"
    /\ observed' = seq
    /\ UNCHANGED <<account, clock, signed, cancelSeq, history>>

\* build_cancel_transaction(current_seq = observed): refused on overflow.
BuildCancel ==
    /\ payer = "read"
    /\ LastSeq <= MaxSeq
    /\ observed + 1 <= MaxSeq
    /\ payer' = "built"
    /\ cancelSeq' = observed + 1
    /\ UNCHANGED <<account, clock, signed, observed, history>>

\* Mutant: no bump.
FirstOf(a, b) == a

\* BUMP_SEQUENCE raises the account's sequence, and never lowers it.
Max(a, b) == IF a >= b THEN a ELSE b

\* An ordinary transaction: valid only right after the sequence it was built on.
SubmitCancel ==
    /\ payer = "built"
    /\ seq = cancelSeq - 1
    /\ Consume(Max(cancelSeq, LastSeq))
    /\ cancelled' = TRUE
    /\ payer' \in {"told", "wants"}     \* "wants": the answer was lost
    /\ UNCHANGED <<clock, signed, observed, cancelSeq, log, burnt>>

\* Mutant: the cancellation is built again on the number read before.
CancelRefusedNoReread ==
    /\ payer = "built"
    /\ seq # cancelSeq - 1
    /\ payer' = "read"
    /\ UNCHANGED <<account, clock, signed, observed, cancelSeq, history>>

\* tx_bad_seq: the account moved since it was read, so read it again.
CancelRefused ==
    /\ payer = "built"
    /\ seq # cancelSeq - 1
    /\ payer' = "wants"
    /\ UNCHANGED <<account, clock, signed, observed, cancelSeq, history>>

LedgerCloses ==
    /\ now < MaxNow
    /\ now' \in (now + 1)..MaxNow
    /\ ledger' = ledger + 1
    /\ UNCHANGED <<account, signed, payerVars, history>>

-----------------------------------------------------------------------------
Payer == ReadSequence \/ BuildCancel \/ SubmitCancel \/ CancelRefused

Next ==
    \/ \E i \in Instalments : BuildInstalment(i) \/ SubmitInstalment(i)
    \/ BuildAllInstalments
    \/ OtherTransaction
    \/ WantCancel
    \/ Payer
    \/ LedgerCloses

Spec == Init /\ [][Next]_vars

\* A payer that wants out keeps trying: it reads, builds and submits again
\* until the network accepts.  Nobody else is obliged to do anything.
FairSpec == Spec /\ WF_vars(Payer)

-----------------------------------------------------------------------------
Entry == [instalment : Instalments, time : Nat, ledger : Nat, paid : BOOLEAN]

TypeOK ==
    /\ seq \in Nat /\ seqTime \in Nat /\ seqLedger \in Nat
    /\ now \in Nat /\ ledger \in Nat
    /\ signed \subseteq Instalments
    /\ payer \in {"content", "wants", "read", "built", "told"}
    /\ observed \in Nat /\ cancelSeq \in Nat
    /\ cancelled \in BOOLEAN
    /\ log \in Seq(Entry)
    /\ burnt \subseteq Instalments

\* "A strict, in-order chain, no skipping, no reordering": instalments are
\* applied in the order of their index, hence each at most once, and a
\* sequence number the account has passed belongs to an instalment that was
\* applied or to another transaction -- or a cancellation took all of them.
InOrder ==
    /\ \A a, b \in 1..Len(log) :
          a < b => log[a].instalment < log[b].instalment
    /\ \A i \in Instalments :
          BaseSeq + i <= seq =>
              \/ i \in burnt
              \/ \E a \in 1..Len(log) : log[a].instalment = i
              \/ cancelled

\* "N pre-signed transactions cannot all be redeemed back to back": any two
\* instalments are applied at least Step seconds and Gap ledgers apart, also
\* when other transactions use the account in between.
Spaced ==
    \A a, b \in 1..Len(log) :
        a < b => /\ log[b].time >= log[a].time + Step
                 /\ log[b].ledger >= log[a].ledger + Gap

\* "Every not-yet-executed instalment becomes permanently unsatisfiable in a
\* single on-chain step": once a cancellation was applied -- however stale
\* the read it was built on, whoever holds signed instalments -- no
\* instalment is ever applied again.
NothingAfterCancel == [][cancelled => log' = log]_vars

\* A payer who was told the plan is cancelled can rely on it: nothing signed
\* is, or will become, valid.
ToldIsSafe ==
    payer = "told" => \A i \in Instalments : seq >= BaseSeq + i

\* Cancelling works in the end: every try that fails does so because the
\* account moved on, and it can do that only so often.
CancelTakesHold == payer = "wants" ~> seq >= LastSeq

-----------------------------------------------------------------------------
(***************************************************************************)
(* A plan is a standing order.                                             *)
(***************************************************************************)
Decided == IF seq >= LastSeq THEN Count ELSE seq - BaseSeq
PaidEntries == {a \in 1..Len(log) : log[a].paid}
Paid == {log[a].instalment : a \in PaidEntries}
LastPaid == CHOOSE a \in PaidEntries : \A b \in PaidEntries : b <= a
LastTime == IF PaidEntries = {} THEN 0 ELSE log[LastPaid].time
LastLedger == IF PaidEntries = {} THEN 0 ELSE log[LastPaid].ledger

StandingOrder ==
    INSTANCE Schedule WITH
        done <- Decided,
        paid <- Paid,
        lastTime <- LastTime,
        lastLedger <- LastLedger

ImplementsStandingOrder == StandingOrder!Spec
=============================================================================
