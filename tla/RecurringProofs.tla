-------------------------- MODULE RecurringProofs ---------------------------
(***************************************************************************)
(* Proofs about Recurring, for every plan, every interleaving of the three *)
(* users of the account and every passage of time.                         *)
(*                                                                         *)
(* The argument: the account's sequence number never goes down, an applied *)
(* instalment leaves it at the instalment's own number or above, and the   *)
(* account's stamps are never older than any instalment in the log.  So a  *)
(* valid instalment has a higher number than every one in the log and is   *)
(* applied at least a floor after them; and once a cancellation lifted the *)
(* number to LastSeq, no instalment's number is above it.                  *)
(***************************************************************************)
EXTENDS Recurring, TLAPS

Stamps ==
    /\ seq >= BaseSeq
    /\ seqTime <= now
    /\ seqLedger <= ledger

LogIsPast ==
    \A a \in 1..Len(log) :
        /\ BaseSeq + log[a].instalment <= seq
        /\ log[a].time <= seqTime
        /\ log[a].ledger <= seqLedger

CancelLifts ==
    /\ cancelled => seq >= LastSeq
    /\ payer = "told" => cancelled

IInv == TypeOK /\ Stamps /\ LogIsPast /\ CancelLifts /\ InOrder /\ Spaced

LEMMA InitIInv == Init => IInv
<1> SUFFICES ASSUME Init PROVE IInv
  OBVIOUS
<1> USE PlanAssumption DEF Init
<1>1. TypeOK /\ Len(log) = 0
  <2>1. log \in Seq(Entry) /\ Len(log) = 0
    OBVIOUS
  <2>2. signed \subseteq Instalments /\ burnt \subseteq Instalments
    OBVIOUS
  <2> QED BY <2>1, <2>2 DEF TypeOK
<1>2. Stamps /\ CancelLifts /\ LogIsPast /\ Spaced
  BY <1>1 DEF Stamps, CancelLifts, LogIsPast, Spaced
<1>3. InOrder
  BY <1>1 DEF InOrder, Instalments
<1> QED BY <1>1, <1>2, <1>3 DEF IInv

\* The fields of a log entry.
LEMMA EntryTypes ==
    ASSUME TypeOK, NEW a \in 1..Len(log)
    PROVE  /\ log[a].instalment \in Nat /\ log[a].instalment >= 1
           /\ log[a].time \in Nat /\ log[a].ledger \in Nat
           /\ log[a].paid \in BOOLEAN
<1>1. log[a] \in Entry
  BY DEF TypeOK
<1> QED BY <1>1, PlanAssumption DEF Entry, Instalments

\* The log after an instalment was applied, entry by entry.
LEMMA LogAppend ==
    ASSUME TypeOK, NEW e \in Entry, log' = Append(log, e)
    PROVE  /\ log' \in Seq(Entry)
           /\ Len(log') = Len(log) + 1 /\ Len(log) \in Nat
           /\ \A a \in 1..Len(log) : log'[a] = log[a]
           /\ log'[Len(log) + 1] = e
  BY DEF TypeOK

\* What is a floor after the account's stamp is one after anything older.
LEMMA FloorIsKept ==
    ASSUME NEW old \in Nat, NEW stamp \in Nat, NEW t \in Nat, NEW f \in Nat,
           old <= stamp, t >= stamp + f
    PROVE  t >= old + f
OBVIOUS

\* What is past stays past, since the account's number and stamps only grow.
LEMMA LogStaysPast ==
    ASSUME TypeOK, TypeOK', LogIsPast, NEW a \in 1..Len(log),
           seq' >= seq, seqTime' >= seqTime, seqLedger' >= seqLedger
    PROVE  /\ BaseSeq + log[a].instalment <= seq'
           /\ log[a].time <= seqTime'
           /\ log[a].ledger <= seqLedger'
<1>1. /\ log[a].instalment \in Nat /\ log[a].time \in Nat
      /\ log[a].ledger \in Nat
  BY EntryTypes
<1>2. /\ BaseSeq + log[a].instalment <= seq
      /\ log[a].time <= seqTime /\ log[a].ledger <= seqLedger
  BY DEF LogIsPast
<1>3. /\ BaseSeq \in Nat /\ seq \in Nat /\ seqTime \in Nat /\ seqLedger \in Nat
      /\ seq' \in Nat /\ seqTime' \in Nat /\ seqLedger' \in Nat
  BY PlanAssumption DEF TypeOK
<1> QED BY <1>1, <1>2, <1>3

\* Steps that leave the log and what was cancelled alone, and do not lower
\* the account's number or stamps.
LEMMA QuietStep ==
    ASSUME IInv, TypeOK', Stamps', CancelLifts',
           UNCHANGED log, cancelled => cancelled',
           seq' >= seq, seqTime' >= seqTime, seqLedger' >= seqLedger,
           burnt \subseteq burnt',
           \A i \in Instalments :
               BaseSeq + i > seq /\ BaseSeq + i <= seq' =>
                   i \in burnt' \/ cancelled'
    PROVE  IInv'
<1> USE PlanAssumption DEF IInv, TypeOK
<1>1. LogIsPast'
  <2> SUFFICES ASSUME NEW a \in 1..Len(log)
               PROVE  /\ BaseSeq + log[a].instalment <= seq'
                      /\ log[a].time <= seqTime'
                      /\ log[a].ledger <= seqLedger'
    BY DEF LogIsPast
  <2> QED BY LogStaysPast
<1>2. Spaced'
  BY DEF Spaced
<1>3. InOrder'
  BY DEF InOrder, Instalments
<1> QED BY <1>1, <1>2, <1>3

LEMMA NextIInv == ASSUME IInv, Next PROVE IInv'
<1> USE PlanAssumption DEF IInv
<1>1. ASSUME UNCHANGED <<account, history>>, TypeOK',
             now' >= now, ledger' >= ledger, payer' = "told" => payer = "told"
      PROVE  IInv'
  <2>1. Stamps' /\ CancelLifts'
    BY <1>1 DEF account, history, Stamps, CancelLifts, TypeOK
  <2>2. /\ UNCHANGED <<log, cancelled, burnt, seq, seqTime, seqLedger>>
        /\ seq' >= seq /\ seqTime' >= seqTime /\ seqLedger' >= seqLedger
        /\ \A i \in Instalments : ~(BaseSeq + i > seq /\ BaseSeq + i <= seq')
    BY <1>1 DEF account, history, TypeOK, Instalments
  <2> QED BY <1>1, <2>1, <2>2, QuietStep
<1>2. ASSUME NEW i \in Instalments, BuildInstalment(i) \/ BuildAllInstalments
      PROVE  IInv'
  <2>1. TypeOK'
    BY <1>2 DEF BuildInstalment, BuildAllInstalments, TypeOK, account, clock,
                payerVars, history
  <2> QED BY <1>1, <1>2, <2>1 DEF BuildInstalment, BuildAllInstalments, TypeOK,
             clock, payerVars
<1>3. ASSUME NEW i \in Instalments, SubmitInstalment(i) PROVE IInv'
  <2> USE <1>3
  <2>1. PICK ok \in BOOLEAN :
           log' = Append(log, [instalment |-> i, time |-> now,
                               ledger |-> ledger, paid |-> ok])
    BY DEF SubmitInstalment
  <2> DEFINE e == [instalment |-> i, time |-> now, ledger |-> ledger, paid |-> ok]
  <2>2. e \in Entry /\ e.instalment = i /\ e.time = now /\ e.ledger = ledger
    BY DEF Entry, TypeOK
  <2>3. /\ log' \in Seq(Entry)
        /\ Len(log') = Len(log) + 1 /\ Len(log) \in Nat
        /\ \A a \in 1..Len(log) : log'[a] = log[a]
        /\ log'[Len(log) + 1] = e
    BY <2>1, <2>2, LogAppend
  <2> HIDE DEF e
  <2>4. /\ seq = BaseSeq + i - 1 /\ seq' = BaseSeq + i
        /\ seqTime' = now /\ seqLedger' = ledger
        /\ UNCHANGED <<now, ledger, signed, payer, observed, cancelSeq,
                       cancelled, burnt>>
        /\ now >= seqTime + MinSeqAge(i)
        /\ ledger >= seqLedger + MinSeqLedgerGap(i)
    BY DEF SubmitInstalment, WouldBeValid, Consume, clock, payerVars
  <2>5. TypeOK'
    BY <2>3, <2>4 DEF TypeOK, Instalments
  <2>6. Stamps' /\ CancelLifts'
    BY <2>4 DEF Stamps, CancelLifts, TypeOK, LastSeq, Instalments
  <2>7. \A a \in 1..Len(log) :
           /\ log[a].instalment \in Nat /\ log[a].instalment >= 1
           /\ log[a].time \in Nat /\ log[a].ledger \in Nat
           /\ BaseSeq + log[a].instalment <= seq
           /\ log[a].time <= seqTime /\ log[a].ledger <= seqLedger
    BY EntryTypes DEF LogIsPast
  <2>8. LogIsPast'
    <3> SUFFICES ASSUME NEW a \in 1..Len(log')
                 PROVE  /\ BaseSeq + log'[a].instalment <= seq'
                        /\ log'[a].time <= seqTime'
                        /\ log'[a].ledger <= seqLedger'
      BY DEF LogIsPast
    <3>1. CASE a = Len(log) + 1
      BY <3>1, <2>2, <2>3, <2>4 DEF TypeOK, Instalments
    <3>2. CASE a \in 1..Len(log)
      <4>1. log'[a] = log[a]
        BY <3>2, <2>3
      <4>2. seq' >= seq /\ seqTime' >= seqTime /\ seqLedger' >= seqLedger
        BY <2>4 DEF Stamps, TypeOK, Instalments
      <4>3. /\ BaseSeq + log[a].instalment <= seq'
            /\ log[a].time <= seqTime' /\ log[a].ledger <= seqLedger'
        BY <3>2, <4>2, <2>5, LogStaysPast
      <4> QED BY <4>1, <4>3
    <3> QED BY <3>1, <3>2, <2>3
  <2>9. InOrder'
    <3>1. \A a, b \in 1..Len(log') :
             a < b => log'[a].instalment < log'[b].instalment
      <4> SUFFICES ASSUME NEW a \in 1..Len(log'), NEW b \in 1..Len(log'), a < b
                   PROVE  log'[a].instalment < log'[b].instalment
        OBVIOUS
      <4>1. a \in 1..Len(log) /\ log'[a] = log[a]
        BY <2>3
      <4>2. CASE b = Len(log) + 1
        BY <4>1, <4>2, <2>2, <2>3, <2>4, <2>7 DEF Instalments
      <4>3. CASE b \in 1..Len(log)
        BY <4>1, <4>3, <2>3 DEF InOrder
      <4> QED BY <4>2, <4>3, <2>3
    <3>2. \A j \in Instalments :
             BaseSeq + j <= seq' =>
                 \/ j \in burnt'
                 \/ \E a \in 1..Len(log') : log'[a].instalment = j
                 \/ cancelled'
      <4> SUFFICES ASSUME NEW j \in Instalments, BaseSeq + j <= seq'
                   PROVE  \/ j \in burnt'
                          \/ \E a \in 1..Len(log') : log'[a].instalment = j
                          \/ cancelled'
        OBVIOUS
      <4>1. CASE j = i
        BY <4>1, <2>2, <2>3
      <4>2. CASE j # i
        <5>1. BaseSeq + j <= seq
          BY <4>2, <2>4 DEF Instalments
        <5> QED BY <5>1, <2>3, <2>4 DEF InOrder
      <4> QED BY <4>1, <4>2
    <3> QED BY <3>1, <3>2 DEF InOrder
  <2>10. Spaced'
    <3>1. SUFFICES ASSUME NEW a \in 1..Len(log)
                   PROVE  /\ now >= log[a].time + Step
                          /\ ledger >= log[a].ledger + Gap
      BY <2>2, <2>3 DEF Spaced
    <3>2. /\ log[a].instalment \in Nat /\ log[a].instalment >= 1
          /\ log[a].time \in Nat /\ log[a].ledger \in Nat
          /\ BaseSeq + log[a].instalment <= seq
          /\ log[a].time <= seqTime /\ log[a].ledger <= seqLedger
      BY <2>7
    <3>3. /\ now \in Nat /\ ledger \in Nat /\ seqTime \in Nat /\ seqLedger \in Nat
          /\ Step \in Nat /\ Gap \in Nat /\ BaseSeq \in Nat /\ i \in Nat
      BY DEF TypeOK, Instalments
    <3>4. i # 1
      BY <3>2, <3>3, <2>4
    <3>5. now >= seqTime + Step /\ ledger >= seqLedger + Gap
      BY <3>4, <2>4 DEF MinSeqAge, MinSeqLedgerGap
    <3>6. now >= log[a].time + Step
      BY <3>2, <3>3, <3>5, FloorIsKept
    <3>7. ledger >= log[a].ledger + Gap
      BY <3>2, <3>3, <3>5, FloorIsKept
    <3> QED BY <3>6, <3>7
  <2> QED BY <2>5, <2>6, <2>8, <2>9, <2>10
<1>4. CASE OtherTransaction
  <2> USE <1>4 DEF OtherTransaction, Consume, clock, payerVars
  <2>1. TypeOK' /\ Stamps' /\ CancelLifts'
    BY DEF TypeOK, Stamps, CancelLifts, LastSeq
  <2>2. ASSUME NEW i \in Instalments, BaseSeq + i > seq, BaseSeq + i <= seq'
        PROVE  i \in burnt'
    <3>1. i = seq + 1 - BaseSeq
      BY <2>2 DEF TypeOK, Instalments
    <3> QED BY <3>1, <2>2
  <2> QED BY <2>1, <2>2, QuietStep DEF TypeOK, Stamps
<1>5. CASE WantCancel \/ ReadSequence \/ BuildCancel \/ CancelRefused
  <2>1. TypeOK'
    BY <1>5 DEF WantCancel, ReadSequence, BuildCancel, CancelRefused, TypeOK,
                account, clock, history
  <2> QED BY <1>1, <1>5, <2>1 DEF WantCancel, ReadSequence, BuildCancel,
             CancelRefused, TypeOK, clock
<1>6. CASE SubmitCancel
  <2> USE <1>6 DEF SubmitCancel, Consume, clock, Max, LastSeq
  <2>1. seq' >= seq /\ seq' >= LastSeq /\ seq' \in Nat
    BY DEF TypeOK
  <2>2. TypeOK' /\ Stamps' /\ CancelLifts'
    BY <2>1 DEF TypeOK, Stamps, CancelLifts
  <2> QED BY <2>1, <2>2, QuietStep DEF TypeOK, Stamps
<1>7. CASE LedgerCloses
  <2>1. TypeOK' /\ now' >= now /\ ledger' >= ledger
    BY <1>7 DEF LedgerCloses, TypeOK, account, payerVars, history
  <2> QED BY <1>1, <1>7, <2>1 DEF LedgerCloses, payerVars
<1> QED
  <2>1. 1 \in Instalments
    BY DEF Instalments
  <2> QED BY <1>2, <1>3, <1>4, <1>5, <1>6, <1>7, <2>1 DEF Next, Payer

LEMMA Inductive == Spec => []IInv
<1>1. IInv /\ UNCHANGED vars => IInv'
  BY DEF IInv, vars, account, clock, payerVars, history, TypeOK, Stamps,
         LogIsPast, CancelLifts, InOrder, Spaced
<1> QED BY InitIInv, NextIInv, <1>1, PTL DEF Spec

-----------------------------------------------------------------------------
\* The state of a plan and of its account stays well typed: no sequence
\* number, stamp or log entry leaves its range.
THEOREM TypeCorrect == Spec => []TypeOK
  BY Inductive, PTL DEF IInv

\* Instalments are applied in order, each at most once, and none is passed
\* over except by another use of the account or by a cancellation.
THEOREM InstalmentsInOrder == Spec => []InOrder
  BY Inductive, PTL DEF IInv

\* The pacing floor holds between any two instalments, on a dedicated
\* account and on a shared one.
THEOREM InstalmentsSpaced == Spec => []Spaced
  BY Inductive, PTL DEF IInv

\* A payer told of the cancellation holds no signed instalment that can
\* still become valid.
THEOREM ToldPayerIsSafe == Spec => []ToldIsSafe
<1>1. IInv => ToldIsSafe
  BY PlanAssumption DEF IInv, CancelLifts, ToldIsSafe, LastSeq, Instalments, TypeOK
<1> QED BY <1>1, Inductive, PTL

\* After a cancellation was applied no instalment is applied.
THEOREM CancelIsFinal == Spec => NothingAfterCancel
<1>1. IInv /\ [Next]_vars => [cancelled => log' = log]_vars
  <2> SUFFICES ASSUME IInv, [Next]_vars, cancelled PROVE log' = log
    OBVIOUS
  <2>1. ASSUME NEW i \in Instalments PROVE ~SubmitInstalment(i)
    <3>1. seq >= BaseSeq + Count /\ seq \in Nat
      BY DEF IInv, CancelLifts, LastSeq, TypeOK
    <3>2. i \in Int /\ i <= Count /\ BaseSeq \in Nat /\ Count \in Int
      BY <2>1, PlanAssumption DEF Instalments
    <3>3. seq # BaseSeq + i - 1
      BY ONLY <3>1, <3>2
    <3> QED BY <3>3 DEF SubmitInstalment, WouldBeValid
  <2> QED BY <2>1 DEF Next, Payer, vars, history, BuildInstalment,
             BuildAllInstalments, OtherTransaction, WantCancel, ReadSequence,
             BuildCancel, CancelRefused, SubmitCancel, LedgerCloses
<1> QED BY <1>1, Inductive, PTL DEF Spec, NothingAfterCancel

-----------------------------------------------------------------------------
(***************************************************************************)
(* A plan implements a standing order: every step of the plan maps to Pay, *)
(* Forfeit or Pass of Schedule, or changes nothing that Schedule sees.     *)
(*                                                                         *)
(* The mapping names the latest paid entry with a CHOOSE, so the proof     *)
(* carries the fact that there is one.                                     *)
(***************************************************************************)
LatestExists ==
    PaidEntries # {} => \E a \in PaidEntries : \A b \in PaidEntries : b <= a

\* What the CHOOSE of the mapping returns.
LEMMA LastPaidIsLatest ==
    ASSUME LatestExists, PaidEntries # {}
    PROVE  LastPaid \in PaidEntries /\ \A b \in PaidEntries : b <= LastPaid
  BY DEF LatestExists, LastPaid

\* The mapped state is a function of the log, the number and the clock.
LEMMA SameLog ==
    ASSUME log' = log, LatestExists
    PROVE  LatestExists' /\ UNCHANGED <<Paid, LastTime, LastLedger>>
<1>1. PaidEntries' = PaidEntries
  BY DEF PaidEntries
<1>2. Paid' = Paid /\ LastPaid' = LastPaid /\ LatestExists'
  BY <1>1 DEF Paid, LastPaid, LatestExists
<1> QED BY <1>1, <1>2 DEF LastTime, LastLedger

\* An instalment that was applied but whose payment failed leaves the paid
\* ones, and the latest of them, as they were.
LEMMA FailedEntry ==
    ASSUME TypeOK, LatestExists, NEW e \in Entry, log' = Append(log, e), ~e.paid
    PROVE  LatestExists' /\ UNCHANGED <<Paid, LastTime, LastLedger>>
<1>1. /\ Len(log') = Len(log) + 1 /\ Len(log) \in Nat
      /\ \A a \in 1..Len(log) : log'[a] = log[a]
      /\ log'[Len(log) + 1] = e
  BY LogAppend
<1>2. PaidEntries' = PaidEntries
  <2>1. \A a \in 1..Len(log') : a \in 1..Len(log) \/ a = Len(log) + 1
    BY <1>1
  <2>2. \A a \in 1..Len(log) : a \in 1..Len(log')
    BY <1>1
  <2> QED BY <1>1, <2>1, <2>2 DEF PaidEntries
<1>3. \A a \in PaidEntries : log'[a] = log[a]
  BY <1>1 DEF PaidEntries
<1>4. Paid' = Paid /\ LastPaid' = LastPaid /\ LatestExists'
  BY <1>2, <1>3 DEF Paid, LastPaid, LatestExists
<1>5. PaidEntries # {} => log'[LastPaid] = log[LastPaid]
  BY <1>3, LastPaidIsLatest
<1> QED BY <1>2, <1>4, <1>5 DEF LastTime, LastLedger

\* An instalment that was paid becomes the latest paid one.
LEMMA PaidEntry ==
    ASSUME TypeOK, NEW e \in Entry, log' = Append(log, e), e.paid
    PROVE  /\ LatestExists'
           /\ Paid' = Paid \cup {e.instalment}
           /\ LastTime' = e.time /\ LastLedger' = e.ledger
<1>0. PICK n \in Nat : n = Len(log) + 1
  BY DEF TypeOK
<1>1. /\ Len(log') = n /\ Len(log) \in Nat
      /\ \A a \in 1..Len(log) : log'[a] = log[a]
      /\ log'[n] = e
  BY <1>0, LogAppend
<1>2. PaidEntries' = PaidEntries \cup {n}
  <2>1. \A a \in 1..Len(log') : a \in 1..Len(log) \/ a = n
    BY <1>0, <1>1
  <2>2. n \in 1..Len(log') /\ \A a \in 1..Len(log) : a \in 1..Len(log')
    BY <1>0, <1>1
  <2> QED BY <1>1, <2>1, <2>2 DEF PaidEntries
<1>3. \A a \in PaidEntries' : a <= n /\ a \in Int
  BY <1>1 DEF PaidEntries
<1>4. \A a \in PaidEntries : log'[a] = log[a]
  BY <1>1 DEF PaidEntries
<1>5. LatestExists'
  BY <1>2, <1>3 DEF LatestExists
<1>6. LastPaid' = n
  <2>1. /\ LastPaid' \in PaidEntries'
        /\ \A b \in PaidEntries' : b <= LastPaid'
    BY <1>2, <1>5 DEF LatestExists, LastPaid
  <2>2. LastPaid' <= n /\ n <= LastPaid' /\ LastPaid' \in Int
    BY <2>1, <1>2, <1>3
  <2> QED BY <2>2
<1>7. Paid' = Paid \cup {e.instalment}
  <2>1. Paid' = {log'[a].instalment : a \in PaidEntries \cup {n}}
    BY <1>2 DEF Paid
  <2>2. {log'[a].instalment : a \in PaidEntries \cup {n}}
           = {log'[a].instalment : a \in PaidEntries} \cup {log'[n].instalment}
    OBVIOUS
  <2>3. {log'[a].instalment : a \in PaidEntries} = Paid
    BY <1>4 DEF Paid
  <2> QED BY <2>1, <2>2, <2>3, <1>1
<1> QED BY <1>1, <1>2, <1>5, <1>6, <1>7 DEF LastTime, LastLedger

\* Of c instalments from b on, an account at s has decided at most as many
\* as one at a later t, and never more than there are.
LEMMA Progress ==
    ASSUME NEW b \in Nat, NEW c \in Nat, NEW s \in Nat, NEW t \in Nat,
           s >= b, t >= s
    PROVE  /\ (IF s >= b + c THEN c ELSE s - b) \in 0..c
           /\ (IF t >= b + c THEN c ELSE t - b) \in 0..c
           /\ (IF s >= b + c THEN c ELSE s - b)
                 <= (IF t >= b + c THEN c ELSE t - b)
OBVIOUS

\* A plan starts as a standing order of which nothing is decided.
LEMMA RefinesInit ==
    Init => StandingOrder!Init /\ LatestExists
<1> SUFFICES ASSUME Init PROVE StandingOrder!Init /\ LatestExists
  OBVIOUS
<1>1. PaidEntries = {}
  BY DEF Init, PaidEntries
<1>2. Paid = {} /\ LastTime = 0 /\ LastLedger = 0 /\ LatestExists
  BY <1>1 DEF Paid, LastTime, LastLedger, LatestExists
<1>3. Decided = 0
  BY PlanAssumption DEF Init, Decided, LastSeq
<1> QED BY <1>2, <1>3 DEF Init, StandingOrder!Init

\* A step of the plan is a step of the standing order, or none.
LEMMA RefinesStep ==
    ASSUME IInv, IInv', LatestExists, Next
    PROVE  LatestExists' /\ [StandingOrder!Next]_StandingOrder!vars
<1> USE PlanAssumption
<1>0. /\ TypeOK /\ Stamps /\ TypeOK' /\ Stamps'
  BY DEF IInv
\* Steps that apply no instalment: what they decide is forfeited.
<1>1. ASSUME UNCHANGED <<log, now, ledger>>, seq' >= seq
      PROVE  LatestExists' /\ [StandingOrder!Next]_StandingOrder!vars
  <2>1. LatestExists' /\ UNCHANGED <<Paid, LastTime, LastLedger>>
    BY <1>1, SameLog
  <2>2. /\ Decided \in 0..Count /\ Decided' \in 0..Count
        /\ Decided <= Decided'
    <3>1. /\ Count \in Nat /\ BaseSeq \in Nat /\ seq \in Nat /\ seq' \in Nat
          /\ seq >= BaseSeq /\ seq' >= seq
      BY <1>0, <1>1 DEF TypeOK, Stamps
    <3> QED BY <3>1, Progress DEF Decided, LastSeq
  <2>3. CASE Decided' = Decided
    BY <1>1, <2>1, <2>3 DEF StandingOrder!vars
  <2>4. CASE Decided' # Decided
    <3>1. Decided' \in (Decided + 1)..Count
      BY <2>2, <2>4
    <3>2. StandingOrder!Forfeit
      BY <1>1, <2>1, <3>1 DEF StandingOrder!Forfeit
    <3> QED BY <2>1, <3>2 DEF StandingOrder!Next
  <2> QED BY <2>3, <2>4
<1>2. ASSUME NEW i \in Instalments, SubmitInstalment(i)
      PROVE  LatestExists' /\ [StandingOrder!Next]_StandingOrder!vars
  <2>1. PICK ok \in BOOLEAN :
           log' = Append(log, [instalment |-> i, time |-> now,
                               ledger |-> ledger, paid |-> ok])
    BY <1>2 DEF SubmitInstalment
  <2> DEFINE e == [instalment |-> i, time |-> now, ledger |-> ledger, paid |-> ok]
  <2>2. /\ e \in Entry /\ log' = Append(log, e)
        /\ e.instalment = i /\ e.time = now /\ e.ledger = ledger /\ e.paid = ok
    BY <1>0, <2>1 DEF Entry, TypeOK
  <2> HIDE DEF e
  <2>3. /\ seq = BaseSeq + i - 1 /\ seq' = BaseSeq + i
        /\ now' = now /\ ledger' = ledger
    BY <1>2 DEF SubmitInstalment, WouldBeValid, Consume, clock
  <2>4. /\ Decided' = Decided + 1 /\ i = Decided + 1
        /\ Decided \in Nat /\ Decided < Count
    BY <1>0, <2>3 DEF Decided, LastSeq, Instalments, TypeOK
  <2>5. CASE ok
    <3>1. /\ LatestExists' /\ Paid' = Paid \cup {i}
          /\ LastTime' = now /\ LastLedger' = ledger
      BY <1>0, <2>2, <2>5, PaidEntry
    <3>2. ASSUME Paid # {}
          PROVE  now >= LastTime + Step /\ ledger >= LastLedger + Gap
      <4>1. PaidEntries # {}
        BY <3>2 DEF Paid
      <4>2. LastPaid \in 1..Len(log)
        BY <4>1, LastPaidIsLatest DEF PaidEntries
      <4>3. /\ Len(log') = Len(log) + 1 /\ Len(log) \in Nat
            /\ log'[LastPaid] = log[LastPaid]
            /\ log'[Len(log) + 1] = e
        BY <1>0, <2>2, <4>2, LogAppend
      <4>4. /\ LastPaid \in 1..Len(log') /\ Len(log) + 1 \in 1..Len(log')
            /\ LastPaid < Len(log) + 1
        BY <4>2, <4>3
      <4>5. /\ e.time >= log[LastPaid].time + Step
            /\ e.ledger >= log[LastPaid].ledger + Gap
        BY <4>3, <4>4 DEF IInv, Spaced
      <4> QED BY <2>2, <4>1, <4>5 DEF LastTime, LastLedger
    <3>3. StandingOrder!Pay
      BY <2>3, <2>4, <3>1, <3>2 DEF StandingOrder!Pay
    <3> QED BY <3>1, <3>3 DEF StandingOrder!Next
  <2>6. CASE ~ok
    <3>1. LatestExists' /\ UNCHANGED <<Paid, LastTime, LastLedger>>
      BY <1>0, <2>2, <2>6, FailedEntry
    <3>2. Decided' \in (Decided + 1)..Count
      BY <2>4
    <3>3. StandingOrder!Forfeit
      BY <2>3, <3>1, <3>2 DEF StandingOrder!Forfeit
    <3> QED BY <3>1, <3>3 DEF StandingOrder!Next
  <2> QED BY <2>5, <2>6
<1>3. CASE LedgerCloses
  <2>1. LatestExists' /\ UNCHANGED <<Paid, LastTime, LastLedger>>
    BY <1>3, SameLog DEF LedgerCloses, history
  <2>2. Decided' = Decided
    BY <1>3 DEF LedgerCloses, account, Decided
  <2>3. now' \in Nat /\ now' >= now /\ ledger' = ledger + 1
    BY <1>0, <1>3 DEF LedgerCloses, TypeOK
  <2>4. StandingOrder!Pass
    BY <2>1, <2>2, <2>3 DEF StandingOrder!Pass
  <2> QED BY <2>1, <2>4 DEF StandingOrder!Next
<1>4. CASE OtherTransaction
  BY <1>0, <1>1, <1>4 DEF OtherTransaction, Consume, clock, TypeOK
<1>5. CASE SubmitCancel
  <2>1. seq' >= seq
    BY <1>0, <1>5 DEF SubmitCancel, Consume, Max, LastSeq, TypeOK
  <2> QED BY <1>1, <1>5, <2>1 DEF SubmitCancel, clock
<1>6. ASSUME UNCHANGED <<account, clock, history>>
      PROVE  LatestExists' /\ [StandingOrder!Next]_StandingOrder!vars
  BY <1>0, <1>1, <1>6 DEF account, clock, history, TypeOK
<1> QED
  BY <1>2, <1>3, <1>4, <1>5, <1>6
     DEF Next, Payer, BuildInstalment, BuildAllInstalments, WantCancel,
         ReadSequence, BuildCancel, CancelRefused

\* The plan refines the standing order: for every plan and every use of its
\* account, instalments are paid in turn, each once, a floor apart, and one
\* that was passed over stays unpaid.
THEOREM PlanIsStandingOrder == Spec => ImplementsStandingOrder
<1>1. IInv /\ IInv' /\ LatestExists /\ [Next]_vars
      => LatestExists' /\ [StandingOrder!Next]_StandingOrder!vars
  <2>1. ASSUME IInv, IInv', LatestExists, Next
        PROVE  LatestExists' /\ [StandingOrder!Next]_StandingOrder!vars
    BY <2>1, RefinesStep
  <2>2. ASSUME LatestExists, UNCHANGED vars
        PROVE  LatestExists' /\ UNCHANGED StandingOrder!vars
    <3>1. UNCHANGED <<seq, log, now, ledger>>
      BY <2>2 DEF vars, account, clock, history
    <3>2. LatestExists' /\ UNCHANGED <<Paid, LastTime, LastLedger>>
      BY <2>2, <3>1, SameLog
    <3>3. Decided' = Decided
      BY <3>1 DEF Decided
    <3> QED BY <3>1, <3>2, <3>3 DEF StandingOrder!vars
  <2> QED BY <2>1, <2>2
<1> QED
  BY <1>1, RefinesInit, Inductive, PTL
     DEF Spec, ImplementsStandingOrder, StandingOrder!Spec
=============================================================================
