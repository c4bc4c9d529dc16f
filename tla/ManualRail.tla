----------------------------- MODULE ManualRail -----------------------------
(***************************************************************************)
(* ManualRail (patala-fiat/src/manual.rs): the offline fiat rail.  charge  *)
(* records an order and returns instructions, nothing has settled; an      *)
(* operator settles it by hand with mark_paid / mark_failed; verify reads  *)
(* the record.  All of it is in memory, behind one mutex, which makes each *)
(* operation one step; a restart of the process loses every record while   *)
(* receipts stay with whoever holds them.  Every operation that finds the  *)
(* mutex poisoned panics, so none of them is a step then.                  *)
(***************************************************************************)
EXTENDS Naturals, Sequences, FiniteSets

CONSTANTS
    References,     \* the reference strings callers and operators use
    Trim,           \* Trim[r]: r without surrounding whitespace
    Blank,          \* the all-whitespace reference and the blank actor
    Amounts,        \* amount_minor of a request
    Currencies,     \* currency strings of requests
    Normalize,      \* Normalize[c]: the canonical code, or Unknown
    Upper,          \* Upper[c]: c in ASCII upper case
    Unknown,        \* what currency::normalize answers for a code it lacks
    Operators,      \* the actors who may mark an order
    MaxMarks,       \* bound: operator marks per run of the process
    MaxOld          \* bound: receipts of earlier runs that are still around

ASSUME ManualAssumption ==
    /\ Trim \in [References -> References]
    /\ \A r \in References : Trim[Trim[r]] = Trim[r]
    /\ Blank \in References
    /\ Amounts \subseteq Nat
    /\ \A c \in Currencies :
          Normalize[c] # Unknown => /\ Normalize[c] \in Currencies
                                    /\ Normalize[Normalize[c]] = Normalize[c]
    /\ MaxMarks \in Nat /\ MaxOld \in Nat

VARIABLES
    records,        \* State::records, keyed by reference
    issued,         \* receipts charge handed out in this run of the process
    old,            \* receipts of earlier runs, still in their holders' hands
    poisoned,       \* a panic happened while the mutex was held
    marks           \* history: the marks accepted in this run, in order

vars == <<records, issued, old, poisoned, marks>>

Statuses == {"Pending", "Paid", "Failed"}
Canonical == {Normalize[c] : c \in Currencies} \ {Unknown}
Instructions == [amount : Amounts, currency : Canonical]

\* ManualRecord.  The instructions text is what it says: how much to pay, in
\* which currency.
Record == [amount : Amounts, currency : Canonical, status : Statuses,
           instructions : Instructions, marked_by : Operators \cup {Blank}]

\* The fields of a Receipt verify and a holder read.
Receipt == [rail_id : {"manual", "other"}, reference : References,
            amount : Amounts \cup {0}, currency : Currencies,
            proof : Instructions]

Init ==
    /\ records = <<>> /\ issued = {} /\ old = {}
    /\ poisoned = FALSE /\ marks = <<>>

Known(r) == r \in DOMAIN records

-----------------------------------------------------------------------------
\* PayRequest::validate, currency::normalize and the mutex.
Chargeable(r, a, c) ==
    /\ ~poisoned
    /\ Trim[r] # Blank
    /\ a # 0
    /\ Normalize[c] # Unknown

\* Mutant: the currency is stored as it was written.
NewRecordUnnormalized(a, c) ==
    [amount |-> a, currency |-> c, status |-> "Pending",
     instructions |-> [amount |-> a, currency |-> c], marked_by |-> Blank]

NewRecord(a, c) ==
    [amount |-> a, currency |-> Normalize[c], status |-> "Pending",
     instructions |-> [amount |-> a, currency |-> Normalize[c]],
     marked_by |-> Blank]

\* The receipt of a record: it claims the amount only once paid.
ReceiptFor(r, rec) ==
    [rail_id |-> "manual", reference |-> r,
     amount |-> IF rec.status = "Paid" THEN rec.amount ELSE 0,
     currency |-> rec.currency, proof |-> rec.instructions]

\* The first charge of a reference records it; the instructions callback may
\* refuse, and then nothing is recorded.
ChargeNew(r, a, c) ==
    /\ Chargeable(r, a, c)
    /\ ~Known(r)
    /\ records' = [q \in DOMAIN records \cup {r} |->
                      IF q = r THEN NewRecord(a, c) ELSE records[q]]
    /\ issued' = issued \cup {ReceiptFor(r, NewRecord(a, c))}
    /\ UNCHANGED <<old, poisoned, marks>>

\* A later charge answers from the record, whatever it asks for.
ChargeAgain(r, a, c) ==
    /\ Chargeable(r, a, c)
    /\ Known(r)
    /\ issued' = issued \cup {ReceiptFor(r, records[r])}
    /\ UNCHANGED <<records, old, poisoned, marks>>

\* The caller's instructions function panics, with the mutex held.
InstructionsPanic(r, a, c) ==
    /\ Chargeable(r, a, c)
    /\ ~Known(r)
    /\ poisoned' = TRUE
    /\ UNCHANGED <<records, issued, old, marks>>

(***************************************************************************)
(* mark_paid / mark_failed.  Both trim the reference (charge does not).    *)
(* A blank reference, a blank actor and an unknown reference are refused;  *)
(* re-marking a paid order paid keeps the first mark.                      *)
(***************************************************************************)
Markable(r, by) == Trim[r] # Blank /\ by # Blank /\ Known(Trim[r])

\* Mutant: a second paid mark replaces the first.
MarkedAlways(rec, by, status) ==
    [rec EXCEPT !.status = status, !.marked_by = by]

Marked(rec, by, status) ==
    IF status = "Paid" /\ rec.status = "Paid"
    THEN rec
    ELSE [rec EXCEPT !.status = status, !.marked_by = by]

Mark(r, by, status) ==
    /\ Len(marks) < MaxMarks
    /\ ~poisoned
    /\ Markable(r, by)
    /\ records' = [records EXCEPT ![Trim[r]] = Marked(@, by, status)]
    /\ marks' = Append(marks, [reference |-> r, by |-> by, status |-> status])
    /\ UNCHANGED <<issued, old, poisoned>>

MarkPaid(r, by) == Mark(r, by, "Paid")
MarkFailed(r, by) == Mark(r, by, "Failed")

\* The process stops and starts again: nothing is persisted, but holders keep
\* receipts (any MaxOld of them) and present them to the new process.
Restart ==
    /\ records' = <<>>
    /\ issued' = {}
    /\ \E kept \in SUBSET (old \cup issued) :
          Cardinality(kept) <= MaxOld /\ old' = kept
    /\ poisoned' = FALSE
    /\ marks' = <<>>

\* Mutant: anything that has not failed verifies.
VerifyUnfailed(rc) ==
    /\ rc.rail_id = "manual"
    /\ ~poisoned
    /\ Known(rc.reference)
    /\ records[rc.reference].status # "Failed"
    /\ Upper[rc.currency] = Upper[records[rc.reference].currency]
    /\ records[rc.reference].amount >= rc.amount

\* Mutant: a receipt for the whole amount does not verify.
VerifyStrictly(rc) ==
    /\ rc.rail_id = "manual"
    /\ ~poisoned
    /\ Known(rc.reference)
    /\ records[rc.reference].status = "Paid"
    /\ Upper[rc.currency] = Upper[records[rc.reference].currency]
    /\ records[rc.reference].amount > rc.amount

\* PaymentRail::verify: reads the record, never the receipt's own proof.
Verify(rc) ==
    /\ rc.rail_id = "manual"
    /\ ~poisoned
    /\ Known(rc.reference)
    /\ records[rc.reference].status = "Paid"
    /\ Upper[rc.currency] = Upper[records[rc.reference].currency]
    /\ records[rc.reference].amount >= rc.amount

Next ==
    \/ \E r \in References, a \in Amounts, c \in Currencies :
          ChargeNew(r, a, c) \/ ChargeAgain(r, a, c) \/ InstructionsPanic(r, a, c)
    \/ \E r \in References, by \in Operators \cup {Blank} :
          MarkPaid(r, by) \/ MarkFailed(r, by)
    \/ Restart

Spec == Init /\ [][Next]_vars

-----------------------------------------------------------------------------
TypeOK ==
    /\ DOMAIN records \subseteq References
    /\ \A r \in DOMAIN records : records[r] \in Record
    /\ issued \subseteq Receipt
    /\ old \subseteq Receipt
    /\ poisoned \in BOOLEAN
    /\ marks \in Seq([reference : References, by : Operators,
                      status : {"Paid", "Failed"}])

\* The marks that concern the record kept under r.
MarksOf(r) == {n \in 1..Len(marks) : Trim[marks[n].reference] = r}

\* Only an operator's word settles an order (module docs: MarkPaid/MarkFailed
\* are "the ONLY way a manual order ever settles"): no receipt -- genuine,
\* edited, or kept from before a restart -- verifies unless the latest mark
\* of its order says paid, and then for no more than the order was for.
VerifiedMeansAttested ==
    \A rc \in Receipt :
        Verify(rc) =>
            \E n \in MarksOf(rc.reference) :
                /\ marks[n].status = "Paid"
                /\ \A m \in MarksOf(rc.reference) : m <= n
                /\ rc.amount <= records[rc.reference].amount

\* A receipt handed out while the order was pending, paid or failed says,
\* from then on, exactly what the order's current status says: it starts to
\* verify when the order is marked paid and stops when it is marked failed.
\* A receipt from before a restart does not bring its order back: it verifies
\* only once the reference was charged anew and marked paid, and then beside
\* a receipt of the new order that verifies as well.  (A poisoned rail
\* answers nothing.)
ReceiptFollowsRecord ==
    ~poisoned =>
        /\ \A rc \in issued :
              Verify(rc) <=> records[rc.reference].status = "Paid"
        /\ \A rc \in old :
              Verify(rc) => \E new \in issued :
                                new.reference = rc.reference /\ Verify(new)

\* The audit trail of mark_paid ("the FIRST mark is what the audit trail
\* reflects"): a paid order names the operator of the first mark of the
\* unbroken run of paid marks it is in, however many marked it again.  (A
\* failed order that is marked failed again names the later operator.)
AuditNamesFirstPayer ==
    \A r \in DOMAIN records :
        records[r].status = "Paid" =>
            \E n \in MarksOf(r) :
                /\ marks[n].by = records[r].marked_by
                /\ \A m \in MarksOf(r) : m >= n => marks[m].status = "Paid"
                /\ \A m \in MarksOf(r) :
                       m < n => \E x \in MarksOf(r) :
                                   /\ m <= x /\ x < n
                                   /\ marks[x].status = "Failed"

\* Every order charge accepted can be settled: an operator who is given its
\* reference can mark it.
EveryOrderCanBeMarked ==
    \A r \in DOMAIN records : \A by \in Operators : Markable(r, by)
=============================================================================
