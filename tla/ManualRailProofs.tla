-------------------------- MODULE ManualRailProofs --------------------------
(***************************************************************************)
(* Proofs about ManualRail, for every set of references, currencies and    *)
(* operators and every sequence of charges, marks, panics and restarts.    *)
(*                                                                         *)
(* The argument: a mark is accepted only for an order that is on record,   *)
(* and settles it, so an order that is still pending has no mark at all; a *)
(* settled order's status is what its latest mark says; and the amount and *)
(* the currency of an order, which its receipts repeat, never change.      *)
(***************************************************************************)
EXTENDS ManualRail, TLAPS

\* Every mark concerns an order on record that it settled.
MarksSettle ==
    \A n \in 1..Len(marks) :
        /\ Trim[marks[n].reference] \in DOMAIN records
        /\ records[Trim[marks[n].reference]].status # "Pending"

\* A settled order's status is the word of its latest mark.
LatestMarkDecides ==
    \A r \in DOMAIN records :
        records[r].status # "Pending" =>
            \E n \in MarksOf(r) :
                /\ marks[n].status = records[r].status
                /\ \A m \in MarksOf(r) : m <= n

\* A receipt repeats its order's terms and claims no more than its amount.
ReceiptsRepeatTerms ==
    \A rc \in issued :
        /\ rc.rail_id = "manual"
        /\ rc.reference \in DOMAIN records
        /\ rc.currency = records[rc.reference].currency
        /\ rc.amount <= records[rc.reference].amount

\* Every order on record was acknowledged with a receipt in this run.
OrdersAreAcknowledged ==
    \A r \in DOMAIN records : \E rc \in issued : rc.reference = r

IInv ==
    /\ TypeOK /\ MarksSettle /\ LatestMarkDecides /\ ReceiptsRepeatTerms
    /\ OrdersAreAcknowledged /\ AuditNamesFirstPayer

-----------------------------------------------------------------------------
\* The steps' common part: no mark is made and no order on record changes.
LEMMA QuietStep ==
    ASSUME IInv, TypeOK', ReceiptsRepeatTerms', OrdersAreAcknowledged',
           UNCHANGED marks,
           DOMAIN records \subseteq DOMAIN records',
           \A q \in DOMAIN records : records'[q] = records[q],
           \A q \in DOMAIN records' \ DOMAIN records :
               records'[q].status = "Pending"
    PROVE  IInv'
<1> USE DEF IInv
<1>1. \A q : MarksOf(q)' = MarksOf(q)
  BY DEF MarksOf
<1>2. MarksSettle'
  BY DEF MarksSettle
<1>3. LatestMarkDecides'
  BY <1>1 DEF LatestMarkDecides
<1>4. AuditNamesFirstPayer'
  BY <1>1 DEF AuditNamesFirstPayer
<1> QED BY <1>2, <1>3, <1>4

\* The receipt of a record repeats its terms.
LEMMA ReceiptOfRecord ==
    ASSUME NEW r \in References, NEW rec \in Record
    PROVE  /\ ReceiptFor(r, rec) \in Receipt
           /\ ReceiptFor(r, rec).rail_id = "manual"
           /\ ReceiptFor(r, rec).reference = r
           /\ ReceiptFor(r, rec).currency = rec.currency
           /\ ReceiptFor(r, rec).amount <= rec.amount
<1>1. /\ rec.amount \in Amounts /\ rec.amount \in Nat
      /\ rec.currency \in Canonical /\ rec.instructions \in Instructions
  BY ManualAssumption DEF Record
<1>2. rec.currency \in Currencies
  BY <1>1, ManualAssumption DEF Canonical
<1> QED BY <1>1, <1>2 DEF ReceiptFor, Receipt

LEMMA ChargeNewIInv ==
    ASSUME IInv, NEW r \in References, NEW a \in Amounts, NEW c \in Currencies,
           ChargeNew(r, a, c)
    PROVE  IInv'
<1> USE DEF IInv
<1> DEFINE rec == NewRecord(a, c)
<1>1. rec \in Record /\ rec.status = "Pending"
  <2>1. Normalize[c] \in Canonical
    BY DEF ChargeNew, Chargeable, Canonical
  <2> QED BY <2>1 DEF NewRecord, Record, Instructions, Statuses
<1> HIDE DEF rec
<1>2. /\ DOMAIN records' = DOMAIN records \cup {r} /\ r \notin DOMAIN records
      /\ records'[r] = rec
      /\ \A q \in DOMAIN records : records'[q] = records[q]
      /\ issued' = issued \cup {ReceiptFor(r, rec)}
      /\ UNCHANGED <<old, poisoned, marks>>
  BY DEF rec, Known, ChargeNew
<1>3. TypeOK'
  BY <1>1, <1>2, ReceiptOfRecord DEF TypeOK
<1>4. ReceiptsRepeatTerms'
  BY <1>1, <1>2, ReceiptOfRecord DEF ReceiptsRepeatTerms
<1>5. OrdersAreAcknowledged'
  BY <1>1, <1>2, ReceiptOfRecord DEF OrdersAreAcknowledged
<1> QED BY <1>1, <1>2, <1>3, <1>4, <1>5, QuietStep

LEMMA ChargeAgainIInv ==
    ASSUME IInv, NEW r \in References, NEW a \in Amounts, NEW c \in Currencies,
           ChargeAgain(r, a, c)
    PROVE  IInv'
<1> USE DEF IInv, ChargeAgain, Known
<1>1. records[r] \in Record
  BY DEF TypeOK
<1>2. TypeOK'
  BY <1>1, ReceiptOfRecord DEF TypeOK
<1>3. ReceiptsRepeatTerms'
  BY <1>1, ReceiptOfRecord DEF ReceiptsRepeatTerms
<1>4. OrdersAreAcknowledged'
  BY DEF OrdersAreAcknowledged
<1> QED BY <1>2, <1>3, <1>4, QuietStep

\* What a mark does to the log of marks and to the order it concerns.
LEMMA MarkStep ==
    ASSUME IInv, NEW r \in References, NEW by \in Operators \cup {Blank},
           NEW status \in {"Paid", "Failed"}, Mark(r, by, status)
    PROVE  /\ Trim[r] \in DOMAIN records /\ DOMAIN records' = DOMAIN records
           /\ \A q \in DOMAIN records : q # Trim[r] => records'[q] = records[q]
           /\ records'[Trim[r]] = Marked(records[Trim[r]], by, status)
           /\ UNCHANGED <<issued, old, poisoned>>
           /\ by \in Operators
           /\ Len(marks) \in Nat /\ Len(marks') = Len(marks) + 1
           /\ \A m \in 1..Len(marks) : marks'[m] = marks[m]
           /\ marks'[Len(marks) + 1] =
                 [reference |-> r, by |-> by, status |-> status]
           /\ \A q : q # Trim[r] => MarksOf(q)' = MarksOf(q)
           /\ MarksOf(Trim[r])' = MarksOf(Trim[r]) \cup {Len(marks) + 1}
           /\ marks' \in Seq([reference : References, by : Operators,
                              status : {"Paid", "Failed"}])
<1> DEFINE e == [reference |-> r, by |-> by, status |-> status]
           M == [reference : References, by : Operators, status : {"Paid", "Failed"}]
<1>1. by \in Operators /\ Trim[r] \in DOMAIN records
  BY DEF Mark, Markable, Known
<1>2. e \in M /\ marks \in Seq(M) /\ marks' = Append(marks, e) /\ e.reference = r
  BY <1>1 DEF Mark, IInv, TypeOK
<1> HIDE DEF e, M
<1>3. /\ Len(marks) \in Nat /\ Len(marks') = Len(marks) + 1 /\ marks' \in Seq(M)
      /\ \A m \in 1..Len(marks) : marks'[m] = marks[m]
      /\ marks'[Len(marks) + 1] = e
  BY <1>2
<1>4. 1..Len(marks') = (1..Len(marks)) \cup {Len(marks) + 1}
  BY <1>3
<1>5. /\ \A q : q # Trim[r] => MarksOf(q)' = MarksOf(q)
      /\ MarksOf(Trim[r])' = MarksOf(Trim[r]) \cup {Len(marks) + 1}
  BY <1>2, <1>3, <1>4 DEF MarksOf
<1>6. /\ DOMAIN records' = DOMAIN records
      /\ \A q \in DOMAIN records : q # Trim[r] => records'[q] = records[q]
      /\ records'[Trim[r]] = Marked(records[Trim[r]], by, status)
      /\ UNCHANGED <<issued, old, poisoned>>
  BY <1>1 DEF Mark
<1> QED BY <1>1, <1>3, <1>5, <1>6 DEF e, M

\* What an accepted mark makes of a record.
LEMMA MarkedRecord ==
    ASSUME NEW rec \in Record, NEW by \in Operators,
           NEW status \in {"Paid", "Failed"}
    PROVE  /\ Marked(rec, by, status) \in Record
           /\ Marked(rec, by, status).status = status
           /\ Marked(rec, by, status).amount = rec.amount
           /\ Marked(rec, by, status).currency = rec.currency
           /\ Marked(rec, by, status).marked_by =
                 IF status = "Paid" /\ rec.status = "Paid"
                 THEN rec.marked_by ELSE by
  BY DEF Marked, Record, Statuses

LEMMA MarkIInv ==
    ASSUME IInv, NEW r \in References, NEW by \in Operators \cup {Blank},
           NEW status \in {"Paid", "Failed"}, Mark(r, by, status)
    PROVE  IInv'
<1> USE DEF IInv
<1> DEFINE q == Trim[r]
           last == Len(marks) + 1
           rec == records[q]
<1>1. /\ q \in DOMAIN records /\ DOMAIN records' = DOMAIN records
      /\ \A p \in DOMAIN records : p # q => records'[p] = records[p]
      /\ records'[q] = Marked(rec, by, status)
      /\ UNCHANGED <<issued, old, poisoned>> /\ by \in Operators
  BY MarkStep
<1>2. /\ Len(marks) \in Nat /\ Len(marks') = last
      /\ \A m \in 1..Len(marks) : marks'[m] = marks[m]
      /\ marks'[last] = [reference |-> r, by |-> by, status |-> status]
      /\ \A p : p # q => MarksOf(p)' = MarksOf(p)
      /\ MarksOf(q)' = MarksOf(q) \cup {last}
      /\ marks' \in Seq([reference : References, by : Operators,
                         status : {"Paid", "Failed"}])
  BY MarkStep
<1>3. rec \in Record /\ q \in References
  BY <1>1, ManualAssumption DEF TypeOK
<1>4. /\ records'[q] \in Record /\ records'[q].status = status
      /\ records'[q].amount = rec.amount /\ records'[q].currency = rec.currency
      /\ records'[q].marked_by = IF status = "Paid" /\ rec.status = "Paid"
                                 THEN rec.marked_by ELSE by
  BY <1>1, <1>3, MarkedRecord
<1>5. \A p : \A m \in MarksOf(p) : m \in 1..Len(marks) /\ marks'[m] = marks[m]
  BY <1>2 DEF MarksOf
<1> HIDE DEF q, rec
<1>6. TypeOK'
  BY <1>1, <1>2, <1>4 DEF TypeOK
<1>7. MarksSettle'
  <2> SUFFICES ASSUME NEW n \in 1..Len(marks')
               PROVE  /\ Trim[marks'[n].reference] \in DOMAIN records'
                      /\ records'[Trim[marks'[n].reference]].status # "Pending"
    BY DEF MarksSettle
  <2>1. CASE n = last
    BY <2>1, <1>1, <1>2, <1>4 DEF q
  <2>2. CASE n \in 1..Len(marks)
    BY <2>2, <1>1, <1>2, <1>4 DEF MarksSettle
  <2> QED BY <2>1, <2>2, <1>2
<1>8. LatestMarkDecides'
  <2> SUFFICES ASSUME NEW p \in DOMAIN records, records'[p].status # "Pending"
               PROVE  \E n \in MarksOf(p)' :
                          /\ marks'[n].status = records'[p].status
                          /\ \A m \in MarksOf(p)' : m <= n
    BY <1>1 DEF LatestMarkDecides
  <2>1. CASE p = q
    BY <2>1, <1>2, <1>4, <1>5
  <2>2. CASE p # q
    BY <2>2, <1>1, <1>2, <1>5 DEF LatestMarkDecides
  <2> QED BY <2>1, <2>2
<1>9. ReceiptsRepeatTerms'
  BY <1>1, <1>4 DEF ReceiptsRepeatTerms, rec
<1>10. AuditNamesFirstPayer'
  <2> DEFINE Run(p, n) ==
        /\ marks'[n].by = records'[p].marked_by
        /\ \A m \in MarksOf(p)' : m >= n => marks'[m].status = "Paid"
        /\ \A m \in MarksOf(p)' :
               m < n => \E x \in MarksOf(p)' :
                           m <= x /\ x < n /\ marks'[x].status = "Failed"
  <2> SUFFICES ASSUME NEW p \in DOMAIN records, records'[p].status = "Paid"
               PROVE  \E n \in MarksOf(p)' : Run(p, n)
    BY <1>1 DEF AuditNamesFirstPayer
  <2>1. CASE p # q
    BY <2>1, <1>1, <1>2, <1>5 DEF AuditNamesFirstPayer
  <2>2. CASE p = q /\ rec.status = "Paid"
    <3>1. PICK n \in MarksOf(q) :
             /\ marks[n].by = rec.marked_by
             /\ \A m \in MarksOf(q) : m >= n => marks[m].status = "Paid"
             /\ \A m \in MarksOf(q) :
                    m < n => \E x \in MarksOf(q) :
                                m <= x /\ x < n /\ marks[x].status = "Failed"
      BY <2>2, <1>1 DEF AuditNamesFirstPayer, rec
    <3>2. n < last /\ n \in MarksOf(q)' /\ status = "Paid"
      BY <2>2, <1>2, <1>4, <1>5
    <3>3. Run(q, n)
      BY <3>1, <3>2, <2>2, <1>2, <1>4, <1>5
    <3> QED BY <3>2, <3>3, <2>2
  <2>3. CASE p = q /\ rec.status # "Paid"
    <3>1. /\ last \in MarksOf(q)' /\ marks'[last].by = by
          /\ marks'[last].status = "Paid" /\ records'[q].marked_by = by
      BY <2>3, <1>2, <1>4
    <3>2. ASSUME NEW m \in MarksOf(q)', m < last
          PROVE  \E x \in MarksOf(q)' :
                     m <= x /\ x < last /\ marks'[x].status = "Failed"
      <4>1. m \in MarksOf(q)
        BY <3>2, <1>2
      <4>2. rec.status # "Pending"
        BY <4>1 DEF MarksSettle, MarksOf, rec
      <4>3. rec.status = "Failed"
        BY <4>2, <2>3, <1>3 DEF Record, Statuses
      <4>4. PICK x \in MarksOf(q) :
               marks[x].status = "Failed" /\ \A k \in MarksOf(q) : k <= x
        BY <4>2, <4>3, <1>1 DEF LatestMarkDecides, rec
      <4> QED BY <4>1, <4>4, <1>2, <1>5
    <3>3. \A m \in MarksOf(q)' : m >= last => m = last
      BY <1>2, <1>5
    <3> QED BY <3>1, <3>2, <3>3, <2>3
  <2> QED BY <2>1, <2>2, <2>3
<1>11. OrdersAreAcknowledged'
  BY <1>1 DEF OrdersAreAcknowledged
<1> QED BY <1>6, <1>7, <1>8, <1>9, <1>10, <1>11

\* Amounts are naturals wherever they are kept.
LEMMA AmountTypes ==
    /\ \A rec \in Record : rec.amount \in Nat
    /\ \A rc \in Receipt : rc.amount \in Nat
<1>1. Amounts \subseteq Nat /\ 0 \in Nat
  BY ManualAssumption
<1> QED BY <1>1 DEF Record, Receipt

LEMMA EmptySeqTyped == ASSUME NEW S PROVE <<>> \in Seq(S)
OBVIOUS

LEMMA InitIInv == Init => IInv
<1> SUFFICES ASSUME Init PROVE IInv
  OBVIOUS
<1>1. /\ DOMAIN records = {} /\ issued = {} /\ Len(marks) = 0 /\ marks = <<>>
      /\ old = {}
  BY DEF Init
<1>2. TypeOK
  BY <1>1, EmptySeqTyped DEF Init, TypeOK
<1> QED BY <1>1, <1>2 DEF IInv, MarksSettle, LatestMarkDecides, ReceiptsRepeatTerms,
           AuditNamesFirstPayer, OrdersAreAcknowledged

LEMMA NextIInv == ASSUME IInv, Next PROVE IInv'
<1>1. ASSUME NEW r \in References, NEW a \in Amounts, NEW c \in Currencies,
             ChargeNew(r, a, c) \/ ChargeAgain(r, a, c)
      PROVE  IInv'
  BY <1>1, ChargeNewIInv, ChargeAgainIInv
<1>2. ASSUME NEW r \in References, NEW a \in Amounts, NEW c \in Currencies,
             InstructionsPanic(r, a, c)
      PROVE  IInv'
  <2>1. TypeOK' /\ ReceiptsRepeatTerms' /\ OrdersAreAcknowledged'
    BY <1>2 DEF InstructionsPanic, IInv, TypeOK, ReceiptsRepeatTerms,
                OrdersAreAcknowledged
  <2> QED BY <1>2, <2>1, QuietStep DEF InstructionsPanic
<1>3. ASSUME NEW r \in References, NEW by \in Operators \cup {Blank},
             MarkPaid(r, by) \/ MarkFailed(r, by)
      PROVE  IInv'
  BY <1>3, MarkIInv DEF MarkPaid, MarkFailed
<1>4. CASE Restart
  <2>1. /\ DOMAIN records' = {} /\ issued' = {} /\ Len(marks') = 0
        /\ marks' = <<>> /\ old' \subseteq old \cup issued
    BY <1>4 DEF Restart
  <2>2. TypeOK'
    BY <1>4, <2>1, EmptySeqTyped DEF Restart, TypeOK, IInv
  <2> QED BY <2>1, <2>2 DEF IInv, MarksSettle, LatestMarkDecides, ReceiptsRepeatTerms,
             AuditNamesFirstPayer, OrdersAreAcknowledged
<1> QED BY <1>1, <1>2, <1>3, <1>4 DEF Next

LEMMA Inductive == Spec => []IInv
<1>1. IInv /\ UNCHANGED vars => IInv'
  <2> SUFFICES ASSUME IInv, UNCHANGED vars PROVE IInv'
    OBVIOUS
  <2>1. TypeOK' /\ ReceiptsRepeatTerms' /\ OrdersAreAcknowledged'
    BY DEF vars, IInv, TypeOK, ReceiptsRepeatTerms, OrdersAreAcknowledged
  <2> QED BY <2>1, QuietStep DEF vars
<1> QED BY InitIInv, NextIInv, <1>1, PTL DEF Spec

-----------------------------------------------------------------------------
\* Records, receipts and marks stay well typed: every record's currency is a
\* canonical code, whatever spelling charge was given.
THEOREM TypeCorrect == Spec => []TypeOK
  BY Inductive, PTL DEF IInv

\* verify accepts no receipt, genuine or made up, unless the latest mark of
\* its order says paid, and for no more than the order was for.
THEOREM OnlyMarksSettle == Spec => []VerifiedMeansAttested
<1>1. IInv => VerifiedMeansAttested
  <2> SUFFICES ASSUME IInv, NEW rc \in Receipt, Verify(rc)
               PROVE  \E n \in MarksOf(rc.reference) :
                          /\ marks[n].status = "Paid"
                          /\ \A m \in MarksOf(rc.reference) : m <= n
                          /\ rc.amount <= records[rc.reference].amount
    BY DEF VerifiedMeansAttested
  <2>1. /\ rc.reference \in DOMAIN records
        /\ records[rc.reference].status = "Paid"
        /\ records[rc.reference].amount >= rc.amount
    BY DEF Verify, Known
  <2>2. records[rc.reference].amount \in Nat /\ rc.amount \in Nat
    BY <2>1, AmountTypes DEF IInv, TypeOK
  <2> QED BY <2>1, <2>2 DEF IInv, LatestMarkDecides
<1> QED BY <1>1, Inductive, PTL

\* A receipt charge handed out in this run verifies exactly while its order is
\* paid, whenever it was handed out; one of an earlier run only beside a
\* verifying receipt of the order begun anew.
THEOREM ReceiptsFollowTheirRecord == Spec => []ReceiptFollowsRecord
<1>1. IInv => ReceiptFollowsRecord
  <2> SUFFICES ASSUME IInv, ~poisoned PROVE ReceiptFollowsRecord
    BY DEF ReceiptFollowsRecord
  <2>1. ASSUME NEW rc \in issued
        PROVE  Verify(rc) <=> records[rc.reference].status = "Paid"
    <3>1. /\ rc.rail_id = "manual" /\ rc.reference \in DOMAIN records
          /\ rc.currency = records[rc.reference].currency
          /\ rc.amount <= records[rc.reference].amount
      BY DEF IInv, ReceiptsRepeatTerms
    <3>2. rc.amount \in Nat /\ records[rc.reference].amount \in Nat
      BY <3>1, AmountTypes DEF IInv, TypeOK
    <3> QED BY <3>1, <3>2 DEF Verify, Known
  <2>2. ASSUME NEW rc \in old, Verify(rc)
        PROVE  \E new \in issued : new.reference = rc.reference /\ Verify(new)
    <3>1. /\ rc.reference \in DOMAIN records
          /\ records[rc.reference].status = "Paid"
      BY <2>2 DEF Verify, Known
    <3>2. PICK new \in issued : new.reference = rc.reference
      BY <3>1 DEF IInv, OrdersAreAcknowledged
    <3> QED BY <3>1, <3>2, <2>1
  <2> QED BY <2>1, <2>2 DEF ReceiptFollowsRecord
<1> QED BY <1>1, Inductive, PTL

\* A paid order names the operator of the first of the unbroken run of paid
\* marks it is in.
THEOREM AuditTrailIsFirstPayer == Spec => []AuditNamesFirstPayer
  BY Inductive, PTL DEF IInv
=============================================================================
