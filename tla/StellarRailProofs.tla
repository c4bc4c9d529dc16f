------------------------- MODULE StellarRailProofs --------------------------
(***************************************************************************)
(* Proofs about StellarRail, for every set of calls and requests, and for  *)
(* every way their loads, posts, answers and timeouts interleave.          *)
(*                                                                         *)
(* The argument: a call signs once, after it was accepted, for what it was *)
(* asked; what the account has on the ledger was signed by a call; and a   *)
(* receipt is handed out only for a transaction that is on the ledger,     *)
(* with whatever outcome.  The hash a receipt names fixes account, legs,   *)
(* number and memo, and the memo fixes the kind and the reference, also in *)
(* the transactions of other accounts.                                     *)
(***************************************************************************)
EXTENDS StellarRail, FiniteSetTheorems, TLAPS

\* A call signs once, when it was accepted and its transaction can be built.
SignsOnce ==
    /\ DOMAIN tx = Calls
    /\ \A c \in Calls :
          /\ pc[c] \in {"idle", "loading"} => tx[c] = NoTx
          /\ pc[c] = "submitted" => tx[c] # NoTx
          /\ pc[c] # "done" => result[c] = "pending"
          /\ tx[c] # NoTx => Buildable(job[c])

\* A receipt is what its call asked for, on the ledger with some outcome.
ReceiptsAreIncluded ==
    \A rc \in receipts : \E c \in Calls :
        /\ rc = ReceiptFor(job[c], tx[c])
        /\ tx[c] # NoTx
        /\ Outcome(tx[c]) # {}

IInv == TypeOK /\ SignsOnce /\ ReceiptsAreIncluded

-----------------------------------------------------------------------------
\* What a signed transaction is made of, and what its memo says.
LEMMA SignedFields ==
    ASSUME NEW j, NEW n \in Nat
    PROVE  LET x == Signed(j, n)
           IN  /\ x.source = Own /\ x.legs = j.legs /\ x.seq = n + 1
               /\ x.memo = Memo(j.kind, Own, j.ref, j.legs)
               /\ x = [source |-> x.source, legs |-> x.legs, seq |-> x.seq,
                       memo |-> x.memo]
               /\ x # NoTx
  BY DEF Signed, NoTx

LEMMA MemoFields ==
    ASSUME NEW kind, NEW source, NEW ref, NEW legs
    PROVE  /\ Memo(kind, source, ref, legs).domain = kind
           /\ Memo(kind, source, ref, legs).ref = ref
  BY DEF Memo

\* The transaction of a call that has signed.
LEMMA SignedByCall ==
    ASSUME TypeOK, NEW c \in Calls, tx[c] # NoTx
    PROVE  \E n \in 0..(MaxSeq - 1) : n \in Nat /\ tx[c] = Signed(job[c], n)
  BY StellarAssumption DEF TypeOK

LEMMA InitIInv == Init => IInv
<1> SUFFICES ASSUME Init PROVE IInv
  OBVIOUS
<1>1. TypeOK
  BY StellarAssumption DEF Init, TypeOK
<1>2. SignsOnce /\ ReceiptsAreIncluded
  BY DEF Init, SignsOnce, ReceiptsAreIncluded
<1> QED BY <1>1, <1>2 DEF IInv

\* Steps of a call that neither signs nor gets a receipt: it moves on, and
\* may learn how it ended.
LEMMA MovesOn ==
    ASSUME IInv, NEW c \in Calls, pc[c] # "done",
           NEW to \in {"loading", "done"}, NEW how \in {"pending", "invalid", "rail"},
           pc' = [pc EXCEPT ![c] = to], result' = [result EXCEPT ![c] = how],
           to = "loading" => tx[c] = NoTx /\ how = "pending",
           UNCHANGED <<job, tx, receipts, seq, wire, chain>>
    PROVE  IInv'
<1> USE DEF IInv
<1>1. UNCHANGED SignedTxs /\ \A x : Outcome(x)' = Outcome(x)
  BY DEF SignedTxs, Outcome
<1>2. TypeOK'
  BY <1>1 DEF TypeOK
<1>3. SignsOnce'
  BY DEF SignsOnce, TypeOK
<1>4. ReceiptsAreIncluded'
  BY <1>1 DEF ReceiptsAreIncluded
<1> QED BY <1>2, <1>3, <1>4

\* The one step that signs.
LEMMA LoadAndSubmitIInv ==
    ASSUME IInv, NEW c \in Calls, LoadAndSubmit(c)
    PROVE  IInv'
<1> USE StellarAssumption DEF IInv
<1>1. /\ pc[c] = "loading" /\ tx[c] = NoTx /\ result[c] = "pending"
      /\ Buildable(job[c]) /\ seq \in 0..(MaxSeq - 1) /\ seq \in Nat
      /\ pc' = [pc EXCEPT ![c] = "submitted"]
      /\ DOMAIN tx' = Calls /\ tx'[c] = Signed(job[c], seq)
      /\ \A d \in Calls : d # c => tx'[d] = tx[d]
      /\ wire' = wire \cup {c}
      /\ UNCHANGED <<job, result, receipts, seq, chain>>
  BY DEF LoadAndSubmit, SignsOnce, TypeOK
<1>2. tx'[c] # NoTx
  BY <1>1, SignedFields
<1>3. SignedTxs \subseteq SignedTxs'
  BY <1>1 DEF SignedTxs
<1>4. \A x : Outcome(x)' = Outcome(x)
  BY <1>1 DEF Outcome
<1>5. TypeOK'
  BY <1>1, <1>2, <1>3 DEF TypeOK
<1>6. SignsOnce'
  BY <1>1, <1>2 DEF SignsOnce, Buildable, TypeOK
<1>7. ReceiptsAreIncluded'
  BY <1>1, <1>4 DEF ReceiptsAreIncluded
<1> QED BY <1>5, <1>6, <1>7

\* A receipt for a transaction that is on the ledger.
LEMMA AnswerIInv ==
    ASSUME IInv, NEW c \in Calls, AnswerOk(c) \/ AnswerNoField(c)
    PROVE  IInv'
<1> USE DEF IInv
<1>1. /\ pc[c] = "submitted" /\ tx[c] # NoTx /\ Outcome(tx[c]) # {}
      /\ pc' = [pc EXCEPT ![c] = "done"] /\ result' = [result EXCEPT ![c] = "receipt"]
      /\ receipts' = receipts \cup {ReceiptFor(job[c], tx[c])}
      /\ UNCHANGED <<job, tx, seq, wire, chain>>
  BY DEF AnswerOk, AnswerNoField, Finish, SignsOnce
<1>2. UNCHANGED SignedTxs /\ \A x : Outcome(x)' = Outcome(x)
  BY <1>1 DEF SignedTxs, Outcome
<1>3. TypeOK'
  BY <1>1, <1>2 DEF TypeOK
<1>4. SignsOnce'
  BY <1>1 DEF SignsOnce, TypeOK
<1>5. ReceiptsAreIncluded'
  BY <1>1, <1>2 DEF ReceiptsAreIncluded
<1> QED BY <1>3, <1>4, <1>5

\* The ledger applies a post, with whatever outcome.
LEMMA ApplyIInv ==
    ASSUME IInv, NEW c \in wire, Apply(c)
    PROVE  IInv'
<1> USE DEF IInv
<1>1. PICK ok \in BOOLEAN :
         /\ seq' = tx[c].seq /\ wire' = wire \ {c}
         /\ chain' = chain \cup {[tx |-> tx[c], successful |-> ok]}
         /\ UNCHANGED <<pc, job, tx, result, receipts>>
  BY DEF Apply, callState
<1>2. c \in Calls /\ tx[c] # NoTx /\ tx[c] \in SignedTxs
  BY DEF TypeOK, SignedTxs
<1>3. tx[c].seq \in 0..MaxSeq
  <2>1. PICK n \in 0..(MaxSeq - 1) : n \in Nat /\ tx[c] = Signed(job[c], n)
    BY <1>2, SignedByCall
  <2> QED BY <2>1, SignedFields, StellarAssumption
<1>4. UNCHANGED SignedTxs
  BY <1>1 DEF SignedTxs
<1>5. TypeOK'
  BY <1>1, <1>2, <1>3, <1>4 DEF TypeOK
<1>6. SignsOnce'
  BY <1>1 DEF SignsOnce, Buildable
<1>7. ReceiptsAreIncluded'
  <2>1. \A x : Outcome(x) \subseteq Outcome(x)'
    BY <1>1 DEF Outcome
  <2>2. \A x : Outcome(x) # {} => Outcome(x)' # {}
    BY <2>1
  <2> QED BY <1>1, <2>2 DEF ReceiptsAreIncluded
<1> QED BY <1>5, <1>6, <1>7

\* A post is lost, somebody else uses the account, or nothing happens.
LEMMA ElsewhereIInv ==
    ASSUME IInv, wire' \subseteq wire, seq' \in 0..MaxSeq,
           UNCHANGED <<callState, chain>>
    PROVE  IInv'
<1> USE DEF IInv, callState
<1>1. UNCHANGED SignedTxs /\ \A x : Outcome(x)' = Outcome(x)
  BY DEF SignedTxs, Outcome
<1>2. TypeOK'
  BY <1>1 DEF TypeOK
<1>3. SignsOnce' /\ ReceiptsAreIncluded'
  BY <1>1 DEF SignsOnce, ReceiptsAreIncluded, Buildable
<1> QED BY <1>2, <1>3

LEMMA NextIInv == ASSUME IInv, Next PROVE IInv'
<1>1. ASSUME NEW c \in Calls, pc[c] \in {"idle", "loading"}
      PROVE  tx[c] = NoTx /\ result[c] = "pending"
  BY <1>1 DEF IInv, SignsOnce
<1>2. ASSUME NEW c \in Calls, Call(c) PROVE IInv'
  <2>1. result' = [result EXCEPT ![c] = "pending"]
    BY <1>1, <1>2 DEF Call, IInv, TypeOK
  <2> QED BY <1>1, <1>2, <2>1, MovesOn DEF Call
<1>3. ASSUME NEW c \in Calls, RefuseCall(c) \/ LoadFails(c) PROVE IInv'
  BY <1>1, <1>3, MovesOn DEF RefuseCall, LoadFails, Finish
<1>4. ASSUME NEW c \in Calls, AnswerErr(c) PROVE IInv'
  BY <1>4, MovesOn DEF AnswerErr, Finish
<1>5. ASSUME NEW c \in Calls, Step(c) PROVE IInv'
  BY <1>2, <1>3, <1>4, <1>5, LoadAndSubmitIInv, AnswerIInv DEF Step
<1>6. ASSUME NEW c \in wire, Lose(c) PROVE IInv'
  BY <1>6, ElsewhereIInv DEF Lose, IInv, TypeOK
<1>7. CASE OtherTransaction
  BY <1>7, ElsewhereIInv, StellarAssumption DEF OtherTransaction, IInv, TypeOK
<1> QED BY <1>5, <1>6, <1>7, ApplyIInv DEF Next

LEMMA Inductive == Spec => []IInv
<1>1. IInv /\ UNCHANGED vars => IInv'
  BY ElsewhereIInv DEF vars, IInv, TypeOK
<1> QED BY InitIInv, NextIInv, <1>1, PTL DEF Spec

-----------------------------------------------------------------------------
\* Calls, posts and the ledger stay well typed: what a call signed is the
\* transaction of its own request, and the ledger holds nothing else.
THEOREM TypeCorrect == Spec => []TypeOK
  BY Inductive, PTL DEF IInv

\* Every receipt's transaction is on the ledger, and the receipt verifies
\* exactly when its payments succeeded, under the verify of its own kind only.
THEOREM ReceiptsAreProofs == Spec => []ReceiptIsProof
<1>1. IInv => ReceiptIsProof
  <2> SUFFICES ASSUME IInv, NEW rc \in receipts
               PROVE  /\ Outcome(rc.binding.hash) # {}
                      /\ \A kind \in Kinds :
                            Verify(kind, rc) <=> /\ rc.binding.kind = kind
                                                 /\ rc.binding.hash \in Payments
    BY DEF ReceiptIsProof
  <2>1. PICK c \in Calls : /\ rc = ReceiptFor(job[c], tx[c]) /\ tx[c] # NoTx
                           /\ Outcome(tx[c]) # {}
    BY DEF IInv, ReceiptsAreIncluded
  <2> DEFINE j == job[c]
             x == tx[c]
  <2>2. /\ rc.ref = j.ref /\ rc.amount = Total(j.legs) /\ rc.binding.kind = j.kind
        /\ rc.binding.source = x.source /\ rc.binding.legs = x.legs
        /\ rc.binding.seq = x.seq /\ rc.binding.memo = x.memo
        /\ rc.binding.hash = x
    BY <2>1 DEF ReceiptFor
  <2>3. /\ x.source = Own /\ x.legs = j.legs
        /\ x.memo = Memo(j.kind, Own, j.ref, j.legs)
        /\ x = [source |-> x.source, legs |-> x.legs, seq |-> x.seq, memo |-> x.memo]
    BY <2>1, SignedByCall, SignedFields DEF IInv
  <2>4. /\ j.legs # <<>>
        /\ j.kind = "charge" => Len(j.legs) = 1
    <3>1. j \in Jobs /\ Buildable(j)
      BY <2>1 DEF IInv, TypeOK, SignsOnce
    <3>2. j.kind = "charge" => Len(j.legs) = 1
      BY <3>1, StellarAssumption
    <3>3. Len(j.legs) = 1 \/ Len(j.legs) \in 1..MaxOperations
      BY <3>1, <3>2 DEF Buildable
    <3>4. Len(<<>>) = 0
      OBVIOUS
    <3>5. j.legs # <<>>
      BY <3>3, <3>4, StellarAssumption
    <3> QED BY <3>2, <3>5
  <2> HIDE DEF j, x
  <2>5. Outcome(rc.binding.hash) # {}
    BY <2>1, <2>2 DEF x
  <2>6. ASSUME NEW kind \in Kinds, rc.binding.kind = kind, x \in Payments
        PROVE  Verify(kind, rc)
    <3>1. AmountAgrees(rc) /\ MemoAgrees(kind, rc)
      BY <2>2, <2>3, <2>6 DEF AmountAgrees, MemoAgrees
    <3>2. Rebuilt(rc.binding) = x
      BY <2>2, <2>3 DEF Rebuilt
    <3>3. SignatureHolds(rc.binding)
      BY <2>1, <2>2, <3>2 DEF SignatureHolds, SignedTxs, x
    <3>4. OnLedger(kind, rc.binding)
      BY <2>2, <2>3, <2>4, <2>6, <3>2 DEF OnLedger, Decodes, Payments
    <3> QED BY <2>2, <2>3, <2>4, <2>6, <3>1, <3>3, <3>4 DEF Verify, ParsesAs
  <2>7. ASSUME NEW kind \in Kinds, Verify(kind, rc)
        PROVE  rc.binding.kind = kind /\ x \in Payments
    BY <2>2, <2>7 DEF Verify, ParsesAs, OnLedger, Payments
  <2> QED BY <2>2, <2>5, <2>6, <2>7
<1> QED BY <1>1, Inductive, PTL

\* What verify has established when it accepts a receipt: the payment, what
\* its sender bound it to, and the call behind it if the sender is this rail.
LEMMA VerifiedTerms ==
    ASSUME IInv, NEW kind, NEW rc, Verify(kind, rc)
    PROVE  LET b == rc.binding
               x == b.hash
           IN  /\ b.kind = kind /\ x \in Payments
               /\ b.source = x.source /\ b.legs = x.legs /\ b.seq = x.seq
               /\ b.memo = x.memo
               /\ rc.amount = Total(x.legs)
               /\ x.memo = Memo(kind, x.source, rc.ref, x.legs)
               /\ x.memo.domain = kind /\ x.memo.ref = rc.ref
               /\ x.source = Own =>
                     \E c \in Calls : /\ tx[c] = x
                                      /\ job[c].ref = rc.ref
                                      /\ job[c].kind = kind
                                      /\ job[c].legs = x.legs
<1> DEFINE b == rc.binding
           x == b.hash
<1>1. /\ b.kind = kind /\ x = Rebuilt(b)
      /\ Total(b.legs) = rc.amount
      /\ b.memo = Memo(kind, b.source, rc.ref, b.legs)
      /\ b.source = Own => x \in SignedTxs
  BY DEF Verify, ParsesAs, SignatureHolds, AmountAgrees, MemoAgrees
<1>2. x \in Payments
  BY DEF Verify, OnLedger, Payments
<1>3. b.source = x.source /\ b.legs = x.legs /\ b.seq = x.seq /\ b.memo = x.memo
  BY <1>1 DEF Rebuilt
<1>4. x.memo.domain = kind /\ x.memo.ref = rc.ref
  BY <1>1, <1>3, MemoFields
<1>5. ASSUME x.source = Own
      PROVE  \E c \in Calls : /\ tx[c] = x
                              /\ job[c].ref = rc.ref
                              /\ job[c].kind = kind
                              /\ job[c].legs = x.legs
  <2>1. PICK c \in Calls : tx[c] = x /\ tx[c] # NoTx
    BY <1>1, <1>3, <1>5 DEF SignedTxs
  <2>2. /\ x.legs = job[c].legs
        /\ x.memo = Memo(job[c].kind, Own, job[c].ref, job[c].legs)
    BY <2>1, SignedByCall, SignedFields DEF IInv
  <2>3. job[c].kind = kind /\ job[c].ref = rc.ref
    BY <2>2, <1>4, MemoFields
  <2> QED BY <2>1, <2>2, <2>3
<1> QED BY <1>1, <1>2, <1>3, <1>4, <1>5

\* verify and verify_split accept nothing that was not paid: the transaction
\* succeeded, its sender paid that total and bound it to that kind, account
\* and reference, and if the sender is this rail's account some call of the
\* rail asked for exactly that.
THEOREM OnlyPaymentsVerify == Spec => []VerifiedIsPaid
<1>1. IInv => VerifiedIsPaid
  <2> SUFFICES ASSUME IInv, NEW rc \in Presented, Verify(rc.binding.kind, rc)
               PROVE  LET x == rc.binding.hash
                      IN  /\ x \in Payments
                          /\ x.source = rc.binding.source
                          /\ Total(x.legs) = rc.amount
                          /\ x.memo = Memo(rc.binding.kind, x.source, rc.ref, x.legs)
                          /\ x.source = Own =>
                                \E c \in Calls : /\ tx[c] = x
                                                 /\ job[c].ref = rc.ref
                                                 /\ job[c].kind = rc.binding.kind
                                                 /\ job[c].legs = x.legs
    BY DEF VerifiedIsPaid, Verified
  <2> QED BY VerifiedTerms
<1> QED BY <1>1, Inductive, PTL

\* One payment settles one reference: no two receipts that verify on the
\* same transaction differ in anything.
THEOREM OneReceiptPerPayment == Spec => []OnePaymentOneReceipt
<1>1. IInv => OnePaymentOneReceipt
  <2> SUFFICES ASSUME IInv,
                      NEW r1 \in Presented, Verify(r1.binding.kind, r1),
                      NEW r2 \in Presented, Verify(r2.binding.kind, r2),
                      r1.binding.hash = r2.binding.hash
               PROVE  r1 = r2
    BY DEF OnePaymentOneReceipt, Verified
  <2> DEFINE x == r1.binding.hash
  <2>1. /\ r1.binding.legs = x.legs /\ r1.binding.seq = x.seq
        /\ r1.binding.memo = x.memo /\ r1.binding.kind = x.memo.domain
        /\ r1.binding.source = x.source
        /\ r1.amount = Total(x.legs) /\ r1.ref = x.memo.ref
    BY VerifiedTerms
  <2>2. /\ r2.binding.legs = x.legs /\ r2.binding.seq = x.seq
        /\ r2.binding.memo = x.memo /\ r2.binding.kind = x.memo.domain
        /\ r2.binding.source = x.source
        /\ r2.amount = Total(x.legs) /\ r2.ref = x.memo.ref
    BY VerifiedTerms
  <2>3. \A b \in Bindings :
           b = [kind |-> b.kind, source |-> b.source, legs |-> b.legs,
                seq |-> b.seq, memo |-> b.memo, hash |-> b.hash]
    BY DEF Bindings, ForeignBindings, BindingsOn, WithHash
  <2>4. r1.binding \in Bindings /\ r2.binding \in Bindings
    BY DEF Presented
  <2>5. r1.binding = r2.binding
    BY <2>1, <2>2, <2>3, <2>4
  <2> QED BY <2>1, <2>2, <2>5 DEF Presented
<1> QED BY <1>1, Inductive, PTL

\* However answers are lost and posts delayed, a reference is paid at most
\* once per call made for it: each payment is the one its call signed.
THEOREM OnePaymentPerCall == Spec => []PaidAtMostOncePerCall
<1>1. IInv => PaidAtMostOncePerCall
  <2> SUFFICES ASSUME IInv, NEW r \in Refs
               PROVE  Cardinality(PaymentsOf(r)) <= Cardinality(CallsOf(r))
    BY DEF PaidAtMostOncePerCall
  <2> DEFINE f == [x \in PaymentsOf(r) |-> CHOOSE c \in Calls : tx[c] = x /\ tx[c] # NoTx]
  <2>1. ASSUME NEW x \in PaymentsOf(r)
        PROVE  f[x] \in CallsOf(r) /\ tx[f[x]] = x
    <3>1. x \in SignedTxs /\ x.memo.ref = r
      BY <2>1, StellarAssumption DEF PaymentsOf, Payments, Ledger, IInv, TypeOK
    <3>2. \E c \in Calls : tx[c] = x /\ tx[c] # NoTx
      BY <3>1 DEF SignedTxs
    <3>3. f[x] \in Calls /\ tx[f[x]] = x /\ tx[f[x]] # NoTx
      BY <2>1, <3>2
    <3> HIDE DEF f
    <3>4. Made(f[x])
      BY <3>3 DEF Made, IInv, SignsOnce
    <3>5. x.memo = Memo(job[f[x]].kind, Own, job[f[x]].ref, job[f[x]].legs)
      BY <3>3, SignedByCall, SignedFields DEF IInv
    <3>6. job[f[x]].ref = r
      BY <3>1, <3>5, MemoFields
    <3> QED BY <3>3, <3>4, <3>6 DEF CallsOf
  <2>2. DOMAIN f = PaymentsOf(r) /\ f = [x \in PaymentsOf(r) |-> f[x]]
    OBVIOUS
  <2> HIDE DEF f
  <2>3. f \in Injection(PaymentsOf(r), CallsOf(r))
    BY <2>1, <2>2 DEF Injection, IsInjective
  <2>4. IsFiniteSet(CallsOf(r))
    BY StellarAssumption, FS_Subset DEF CallsOf
  <2> QED BY <2>3, <2>4, FS_Injection
<1> QED BY <1>1, Inductive, PTL
=============================================================================
