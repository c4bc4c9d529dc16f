---------------------------- MODULE StellarRail -----------------------------
(***************************************************************************)
(* StellarRail (patala-stellar/src/lib.rs): charge, charge_split, verify   *)
(* and verify_split over one signing account.                              *)
(*                                                                         *)
(* The rail takes &self and keeps no state, so calls overlap freely: each  *)
(* reads the account's sequence number (an await), signs a transaction for *)
(* the next one and posts it (another await).  Between the two anything    *)
(* may happen to the account; and what is posted may be applied, refused,  *)
(* delayed beyond the HTTP timeout or lost.  The ledger is the external    *)
(* part: it applies a transaction only at the account's next number, and   *)
(* an applied transaction's payments all succeed or all fail.  It also     *)
(* holds the transactions of other accounts, which pay whom they like and  *)
(* write the memos they like.                                              *)
(*                                                                         *)
(* A transaction stands for its own hash; a signature by the rail's own    *)
(* account exists exactly for what a call signed, while other accounts     *)
(* sign anything: SHA-256 is taken as injective, Ed25519 as unforgeable.   *)
(***************************************************************************)
EXTENDS Naturals, FiniteSets, SequencesExt

CONSTANTS
    Calls,          \* the calls of charge and charge_split, each made once
    Jobs,           \* what they may ask for: [kind, ref, legs]
    Own,            \* the signing account
    Foreign,        \* other accounts' transactions on the ledger: [tx, successful]
    Blank,          \* a reference that is empty once trimmed
    Addresses,      \* destinations that are valid StrKey accounts
    MaxAmount,      \* i64::MAX, in the instance's amounts
    MaxOperations,  \* tx::MAX_OPERATIONS
    MaxSeq          \* i64::MAX, and the bound on the account's history

Kinds == {"charge", "split"}
NoTx == [source |-> Own, legs |-> <<>>, seq |-> 0, memo |-> [domain |-> "none"]]

ASSUME StellarAssumption ==
    /\ \A j \in Jobs : /\ DOMAIN j = {"kind", "ref", "legs"}
                       /\ j.kind \in Kinds
                       /\ j.kind = "charge" => Len(j.legs) = 1
    /\ MaxAmount \in Nat /\ MaxOperations \in Nat /\ MaxSeq \in Nat
    /\ IsFiniteSet(Calls)
    /\ \A e \in Foreign : e.tx.source # Own

VARIABLES
    pc,         \* per call: "idle", "loading", "submitted" or "done"
    job,        \* per call: what it asks for
    tx,         \* per call: the transaction it signed, or NoTx
    result,     \* per call: how it returned
    receipts,   \* the receipts handed out
    seq,        \* the account's sequence number on the ledger
    wire,       \* the calls whose post the network may still apply
    chain       \* transactions of the account applied: [tx, successful]

callState == <<pc, job, tx, result, receipts>>
vars == <<callState, seq, wire, chain>>

Refs == {j.ref : j \in Jobs}
Total(legs) == FoldLeft(LAMBDA sum, leg : sum + leg.amount, 0, legs)

\* tx::memo_hash binds the paying account, the destination and the reference,
\* tx::split_memo_hash the account, the reference and every leg with its
\* amount, in order; their domains differ.
Memo(kind, source, ref, legs) ==
    [domain |-> kind, source |-> source, ref |-> ref,
     legs |-> IF kind = "charge"
              THEN [i \in DOMAIN legs |-> [legs[i] EXCEPT !.amount = 0]]
              ELSE legs]

Init ==
    /\ pc = [c \in Calls |-> "idle"]
    /\ job \in [Calls -> Jobs]
    /\ tx = [c \in Calls |-> NoTx]
    /\ result = [c \in Calls |-> "pending"]
    /\ receipts = {} /\ seq = 0 /\ wire = {} /\ chain = {}

-----------------------------------------------------------------------------
Finish(c, how) ==
    /\ pc' = [pc EXCEPT ![c] = "done"]
    /\ result' = [result EXCEPT ![c] = how]

\* What is checked before the first await, for a rail that has a signer, an
\* issuer and requests in USDC (without them every call ends in RefuseCall).
\* A split's leg of amount zero passes here and is refused by the builder.
Acceptable(j) ==
    /\ j.ref # Blank
    /\ \A i \in DOMAIN j.legs :
          /\ j.legs[i].dest \in Addresses
          /\ j.legs[i].amount <= MaxAmount
          /\ j.kind = "charge" => j.legs[i].amount > 0

\* tx::build_transaction takes any single leg, build_payment_transaction
\* refuses an empty or oversized bundle, a leg that pays nothing and a sum
\* beyond i64.
Buildable(j) ==
    \/ j.kind = "charge"
    \/ /\ Len(j.legs) \in 1..MaxOperations
       /\ \A i \in DOMAIN j.legs : j.legs[i].amount > 0
       /\ Total(j.legs) <= MaxAmount

Call(c) ==
    /\ pc[c] = "idle"
    /\ Acceptable(job[c])
    /\ pc' = [pc EXCEPT ![c] = "loading"]
    /\ UNCHANGED <<job, tx, result, receipts, seq, wire, chain>>

RefuseCall(c) ==
    /\ pc[c] = "idle"
    /\ ~Acceptable(job[c])
    /\ Finish(c, "invalid")
    /\ UNCHANGED <<job, tx, receipts, seq, wire, chain>>

\* load_sequence answers s; the transaction for s + 1 is built, signed and
\* posted before the next await.
Signed(j, s) ==
    [source |-> Own, legs |-> j.legs, seq |-> s + 1,
     memo |-> Memo(j.kind, Own, j.ref, j.legs)]

\* Mutant: the successor of the last number is not checked.
LoadAndSubmitUnchecked(c) ==
    /\ pc[c] = "loading"
    /\ Buildable(job[c])
    /\ pc' = [pc EXCEPT ![c] = "submitted"]
    /\ tx' = [tx EXCEPT ![c] = Signed(job[c], seq)]
    /\ wire' = wire \cup {c}
    /\ UNCHANGED <<job, result, receipts, seq, chain>>

LoadAndSubmit(c) ==
    /\ pc[c] = "loading"
    /\ seq < MaxSeq
    /\ Buildable(job[c])
    /\ pc' = [pc EXCEPT ![c] = "submitted"]
    /\ tx' = [tx EXCEPT ![c] = Signed(job[c], seq)]
    /\ wire' = wire \cup {c}
    /\ UNCHANGED <<job, result, receipts, seq, chain>>

\* Horizon cannot be asked, the number would overflow, or the builder
\* refuses: Error::Rail, and the call ends before anything was signed.
LoadFails(c) ==
    /\ pc[c] = "loading"
    /\ Finish(c, "rail")
    /\ UNCHANGED <<job, tx, receipts, seq, wire, chain>>

-----------------------------------------------------------------------------
(***************************************************************************)
(* The network and the ledger.                                             *)
(***************************************************************************)
Apply(c) ==
    /\ c \in wire
    /\ tx[c].seq = seq + 1
    /\ seq' = tx[c].seq
    /\ wire' = wire \ {c}
    /\ \E ok \in BOOLEAN :
          chain' = chain \cup {[tx |-> tx[c], successful |-> ok]}
    /\ UNCHANGED callState

Lose(c) ==
    /\ c \in wire
    /\ wire' = wire \ {c}
    /\ UNCHANGED <<callState, seq, chain>>

\* Another use of the account's key that writes no memo of charge or
\* charge_split, such as an instalment of a RecurringPlan.  (A second process
\* with this rail and the same key makes more Calls.)
OtherTransaction ==
    /\ seq < MaxSeq
    /\ seq' = seq + 1
    /\ UNCHANGED <<callState, wire, chain>>

-----------------------------------------------------------------------------
(***************************************************************************)
(* The answer to POST /transactions.                                       *)
(***************************************************************************)
ReceiptFor(j, x) ==
    [ref |-> j.ref, amount |-> Total(j.legs),
     binding |-> [kind |-> j.kind, source |-> x.source, legs |-> x.legs,
                  seq |-> x.seq, memo |-> x.memo, hash |-> x]]

Outcome(x) == {e.successful : e \in {f \in chain : f.tx = x}}

\* Horizon reports the transaction in a closed ledger, successful, under the
\* hash that was signed.  It answers a repeated post in the same way.
AnswerOk(c) ==
    /\ pc[c] = "submitted"
    /\ TRUE \in Outcome(tx[c])
    /\ Finish(c, "receipt")
    /\ receipts' = receipts \cup {ReceiptFor(job[c], tx[c])}
    /\ UNCHANGED <<job, tx, seq, wire, chain>>

\* Mutant: an answer that names no ledger will do.
AnswerNoFieldAnywhere(c) ==
    /\ pc[c] = "submitted"
    /\ Finish(c, "receipt")
    /\ receipts' = receipts \cup {ReceiptFor(job[c], tx[c])}
    /\ UNCHANGED <<job, tx, seq, wire, chain>>

\* Horizon reports the transaction in a closed ledger and leaves out the field
\* `successful` (unwrap_or(true)): the call takes it for a success, also when
\* the payments failed.
AnswerNoField(c) ==
    /\ pc[c] = "submitted"
    /\ Outcome(tx[c]) # {}
    /\ Finish(c, "receipt")
    /\ receipts' = receipts \cup {ReceiptFor(job[c], tx[c])}
    /\ UNCHANGED <<job, tx, seq, wire, chain>>

\* Mutant: without an answer the call starts over.
AnswerErrRetries(c) ==
    /\ pc[c] = "submitted"
    /\ pc' = [pc EXCEPT ![c] = "loading"]
    /\ UNCHANGED <<job, tx, result, receipts, seq, wire, chain>>

\* Mutant: no timeout: the call waits while its post is in flight.
AnswerErrNoTimeout(c) ==
    /\ pc[c] = "submitted"
    /\ c \notin wire
    /\ Finish(c, "rail")
    /\ UNCHANGED <<job, tx, receipts, seq, wire, chain>>

\* Anything else is one Error::Rail: the 20 s timeout, a status that is not
\* 2xx (tx_failed, tx_bad_seq, 504), a broken body, `successful` false, a hash
\* that is not the one signed.  The post itself goes its own way.
AnswerErr(c) ==
    /\ pc[c] = "submitted"
    /\ Finish(c, "rail")
    /\ UNCHANGED <<job, tx, receipts, seq, wire, chain>>

-----------------------------------------------------------------------------
(***************************************************************************)
(* PaymentRail::verify (kind "charge") and verify_split (kind "split").    *)
(* The cast `amount_minor as i64` maps only one u64 onto a positive i64,   *)
(* so for the positive sums a ledger accepts it is equality.               *)
(***************************************************************************)
ParsesAs(kind, b) == b.kind = kind
AmountAgrees(rc) == Total(rc.binding.legs) = rc.amount
\* Mutant: the memo is not derived again.
MemoUnchecked(kind, rc) == TRUE
MemoAgrees(kind, rc) ==
    rc.binding.memo = Memo(kind, rc.binding.source, rc.ref, rc.binding.legs)
SignedTxs == {tx[c] : c \in Calls} \ {NoTx}
Rebuilt(b) ==
    [source |-> b.source, legs |-> b.legs, seq |-> b.seq, memo |-> b.memo]
\* The signature is checked against the key the binding itself names.  What
\* this rail's account signed is what its calls signed; any other account may
\* have signed whatever is presented in its name.
SignatureHolds(b) ==
    /\ b.hash = Rebuilt(b)
    /\ b.source = Own => b.hash \in SignedTxs
Ledger == chain \cup Foreign
\* decode_single_payment refuses a transaction of several operations.
Decodes(kind, x) == kind = "charge" => Len(x.legs) = 1

\* Mutant: a failed transaction counts.
OnLedgerAnyOutcome(kind, b) ==
    \E e \in Ledger : /\ e.tx = b.hash
                     /\ Decodes(kind, e.tx)
                     /\ e.tx = Rebuilt(b)

\* get_transaction and the comparison with the envelope it returns.
OnLedger(kind, b) ==
    \E e \in Ledger : /\ e.tx = b.hash
                     /\ e.successful
                     /\ Decodes(kind, e.tx)
                     /\ e.tx = Rebuilt(b)

Verify(kind, rc) ==
    /\ ParsesAs(kind, rc.binding)
    /\ rc.binding.legs # <<>>
    /\ AmountAgrees(rc)
    /\ MemoAgrees(kind, rc)
    /\ SignatureHolds(rc.binding)
    /\ OnLedger(kind, rc.binding)

Step(c) ==
    \/ Call(c) \/ RefuseCall(c)
    \/ LoadAndSubmit(c) \/ LoadFails(c)
    \/ AnswerOk(c) \/ AnswerNoField(c) \/ AnswerErr(c)

Next ==
    \/ \E c \in Calls : Step(c)
    \/ \E c \in wire : Apply(c) \/ Lose(c)
    \/ OtherTransaction

Spec == Init /\ [][Next]_vars

\* Both HTTP requests of a call end, with an answer or at the client's
\* timeout, and the caller awaits them.  The network and the other users of
\* the account owe nothing.
FairSpec ==
    Spec /\ \A c \in Calls : WF_vars(LoadFails(c)) /\ WF_vars(AnswerErr(c))

-----------------------------------------------------------------------------
Made(c) == pc[c] # "idle"
Payments == {e.tx : e \in {f \in Ledger : f.successful}}

TypeOK ==
    /\ pc \in [Calls -> {"idle", "loading", "submitted", "done"}]
    /\ job \in [Calls -> Jobs]
    /\ \A c \in Calls :
          \/ tx[c] = NoTx
          \/ tx[c] \in {Signed(job[c], s) : s \in 0..(MaxSeq - 1)}
    /\ result \in [Calls -> {"pending", "invalid", "receipt", "rail"}]
    /\ seq \in 0..MaxSeq
    /\ wire \subseteq {c \in Calls : tx[c] # NoTx}
    /\ chain \subseteq [tx : SignedTxs, successful : BOOLEAN]

\* A receipt is proof of what the ledger says and of nothing else.  Its
\* transaction is in a closed ledger; it verifies, from the moment it exists
\* and for good, under the verify of its own kind and under no other, exactly
\* when the payments succeeded.  (An answer without `successful` makes charge
\* hand out a receipt for payments that failed: such a receipt never verifies.)
ReceiptIsProof ==
    \A rc \in receipts :
        /\ Outcome(rc.binding.hash) # {}
        /\ \A kind \in Kinds :
              Verify(kind, rc) <=> /\ rc.binding.kind = kind
                                   /\ rc.binding.hash \in Payments

Accounts == {Own} \cup {e.tx.source : e \in Foreign}
Good == {j \in Jobs : Acceptable(j) /\ Buildable(j)}
AnyMemo == {Memo(j.kind, a, j.ref, j.legs) : j \in Good, a \in Accounts}

\* What somebody may present: a transaction of this or of another account with
\* any one field of the binding replaced (the memo together with the kind it
\* says), under its old hash or under the hash that fits, for any reference and
\* amount.
Edits(x) ==
    LET As(k, a, l, s, m) ==
            [kind |-> k, source |-> a, legs |-> l, seq |-> s, memo |-> m]
        kind == x.memo.domain
    IN  {As(k, x.source, x.legs, x.seq, x.memo) : k \in Kinds}
        \cup {As(kind, a, x.legs, x.seq, x.memo) : a \in Accounts}
        \cup {As(kind, x.source, j.legs, x.seq, x.memo) : j \in Good}
        \cup {As(kind, x.source, x.legs, s, x.memo) : s \in 1..MaxSeq}
        \cup {As(m.domain, x.source, x.legs, x.seq, m) : m \in AnyMemo}

WithHash(b, h) ==
    [kind |-> b.kind, source |-> b.source, legs |-> b.legs, seq |-> b.seq,
     memo |-> b.memo, hash |-> h]

BindingsOn(txs) ==
    UNION {{WithHash(b, h) : b \in Edits(h)}
           \cup {WithHash(b, Rebuilt(b)) : b \in Edits(h)} : h \in txs}

ForeignBindings == BindingsOn({e.tx : e \in Foreign})
Bindings == BindingsOn(SignedTxs) \cup ForeignBindings

Presented ==
    [ref : Refs \ {Blank}, amount : 1..MaxAmount, binding : Bindings]

Verified == {rc \in Presented : Verify(rc.binding.kind, rc)}

\* verify and verify_split never accept what was not paid: whatever is
\* presented, a transaction of the account it names succeeded on the ledger,
\* paid exactly that total, and its sender had bound it to that kind, that
\* account and that reference.  In the name of this rail's own account it is a
\* transaction some call signed for exactly that; in another account's name
\* verify vouches for the payment and not for a call of this rail.
VerifiedIsPaid ==
    \A rc \in Verified :
        LET x == rc.binding.hash
        IN  /\ x \in Payments
            /\ x.source = rc.binding.source
            /\ Total(x.legs) = rc.amount
            /\ x.memo = Memo(rc.binding.kind, x.source, rc.ref, x.legs)
            /\ x.source = Own =>
                  \E c \in Calls : /\ tx[c] = x
                                   /\ job[c].ref = rc.ref
                                   /\ job[c].kind = rc.binding.kind
                                   /\ job[c].legs = x.legs

\* One payment settles one reference: no two receipts that verify on the
\* same transaction differ in anything.
OnePaymentOneReceipt ==
    \A r1, r2 \in Verified :
        r1.binding.hash = r2.binding.hash => r1 = r2

PaymentsOf(r) == {x \in Payments : x.source = Own /\ x.memo.ref = r}
CallsOf(r) == {c \in Calls : Made(c) /\ job[c].ref = r}

\* However answers are lost, numbers are raced for and posts are delayed, the
\* account pays a reference at most once per call made for it: a call that
\* ended in an error may still pay, and never more than once.
PaidAtMostOncePerCall ==
    \A r \in Refs : Cardinality(PaymentsOf(r)) <= Cardinality(CallsOf(r))

\* Every charge and every split returns.
EveryCallReturns == \A c \in Calls : Made(c) ~> pc[c] = "done"
=============================================================================
