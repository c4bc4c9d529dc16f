-------------------------- MODULE SolanaRailProofs --------------------------
(***************************************************************************)
(* Proofs about SolanaRail, for every set of requests, whatever others put *)
(* on chain, and every interleaving of charges, blocks and forks.          *)
(*                                                                         *)
(* The argument: verify asks for the exact balance changes of one transfer *)
(* and, at commitment finalized, for a level that no fork undoes.  An      *)
(* amount is not zero, so those changes name the payer and the destination,*)
(* and with the memo's digest of payer and reference they leave one receipt*)
(* per memo.  What charge signs has that shape, so a receipt that names it *)
(* verifies once it has landed.                                            *)
(***************************************************************************)
EXTENDS SolanaRail, TLAPS

\* What charge signs for a request.
Transaction(req, blockhash) ==
    serialize_message(cfg.signer, cfg.mint, req.destination, req.amount_minor,
                      binding_memo(cfg.signer, req.reference), blockhash)

CallIsPayable ==
    call.op = "send" => /\ cfg.signer # None /\ call.req \in Payable
                        /\ \E b \in 0..MaxHeight : call.message = Transaction(call.req, b)

ReceiptsAreSigned ==
    \A r \in receipts : \E req \in Payable, signature \in DOMAIN ledger \cup {Unheard} :
        /\ cfg.signer # None
        /\ r = Receipt(req.amount_minor, req.currency, req.reference,
                       Binding(signature, cfg.mint, cfg.signer,
                               req.destination, req.reference))

IInv == TypeOK /\ CallIsPayable /\ ReceiptsAreSigned

\* The receipt names the transaction that charge signed for it, as it does
\* whenever the node answers with the signature of what it was sent.
NamesItsOwn(r) ==
    \E b \in 0..MaxHeight :
        r.proof.tx_signature = serialize_message(r.proof.payer, cfg.mint, r.proof.destination,
                                   r.amount_minor, binding_memo(r.proof.payer, r.reference), b)

\* The completeness of verify: such a receipt verifies exactly when its
\* transaction has landed at the rail's commitment and did not fail --
\* unless the payer paid himself, which moves nothing.
Settled(txn) == get_transaction(txn) /\ ~ledger[txn].failed
SettledIsVerified ==
    \A r \in receipts :
        NamesItsOwn(r) => (verify(r) <=> /\ Settled(r.proof.tx_signature)
                                         /\ r.proof.payer # r.proof.destination)

-----------------------------------------------------------------------------
\* The fields of what charge builds.
LEMMA Fields ==
    ASSUME NEW amount, NEW currency, NEW reference, NEW txn, NEW mint, NEW payer,
           NEW dest
    PROVE  LET r == Receipt(amount, currency, reference,
                            Binding(txn, mint, payer, dest, reference))
           IN  /\ r.rail_id = "solana" /\ r.amount_minor = amount
               /\ r.currency = currency /\ r.reference = reference
               /\ r.proof.chain = "solana" /\ r.proof.tx_signature = txn
               /\ r.proof.mint = mint /\ r.proof.payer = payer
               /\ r.proof.destination = dest
               /\ r.proof.reference = binding_reference(payer, reference)
  BY DEF Receipt, Binding

Levels == {"pending", "processed", "confirmed", "finalized"}
Entry == [level : Levels, failed : BOOLEAN]

LEMMA RankType ==
    /\ DOMAIN Rank \cup {"pending"} = Levels
    /\ Rank["processed"] = 1 /\ Rank["confirmed"] = 2 /\ Rank["finalized"] = 3
  BY DEF Rank, Levels

\* A broadcast leaves what the chain has and adds at most the transaction.
LEMMA BroadcastStep ==
    ASSUME NEW txn, Broadcast(txn)
    PROVE  /\ DOMAIN ledger' = DOMAIN ledger \cup {txn}
           /\ \A t \in DOMAIN ledger : ledger'[t] = ledger[t]
           /\ txn \notin DOMAIN ledger => ledger'[txn] = Pending
  BY DEF Broadcast

LEMMA InitIInv == Init => IInv
<1> SUFFICES ASSUME Init PROVE IInv
  OBVIOUS
<1>1. DOMAIN ledger = {} /\ receipts = {} /\ call.op = "idle" /\ height = 0
  BY DEF Init, Idle
<1>2. TypeOK
  BY <1>1, BoundsAssumption DEF Init, TypeOK
<1> QED BY <1>1, <1>2 DEF IInv, CallIsPayable, ReceiptsAreSigned

\* Every entry of the ledger is well typed, broadcast included.
LEMMA ChainGrows ==
    ASSUME IInv, NEW txn, Broadcast(txn), UNCHANGED <<cfg, height>>,
           call'.op \in {"idle", "send"},
           \A r \in receipts' \ receipts : r.proof.tx_signature \in DOMAIN ledger' \cup {Unheard}
    PROVE  TypeOK'
<1>1. /\ DOMAIN ledger' = DOMAIN ledger \cup {txn}
      /\ \A t \in DOMAIN ledger : ledger'[t] = ledger[t]
      /\ txn \notin DOMAIN ledger => ledger'[txn] = Pending
  BY BroadcastStep
<1>2. Pending \in [level : DOMAIN Rank \cup {"pending"}, failed : BOOLEAN]
  BY DEF Pending
<1>3. \A r \in receipts' : r.proof.tx_signature \in DOMAIN ledger' \cup {Unheard}
  BY <1>1 DEF IInv, TypeOK
<1> QED BY <1>1, <1>2, <1>3 DEF IInv, TypeOK, Unheard

\* What becomes of a transaction on the chain touches nothing else.
LEMMA ChainMoves ==
    ASSUME IInv, NEW txn \in DOMAIN ledger, Land(txn) \/ Deepen(txn) \/ Fork(txn)
    PROVE  /\ DOMAIN ledger' = DOMAIN ledger
           /\ \A t \in DOMAIN ledger : t # txn => ledger'[t] = ledger[t]
           /\ ledger[txn] \in Entry /\ ledger'[txn] \in Entry
           /\ \/ ledger[txn].level = "pending"
              \/ ledger[txn].level = "processed"
              \/ ledger[txn].level = "confirmed"
           /\ UNCHANGED <<cfg, height, call, receipts>>
<1>1. ledger[txn] \in Entry
  BY RankType DEF IInv, TypeOK, Entry
<1>2. CASE Land(txn)
  BY <1>1, <1>2 DEF Land, Entry, Levels
<1>3. CASE Deepen(txn)
  <2>1. CASE ledger[txn].level = "processed"
    BY <1>1, <1>3, <2>1 DEF Deepen, Entry, Levels
  <2>2. CASE ledger[txn].level = "confirmed"
    BY <1>1, <1>3, <2>2 DEF Deepen, Entry, Levels
  <2> QED BY <1>3, <2>1, <2>2 DEF Deepen
<1>4. CASE Fork(txn)
  BY <1>1, <1>4 DEF Fork, Entry, Levels, Pending
<1> QED BY <1>2, <1>3, <1>4

\* The charge in flight ends, with or without a receipt, its transaction broadcast.
LEMMA SentIInv ==
    ASSUME IInv, call.op = "send", Broadcast(call.message), call' = Idle,
           UNCHANGED <<cfg, height>>,
           \/ UNCHANGED receipts
           \/ \E signature \in DOMAIN ledger' \cup {Unheard} :
                 receipts' = receipts \cup {SentReceipt(signature)}
    PROVE  IInv'
<1>1. call.req \in Payable /\ cfg.signer # None
  BY DEF IInv, CallIsPayable
<1>2. call'.op = "idle"
  BY DEF Idle
<1>3. PICK known : known = DOMAIN ledger' \cup {Unheard}
  OBVIOUS
<1>4. \A signature : SentReceipt(signature).proof.tx_signature = signature
  BY Fields DEF SentReceipt
<1>5. \A r \in receipts' \ receipts :
         \E signature \in known : r = SentReceipt(signature)
  BY <1>3
<1>6. \A r \in receipts' \ receipts : r.proof.tx_signature \in known
  BY <1>4, <1>5
<1>7. TypeOK'
  BY <1>2, <1>3, <1>6, ChainGrows
<1>8. ReceiptsAreSigned'
  <2> SUFFICES ASSUME NEW r \in receipts'
               PROVE  \E req \in Payable, signature \in known :
                         /\ cfg.signer # None
                         /\ r = Receipt(req.amount_minor, req.currency, req.reference,
                                        Binding(signature, cfg.mint, cfg.signer,
                                                req.destination, req.reference))
    BY <1>3 DEF ReceiptsAreSigned, Unheard
  <2>1. CASE r \in receipts
    <3>1. DOMAIN ledger \cup {Unheard} \subseteq known
      BY <1>3, BroadcastStep
    <3> QED BY <2>1, <3>1 DEF IInv, ReceiptsAreSigned
  <2>2. CASE r \notin receipts
    BY <1>1, <1>5, <2>2 DEF SentReceipt
  <2> QED BY <2>1, <2>2
<1> QED BY <1>2, <1>7, <1>8 DEF IInv, CallIsPayable

LEMMA NextIInv == ASSUME IInv, Next PROVE IInv'
<1>1. \A req, h : UNCHANGED cfg => Transaction(req, h)' = Transaction(req, h)
  BY DEF Transaction
<1>2. ASSUME NEW req \in Requests, ChargeBegin(req) PROVE IInv'
  <2>1. LatestBlockhash \in 0..MaxHeight
    BY BoundsAssumption DEF LatestBlockhash, IInv, TypeOK
  <2>2. /\ call'.op = "send" /\ call'.req = req
        /\ call'.message = Transaction(req, LatestBlockhash)
    BY <1>2 DEF ChargeBegin, Transaction
  <2>3. req \in Payable /\ cfg.signer # None
    BY <1>2 DEF ChargeBegin, Payable
  <2>4. UNCHANGED <<cfg, height, ledger, receipts>>
    BY <1>2 DEF ChargeBegin
  <2>5. TypeOK'
    BY <2>2, <2>4 DEF IInv, TypeOK
  <2>6. CallIsPayable'
    BY <1>1, <2>1, <2>2, <2>3, <2>4 DEF CallIsPayable
  <2>7. ReceiptsAreSigned'
    BY <1>1, <2>4 DEF IInv, ReceiptsAreSigned
  <2> QED BY <2>5, <2>6, <2>7 DEF IInv
<1>3. CASE ChargeSent \/ ChargeUnanswered
  BY <1>3, SentIInv DEF ChargeSent, ChargeUnanswered
<1>4. CASE ChargeRefused \/ Block
  <2>1. /\ UNCHANGED <<cfg, ledger, receipts>> /\ height' \in 0..MaxHeight
        /\ call'.op = "idle" \/ UNCHANGED call
    BY <1>4, BoundsAssumption DEF ChargeRefused, Block, Idle, IInv, TypeOK
  <2>2. TypeOK'
    BY <2>1 DEF IInv, TypeOK
  <2>3. CallIsPayable'
    BY <1>1, <2>1 DEF IInv, CallIsPayable
  <2>4. ReceiptsAreSigned'
    BY <1>1, <2>1 DEF IInv, ReceiptsAreSigned
  <2> QED BY <2>2, <2>3, <2>4 DEF IInv
<1>5. ASSUME NEW txn \in Foreign, Others(txn) PROVE IInv'
  <2>1. Broadcast(txn) /\ UNCHANGED <<cfg, height, call, receipts>>
    BY <1>5 DEF Others
  <2>2. TypeOK'
    <3>1. call'.op \in {"idle", "send"}
      BY <2>1 DEF IInv, TypeOK
    <3> QED BY <2>1, <3>1, ChainGrows
  <2>3. CallIsPayable'
    BY <1>1, <2>1 DEF IInv, CallIsPayable
  <2>4. ReceiptsAreSigned'
    <3>1. DOMAIN ledger \subseteq DOMAIN ledger'
      BY <2>1, BroadcastStep
    <3> QED BY <2>1, <3>1 DEF IInv, ReceiptsAreSigned, Unheard
  <2> QED BY <2>2, <2>3, <2>4 DEF IInv
<1>6. ASSUME NEW txn \in DOMAIN ledger, Land(txn) \/ Deepen(txn) \/ Fork(txn)
      PROVE  IInv'
  <2>1. /\ DOMAIN ledger' = DOMAIN ledger
        /\ \A t \in DOMAIN ledger : t # txn => ledger'[t] = ledger[t]
        /\ ledger'[txn] \in Entry
        /\ UNCHANGED <<cfg, height, call, receipts>>
    BY <1>6, ChainMoves
  <2>2. TypeOK'
    BY <2>1, RankType DEF IInv, TypeOK, Entry
  <2>3. CallIsPayable' /\ ReceiptsAreSigned'
    BY <1>1, <2>1 DEF IInv, CallIsPayable, ReceiptsAreSigned
  <2> QED BY <2>2, <2>3 DEF IInv
<1> QED BY <1>2, <1>3, <1>4, <1>5, <1>6 DEF Next

LEMMA Inductive == Spec => []IInv
<1>1. IInv /\ UNCHANGED vars => IInv'
  BY DEF vars, IInv, TypeOK, CallIsPayable, ReceiptsAreSigned, Transaction
<1> QED BY InitIInv, NextIInv, <1>1, PTL DEF Spec

-----------------------------------------------------------------------------
\* What verify has established when it says yes to a receipt for some money.
LEMMA VerifiedTerms ==
    ASSUME NEW r, verify(r), r.amount_minor \in Nat \ {0}
    PROVE  LET txn == r.proof.tx_signature
               p == r.proof.payer
               d == r.proof.destination
           IN  /\ p # d /\ txn.mint = cfg.mint
               /\ got(txn.moves, d) = r.amount_minor
               /\ got(txn.moves, p) = -r.amount_minor
               /\ \A who \in DOMAIN txn.moves :
                      txn.moves[who] # 0 => who \in {p, d}
               /\ p \in txn.signers
               /\ binding_memo(p, r.reference) \in txn.memos
<1> DEFINE txn == r.proof.tx_signature
           p == r.proof.payer
           d == r.proof.destination
           a == r.amount_minor
           deltas == mint_deltas(txn, cfg.mint)
           expected == {[who |-> d, want |-> a], [who |-> p, want |-> -a]}
<1>1. deltas_match(deltas, expected) /\ p \in txn.signers
  BY DEF verify
<1>2. binding_memo(p, r.reference) \in txn.memos
  BY DEF verify, memo_matches
<1>3. /\ got(deltas, d) = a /\ got(deltas, p) = -a
      /\ \A who \in DOMAIN deltas : deltas[who] # 0 => who \in {p, d}
  <2> HIDE DEF txn, p, d, a, deltas
  <2> QED BY <1>1 DEF deltas_match
<1>4. p # d
  BY <1>3
<1>5. txn.mint = cfg.mint
  <2> SUFFICES ASSUME txn.mint # cfg.mint PROVE FALSE
    OBVIOUS
  <2>1. deltas = <<>>
    BY DEF mint_deltas
  <2> QED BY <1>3, <2>1 DEF got
<1>6. deltas = txn.moves
  BY <1>5 DEF mint_deltas
<1> QED BY <1>1, <1>2, <1>3, <1>4, <1>5, <1>6

\* What a receipt presented about a transaction is made of.
LEMMA PresentedFields ==
    ASSUME NEW txn, NEW r \in Presented(txn)
    PROVE  /\ r.proof.tx_signature = txn /\ r.amount_minor \in Nat \ {0}
           /\ \E p, bound :
                 r = Receipt(r.amount_minor, "USDC", r.reference,
                        [Binding(txn, cfg.mint, p, r.proof.destination, bound)
                            EXCEPT !.payer = r.proof.payer])
<1>1. PICK a \in Amounts, ref \in References, bound \in References,
           p \in Parties, claimed \in Parties, d \in Parties :
         r = Receipt(a, "USDC", ref, [Binding(txn, cfg.mint, p, d, bound)
                                        EXCEPT !.payer = claimed])
  BY DEF Presented
<1>2. a \in Nat \ {0}
  BY InputsAssumption DEF Amounts, Payable, quote, validate
<1>3. /\ r.amount_minor = a /\ r.reference = ref /\ r.proof.tx_signature = txn
      /\ r.proof.payer = claimed /\ r.proof.destination = d
  BY <1>1 DEF Receipt, Binding
<1> QED BY <1>1, <1>2, <1>3

-----------------------------------------------------------------------------
\* The ledger, the charge in flight and the receipts stay well typed; in
\* particular no receipt names a transaction that was never broadcast.
THEOREM TypeCorrect == Spec => []TypeOK
  BY Inductive, PTL DEF IInv

\* Whatever receipt is presented, verify says yes only to a payment that
\* landed at the rail's commitment, did not fail, moved exactly the claimed
\* amount from the claimed payer to the claimed destination and nothing else,
\* and carries the receipt's own reference.
THEOREM OnlyPaymentsVerify == Spec => []VerifiedIsPaid
<1>1. IInv => VerifiedIsPaid
  <2> SUFFICES ASSUME IInv, NEW txn \in DOMAIN ledger, NEW r \in Presented(txn), verify(r)
               PROVE  /\ ledger[txn].level \in Commitments /\ ~ledger[txn].failed
                      /\ Pays(txn, r)
                      /\ binding_memo(r.proof.payer, r.reference) \in txn.memos
    BY DEF VerifiedIsPaid, Honoured
  <2>1. r.proof.tx_signature = txn /\ r.amount_minor \in Nat \ {0}
    BY PresentedFields
  <2>2. ledger[txn].level \in Commitments /\ ~ledger[txn].failed
    <3>1. get_transaction(txn) /\ ~ledger[txn].failed
      BY <2>1 DEF verify
    <3>2. ledger[txn].level \in Levels /\ cfg.commitment \in Commitments
      BY RankType DEF IInv, TypeOK
    <3> QED BY <3>1, <3>2, RankType DEF get_transaction, Levels, Commitments
  <2>3. Pays(txn, r)
    <3> DEFINE p == r.proof.payer
               d == r.proof.destination
               paid == transfer_checked(p, d, r.amount_minor)
    <3>1. /\ p # d /\ txn.mint = cfg.mint
          /\ got(txn.moves, d) = r.amount_minor
          /\ got(txn.moves, p) = -r.amount_minor
          /\ \A who \in DOMAIN txn.moves : txn.moves[who] # 0 => who \in {p, d}
          /\ p \in txn.signers
      BY <2>1, VerifiedTerms
    <3>2. cfg.mint = "usdc"
      BY DEF IInv, TypeOK
    <3>3. /\ DOMAIN paid = {p, d} /\ got(paid, p) = -r.amount_minor
          /\ got(paid, d) = r.amount_minor
      <4> HIDE DEF p, d
      <4> QED BY <3>1 DEF transfer_checked, got
    <3>4. ASSUME NEW who \in DOMAIN txn.moves \cup DOMAIN paid
          PROVE  got(txn.moves, who) = got(paid, who)
      <4>1. CASE who \in {p, d}
        BY <4>1, <3>1, <3>3
      <4>2. CASE who \notin {p, d}
        BY <4>2, <3>1, <3>3, <3>4 DEF got
      <4> QED BY <4>1, <4>2
    <3> QED BY <3>1, <3>2, <3>4 DEF Pays
  <2>4. binding_memo(r.proof.payer, r.reference) \in txn.memos
    BY <2>1, VerifiedTerms
  <2> QED BY <2>2, <2>3, <2>4
<1> QED BY <1>1, Inductive, PTL

\* Two receipts for one transaction that verify for the same payer and
\* reference are the same receipt.
LEMMA MemoNamesReceipt ==
    ASSUME NEW txn, NEW r \in Honoured(txn), NEW s \in Honoured(txn),
           r.proof.payer = s.proof.payer, r.reference = s.reference
    PROVE  r = s
<1> USE DEF Honoured
<1>1. /\ r.proof.tx_signature = txn /\ r.amount_minor \in Nat \ {0}
      /\ s.proof.tx_signature = txn /\ s.amount_minor \in Nat \ {0}
  BY PresentedFields
<1>2. r.amount_minor = s.amount_minor
  <2>1. /\ got(txn.moves, r.proof.payer) = -r.amount_minor
        /\ got(txn.moves, s.proof.payer) = -s.amount_minor
    BY <1>1, VerifiedTerms
  <2> QED BY <1>1, <2>1
<1>3. r.proof.destination = s.proof.destination
  <2>1. /\ r.proof.payer # r.proof.destination
        /\ got(txn.moves, r.proof.destination) = r.amount_minor
    BY <1>1, VerifiedTerms
  <2>2. /\ s.proof.payer # s.proof.destination
        /\ \A who \in DOMAIN txn.moves :
               txn.moves[who] # 0 => who \in {s.proof.payer, s.proof.destination}
    BY <1>1, VerifiedTerms
  <2>3. r.proof.destination \in DOMAIN txn.moves
    BY <1>1, <2>1 DEF got
  <2> QED BY <1>1, <2>1, <2>2, <2>3 DEF got
<1>4. r.proof.reference = s.proof.reference
  BY DEF verify
<1>5. PICK p1, b1 :
         r = Receipt(r.amount_minor, "USDC", r.reference,
                [Binding(txn, cfg.mint, p1, r.proof.destination, b1)
                    EXCEPT !.payer = r.proof.payer])
  BY PresentedFields
<1>6. PICK p2, b2 :
         s = Receipt(s.amount_minor, "USDC", s.reference,
                [Binding(txn, cfg.mint, p2, s.proof.destination, b2)
                    EXCEPT !.payer = s.proof.payer])
  BY PresentedFields
<1>7. r.proof = s.proof
  <2>1. r.proof = [Binding(txn, cfg.mint, p1, r.proof.destination, b1)
                      EXCEPT !.payer = r.proof.payer]
    BY <1>5 DEF Receipt
  <2>2. s.proof = [Binding(txn, cfg.mint, p2, s.proof.destination, b2)
                      EXCEPT !.payer = s.proof.payer]
    BY <1>6 DEF Receipt
  <2> QED BY <1>3, <1>4, <2>1, <2>2 DEF Binding
<1> QED BY <1>2, <1>5, <1>6, <1>7 DEF Receipt

\* A transaction with one memo, as charge writes it, verifies for one
\* receipt at most: its memo names payer and reference, its balances the rest.
THEOREM OneReceiptPerPayment == Spec => []OnePaymentOneReceipt
<1>1. IInv => OnePaymentOneReceipt
  <2> SUFFICES ASSUME NEW txn \in DOMAIN ledger, NEW only \in txn.memos, txn.memos = {only},
                      NEW r \in Honoured(txn), NEW s \in Honoured(txn)
               PROVE  r = s
    BY DEF OnePaymentOneReceipt
  <2>1. ASSUME NEW q \in Honoured(txn)
        PROVE  binding_memo(q.proof.payer, q.reference) = only
    <3>1. /\ q \in Presented(txn) /\ verify(q)
          /\ q.proof.tx_signature = txn /\ q.amount_minor \in Nat \ {0}
      BY <2>1, PresentedFields DEF Honoured
    <3>2. binding_memo(q.proof.payer, q.reference) \in txn.memos
      BY <3>1, VerifiedTerms
    <3> QED BY <3>2
  <2>2. binding_memo(r.proof.payer, r.reference) = binding_memo(s.proof.payer, s.reference)
    BY <2>1
  <2>3. r.proof.payer = s.proof.payer /\ r.reference = s.reference
    BY <2>2 DEF binding_memo, binding_reference
  <2> QED BY <2>3, MemoNamesReceipt
<1> QED BY <1>1, Inductive, PTL

\* A receipt that a rail configured for finality verified keeps verifying,
\* whatever forks, lands or is broadcast afterwards.
THEOREM VerifiedIsFinal == Spec => VerifiedStays
<1>1. IInv /\ [Next]_vars =>
         [cfg.commitment = "finalized" => \A r \in receipts : verify(r) => verify(r)']_vars
  <2> SUFFICES ASSUME IInv, [Next]_vars, cfg.commitment = "finalized", NEW r \in receipts, verify(r)
               PROVE  verify(r)'
    OBVIOUS
  <2> DEFINE txn == r.proof.tx_signature
  <2>1. txn \in DOMAIN ledger /\ Rank[ledger[txn].level] >= Rank[cfg.commitment]
        /\ ledger[txn].level # "pending"
    BY DEF verify, get_transaction
  <2>2. ledger[txn].level = "finalized"
    <3>1. ledger[txn].level \in Levels
      BY <2>1, RankType DEF IInv, TypeOK
    <3> QED BY <2>1, <3>1, RankType DEF Levels
  <2> DEFINE Kept == UNCHANGED cfg /\ txn \in DOMAIN ledger' /\ ledger'[txn] = ledger[txn]
  <2>3. Kept
    <3>1. ASSUME NEW t, Broadcast(t)
          PROVE  txn \in DOMAIN ledger' /\ ledger'[txn] = ledger[txn]
      BY <3>1, <2>1, BroadcastStep
    <3>2. ASSUME NEW t \in DOMAIN ledger, Land(t) \/ Deepen(t) \/ Fork(t)
          PROVE  Kept
      <4> HIDE DEF txn
      <4>1. /\ DOMAIN ledger' = DOMAIN ledger /\ UNCHANGED cfg
            /\ \A u \in DOMAIN ledger : u # t => ledger'[u] = ledger[u]
            /\ ledger[t].level # "finalized"
        BY <3>2, ChainMoves
      <4> QED BY <2>1, <2>2, <4>1
    <3>3. CASE UNCHANGED vars
      BY <3>3, <2>1 DEF vars
    <3> QED BY <2>1, <3>1, <3>2, <3>3 DEF Next, ChargeBegin, ChargeSent,
               ChargeUnanswered, ChargeRefused, Block, Others
  <2>4. get_transaction(txn)'
    BY <2>1, <2>3 DEF get_transaction
  <2>5. (~ledger[txn].failed)'
    BY <2>3 DEF verify
  <2> QED BY <2>3, <2>4, <2>5 DEF verify
<1> QED BY <1>1, Inductive, PTL DEF Spec, VerifiedStays

\* A receipt of charge that names the transaction charge signed verifies as
\* soon as, and as long as, that transaction is on chain at the rail's
\* commitment without having failed -- unless the payer paid himself, in
\* which case it never does.
THEOREM SettledReceiptsVerify == Spec => []SettledIsVerified
<1>1. IInv => SettledIsVerified
  <2> SUFFICES ASSUME IInv, NEW r \in receipts, NamesItsOwn(r)
               PROVE  verify(r) <=> /\ Settled(r.proof.tx_signature)
                                    /\ r.proof.payer # r.proof.destination
    BY DEF SettledIsVerified
  <2>1. PICK req \in Payable, txn \in DOMAIN ledger \cup {Unheard} :
           /\ cfg.signer # None
           /\ r = Receipt(req.amount_minor, req.currency, req.reference,
                          Binding(txn, cfg.mint, cfg.signer, req.destination, req.reference))
    BY DEF IInv, ReceiptsAreSigned
  <2> DEFINE p == cfg.signer
             d == req.destination
             a == req.amount_minor
  <2>2. /\ a \in Nat \ {0} /\ req.currency = "USDC" /\ p = "payer"
    BY <2>1, InputsAssumption DEF Payable, quote, validate, IInv, TypeOK
  <2>3. /\ r.rail_id = "solana" /\ r.amount_minor = a /\ r.currency = "USDC"
        /\ r.reference = req.reference /\ r.proof.chain = "solana"
        /\ r.proof.tx_signature = txn /\ r.proof.mint = cfg.mint
        /\ r.proof.payer = p /\ r.proof.destination = d
        /\ r.proof.reference = binding_reference(p, req.reference)
    BY <2>1, <2>2, Fields
  <2>4. /\ txn.signers = {p} /\ txn.mint = cfg.mint
        /\ txn.memos = {binding_memo(p, req.reference)}
        /\ txn.moves = transfer_checked(p, d, a)
    <3>1. PICK b \in 0..MaxHeight :
             txn = serialize_message(p, cfg.mint, d, a, binding_memo(p, req.reference), b)
      BY <2>3 DEF NamesItsOwn
    <3> QED BY <3>1 DEF serialize_message
  <2>5. verify(r) => Settled(txn) /\ p # d
    <3> SUFFICES ASSUME verify(r) PROVE Settled(txn) /\ p # d
      OBVIOUS
    <3>1. p # d
      BY <2>2, <2>3, VerifiedTerms
    <3> QED BY <3>1, <2>3 DEF verify, Settled
  <2>6. ASSUME Settled(txn), p # d PROVE verify(r)
    <3> DEFINE deltas == mint_deltas(txn, cfg.mint)
               expected == {[who |-> d, want |-> a], [who |-> p, want |-> -a]}
    <3>1. deltas = transfer_checked(p, d, a)
      BY <2>4 DEF mint_deltas
    <3>2. deltas_match(deltas, expected)
      <4> HIDE DEF p, d, a
      <4>1. DOMAIN deltas = {p, d} /\ deltas[p] = -a /\ deltas[d] = a
        BY <2>6, <3>1 DEF transfer_checked
      <4> HIDE DEF deltas
      <4>2. got(deltas, p) = -a /\ got(deltas, d) = a
        BY <4>1 DEF got
      <4> QED BY <4>1, <4>2 DEF deltas_match
    <3>3. memo_matches(txn, binding_memo(p, req.reference))
      BY <2>4 DEF memo_matches
    <3>4. get_transaction(txn) /\ ~ledger[txn].failed
      BY <2>6 DEF Settled
    <3> HIDE DEF p, d, a
    <3>5. pubkey_from_base58(p)
      BY <2>2 DEF pubkey_from_base58
    <3> QED BY <2>3, <2>4, <3>2, <3>3, <3>4, <3>5 DEF verify
  <2> QED BY <2>3, <2>5, <2>6
<1> QED BY <1>1, Inductive, PTL
=============================================================================
