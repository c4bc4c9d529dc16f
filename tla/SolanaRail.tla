----------------------------- MODULE SolanaRail -----------------------------
(***************************************************************************)
(* patala-solana: USDC transfers.  charge fetches a blockhash, signs one   *)
(* transaction (a memo that binds payer and reference, and the transfer)   *)
(* and returns a receipt as soon as an RPC node has taken it: whether it   *)
(* lands, fails or expires is decided later, and only verify tells.        *)
(*                                                                         *)
(* A signature is deterministic, so a transaction is identified by what it *)
(* says; a payer's key is its name; BLAKE3 and Ed25519 are injective.      *)
(***************************************************************************)
EXTENDS Integers, FiniteSets

CONSTANTS Requests,  \* the PayRequests of this rail's caller
          Foreign,   \* transactions that others broadcast
          Window,    \* the age, in blocks, at which a blockhash has expired
          MaxHeight, \* bound: the last block of an instance
          MaxSends,  \* bound: transactions ever broadcast
          MaxReceipts \* bound: receipts of an instance

ASSUME WindowAssumption == Window \in Nat \ {0}
ASSUME BoundsAssumption == MaxHeight \in Nat /\ MaxSends \in Nat

\* amount_minor is a u64.
ASSUME InputsAssumption == \A req \in Requests : req.amount_minor \in Nat

VARIABLES cfg,      \* the rail: its commitment, its mint, its signer (or none)
          height,   \* the chain's current block
          ledger,   \* what became of each broadcast transaction
          call,     \* the charge in flight, between its two requests
          receipts  \* what charge returned

vars == <<cfg, height, ledger, call, receipts>>

Idle == [op |-> "idle"]
None == "none"

-----------------------------------------------------------------------------
(* keys.rs, tx.rs: what is signed *)

\* Mutant: the digest leaves out the reference.
binding_reference_payer(payer, reference) == [payer |-> payer, reference |-> None]

\* binding_reference and binding_memo: a digest of payer and reference.
binding_reference(payer, reference) == [payer |-> payer, reference |-> reference]
binding_memo(payer, reference) == <<"patala:v1", binding_reference(payer, reference)>>

\* An address is a name of 32 bytes; everything else does not decode.
pubkey_from_base58(s) == s # "bad"

\* transfer_checked: what a transfer between two owners' token accounts does to each.
transfer_checked(source, dest, amount) ==
    [who \in {source, dest} |->
        IF source = dest THEN 0 ELSE IF who = source THEN -amount ELSE amount]

\* The message: signers, memos, transfer, mint, blockhash.  Its signature is its identity.
serialize_message(payer, mint, dest, amount, memo, blockhash) ==
    [signers |-> {payer}, memos |-> {memo}, mint |-> mint, blockhash |-> blockhash,
     moves |-> transfer_checked(payer, dest, amount)]

-----------------------------------------------------------------------------
(* lib.rs *)

\* Commitment::parse refuses "processed", which can be rolled back.
Commitments == {"confirmed", "finalized"}
Rank == [processed |-> 1, confirmed |-> 2, finalized |-> 3]

validate(req) == req.amount_minor # 0 /\ req.destination # "" /\ req.reference # ""

\* The two checks that quote and charge both begin with.
quote(req) == /\ validate(req)
              /\ req.currency = "USDC"

Binding(signature, mint, payer, destination, reference) ==
    [chain |-> "solana", tx_signature |-> signature, mint |-> mint, payer |-> payer,
     destination |-> destination, reference |-> binding_reference(payer, reference)]

Receipt(amount, currency, reference, proof) ==
    [rail_id |-> "solana", amount_minor |-> amount, currency |-> currency,
     reference |-> reference, proof |-> proof]

\* memo_matches: the memo is among the transaction's memos, inner instructions included.
memo_matches(txn, want) == want \in txn.memos

\* Mutant: the balances of every mint are added up.
mint_deltas_any(txn, mint) == txn.moves

\* mint_deltas: post minus pre balance of every owner, for that mint only.
mint_deltas(txn, mint) == IF txn.mint = mint THEN txn.moves ELSE <<>>

\* An owner who is not listed has no change.
got(deltas, who) == IF who \in DOMAIN deltas THEN deltas[who] ELSE 0

\* The two balance changes the receipt claims; nobody else's balance may change.
deltas_match(deltas, expected) ==
    /\ \A e \in expected : got(deltas, e.who) = e.want
    /\ \A who \in DOMAIN deltas : deltas[who] # 0 => \E e \in expected : e.who = who

\* Mutant: whatever the node has seen, at any commitment.
get_transaction_any(signature) ==
    /\ signature \in DOMAIN ledger
    /\ ledger[signature].level # "pending"

\* getTransaction at the configured commitment: nothing for a transaction below it.
get_transaction(signature) ==
    /\ signature \in DOMAIN ledger
    /\ ledger[signature].level # "pending"
    /\ Rank[ledger[signature].level] >= Rank[cfg.commitment]

\* verify with an RPC node that answers and is not behind.
verify(r) ==
    /\ r.rail_id = "solana"
    /\ r.currency = "USDC"
    /\ r.proof.chain = "solana"
    /\ r.proof.mint = cfg.mint
    /\ pubkey_from_base58(r.proof.payer)
    /\ r.proof.reference = binding_reference(r.proof.payer, r.reference)
    /\ get_transaction(r.proof.tx_signature)
    /\ ~ledger[r.proof.tx_signature].failed
    /\ r.proof.payer \in r.proof.tx_signature.signers
    /\ memo_matches(r.proof.tx_signature, binding_memo(r.proof.payer, r.reference))
    /\ deltas_match(mint_deltas(r.proof.tx_signature, cfg.mint),
                    {[who |-> r.proof.destination, want |-> r.amount_minor],
                     [who |-> r.proof.payer, want |-> -r.amount_minor]})

Init == /\ cfg \in [commitment : Commitments, mint : {"usdc"}, signer : {"payer", None}]
        /\ height = 0
        /\ ledger = <<>>
        /\ call = Idle
        /\ receipts = {}

\* getLatestBlockhash: a finalized block lags behind a confirmed one.
LatestBlockhash == IF cfg.commitment = "finalized" /\ height > 0 THEN height - 1 ELSE height

\* charge, up to the blockhash: every refusal comes before any request.
ChargeBegin(req) ==
    /\ call = Idle
    /\ quote(req)
    /\ cfg.signer # None
    /\ pubkey_from_base58(req.destination)
    /\ call' = [op |-> "send", req |-> req,
                message |-> serialize_message(cfg.signer, cfg.mint, req.destination, req.amount_minor,
                                              binding_memo(cfg.signer, req.reference),
                                              LatestBlockhash)]
    /\ UNCHANGED <<cfg, height, ledger, receipts>>

Fresh(txn) == height - txn.blockhash <= Window

Pending == [level |-> "pending", failed |-> FALSE]

\* Broadcasting what the chain knows already changes nothing.
Broadcast(txn) ==
    /\ Fresh(txn)
    /\ IF txn \in DOMAIN ledger THEN ledger' = ledger
       ELSE /\ Cardinality(DOMAIN ledger) < MaxSends
            /\ ledger' = [t \in DOMAIN ledger \cup {txn} |->
                             IF t = txn THEN Pending ELSE ledger[t]]

\* A signature the cluster has never heard of.
Unheard == [signers |-> {}, memos |-> {}, mint |-> None, blockhash |-> 0, moves |-> <<>>]

\* The receipt of the charge in flight, around the signature the node returned.
SentReceipt(signature) ==
    Receipt(call.req.amount_minor, call.req.currency, call.req.reference,
            Binding(signature, cfg.mint, cfg.signer, call.req.destination,
                    call.req.reference))

\* Mutant: a receipt for a transaction the node did not take.
ChargeSentUnsent ==
    /\ call.op = "send"
    /\ receipts' = receipts \cup {SentReceipt(call.message)}
    /\ call' = Idle
    /\ UNCHANGED <<cfg, height, ledger>>

\* sendTransaction took it: the receipt is returned before anything has landed.
\* It names the signature the node answered with, which charge does not compare
\* with the one it made: that of this transaction, of another, or of none.
ChargeSent ==
    /\ call.op = "send"
    /\ Cardinality(receipts) < MaxReceipts
    /\ Broadcast(call.message)
    /\ \E signature \in DOMAIN ledger' \cup {Unheard} :
          receipts' = receipts \cup {SentReceipt(signature)}
    /\ call' = Idle
    /\ UNCHANGED <<cfg, height>>

\* The answer was lost: charge is an error, and the transaction is out there.
ChargeUnanswered ==
    /\ call.op = "send"
    /\ Broadcast(call.message)
    /\ call' = Idle
    /\ UNCHANGED <<cfg, height, receipts>>

\* The request was lost, or the node refused it (an expired blockhash, a failed preflight).
ChargeRefused ==
    /\ call.op = "send"
    /\ call' = Idle
    /\ UNCHANGED <<cfg, height, ledger, receipts>>

-----------------------------------------------------------------------------
(* The cluster (external) *)

Block == /\ height < MaxHeight
         /\ height' = height + 1
         /\ UNCHANGED <<cfg, ledger, call, receipts>>

Others(txn) == /\ txn \notin DOMAIN ledger
               /\ Broadcast(txn)
               /\ UNCHANGED <<cfg, height, call, receipts>>

\* A transaction lands while its blockhash is fresh, and may fail as it does.
Land(txn) ==
    /\ ledger[txn].level = "pending"
    /\ Fresh(txn)
    /\ \E failed \in BOOLEAN :
          ledger' = [ledger EXCEPT ![txn] = [level |-> "processed", failed |-> failed]]
    /\ UNCHANGED <<cfg, height, call, receipts>>

Deepen(txn) ==
    /\ \/ /\ ledger[txn].level = "processed"
          /\ ledger' = [ledger EXCEPT ![txn].level = "confirmed"]
       \/ /\ ledger[txn].level = "confirmed"
          /\ ledger' = [ledger EXCEPT ![txn].level = "finalized"]
    /\ UNCHANGED <<cfg, height, call, receipts>>

\* Whatever is not finalized can still be rolled back, and may land again.
Fork(txn) ==
    /\ ledger[txn].level \in {"processed", "confirmed"}
    /\ ledger' = [ledger EXCEPT ![txn] = Pending]
    /\ UNCHANGED <<cfg, height, call, receipts>>

Next == \/ \E req \in Requests : ChargeBegin(req)
        \/ ChargeSent
        \/ ChargeUnanswered
        \/ ChargeRefused
        \/ Block
        \/ \E txn \in Foreign : Others(txn)
        \/ \E txn \in DOMAIN ledger : Land(txn) \/ Deepen(txn) \/ Fork(txn)

Spec == Init /\ [][Next]_vars

-----------------------------------------------------------------------------
TypeOK ==
    /\ cfg \in [commitment : Commitments, mint : {"usdc"}, signer : {"payer", None}]
    /\ height \in 0..MaxHeight
    /\ \A txn \in DOMAIN ledger : ledger[txn] \in [level : DOMAIN Rank \cup {"pending"}, failed : BOOLEAN]
    /\ call.op \in {"idle", "send"}
    /\ \A r \in receipts : r.proof.tx_signature \in DOMAIN ledger \cup {Unheard}

\* What anybody could hand to verify about a transaction: a receipt put together around it,
\* with any amount, reference, payer and destination that occur.
Payable == {q \in Requests : quote(q) /\ pubkey_from_base58(q.destination)}
References == {q.reference : q \in Payable}
Amounts == {q.amount_minor : q \in Payable}
Parties == {"payer"} \cup {q.destination : q \in Payable} \cup UNION {t.signers : t \in Foreign}
Presented(txn) ==
    {Receipt(a, "USDC", ref, [Binding(txn, cfg.mint, p, d, bound) EXCEPT !.payer = claimed]) :
        a \in Amounts, ref \in References, bound \in References,
        p \in Parties, claimed \in Parties, d \in Parties}
Honoured(txn) == {r \in Presented(txn) : verify(r)}

\* The payment a receipt stands for: from that payer to that destination, and no other
\* owner's balance is any different for it.
Pays(txn, r) ==
    LET paid == transfer_checked(r.proof.payer, r.proof.destination, r.amount_minor) IN
    /\ r.proof.payer \in txn.signers
    /\ txn.mint = "usdc"
    /\ \A who \in DOMAIN txn.moves \cup DOMAIN paid : got(txn.moves, who) = got(paid, who)

\* Whatever receipt is presented, forged or altered: verify says yes only to a payment that
\* landed, did not fail, went exactly where and came exactly from where the receipt says,
\* and was made for the receipt's own reference.
VerifiedIsPaid ==
    \A txn \in DOMAIN ledger : \A r \in Honoured(txn) :
        /\ ledger[txn].level \in Commitments /\ ~ledger[txn].failed
        /\ Pays(txn, r)
        /\ binding_memo(r.proof.payer, r.reference) \in txn.memos

\* One payment is one receipt: a transaction with one memo, as charge writes it, verifies
\* for one receipt at most, so no payment this rail made can be presented for two
\* references, nor for another payer, destination or amount.
OnePaymentOneReceipt ==
    \A txn \in DOMAIN ledger :
        (\E memo \in txn.memos : txn.memos = {memo}) => \A r, s \in Honoured(txn) : r = s

\* What the comment in verify says of its sixth check, of any transaction: "redeemable for
\* one (payer, reference) and nothing else".
OneReferencePerTransaction ==
    \A txn \in DOMAIN ledger : \A r, s \in Honoured(txn) :
        r.proof.payer = s.proof.payer /\ r.reference = s.reference

\* A rail that asks for finality gets it (docs of Commitment::Finalized: "cannot be rolled
\* back"): a receipt that verified keeps verifying, whatever forks.  A rail configured with
\* Confirmed has no such promise: a fork may take back what it verified.
VerifiedStays ==
    [][cfg.commitment = "finalized" => \A r \in receipts : verify(r) => verify(r)']_vars
=============================================================================
