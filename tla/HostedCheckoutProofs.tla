------------------------ MODULE HostedCheckoutProofs ------------------------
(***************************************************************************)
(* A caller, a fiat rail and its processor, for each of the 21 adapters    *)
(* and any orders: the caller books only what was paid, a charge that is   *)
(* repeated where the adapter sends a key makes no second session, a payer *)
(* is asked for the order's amount and currency, and a refund's receipt    *)
(* claims only what was given back.                                        *)
(*                                                                         *)
(* The adapters enter through the theorems of FiatRailsProofs alone.  The  *)
(* invariant Inv says what ties the caller's side to the processor's:      *)
(* which session a receipt can lead to, under which key a session was      *)
(* made, and that a session once refunded was paid before.  It says        *)
(* nothing of amounts: the second invariant, Trade, does, on top of it.    *)
(***************************************************************************)
EXTENDS HostedCheckout, FiatRailsProofs, SequenceTheorems

\* A sequence of whatever its elements are.
IsSeq(q) == q \in Seq({q[i] : i \in DOMAIN q})

\* The phases a session went through say that its money was taken, on Xendit perhaps in part.
Took(p, past) == "paid" \in past \/ (p = "xendit" /\ "short" \in past)

\* Some session of this order was paid.
Paid(q, ref) == \E i \in DOMAIN q : q[i].reference = ref /\ Took(provider, q[i].past)

\* The i-th session: made for an order of the caller, under the key of that order.
GoodSession(p, refs, s, i) ==
    /\ IsSession(s)
    /\ s.id = Ids[i]
    /\ s.reference \in refs \ {Blank}
    /\ s.key = KeyOf(p, s.reference)
    /\ s.phase \in s.past
    /\ s.past \subseteq Phases(p)
    /\ "refunded" \in s.past => "paid" \in s.past

\* A receipt of this rail for an order of the caller: it names no session, all of its
\* order's, or one that was made for its order.
GoodReceipt(p, refs, r, q) ==
    /\ IsReceipt(r)
    /\ r.rail_id = p
    /\ r.reference \in refs \ {Blank}
    /\ \/ Named(p, r) \in {Blank, r.reference}
       \/ \E i \in DOMAIN q : q[i].id = Named(p, r) /\ q[i].reference = r.reference

\* A call that waits for its second request holds a good receipt.
GoodCall ==
    /\ call.op \in {"idle", "capture", "refund"}
    /\ call.op # "idle" => GoodReceipt(provider, References, call.receipt, sessions)
    /\ call.op = "refund" => "refunded" \in Phases(provider)

\* A rail that was built is the provider's and holds the secret the processor signs with.
GoodRail == rail.ok => /\ rail.val.id = provider
                       /\ provider \notin Unkeyed => SecretOf(provider, rail.val) = "live"

\* What never changes: the rail and the orders.
Given == provider \in Rails /\ requests \in Orders[provider] /\ GoodRail

\* The processor's part: its sessions, and one per order where there are keys.
Processor ==
    /\ IsSeq(sessions)
    /\ Len(sessions) <= MaxSessions
    /\ \A i \in DOMAIN sessions : GoodSession(provider, References, sessions[i], i)
    /\ OneSessionPerReference

\* The inductive invariant.
Inv ==
    /\ Given
    /\ Processor
    /\ \A r \in receipts : GoodReceipt(provider, References, r, sessions)
    /\ GoodCall
    /\ book \in [References -> {"none", "paid"}]
    /\ BookedIsPaid
    /\ dropped \in BOOLEAN

-----------------------------------------------------------------------------
(* Names and sequences *)

\* No order of the caller is named by a processor's id.
LEMMA NoRefIsId ==
  ASSUME Given
  PROVE  \A ref \in References, i \in 1..MaxSessions : ref # Ids[i]
BY IdsAssumption DEF Given, References

\* The keys of a keyed adapter are never missing and differ where the references do.
LEMMA KeyFacts ==
  ASSUME NEW p, NEW a, NEW b
  PROVE  /\ p \in Keyed => KeyOf(p, a) # NoKey
         /\ p \notin Keyed => KeyOf(p, a) = NoKey
         /\ p \in Keyed /\ KeyOf(p, a) = KeyOf(p, b) => a = b
BY DEF Keyed, KeyOf, NoKey

\* A sequence over any set is one over its own elements.
LEMMA SeqIsSeq ==
  ASSUME NEW S, NEW q \in Seq(S)
  PROVE  IsSeq(q) /\ DOMAIN q = 1..Len(q) /\ Len(q) \in Nat
<1>1. Len(q) \in Nat /\ DOMAIN q = 1..Len(q) /\ q \in [1..Len(q) -> S]
  BY LenProperties
<1>2. q \in [1..Len(q) -> {q[i] : i \in DOMAIN q}]
  BY <1>1
<1>3. q \in Seq({q[i] : i \in DOMAIN q})
  BY <1>1, <1>2
<1> QED BY <1>1, <1>3 DEF IsSeq

\* A sequence with one element replaced.
Put(q, i, x) == [q EXCEPT ![i] = x]

\* Replacing one element.
LEMMA SeqUpdate ==
  ASSUME NEW q, IsSeq(q), NEW i \in DOMAIN q, NEW x, NEW w, w = Put(q, i, x)
  PROVE  /\ IsSeq(w) /\ Len(w) = Len(q) /\ DOMAIN w = DOMAIN q
         /\ w[i] = x /\ \A j \in DOMAIN q : j # i => w[j] = q[j]
<1> DEFINE S == {q[j] : j \in DOMAIN q} \cup {x}
<1>1. q \in Seq(S)
  BY SeqMonotonic DEF IsSeq
<1> HIDE DEF S
<1>2. i \in 1..Len(q) /\ x \in S
  BY <1>1, LenProperties DEF S
<1>3. w \in Seq(S) /\ Len(w) = Len(q)
  BY <1>1, <1>2, ExceptSeq DEF Put
<1>4. DOMAIN w = DOMAIN q
  BY <1>1, <1>3, LenProperties
<1>5. w[i] = x /\ \A j \in DOMAIN q : j # i => w[j] = q[j]
  BY DEF Put
<1> QED BY <1>3, <1>4, <1>5, SeqIsSeq

-----------------------------------------------------------------------------
(* Receipts and sessions *)

\* The session a receipt leads to was made for the receipt's own order.
LEMMA FoundIsOwn ==
  ASSUME Given, Processor, NEW r, GoodReceipt(provider, References, r, sessions),
         NEW i \in Found(Named(provider, r))
  PROVE  i \in DOMAIN sessions /\ sessions[i].reference = r.reference
<1>1. i \in DOMAIN sessions /\ Named(provider, r) \in {sessions[i].id, sessions[i].reference}
  BY DEF Found
<1>2. DOMAIN sessions \subseteq 1..MaxSessions
  <2>1. DOMAIN sessions = 1..Len(sessions) /\ Len(sessions) \in Nat
    BY SeqIsSeq DEF Processor, IsSeq
  <2> QED BY <2>1, MaxSessionsAssumption DEF Processor
<1>3. ASSUME NEW k \in DOMAIN sessions
      PROVE  /\ sessions[k].id = Ids[k] /\ sessions[k].id # Blank
             /\ sessions[k].reference \in References /\ sessions[k].reference # Blank
             /\ sessions[k].id \notin References
  BY <1>2, IdsAssumption, NoRefIsId DEF Processor, GoodSession
<1>4. CASE Named(provider, r) = Blank
  BY <1>1, <1>3, <1>4
<1>5. CASE Named(provider, r) = r.reference
  BY <1>1, <1>3, <1>5 DEF GoodReceipt
<1>6. CASE \E j \in DOMAIN sessions : /\ sessions[j].id = Named(provider, r)
                                       /\ sessions[j].reference = r.reference
  <2>1. PICK j \in DOMAIN sessions : /\ sessions[j].id = Named(provider, r)
                                     /\ sessions[j].reference = r.reference
    BY <1>6
  <2>2. Ids[i] = Ids[j]
    BY <1>1, <1>3, <2>1
  <2> QED BY <1>1, <1>2, <2>1, <2>2, IdsAssumption
<1> QED BY <1>4, <1>5, <1>6 DEF GoodReceipt

\* The sessions only gain: what a receipt leads to and what was paid stays so.
Grows(q, w) ==
    /\ DOMAIN q \subseteq DOMAIN w
    /\ \A i \in DOMAIN q : /\ w[i].id = q[i].id /\ w[i].reference = q[i].reference
                           /\ q[i].past \subseteq w[i].past

\* A receipt stays good and a paid order paid while sessions are added and move on.
LEMMA GrowsKeeps ==
  ASSUME NEW q, NEW w, Grows(q, w), NEW p, NEW refs
  PROVE  /\ \A r : GoodReceipt(p, refs, r, q) => GoodReceipt(p, refs, r, w)
         /\ \A ref : Paid(q, ref) => Paid(w, ref)
<1>1. ASSUME NEW r, GoodReceipt(p, refs, r, q)
      PROVE  GoodReceipt(p, refs, r, w)
  BY <1>1 DEF Grows, GoodReceipt
<1>2. ASSUME NEW ref, Paid(q, ref)
      PROVE  Paid(w, ref)
  BY <1>2 DEF Grows, Paid, Took
<1> QED BY <1>1, <1>2

\* A session that enters a phase of its rail stays a good session; a refund needs a payment.
LEMMA Entered ==
  ASSUME NEW p, NEW refs, NEW s, NEW i, GoodSession(p, refs, s, i), NEW phase \in Phases(p),
         phase = "refunded" => "paid" \in s.past, NEW t, t = Enter(s, phase)
  PROVE  /\ GoodSession(p, refs, t, i) /\ t.phase = phase
         /\ t.id = s.id /\ t.reference = s.reference /\ s.past \subseteq t.past
<1>1. t = [id |-> s.id, reference |-> s.reference, value |-> s.value, currency |-> s.currency,
           key |-> s.key, phase |-> phase, past |-> s.past \cup {phase}]
  BY DEF Enter, GoodSession, IsSession
<1>2. IsSession(t)
  BY <1>1 DEF IsSession
<1> QED BY <1>1, <1>2 DEF GoodSession

\* Replacing a session by one further on keeps the processor's part of the invariant.
LEMMA ReplacedSession ==
  ASSUME Processor, UNCHANGED given, NEW i \in DOMAIN sessions, NEW t,
         GoodSession(provider, References, t, i), t.reference = sessions[i].reference,
         sessions[i].past \subseteq t.past, sessions' = Put(sessions, i, t)
  PROVE  Processor' /\ Grows(sessions, sessions') /\ sessions'[i] = t
<1>1. /\ IsSeq(sessions') /\ Len(sessions') = Len(sessions) /\ DOMAIN sessions' = DOMAIN sessions
      /\ sessions'[i] = t /\ \A j \in DOMAIN sessions : j # i => sessions'[j] = sessions[j]
  <2>1. IsSeq(sessions)
    BY DEF Processor
  <2> QED BY <2>1, SeqUpdate
<1>2. provider' = provider /\ References' = References
  BY DEF given, References
<1>3. \A j \in DOMAIN sessions' : GoodSession(provider, References, sessions'[j], j)
  BY <1>1 DEF Processor
<1>4. Grows(sessions, sessions')
  BY <1>1 DEF Grows, Processor, GoodSession
<1>5. OneSessionPerReference'
  BY <1>1, <1>2 DEF Processor, OneSessionPerReference
<1> QED BY <1>1, <1>2, <1>3, <1>4, <1>5 DEF Processor

\* A receipt whose amount the caller filled in leads where it led before.
LEMMA FilledReceipt ==
  ASSUME provider \in Providers, NEW r, GoodReceipt(provider, References, r, sessions),
         NEW v \in Filled(r)
  PROVE  GoodReceipt(provider, References, v, sessions) /\ v.reference = r.reference
<1>1. CASE v = r
  BY <1>1
<1>2. CASE v # r
  <2>1. PICK a : v = [r EXCEPT !.amount_minor = a]
    BY <1>2 DEF Filled
  <2>2. v = [rail_id |-> r.rail_id, amount_minor |-> a, currency |-> r.currency,
             reference |-> r.reference, proof |-> r.proof]
    BY <2>1 DEF GoodReceipt, IsReceipt
  <2>3. /\ IsReceipt(v) /\ v.rail_id = r.rail_id /\ v.reference = r.reference
        /\ v.proof = r.proof
    BY <2>2 DEF IsReceipt
  <2>4. Named(provider, v) = Named(provider, r)
    BY <2>3, NamedBy
  <2> QED BY <2>3, <2>4 DEF GoodReceipt
<1> QED BY <1>1, <1>2

\* A session whose money was taken was paid, whatever happened to it since.
LEMMA TakenIsPaid ==
  ASSUME NEW p, NEW refs, NEW s, NEW i, GoodSession(p, refs, s, i),
         s.phase \in {"paid", "refunded"} \/ (p = "xendit" /\ s.phase = "short")
  PROVE  Took(p, s.past)
BY DEF GoodSession, Took

\* verify of a receipt of the caller: true means that the receipt's own order was paid.
LEMMA VerifiedIsPaid ==
  ASSUME Given, Processor, NEW r, GoodReceipt(provider, References, r, sessions),
         NEW i \in Found(Named(provider, r)), NEW net,
         Verify(provider, rail.val, r, net, Payload(provider, sessions[i])) = Ok(TRUE)
  PROVE  Paid(sessions, r.reference)
<1>1. i \in DOMAIN sessions /\ sessions[i].reference = r.reference
  BY FoundIsOwn
<1>2. provider \in Providers
  BY RailsAssumption DEF Given
<1>3. GoodSession(provider, References, sessions[i], i)
  BY <1>1 DEF Processor
<1>4. sessions[i].phase \in Phases(provider)
  BY <1>3 DEF GoodSession
<1>5. \/ sessions[i].phase \in {"paid", "refunded"}
      \/ provider = "xendit" /\ sessions[i].phase = "short"
  BY <1>2, <1>4, VerifyIsSound
<1> QED BY <1>1, <1>3, <1>5, TakenIsPaid DEF Paid

-----------------------------------------------------------------------------
(* The steps *)

\* What is left of the invariant once sessions have only gained.
LEMMA Gained ==
  ASSUME Inv, UNCHANGED <<given, receipts, dropped>>, Processor', Grows(sessions, sessions'),
         book' \in [References -> {"none", "paid"}], GoodCall',
         \A ref \in References : book'[ref] = "paid" =>
            book[ref] = "paid" \/ Paid(sessions', ref)
  PROVE  Inv'
<1>1. /\ provider' = provider /\ rail' = rail /\ requests' = requests
      /\ References' = References
  BY DEF given, References
<1>2. Given'
  BY <1>1 DEF Inv, Given, GoodRail
<1>3. \A r \in receipts' : GoodReceipt(provider', References', r, sessions')
  BY <1>1, GrowsKeeps DEF Inv
<1>4. ASSUME NEW ref \in References, book'[ref] = "paid"
      PROVE  Paid(sessions', ref)
  <2>1. book[ref] = "paid" => Paid(sessions, ref)
    BY DEF Inv, BookedIsPaid, Paid, Took
  <2> QED BY <1>4, <2>1, GrowsKeeps
<1>5. BookedIsPaid'
  BY <1>1, <1>4 DEF BookedIsPaid, Paid, Took
<1> QED BY <1>1, <1>2, <1>3, <1>5 DEF Inv

\* The pending call stays good while sessions only gain.
LEMMA CallKept ==
  ASSUME Inv, UNCHANGED given, Grows(sessions, sessions'), call' = call \/ call' = Idle
  PROVE  GoodCall'
<1>1. provider' = provider /\ References' = References
  BY DEF given, References
<1>2. CASE call' = call
  BY <1>1, <1>2, GrowsKeeps DEF Inv, GoodCall
<1>3. CASE call' = Idle
  BY <1>3 DEF GoodCall, Idle
<1> QED BY <1>2, <1>3

\* Nothing changed is also a gain.
LEMMA SameGrows ==
  ASSUME Processor, UNCHANGED <<given, sessions>>
  PROVE  Processor' /\ Grows(sessions, sessions')
<1>1. Grows(sessions, sessions')
  BY DEF Grows
<1>2. Processor'
  BY DEF Processor, given, References, OneSessionPerReference
<1> QED BY <1>1, <1>2

\* A payer pays, pays the wrong amount, approves or gives up; a merchant refunds.
LEMMA AdvanceStep ==
  ASSUME Inv, NEW i \in DOMAIN sessions, Advance(i)
  PROVE  Inv'
<1>1. PICK phase \in Phases(provider) :
         /\ <<sessions[i].phase, phase>> \in Steps
         /\ sessions' = [sessions EXCEPT ![i] = Enter(@, phase)]
  BY DEF Advance
<1>2. PICK t : t = Enter(sessions[i], phase)
  OBVIOUS
<1>3. GoodSession(provider, References, sessions[i], i)
  BY DEF Inv, Processor
<1>4. phase = "refunded" => "paid" \in sessions[i].past
  BY <1>1, <1>3 DEF Steps, GoodSession
<1>5. /\ GoodSession(provider, References, t, i) /\ t.reference = sessions[i].reference
      /\ sessions[i].past \subseteq t.past
  BY <1>2, <1>3, <1>4, Entered
<1>6. sessions' = Put(sessions, i, t)
  BY <1>1, <1>2 DEF Put
<1>7. UNCHANGED <<given, receipts, call, book, dropped>>
  BY DEF Advance, given
<1>8. Processor' /\ Grows(sessions, sessions')
  BY <1>5, <1>6, <1>7, ReplacedSession DEF Inv
<1>9. GoodCall'
  BY <1>7, <1>8, CallKept
<1> QED BY <1>7, <1>8, <1>9, Gained DEF Inv

\* verify: what it books was paid, and a call left waiting for its capture holds a good receipt.
LEMMA VerifyStep ==
  ASSUME Inv, NEW r \in receipts, NEW v \in Filled(r), NEW net, VerifyCall(v, net)
  PROVE  Inv'
<1>1. provider \in Providers /\ GoodReceipt(provider, References, r, sessions)
  BY RailsAssumption DEF Inv, Given
<1>2. GoodReceipt(provider, References, v, sessions) /\ v.reference \in References
  BY <1>1, FilledReceipt DEF GoodReceipt
<1>3. UNCHANGED <<given, sessions, receipts, dropped>>
  BY DEF VerifyCall, given
<1>4. Processor' /\ Grows(sessions, sessions') /\ References' = References /\ provider' = provider
  BY <1>3, SameGrows DEF Inv, References, given
<1>5. PICK i \in Found(Named(provider, v)) :
        \/ /\ Verify(provider, rail.val, v, net, Payload(provider, sessions[i])) = Ok(TRUE)
           /\ Book(v.reference)
           /\ call' = Idle
        \/ /\ call' = [op |-> "capture", receipt |-> v]
           /\ book' = book
  BY DEF VerifyCall
<1>6. CASE /\ Verify(provider, rail.val, v, net, Payload(provider, sessions[i])) = Ok(TRUE)
           /\ Book(v.reference)
           /\ call' = Idle
  <2>1. Paid(sessions, v.reference)
    BY <1>2, <1>6, VerifiedIsPaid DEF Inv
  <2>2. /\ book' \in [References -> {"none", "paid"}]
        /\ \A ref \in References : book'[ref] = "paid" => book[ref] = "paid" \/ Paid(sessions', ref)
    BY <1>2, <1>3, <1>6, <2>1 DEF Book, Inv
  <2>3. GoodCall'
    BY <1>3, <1>4, <1>6, CallKept
  <2> QED BY <1>3, <1>4, <2>2, <2>3, Gained
<1>7. CASE call' = [op |-> "capture", receipt |-> v] /\ book' = book
  <2>1. GoodCall'
    BY <1>2, <1>3, <1>4, <1>7 DEF GoodCall
  <2> QED BY <1>3, <1>4, <1>7, <2>1, Gained DEF Inv
<1> QED BY <1>5, <1>6, <1>7

\* The second request of PayPal's verify: it books only if the capture it made completed.
LEMMA CaptureStep ==
  ASSUME Inv, NEW net, CaptureCall(net)
  PROVE  Inv'
<1>1. provider \in Providers /\ GoodReceipt(provider, References, call.receipt, sessions)
  BY RailsAssumption DEF Inv, Given, GoodCall, CaptureCall
<1>2. UNCHANGED <<given, receipts, dropped>> /\ call' = Idle
  BY DEF CaptureCall, given
<1>3. PICK outcome, i, s, x :
        /\ outcome \in {"paid", "pending"} /\ i \in Found(Named(provider, call.receipt))
        /\ \/ s = sessions[i]
           \/ s = Enter(sessions[i], outcome) /\ sessions[i].phase = "approved"
        /\ sessions' = [sessions EXCEPT ![i] = s]
        /\ \/ /\ VerifyCaptured(provider, rail.val, call.receipt, x, Payload(provider, s)) = Ok(TRUE)
              /\ Book(call.receipt.reference)
           \/ book' = book
  <2>1. PICK outcome \in {"paid", "pending"}, i \in Found(Named(provider, call.receipt)) :
          LET takes == Reached(net) /\ sessions[i].phase = "approved"
              s == IF takes THEN Enter(sessions[i], outcome) ELSE sessions[i]
          IN  /\ sessions' = [sessions EXCEPT ![i] = s]
              /\ \E res \in {VerifyCaptured(provider, rail.val, call.receipt,
                                   IF Reached(net) /\ ~takes THEN "http_error" ELSE net,
                                   Payload(provider, s))} :
                    IF res = Ok(TRUE) THEN Book(call.receipt.reference) ELSE book' = book
    BY DEF CaptureCall
  <2> DEFINE takes == Reached(net) /\ sessions[i].phase = "approved"
             s == IF takes THEN Enter(sessions[i], outcome) ELSE sessions[i]
             x == IF Reached(net) /\ ~takes THEN "http_error" ELSE net
  <2>2. sessions' = [sessions EXCEPT ![i] = s]
    BY <2>1
  <2>3. \/ /\ VerifyCaptured(provider, rail.val, call.receipt, x, Payload(provider, s)) = Ok(TRUE)
           /\ Book(call.receipt.reference)
        \/ book' = book
    BY <2>1
  <2>4. \/ s = sessions[i]
        \/ s = Enter(sessions[i], outcome) /\ sessions[i].phase = "approved"
    OBVIOUS
  <2> HIDE DEF s, x
  <2> QED BY <2>2, <2>3, <2>4
<1>4. i \in DOMAIN sessions /\ sessions[i].reference = call.receipt.reference
  BY <1>1, <1>3, FoundIsOwn DEF Inv
<1>5. GoodSession(provider, References, sessions[i], i)
  BY <1>4 DEF Inv, Processor
<1>6. /\ GoodSession(provider, References, s, i) /\ s.reference = sessions[i].reference
      /\ sessions[i].past \subseteq s.past
  <2>1. CASE s = sessions[i]
    BY <1>5, <2>1
  <2>2. CASE s = Enter(sessions[i], outcome) /\ sessions[i].phase = "approved"
    <3>1. outcome \in Phases(provider) /\ outcome # "refunded"
      BY <1>1, <1>3, <1>5, <2>2, PhasesFacts DEF GoodSession
    <3> QED BY <1>5, <2>2, <3>1, Entered
  <2> QED BY <1>3, <2>1, <2>2
<1>7. Processor' /\ Grows(sessions, sessions') /\ sessions'[i] = s
  <2>1. sessions' = Put(sessions, i, s)
    BY <1>3 DEF Put
  <2> QED BY <1>2, <1>4, <1>6, <2>1, ReplacedSession DEF Inv
<1>8. GoodCall'
  BY <1>2, <1>7, CallKept
<1>9. CASE book' = book
  BY <1>2, <1>7, <1>8, <1>9, Gained DEF Inv
<1>10. CASE /\ VerifyCaptured(provider, rail.val, call.receipt, x, Payload(provider, s)) = Ok(TRUE)
            /\ Book(call.receipt.reference)
  <2>1. s.phase \in {"paid", "refunded"}
    BY <1>1, <1>10, CaptureIsSound
  <2>2. Took(provider, s.past)
    BY <1>6, <2>1, TakenIsPaid
  <2>3. Paid(sessions', call.receipt.reference)
    BY <1>4, <1>6, <1>7, <2>2 DEF Paid, Grows
  <2>4. /\ book' \in [References -> {"none", "paid"}]
        /\ \A ref \in References : book'[ref] = "paid" => book[ref] = "paid" \/ Paid(sessions', ref)
    BY <1>1, <1>10, <2>3 DEF Book, Inv, GoodReceipt
  <2> QED BY <1>2, <1>7, <1>8, <2>4, Gained
<1> QED BY <1>3, <1>9, <1>10

\* The first half of refund touches no session and no booking.
LEMMA RefundBeginStep ==
  ASSUME Inv, NEW r \in receipts, NEW v \in Filled(r), NEW net, RefundBegin(v, net)
  PROVE  Inv'
<1>1. provider \in Providers /\ GoodReceipt(provider, References, r, sessions)
  BY RailsAssumption DEF Inv, Given
<1>2. GoodReceipt(provider, References, v, sessions)
  BY <1>1, FilledReceipt
<1>3. UNCHANGED <<given, sessions, receipts, book, dropped>>
  BY DEF RefundBegin, given
<1>4. Processor' /\ Grows(sessions, sessions') /\ References' = References /\ provider' = provider
  BY <1>3, SameGrows DEF Inv, References, given
<1>5. PICK i, ask : /\ ask = RefundLookup(provider, rail.val, v, net, Payload(provider, sessions[i]))
                    /\ ask.ok
                    /\ call' = [op |-> "refund", receipt |-> v, ask |-> ask.val]
  BY DEF RefundBegin
<1>6. "refunded" \in Phases(provider)
  BY <1>1, <1>5, PhasesFacts
<1>7. GoodCall'
  BY <1>2, <1>3, <1>4, <1>5, <1>6 DEF GoodCall
<1> QED BY <1>3, <1>4, <1>7, Gained DEF Inv

\* The second half of refund: only a paid session becomes a refunded one.
LEMMA RefundPostStep ==
  ASSUME Inv, NEW net, NEW done, RefundPost(net, done)
  PROVE  Inv'
<1>1. /\ GoodReceipt(provider, References, call.receipt, sessions)
      /\ "refunded" \in Phases(provider)
  BY DEF Inv, GoodCall, RefundPost
<1>2. UNCHANGED <<given, receipts, book, dropped>> /\ call' = Idle
  BY DEF RefundPost, given
<1>3. PICK i, t :
        /\ i \in Found(Named(provider, call.receipt))
        /\ \/ t = sessions[i]
           \/ t = Enter(sessions[i], "refunded") /\ sessions[i].phase = "paid"
        /\ sessions' = [sessions EXCEPT ![i] = t]
  <2>1. PICK i \in Found(Named(provider, call.receipt)) :
          LET takes == /\ Reached(net)
                       /\ sessions[i].phase = "paid"
                       /\ call.ask.full \/ call.ask.value = sessions[i].value
          IN  sessions' = [sessions EXCEPT ![i] = IF takes /\ done THEN Enter(@, "refunded") ELSE @]
    BY DEF RefundPost
  <2> DEFINE takes == /\ Reached(net)
                      /\ sessions[i].phase = "paid"
                      /\ call.ask.full \/ call.ask.value = sessions[i].value
             t == IF takes /\ done THEN Enter(sessions[i], "refunded") ELSE sessions[i]
  <2>2. sessions' = [sessions EXCEPT ![i] = t]
    BY <2>1
  <2>3. \/ t = sessions[i]
        \/ t = Enter(sessions[i], "refunded") /\ sessions[i].phase = "paid"
    OBVIOUS
  <2> HIDE DEF t
  <2> QED BY <2>2, <2>3
<1>4. i \in DOMAIN sessions
  BY <1>3 DEF Found
<1>5. GoodSession(provider, References, sessions[i], i)
  BY <1>4 DEF Inv, Processor
<1>6. /\ GoodSession(provider, References, t, i) /\ t.reference = sessions[i].reference
      /\ sessions[i].past \subseteq t.past
  <2>1. CASE t = sessions[i]
    BY <1>5, <2>1
  <2>2. CASE t = Enter(sessions[i], "refunded") /\ sessions[i].phase = "paid"
    <3>1. "paid" \in sessions[i].past
      BY <1>5, <2>2 DEF GoodSession
    <3> QED BY <1>1, <1>5, <2>2, <3>1, Entered
  <2> QED BY <1>3, <2>1, <2>2
<1>7. Processor' /\ Grows(sessions, sessions')
  <2>1. sessions' = Put(sessions, i, t)
    BY <1>3 DEF Put
  <2> QED BY <1>2, <1>4, <1>6, <2>1, ReplacedSession DEF Inv
<1>8. GoodCall'
  BY <1>2, <1>7, CallKept
<1> QED BY <1>2, <1>7, <1>8, Gained DEF Inv

\* The session a charge is answered with is made for the order that was charged: a new one,
\* or the one made under the same key.
LEMMA ChargedSession ==
  ASSUME Inv, NEW req \in requests, NEW posted, posted = ChargeRequest(provider, rail.val, req),
         posted.ok, NEW phase \in FirstPhases, NEW s,
         \/ SameKey(posted.val) = {} /\ s = NewSession(posted.val, phase)
         \/ \E i \in SameKey(posted.val) : s = sessions[i]
  PROVE  s.reference = req.reference /\ req.reference \in References \ {Blank}
<1>1. provider \in Providers
  BY RailsAssumption DEF Inv, Given
<1>2. /\ posted.val.reference = req.reference /\ req.reference # Blank
      /\ posted.val.key = KeyOf(provider, req.reference)
  BY <1>1, PostedReference
<1>3. req.reference \in References
  BY DEF References
<1>4. CASE s = NewSession(posted.val, phase)
  BY <1>2, <1>3, <1>4 DEF NewSession
<1>5. CASE \E i \in SameKey(posted.val) : s = sessions[i]
  <2>1. PICK i \in DOMAIN sessions : /\ s = sessions[i] /\ posted.val.key # NoKey
                                     /\ sessions[i].key = posted.val.key
    BY <1>5 DEF SameKey
  <2>2. s.key = KeyOf(provider, s.reference)
    BY <2>1 DEF Inv, Processor, GoodSession
  <2> QED BY <1>2, <1>3, <2>1, <2>2, KeyFacts
<1> QED BY <1>4, <1>5

\* The sequence of sessions with one more at its end.
LEMMA SessionAppended ==
  ASSUME IsSeq(sessions), NEW s, sessions' = Append(sessions, s)
  PROVE  /\ IsSeq(sessions') /\ Len(sessions) \in Nat /\ Len(sessions') = Len(sessions) + 1
         /\ DOMAIN sessions = 1..Len(sessions) /\ DOMAIN sessions' = 1..(Len(sessions) + 1)
         /\ sessions'[Len(sessions) + 1] = s /\ \A j \in DOMAIN sessions : sessions'[j] = sessions[j]
<1> DEFINE S == {sessions[j] : j \in DOMAIN sessions} \cup {s}
<1>1. sessions \in Seq(S) /\ s \in S
  BY SeqMonotonic DEF IsSeq
<1> HIDE DEF S
<1>2. /\ sessions' \in Seq(S) /\ Len(sessions') = Len(sessions) + 1
      /\ sessions'[Len(sessions) + 1] = s
      /\ \A j \in 1..Len(sessions) : sessions'[j] = sessions[j]
  BY <1>1, AppendProperties
<1> QED BY <1>1, <1>2, SeqIsSeq

\* A new session is a good one, and where there are keys the only one of its order.
LEMMA NewSessionAdded ==
  ASSUME Inv, UNCHANGED given, NEW req \in requests,
         NEW posted, posted = ChargeRequest(provider, rail.val, req), posted.ok,
         SameKey(posted.val) = {}, NEW phase \in FirstPhases, NEW s, s = NewSession(posted.val, phase),
         Len(sessions) < MaxSessions, sessions' = Append(sessions, s)
  PROVE  Processor' /\ Grows(sessions, sessions')
<1> DEFINE n == Len(sessions) + 1
<1>1. provider \in Providers
  BY RailsAssumption DEF Inv, Given
<1>2. /\ posted.val.reference = req.reference /\ req.reference # Blank
      /\ posted.val.key = KeyOf(provider, req.reference) /\ req.reference \in References
  BY <1>1, PostedReference DEF References
<1>3. provider' = provider /\ References' = References
  BY DEF given, References
<1>4. IsSeq(sessions)
  BY DEF Inv, Processor
<1>5. /\ IsSeq(sessions') /\ Len(sessions) \in Nat /\ Len(sessions') = n
      /\ DOMAIN sessions = 1..Len(sessions) /\ DOMAIN sessions' = 1..n
      /\ sessions'[n] = s /\ \A j \in DOMAIN sessions : sessions'[j] = sessions[j]
  BY <1>4, SessionAppended
<1>6. GoodSession(provider, References, s, n)
  <2>1. s = [id |-> Ids[n], reference |-> req.reference, value |-> posted.val.value,
             currency |-> posted.val.currency, key |-> KeyOf(provider, req.reference),
             phase |-> phase, past |-> {"open", phase}]
    BY <1>2 DEF NewSession
  <2>2. {"open", phase} \subseteq Phases(provider) /\ phase # "refunded"
    BY <1>1, PhasesFacts DEF FirstPhases
  <2>3. IsSession(s)
    BY <2>1 DEF IsSession
  <2> QED BY <1>2, <2>1, <2>2, <2>3 DEF GoodSession
<1>7. ASSUME NEW j \in DOMAIN sessions'
      PROVE  GoodSession(provider, References, sessions'[j], j)
  BY <1>5, <1>6 DEF Inv, Processor
<1>8. ASSUME provider \in Keyed, NEW j \in DOMAIN sessions
      PROVE  sessions[j].reference # s.reference
  <2>1. sessions[j].key = KeyOf(provider, sessions[j].reference)
    BY DEF Inv, Processor, GoodSession
  <2>2. s.reference = req.reference
    BY <1>2 DEF NewSession
  <2>3. sessions[j].key # posted.val.key
    BY <1>2, <1>8, KeyFacts DEF SameKey
  <2> QED BY <1>2, <2>1, <2>2, <2>3
<1>9. OneSessionPerReference'
  <2> SUFFICES ASSUME provider \in Keyed, NEW j \in DOMAIN sessions', NEW k \in DOMAIN sessions',
                      sessions'[j].reference = sessions'[k].reference
               PROVE  j = k
    BY <1>3 DEF OneSessionPerReference
  <2>1. CASE j \in DOMAIN sessions /\ k \in DOMAIN sessions
    BY <1>5, <2>1 DEF Inv, Processor, OneSessionPerReference
  <2>2. CASE j \notin DOMAIN sessions
    BY <1>5, <1>8, <2>2
  <2>3. CASE k \notin DOMAIN sessions
    BY <1>5, <1>8, <2>3
  <2> QED BY <2>1, <2>2, <2>3
<1>10. Grows(sessions, sessions')
  BY <1>5 DEF Grows
<1>11. Len(sessions') <= MaxSessions
  BY <1>5, MaxSessionsAssumption
<1> QED BY <1>3, <1>5, <1>7, <1>9, <1>10, <1>11 DEF Processor

\* charge: with or without an answer, at most one session is added, and a receipt the caller
\* gets leads to a session of the order it charged.
LEMMA ChargeStep ==
  ASSUME Inv, NEW req \in requests, NEW net, ChargeCall(req, net)
  PROVE  Inv'
<1>1. UNCHANGED <<given, call, book, dropped>> /\ rail.ok
  BY DEF ChargeCall, given
<1>2. PICK posted, phase, s, res :
        /\ phase \in FirstPhases
        /\ posted = ChargeRequest(provider, rail.val, req) /\ posted.ok
        /\ \/ /\ s \in {sessions[i] : i \in SameKey(posted.val)}
              /\ sessions' = sessions
           \/ /\ SameKey(posted.val) = {}
              /\ s = NewSession(posted.val, phase)
              /\ Len(sessions) < MaxSessions
              /\ sessions' = Append(sessions, s)
        /\ res = Charge(provider, rail.val, req, net, Payload(provider, s))
        /\ receipts' = receipts \cup (IF res.ok THEN {res.val} ELSE {})
  <2>1. PICK posted : /\ posted = ChargeRequest(provider, rail.val, req) /\ posted.ok
                      /\ \E repeats \in {SameKey(posted.val)}, phase \in FirstPhases :
                         \E s \in IF repeats = {} THEN {NewSession(posted.val, phase)}
                                 ELSE {sessions[i] : i \in repeats} :
                           /\ \/ repeats # {} /\ ~RefusesRepeats /\ sessions' = sessions
                              \/ /\ repeats = {}
                                 /\ Len(sessions) < MaxSessions
                                 /\ sessions' = Append(sessions, s)
                           /\ \E res \in {Charge(provider, rail.val, req, net, Payload(provider, s))} :
                                 receipts' = receipts \cup (IF res.ok THEN {res.val} ELSE {})
    BY DEF ChargeCall
  <2>2. PICK phase \in FirstPhases :
             \E s \in IF SameKey(posted.val) = {} THEN {NewSession(posted.val, phase)}
                     ELSE {sessions[i] : i \in SameKey(posted.val)} :
               /\ \/ SameKey(posted.val) # {} /\ sessions' = sessions
                  \/ /\ SameKey(posted.val) = {}
                     /\ Len(sessions) < MaxSessions
                     /\ sessions' = Append(sessions, s)
               /\ \E res \in {Charge(provider, rail.val, req, net, Payload(provider, s))} :
                     receipts' = receipts \cup (IF res.ok THEN {res.val} ELSE {})
    BY <2>1
  <2>3. CASE SameKey(posted.val) = {}
    BY <2>1, <2>2, <2>3
  <2>4. CASE SameKey(posted.val) # {}
    BY <2>1, <2>2, <2>4
  <2> QED BY <2>3, <2>4
<1>3. s.reference = req.reference /\ req.reference \in References \ {Blank}
  BY <1>2, ChargedSession
<1>4. Processor' /\ Grows(sessions, sessions')
  <2>1. CASE sessions' = sessions
    BY <1>1, <2>1, SameGrows DEF Inv
  <2>2. CASE sessions' # sessions
    BY <1>1, <1>2, <2>2, NewSessionAdded
  <2> QED BY <2>1, <2>2
<1>5. \E i \in DOMAIN sessions' : sessions'[i].id = s.id /\ sessions'[i].reference = s.reference
  <2>1. CASE s \in {sessions[i] : i \in SameKey(posted.val)} /\ sessions' = sessions
    BY <2>1 DEF SameKey
  <2>2. CASE sessions' = Append(sessions, s)
    <3>1. IsSeq(sessions)
      BY DEF Inv, Processor
    <3>2. /\ Len(sessions) \in Nat /\ DOMAIN sessions' = 1..(Len(sessions) + 1)
          /\ sessions'[Len(sessions) + 1] = s
      BY <2>2, <3>1, SessionAppended
    <3> QED BY <3>2
  <2> QED BY <1>2, <2>1, <2>2
<1>6. provider \in Providers /\ provider' = provider /\ References' = References /\ rail.val.id = provider
  BY <1>1, RailsAssumption DEF Inv, Given, GoodRail, given, References
<1>7. res.ok => GoodReceipt(provider, References, res.val, sessions')
  <2> SUFFICES ASSUME res.ok PROVE GoodReceipt(provider, References, res.val, sessions')
    OBVIOUS
  <2>1. /\ IsReceipt(res.val) /\ res.val.rail_id = rail.val.id
        /\ res.val.reference \in {s.reference, req.reference}
        /\ Named(provider, res.val) \in {s.id, s.reference, res.val.reference, Blank}
    BY <1>2, <1>6, ChargedReceipt
  <2> QED BY <1>3, <1>5, <1>6, <2>1 DEF GoodReceipt
<1>8. \A r \in receipts' : GoodReceipt(provider', References', r, sessions')
  BY <1>2, <1>4, <1>6, <1>7, GrowsKeeps DEF Inv
<1>9. GoodCall'
  BY <1>1, <1>4, CallKept
<1>10. BookedIsPaid'
  <2>1. \A ref \in References : book[ref] = "paid" => Paid(sessions, ref)
    BY DEF Inv, BookedIsPaid, Paid, Took
  <2>2. \A ref \in References : book[ref] = "paid" => Paid(sessions', ref)
    BY <1>4, <2>1, GrowsKeeps
  <2> QED BY <1>1, <1>6, <2>2 DEF BookedIsPaid, Paid, Took
<1>11. Given' /\ book' \in [References' -> {"none", "paid"}] /\ dropped' \in BOOLEAN
  BY <1>1, <1>6 DEF Inv, Given, GoodRail, given
<1> QED BY <1>4, <1>8, <1>9, <1>10, <1>11 DEF Inv

\* Any session with the same id, reference and history as s, in another phase.
LEMMA Presented ==
  ASSUME NEW s, IsSession(s), NEW phase, NEW t, t = [s EXCEPT !.phase = phase]
  PROVE  /\ IsSession(t) /\ t.id = s.id /\ t.reference = s.reference /\ t.past = s.past
         /\ t.phase = phase
<1>1. t = [id |-> s.id, reference |-> s.reference, value |-> s.value, currency |-> s.currency,
           key |-> s.key, phase |-> phase, past |-> s.past]
  BY DEF IsSession
<1> QED BY <1>1 DEF IsSession

\* A delivery is the processor's announcement of a phase the session has been in, or it is
\* from somebody who does not hold the rail's secret.
Genuine(s, phase, secret) ==
    phase \in s.past \/ (provider \notin Unkeyed => secret # SecretOf(provider, rail.val))

\* A settled event of a delivery about a session: that session was paid, and the event names
\* it or nothing.
LEMMA SettledEvent ==
  ASSUME Inv, NEW i \in DOMAIN sessions, NEW phase \in Phases(provider), NEW secret,
         Genuine(sessions[i], phase, secret), NEW age, NEW net, NEW body, NEW res,
         body = Event(provider, [sessions[i] EXCEPT !.phase = phase], secret),
         res = VerifyWebhook(provider, rail.val,
                 [raw_body |-> body, headers |-> Headers(provider, secret, body, 0), now_unix |-> age],
                 net, Payload(provider, sessions[i])),
         res.ok, res.val.status = "Settled"
  PROVE  /\ Took(provider, sessions[i].past)
         /\ res.val.reference \in {sessions[i].id, sessions[i].reference, Blank}
         /\ res.val.object_id \in {sessions[i].id, Blank}
<1>1. provider \in Providers /\ GoodSession(provider, References, sessions[i], i)
  BY RailsAssumption DEF Inv, Given, Processor
<1>2. PICK s, t : s = sessions[i] /\ t = [s EXCEPT !.phase = phase]
  OBVIOUS
<1>3. /\ IsSession(s) /\ s.phase \in Phases(provider) /\ s.phase \in s.past
      /\ "refunded" \in s.past => "paid" \in s.past
  BY <1>1, <1>2 DEF GoodSession
<1>4. /\ IsSession(t) /\ t.id = s.id /\ t.reference = s.reference /\ t.past = s.past
      /\ t.phase = phase
  BY <1>2, <1>3, Presented
<1>5. /\ body = Event(provider, t, secret)
      /\ res = VerifyWebhook(provider, rail.val,
                 [raw_body |-> body, headers |-> Headers(provider, secret, body, 0), now_unix |-> age],
                 net, Payload(provider, s))
  BY <1>2
<1>6. /\ \/ /\ provider \notin Unkeyed /\ SecretOf(provider, rail.val) = secret
            /\ t.phase \in {"paid", "refunded"} \/ (provider = "xendit" /\ t.phase = "short")
         \/ s.phase \in {"paid", "refunded"}
         \/ "paid" \in s.past
      /\ res.val.reference \in {s.id, s.reference, Blank}
      /\ res.val.object_id \in {s.id, Blank}
  BY <1>1, <1>3, <1>4, <1>5, WebhookIsSound
<1>7. Took(provider, s.past)
  BY <1>2, <1>3, <1>4, <1>6 DEF Genuine, Took
<1> QED BY <1>2, <1>6, <1>7

\* Only paid orders are settled by an event, reconciled or confirmed.
LEMMA SettledOrders ==
  ASSUME Inv, NEW i \in DOMAIN sessions, NEW e,
         e.status = "Settled" =>
            /\ Took(provider, sessions[i].past)
            /\ e.reference \in {sessions[i].id, sessions[i].reference, Blank}
            /\ e.object_id \in {sessions[i].id, Blank},
         NEW ref \in Settles(e)
  PROVE  Paid(sessions, ref)
<1>1. ref \in References
  BY DEF Settles
<1>2. CASE Reconciles(e, ref)
  <2>1. e.status = "Settled" /\ ref \in AboutOrders(e)
    BY <1>2 DEF Reconciles
  <2>2. CASE ref = e.reference /\ ref # Blank
    <3>1. i \in 1..MaxSessions
      <4>1. DOMAIN sessions = 1..Len(sessions) /\ Len(sessions) \in Nat
        BY SeqIsSeq DEF Inv, Processor, IsSeq
      <4> QED BY <4>1, MaxSessionsAssumption DEF Inv, Processor
    <3>2. sessions[i].id = Ids[i]
      BY DEF Inv, Processor, GoodSession
    <3>3. ref # Ids[i]
      BY <1>1, <3>1, NoRefIsId DEF Inv
    <3> QED BY <2>1, <2>2, <3>2, <3>3 DEF Paid
  <2>3. CASE \E r \in receipts : /\ r.reference = ref
                                 /\ Named(provider, r) \in {e.reference, e.object_id} \ {Blank}
    <3>1. PICK r \in receipts : /\ r.reference = ref
                                /\ Named(provider, r) \in {e.reference, e.object_id} \ {Blank}
      BY <2>3
    <3>2. i \in Found(Named(provider, r))
      BY <2>1, <3>1 DEF Found
    <3>3. sessions[i].reference = r.reference
      BY <3>2, FoundIsOwn DEF Inv
    <3> QED BY <2>1, <3>1, <3>3 DEF Paid
  <2> QED BY <2>1, <2>2, <2>3 DEF AboutOrders
<1>3. CASE \E r \in receipts : Confirms(e, r) /\ r.reference = ref
  <2>1. PICK r \in receipts : Confirms(e, r) /\ r.reference = ref
    BY <1>3
  <2>2. PICK k \in Found(Named(provider, r)) :
          Verify(provider, rail.val, r, "ok", Payload(provider, sessions[k])) = Ok(TRUE)
    BY <2>1 DEF Confirms
  <2> QED BY <2>1, <2>2, VerifiedIsPaid DEF Inv
<1> QED BY <1>2, <1>3 DEF Settles

\* Completing receipts with what a settled event names leaves them good.
LEMMA CompletedReceipts ==
  ASSUME Inv, NEW i \in DOMAIN sessions, NEW e,
         e.status = "Settled" =>
            /\ e.reference \in {sessions[i].id, sessions[i].reference, Blank}
            /\ e.object_id \in {sessions[i].id, Blank},
         NEW v \in Completed(e)
  PROVE  GoodReceipt(provider, References, v, sessions)
<1>1. PICK r \in receipts :
        v = IF e.status = "Settled" /\ r.reference = e.reference
            THEN Resolved(provider, r, e.object_id) ELSE r
  BY DEF Completed
<1>2. GoodReceipt(provider, References, r, sessions) /\ provider \in Providers
  BY RailsAssumption DEF Inv, Given
<1>3. CASE e.status = "Settled" /\ r.reference = e.reference
  <2>1. v = Resolved(provider, r, e.object_id)
    BY <1>1, <1>3
  <2>2. /\ IsReceipt(v) /\ v.rail_id = r.rail_id /\ v.reference = r.reference
        /\ Named(provider, v) \in {Named(provider, r), e.object_id}
    BY <1>2, <2>1, ResolvedReceipt DEF GoodReceipt
  <2>3. r.reference \in References /\ r.reference # Blank
    BY <1>2 DEF GoodReceipt
  <2>4. sessions[i].id # r.reference
    <3>1. i \in 1..MaxSessions
      <4>1. DOMAIN sessions = 1..Len(sessions) /\ Len(sessions) \in Nat
        BY SeqIsSeq DEF Inv, Processor, IsSeq
      <4> QED BY <4>1, MaxSessionsAssumption DEF Inv, Processor
    <3>2. sessions[i].id = Ids[i]
      BY DEF Inv, Processor, GoodSession
    <3> QED BY <2>3, <3>1, <3>2, NoRefIsId DEF Inv
  <2>5. sessions[i].reference = r.reference
    BY <1>3, <2>3, <2>4
  <2>6. CASE Named(provider, v) = Named(provider, r)
    BY <1>2, <2>2, <2>6 DEF GoodReceipt
  <2>7. CASE Named(provider, v) = e.object_id
    BY <1>2, <1>3, <2>2, <2>5, <2>7 DEF GoodReceipt
  <2> QED BY <2>2, <2>6, <2>7
<1>4. CASE ~(e.status = "Settled" /\ r.reference = e.reference)
  BY <1>1, <1>2, <1>4
<1> QED BY <1>3, <1>4

\* One delivery to the webhook route: it books only orders that were paid.
LEMMA DeliverStep ==
  ASSUME Inv, NEW i \in DOMAIN sessions, NEW phase \in Phases(provider), NEW secret,
         Genuine(sessions[i], phase, secret), NEW age, NEW net,
         Deliver(sessions[i], phase, secret, age, net)
  PROVE  Inv'
<1>1. PICK body, res :
        /\ body = Event(provider, [sessions[i] EXCEPT !.phase = phase], secret)
        /\ res = VerifyWebhook(provider, rail.val,
                 [raw_body |-> body, headers |-> Headers(provider, secret, body, 0), now_unix |-> age],
                 net, Payload(provider, sessions[i]))
        /\ res.ok
        /\ \E settles \in {Settles(res.val)}, again \in {Dedup /\ res.val.event_id \in handled} :
              /\ book' = [ref \in References |->
                            IF ~again /\ ref \in settles THEN "paid" ELSE book[ref]]
              /\ dropped' = (dropped \/ (again /\ \E ref \in settles : book[ref] = "none"))
              /\ receipts' = IF again THEN receipts ELSE Completed(res.val)
        /\ UNCHANGED <<given, sessions, call>>
  BY DEF Deliver
<1>2. PICK e : e = res.val
  OBVIOUS
<1>3. e.status = "Settled" =>
        /\ Took(provider, sessions[i].past)
        /\ e.reference \in {sessions[i].id, sessions[i].reference, Blank}
        /\ e.object_id \in {sessions[i].id, Blank}
  BY <1>1, <1>2, SettledEvent
<1>4. /\ receipts' \in {receipts, Completed(e)}
      /\ book' \in [References -> {"none", "paid"}]
      /\ \A ref \in References : book'[ref] = "paid" => book[ref] = "paid" \/ ref \in Settles(e)
      /\ dropped' \in BOOLEAN
  <2>1. PICK settles, again :
          /\ settles = Settles(e)
          /\ book' = [ref \in References |->
                        IF ~again /\ ref \in settles THEN "paid" ELSE book[ref]]
          /\ dropped' = (dropped \/ (again /\ \E ref \in settles : book[ref] = "none"))
          /\ receipts' = IF again THEN receipts ELSE Completed(e)
    BY <1>1, <1>2
  <2>2. dropped' \in BOOLEAN
    BY <2>1, Zenon
  <2>3. receipts' \in {receipts, Completed(e)}
    BY <2>1
  <2>4. /\ book' \in [References -> {"none", "paid"}]
        /\ \A ref \in References : book'[ref] = "paid" => book[ref] = "paid" \/ ref \in Settles(e)
    BY <2>1 DEF Inv
  <2> QED BY <2>2, <2>3, <2>4
<1>5. /\ UNCHANGED <<given, sessions, call>> /\ provider' = provider /\ rail' = rail
      /\ requests' = requests /\ References' = References
  BY <1>1 DEF given, References
<1>6. Processor' /\ Grows(sessions, sessions')
  BY <1>5, SameGrows DEF Inv
<1>7. GoodCall'
  BY <1>5, <1>6, CallKept
<1>8. \A r \in receipts' : GoodReceipt(provider', References', r, sessions')
  <2>1. \A v \in Completed(e) : GoodReceipt(provider, References, v, sessions)
    BY <1>3, CompletedReceipts
  <2> QED BY <1>4, <1>5, <2>1 DEF Inv
<1>9. /\ book' \in [References' -> {"none", "paid"}]
      /\ \A ref \in References : book'[ref] = "paid" => book[ref] = "paid" \/ ref \in Settles(e)
  BY <1>4, <1>5 DEF Inv
<1>10. BookedIsPaid'
  <2>1. \A ref \in References : book[ref] = "paid" => Paid(sessions, ref)
    BY DEF Inv, BookedIsPaid, Paid, Took
  <2>2. \A ref \in Settles(e) : Paid(sessions, ref)
    BY <1>3, SettledOrders
  <2> QED BY <1>5, <1>9, <2>1, <2>2 DEF BookedIsPaid, Paid, Took
<1>11. Given'
  BY <1>5 DEF Inv, Given, GoodRail
<1> QED BY <1>4, <1>6, <1>7, <1>8, <1>9, <1>10, <1>11 DEF Inv

\* What the processor announces, again or late, is a phase the session has been in.
LEMMA AnnounceStep ==
  ASSUME Inv, NEW i \in DOMAIN sessions, NEW age, NEW net, Announce(i, age, net)
  PROVE  Inv'
<1>1. PICK phase \in sessions[i].past \ {"open"} :
        Deliver(sessions[i], phase, SecretOf(provider, rail.val), age, net)
  BY DEF Announce
<1>2. phase \in Phases(provider)
  BY DEF Inv, Processor, GoodSession
<1>3. Genuine(sessions[i], phase, SecretOf(provider, rail.val))
  BY DEF Genuine
<1> QED BY <1>1, <1>2, <1>3, DeliverStep

\* Whoever does not hold the rail's secret cannot make it book anything that was not paid.
LEMMA StrayStep ==
  ASSUME Inv, NEW i \in DOMAIN sessions, Stray(i)
  PROVE  Inv'
<1>1. PICK secret \in {"guess", Blank} : Deliver(sessions[i], "paid", secret, 0, "ok")
  BY DEF Stray
<1>2. "paid" \in Phases(provider)
  BY RailsAssumption, PhasesFacts DEF Inv, Given
<1>3. Blank # "live"
  BY Zenon DEF Blank
<1>4. Genuine(sessions[i], "paid", secret)
  BY <1>3 DEF Genuine, Stray, Inv, Given, GoodRail
<1> QED BY <1>1, <1>2, <1>4, DeliverStep

-----------------------------------------------------------------------------
(* The theorems *)

\* Every deployment the model starts from has the live value in each setting it has, except
\* perhaps the timeout.
LEMMA EnvironmentsAreLive ==
  ASSUME NEW p, NEW env \in Environments(p)
  PROVE  \A v \in DOMAIN env \ {"timeout_secs"} : env[v] = "live"
<1>1. CASE env \in {[v \in RequiredEnv(p) \cup opt |-> "live"] : opt \in SUBSET OptionalEnv(p)}
  BY <1>1
<1>2. CASE env \in {[v \in RequiredEnv(p) \ {x} |-> "live"] : x \in RequiredEnv(p)}
  BY <1>2
<1>3. CASE env = Over([timeout_secs |-> Unparsable], [v \in RequiredEnv(p) |-> "live"])
  BY <1>3 DEF Over
<1> QED BY <1>1, <1>2, <1>3 DEF Environments

\* The invariant holds before anything happened.
LEMMA InitInv == Init => Inv
<1> SUFFICES ASSUME Init PROVE Inv
  OBVIOUS
<1>1. PICK env \in Environments(provider) : rail \in {Build(provider, env), new_fiat(provider, env)}
  BY DEF Init
<1>2. provider \in Providers
  BY RailsAssumption DEF Init
<1>3. \A v \in DOMAIN env \ {"timeout_secs"} : env[v] = "live"
  BY EnvironmentsAreLive
<1>4. GoodRail
  BY <1>1, <1>2, <1>3, BuiltRail DEF GoodRail
<1>5. Given
  BY <1>4 DEF Init, Given
<1>6. /\ sessions = <<>> /\ receipts = {} /\ call = Idle /\ dropped = FALSE
      /\ book = [r \in References |-> "none"]
  BY DEF Init
<1>7. IsSeq(sessions) /\ Len(sessions) = 0 /\ DOMAIN sessions = {}
  BY <1>6 DEF IsSeq
<1>8. Processor
  BY <1>7, MaxSessionsAssumption DEF Processor, OneSessionPerReference
<1>9. GoodCall
  BY <1>6 DEF GoodCall, Idle
<1>10. book \in [References -> {"none", "paid"}] /\ BookedIsPaid
  BY <1>6 DEF BookedIsPaid
<1> QED BY <1>5, <1>6, <1>8, <1>9, <1>10 DEF Inv

\* Every step of the processor, of the caller and of whoever reaches the webhook route keeps
\* the invariant.
LEMMA NextInv == Inv /\ [Next]_vars => Inv'
<1> SUFFICES ASSUME Inv, [Next]_vars PROVE Inv'
  OBVIOUS
<1>1. ASSUME NEW i \in DOMAIN sessions, Advance(i) PROVE Inv'
  BY <1>1, AdvanceStep
<1>2. ASSUME NEW req \in requests, NEW net \in Nets, ChargeCall(req, net) PROVE Inv'
  BY <1>2, ChargeStep
<1>3. ASSUME NEW r \in receipts, NEW net \in Reads, NEW v \in Filled(r), VerifyCall(v, net)
      PROVE  Inv'
  BY <1>3, VerifyStep
<1>4. ASSUME NEW net \in Nets, CaptureCall(net) PROVE Inv'
  BY <1>4, CaptureStep
<1>5. ASSUME NEW r \in receipts, NEW net \in Reads, NEW v \in Filled(r), RefundBegin(v, net)
      PROVE  Inv'
  BY <1>5, RefundBeginStep
<1>6. ASSUME NEW net \in Nets, NEW done \in BOOLEAN, RefundPost(net, done) PROVE Inv'
  BY <1>6, RefundPostStep
<1>7. ASSUME NEW i \in DOMAIN sessions, NEW f \in Faults, Announce(i, f[1], f[2]) PROVE Inv'
  BY <1>7, AnnounceStep
<1>8. ASSUME NEW i \in DOMAIN sessions, Stray(i) PROVE Inv'
  BY <1>8, StrayStep
<1>9. CASE UNCHANGED vars
  <2>1. UNCHANGED <<given, sessions, receipts, call, book, dropped>>
    BY <1>9 DEF vars
  <2>2. Processor' /\ Grows(sessions, sessions')
    BY <2>1, SameGrows DEF Inv
  <2>3. GoodCall'
    BY <2>1, <2>2, CallKept
  <2> QED BY <2>1, <2>2, <2>3, Gained DEF Inv
<1> QED BY <1>1, <1>2, <1>3, <1>4, <1>5, <1>6, <1>7, <1>8, <1>9 DEF Next

\* The invariant holds throughout.
LEMMA Invariance == Spec => []Inv
BY InitInv, NextInv, PTL DEF Spec

\* The type invariant, for every choice of rails, orders and bounds: a session is for one of
\* the caller's orders and in phases of its rail, and every receipt is the rail's own.
THEOREM TypeCorrect == Spec => []TypeOK
<1>1. Inv => TypeOK
  BY DEF Inv, Given, Processor, GoodSession, GoodReceipt, GoodCall, TypeOK
<1> QED BY <1>1, Invariance, PTL

\* On each of the 21 rails, whatever is lost, repeated, late, refunded or sent by somebody
\* else: an order the caller booked was paid to the processor, on Xendit perhaps in part, in a
\* session of its own reference (verify, verify_webhook and the second request of PayPal's verify).
THEOREM OnlyPaidIsBooked == Spec => []BookedIsPaid
<1>1. Inv => BookedIsPaid
  BY DEF Inv
<1> QED BY <1>1, Invariance, PTL

\* Where the adapter sends a key, a charge repeated after a lost answer leaves one session.
THEOREM RetriesMakeNoSecondSession == Spec => []OneSessionPerReference
<1>1. Inv => OneSessionPerReference
  BY DEF Inv, Processor
<1> QED BY <1>1, Invariance, PTL

-----------------------------------------------------------------------------
(* What was asked for and what was given back *)

\* The session was made by a charge: some request of the caller asks for its value, in its
\* currency, which the processor takes.
Sold(p, rl, reqs, s) ==
    /\ rl.ok
    /\ \E req \in reqs : \E c \in {ChargeRequest(p, rl.val, req)} :
          /\ req.reference = s.reference
          /\ c.ok /\ c.val.value = s.value /\ c.val.currency = s.currency
          /\ Upper(c.val.currency) \in Accepts(p)

\* A session of this order was refunded.
GivenBack(q, ref) == \E i \in DOMAIN q : q[i].reference = ref /\ q[i].phase = "refunded"

\* A refund's receipt that claims nothing, or the amount of an order that was refunded, and
\* that no answer of the processor makes a payment.
GoodRefund(p, rl, reqs, q, r) ==
    /\ r.amount_minor > 0 =>
          /\ GivenBack(q, r.reference)
          /\ \E req \in reqs : req.reference = r.reference /\ r.amount_minor = req.amount_minor
    /\ p # "paystack" => \A pay : Verify(p, rl.val, r, "ok", pay) # Ok(TRUE)

\* The second part of the inductive invariant: what sessions and refunds are worth.
Trade ==
    /\ rail.ok /\ provider = "payu" => rail.val.capabilities.currencies = {"INR"}
    /\ \A i \in DOMAIN sessions : Sold(provider, rail, requests, sessions[i])
    /\ call.op = "refund" => provider \in Refunders
    /\ \A r \in returned : GoodRefund(provider, rail, requests, sessions, r)

\* An order's reference finds that order, and its amount is a u64.
LEMMA OwnRequest ==
  ASSUME Given, NEW req \in requests
  PROVE  RequestOf(req.reference) = req /\ req.amount_minor \in 0..MaxU64
<1>1. /\ \A q \in requests : q.reference = req.reference => q = req
      /\ req.amount_minor \in 0..MaxU64
  BY OrdersAssumption DEF Given
<1> QED BY <1>1 DEF RequestOf

\* What a step of the sessions keeps: what each was made for, and that it was refunded.
Follows(q, w) ==
    /\ DOMAIN q \subseteq DOMAIN w
    /\ \A i \in DOMAIN q : /\ w[i].reference = q[i].reference
                           /\ w[i].value = q[i].value /\ w[i].currency = q[i].currency
                           /\ q[i].phase = "refunded" => w[i].phase = "refunded"

\* Sessions that are left alone follow themselves.
LEMMA SameFollows ==
  ASSUME NEW q
  PROVE  Follows(q, q)
BY DEF Follows

\* One session that enters a phase, unless it was refunded before.
LEMMA EnterFollows ==
  ASSUME Processor, NEW i \in DOMAIN sessions, NEW phase, NEW t,
         t \in {sessions[i], Enter(sessions[i], phase)},
         t # sessions[i] => sessions[i].phase # "refunded", NEW w, w = Put(sessions, i, t)
  PROVE  /\ Follows(sessions, w) /\ DOMAIN w = DOMAIN sessions /\ w[i] = t
         /\ t.reference = sessions[i].reference
         /\ t = Enter(sessions[i], phase) => t.phase = phase
<1>1. IsSeq(sessions) /\ GoodSession(provider, References, sessions[i], i)
  BY DEF Processor
<1>2. /\ DOMAIN w = DOMAIN sessions /\ w[i] = t
      /\ \A j \in DOMAIN sessions : j # i => w[j] = sessions[j]
  BY <1>1, SeqUpdate
<1>3. PICK s : s = sessions[i]
  OBVIOUS
<1>4. ASSUME t = Enter(s, phase)
      PROVE  /\ t.reference = s.reference /\ t.value = s.value /\ t.currency = s.currency
             /\ t.phase = phase
  <2>1. t = [id |-> s.id, reference |-> s.reference, value |-> s.value, currency |-> s.currency,
             key |-> s.key, phase |-> phase, past |-> s.past \cup {phase}]
    BY <1>1, <1>3, <1>4 DEF Enter, GoodSession, IsSession
  <2> QED BY <2>1
<1>5. /\ t.reference = s.reference /\ t.value = s.value /\ t.currency = s.currency
      /\ s.phase = "refunded" => t.phase = "refunded"
  BY <1>3, <1>4
<1> QED BY <1>2, <1>3, <1>4, <1>5 DEF Follows

\* What is left of this part of the invariant once the sessions' step is known.
LEMMA TradeKept ==
  ASSUME Trade, UNCHANGED given, Follows(sessions, sessions'),
         \A i \in DOMAIN sessions' \ DOMAIN sessions :
            Sold(provider, rail, requests, sessions'[i]),
         call' = call \/ call'.op # "refund" \/ provider \in Refunders,
         \A r \in returned' \ returned : GoodRefund(provider, rail, requests, sessions', r)
  PROVE  Trade'
<1>1. provider' = provider /\ rail' = rail /\ requests' = requests
  BY DEF given
<1>2. ASSUME NEW i \in DOMAIN sessions'
      PROVE  Sold(provider, rail, requests, sessions'[i])
  <2>1. CASE i \in DOMAIN sessions
    BY <2>1 DEF Trade, Sold, Follows
  <2>2. CASE i \notin DOMAIN sessions
    BY <2>2
  <2> QED BY <2>1, <2>2
<1>3. ASSUME NEW r \in returned'
      PROVE  GoodRefund(provider, rail, requests, sessions', r)
  <2>1. CASE r \in returned
    <3>1. GoodRefund(provider, rail, requests, sessions, r)
      BY <2>1 DEF Trade
    <3>2. GivenBack(sessions, r.reference) => GivenBack(sessions', r.reference)
      BY DEF GivenBack, Follows
    <3> QED BY <3>1, <3>2 DEF GoodRefund
  <2>2. CASE r \notin returned
    BY <2>2
  <2> QED BY <2>1, <2>2
<1>4. call'.op = "refund" => provider \in Refunders
  BY DEF Trade
<1> QED BY <1>1, <1>2, <1>3, <1>4 DEF Trade

\* A step that touches neither the sessions nor what refunds returned.
LEMMA QuietTrade ==
  ASSUME Trade, UNCHANGED <<given, sessions, returned>>,
         call' = call \/ call'.op # "refund" \/ provider \in Refunders
  PROVE  Trade'
<1>1. Follows(sessions, sessions')
  BY SameFollows
<1> QED BY <1>1, TradeKept DEF given

\* A payer's or a merchant's step never takes a session out of "refunded".
LEMMA AdvanceTrade ==
  ASSUME Inv, Trade, NEW i \in DOMAIN sessions, Advance(i)
  PROVE  Trade'
<1>1. PICK phase \in Phases(provider) :
         /\ <<sessions[i].phase, phase>> \in Steps
         /\ sessions' = [sessions EXCEPT ![i] = Enter(@, phase)]
  BY DEF Advance
<1>2. PICK t : t = Enter(sessions[i], phase)
  OBVIOUS
<1>3. sessions' = Put(sessions, i, t) /\ sessions[i].phase # "refunded"
  BY <1>1, <1>2 DEF Put, Steps
<1>4. Follows(sessions, sessions') /\ DOMAIN sessions' = DOMAIN sessions
  BY <1>2, <1>3, EnterFollows DEF Inv
<1>5. UNCHANGED <<given, call, returned>>
  BY DEF Advance
<1> QED BY <1>4, <1>5, TradeKept

\* A charge that adds a session asked for what that session is worth.
LEMMA ChargeTrade ==
  ASSUME Inv, Trade, NEW req \in requests, NEW net, ChargeCall(req, net)
  PROVE  Trade'
<1>1. UNCHANGED <<given, call, returned>> /\ rail.ok
  BY DEF ChargeCall
<1>2. PICK posted : /\ posted = ChargeRequest(provider, rail.val, req) /\ posted.ok
                    /\ Upper(posted.val.currency) \in Accepts(provider)
                    /\ \/ sessions' = sessions
                       \/ \E phase : sessions' = Append(sessions, NewSession(posted.val, phase))
  <2>1. PICK posted : /\ posted = ChargeRequest(provider, rail.val, req) /\ posted.ok
                      /\ Upper(posted.val.currency) \in Accepts(provider)
                      /\ \E repeats \in {SameKey(posted.val)}, phase \in FirstPhases :
                         \E s \in IF repeats = {} THEN {NewSession(posted.val, phase)}
                                 ELSE {sessions[i] : i \in repeats} :
                              \/ sessions' = sessions
                              \/ repeats = {} /\ sessions' = Append(sessions, s)
    BY DEF ChargeCall
  <2>2. \/ sessions' = sessions
        \/ \E phase : sessions' = Append(sessions, NewSession(posted.val, phase))
    BY <2>1
  <2> QED BY <2>1, <2>2
<1>3. CASE sessions' = sessions
  BY <1>1, <1>3, QuietTrade
<1>4. CASE sessions' # sessions
  <2>1. PICK phase : sessions' = Append(sessions, NewSession(posted.val, phase))
    BY <1>2, <1>4
  <2>2. PICK s : s = NewSession(posted.val, phase)
    OBVIOUS
  <2>3. /\ s.reference = req.reference
        /\ s.value = posted.val.value /\ s.currency = posted.val.currency
    <3>1. posted.val.reference = req.reference
      BY <1>2, PostedReference, RailsAssumption DEF Inv, Given
    <3> QED BY <2>2, <3>1 DEF NewSession
  <2>4. Sold(provider, rail, requests, s)
    BY <1>1, <1>2, <2>3 DEF Sold
  <2>5. IsSeq(sessions)
    BY DEF Inv, Processor
  <2>6. /\ Len(sessions) \in Nat /\ DOMAIN sessions = 1..Len(sessions)
        /\ DOMAIN sessions' = 1..(Len(sessions) + 1) /\ sessions'[Len(sessions) + 1] = s
        /\ \A j \in DOMAIN sessions : sessions'[j] = sessions[j]
    BY <2>1, <2>2, <2>5, SessionAppended
  <2>7. Follows(sessions, sessions')
    BY <2>6 DEF Follows
  <2>8. \A i \in DOMAIN sessions' \ DOMAIN sessions : Sold(provider, rail, requests, sessions'[i])
    BY <2>4, <2>6
  <2> QED BY <1>1, <2>7, <2>8, TradeKept
<1> QED BY <1>3, <1>4

\* verify touches no session and no refund.
LEMMA VerifyTrade ==
  ASSUME Trade, NEW v, NEW net, VerifyCall(v, net)
  PROVE  Trade'
<1>1. UNCHANGED <<given, sessions, returned>>
  BY DEF VerifyCall
<1>2. call' = Idle \/ call' = [op |-> "capture", receipt |-> v]
  BY DEF VerifyCall
<1>3. call'.op # "refund"
  BY <1>2 DEF Idle
<1> QED BY <1>1, <1>3, QuietTrade

\* The capture PayPal's verify makes leaves a refunded session alone.
LEMMA CaptureTrade ==
  ASSUME Inv, Trade, NEW net, CaptureCall(net)
  PROVE  Trade'
<1>1. UNCHANGED <<given, returned>> /\ call'.op # "refund"
  BY DEF CaptureCall, Idle
<1>2. PICK outcome, i, t :
        /\ i \in Found(Named(provider, call.receipt))
        /\ \/ t = sessions[i]
           \/ t = Enter(sessions[i], outcome) /\ sessions[i].phase = "approved"
        /\ sessions' = [sessions EXCEPT ![i] = t]
  <2>1. PICK outcome \in {"paid", "pending"}, i \in Found(Named(provider, call.receipt)) :
          LET takes == Reached(net) /\ sessions[i].phase = "approved"
              s == IF takes THEN Enter(sessions[i], outcome) ELSE sessions[i]
          IN  sessions' = [sessions EXCEPT ![i] = s]
    BY DEF CaptureCall
  <2> DEFINE takes == Reached(net) /\ sessions[i].phase = "approved"
             s == IF takes THEN Enter(sessions[i], outcome) ELSE sessions[i]
  <2>2. sessions' = [sessions EXCEPT ![i] = s]
    BY <2>1
  <2>3. s = sessions[i] \/ (s = Enter(sessions[i], outcome) /\ sessions[i].phase = "approved")
    OBVIOUS
  <2> HIDE DEF s
  <2> QED BY <2>2, <2>3
<1>3. /\ i \in DOMAIN sessions /\ sessions' = Put(sessions, i, t)
      /\ t \in {sessions[i], Enter(sessions[i], outcome)}
      /\ t # sessions[i] => sessions[i].phase # "refunded"
  BY <1>2 DEF Found, Put
<1>4. Follows(sessions, sessions') /\ DOMAIN sessions' = DOMAIN sessions
  BY <1>3, EnterFollows DEF Inv
<1> QED BY <1>1, <1>4, TradeKept

\* Only a rail that can refund gets past the first half of refund.
LEMMA RefundBeginTrade ==
  ASSUME Inv, Trade, NEW v, NEW net, RefundBegin(v, net)
  PROVE  Trade'
<1>1. PICK i : RefundLookup(provider, rail.val, v, net, Payload(provider, sessions[i])).ok
  BY DEF RefundBegin
<1>2. provider \in Refunders
  BY <1>1 DEF RefundLookup, Refunders, Unsupported, Err
<1>3. UNCHANGED <<given, sessions, returned>>
  BY DEF RefundBegin
<1> QED BY <1>2, <1>3, QuietTrade

\* The second half of refund: a receipt that claims money means that the session it found, of
\* its own order, is refunded now.
LEMMA RefundPostTrade ==
  ASSUME Inv, Trade, NEW net \in Nets, NEW done \in BOOLEAN, RefundPost(net, done)
  PROVE  Trade'
<1>1. /\ UNCHANGED given /\ call'.op # "refund" /\ provider \in Refunders
      /\ GoodReceipt(provider, References, call.receipt, sessions)
  BY DEF RefundPost, Idle, Trade, Inv, GoodCall
<1>2. PICK i, t, x, d, res :
        /\ i \in Found(Named(provider, call.receipt))
        /\ \/ t = sessions[i]
           \/ t = Enter(sessions[i], "refunded") /\ sessions[i].phase = "paid"
        /\ x \in Nets /\ d \in BOOLEAN
        /\ x = "ok" /\ d => \/ t = Enter(sessions[i], "refunded") /\ sessions[i].phase = "paid"
                            \/ t = sessions[i] /\ sessions[i].phase = "refunded"
        /\ sessions' = [sessions EXCEPT ![i] = t]
        /\ res = Refund(provider, rail.val, call.receipt, x, RefundAnswer(provider, sessions[i], d))
        /\ returned' = returned \cup (IF res.ok THEN {res.val} ELSE {})
  <2>1. PICK i \in Found(Named(provider, call.receipt)) :
          LET takes == /\ Reached(net)
                       /\ sessions[i].phase = "paid"
                       /\ call.ask.full \/ call.ask.value = sessions[i].value
              repeats == Reached(net) /\ sessions[i].phase = "refunded" /\ call.ask.key # NoKey
          IN  /\ sessions' = [sessions EXCEPT ![i] = IF takes /\ done THEN Enter(@, "refunded") ELSE @]
              /\ \E res \in {Refund(provider, rail.val, call.receipt,
                                   IF Reached(net) /\ ~takes /\ ~repeats THEN "http_error" ELSE net,
                                   RefundAnswer(provider, sessions[i], done \/ repeats))} :
                    returned' = returned \cup (IF res.ok THEN {res.val} ELSE {})
    BY DEF RefundPost
  <2> DEFINE takes == /\ Reached(net)
                      /\ sessions[i].phase = "paid"
                      /\ call.ask.full \/ call.ask.value = sessions[i].value
             repeats == Reached(net) /\ sessions[i].phase = "refunded" /\ call.ask.key # NoKey
             t == IF takes /\ done THEN Enter(sessions[i], "refunded") ELSE sessions[i]
             x == IF Reached(net) /\ ~takes /\ ~repeats THEN "http_error" ELSE net
             d == done \/ repeats
             res == Refund(provider, rail.val, call.receipt, x,
                           RefundAnswer(provider, sessions[i], d))
  <2>2. sessions' = [sessions EXCEPT ![i] = t]
    BY <2>1
  <2>3. returned' = returned \cup (IF res.ok THEN {res.val} ELSE {})
    BY <2>1
  <2>4. \/ t = sessions[i]
        \/ t = Enter(sessions[i], "refunded") /\ sessions[i].phase = "paid"
    OBVIOUS
  <2>5. x \in Nets
    BY DEF Nets
  <2>6. d \in BOOLEAN
    OBVIOUS
  <2>7. ASSUME x = "ok", d
        PROVE  \/ t = Enter(sessions[i], "refunded") /\ sessions[i].phase = "paid"
               \/ t = sessions[i] /\ sessions[i].phase = "refunded"
    <3>1. Reached(net) /\ (takes \/ repeats)
      BY <2>7 DEF Reached
    <3>2. CASE repeats
      BY <3>2
    <3>3. CASE takes /\ done
      BY <3>3
    <3> QED BY <2>7, <3>1, <3>2, <3>3
  <2> HIDE DEF t, x, d, res
  <2> QED BY <2>2, <2>3, <2>4, <2>5, <2>6, <2>7 DEF res
<1>3. i \in DOMAIN sessions /\ sessions[i].reference = call.receipt.reference
  BY <1>1, <1>2, FoundIsOwn DEF Inv
<1>4. /\ sessions' = Put(sessions, i, t) /\ t \in {sessions[i], Enter(sessions[i], "refunded")}
      /\ t # sessions[i] => sessions[i].phase # "refunded"
  BY <1>2 DEF Put
<1>5. /\ Follows(sessions, sessions') /\ DOMAIN sessions' = DOMAIN sessions /\ sessions'[i] = t
      /\ t.reference = sessions[i].reference
      /\ t = Enter(sessions[i], "refunded") => t.phase = "refunded"
  BY <1>3, <1>4, EnterFollows DEF Inv
<1>6. ASSUME res.ok
      PROVE  GoodRefund(provider, rail, requests, sessions', res.val)
  <2>1. PICK req, c :
          /\ req \in requests /\ c = ChargeRequest(provider, rail.val, req)
          /\ req.reference = sessions[i].reference
          /\ c.ok /\ c.val.value = sessions[i].value /\ c.val.currency = sessions[i].currency
          /\ Upper(c.val.currency) \in Accepts(provider)
    BY <1>3 DEF Trade, Sold
  <2>2. req.amount_minor \in 0..MaxU64
    BY <2>1, OwnRequest DEF Inv
  <2>3. /\ res.val.reference = call.receipt.reference
        /\ res.val.amount_minor > 0 => x = "ok" /\ d /\ res.val.amount_minor = req.amount_minor
    <3>1. PICK s : s = sessions[i]
      OBVIOUS
    <3> QED BY <1>1, <1>2, <1>6, <2>1, <2>2, <3>1, RefundIsSound
  <2>4. ASSUME res.val.amount_minor > 0
        PROVE  GivenBack(sessions', res.val.reference)
    BY <1>2, <1>3, <1>5, <2>3, <2>4 DEF GivenBack
  <2>5. provider # "paystack" => \A pay : Verify(provider, rail.val, res.val, "ok", pay) # Ok(TRUE)
    BY <1>1, <1>2, <1>6, RefundReceiptIsNoPayment
  <2> QED BY <1>3, <2>1, <2>3, <2>4, <2>5 DEF GoodRefund
<1>7. \A r \in returned' \ returned : GoodRefund(provider, rail, requests, sessions', r)
  BY <1>2, <1>6
<1> QED BY <1>1, <1>5, <1>7, TradeKept

\* Before anything happened, only the rail matters.
LEMMA InitTrade == Init => Trade
<1> SUFFICES ASSUME Init PROVE Trade
  OBVIOUS
<1>1. PICK env \in Environments(provider) : rail \in {Build(provider, env), new_fiat(provider, env)}
  BY DEF Init
<1>2. rail.ok /\ provider = "payu" => rail.val.capabilities.currencies = {"INR"}
  BY <1>1, PayuCurrencies
<1>3. sessions = <<>> /\ returned = {} /\ call.op # "refund"
  BY DEF Init, Idle
<1> QED BY <1>2, <1>3 DEF Trade

\* Every step keeps what sessions and refunds are worth.
LEMMA NextTrade == Inv /\ Trade /\ [Next]_vars => Trade'
<1> SUFFICES ASSUME Inv, Trade, [Next]_vars PROVE Trade'
  OBVIOUS
<1>1. ASSUME NEW i \in DOMAIN sessions, Advance(i) PROVE Trade'
  BY <1>1, AdvanceTrade
<1>2. ASSUME NEW req \in requests, NEW net \in Nets, ChargeCall(req, net) PROVE Trade'
  BY <1>2, ChargeTrade
<1>3. ASSUME NEW v, NEW net, VerifyCall(v, net) PROVE Trade'
  BY <1>3, VerifyTrade
<1>4. ASSUME NEW net \in Nets, CaptureCall(net) PROVE Trade'
  BY <1>4, CaptureTrade
<1>5. ASSUME NEW v, NEW net, RefundBegin(v, net) PROVE Trade'
  BY <1>5, RefundBeginTrade
<1>6. ASSUME NEW net \in Nets, NEW done \in BOOLEAN, RefundPost(net, done) PROVE Trade'
  BY <1>6, RefundPostTrade
<1>7. ASSUME NEW s, NEW phase, NEW secret, NEW age, NEW net, Deliver(s, phase, secret, age, net)
      PROVE  Trade'
  <2>1. UNCHANGED <<given, sessions, call, returned>>
    BY <1>7 DEF Deliver
  <2> QED BY <2>1, QuietTrade
<1>8. ASSUME NEW i \in DOMAIN sessions, NEW f \in Faults, Announce(i, f[1], f[2]) PROVE Trade'
  BY <1>7, <1>8 DEF Announce
<1>9. ASSUME NEW i \in DOMAIN sessions, Stray(i) PROVE Trade'
  BY <1>7, <1>9 DEF Stray
<1>10. CASE UNCHANGED vars
  <2>1. UNCHANGED <<given, sessions, call, returned>>
    BY <1>10 DEF vars
  <2> QED BY <2>1, QuietTrade
<1> QED BY <1>1, <1>2, <1>3, <1>4, <1>5, <1>6, <1>8, <1>9, <1>10 DEF Next

\* The second part of the invariant holds throughout.
LEMMA TradeInvariance == Spec => []Trade
BY InitTrade, NextTrade, Invariance, PTL DEF Spec

\* What one charge of one adapter asks for, with no state around it.
LEMMA SessionAsks ==
  ASSUME NEW p \in Providers, NEW rl, p = "payu" => rl.capabilities.currencies = {"INR"},
         NEW q, q.amount_minor \in 0..MaxU64, NEW c, c = ChargeRequest(p, rl, q), c.ok,
         Upper(c.val.currency) \in Accepts(p)
  PROVE  /\ SameCode(c.val.currency, q.currency)
         /\ Worth(p, c.val.value, c.val.currency) = q.amount_minor * Factor(p, c.val.currency)
         /\ Quote(p, rl, q).ok
         /\ Quote(p, rl, q).val.total_minor = q.amount_minor
<1>1. SameCode(c.val.currency, q.currency)
  BY ChargeAsksWhatWasRequested
<1>2. Worth(p, c.val.value, c.val.currency) = q.amount_minor * Factor(p, c.val.currency)
  BY ChargeAsksWhatWasRequested
<1>3. Quote(p, rl, q).ok
  BY ChargeAsksWhatWasRequested
<1>4. Quote(p, rl, q).val.total_minor = q.amount_minor
  BY ChargeAsksWhatWasRequested
<1> QED BY <1>1, <1>2, <1>3, <1>4

\* On each of the 21 rails and for any orders: every session asks its payer for exactly the
\* amount and the currency of the order it was made for, in the processor's own units, and
\* quote promised that amount - except where the adapter sends a two-decimal amount as whole
\* units (PayPal's HUF, Stripe's MGA): there the payer is asked for a hundred times what quote
\* promised (charge's and quote's conversions).
THEOREM PayerIsAskedForTheOrder == Spec => []AskedIsRequested
<1>1. ASSUME Inv, Trade PROVE AskedIsRequested
  <2> SUFFICES ASSUME NEW i \in DOMAIN sessions, NEW s, s = sessions[i],
                      NEW req, req = RequestOf(s.reference)
               PROVE  /\ SameCode(s.currency, req.currency)
                      /\ Worth(provider, s.value, s.currency)
                            = req.amount_minor * Factor(provider, s.currency)
                      /\ Quote(provider, rail.val, req).ok
                      /\ Quote(provider, rail.val, req).val.total_minor = req.amount_minor
    BY DEF AskedIsRequested
  <2>1. PICK q, c :
          /\ q \in requests /\ c = ChargeRequest(provider, rail.val, q)
          /\ q.reference = s.reference
          /\ c.ok /\ c.val.value = s.value /\ c.val.currency = s.currency
          /\ Upper(c.val.currency) \in Accepts(provider)
    BY <1>1 DEF Trade, Sold
  <2>2. q = req /\ q.amount_minor \in 0..MaxU64
    BY <1>1, <2>1, OwnRequest DEF Inv
  <2>3. provider \in Providers
    BY <1>1, RailsAssumption DEF Inv, Given
  <2>4. provider = "payu" => rail.val.capabilities.currencies = {"INR"}
    BY <1>1 DEF Trade, Sold
  <2>5. /\ SameCode(c.val.currency, q.currency)
        /\ Worth(provider, c.val.value, c.val.currency)
              = q.amount_minor * Factor(provider, c.val.currency)
        /\ Quote(provider, rail.val, q).ok
        /\ Quote(provider, rail.val, q).val.total_minor = q.amount_minor
    <3>1. PICK p, rl : p = provider /\ rl = rail.val
      OBVIOUS
    <3>2. p \in Providers /\ (p = "payu" => rl.capabilities.currencies = {"INR"})
      BY <2>3, <2>4, <3>1
    <3>3. /\ c = ChargeRequest(p, rl, q) /\ c.ok
          /\ Upper(c.val.currency) \in Accepts(p)
          /\ q.amount_minor \in 0..MaxU64
      BY <2>1, <2>2, <3>1
    <3>4. /\ SameCode(c.val.currency, q.currency)
          /\ Worth(p, c.val.value, c.val.currency) = q.amount_minor * Factor(p, c.val.currency)
          /\ Quote(p, rl, q).ok
          /\ Quote(p, rl, q).val.total_minor = q.amount_minor
      BY ONLY <3>2, <3>3, SessionAsks
    <3> QED BY <3>1, <3>4
  <2> QED BY <2>1, <2>2, <2>5
<1> QED BY <1>1, Invariance, TradeInvariance, PTL

\* On each rail that can refund: the receipt of a refund claims money only if a session of its
\* order was refunded, and then the order's amount; and, except on Paystack, it never verifies
\* as a payment (refund's two requests, the processor's repeats and a lost answer included).
THEOREM RefundsClaimOnlyWhatWasGivenBack == Spec => []RefundIsReal
<1>1. ASSUME Inv, Trade PROVE RefundIsReal
  <2> SUFFICES ASSUME NEW r \in returned
               PROVE  /\ r.amount_minor > 0 =>
                            /\ \E i \in DOMAIN sessions : /\ sessions[i].reference = r.reference
                                                          /\ sessions[i].phase = "refunded"
                            /\ r.amount_minor = RequestOf(r.reference).amount_minor
                      /\ provider # "paystack" =>
                            \A i \in DOMAIN sessions :
                               Verify(provider, rail.val, r, "ok",
                                      Payload(provider, sessions[i])) # Ok(TRUE)
    BY DEF RefundIsReal
  <2>1. GoodRefund(provider, rail, requests, sessions, r)
    BY <1>1 DEF Trade
  <2>2. \A req \in requests : RequestOf(req.reference) = req
    BY <1>1, OwnRequest DEF Inv
  <2> QED BY <2>1, <2>2 DEF GoodRefund, GivenBack
<1> QED BY <1>1, Invariance, TradeInvariance, PTL
=============================================================================
