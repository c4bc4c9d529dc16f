------------------------------ MODULE Failover ------------------------------
(***************************************************************************)
(* FailoverRail (patala-core/src/failover.rs): a chain of payment rails    *)
(* tried in the order a RoutingPolicy returns, falling through on error,   *)
(* without crossing the settlement-class boundary unless the caller opted  *)
(* in.                                                                     *)
(*                                                                         *)
(* FailoverRail keeps no mutable state of its own (every method takes      *)
(* &self and there is no interior mutability), so one call at a time is    *)
(* modelled, and calls follow one another without bound.  The loops of     *)
(* `plan`, `quote` and `charge` are taken one iteration per step: each     *)
(* iteration of the second pair is an await on a rail.                     *)
(*                                                                         *)
(* The rails themselves are the environment: what any implementation of    *)
(* PaymentRail may answer.  In particular a `charge` may move the money    *)
(* and still return Err (an RPC timeout after the processor or the chain   *)
(* accepted the payment).                                                  *)
(***************************************************************************)
EXTENDS Integers, Sequences

CONSTANTS
    Rails,          \* indices of the wrapped rails; a policy may return others
    Class,          \* Class[i]: the RailClass in rail i's capabilities
    Final,          \* the class NonCustodialFinal
    Id,             \* Id[i]: rail i's PaymentRail::id
    ForeignId,      \* a rail_id no wrapped rail has
    Accepts,        \* Accepts[i]: the requests whose currency rail i supports
    Requests,       \* the PayRequests of the instance
    WellFormed,     \* the Requests that pass PayRequest::validate
    Orders,         \* the index sequences the RoutingPolicy may return
    NoClass,        \* Option::None of `intended`
    NoError         \* Option::None of `last`

ASSUME ConstantsAssumption ==
    /\ WellFormed \subseteq Requests
    /\ Accepts \in [Rails -> SUBSET Requests]
    /\ ForeignId \notin {Id[i] : i \in Rails}
    /\ \A o \in Orders : o \in Seq(Nat)
    /\ Rails \subseteq Nat
    /\ NoClass \notin {Class[i] : i \in Rails}
    /\ NoError \notin {"Rail", "InvalidRequest"}

VARIABLES
    allowCross, \* FailoverRail::allow_cross_class, fixed when the chain is built
    pc,         \* "idle", "planning", "trying" or "done"
    op,         \* "quote" or "charge": which of the two loops runs
    req,        \* the request of the call
    order,      \* what policy.order returned
    k,          \* the candidate of `order` the plan loop looks at next
    intended,   \* the class the first reached rail fixed, or NoClass
    eligible,   \* Plan::order
    blocked,    \* Plan::blocked: <<>> or <<want, class>>
    pos,        \* the entry of `eligible` the attempt loop tries next
    last,       \* the error of the latest failed attempt, or NoError
    result,     \* what the call returned
    tried,      \* history of the call: the rails asked and what they did
    receipts    \* the receipts the chain handed out: rail_id, and who issued it

planVars == <<order, k, intended, eligible, blocked>>
callVars == <<allowCross, op, req>>
vars == <<allowCross, pc, op, req, order, k, intended, eligible, blocked, pos, last,
          result, tried, receipts>>

Classes == {Class[i] : i \in Rails}
RailErrors == {"Rail", "InvalidRequest"}
Effects == {"ok", "refused", "failed", "lost"}

Pending == [tag |-> "pending"]
OkOn(i) == [tag |-> "ok", rail |-> i]
Error(e) == [tag |-> "error", error |-> e]
CrossClass(p) == [tag |-> "cross_class", from |-> p[1], to |-> p[2]]
Answer(o, r, i, a) == [tag |-> o, receipt |-> r, asked |-> i, answer |-> a]

ReceiptOf(i) == [rail_id |-> Id[i], issuer |-> i]
NoRail == -1
ForeignReceipt == [rail_id |-> ForeignId, issuer |-> NoRail]

-----------------------------------------------------------------------------
Init ==
    /\ allowCross \in BOOLEAN
    /\ pc = "idle"
    /\ op \in {"quote", "charge"}
    /\ req \in Requests
    /\ order = <<>> /\ k = 1 /\ intended = NoClass
    /\ eligible = <<>> /\ blocked = <<>>
    /\ pos = 1 /\ last = NoError /\ result = Pending /\ tried = <<>>
    /\ receipts = {}

(***************************************************************************)
(* FailoverRail::quote / ::charge: ask the policy for its order and start  *)
(* planning.                                                               *)
(***************************************************************************)
Begin ==
    /\ pc = "idle"
    /\ pc' = "planning"
    /\ op' \in {"quote", "charge"}
    /\ req' \in Requests
    /\ order' \in Orders
    /\ UNCHANGED <<allowCross, k, intended, eligible, blocked, pos, last,
                   result, tried, receipts>>

\* The call has returned: its locals are dropped, and another may follow.
Return ==
    /\ pc = "done"
    /\ pc' = "idle"
    /\ order' = <<>> /\ k' = 1 /\ intended' = NoClass
    /\ eligible' = <<>> /\ blocked' = <<>>
    /\ pos' = 1 /\ last' = NoError /\ result' = Pending /\ tried' = <<>>
    /\ UNCHANGED <<callVars, receipts>>

Planning ==
    /\ pc = "planning"
    /\ k \in 1..Len(order)
    /\ k' = k + 1
    /\ UNCHANGED <<callVars, pc, order, pos, last, result, tried, receipts>>

\* Mutant: an index nobody checked is kept.
SkipUnknownKept ==
    /\ Planning
    /\ order[k] \notin Rails
    /\ eligible' = Append(eligible, order[k])
    /\ UNCHANGED <<intended, blocked>>

\* self.rails.get(idx) is None: the candidate is skipped.
SkipUnknown ==
    /\ Planning
    /\ order[k] \notin Rails
    /\ UNCHANGED <<intended, eligible, blocked>>

\* The first rail reached fixes the class of the attempt.
FixClass ==
    /\ Planning
    /\ order[k] \in Rails
    /\ intended = NoClass
    /\ intended' = Class[order[k]]
    /\ eligible' = Append(eligible, order[k])
    /\ UNCHANGED blocked

\* Mutant: the class is not compared.
AdmitAnyClass ==
    /\ Planning
    /\ order[k] \in Rails
    /\ intended # NoClass
    /\ eligible' = Append(eligible, order[k])
    /\ UNCHANGED <<intended, blocked>>

\* A rail of the fixed class, or of any class once the caller opted in.
Admit ==
    /\ Planning
    /\ order[k] \in Rails
    /\ intended # NoClass
    /\ intended = Class[order[k]] \/ allowCross
    /\ eligible' = Append(eligible, order[k])
    /\ UNCHANGED <<intended, blocked>>

\* A rail on the other side of the boundary is skipped; the first one is
\* remembered (get_or_insert).
Block ==
    /\ Planning
    /\ order[k] \in Rails
    /\ intended # NoClass
    /\ intended # Class[order[k]]
    /\ ~allowCross
    /\ blocked' = IF blocked = <<>> THEN <<intended, Class[order[k]]>>
                                    ELSE blocked
    /\ UNCHANGED <<intended, eligible>>

StartTrying ==
    /\ pc = "planning"
    /\ k > Len(order)
    /\ pc' = "trying"
    /\ UNCHANGED <<callVars, planVars, pos, last, result, tried, receipts>>

(***************************************************************************)
(* One iteration of the attempt loop: self.rails[idx].quote/charge(req).   *)
(* Every rail validates the request and its currency before it does        *)
(* anything, and answers InvalidRequest for a bad one.                     *)
(***************************************************************************)
Attempting ==
    /\ pc = "trying"
    /\ pos \in 1..Len(eligible)

Admissible(i) == req \in WellFormed /\ req \in Accepts[i]

\* Mutant: a success does not end the loop.
RailOkContinues ==
    /\ Attempting
    /\ Admissible(eligible[pos])
    /\ pos' = pos + 1
    /\ result' = OkOn(eligible[pos])
    /\ tried' = Append(tried, [rail |-> eligible[pos], effect |-> "ok"])
    /\ UNCHANGED <<pc, callVars, planVars, last, receipts>>

\* Ok: the loop returns at once.
RailOk ==
    /\ Attempting
    /\ Admissible(eligible[pos])
    /\ pc' = "done"
    /\ result' = OkOn(eligible[pos])
    /\ tried' = Append(tried, [rail |-> eligible[pos], effect |-> "ok"])
    /\ receipts' = IF op = "charge"
                   THEN receipts \cup {ReceiptOf(eligible[pos])}
                   ELSE receipts
    /\ UNCHANGED <<callVars, planVars, pos, last>>

\* Mutant: a failed rail is asked again instead of the next one.
FallThroughInPlace(e, effect) ==
    /\ Attempting
    /\ last' = e
    /\ UNCHANGED <<pc, callVars, planVars, pos, result, tried, receipts>>

\* Err(e): whatever e is, it is kept in `last` and the next rail is tried.
FallThrough(e, effect) ==
    /\ Attempting
    /\ last' = e
    /\ pos' = pos + 1
    /\ tried' = Append(tried, [rail |-> eligible[pos], effect |-> effect])
    /\ UNCHANGED <<pc, callVars, planVars, result, receipts>>

RailRefuses ==
    /\ Attempting
    /\ ~Admissible(eligible[pos])
    /\ FallThrough("InvalidRequest", "refused")

RailFails ==
    /\ Attempting
    /\ Admissible(eligible[pos])
    /\ FallThrough("Rail", "failed")

\* A charge whose money moved although the caller sees an error.
RailLosesAnswer ==
    /\ Attempting
    /\ op = "charge"
    /\ Admissible(eligible[pos])
    /\ FallThrough("Rail", "lost")

\* Mutant: the two classes of the report are swapped.
TerminalErrorSwapped(lst, blk) ==
    IF blk # <<>> THEN CrossClass(<<blk[2], blk[1]>>)
    ELSE IF lst # NoError THEN Error(lst)
    ELSE Error("AllRailsFailed")

\* Mutant: the last rail's own error hides the blocked candidate.
TerminalErrorLastFirst(lst, blk) ==
    IF lst # NoError THEN Error(lst)
    ELSE IF blk # <<>> THEN CrossClass(blk)
    ELSE Error("AllRailsFailed")

\* FailoverRail::terminal_error: a blocked candidate is reported in
\* preference to the last rail's own error.
TerminalError(lst, blk) ==
    IF blk # <<>> THEN CrossClass(blk)
    ELSE IF lst # NoError THEN Error(lst)
    ELSE Error("AllRailsFailed")

Exhausted ==
    /\ pc = "trying"
    /\ pos > Len(eligible)
    /\ pc' = "done"
    /\ result' = TerminalError(last, blocked)
    /\ UNCHANGED <<callVars, planVars, pos, last, tried, receipts>>

(***************************************************************************)
(* FailoverRail::verify / ::refund: dispatch on receipt.rail_id to the     *)
(* first wrapped rail with that id, and to no other.                       *)
(***************************************************************************)
Named(id) == {i \in Rails : Id[i] = id}
\* Mutant: the first rail of the chain, whatever its id.
FirstOfAll(id) == CHOOSE i \in Rails : \A j \in Rails : i <= j

FirstNamed(id) == CHOOSE i \in Named(id) : \A j \in Named(id) : i <= j

\* Any rail may answer anything: a receipt of its own that has not settled is
\* Ok(false) as well (the manual rail before mark_paid), and Err says that
\* the check could not be performed (RPC down).
VerifyAnswers == [i \in Rails |-> {"true", "false", "err"}]

\* A final rail refuses to reverse; a custodial one refunds, fails, or keeps
\* the trait's default, which refuses (the manual rail does).
RefundAnswers ==
    [i \in Rails |-> IF Class[i] = Final THEN {"unsupported"}
                     ELSE {"refunded", "err", "unsupported"}]

Dispatch(o, r, answers, otherwise) ==
    /\ pc = "idle"
    /\ pc' = "done"
    /\ \/ /\ Named(r.rail_id) = {}
          /\ result' = Answer(o, r, NoRail, otherwise)
       \/ /\ Named(r.rail_id) # {}
          /\ \E a \in answers[FirstNamed(r.rail_id)] :
                result' = Answer(o, r, FirstNamed(r.rail_id), a)
    /\ UNCHANGED <<callVars, planVars, pos, last, tried, receipts>>

Receipts == receipts \cup {ForeignReceipt}
Verify == \E r \in Receipts : Dispatch("verify", r, VerifyAnswers, "false")
Refund == \E r \in Receipts : Dispatch("refund", r, RefundAnswers, "unsupported")

Plan == SkipUnknown \/ FixClass \/ Admit \/ Block \/ StartTrying
Attempt == RailOk \/ RailRefuses \/ RailFails \/ RailLosesAnswer \/ Exhausted

Next == Begin \/ Plan \/ Attempt \/ Verify \/ Refund \/ Return

Spec == Init /\ [][Next]_vars

\* Once called, the future is polled until it is ready: the caller awaits
\* it, and the policy and every rail eventually answer (each rail's client
\* has its own timeout).  Nothing obliges a caller to make another call.
FairSpec == Spec /\ WF_vars(Plan \/ Attempt)

-----------------------------------------------------------------------------
Asked == {tried[j].rail : j \in 1..Len(tried)}
Candidates == {order[j] : j \in {n \in 1..Len(order) : order[n] \in Rails}}

TypeOK ==
    /\ allowCross \in BOOLEAN
    /\ pc \in {"idle", "planning", "trying", "done"}
    /\ op \in {"quote", "charge"}
    /\ req \in Requests
    /\ order \in Seq(Nat)
    /\ k \in Nat \ {0}
    /\ intended \in Classes \cup {NoClass}
    /\ eligible \in Seq(Rails)
    /\ blocked \in {<<>>} \cup (Classes \X Classes)
    /\ pos \in Nat \ {0}
    /\ last \in RailErrors \cup {NoError}
    /\ tried \in Seq([rail : Rails, effect : Effects])
    /\ receipts \subseteq {ReceiptOf(i) : i \in Rails}

\* The boundary failover.rs promises (struct docs of FailoverRail): without
\* the opt-in, no call ever asks rails of two settlement classes -- whatever
\* order the policy returned, whichever rails failed on the way, and for
\* quotes as for charges.
SingleClass ==
    ~allowCross => \A i, j \in Asked : Class[i] = Class[j]

\* error.rs on CrossClassFailover: "had a same-class rail available and it
\* failed, but the only remaining candidate sits on the other side".  When a
\* call ends in that error, a rail of class `from` was asked, no rail it
\* asked succeeded, it asked every candidate of that class, and every
\* candidate left is of another class, `to` being one of them.
CrossClassReport ==
    result.tag = "cross_class" =>
        /\ \E i \in Asked : Class[i] = result.from
        /\ \A j \in 1..Len(tried) : tried[j].effect # "ok"
        /\ \A i \in Candidates : Class[i] = result.from <=> i \in Asked
        /\ \E i \in Candidates \ Asked : Class[i] = result.to

\* Any other error means nothing was held back (a call that fails with a
\* candidate held back ends in CrossClassFailover, a malformed request that
\* no rail could have handled included): every candidate of the policy was
\* asked and failed, the error is the last one's own; and
\* AllRailsFailed means there was no rail to ask (error.rs: "No rail was
\* available or eligible to even try").
ErrorMeansExhausted ==
    result.tag = "error" =>
        /\ Candidates = Asked
        /\ \A j \in 1..Len(tried) : tried[j].effect # "ok"
        /\ (result.error = "AllRailsFailed") <=> (Candidates = {})
        /\ Candidates # {} =>
              result.error = (IF tried[Len(tried)].effect = "refused"
                              THEN "InvalidRequest" ELSE "Rail")

\* A success is the answer of the last rail asked, of no earlier one, and no
\* further rail is asked once one succeeded: the money of a call moves at
\* most once more than the number of attempts whose answer was lost.
FirstSuccessWins ==
    /\ result.tag = "ok" =>
           /\ tried # <<>>
           /\ result.rail = tried[Len(tried)].rail
    /\ \A j \in 1..Len(tried) :
           tried[j].effect = "ok" <=> (result.tag = "ok" /\ j = Len(tried))

UniqueIds == \A i, j \in Rails : Id[i] = Id[j] => i = j

\* A receipt is judged by the rail that issued it, however many calls and
\* receipts came in between.  As long as no two wrapped rails share an id,
\* verify and refund of a receipt the chain handed out ask its issuer and no
\* other rail (what the issuer answers is its own affair); a receipt from
\* elsewhere reaches no rail, never verifies and is never refunded; and a
\* refund comes about only where the issuer's class is not final.
ReceiptsReachTheirIssuer ==
    UniqueIds /\ result.tag \in {"verify", "refund"} =>
        /\ result.receipt \in receipts => result.asked = result.receipt.issuer
        /\ result.receipt \notin receipts =>
              /\ result.asked = NoRail
              /\ result.answer \in {"false", "unsupported"}
        /\ result.answer = "refunded" => Class[result.receipt.issuer] # Final

\* Every quote and every charge returns.
EveryCallReturns == pc = "planning" ~> pc = "done"
=============================================================================
