--------------------------- MODULE FailoverProofs ---------------------------
(***************************************************************************)
(* Proofs about Failover, for any number of rails, any policy, any         *)
(* assignment of classes and any requests.                                 *)
(*                                                                         *)
(* The properties speak of what a call asked and returned; what makes them *)
(* inductive is what the two loops maintain about their own locals:        *)
(* PlanInv relates `eligible` and `blocked` to the candidates looked at so *)
(* far, TryInv relates `tried`, `pos`, `last` and `result` to `eligible`.  *)
(***************************************************************************)
EXTENDS Failover, TLAPS

\* The plan loop: every candidate looked at is eligible or was blocked.
ClassFixed == intended = NoClass <=> eligible = <<>>
EligibleOneClass ==
    ~allowCross => \A m \in 1..Len(eligible) : Class[eligible[m]] = intended
Accounted ==
    \A j \in 1..Len(order) :
        j < k /\ order[j] \in Rails =>
            \/ \E m \in 1..Len(eligible) : eligible[m] = order[j]
            \/ blocked # <<>> /\ Class[order[j]] # intended
FromOrder ==
    \A m \in 1..Len(eligible) : \E j \in 1..Len(order) : order[j] = eligible[m]
BlockedIsReal ==
    blocked # <<>> =>
        /\ ~allowCross
        /\ eligible # <<>>
        /\ blocked[1] = intended
        /\ blocked[2] # intended
        /\ \E j \in 1..Len(order) :
              order[j] \in Rails /\ Class[order[j]] = blocked[2]
PlanPhase ==
    /\ pc # "planning" => k > Len(order)
    /\ pc = "idle" => k = 1 /\ eligible = <<>> /\ blocked = <<>>

PlanInv ==
    /\ ClassFixed
    /\ EligibleOneClass
    /\ Accounted
    /\ FromOrder
    /\ BlockedIsReal
    /\ PlanPhase

ErrorOf(effect) == IF effect = "refused" THEN "InvalidRequest" ELSE "Rail"

\* The attempt loop: it has asked a prefix of `eligible`, every rail of it
\* failed unless the call ended on it, and `last` is the latest failure.
TryInv ==
    /\ Len(tried) <= Len(eligible)
    /\ \A j \in 1..Len(tried) : tried[j].rail = eligible[j]
    /\ \A j \in 1..Len(tried) :
          tried[j].effect = "ok" <=> (result.tag = "ok" /\ j = Len(tried))
    /\ result.tag # "ok" => pos = Len(tried) + 1
    /\ pos = 1 => last = NoError
    /\ result.tag # "ok" /\ pos > 1 => last = ErrorOf(tried[Len(tried)].effect)
    /\ pc \in {"idle", "planning"} => tried = <<>>
    /\ pc \in {"idle", "planning", "trying"} => result = Pending
    /\ result.tag = "ok" => tried # <<>> /\ result.rail = tried[Len(tried)].rail
    /\ result.tag = "error" =>
          /\ pos > Len(eligible)
          /\ blocked = <<>>
          /\ result.error = IF pos = 1 THEN "AllRailsFailed" ELSE last
    /\ result.tag = "cross_class" =>
          /\ pos > Len(eligible)
          /\ blocked # <<>>
          /\ result.from = blocked[1]
          /\ result.to = blocked[2]

IInv == TypeOK /\ PlanInv /\ TryInv

-----------------------------------------------------------------------------
\* What the locals of a call look like, for every reachable state.
LEMMA InitIInv == Init => IInv
  BY ConstantsAssumption
     DEF Init, IInv, TypeOK, PlanInv, TryInv, Pending, ClassFixed,
         EligibleOneClass, Accounted, FromOrder, BlockedIsReal, PlanPhase

LEMMA TypeStep == ASSUME TypeOK, Next PROVE TypeOK'
<1> USE ConstantsAssumption DEF TypeOK, callVars, planVars
<1>1. CASE Begin
  BY <1>1 DEF Begin
<1>2. CASE SkipUnknown
  BY <1>2 DEF SkipUnknown, Planning
<1>3. CASE FixClass
  BY <1>3 DEF FixClass, Planning, Classes
<1>4. CASE Admit
  BY <1>4 DEF Admit, Planning
<1>5. CASE Block
  BY <1>5 DEF Block, Planning, Classes
<1>6. CASE StartTrying
  BY <1>6 DEF StartTrying
<1>7. CASE RailOk
  BY <1>7 DEF RailOk, Attempting, Effects
<1>8. CASE RailRefuses
  BY <1>8 DEF RailRefuses, FallThrough, Attempting, Effects, RailErrors
<1>9. CASE RailFails
  BY <1>9 DEF RailFails, FallThrough, Attempting, Effects, RailErrors
<1>10. CASE RailLosesAnswer
  BY <1>10 DEF RailLosesAnswer, FallThrough, Attempting, Effects, RailErrors
<1>11. CASE Exhausted
  BY <1>11 DEF Exhausted
<1>12. CASE Verify \/ Refund
  BY <1>12 DEF Verify, Refund, Dispatch
<1>13. CASE Return
  BY <1>13 DEF Return
<1> QED
  BY <1>1, <1>2, <1>3, <1>4, <1>5, <1>6, <1>7, <1>8, <1>9, <1>10, <1>11,
     <1>12, <1>13 DEF Next, Plan, Attempt

\* What Append does to a sequence, entry by entry.
LEMMA AppendFacts ==
    ASSUME NEW S, NEW s \in Seq(S), NEW x \in S
    PROVE  /\ Append(s, x) \in Seq(S)
           /\ Append(s, x) # <<>>
           /\ Len(Append(s, x)) = Len(s) + 1
           /\ \A m \in 1..Len(s) : Append(s, x)[m] = s[m]
           /\ Append(s, x)[Len(s) + 1] = x
  OBVIOUS

\* The plan loop.
LEMMA PlanStep == ASSUME TypeOK, PlanInv, Next PROVE PlanInv'
<1> USE ConstantsAssumption DEF TypeOK
<1>a. /\ ClassFixed /\ EligibleOneClass /\ Accounted
      /\ FromOrder /\ BlockedIsReal /\ PlanPhase
  BY DEF PlanInv
<1>1. CASE Begin
  BY <1>1, <1>a DEF Begin, PlanInv, ClassFixed, EligibleOneClass, Accounted,
                    FromOrder, BlockedIsReal, PlanPhase
<1>2. CASE SkipUnknown
  BY <1>2, <1>a DEF SkipUnknown, Planning, callVars, PlanInv, ClassFixed,
                    EligibleOneClass, Accounted, FromOrder, BlockedIsReal,
                    PlanPhase
<1>3. CASE FixClass
  <2> USE <1>3 DEF FixClass, Planning, callVars
  <2>1. eligible = <<>> /\ blocked = <<>>
    BY <1>a DEF ClassFixed, BlockedIsReal
  <2>2. /\ eligible' = <<order[k]>> /\ Len(eligible') = 1
        /\ eligible'[1] = order[k]
    BY <2>1
  <2>3. ClassFixed' /\ EligibleOneClass' /\ FromOrder' /\ BlockedIsReal'
    BY <1>a, <2>1, <2>2 DEF ClassFixed, EligibleOneClass, FromOrder,
                            BlockedIsReal
  <2>4. Accounted'
    BY <1>a, <2>1, <2>2 DEF Accounted
  <2>5. PlanPhase'
    BY DEF PlanPhase
  <2> QED BY <2>3, <2>4, <2>5 DEF PlanInv
<1>4. CASE Admit
  <2> USE <1>4 DEF Admit, Planning, callVars
  <2>1. /\ eligible' # <<>> /\ Len(eligible') = Len(eligible) + 1
        /\ \A m \in 1..Len(eligible) : eligible'[m] = eligible[m]
        /\ eligible'[Len(eligible) + 1] = order[k]
    <3>1. /\ eligible \in Seq(Rails) /\ order[k] \in Rails
          /\ eligible' = Append(eligible, order[k])
      OBVIOUS
    <3> HIDE <1>4 DEF TypeOK, Admit, Planning
    <3> QED BY <3>1, AppendFacts
  <2>2. Len(eligible) \in Nat
    OBVIOUS
  <2>3. ClassFixed' /\ BlockedIsReal' /\ PlanPhase'
    BY <1>a, <2>1 DEF ClassFixed, BlockedIsReal, PlanPhase
  <2>4. EligibleOneClass'
    BY <1>a, <2>1, <2>2 DEF EligibleOneClass
  <2>5. Accounted'
    <3>1. SUFFICES ASSUME NEW j \in 1..Len(order), j < k + 1,
                          order[j] \in Rails
                   PROVE  \/ \E m \in 1..Len(eligible') : eligible'[m] = order[j]
                          \/ blocked # <<>> /\ Class[order[j]] # intended
      BY DEF Accounted
    <3>2. CASE j = k
      BY <3>2, <2>1, <2>2
    <3>3. CASE j < k
      BY <3>1, <3>3, <1>a, <2>1, <2>2 DEF Accounted
    <3> QED BY <3>1, <3>2, <3>3
  <2>6. FromOrder'
    BY <1>a, <2>1, <2>2 DEF FromOrder
  <2> QED BY <2>3, <2>4, <2>5, <2>6 DEF PlanInv
<1>5. CASE Block
  <2> USE <1>5 DEF Block, Planning, callVars
  <2>1. blocked' # <<>>
    OBVIOUS
  <2>2. ClassFixed' /\ EligibleOneClass' /\ FromOrder' /\ PlanPhase'
    BY <1>a DEF ClassFixed, EligibleOneClass, FromOrder, PlanPhase
  <2>3. Accounted'
    <3>1. SUFFICES ASSUME NEW j \in 1..Len(order), j < k + 1,
                          order[j] \in Rails
                   PROVE  \/ \E m \in 1..Len(eligible) : eligible[m] = order[j]
                          \/ Class[order[j]] # intended
      BY <2>1 DEF Accounted
    <3>2. CASE j = k
      BY <3>2
    <3>3. CASE j < k
      BY <3>1, <3>3, <1>a DEF Accounted
    <3> QED BY <3>1, <3>2, <3>3
  <2>4. BlockedIsReal'
    BY <1>a, <2>1 DEF BlockedIsReal, ClassFixed
  <2> QED BY <2>2, <2>3, <2>4 DEF PlanInv
<1>6. ASSUME UNCHANGED <<allowCross, planVars>>, pc' # "idle",
             pc # "planning" \/ k > Len(order)
      PROVE  PlanInv'
  BY <1>6, <1>a DEF planVars, PlanInv, ClassFixed, EligibleOneClass, Accounted,
                    FromOrder, BlockedIsReal, PlanPhase
<1>7. CASE StartTrying
  BY <1>7, <1>6 DEF StartTrying, planVars, callVars
<1>8. CASE Attempt
  BY <1>8, <1>6 DEF Attempt, RailOk, RailRefuses, RailFails, RailLosesAnswer,
                    Exhausted, FallThrough, Attempting, planVars, callVars
<1>9. CASE Verify \/ Refund
  BY <1>9, <1>6 DEF Verify, Refund, Dispatch, planVars, callVars
<1>10. CASE Return
  BY <1>10 DEF Return, callVars, PlanInv, ClassFixed, EligibleOneClass,
               Accounted, FromOrder, BlockedIsReal, PlanPhase
<1> QED
  BY <1>1, <1>2, <1>3, <1>4, <1>5, <1>7, <1>8, <1>9, <1>10 DEF Next, Plan

\* The attempt loop.
LEMMA TryStep == ASSUME TypeOK, PlanInv, TryInv, Next PROVE TryInv'
<1> USE ConstantsAssumption DEF TypeOK
<1>1. CASE Begin
  BY <1>1 DEF Begin, Pending, TryInv
<1>2. CASE SkipUnknown \/ FixClass \/ Admit \/ Block
  <2>1. /\ pc = "planning" /\ UNCHANGED <<pc, pos, last, result, tried>>
        /\ eligible' \in Seq(Rails)
    BY <1>2, TypeStep DEF SkipUnknown, FixClass, Admit, Block, Planning
  <2>2. tried = <<>> /\ result = Pending /\ Len(tried) = 0 /\ Len(eligible') >= 0
    BY <2>1 DEF TryInv
  <2> QED BY <2>1, <2>2 DEF TryInv, Pending
<1>3. CASE StartTrying
  BY <1>3 DEF StartTrying, planVars, callVars, Pending, TryInv
<1>4. CASE RailOk
  BY <1>4 DEF RailOk, Attempting, planVars, callVars, Pending, OkOn, TryInv
<1>5. ASSUME NEW effect \in Effects, effect # "ok",
             FallThrough(ErrorOf(effect), effect)
      PROVE  TryInv'
  <2> USE <1>5 DEF FallThrough, Attempting, planVars, callVars
  <2>1. /\ result = Pending /\ result' = Pending
        /\ pos = Len(tried) + 1 /\ pos <= Len(eligible) /\ Len(tried) \in Nat
    BY DEF TryInv, Pending
  <2> DEFINE entry == [rail |-> eligible[pos], effect |-> effect]
  <2>2. entry \in [rail : Rails, effect : Effects]
    BY <2>1
  <2>3. /\ Len(tried') = Len(tried) + 1
        /\ \A j \in 1..Len(tried) : tried'[j] = tried[j]
        /\ tried'[Len(tried) + 1] = entry
    BY <2>2, AppendFacts
  <2>4. entry.rail = eligible[pos] /\ entry.effect = effect
    OBVIOUS
  <2> HIDE DEF entry
  <2>5. \A j \in 1..Len(tried') :
           tried'[j].rail = eligible'[j] /\ tried'[j].effect # "ok"
    BY <2>1, <2>3, <2>4 DEF TryInv, Pending
  <2> QED BY <2>1, <2>3, <2>4, <2>5 DEF TryInv, Pending
<1>6. CASE RailRefuses \/ RailFails \/ RailLosesAnswer
  <2>1. \E e \in Effects : e # "ok" /\ FallThrough(ErrorOf(e), e)
    BY <1>6 DEF RailRefuses, RailFails, RailLosesAnswer, ErrorOf, Effects
  <2> QED BY <2>1, <1>5
<1>7. CASE Exhausted
  <2> USE <1>7 DEF Exhausted, planVars, callVars
  <2>1. /\ result = Pending /\ pos = Len(tried) + 1 /\ pos > Len(eligible)
        /\ pos = 1 <=> last = NoError
    BY DEF TryInv, Pending, ErrorOf
  <2>2. CASE blocked # <<>>
    BY <2>1, <2>2 DEF TryInv, TerminalError, CrossClass, Pending
  <2>3. CASE blocked = <<>>
    BY <2>1, <2>3 DEF TryInv, TerminalError, Error, Pending
  <2> QED BY <2>2, <2>3
<1>8. CASE Verify \/ Refund
  <2>1. PICK o, r, i, a :
           o \in {"verify", "refund"} /\ result' = Answer(o, r, i, a)
    BY <1>8 DEF Verify, Refund, Dispatch
  <2>2. result'.tag \in {"verify", "refund"}
    BY <2>1 DEF Answer
  <2>3. /\ pc = "idle" /\ pc' = "done"
        /\ UNCHANGED <<planVars, pos, last, tried>>
    BY <1>8 DEF Verify, Refund, Dispatch
  <2> QED BY <2>2, <2>3 DEF TryInv, planVars, Pending
<1>9. CASE Return
  BY <1>9 DEF Return, callVars, Pending, TryInv
<1> QED
  BY <1>1, <1>2, <1>3, <1>4, <1>6, <1>7, <1>8, <1>9 DEF Next, Plan, Attempt

\* IInv is inductive.
LEMMA IInvStep == IInv /\ [Next]_vars => IInv'
<1>1. ASSUME IInv, Next PROVE IInv'
  BY <1>1, TypeStep, PlanStep, TryStep DEF IInv
<1>2. ASSUME IInv, UNCHANGED vars PROVE IInv'
  <2>1. TypeOK'
    BY <1>2 DEF IInv, vars, TypeOK
  <2>2. PlanInv'
    BY <1>2 DEF IInv, vars, PlanInv, ClassFixed, EligibleOneClass, Accounted,
                FromOrder, BlockedIsReal, PlanPhase
  <2>3. TryInv'
    BY <1>2 DEF IInv, vars, TryInv
  <2> QED BY <2>1, <2>2, <2>3 DEF IInv
<1> QED BY <1>1, <1>2

LEMMA Inductive == Spec => []IInv
  BY InitIInv, IInvStep, PTL DEF Spec

-----------------------------------------------------------------------------
\* The variables of a call keep their types: in particular no rail is ever
\* asked that is not wrapped, whatever indices a policy returns.
THEOREM TypeCorrect == Spec => []TypeOK
  BY Inductive, PTL DEF IInv

\* The class boundary: without the opt-in a call asks rails of one
\* settlement class only, for every chain and every routing policy.
THEOREM ClassBoundary == Spec => []SingleClass
<1>1. IInv => SingleClass
  <2> SUFFICES ASSUME IInv, ~allowCross, NEW i \in Asked, NEW j \in Asked
               PROVE  Class[i] = Class[j]
    BY DEF SingleClass
  <2>1. \A n \in 1..Len(tried) : Class[tried[n].rail] = intended
    BY DEF IInv, TypeOK, PlanInv, EligibleOneClass, TryInv
  <2> QED BY <2>1 DEF Asked
<1> QED BY <1>1, Inductive, PTL

\* When every eligible rail has been asked, the candidates that were not
\* asked are exactly the blocked ones.
LEMMA AskedAll ==
    ASSUME IInv, pc = "done", pos > Len(eligible), result.tag # "ok"
    PROVE  /\ Asked \subseteq Candidates
           /\ \A i \in Candidates :
                 i \in Asked \/ (blocked # <<>> /\ Class[i] # intended)
           /\ Asked = {} <=> eligible = <<>>
<1> USE DEF IInv, TypeOK
<1>1. Len(tried) = Len(eligible) /\ Len(tried) \in Nat
  BY DEF TryInv
<1>2. Asked = {eligible[m] : m \in 1..Len(eligible)}
  BY <1>1 DEF TryInv, Asked
<1>3. Asked \subseteq Candidates
  BY <1>2 DEF PlanInv, FromOrder, Candidates
<1>4. ASSUME NEW i \in Candidates
      PROVE  i \in Asked \/ (blocked # <<>> /\ Class[i] # intended)
  <2>1. PICK j \in 1..Len(order) : order[j] = i /\ order[j] \in Rails
    BY <1>4 DEF Candidates
  <2>2. j < k
    BY DEF PlanInv, PlanPhase
  <2> QED BY <2>1, <2>2, <1>2 DEF PlanInv, Accounted
<1>5. Asked = {} <=> eligible = <<>>
  <2>1. CASE eligible = <<>>
    BY <2>1, <1>2
  <2>2. CASE eligible # <<>>
    <3>1. 1 \in 1..Len(eligible)
      BY <2>2
    <3> QED BY <3>1, <2>2, <1>2
  <2> QED BY <2>1, <2>2
<1> QED BY <1>3, <1>4, <1>5

\* A call that ends in CrossClassFailover asked every candidate of its class
\* and only rails of the other class remain.
THEOREM CrossClassReported == Spec => []CrossClassReport
<1>1. IInv => CrossClassReport
  <2> SUFFICES ASSUME IInv, result.tag = "cross_class"
               PROVE  /\ \E i \in Asked : Class[i] = result.from
                      /\ \A j \in 1..Len(tried) : tried[j].effect # "ok"
                      /\ \A i \in Candidates :
                            Class[i] = result.from <=> i \in Asked
                      /\ \E i \in Candidates \ Asked : Class[i] = result.to
    BY DEF CrossClassReport
  <2>1. /\ pc = "done" /\ pos > Len(eligible) /\ blocked # <<>>
        /\ result.from = intended /\ result.to = blocked[2]
        /\ ~allowCross /\ eligible # <<>> /\ blocked[2] # intended
    BY DEF IInv, TypeOK, TryInv, PlanInv, BlockedIsReal, Pending
  <2>2. \A i \in Asked : Class[i] = intended
    BY <2>1 DEF IInv, TypeOK, PlanInv, EligibleOneClass, TryInv, Asked
  <2>3. /\ Asked # {}
        /\ \A i \in Candidates : i \in Asked \/ Class[i] # intended
    BY <2>1, AskedAll
  <2>4. \A j \in 1..Len(tried) : tried[j].effect # "ok"
    BY DEF IInv, TryInv
  <2>5. \E i \in Candidates : Class[i] = blocked[2]
    BY <2>1 DEF IInv, PlanInv, BlockedIsReal, Candidates
  <2> QED BY <2>1, <2>2, <2>3, <2>4, <2>5
<1> QED BY <1>1, Inductive, PTL

\* Any other error means that every candidate was asked and failed.
THEOREM ErrorsExhaust == Spec => []ErrorMeansExhausted
<1>1. IInv => ErrorMeansExhausted
  <2> SUFFICES ASSUME IInv, result.tag = "error"
               PROVE  ErrorMeansExhausted
    BY DEF ErrorMeansExhausted
  <2>1. /\ pc = "done" /\ pos > Len(eligible) /\ blocked = <<>>
        /\ result.error = IF pos = 1 THEN "AllRailsFailed" ELSE last
        /\ pos = Len(tried) + 1 /\ Len(tried) = Len(eligible)
        /\ Len(tried) \in Nat
    BY DEF IInv, TypeOK, TryInv, Pending
  <2>2. Candidates = Asked /\ (Asked = {} <=> eligible = <<>>)
    BY <2>1, AskedAll
  <2>3. \A j \in 1..Len(tried) : tried[j].effect # "ok"
    BY DEF IInv, TryInv
  <2>4. eligible = <<>> <=> pos = 1
    BY <2>1 DEF IInv, TypeOK
  <2>5. pos > 1 => last = ErrorOf(tried[Len(tried)].effect)
    BY <2>1 DEF IInv, TryInv
  <2> QED BY <2>1, <2>2, <2>3, <2>4, <2>5 DEF ErrorMeansExhausted, ErrorOf, IInv, TypeOK
<1> QED BY <1>1, Inductive, PTL

\* A success is the last rail's, and nothing is asked after it.
THEOREM SuccessIsFirst == Spec => []FirstSuccessWins
<1>1. IInv => FirstSuccessWins
  BY DEF IInv, TryInv, FirstSuccessWins
<1> QED BY <1>1, Inductive, PTL

\* Where no two rails share an id, a receipt of the chain is dispatched to the
\* rail that issued it, and a foreign one to none.
LEMMA DispatchTarget ==
    ASSUME TypeOK, UniqueIds, NEW r \in Receipts
    PROVE  /\ r \in receipts => /\ Named(r.rail_id) # {}
                                /\ r.issuer \in Rails
                                /\ FirstNamed(r.rail_id) = r.issuer
           /\ r \notin receipts => Named(r.rail_id) = {}
<1>1. ASSUME r \in receipts
      PROVE  /\ Named(r.rail_id) # {} /\ r.issuer \in Rails
             /\ FirstNamed(r.rail_id) = r.issuer
  <2>1. PICK i \in Rails : r = ReceiptOf(i)
    BY <1>1 DEF TypeOK
  <2>2. r.rail_id = Id[i] /\ r.issuer = i
    BY <2>1 DEF ReceiptOf
  <2>3. Named(r.rail_id) = {i}
    BY <2>2 DEF Named, UniqueIds
  <2>4. i <= i
    BY ConstantsAssumption
  <2>5. FirstNamed(r.rail_id) = i
    BY <2>3, <2>4 DEF FirstNamed
  <2> QED BY <2>2, <2>3, <2>5
<1>2. ASSUME r \notin receipts
      PROVE  Named(r.rail_id) = {}
  <2>1. r.rail_id = ForeignId
    BY <1>2 DEF Receipts, ForeignReceipt
  <2> QED BY <2>1, ConstantsAssumption DEF Named
<1> QED BY <1>1, <1>2

\* Verify and refund judge a receipt through the rail that issued it; every
\* other step leaves no such answer behind.
LEMMA DispatchStep ==
    ASSUME TypeOK, TryInv, ReceiptsReachTheirIssuer, Next
    PROVE  ReceiptsReachTheirIssuer'
<1>1. ASSUME result'.tag \notin {"verify", "refund"}
      PROVE  ReceiptsReachTheirIssuer'
  BY <1>1 DEF ReceiptsReachTheirIssuer
<1>2. CASE Begin \/ Plan
  BY <1>1, <1>2 DEF Begin, Plan, SkipUnknown, FixClass, Admit, Block, Planning,
                    StartTrying, TryInv, Pending
<1>3. CASE RailOk
  BY <1>1, <1>3 DEF RailOk, OkOn
<1>4. CASE RailRefuses \/ RailFails \/ RailLosesAnswer
  BY <1>1, <1>4 DEF RailRefuses, RailFails, RailLosesAnswer, FallThrough,
                    Attempting, TryInv, Pending
<1>5. CASE Exhausted
  BY <1>1, <1>5 DEF Exhausted, TerminalError, CrossClass, Error
<1>6. CASE Return
  BY <1>1, <1>6 DEF Return, Pending
<1>7. CASE Verify
  <2>1. PICK r \in Receipts : Dispatch("verify", r, VerifyAnswers, "false")
    BY <1>7 DEF Verify
  <2>2. PICK i, a :
           /\ result' = Answer("verify", r, i, a)
           /\ \/ Named(r.rail_id) = {} /\ i = NoRail /\ a = "false"
              \/ /\ Named(r.rail_id) # {} /\ i = FirstNamed(r.rail_id)
                 /\ a \in VerifyAnswers[i]
    BY <2>1 DEF Dispatch
  <2>3. receipts' = receipts
    BY <2>1 DEF Dispatch
  <2>4. /\ result'.tag = "verify" /\ result'.receipt = r
        /\ result'.asked = i /\ result'.answer = a
    BY <2>2 DEF Answer
  <2>5. UniqueIds => /\ r \in receipts => i = r.issuer /\ a \in VerifyAnswers[i] /\ i \in Rails
                     /\ r \notin receipts => i = NoRail /\ a = "false"
    BY <2>2, DispatchTarget
  <2>6. UniqueIds => a # "refunded"
    BY <2>5 DEF VerifyAnswers
  <2> QED BY <2>3, <2>4, <2>5, <2>6 DEF ReceiptsReachTheirIssuer, UniqueIds
<1>8. CASE Refund
  <2>1. PICK r \in Receipts : Dispatch("refund", r, RefundAnswers, "unsupported")
    BY <1>8 DEF Refund
  <2>2. PICK i, a :
           /\ result' = Answer("refund", r, i, a)
           /\ \/ Named(r.rail_id) = {} /\ i = NoRail /\ a = "unsupported"
              \/ /\ Named(r.rail_id) # {} /\ i = FirstNamed(r.rail_id)
                 /\ a \in RefundAnswers[i]
    BY <2>1 DEF Dispatch
  <2>3. receipts' = receipts
    BY <2>1 DEF Dispatch
  <2>4. /\ result'.tag = "refund" /\ result'.receipt = r
        /\ result'.asked = i /\ result'.answer = a
    BY <2>2 DEF Answer
  <2>5. UniqueIds => /\ r \in receipts => i = r.issuer /\ a \in RefundAnswers[i] /\ i \in Rails
                     /\ r \notin receipts => i = NoRail /\ a = "unsupported"
    BY <2>2, DispatchTarget
  <2>6. UniqueIds /\ a = "refunded" => Class[r.issuer] # Final
    BY <2>5 DEF RefundAnswers
  <2> QED BY <2>3, <2>4, <2>5, <2>6 DEF ReceiptsReachTheirIssuer, UniqueIds
<1> QED BY <1>2, <1>3, <1>4, <1>5, <1>6, <1>7, <1>8 DEF Next, Attempt

\* A chain of rails with distinct ids lets a receipt be judged and refunded by
\* its issuer only, and never vouches for a receipt it did not hand out.
THEOREM ReceiptsGoHome == Spec => []ReceiptsReachTheirIssuer
<1>1. Init => ReceiptsReachTheirIssuer
  BY DEF Init, Pending, ReceiptsReachTheirIssuer
<1>2. /\ IInv /\ ReceiptsReachTheirIssuer /\ [Next]_vars
      => ReceiptsReachTheirIssuer'
  <2>1. ASSUME IInv, ReceiptsReachTheirIssuer, Next
        PROVE  ReceiptsReachTheirIssuer'
    BY <2>1, DispatchStep DEF IInv
  <2>2. ASSUME ReceiptsReachTheirIssuer, UNCHANGED vars
        PROVE  ReceiptsReachTheirIssuer'
    BY <2>2 DEF vars, ReceiptsReachTheirIssuer
  <2> QED BY <2>1, <2>2
<1> QED BY <1>1, <1>2, Inductive, PTL DEF Spec
=============================================================================
