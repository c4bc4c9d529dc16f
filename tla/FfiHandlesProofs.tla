-------------------------- MODULE FfiHandlesProofs --------------------------
(***************************************************************************)
(* Proofs about FfiHandles, for every number of host threads, every set of *)
(* configuration documents and every interleaving of opens, calls, panics  *)
(* and closes.                                                             *)
(*                                                                         *)
(* The argument: a handle is drawn from the counter once, so an open that  *)
(* has its number and not yet its place in the registry owns that number   *)
(* alone; a number in the registry, in a call or among the closed ones was *)
(* drawn before; and a runtime is held by exactly the call that runs on    *)
(* it.                                                                     *)
(***************************************************************************)
EXTENDS FfiHandles, TLAPS

\* What was drawn from the counter, and what became of it.
Drawn ==
    /\ DOMAIN asked \subseteq 1..(next - 1)
    /\ DOMAIN registry \subseteq DOMAIN asked
    /\ closed \subseteq DOMAIN asked
    /\ \A h \in DOMAIN registry : registry[h].rail = RailOf[asked[h]]

\* A thread inside the library holds the rail its handle was opened for.
Holding ==
    \A t \in Threads :
        pc[t] # "host" => /\ inst[t] \in Instances
                          /\ handle[t] \in DOMAIN asked
                          /\ inst[t].rail = RailOf[asked[handle[t]]]

\* An open between the counter and the registry owns its number alone.
InsertingOwns ==
    \A t \in Threads :
        pc[t] = "inserting" =>
            /\ handle[t] \notin DOMAIN registry \cup closed
            /\ \A u \in Threads \ {t} :
                  pc[u] = "inserting" => handle[u] # handle[t]

\* The error slot is empty while its thread is inside the library.
SlotCleared == \A t \in Threads : pc[t] # "host" => err[t] = FALSE

\* The runtime mutex of a handle: what is held is held by a thread that runs
\* on it, and by one thread only.
OneCallPerRuntime ==
    /\ \A t \in Threads : pc[t] = "running" => inst[t] \in runtime
    /\ \A i \in runtime : \E t \in Threads : pc[t] = "running" /\ inst[t] = i
    /\ \A t, u \in Threads :
          pc[t] = "running" /\ pc[u] = "running" /\ inst[t] = inst[u] => t = u

IInv ==
    /\ TypeOK /\ Drawn /\ Holding /\ InsertingOwns /\ SlotCleared
    /\ OneCallPerRuntime
    /\ HandleNamesItsRail /\ ClosedStaysClosed /\ ErrTellsThisCall

-----------------------------------------------------------------------------
LEMMA InitIInv == Init => IInv
<1> SUFFICES ASSUME Init PROVE IInv
  OBVIOUS
<1> USE FfiAssumption DEF Init
<1>1. TypeOK
  BY DEF TypeOK, Handles, None
<1>2. Drawn /\ Holding /\ InsertingOwns /\ SlotCleared /\ OneCallPerRuntime
  BY DEF Drawn, Holding, InsertingOwns, SlotCleared, OneCallPerRuntime
<1>3. HandleNamesItsRail /\ ClosedStaysClosed /\ ErrTellsThisCall
  BY DEF HandleNamesItsRail, ClosedStaysClosed, ErrTellsThisCall
<1> QED BY <1>1, <1>2, <1>3 DEF IInv

\* An open draws a number nobody has.
LEMMA OpenDrawsIInv ==
    ASSUME IInv, NEW t \in Threads, NEW d \in Configs, OpenDraws(t, d)
    PROVE  IInv'
<1> USE FfiAssumption DEF IInv, OpenDraws
<1> DEFINE i == [serial |-> next, rail |-> Built(d)]
<1>1. i \in Instances /\ i.rail = RailOf[d] /\ next \in Handles \ {0}
  BY DEF Instances, Rails, Built, TypeOK, Handles
<1> HIDE DEF i
<1>2. inst' = [inst EXCEPT ![t] = i]
  BY DEF i
<1>3. TypeOK'
  BY <1>1, <1>2 DEF TypeOK, Clear
<1>4. /\ next \notin DOMAIN asked /\ next \notin DOMAIN registry
      /\ next \notin closed
  BY DEF Drawn, TypeOK
<1>5. /\ DOMAIN asked' = DOMAIN asked \cup {next}
      /\ asked'[next] = d
      /\ \A h \in DOMAIN asked : asked'[h] = asked[h]
  BY <1>4
<1>6. Drawn'
  BY <1>5 DEF Drawn, TypeOK
<1>7. Holding'
  BY <1>1, <1>2, <1>5 DEF Holding, TypeOK
<1>8. InsertingOwns'
  BY <1>4 DEF InsertingOwns, Holding, TypeOK, Drawn
<1>9. SlotCleared' /\ ErrTellsThisCall'
  BY DEF SlotCleared, ErrTellsThisCall, Clear, TypeOK
<1>10. OneCallPerRuntime'
  BY DEF OneCallPerRuntime, TypeOK
<1>11. HandleNamesItsRail' /\ ClosedStaysClosed'
  BY <1>5 DEF HandleNamesItsRail, ClosedStaysClosed
<1> QED BY <1>3, <1>6, <1>7, <1>8, <1>9, <1>10, <1>11

\* An open puts its rail under the number it drew.
LEMMA OpenInsertsIInv ==
    ASSUME IInv, NEW t \in Threads, OpenInserts(t)
    PROVE  IInv'
<1> USE FfiAssumption DEF IInv, OpenInserts, Succeed, history
<1>1. /\ inst[t] \in Instances /\ handle[t] \in DOMAIN asked
      /\ inst[t].rail = RailOf[asked[handle[t]]]
      /\ handle[t] \notin DOMAIN registry /\ handle[t] \notin closed
  BY DEF Holding, InsertingOwns
<1>2. handle[t] \in Handles \ {0}
  BY <1>1 DEF Drawn, TypeOK, Handles
<1>3. /\ DOMAIN registry' = DOMAIN registry \cup {handle[t]}
      /\ registry'[handle[t]] = inst[t]
      /\ \A h \in DOMAIN registry : registry'[h] = registry[h]
  BY <1>1
<1>4. TypeOK'
  BY <1>1, <1>2, <1>3 DEF TypeOK
<1>5. Drawn'
  BY <1>1, <1>3 DEF Drawn
<1>6. Holding' /\ SlotCleared' /\ ErrTellsThisCall'
  BY DEF Holding, SlotCleared, ErrTellsThisCall, TypeOK
<1>7. InsertingOwns'
  BY <1>3 DEF InsertingOwns, TypeOK
<1>8. OneCallPerRuntime'
  BY DEF OneCallPerRuntime, TypeOK
<1>9. HandleNamesItsRail' /\ ClosedStaysClosed'
  BY <1>1, <1>3 DEF HandleNamesItsRail, ClosedStaysClosed
<1> QED BY <1>4, <1>5, <1>6, <1>7, <1>8, <1>9

\* A close takes a number out of the registry for good.
LEMMA CloseIInv ==
    ASSUME IInv, NEW t \in Threads, NEW h \in Handles, Close(t, h)
    PROVE  IInv'
<1> USE FfiAssumption DEF IInv, Close, host
<1>1. /\ DOMAIN registry' = DOMAIN registry \ {h}
      /\ \A g \in DOMAIN registry' : registry'[g] = registry[g]
  OBVIOUS
<1>2. TypeOK' /\ Drawn'
  BY <1>1 DEF TypeOK, Drawn
<1>3. Holding' /\ SlotCleared' /\ ErrTellsThisCall' /\ OneCallPerRuntime'
  BY DEF Holding, SlotCleared, ErrTellsThisCall, OneCallPerRuntime
<1>4. InsertingOwns'
  BY <1>1 DEF InsertingOwns
<1>5. HandleNamesItsRail' /\ ClosedStaysClosed'
  BY <1>1 DEF HandleNamesItsRail, ClosedStaysClosed
<1> QED BY <1>2, <1>3, <1>4, <1>5

\* A call clones what the registry holds for its handle.
LEMMA CallFindsIInv ==
    ASSUME IInv, NEW t \in Threads, NEW h \in Handles, CallFinds(t, h)
    PROVE  IInv'
<1> USE FfiAssumption DEF IInv, CallFinds, history
<1>1. registry[h] \in Instances /\ registry[h].rail = RailOf[asked[h]]
      /\ h \in DOMAIN asked
  BY DEF TypeOK, Drawn
<1>2. TypeOK'
  BY <1>1 DEF TypeOK, Clear
<1>3. Drawn' /\ HandleNamesItsRail' /\ ClosedStaysClosed'
  BY DEF Drawn, HandleNamesItsRail, ClosedStaysClosed
<1>4. Holding'
  BY <1>1 DEF Holding, TypeOK
<1>5. InsertingOwns'
  BY DEF InsertingOwns, TypeOK
<1>6. SlotCleared' /\ ErrTellsThisCall'
  BY DEF SlotCleared, ErrTellsThisCall, Clear, TypeOK
<1>7. OneCallPerRuntime'
  BY DEF OneCallPerRuntime, TypeOK
<1> QED BY <1>2, <1>3, <1>4, <1>5, <1>6, <1>7

\* A call takes the runtime of the rail it holds and runs on it.
LEMMA CallRunsIInv ==
    ASSUME IInv, NEW t \in Threads, CallRuns(t)
    PROVE  IInv'
<1> USE FfiAssumption DEF IInv, CallRuns, host
<1>1. /\ inst[t] \in Instances /\ handle[t] \in DOMAIN asked
      /\ inst[t].rail = RailOf[asked[handle[t]]]
  BY DEF Holding
<1>2. TypeOK'
  BY <1>1 DEF TypeOK
<1>3. Drawn' /\ ClosedStaysClosed'
  BY DEF Drawn, ClosedStaysClosed
<1>4. Holding' /\ SlotCleared' /\ ErrTellsThisCall' /\ InsertingOwns'
  BY DEF Holding, SlotCleared, ErrTellsThisCall, InsertingOwns, TypeOK
<1>5. OneCallPerRuntime'
  BY DEF OneCallPerRuntime, Lockable, TypeOK
<1>6. HandleNamesItsRail'
  BY <1>1 DEF HandleNamesItsRail, Serve
<1> QED BY <1>2, <1>3, <1>4, <1>5, <1>6

\* Every way back into the host: the thread gives up its rail and, if it
\* held one, the runtime; the slot says how the call ended.
LEMMA ReturnIInv ==
    ASSUME IInv, NEW t \in Threads,
           pc' = [pc EXCEPT ![t] = "host"],
           inst' = [inst EXCEPT ![t] = None],
           UNCHANGED <<next, registry, handle, asked, closed>>,
           runtime' = IF pc[t] = "running" THEN runtime \ {inst[t]} ELSE runtime,
           poisoned' \subseteq poisoned \cup (Instances \cap {inst[t]}),
           err' \in [Threads -> BOOLEAN], ok' \in [Threads -> BOOLEAN],
           \A u \in Threads \ {t} : err'[u] = err[u] /\ ok'[u] = ok[u],
           err'[t] <=> ~ok'[t],
           \A s \in served' \ served :
               /\ pc[t] # "host"
               /\ s = [handle |-> handle[t], rail |-> inst[t].rail],
           served \subseteq served'
    PROVE  IInv'
<1> USE FfiAssumption DEF IInv
<1>1. TypeOK'
  BY DEF TypeOK
<1>2. Drawn' /\ ClosedStaysClosed'
  BY DEF Drawn, ClosedStaysClosed
<1>3. Holding' /\ InsertingOwns'
  BY DEF Holding, InsertingOwns, TypeOK
<1>4. SlotCleared' /\ ErrTellsThisCall'
  BY DEF SlotCleared, ErrTellsThisCall, TypeOK
<1>5. OneCallPerRuntime'
  BY DEF OneCallPerRuntime, TypeOK
<1>6. HandleNamesItsRail'
  BY DEF HandleNamesItsRail, Holding
<1> QED BY <1>1, <1>2, <1>3, <1>4, <1>5, <1>6

LEMMA EnterIInv == ASSUME IInv, NEW t \in Threads, Enter(t) PROVE IInv'
<1>1. ASSUME NEW d \in Configs, OpenDraws(t, d) PROVE IInv'
  BY <1>1, OpenDrawsIInv
<1>2. ASSUME pc[t] = "host", Fail(t, Clear(t)),
             UNCHANGED <<next, registry, runtime, poisoned, handle, history>>
      PROVE  IInv'
  BY <1>2, ReturnIInv DEF IInv, TypeOK, Fail, Clear, history
<1>3. CASE OpenFails(t)
  BY <1>2, <1>3 DEF OpenFails
<1>4. ASSUME NEW h \in Handles, Close(t, h) PROVE IInv'
  BY <1>4, CloseIInv
<1>5. ASSUME NEW h \in Handles, CallUnknown(t, h) PROVE IInv'
  BY <1>2, <1>5 DEF CallUnknown
<1>6. ASSUME NEW h \in Handles, CallFinds(t, h) PROVE IInv'
  BY <1>6, CallFindsIInv
<1> QED BY <1>1, <1>3, <1>4, <1>5, <1>6 DEF Enter

LEMMA InsideIInv == ASSUME IInv, NEW t \in Threads, Inside(t) PROVE IInv'
<1>1. CASE OpenInserts(t)
  BY <1>1, OpenInsertsIInv
<1>2. CASE CallRuns(t)
  BY <1>2, CallRunsIInv
<1>3. ASSUME pc[t] # "host" PROVE err[t] = FALSE /\ inst[t] \in Instances
  BY <1>3 DEF IInv, SlotCleared, Holding
<1>4. CASE CallPlain(t)
  BY <1>3, <1>4, ReturnIInv DEF CallPlain, Serve, Succeed, IInv, TypeOK
<1>5. CASE CallRejected(t)
  BY <1>3, <1>5, ReturnIInv DEF CallRejected, Fail, history, IInv, TypeOK
<1>6. CASE RailAnswers(t)
  <2>1. CASE Succeed(t, err)
    BY <1>3, <1>6, <2>1, ReturnIInv DEF RailAnswers, Succeed, history, IInv, TypeOK
  <2>2. CASE Fail(t, err)
    BY <1>3, <1>6, <2>2, ReturnIInv DEF RailAnswers, Fail, history, IInv, TypeOK
  <2> QED BY <1>6, <2>1, <2>2 DEF RailAnswers
<1>7. CASE RailPanics(t)
  BY <1>3, <1>7, ReturnIInv DEF RailPanics, Fail, history, IInv, TypeOK
<1> QED BY <1>1, <1>2, <1>4, <1>5, <1>6, <1>7 DEF Inside

LEMMA Inductive == Spec => []IInv
<1>1. IInv /\ [Next]_vars => IInv'
  <2> SUFFICES ASSUME IInv, [Next]_vars PROVE IInv'
    OBVIOUS
  <2>1. CASE Next
    BY <2>1, EnterIInv, InsideIInv DEF Next
  <2>2. CASE UNCHANGED vars
    BY <2>2 DEF vars, host, history, IInv, TypeOK, Drawn, Holding,
                InsertingOwns, SlotCleared, OneCallPerRuntime,
                HandleNamesItsRail, ClosedStaysClosed, ErrTellsThisCall
  <2> QED BY <2>1, <2>2
<1> QED BY InitIInv, <1>1, PTL DEF Spec

-----------------------------------------------------------------------------
\* The registry, the counter and every thread's locals stay well typed: no
\* handle is drawn beyond the counter's range and none is zero, the value
\* patala_new returns for a failure.
THEOREM TypeCorrect == Spec => []TypeOK
  BY Inductive, PTL DEF IInv

\* Whatever handle a host calls with, and whatever other threads open and
\* close meanwhile, the rail that serves the call is the one the open of
\* that handle was configured for.
THEOREM HandlesNameTheirRail == Spec => []HandleNamesItsRail
  BY Inductive, PTL DEF IInv

\* A closed handle is never live again.
THEOREM HandlesAreNotReused == Spec => []ClosedStaysClosed
  BY Inductive, PTL DEF IInv

\* After every entry point the caller's *err is NULL exactly if that call
\* succeeded, panics of the rail and earlier failures included.
THEOREM ErrReportsTheCall == Spec => []ErrTellsThisCall
  BY Inductive, PTL DEF IInv

\* Instance::block_on excludes: a runtime that is held is held by a thread
\* that is running on it, no two threads run on one runtime, and no return,
\* error or panic leaves one locked behind.
THEOREM RuntimeIsExclusive == Spec => []OneCallPerRuntime
  BY Inductive, PTL DEF IInv
=============================================================================
