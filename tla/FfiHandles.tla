----------------------------- MODULE FfiHandles -----------------------------
(***************************************************************************)
(* The C ABI (patala-ffi/src/lib.rs and abi.rs): host threads open, call   *)
(* and close rails behind integer handles.  The registry is one mutex,     *)
(* held for single map operations; a call clones the Arc it finds there,   *)
(* leaves the registry, and takes the handle's own runtime mutex around    *)
(* block_on; open draws its number from an atomic counter before it takes  *)
(* the registry.  Between those points any thread may run.                 *)
(*                                                                         *)
(* Every entry point clears the caller's *err first, catches panics and    *)
(* reports failure through *err.  A panic poisons the runtime mutex.       *)
(***************************************************************************)
EXTENDS Naturals, FiniteSets

CONSTANTS
    Threads,        \* threads of the host
    Configs,        \* configuration documents a host may pass
    RailOf,         \* RailOf[d]: the rail document d asks for, or Refused
    Refused,        \* config.build() or serde refuses the document
    MaxHandles      \* bound: handles drawn from NEXT_HANDLE

ASSUME FfiAssumption == MaxHandles \in Nat

VARIABLES
    next,       \* NEXT_HANDLE
    registry,   \* handle -> instance; an instance is [serial, rail]
    runtime,    \* instances whose runtime mutex is held
    poisoned,   \* instances whose runtime mutex is poisoned
    pc,         \* per thread: "host", "inserting", "calling" or "running"
    handle,     \* per thread: the handle it opens or calls
    inst,       \* per thread: the Arc<Instance> it holds, or None
    err,        \* per thread: is its *err non-NULL?
    ok,         \* per thread: did its latest entry point succeed?
    asked,      \* history: handle -> the document its open was given
    served,     \* history: [handle, rail] of calls that reached a rail
    closed      \* history: handles removed from the registry

host == <<handle, inst, err, ok>>
history == <<asked, served, closed>>
vars == <<next, registry, runtime, poisoned, pc, host, history>>

None == [serial |-> 0, rail |-> Refused]
Handles == 0..MaxHandles
Rails == {RailOf[d] : d \in Configs} \ {Refused}
Instances == [serial : 1..MaxHandles, rail : Rails]

\* Mutant: the counter starts at zero, the value that reports a failure.
InitFromZero ==
    /\ next = 0 /\ registry = <<>> /\ runtime = {} /\ poisoned = {}
    /\ pc = [t \in Threads |-> "host"]
    /\ handle = [t \in Threads |-> 0]
    /\ inst = [t \in Threads |-> None]
    /\ err = [t \in Threads |-> FALSE]
    /\ ok = [t \in Threads |-> TRUE]
    /\ asked = <<>> /\ served = {} /\ closed = {}

Init ==
    /\ next = 1 /\ registry = <<>> /\ runtime = {} /\ poisoned = {}
    /\ pc = [t \in Threads |-> "host"]
    /\ handle = [t \in Threads |-> 0]
    /\ inst = [t \in Threads |-> None]
    /\ err = [t \in Threads |-> FALSE]
    /\ ok = [t \in Threads |-> TRUE]
    /\ asked = <<>> /\ served = {} /\ closed = {}

-----------------------------------------------------------------------------
\* Mutant: the previous message stays.
ClearNothing(t) == err

\* clear_err on entry; set_err on failure; then back in the host.
Clear(t) == [err EXCEPT ![t] = FALSE]

Succeed(t, e) ==
    /\ pc' = [pc EXCEPT ![t] = "host"]
    /\ ok' = [ok EXCEPT ![t] = TRUE]
    /\ err' = e
    /\ inst' = [inst EXCEPT ![t] = None]

Fail(t, e) ==
    /\ pc' = [pc EXCEPT ![t] = "host"]
    /\ ok' = [ok EXCEPT ![t] = FALSE]
    /\ err' = [e EXCEPT ![t] = TRUE]
    /\ inst' = [inst EXCEPT ![t] = None]

\* Mutant: what cannot be read is taken for the empty document.
BuiltOrDefault(d) == IF RailOf[d] = Refused THEN RailOf[""] ELSE RailOf[d]

\* patala_new up to the counter: the rail is built, the number is drawn.
Built(d) == RailOf[d]

\* Mutant: the lowest number that is free.
OpenReuses(t, d) ==
    /\ pc[t] = "host"
    /\ next <= MaxHandles
    /\ Built(d) # Refused
    /\ \E n \in (Handles \ {0}) \ DOMAIN registry :
          /\ \A m \in (Handles \ {0}) \ DOMAIN registry : n <= m
          /\ handle' = [handle EXCEPT ![t] = n]
          /\ asked' = [h \in DOMAIN asked \cup {n} |->
                          IF h = n THEN d ELSE asked[h]]
    /\ inst' = [inst EXCEPT ![t] = [serial |-> next, rail |-> Built(d)]]
    /\ next' = next + 1
    /\ pc' = [pc EXCEPT ![t] = "inserting"]
    /\ err' = Clear(t)
    /\ UNCHANGED <<registry, runtime, poisoned, ok, served, closed>>

OpenDraws(t, d) ==
    /\ pc[t] = "host"
    /\ next <= MaxHandles
    /\ Built(d) # Refused
    /\ handle' = [handle EXCEPT ![t] = next]
    /\ inst' = [inst EXCEPT ![t] = [serial |-> next, rail |-> Built(d)]]
    /\ next' = next + 1
    /\ pc' = [pc EXCEPT ![t] = "inserting"]
    /\ err' = Clear(t)
    /\ asked' = [h \in DOMAIN asked \cup {next} |->
                    IF h = next THEN d ELSE asked[h]]
    /\ UNCHANGED <<registry, runtime, poisoned, ok, served, closed>>

\* The document is refused, the runtime cannot be created, or open panics.
OpenFails(t) ==
    /\ pc[t] = "host"
    /\ Fail(t, Clear(t))
    /\ UNCHANGED <<next, registry, runtime, poisoned, handle, history>>

OpenInserts(t) ==
    /\ pc[t] = "inserting"
    /\ registry' = [h \in DOMAIN registry \cup {handle[t]} |->
                       IF h = handle[t] THEN inst[t] ELSE registry[h]]
    /\ Succeed(t, err)
    /\ UNCHANGED <<next, runtime, poisoned, handle, history>>

\* patala_close: removing what is not there is a no-op, and nothing is
\* reported: it has no err parameter.
Close(t, h) ==
    /\ pc[t] = "host"
    /\ registry' = [g \in DOMAIN registry \ {h} |-> registry[g]]
    /\ closed' = closed \cup ({h} \cap DOMAIN registry)
    /\ UNCHANGED <<next, runtime, poisoned, pc, host, asked, served>>

-----------------------------------------------------------------------------
\* lookup misses: an error, whatever the method.
CallUnknown(t, h) ==
    /\ pc[t] = "host"
    /\ h \notin DOMAIN registry
    /\ Fail(t, Clear(t))
    /\ UNCHANGED <<next, registry, runtime, poisoned, handle, history>>

\* lookup clones the Arc.
CallFinds(t, h) ==
    /\ pc[t] = "host"
    /\ h \in DOMAIN registry
    /\ pc' = [pc EXCEPT ![t] = "calling"]
    /\ handle' = [handle EXCEPT ![t] = h]
    /\ inst' = [inst EXCEPT ![t] = registry[h]]
    /\ err' = Clear(t)
    /\ UNCHANGED <<next, registry, runtime, poisoned, ok, history>>

Serve(t) == served' = served \cup {[handle |-> handle[t], rail |-> inst[t].rail]}

\* id, capabilities, validate-destination, caveat: answered without the
\* runtime, also while another call runs on it.
CallPlain(t) ==
    /\ pc[t] = "calling"
    /\ Serve(t)
    /\ Succeed(t, err)
    /\ UNCHANGED <<next, registry, runtime, poisoned, handle, asked, closed>>

\* An unknown method, or a request that is not the method's JSON.
CallRejected(t) ==
    /\ pc[t] = "calling"
    /\ Fail(t, err)
    /\ UNCHANGED <<next, registry, runtime, poisoned, handle, history>>

\* Mutant: a poisoned mutex is given up.
LockableSound(i) == i \notin runtime \cup poisoned

\* Instance::block_on takes the runtime, poisoned or not (into_inner).
Lockable(i) == i \notin runtime

CallRuns(t) ==
    /\ pc[t] = "calling"
    /\ Lockable(inst[t])
    /\ runtime' = runtime \cup {inst[t]}
    /\ pc' = [pc EXCEPT ![t] = "running"]
    /\ Serve(t)
    /\ UNCHANGED <<next, registry, poisoned, host, asked, closed>>

\* quote, charge, verify or webhook answers; the guard is dropped.
RailAnswers(t) ==
    /\ pc[t] = "running"
    /\ runtime' = runtime \ {inst[t]}
    /\ Succeed(t, err) \/ Fail(t, err)
    /\ UNCHANGED <<next, registry, poisoned, handle, history>>

\* The rail panics: unwinding drops the guard and poisons the mutex,
\* catch_unwind reports an error.
RailPanics(t) ==
    /\ pc[t] = "running"
    /\ runtime' = runtime \ {inst[t]}
    /\ poisoned' = poisoned \cup {inst[t]}
    /\ Fail(t, err)
    /\ UNCHANGED <<next, registry, handle, history>>

Inside(t) ==
    \/ OpenInserts(t)
    \/ CallPlain(t) \/ CallRejected(t) \/ CallRuns(t)
    \/ RailAnswers(t) \/ RailPanics(t)

Enter(t) ==
    \/ \E d \in Configs : OpenDraws(t, d)
    \/ OpenFails(t)
    \/ \E h \in Handles : Close(t, h) \/ CallUnknown(t, h) \/ CallFinds(t, h)

Next == \E t \in Threads : Enter(t) \/ Inside(t)

Spec == Init /\ [][Next]_vars

\* A thread inside the library keeps running, and a rail answers (its client
\* has a timeout) or panics.  A call waits for the runtime and for nothing
\* else, so only CallRuns may be held against it; std's mutex promises no
\* order among the threads that wait.
FairSpec ==
    Spec /\ \A t \in Threads :
                /\ WF_vars(OpenInserts(t))
                /\ WF_vars(CallRuns(t))
                /\ WF_vars(RailAnswers(t) \/ RailPanics(t))

-----------------------------------------------------------------------------
TypeOK ==
    /\ next \in 1..(MaxHandles + 1)
    /\ DOMAIN registry \subseteq Handles \ {0}
    /\ \A h \in DOMAIN registry : registry[h] \in Instances
    /\ runtime \subseteq Instances /\ poisoned \subseteq Instances
    /\ pc \in [Threads -> {"host", "inserting", "calling", "running"}]
    /\ handle \in [Threads -> Handles]
    /\ inst \in [Threads -> Instances \cup {None}]
    /\ err \in [Threads -> BOOLEAN] /\ ok \in [Threads -> BOOLEAN]
    /\ closed \subseteq Handles

\* "A use-after-close is reported as such rather than silently landing on a
\* different rail": whatever handle a host calls with, at whatever moment of
\* an open or close elsewhere, the rail that serves it is the one the open of
\* that very handle was configured for, and an open that was refused never
\* left a rail behind.
HandleNamesItsRail ==
    \A s \in served :
        /\ s.handle \in DOMAIN asked
        /\ s.rail = RailOf[asked[s.handle]]

\* "Handles are never reused": a handle that was closed is never live again,
\* not even through an open that was under way when it was closed.
ClosedStaysClosed == closed \cap DOMAIN registry = {}

\* "*err == NULL means this call succeeded": after every entry point, and
\* however the previous ones on the same slot ended.
ErrTellsThisCall == \A t \in Threads : pc[t] = "host" => (err[t] <=> ~ok[t])

\* "Refusing every subsequent call on the handle would turn one failed charge
\* into a dead rail": whoever waits for a runtime, somebody gets to run on
\* it: no panic leaves it dead, and no way out of a call leaves it locked.
NoDeadHandle ==
    \A t \in Threads :
        pc[t] = "calling" ~> \/ pc[t] # "calling"
                             \/ \E u \in Threads : pc[u] = "running" /\ inst[u] = inst[t]
=============================================================================
