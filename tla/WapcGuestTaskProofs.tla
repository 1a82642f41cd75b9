------------------------ MODULE WapcGuestTaskProofs ------------------------
(***************************************************************************)
(* Theorems about WapcGuest for tasks that await one host call at a time:  *)
(* the subtraction of exhaust_tasks neither overflows nor stops too early, *)
(* and the guest keeps the protocol that WapcCall relies on.               *)
(***************************************************************************)
EXTENDS WapcGuestProofs, FiniteSetTheorems

USE DEF CallNumber, SendersWithout

-----------------------------------------------------------------------------
(* For tasks that await one host call at a time.                           *)

\* Who runs in which frame: at the host nobody does and every task waits.
Frames ==
    /\ frame # "trapped"
    /\ frame # "init" => dispatcher
    /\ frame \in {"init", "host"} => current = NoCall
    /\ frame = "call" => current \in Invocations /\ task[current] = "none"
    /\ frame = "call" => answer[current] = "none"
    /\ frame = "exhaust" /\ current # NoCall => task[current] = "ready"
    /\ frame # "exhaust" => \A i \in Invocations : task[i] # "ready"

\* A call in flight is held by exactly one task, which awaits it or is about
\* to; a suspended task awaits one call.
OneCallEach ==
    /\ \A x \in Calls : host[x] # "refused"
    /\ \A i \in Invocations : \A x, y \in held[i] : x = y
    /\ \A i, j \in Invocations : \A x \in held[i] : x \in held[j] => i = j
    /\ \A i \in Invocations : task[i] = "waiting" => waits[i] \subseteq held[i]
    /\ \A x \in ASYNC_HOST_CALLS : \E i \in Invocations :
           /\ x \in held[i]
           /\ task[i] = "waiting" \/ (current = i /\ frame = "exhaust")

\* An invocation is answered when its task is done, or without a task.
TaskAnswers ==
    \A i \in Invocations :
        task[i] \in {"ready", "waiting"} => answer[i] = "none"

Single == Frames /\ OneCallEach /\ TaskAnswers

-----------------------------------------------------------------------------
(* The count of exhaust_tasks.                                             *)

Waiting == {i \in Invocations : task[i] = "waiting"}
Unfinished == {i \in Invocations : task[i] \in {"ready", "waiting"}}

\* Between polls the suspended tasks are as many as the calls in flight: each
\* awaits one, and each is awaited by one.
LEMMA OneTaskPerCall ==
    ASSUME TypeOK, Sound, OneCallEach, frame # "exhaust" \/ current = NoCall
    PROVE  /\ IsFiniteSet(ASYNC_HOST_CALLS)
           /\ Cardinality(Waiting) = num_in_flight
<1> DEFINE f == [i \in Waiting |-> CHOOSE x \in waits[i] : TRUE]
<1>1. ASSUME NEW i \in Waiting
      PROVE  /\ f[i] \in held[i]
             /\ f[i] \in ASYNC_HOST_CALLS
  <2>1. f[i] \in waits[i] /\ i \in Invocations
    BY <1>1 DEF Sound, WaitingOwed, Waiting
  <2>2. f[i] \in Calls
    BY <2>1 DEF TypeOK
  <2>3. f[i] \in held[i]
    BY <1>1, <2>1 DEF OneCallEach, Waiting
  <2>4. oneshot[f[i]] = "open"
    BY <1>1, <2>1 DEF Sound, WaitingOwed, Waiting
  <2> QED
    BY <2>2, <2>3, <2>4 DEF Sound, CallLife
<1> HIDE DEF f
<1>2. f \in [Waiting -> ASYNC_HOST_CALLS]
    BY <1>1 DEF f
<1>3. ASSUME NEW i \in Waiting, NEW j \in Waiting, f[i] = f[j]
      PROVE  i = j
    BY <1>1, <1>3 DEF OneCallEach, Waiting
<1>4. ASSUME NEW x \in ASYNC_HOST_CALLS
      PROVE  \E i \in Waiting : f[i] = x
  <2>1. PICK i \in Invocations : x \in held[i] /\ task[i] = "waiting"
    BY <1>4, InvocationsAssumption DEF OneCallEach
  <2>2. i \in Waiting
    BY <2>1 DEF Waiting
  <2> QED
    BY <1>1, <2>1, <2>2 DEF OneCallEach
<1>5. f \in Bijection(Waiting, ASYNC_HOST_CALLS)
    BY <1>2, <1>3, <1>4 DEF Bijection, Injection, Surjection, IsInjective
<1>6. IsFiniteSet(Waiting)
    BY FS_Subset, InvocationsAssumption DEF Waiting
<1> QED
    BY <1>5, <1>6, FS_Bijection DEF ExistsBijection, num_in_flight

\* So the difference that exhaust_tasks computes does not go below zero, and is
\* zero only if no task is ready.
LEMMA CountOfTasks ==
    ASSUME TypeOK, Sound, OneCallEach, frame # "exhaust" \/ current = NoCall
    PROVE  /\ ~Overflows
           /\ ~MoreToDo => \A i \in Invocations : task[i] # "ready"
           /\ (\A i \in Invocations : task[i] # "ready") => ~MoreToDo
<1>1. Waiting \subseteq Unfinished
    BY DEF Waiting, Unfinished
<1>2. IsFiniteSet(Unfinished)
    BY FS_Subset, InvocationsAssumption DEF Unfinished
<1>3. /\ IsFiniteSet(Waiting)
      /\ Cardinality(Waiting) =< Cardinality(Unfinished)
      /\ Cardinality(Unfinished) = Cardinality(Waiting) => Unfinished = Waiting
    BY <1>1, <1>2, FS_Subset
<1>4. /\ Cardinality(Waiting) \in Nat
      /\ Cardinality(Unfinished) \in Nat
    BY <1>2, <1>3, FS_CardinalityType
<1>5. tasks_count = Cardinality(Unfinished) /\ num_in_flight = Cardinality(Waiting)
    BY OneTaskPerCall DEF tasks_count, Unfinished
<1>6. ~(tasks_count < num_in_flight)
    BY <1>3, <1>4, <1>5
<1>7. MoreToDo <=> Unfinished # Waiting
    BY <1>3, <1>5 DEF MoreToDo
<1>8. Unfinished = Waiting <=> \A i \in Invocations : task[i] # "ready"
    BY DEF Unfinished, Waiting
<1>9. ~Overflows
    BY <1>6, Zenon DEF Overflows
<1> QED
    BY <1>7, <1>8, <1>9

-----------------------------------------------------------------------------
(* The invariant for tasks that await one host call at a time.             *)

\* It holds before the instance is used.
LEMMA SingleInit == ASSUME Init PROVE Single
BY InvocationsAssumption DEF Init, Single, Frames, OneCallEach, TaskAnswers

\* The calls and futures as a step leaves them that touches neither.
LEMMA SameCalls ==
    ASSUME OneCallEach, UNCHANGED <<ASYNC_HOST_CALLS, host, held, waits>>,
           \A i \in Invocations : task[i] = "waiting" <=> task'[i] = "waiting",
           frame = "exhaust" => current = NoCall
    PROVE  OneCallEach'
BY InvocationsAssumption DEF OneCallEach

\* Registration happens before the first frame ends.
LEMMA SingleRegisters ==
    ASSUME TypeOK, Single, Events = {},
           register_function \/ register_async_function \/ register_dispatcher
    PROVE  Single'
<1>1. /\ frame = "init"
      /\ UNCHANGED <<frame, current, callVars, taskVars>>
    BY DEF register_function, register_async_function, register_dispatcher
<1> QED
    BY <1>1, SameCalls DEF Single, Frames, TaskAnswers, callVars, taskVars

\* wapc_init returns with a dispatcher.
LEMMA SingleInitReturns ==
    ASSUME TypeOK, Single, Events = {}, InitReturns
    PROVE  Single'
<1>1. frame = "init" /\ frame' = "host"
    BY DEF InitReturns
<1>2. UNCHANGED <<current, callVars, taskVars, dispatcher>>
    BY DEF InitReturns, registryVars
<1>3. dispatcher
    BY Zenon DEF InitReturns
<1>4. dispatcher'
    BY <1>2, <1>3, Zenon
<1> QED
    BY <1>1, <1>2, <1>4, SameCalls
    DEF Single, Frames, TaskAnswers, callVars, taskVars

\* A synchronous invocation leaves the tasks alone, from its start
LEMMA SingleGuestCall ==
    ASSUME TypeOK, Single, NEW i \in Invocations,
           GuestCall(i) \/ GuestCallUnregistered(i)
    PROVE  Single'
<1>1. /\ frame = "host" /\ frame' \in {"host", "call"}
      /\ frame' = "host" => current' = current
      /\ frame' = "call" => current' = i /\ answer' = answer
      /\ task[i] = "none" /\ answer[i] = "none"
      /\ \A j \in Invocations : j # i => answer'[j] = answer[j]
      /\ UNCHANGED <<task, held, waits, ASYNC_HOST_CALLS, host>>
    BY DEF GuestCall, GuestCallUnregistered, Unused, Answered, callVars,
        taskVars, TypeOK
<1>2. dispatcher'
    BY <1>1, Zenon
    DEF GuestCall, GuestCallUnregistered, registryVars, Single, Frames
<1> QED
    BY <1>1, <1>2, SameCalls DEF Single, Frames, TaskAnswers

\* to its end.
LEMMA SingleHandlerReturns ==
    ASSUME TypeOK, Single, NEW ok \in BOOLEAN, HandlerReturns(ok)
    PROVE  Single'
<1>1. /\ frame = "call" /\ frame' = "host" /\ current' = NoCall
      /\ \A j \in Invocations : j # current => answer'[j] = answer[j]
      /\ UNCHANGED <<task, held, waits, ASYNC_HOST_CALLS, host>>
    BY DEF HandlerReturns, Answered, callVars, TypeOK
<1>2. dispatcher'
    BY <1>1, Zenon DEF HandlerReturns, registryVars, Single, Frames
<1> QED
    BY <1>1, <1>2, SameCalls DEF Single, Frames, TaskAnswers

\* A synchronous host call is no matter of the tasks either.
LEMMA SingleHostCall ==
    ASSUME TypeOK, Single, NEW ok \in BOOLEAN, NEW code \in 0..2,
           host_call(ok, code)
    PROVE  Single'
<1>1. UNCHANGED <<frame, current, registryVars, ASYNC_HOST_CALLS, taskVars>>
    BY DEF host_call
<1>2. PICK v \in {"ok", "err"} : host' = [host EXCEPT ![CALL_NUM] = v]
    BY Zenon DEF host_call
<1>3. ASSUME NEW x \in Calls PROVE host'[x] # "refused"
    BY <1>2, <1>3 DEF Single, OneCallEach, TypeOK
<1>4. OneCallEach'
    BY <1>1, <1>3 DEF Single, OneCallEach, taskVars
<1>5. dispatcher' = dispatcher
    BY <1>1 DEF registryVars
<1>6. dispatcher' <=> dispatcher
    BY <1>5, Zenon
<1> QED
    BY <1>1, <1>4, <1>6 DEF Single, Frames, TaskAnswers, taskVars

\* A task makes its next host call when it has no future left.
LEMMA SingleAsyncHostCall ==
    ASSUME TypeOK, Sound, Single, Events = {}, NEW accepted \in BOOLEAN,
           TaskCallsHost(accepted)
    PROVE  Single'
<1> USE DEF TaskCallsHost
<1>0. Events \cap {"refuse", "join"} = {} /\ accepted
  <2>1. "refuse" \notin Events
    OBVIOUS
  <2>2. accepted
    BY <2>1, Zenon DEF async_host_call
  <2> QED
    BY <2>2
<1>1. /\ UNCHANGED <<frame, current, registryVars, task, waits, answer>>
      /\ frame = "exhaust" /\ current \in Invocations
      /\ held[current] = {}
      /\ CALL_NUM < MaxHostCalls
      /\ ASYNC_HOST_CALLS' = ASYNC_HOST_CALLS \cup {CALL_NUM}
      /\ held' = [held EXCEPT ![current] = @ \cup {CALL_NUM}]
    BY <1>0 DEF async_host_call, TypeOK
<1>2. host' = [host EXCEPT ![CALL_NUM] = "accepted"]
    BY <1>0, Zenon DEF async_host_call
<1>3. OneCallEach'
    BY <1>1, <1>2, NumberIsFresh DEF Single, OneCallEach, TypeOK
<1>4. dispatcher' = dispatcher
    BY <1>1 DEF registryVars
<1>5. dispatcher' <=> dispatcher
    BY <1>4, Zenon
<1> QED
    BY <1>1, <1>3, <1>5 DEF Single, Frames, TaskAnswers

\* A future that has a value is not in the table any more.
LEMMA SingleAwait ==
    ASSUME TypeOK, Sound, Single, NEW c \in Calls, Await(c)
    PROVE  Single'
<1>1. /\ UNCHANGED <<frame, current, dispatcher, task, waits, answer>>
      /\ UNCHANGED <<ASYNC_HOST_CALLS, host>>
      /\ frame = "exhaust" /\ current \in Invocations
      /\ Ready(c) /\ c \in held[current]
      /\ held' = [held EXCEPT ![current] = @ \ {c}]
    BY DEF Await, registryVars, TypeOK
<1>2. c \notin ASYNC_HOST_CALLS
    BY <1>1 DEF Ready, Sound, CallLife, Single, OneCallEach
<1>3. OneCallEach'
    BY <1>1, <1>2, InvocationsAssumption DEF Single, Frames, OneCallEach, TypeOK
<1>4. dispatcher' <=> dispatcher
    BY <1>1, Zenon
<1> QED
    BY <1>1, <1>3, <1>4 DEF Single, Frames, TaskAnswers

\* exhaust_tasks polls a ready task ...
LEMMA SinglePoll ==
    ASSUME TypeOK, Single, NEW i \in Invocations, Poll(i)
    PROVE  Single'
<1>1. /\ UNCHANGED <<frame, dispatcher, task, held, answer>>
      /\ UNCHANGED <<ASYNC_HOST_CALLS, host>>
      /\ frame = "exhaust" /\ current = NoCall /\ current' = i
      /\ task[i] = "ready"
      /\ waits' = [waits EXCEPT ![i] = {}]
    BY DEF Poll, registryVars, callVars
<1>2. OneCallEach'
    BY <1>1, InvocationsAssumption DEF Single, OneCallEach, TypeOK
<1>3. dispatcher' <=> dispatcher
    BY <1>1, Zenon
<1> QED
    BY <1>1, <1>2, <1>3 DEF Single, Frames, TaskAnswers

\* ... until it awaits its only future
LEMMA SingleSuspend ==
    ASSUME TypeOK, Single, NEW S \in SUBSET Calls, Suspend(S)
    PROVE  Single'
<1>1. /\ UNCHANGED <<frame, dispatcher, held, answer, ASYNC_HOST_CALLS, host>>
      /\ frame = "exhaust" /\ current \in Invocations /\ current' = NoCall
      /\ S \subseteq held[current]
      /\ task' = [task EXCEPT ![current] = "waiting"]
      /\ waits' = [waits EXCEPT ![current] = S]
    BY DEF Suspend, registryVars, callVars, TypeOK
<1>2. OneCallEach'
    BY <1>1, InvocationsAssumption DEF Single, OneCallEach, TypeOK
<1>3. dispatcher' <=> dispatcher
    BY <1>1, Zenon
<1> QED
    BY <1>1, <1>2, <1>3, InvocationsAssumption
    DEF Single, Frames, TaskAnswers, TypeOK

\* or is done, with no future left.
LEMMA SingleComplete ==
    ASSUME TypeOK, Single, Events = {}, NEW ok \in BOOLEAN, Complete(ok)
    PROVE  Single'
<1>1. /\ UNCHANGED <<frame, dispatcher, waits, ASYNC_HOST_CALLS, host>>
      /\ frame = "exhaust" /\ current \in Invocations /\ current' = NoCall
      /\ held[current] = {}
      /\ task' = [task EXCEPT ![current] = "done"]
      /\ held' = [held EXCEPT ![current] = {}]
      /\ \A i \in Invocations : i # current => answer'[i] = answer[i]
    BY DEF Complete, Answered, registryVars, callVars, TypeOK
<1>2. held' = held
    BY <1>1 DEF TypeOK
<1>3. OneCallEach'
    BY <1>1, <1>2, InvocationsAssumption DEF Single, OneCallEach, TypeOK
<1>4. dispatcher' <=> dispatcher
    BY <1>1, Zenon
<1> QED
    BY <1>1, <1>3, <1>4, InvocationsAssumption
    DEF Single, Frames, TaskAnswers, TypeOK

\* It leaves when no task is ready ...
LEMMA SingleExhaustReturns ==
    ASSUME TypeOK, Sound, Single, ExhaustReturns
    PROVE  Single'
<1>1. /\ UNCHANGED <<current, dispatcher, taskVars, ASYNC_HOST_CALLS, host>>
      /\ frame = "exhaust" /\ current = NoCall /\ frame' = "host"
      /\ ~MoreToDo
    BY DEF ExhaustReturns, registryVars, callVars
<1>2. \A i \in Invocations : task[i] # "ready"
    BY <1>1, CountOfTasks DEF Single
<1>3. dispatcher' <=> dispatcher
    BY <1>1, Zenon
<1> QED
    BY <1>1, <1>2, <1>3, SameCalls DEF Single, Frames, TaskAnswers, taskVars

\* ... and never traps.
LEMMA SingleNoTrap ==
    ASSUME TypeOK, Sound, Single, Events = {}
    PROVE  ~ExhaustTraps /\ ~HandlerRegisters
<1>1. ASSUME ExhaustTraps PROVE FALSE
    BY <1>1, CountOfTasks DEF ExhaustTraps, Single
<1> QED
    BY <1>1 DEF HandlerRegisters

\* An asynchronous invocation becomes a task, which is ready.
LEMMA SingleAsyncGuestCall ==
    ASSUME TypeOK, Single, NEW i \in Invocations, AsyncGuestCall(i)
    PROVE  /\ Single'
           /\ frame = "host" /\ frame' = "exhaust" /\ Unused(i)
           /\ task' = [task EXCEPT ![i] = "ready"]
           /\ UNCHANGED <<current, callVars, held, waits, answer>>
<1>1. frame = "host" /\ Unused(i)
    BY DEF AsyncGuestCall
<1>2. dispatcher
    BY <1>1, Zenon DEF Single, Frames
<1>3. /\ frame' = "exhaust"
      /\ task' = [task EXCEPT ![i] = "ready"]
      /\ UNCHANGED <<current, registryVars, callVars, held, waits, answer>>
    BY <1>2, Zenon DEF AsyncGuestCall
<1>4. dispatcher' = dispatcher
    BY <1>3 DEF registryVars
<1>5. dispatcher'
    BY <1>2, <1>4, Zenon
<1>6. OneCallEach'
    BY <1>1, <1>3 DEF Single, OneCallEach, Unused, callVars, TypeOK
<1>7. Frames' /\ TaskAnswers'
    BY <1>1, <1>3, <1>5, InvocationsAssumption
    DEF Single, Frames, TaskAnswers, Unused, TypeOK
<1> QED
    BY <1>1, <1>3, <1>6, <1>7 DEF Single

\* The answer to a host call makes the one task ready that awaits it.
LEMMA SingleResponse ==
    ASSUME TypeOK, Sound, Single, NEW c \in Calls, NEW ok \in BOOLEAN,
           HostCallResponseReady(c, ok)
    PROVE  Single'
<1>1. frame = "host" /\ host[c] = "accepted" /\ c \in ASYNC_HOST_CALLS
    BY DEF HostCallResponseReady, Sound, CallLife
<1>2. /\ ASYNC_HOST_CALLS' = ASYNC_HOST_CALLS \ {c}
      /\ task' = Woken(c)
      /\ frame' = "exhaust"
      /\ UNCHANGED <<current, registryVars, held, waits, answer>>
    BY <1>1 DEF HostCallResponseReady
<1>3. PICK v \in {"ok", "err"} : host' = [host EXCEPT ![c] = v]
    BY <1>1, Zenon DEF HostCallResponseReady
<1>4. ASSUME NEW x \in ASYNC_HOST_CALLS'
      PROVE  \E i \in Invocations : x \in held[i] /\ task'[i] = "waiting"
  <2>1. PICK i \in Invocations : x \in held[i] /\ task[i] = "waiting"
    BY <1>1, <1>2, <1>4, InvocationsAssumption DEF Single, OneCallEach
  <2>2. c \notin waits[i]
    BY <1>2, <1>4, <2>1 DEF Single, OneCallEach
  <2> QED
    BY <1>2, <2>1, <2>2 DEF Woken
<1>5. OneCallEach'
    BY <1>2, <1>3, <1>4 DEF Single, OneCallEach, Woken, TypeOK
<1>6. dispatcher' = dispatcher /\ dispatcher
    BY <1>1, <1>2, Zenon DEF registryVars, Single, Frames
<1>7. dispatcher'
    BY <1>6, Zenon
<1>8. Frames' /\ TaskAnswers'
    BY <1>1, <1>2, <1>7 DEF Single, Frames, TaskAnswers, Woken, TypeOK
<1> QED
    BY <1>5, <1>8 DEF Single

\* Every step keeps the invariant.
LEMMA SingleStep ==
    ASSUME TypeOK, Sound, Single, Events = {}, [Next]_vars
    PROVE  Single'
<1>1. /\ ~Yield /\ \A x \in Calls : ~DropFuture(x)
      /\ \A accepted \in BOOLEAN : ~HandlerCallsHost(accepted)
    BY DEF Yield, DropFuture, HandlerCallsHost
<1>2. CASE UNCHANGED vars
  <2>1. dispatcher' = dispatcher
    BY <1>2 DEF vars
  <2>2. dispatcher' <=> dispatcher
    BY <2>1, Zenon
  <2> QED
    BY <1>2, <2>2 DEF vars, Single, Frames, OneCallEach, TaskAnswers
<1> QED
    BY <1>1, <1>2, SingleRegisters, SingleInitReturns, SingleGuestCall,
        SingleHandlerReturns, SingleHostCall, SingleAsyncHostCall,
        SingleAwait, SinglePoll, SingleSuspend, SingleComplete,
        SingleExhaustReturns, SingleNoTrap, SingleAsyncGuestCall,
        SingleResponse
    DEF Next, Guest

\* The invariant holds throughout.
LEMMA SingleInvariant ==
    ASSUME Events = {}
    PROVE  Spec => [](TypeOK /\ Sound /\ Single)
<1>1. TypeOK /\ Sound /\ Single /\ [Next]_vars => Single'
    BY SingleStep
<1> QED
    BY <1>1, GuestSound, SingleInit, PTL DEF Spec

\* No frame of the guest traps: the subtraction in exhaust_tasks stays above
\* zero, with and without overflow checks, and every unwrap finds a value.
THEOREM GuestNeverTraps ==
    ASSUME Events = {}
    PROVE  Spec => []NeverTraps
<1>1. Single => NeverTraps
    BY DEF Single, Frames, NeverTraps
<1> QED
    BY <1>1, SingleInvariant, PTL

\* exhaust_tasks returns only when no task could be polled: a task that is left
\* behind waits for the host.
THEOREM TasksAreExhausted ==
    ASSUME Events = {}
    PROVE  Spec => []QuietAtHost
<1>1. Single => QuietAtHost
    BY DEF Single, Frames, QuietAtHost
<1> QED
    BY <1>1, SingleInvariant, PTL

-----------------------------------------------------------------------------
(* The guest's side of the protocol.                                       *)

\* What the protocol sees of a guest.
InFrame == frame \in {"init", "call", "exhaust"}
OpenNow ==
    {i \in Invocations :
        task[i] \in {"ready", "waiting"} \/ (frame = "call" /\ current = i)}
AnsweredNow == {i \in Invocations : answer[i] # "none"}
OwedNow == {x \in AsyncCalls : host[x] = "accepted"}

\* Without refusals the calls in flight are those that the host owes.
LEMMA OwedAreInFlight ==
    ASSUME TypeOK, Sound, OneCallEach
    PROVE  OwedNow = ASYNC_HOST_CALLS
BY DEF OwedNow, AsyncCalls, Sound, CallLife, OneCallEach, TypeOK

\* Between polls, the suspended tasks have a host call each to wait for.
LEMMA WaitingIsParked ==
    ASSUME TypeOK, Sound, OneCallEach, frame # "exhaust" \/ current = NoCall
    PROVE  Protocol!Parked(Waiting)
<1>1. Cardinality(Waiting) = Cardinality(OwedNow)
    BY OneTaskPerCall, OwedAreInFlight DEF num_in_flight
<1>2. IsFiniteSet(Waiting)
    BY FS_Subset, InvocationsAssumption DEF Waiting
<1>3. Cardinality(Waiting) \in Nat
    BY <1>2, FS_CardinalityType
<1>4. /\ Protocol!Cardinality(Waiting) = Cardinality(Waiting)
      /\ Protocol!Cardinality(OwedNow) = Cardinality(OwedNow)
    BY Zenon DEF Protocol!Cardinality, Cardinality
<1>5. Protocol!Cardinality(Waiting) =< Protocol!Cardinality(OwedNow)
    BY <1>1, <1>3, <1>4
<1> QED
    BY <1>5 DEF Protocol!Parked, OwedNow

\* A step that changes nothing of what the protocol sees.
LEMMA HiddenStep ==
    ASSUME InFrame' <=> InFrame, OpenNow' = OpenNow,
           AnsweredNow' = AnsweredNow, AsyncCalls' = AsyncCalls,
           OwedNow' = OwedNow
    PROVE  [Protocol!Next]_(Protocol!vars)
<1>1. (frame \in {"init", "call", "exhaust"})'
          = (frame \in {"init", "call", "exhaust"})
    BY DEF InFrame
<1> QED
    BY <1>1 DEF Protocol!vars, OpenNow, AnsweredNow, OwedNow

\* Registration, synchronous host calls, polls and awaits are such steps.
LEMMA HiddenSteps ==
    ASSUME TypeOK, Sound, Single,
           \/ register_function \/ register_async_function \/ register_dispatcher
           \/ (\E ok \in BOOLEAN, code \in 0..2 : host_call(ok, code))
           \/ (\E x \in Calls : Await(x)) \/ (\E i \in Invocations : Poll(i))
           \/ (\E S \in SUBSET Calls : Suspend(S)) \/ UNCHANGED vars
    PROVE  [Protocol!Next]_(Protocol!vars)
<1>1. UNCHANGED <<frame, oneshot, answer>>
    BY DEF register_function, register_async_function, register_dispatcher,
        host_call, Await, Poll, Suspend, vars, callVars, taskVars
<1>2. AsyncCalls' = AsyncCalls
    BY <1>1 DEF AsyncCalls
<1>3. OwedNow' = OwedNow
  <2>1. CASE host' = host
    BY <1>2, <2>1 DEF OwedNow
  <2>2. ASSUME NEW ok \in BOOLEAN, NEW code \in 0..2, host_call(ok, code)
        PROVE  OwedNow' = OwedNow
    <3>1. /\ CALL_NUM < MaxHostCalls
          /\ \A x \in Calls : x # CALL_NUM => host'[x] = host[x]
        BY <2>2 DEF host_call, TypeOK
    <3>2. CALL_NUM \notin AsyncCalls
        BY <3>1, NumberIsFresh DEF AsyncCalls
    <3> QED
        BY <1>2, <3>1, <3>2 DEF OwedNow, AsyncCalls
  <2> QED
    BY <2>1, <2>2 DEF register_function, register_async_function,
        register_dispatcher, Await, Poll, Suspend, vars, callVars
<1>4. OpenNow' = OpenNow
  <2>1. CASE UNCHANGED <<task, current>>
    BY <1>1, <2>1 DEF OpenNow
  <2>2. ASSUME NEW i \in Invocations, Poll(i) PROVE OpenNow' = OpenNow
    BY <2>2 DEF Poll, OpenNow
  <2>3. ASSUME NEW S \in SUBSET Calls, Suspend(S) PROVE OpenNow' = OpenNow
    BY <2>3 DEF Suspend, OpenNow, Single, Frames, TypeOK
  <2> QED
    BY <2>1, <2>2, <2>3 DEF register_function, register_async_function,
        register_dispatcher, host_call, Await, vars, taskVars
<1>5. AnsweredNow' = AnsweredNow
    BY <1>1 DEF AnsweredNow
<1> QED
    BY <1>1, <1>2, <1>3, <1>4, <1>5, HiddenStep DEF InFrame

\* A frame that the guest leaves with every task suspended.
LEMMA LeaveStep ==
    ASSUME TypeOK, Sound, Single, InitReturns \/ ExhaustReturns
    PROVE  [Protocol!Next]_(Protocol!vars)
<1>1. /\ frame \in {"init", "exhaust"} /\ frame' = "host" /\ current = NoCall
      /\ UNCHANGED <<current, task, answer, oneshot, host>>
    BY DEF InitReturns, ExhaustReturns, Single, Frames, callVars, taskVars
<1>2. \A i \in Invocations : task[i] # "ready"
    BY <1>1, CountOfTasks DEF InitReturns, ExhaustReturns, Single, Frames
<1>3. OpenNow = Waiting /\ OpenNow' = OpenNow
    BY <1>1, <1>2 DEF OpenNow, Waiting
<1>4. Protocol!Parked(OpenNow)
    BY <1>1, <1>3, WaitingIsParked DEF Single
<1>5. Protocol!Leave
    BY <1>1, <1>3, <1>4 DEF Protocol!Leave, OpenNow, AsyncCalls
<1> QED
    BY <1>5 DEF Protocol!Next

\* An invocation is handed to the guest, or refused at once.
LEMMA EnterStep ==
    ASSUME TypeOK, Single, NEW i \in Invocations,
           GuestCall(i) \/ GuestCallUnregistered(i) \/ AsyncGuestCall(i)
    PROVE  [Protocol!Next]_(Protocol!vars)
<1>1. /\ frame = "host" /\ task[i] = "none" /\ answer[i] = "none"
      /\ UNCHANGED <<oneshot, host>>
    BY DEF GuestCall, GuestCallUnregistered, AsyncGuestCall, Trap, Unused,
        callVars
<1>2. CASE GuestCallUnregistered(i)
  <2>1. frame' = "host" /\ task' = task /\ current' = current
    BY <1>1, <1>2 DEF GuestCallUnregistered
  <2>2. OpenNow' = OpenNow /\ i \notin OpenNow
    BY <1>1, <2>1 DEF OpenNow
  <2>3. AnsweredNow' = AnsweredNow \cup {i} /\ i \notin AnsweredNow
    BY <1>1, <1>2 DEF GuestCallUnregistered, Answered, AnsweredNow, TypeOK
  <2>4. Protocol!Refuse(i)
    BY <1>1, <2>1, <2>2, <2>3
    DEF Protocol!Refuse, Protocol!New, OpenNow, AnsweredNow, AsyncCalls
  <2> QED
    BY <2>4 DEF Protocol!Next
<1>3. CASE GuestCall(i) \/ AsyncGuestCall(i)
  <2>1. frame' \in {"call", "exhaust"} /\ answer' = answer
    BY <1>3, SingleAsyncGuestCall DEF GuestCall, taskVars
  <2>2. OpenNow' = OpenNow \cup {i} /\ i \notin OpenNow
    <3>1. CASE GuestCall(i)
        BY <1>1, <3>1 DEF GuestCall, OpenNow, taskVars
    <3>2. CASE AsyncGuestCall(i)
        BY <1>1, <3>2, SingleAsyncGuestCall DEF OpenNow, TypeOK
    <3> QED
        BY <1>3, <3>1, <3>2
  <2>3. Protocol!Enter(i)
    BY <1>1, <2>1, <2>2
    DEF Protocol!Enter, Protocol!New, OpenNow, AnsweredNow, AsyncCalls
  <2> QED
    BY <2>3 DEF Protocol!Next
<1> QED
    BY <1>2, <1>3

\* A handler answers its invocation by the end of the frame, and leaves no task
\* behind that could go on.
LEMMA ReturnStep ==
    ASSUME TypeOK, Sound, Single, NEW ok \in BOOLEAN, HandlerReturns(ok)
    PROVE  [Protocol!Next]_(Protocol!vars)
<1>1. /\ frame = "call" /\ frame' = "host" /\ current \in Invocations
      /\ task[current] = "none" /\ answer[current] = "none"
      /\ UNCHANGED <<task, oneshot, host>>
    BY DEF HandlerReturns, Single, Frames, callVars
<1>2. OpenNow' = OpenNow \ {current} /\ current \in OpenNow
    BY <1>1 DEF OpenNow
<1>3. AnsweredNow' = AnsweredNow \cup {current}
    BY <1>1 DEF HandlerReturns, Answered, AnsweredNow, TypeOK
<1>4. OpenNow' = Waiting
    BY <1>1 DEF OpenNow, Waiting, Single, Frames
<1>5. Protocol!Parked(Waiting)
    BY <1>1, WaitingIsParked DEF Single
<1>6. PICK i \in Invocations : i = current
    BY <1>1
<1>7. Protocol!Return(i)
    BY <1>1, <1>2, <1>3, <1>4, <1>5, <1>6
    DEF Protocol!Return, OpenNow, AnsweredNow, AsyncCalls
<1> QED
    BY <1>7 DEF Protocol!Next

\* A task answers its invocation when it is done.
LEMMA AnswerStep ==
    ASSUME TypeOK, Single, NEW ok \in BOOLEAN, Complete(ok)
    PROVE  [Protocol!Next]_(Protocol!vars)
<1>1. /\ frame = "exhaust" /\ frame' = frame /\ current \in Invocations
      /\ task[current] = "ready"
      /\ task' = [task EXCEPT ![current] = "done"]
      /\ UNCHANGED <<oneshot, host>>
    BY DEF Complete, Single, Frames, callVars, TypeOK
<1>2. OpenNow' = OpenNow \ {current} /\ current \in OpenNow
    BY <1>1 DEF OpenNow, TypeOK
<1>3. AnsweredNow' = AnsweredNow \cup {current}
    BY <1>1 DEF Complete, Answered, AnsweredNow, TypeOK
<1>4. PICK i \in Invocations : i = current
    BY <1>1
<1>5. Protocol!Answer(i)
    BY <1>1, <1>2, <1>3, <1>4
    DEF Protocol!Answer, OpenNow, AnsweredNow, AsyncCalls
<1> QED
    BY <1>5 DEF Protocol!Next

\* A task makes an asynchronous host call, under a number never used before.
LEMMA CallHostStep ==
    ASSUME TypeOK, Sound, Single, Events = {}, NEW accepted \in BOOLEAN,
           TaskCallsHost(accepted)
    PROVE  [Protocol!Next]_(Protocol!vars)
<1> USE DEF TaskCallsHost
<1>0. accepted
  <2>1. "refuse" \notin Events
    OBVIOUS
  <2> QED
    BY <2>1, Zenon DEF async_host_call
<1>1. host' = [host EXCEPT ![CALL_NUM] = "accepted"]
    BY <1>0, Zenon DEF async_host_call
<1>2. /\ frame = "exhaust" /\ UNCHANGED <<frame, current, task, answer>>
      /\ CALL_NUM < MaxHostCalls
      /\ oneshot' = [oneshot EXCEPT ![CALL_NUM] = "open"]
    BY DEF async_host_call
<1>3. PICK new \in Calls : new = CALL_NUM
    BY <1>2, NumberIsFresh
<1>4. new \notin AsyncCalls
    BY <1>2, <1>3, NumberIsFresh DEF AsyncCalls
<1>5. AsyncCalls' = AsyncCalls \cup {new}
    BY <1>2, <1>3 DEF AsyncCalls, TypeOK
<1>6. OwedNow' = OwedNow \cup {new}
    BY <1>1, <1>3, <1>4, <1>5 DEF OwedNow, AsyncCalls, TypeOK
<1>7. Protocol!CallHost(new)
    BY <1>2, <1>4, <1>5, <1>6 DEF Protocol!CallHost, OwedNow
<1> QED
    BY <1>7 DEF Protocol!Next

\* The host calls back for a host call, once.
LEMMA CallBackStep ==
    ASSUME TypeOK, Sound, Single, NEW c \in Calls, NEW ok \in BOOLEAN,
           HostCallResponseReady(c, ok)
    PROVE  [Protocol!Next]_(Protocol!vars)
<1>1. frame = "host" /\ host[c] = "accepted" /\ c \in ASYNC_HOST_CALLS
    BY DEF HostCallResponseReady, Sound, CallLife
<1>2. /\ oneshot' = [oneshot EXCEPT ![c] = "sent"]
      /\ task' = Woken(c)
      /\ frame' = "exhaust"
      /\ UNCHANGED answer
    BY <1>1 DEF HostCallResponseReady
<1>3. PICK v \in {"ok", "err"} : host' = [host EXCEPT ![c] = v]
    BY <1>1, Zenon DEF HostCallResponseReady
<1>4. c \in OwedNow
    BY <1>1, OwedAreInFlight DEF Single
<1>5. AsyncCalls' = AsyncCalls
    BY <1>2, <1>4 DEF AsyncCalls, OwedNow, TypeOK
<1>6. OwedNow' = OwedNow \ {c}
    BY <1>3, <1>5 DEF OwedNow, AsyncCalls, TypeOK
<1>7. OpenNow' = OpenNow
    BY <1>1, <1>2 DEF OpenNow, Woken, TypeOK
<1>8. Protocol!CallBack(c)
    BY <1>1, <1>2, <1>4, <1>5, <1>6, <1>7
    DEF Protocol!CallBack, OwedNow, OpenNow
<1> QED
    BY <1>8 DEF Protocol!Next

\* Every step of the guest is a step of the protocol or invisible to it.
LEMMA NextProtocol ==
    ASSUME TypeOK, Sound, Single, Events = {}, [Next]_vars
    PROVE  [Protocol!Next]_(Protocol!vars)
<1>1. /\ ~Yield /\ \A x \in Calls : ~DropFuture(x)
      /\ \A accepted \in BOOLEAN : ~HandlerCallsHost(accepted)
    BY DEF Yield, DropFuture, HandlerCallsHost
<1> QED
    BY <1>1, SingleNoTrap, HiddenSteps, LeaveStep, EnterStep, ReturnStep,
        AnswerStep, CallHostStep, CallBackStep
    DEF Next, Guest

\* A guest of this library whose tasks await one host call at a time hands the
\* frame back only with a host call in flight for every open invocation,
\* answers each invocation once and gives every host call a number of its own:
\* what WapcCall assumes of a guest.
THEOREM GuestKeepsProtocol ==
    ASSUME Events = {}
    PROVE  Spec => KeepsProtocol
<1>1. Init => Protocol!Init
    BY DEF Init, Protocol!Init, AsyncCalls
<1>2. TypeOK /\ Sound /\ Single /\ [Next]_vars
          => [Protocol!Next]_(Protocol!vars)
    BY NextProtocol
<1> QED
    BY <1>1, <1>2, SingleInvariant, PTL DEF Spec, KeepsProtocol, Protocol!Spec

=============================================================================
