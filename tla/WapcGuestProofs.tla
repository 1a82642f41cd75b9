--------------------------- MODULE WapcGuestProofs ---------------------------
(***************************************************************************)
(* Theorems about WapcGuest, for every finite set of invocations and every *)
(* bound on host calls, whatever the users of the library do in handlers   *)
(* and tasks.                                                              *)
(***************************************************************************)
EXTENDS WapcGuest, TLAPS

USE DEF CallNumber, SendersWithout

-----------------------------------------------------------------------------
(* The inductive invariant.                                                *)

\* The life of one host call: numbers are given out in order, and a call has
\* its sender in the table from the moment it is made until it is answered.
CallLife(x) ==
    /\ host[x] = "none" <=> x >= CALL_NUM
    /\ x \in ASYNC_HOST_CALLS <=> oneshot[x] = "open"
    /\ x \in ASYNC_HOST_CALLS <=> host[x] \in {"accepted", "refused"}
    /\ host[x] = "none" => oneshot[x] = "none"
    /\ got[x] # "none" => host[x] \in {"ok", "err", "refused"}
    /\ got[x] = "response" => host[x] = "ok"

\* A future that a task has is one of async_host_call.
HeldAreMade ==
    \A i \in Invocations : \A x \in held[i] : oneshot[x] \in {"open", "sent"}

\* What a suspended task awaits.
WaitingOwed(i) ==
    task[i] = "waiting" =>
        /\ waits[i] # {}
        /\ \A x \in waits[i] : host[x] = "accepted" /\ oneshot[x] = "open"

Sound ==
    /\ \A x \in Calls : CallLife(x)
    /\ HeldAreMade
    /\ \A i \in Invocations : WaitingOwed(i)

-----------------------------------------------------------------------------
(* Type correctness.                                                       *)

\* The initial state has its types.
LEMMA TypeInit == Init => TypeOK
<1> SUFFICES ASSUME Init PROVE TypeOK
    OBVIOUS
<1>1. /\ overflow_checks \in BOOLEAN
      /\ registered \in BOOLEAN
      /\ async_registered \in BOOLEAN
      /\ dispatcher \in BOOLEAN
    BY Zenon DEF Init
<1>2. CALL_NUM \in 0..MaxHostCalls
    BY MaxHostCallsAssumption DEF Init
<1> QED
    BY <1>1, <1>2 DEF Init, TypeOK

\* Whatever is answered is answered with a value of its type.
LEMMA AnsweredType ==
    ASSUME answer \in [Invocations -> {"none", "ok", "err"}],
           NEW i \in Invocations \cup {NoCall}, NEW ok, Answered(i, ok)
    PROVE  answer' \in [Invocations -> {"none", "ok", "err"}]
BY DEF Answered

\* A step keeps the types.
LEMMA TypeStep ==
    ASSUME TypeOK, [Next]_vars
    PROVE  TypeOK'
<1> USE MaxHostCallsAssumption DEF TypeOK, registryVars, callVars, taskVars
<1>trap. CASE Trap
    BY <1>trap DEF Trap
<1>1. CASE register_function \/ register_async_function \/ register_dispatcher
    BY <1>1 DEF register_function, register_async_function, register_dispatcher
<1>2. CASE InitReturns \/ ExhaustReturns
    BY <1>2 DEF InitReturns, ExhaustReturns
<1>3. CASE ExhaustTraps \/ HandlerRegisters
    BY <1>3, <1>trap DEF ExhaustTraps, HandlerRegisters
<1>4. ASSUME NEW i \in Invocations, GuestCall(i)
      PROVE  TypeOK'
    BY <1>4 DEF GuestCall
<1>5. ASSUME NEW i \in Invocations, GuestCallUnregistered(i)
      PROVE  TypeOK'
    BY <1>5, AnsweredType DEF GuestCallUnregistered
<1>6. ASSUME NEW ok \in BOOLEAN, HandlerReturns(ok)
      PROVE  TypeOK'
    BY <1>6, AnsweredType DEF HandlerReturns
<1>7. ASSUME NEW i \in Invocations, AsyncGuestCall(i)
      PROVE  TypeOK'
    BY <1>7, <1>trap DEF AsyncGuestCall
<1>8. ASSUME NEW ok \in BOOLEAN, NEW code \in 0..2, host_call(ok, code)
      PROVE  TypeOK'
  <2>1. CALL_NUM' \in 0..MaxHostCalls
    BY <1>8 DEF host_call
  <2>2. host' \in [Calls -> {"none", "accepted", "refused", "ok", "err"}]
    <3>1. PICK v \in {"ok", "err"} : host' = [host EXCEPT ![CALL_NUM] = v]
        BY <1>8, Zenon DEF host_call
    <3> QED
        BY <3>1
  <2>3. PICK v \in {"response", "blank_error", "error"} :
            got' = [got EXCEPT ![CALL_NUM] = v]
    BY <1>8, Zenon DEF host_call
  <2>4. /\ UNCHANGED <<frame, current, overflow_checks, registered>>
        /\ UNCHANGED <<async_registered, dispatcher, ASYNC_HOST_CALLS, oneshot>>
        /\ UNCHANGED <<task, held, waits, answer>>
    BY <1>8 DEF host_call
  <2> QED
    BY <2>1, <2>2, <2>3, <2>4
<1>9. ASSUME NEW accepted \in BOOLEAN,
             TaskCallsHost(accepted) \/ HandlerCallsHost(accepted)
      PROVE  TypeOK'
  <2>1. async_host_call(accepted)
    BY <1>9 DEF TaskCallsHost, HandlerCallsHost
  <2>2. CALL_NUM \in Calls
    BY <2>1 DEF async_host_call, Calls
  <2>3. held' \in [Invocations -> SUBSET Calls]
    <3>1. CASE held' = held
        BY <3>1
    <3>2. CASE held' = [held EXCEPT ![current] = @ \cup {CALL_NUM}]
        BY <2>2, <3>2
    <3> QED
        BY <1>9, <3>1, <3>2 DEF TaskCallsHost, HandlerCallsHost
  <2>4. host' \in [Calls -> {"none", "accepted", "refused", "ok", "err"}]
    <3>1. PICK v \in {"accepted", "refused"} :
              host' = [host EXCEPT ![CALL_NUM] = v]
        BY <2>1, Zenon DEF async_host_call
    <3> QED
        BY <3>1
  <2>5. /\ CALL_NUM' \in 0..MaxHostCalls
        /\ ASYNC_HOST_CALLS' \subseteq Calls
        /\ oneshot' \in [Calls -> {"none", "open", "sent"}]
        /\ UNCHANGED <<frame, current, registryVars, got, task, waits, answer>>
    BY <2>1, <2>2 DEF async_host_call
  <2> QED
    BY <2>3, <2>4, <2>5
<1>10. ASSUME NEW x \in Calls, Await(x)
       PROVE  TypeOK'
    BY <1>10 DEF Await, Resolution
<1>11. ASSUME NEW x \in Calls, DropFuture(x)
       PROVE  TypeOK'
    BY <1>11 DEF DropFuture
<1>12. ASSUME NEW i \in Invocations, Poll(i)
       PROVE  TypeOK'
    BY <1>12 DEF Poll
<1>13. ASSUME NEW S \in SUBSET Calls, Suspend(S)
       PROVE  TypeOK'
    BY <1>13 DEF Suspend
<1>14. CASE Yield
    BY <1>14 DEF Yield
<1>15. ASSUME NEW ok \in BOOLEAN, Complete(ok)
       PROVE  TypeOK'
    BY <1>15, AnsweredType DEF Complete
<1>16. ASSUME NEW x \in Calls, NEW ok \in BOOLEAN, HostCallResponseReady(x, ok)
       PROVE  TypeOK'
    BY <1>16, <1>trap DEF HostCallResponseReady, Woken
<1>17. CASE UNCHANGED vars
    BY <1>17 DEF vars
<1> QED
    BY <1>1, <1>2, <1>3, <1>4, <1>5, <1>6, <1>7, <1>8, <1>9, <1>10, <1>11,
       <1>12, <1>13, <1>14, <1>15, <1>16, <1>17 DEF Next, Guest

\* Every variable of the guest keeps its type: in particular the numbers of
\* host calls, the table of senders and the futures of the tasks stay within
\* the calls that have been given a number.
THEOREM GuestTypeCorrect == Spec => []TypeOK
BY TypeInit, TypeStep, PTL DEF Spec

-----------------------------------------------------------------------------
(* Whatever handlers and tasks do.                                         *)

\* No host call has been made at first.
LEMMA SoundInit == ASSUME Init PROVE Sound
BY MaxHostCallsAssumption
   DEF Init, Sound, Calls, CallLife, HeldAreMade, WaitingOwed

\* A step that leaves the calls alone, gives no task a future and suspends
\* none keeps the invariant.
LEMMA SoundQuiet ==
    ASSUME Sound, UNCHANGED callVars,
           \A i \in Invocations : held'[i] \subseteq held[i],
           \A i \in Invocations : task'[i] = "waiting" =>
               task[i] = "waiting" /\ waits'[i] = waits[i]
    PROVE  Sound'
<1>1. ASSUME NEW x \in Calls PROVE CallLife(x)'
    BY DEF Sound, CallLife, callVars
<1>2. HeldAreMade'
    BY DEF Sound, HeldAreMade, callVars
<1>3. ASSUME NEW i \in Invocations PROVE WaitingOwed(i)'
    BY DEF Sound, WaitingOwed, callVars
<1> QED
    BY <1>1, <1>2, <1>3 DEF Sound

\* A number that is still to be given out belongs to no call that the guest
\* keeps anything about.
LEMMA NumberIsFresh ==
    ASSUME TypeOK, Sound, CALL_NUM < MaxHostCalls
    PROVE  /\ CALL_NUM \in Calls
           /\ host[CALL_NUM] = "none"
           /\ oneshot[CALL_NUM] = "none"
           /\ got[CALL_NUM] = "none"
           /\ CALL_NUM \notin ASYNC_HOST_CALLS
           /\ \A i \in Invocations : CALL_NUM \notin held[i]
           /\ \A i \in Invocations :
                  task[i] = "waiting" => CALL_NUM \notin waits[i]
<1>1. CALL_NUM \in Calls
    BY MaxHostCallsAssumption DEF TypeOK, Calls
<1>2. /\ host[CALL_NUM] = "none"
      /\ oneshot[CALL_NUM] = "none"
      /\ got[CALL_NUM] = "none"
      /\ CALL_NUM \notin ASYNC_HOST_CALLS
    BY <1>1, MaxHostCallsAssumption DEF TypeOK, Sound, CallLife
<1> QED
    BY <1>1, <1>2 DEF Sound, HeldAreMade, WaitingOwed

\* Numbers are compared as expected when one is given out.
LEMMA NextNumber ==
    ASSUME TypeOK, CALL_NUM' = CALL_NUM + 1, NEW x \in Calls
    PROVE  /\ x # CALL_NUM => (x >= CALL_NUM' <=> x >= CALL_NUM)
           /\ x = CALL_NUM => ~(x >= CALL_NUM')
BY MaxHostCallsAssumption DEF TypeOK, Calls

\* A synchronous host call is answered as it is made.
LEMMA SoundHostCall ==
    ASSUME TypeOK, Sound, NEW ok \in BOOLEAN, NEW code \in 0..2,
           host_call(ok, code)
    PROVE  Sound'
<1>1. PICK v \in {"ok", "err"} : host' = [host EXCEPT ![CALL_NUM] = v]
    BY Zenon DEF host_call
<1>2. PICK w \in {"response", "blank_error", "error"} :
          got' = [got EXCEPT ![CALL_NUM] = w]
    BY Zenon DEF host_call
<1>3. w = "response" => v = "ok"
    BY <1>1, <1>2, NumberIsFresh DEF host_call, TypeOK
<1>4. /\ CALL_NUM < MaxHostCalls
      /\ CALL_NUM' = CALL_NUM + 1
      /\ UNCHANGED <<ASYNC_HOST_CALLS, oneshot, task, held, waits>>
    BY DEF host_call, taskVars
<1>5. ASSUME NEW x \in Calls PROVE CallLife(x)'
    BY <1>1, <1>2, <1>3, <1>4, <1>5, NextNumber, NumberIsFresh
       DEF Sound, CallLife, TypeOK
<1>6. HeldAreMade'
    BY <1>4 DEF Sound, HeldAreMade
<1>7. ASSUME NEW i \in Invocations PROVE WaitingOwed(i)'
    BY <1>1, <1>4, <1>7, NumberIsFresh DEF Sound, WaitingOwed, TypeOK
<1> QED
    BY <1>5, <1>6, <1>7 DEF Sound

\* An asynchronous one is made under a number of its own, with its sender in
\* the table, whether or not the host accepts it.
LEMMA SoundAsyncHostCall ==
    ASSUME TypeOK, Sound, NEW accepted \in BOOLEAN,
           TaskCallsHost(accepted) \/ HandlerCallsHost(accepted)
    PROVE  Sound'
<1>0. async_host_call(accepted)
    BY DEF TaskCallsHost, HandlerCallsHost
<1>1. PICK v \in {"accepted", "refused"} : host' = [host EXCEPT ![CALL_NUM] = v]
    BY <1>0, Zenon DEF async_host_call
<1>2. /\ CALL_NUM < MaxHostCalls
      /\ CALL_NUM' = CALL_NUM + 1
      /\ ASYNC_HOST_CALLS' = ASYNC_HOST_CALLS \cup {CALL_NUM}
      /\ oneshot' = [oneshot EXCEPT ![CALL_NUM] = "open"]
      /\ UNCHANGED <<got, task, waits>>
    BY <1>0 DEF async_host_call
<1>3. ASSUME NEW i \in Invocations PROVE held'[i] \subseteq held[i] \cup {CALL_NUM}
    BY DEF TaskCallsHost, HandlerCallsHost, TypeOK
<1>4. ASSUME NEW x \in Calls PROVE CallLife(x)'
    BY <1>1, <1>2, <1>4, NextNumber, NumberIsFresh DEF Sound, CallLife, TypeOK
<1>5. HeldAreMade'
    BY <1>2, <1>3, NumberIsFresh DEF Sound, HeldAreMade, TypeOK
<1>6. ASSUME NEW i \in Invocations PROVE WaitingOwed(i)'
    BY <1>1, <1>2, <1>6, NumberIsFresh DEF Sound, WaitingOwed, TypeOK
<1> QED
    BY <1>4, <1>5, <1>6 DEF Sound

\* A future that has a value has it from the answer to its call.
LEMMA SoundAwait ==
    ASSUME TypeOK, Sound, NEW c \in Calls, Await(c)
    PROVE  Sound'
<1>1. /\ current \in Invocations
      /\ c \in held[current]
      /\ Ready(c)
      /\ got' = [got EXCEPT ![c] = Resolution(c)]
      /\ held' = [held EXCEPT ![current] = @ \ {c}]
      /\ UNCHANGED <<CALL_NUM, ASYNC_HOST_CALLS, oneshot, host, task, waits>>
    BY DEF Await, TypeOK
<1>2. oneshot[c] \in {"open", "sent"} /\ CallLife(c)
    BY <1>1 DEF Sound, HeldAreMade
<1>3. host[c] \in {"ok", "err", "refused"}
    BY <1>1, <1>2 DEF CallLife, Ready, TypeOK
<1>4. Resolution(c) = "response" => host[c] = "ok"
    BY DEF Resolution
<1>5. ASSUME NEW x \in Calls PROVE CallLife(x)'
    BY <1>1, <1>3, <1>4, <1>5 DEF Sound, CallLife, TypeOK
<1>6. HeldAreMade'
    BY <1>1 DEF Sound, HeldAreMade, TypeOK
<1>7. ASSUME NEW i \in Invocations PROVE WaitingOwed(i)'
    BY <1>1, <1>7 DEF Sound, WaitingOwed
<1> QED
    BY <1>5, <1>6, <1>7 DEF Sound

\* A poll ends only with futures that have no value yet: the host owes the
\* answers to their calls.
LEMMA SoundSuspend ==
    ASSUME TypeOK, Sound, NEW S \in SUBSET Calls, Suspend(S)
    PROVE  Sound'
<1>1. /\ current \in Invocations
      /\ S # {} /\ S \subseteq held[current]
      /\ \A x \in S : ~Ready(x)
      /\ task' = [task EXCEPT ![current] = "waiting"]
      /\ waits' = [waits EXCEPT ![current] = S]
      /\ UNCHANGED <<CALL_NUM, ASYNC_HOST_CALLS, oneshot, host, got, held>>
    BY DEF Suspend, TypeOK, callVars
<1>2. ASSUME NEW x \in S PROVE host[x] = "accepted" /\ oneshot[x] = "open"
    BY <1>1, <1>2 DEF Ready, Sound, CallLife
<1>3. ASSUME NEW x \in Calls PROVE CallLife(x)'
    BY <1>1, <1>3 DEF Sound, CallLife
<1>4. HeldAreMade'
    BY <1>1 DEF Sound, HeldAreMade
<1>5. ASSUME NEW i \in Invocations PROVE WaitingOwed(i)'
    BY <1>1, <1>2, <1>5 DEF Sound, WaitingOwed, TypeOK
<1> QED
    BY <1>3, <1>4, <1>5 DEF Sound

\* The answer to a call wakes every task that awaits it, and no other task is
\* left waiting for it.
LEMMA SoundResponse ==
    ASSUME TypeOK, Sound, NEW c \in Calls, NEW ok \in BOOLEAN,
           HostCallResponseReady(c, ok), c \in ASYNC_HOST_CALLS
    PROVE  Sound'
<1>1. PICK v \in {"ok", "err"} : host' = [host EXCEPT ![c] = v]
    BY Zenon DEF HostCallResponseReady
<1>2. /\ host[c] = "accepted"
      /\ ASYNC_HOST_CALLS' = ASYNC_HOST_CALLS \ {c}
      /\ oneshot' = [oneshot EXCEPT ![c] = "sent"]
      /\ task' = Woken(c)
      /\ UNCHANGED <<CALL_NUM, got, held, waits>>
    BY DEF HostCallResponseReady
<1>3. ASSUME NEW x \in Calls PROVE CallLife(x)'
    BY <1>1, <1>2, <1>3 DEF Sound, CallLife, TypeOK
<1>4. HeldAreMade'
    BY <1>2 DEF Sound, HeldAreMade, TypeOK
<1>5. ASSUME NEW i \in Invocations PROVE WaitingOwed(i)'
    BY <1>1, <1>2, <1>5 DEF Sound, WaitingOwed, Woken, TypeOK
<1> QED
    BY <1>3, <1>4, <1>5 DEF Sound

\* Every step keeps the invariant.
LEMMA SoundStep ==
    ASSUME TypeOK, Sound, [Next]_vars
    PROVE  Sound'
<1> USE DEF registryVars, taskVars
<1>trap. CASE Trap
    BY <1>trap, SoundQuiet DEF Trap
<1>1. CASE register_function \/ register_async_function \/ register_dispatcher
    BY <1>1, SoundQuiet
       DEF register_function, register_async_function, register_dispatcher
<1>2. CASE InitReturns \/ ExhaustReturns \/ Yield
    BY <1>2, SoundQuiet DEF InitReturns, ExhaustReturns, Yield
<1>3. CASE ExhaustTraps \/ HandlerRegisters
    BY <1>3, <1>trap DEF ExhaustTraps, HandlerRegisters
<1>4. ASSUME NEW i \in Invocations, GuestCall(i) \/ GuestCallUnregistered(i)
      PROVE  Sound'
    BY <1>4, SoundQuiet DEF GuestCall, GuestCallUnregistered
<1>5. ASSUME NEW ok \in BOOLEAN, HandlerReturns(ok)
      PROVE  Sound'
    BY <1>5, SoundQuiet DEF HandlerReturns
<1>6. ASSUME NEW i \in Invocations, AsyncGuestCall(i)
      PROVE  Sound'
    BY <1>6, <1>trap, SoundQuiet DEF AsyncGuestCall, TypeOK
<1>7. ASSUME NEW x \in Calls, DropFuture(x)
      PROVE  Sound'
    BY <1>7, SoundQuiet DEF DropFuture, TypeOK
<1>8. ASSUME NEW i \in Invocations, Poll(i)
      PROVE  Sound'
    BY <1>8, SoundQuiet DEF Poll, TypeOK
<1>9. ASSUME NEW ok \in BOOLEAN, Complete(ok)
      PROVE  Sound'
    BY <1>9, SoundQuiet DEF Complete, TypeOK
<1>10. ASSUME NEW x \in Calls, NEW ok \in BOOLEAN, HostCallResponseReady(x, ok)
       PROVE  Sound'
    BY <1>10, <1>trap, SoundResponse DEF HostCallResponseReady
<1>11. CASE UNCHANGED vars
    BY <1>11, SoundQuiet DEF vars, callVars
<1> QED
    BY <1>1, <1>2, <1>3, <1>4, <1>5, <1>6, <1>7, <1>8, <1>9, <1>10, <1>11,
       SoundHostCall, SoundAsyncHostCall, SoundAwait, SoundSuspend
       DEF Next, Guest

\* The invariant holds throughout.
LEMMA GuestSound == Spec => [](TypeOK /\ Sound)
BY TypeInit, TypeStep, SoundInit, SoundStep, PTL DEF Spec

\* Every host call that the host has accepted and not yet answered has its
\* sender in the table, whatever became of the task that made it: the unwrap
\* of __host_call_response_ready succeeds.
THEOREM SenderIsThere == Spec => []OpenCallHasSender
<1>1. Sound => OpenCallHasSender
    BY DEF Sound, CallLife, OpenCallHasSender
<1> QED
    BY <1>1, GuestSound, PTL

\* No wake-up is lost: a task is suspended only for calls whose answer is still
\* to come and still has a channel to arrive through.
THEOREM NoWakeUpLost == Spec => []NeverWaitsInVain
<1>1. Sound => NeverWaitsInVain
    BY DEF Sound, WaitingOwed, NeverWaitsInVain
<1> QED
    BY <1>1, GuestSound, PTL

\* What a host call resolves to in the guest comes from the host's answer to
\* that call, and is a response only if that answer is one.
THEOREM ResolvedByAnswer == Spec => []ResolvedByOwnAnswer
<1>1. Sound => ResolvedByOwnAnswer
    BY DEF Sound, CallLife, ResolvedByOwnAnswer
<1> QED
    BY <1>1, GuestSound, PTL

=============================================================================
