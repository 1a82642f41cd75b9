----------------------------- MODULE WapcGuest ------------------------------
(***************************************************************************)
(* One instance of a guest built with wapc-guest                           *)
(* (crates/wapc-guest/src/protocol.rs).                                    *)
(*                                                                         *)
(* The instance has one thread: the host runs one frame at a time, a       *)
(* starter, __guest_call, __async_guest_call or                            *)
(* __host_call_response_ready, and the last two end in exhaust_tasks,      *)
(* which polls the executor's tasks.  Every asynchronous invocation is a   *)
(* task; a member of Invocations is answered synchronously or              *)
(* asynchronously, once.                                                   *)
(*                                                                         *)
(* Outside the repository or left to its users are                         *)
(*   - the host, which takes the guest's number of a host call as its id,  *)
(*     answers a synchronous one at once and calls back once for every     *)
(*     asynchronous one that it has accepted;                              *)
(*   - the handlers and the dispatcher, which make host calls, await and   *)
(*     return; what they do beyond one awaited call at a time is in Events;*)
(*   - the executor: run_while(f) polls a ready task as long as f().       *)
(***************************************************************************)
EXTENDS Integers, FiniteSets

CONSTANTS
    Invocations,    \* the ids with which the host calls the guest
    NoCall,         \* no invocation
    MaxHostCalls,   \* bound on the host calls made by the instance
    Events          \* "join"     a task has several host calls at a time
                    \* "detach"   a task drops the future of a host call
                    \* "yield"    a task gives up its turn while it is ready
                    \* "refuse"   __async_host_call returns 0
                    \* "early"    async_host_call outside a task: in wapc_init
                    \*            or in a synchronous handler
                    \* "register" functions are registered after wapc_init
                    \* "no_dispatcher" wapc_init registers no dispatcher

ASSUME InvocationsAssumption ==
    IsFiniteSet(Invocations) /\ NoCall \notin Invocations
ASSUME MaxHostCallsAssumption == MaxHostCalls \in Nat
ASSUME EventsAssumption ==
    Events \subseteq {"join", "detach", "yield", "refuse", "early", "register",
                      "no_dispatcher"}

VARIABLES
    overflow_checks, \* the build: whether a subtraction that overflows traps
    frame,      \* what the host runs: "init", "call" (__guest_call),
                \* "exhaust" (exhaust_tasks); "host": nothing; "trapped"
    current,    \* the invocation whose handler or task is running
    registered, \* REGISTRY has the handler of the operation that is called
    async_registered, \* ASYNC_REGISTRY has one
    dispatcher, \* DISPATCHER is set
    CALL_NUM,
    ASYNC_HOST_CALLS, \* the host calls whose sender is in the table
    task,       \* the task of each invocation
    held,       \* the futures of async_host_call that each task has
    waits,      \* those of them that a suspended task awaits
    oneshot,    \* the channel of each host call
    host,       \* what the host made of each host call
    got,        \* what the guest's code got for it
    answer      \* what the guest told the host about each invocation

registryVars == <<overflow_checks, registered, async_registered, dispatcher>>
callVars == <<CALL_NUM, ASYNC_HOST_CALLS, oneshot, host, got>>
taskVars == <<task, held, waits, answer>>
vars == <<overflow_checks, frame, current, registered, async_registered,
          dispatcher, CALL_NUM, ASYNC_HOST_CALLS, task, held, waits, oneshot, host, got, answer>>

Calls == 0..(MaxHostCalls - 1)

TypeOK ==
    /\ overflow_checks \in BOOLEAN
    /\ frame \in {"init", "host", "call", "exhaust", "trapped"}
    /\ current \in Invocations \cup {NoCall}
    /\ registered \in BOOLEAN
    /\ async_registered \in BOOLEAN
    /\ dispatcher \in BOOLEAN
    /\ CALL_NUM \in 0..MaxHostCalls
    /\ ASYNC_HOST_CALLS \subseteq Calls
    /\ task \in [Invocations -> {"none", "ready", "waiting", "done"}]
    /\ held \in [Invocations -> SUBSET Calls]
    /\ waits \in [Invocations -> SUBSET Calls]
    /\ oneshot \in [Calls -> {"none", "open", "sent"}]
    /\ host \in [Calls -> {"none", "accepted", "refused", "ok", "err"}]
    /\ got \in [Calls -> {"none", "response", "blank", "error_text", "error",
                          "blank_error"}]
    /\ answer \in [Invocations -> {"none", "ok", "err"}]

Init ==
    /\ overflow_checks \in BOOLEAN
    /\ frame = "init"
    /\ current = NoCall
    /\ registered = FALSE
    /\ async_registered = FALSE
    /\ dispatcher = FALSE
    /\ CALL_NUM = 0
    /\ ASYNC_HOST_CALLS = {}
    /\ task = [i \in Invocations |-> "none"]
    /\ held = [i \in Invocations |-> {}]
    /\ waits = [i \in Invocations |-> {}]
    /\ oneshot = [x \in Calls |-> "none"]
    /\ host = [x \in Calls |-> "none"]
    /\ got = [x \in Calls |-> "none"]
    /\ answer = [i \in Invocations |-> "none"]

\* A panic of the guest ends its frame.  A host may call the instance again
\* (the handler of the Wasmtime provider does, as it discards the trap); what
\* it would find is up to the executor, abandoned in the middle of a run, and
\* is not modelled.
Trap ==
    /\ frame' = "trapped"
    /\ UNCHANGED <<current, registryVars, callVars, taskVars>>

-----------------------------------------------------------------------------
(* wapc_init and registration.                                             *)

register_function ==
    /\ \/ frame = "init"
       \/ "register" \in Events /\ frame = "exhaust" /\ current # NoCall
    /\ registered' = TRUE
    /\ UNCHANGED <<overflow_checks, frame, current, async_registered, dispatcher, callVars,
                   taskVars>>

\* Nothing ever reads ASYNC_REGISTRY.
register_async_function ==
    /\ frame = "init"
    /\ async_registered' = TRUE
    /\ UNCHANGED <<overflow_checks, frame, current, registered, dispatcher,
                   callVars, taskVars>>

register_dispatcher ==
    /\ frame = "init"
    /\ dispatcher' = TRUE
    /\ UNCHANGED <<overflow_checks, frame, current, registered,
                   async_registered, callVars, taskVars>>

InitReturns ==
    /\ frame = "init"
    /\ dispatcher \/ "no_dispatcher" \in Events
    /\ frame' = "host"
    /\ UNCHANGED <<current, registryVars, callVars, taskVars>>

-----------------------------------------------------------------------------
(* __guest_call.                                                           *)

Unused(i) == task[i] = "none" /\ answer[i] = "none"

Answered(i, ok) == answer' = [answer EXCEPT ![i] = IF ok THEN "ok" ELSE "err"]

\* REGISTRY stays locked for as long as the handler runs.
GuestCall(i) ==
    /\ frame = "host"
    /\ Unused(i)
    /\ registered
    /\ frame' = "call"
    /\ current' = i
    /\ UNCHANGED <<registryVars, callVars, taskVars>>

\* "No handler registered for function"
GuestCallUnregistered(i) ==
    /\ frame = "host"
    /\ Unused(i)
    /\ ~registered
    /\ Answered(i, FALSE)
    /\ UNCHANGED <<frame, current, registryVars, callVars, task, held, waits>>

HandlerReturns(ok) ==
    /\ frame = "call"
    /\ Answered(current, ok)
    /\ frame' = "host"
    /\ current' = NoCall
    /\ UNCHANGED <<registryVars, callVars, task, held, waits>>

\* A thread of Wasm cannot park on a mutex that it holds itself.
HandlerRegisters ==
    /\ "register" \in Events
    /\ frame = "call"
    /\ Trap

-----------------------------------------------------------------------------
(* Host calls, made by a handler or by a task.                             *)

\* Code of the library's user runs.
InGuest == frame = "init" \/ (frame \in {"call", "exhaust"} /\ current # NoCall)

\* The number after the increment.
CallNumberAfter == CALL_NUM + 1

\* CALL_NUM.fetch_add returns the number before it.
CallNumber == CALL_NUM

\* host_call.  Any code but 1 is taken for a failure; what __host_error has
\* to say is blank if there was none.
host_call(ok, code) ==
    /\ InGuest
    /\ CALL_NUM < MaxHostCalls
    /\ ok <=> code > 0
    /\ CALL_NUM' = CALL_NUM + 1
    /\ host' = [host EXCEPT ![CallNumber] = IF ok THEN "ok" ELSE "err"]
    /\ got' = [got EXCEPT ![CallNumber] = IF code = 1 THEN "response"
                                        ELSE IF ok THEN "blank_error"
                                        ELSE "error"]
    /\ UNCHANGED <<frame, current, registryVars, ASYNC_HOST_CALLS, oneshot,
                   taskVars>>

\* async_host_call makes the call at once, not when its future is polled, and
\* keeps the sender whether or not the call is accepted.
async_host_call(accepted) ==
    /\ CALL_NUM < MaxHostCalls
    /\ accepted \/ "refuse" \in Events
    /\ CALL_NUM' = CALL_NUM + 1
    /\ ASYNC_HOST_CALLS' = ASYNC_HOST_CALLS \cup {CallNumber}
    /\ oneshot' = [oneshot EXCEPT ![CallNumber] = "open"]
    /\ host' = [host EXCEPT ![CallNumber] =
                    IF accepted THEN "accepted" ELSE "refused"]
    /\ UNCHANGED <<frame, current, registryVars, got, task, waits, answer>>

\* A task has the future, to await it or not.
TaskCallsHost(accepted) ==
    /\ frame = "exhaust"
    /\ current # NoCall
    /\ held[current] = {} \/ "join" \in Events
    /\ async_host_call(accepted)
    /\ held' = [held EXCEPT ![current] = @ \cup {CallNumber}]

\* wapc_init and a synchronous handler cannot await it and drop it.
HandlerCallsHost(accepted) ==
    /\ "early" \in Events
    /\ frame \in {"init", "call"}
    /\ async_host_call(accepted)
    /\ held' = held

\* Not waiting for the answer.
ReadyAlways(x) == TRUE

\* Not looking at what __async_host_call has returned.
ReadyWhenSent(x) == oneshot[x] # "open"

\* The future has a value when it is polled.
Ready(x) == host[x] = "refused" \/ oneshot[x] # "open"

\* What the future of async_host_call resolves to.  The code of the oneshot is
\* not looked at: after a failure there is no response and the buffer is blank.
\* recv.await has no Err (ErrorKind::Async) to give: a sender leaves the table
\* only by the remove of __host_call_response_ready, which sends on it.
Resolution(x) ==
    IF host[x] = "refused" THEN "error_text"
    ELSE IF host[x] = "ok" THEN "response" ELSE "blank"

Await(x) ==
    /\ frame = "exhaust"
    /\ current # NoCall
    /\ x \in held[current]
    /\ Ready(x)
    /\ got' = [got EXCEPT ![x] = Resolution(x)]
    /\ held' = [held EXCEPT ![current] = @ \ {x}]
    /\ UNCHANGED <<frame, current, registryVars, CALL_NUM, ASYNC_HOST_CALLS,
                   oneshot, host, task, waits, answer>>

\* Dropping the future drops the receiver and leaves the sender in the table.
DropFuture(x) ==
    /\ "detach" \in Events
    /\ frame = "exhaust"
    /\ current # NoCall
    /\ x \in held[current]
    /\ held' = [held EXCEPT ![current] = @ \ {x}]
    /\ UNCHANGED <<frame, current, registryVars, callVars, task, waits, answer>>

-----------------------------------------------------------------------------
(* Tasks and exhaust_tasks.                                                *)

tasks_count == Cardinality({i \in Invocations : task[i] \in {"ready", "waiting"}})

\* Every host call ever made.
num_made == CALL_NUM

num_in_flight == Cardinality(ASYNC_HOST_CALLS)

\* __async_guest_call spawns a task around the dispatcher and runs it.
AsyncGuestCall(i) ==
    /\ frame = "host"
    /\ Unused(i)
    /\ IF dispatcher
       THEN /\ frame' = "exhaust"
            /\ task' = [task EXCEPT ![i] = "ready"]
            /\ UNCHANGED <<current, registryVars, callVars, held, waits, answer>>
       ELSE Trap     \* DISPATCHER.get().unwrap()

\* Leaving with one task still to poll.
MoreToDoOffByOne == tasks_count - num_in_flight > 1

\* tasks_count() - num_in_flight > 0 on unsigned numbers: a difference below
\* zero traps or wraps round to a large number.
MoreToDo == tasks_count # num_in_flight

Overflows == overflow_checks /\ tasks_count < num_in_flight

Poll(i) ==
    /\ frame = "exhaust"
    /\ current = NoCall
    /\ ~Overflows
    /\ MoreToDo
    /\ task[i] = "ready"
    /\ current' = i
    /\ waits' = [waits EXCEPT ![i] = {}]
    /\ UNCHANGED <<frame, registryVars, callVars, task, held, answer>>

ExhaustReturns ==
    /\ frame = "exhaust"
    /\ current = NoCall
    /\ ~Overflows
    /\ ~MoreToDo
    /\ frame' = "host"
    /\ UNCHANGED <<current, registryVars, callVars, taskVars>>

ExhaustTraps ==
    /\ frame = "exhaust"
    /\ current = NoCall
    /\ Overflows
    /\ Trap

\* The poll ends: the task awaits some of its futures.
Suspend(S) ==
    /\ frame = "exhaust"
    /\ current # NoCall
    /\ S # {} /\ S \subseteq held[current]
    /\ \A x \in S : ~Ready(x)
    /\ task' = [task EXCEPT ![current] = "waiting"]
    /\ waits' = [waits EXCEPT ![current] = S]
    /\ current' = NoCall
    /\ UNCHANGED <<frame, registryVars, callVars, held, answer>>

\* ... or gives up its turn,
Yield ==
    /\ "yield" \in Events
    /\ frame = "exhaust"
    /\ current # NoCall
    /\ current' = NoCall
    /\ UNCHANGED <<frame, registryVars, callVars, taskVars>>

\* ... or has the result of the dispatcher and answers the invocation.
Complete(ok) ==
    /\ frame = "exhaust"
    /\ current # NoCall
    /\ held[current] = {} \/ "detach" \in Events
    /\ task' = [task EXCEPT ![current] = "done"]
    /\ held' = [held EXCEPT ![current] = {}]
    /\ Answered(current, ok)
    /\ current' = NoCall
    /\ UNCHANGED <<frame, registryVars, callVars, waits>>

-----------------------------------------------------------------------------
(* __host_call_response_ready.                                             *)

\* The tasks that await the call are ready again.
Woken(x) ==
    [i \in Invocations |->
        IF task[i] = "waiting" /\ x \in waits[i] THEN "ready" ELSE task[i]]

\* clear() in place of remove().
SendersCleared(x) == {}

SendersWithout(x) == ASYNC_HOST_CALLS \ {x}

\* The host calls back for a call: its reply can be read, the sender leaves
\* the table, and the task that awaits it runs before the frame ends.
HostCallResponseReady(x, ok) ==
    /\ frame = "host"
    /\ host[x] = "accepted"
    /\ IF x \in ASYNC_HOST_CALLS
       THEN /\ host' = [host EXCEPT ![x] = IF ok THEN "ok" ELSE "err"]
            /\ ASYNC_HOST_CALLS' = SendersWithout(x)
            /\ oneshot' = [oneshot EXCEPT ![x] = "sent"]
            /\ task' = Woken(x)
            /\ frame' = "exhaust"
            /\ UNCHANGED <<current, registryVars, CALL_NUM, got, held, waits,
                           answer>>
       ELSE Trap     \* remove(&id).unwrap()

-----------------------------------------------------------------------------
\* What the guest does by itself in a frame.
Guest ==
    \/ register_function \/ register_async_function \/ register_dispatcher
    \/ InitReturns
    \/ \E ok \in BOOLEAN : HandlerReturns(ok)
    \/ \E ok \in BOOLEAN, code \in 0..2 : host_call(ok, code)
    \/ \E accepted \in BOOLEAN :
           TaskCallsHost(accepted) \/ HandlerCallsHost(accepted)
    \/ \E x \in Calls : Await(x)
    \/ \E i \in Invocations : Poll(i)
    \/ ExhaustReturns \/ ExhaustTraps
    \/ \E S \in SUBSET Calls : Suspend(S)
    \/ \E ok \in BOOLEAN : Complete(ok)

Next ==
    \/ \E i \in Invocations :
           GuestCall(i) \/ GuestCallUnregistered(i) \/ AsyncGuestCall(i)
    \/ \E x \in Calls, ok \in BOOLEAN : HostCallResponseReady(x, ok)
    \/ Guest
    \/ HandlerRegisters \/ Yield \/ \E x \in Calls : DropFuture(x)

Spec == Init /\ [][Next]_vars

\* The host runs the frames it has started and answers the calls that it has
\* accepted; handlers and tasks come to an end.  The host need not call.
Fairness ==
    /\ WF_vars(Guest)
    /\ WF_vars(\E x \in Calls, ok \in BOOLEAN : HostCallResponseReady(x, ok))

FairSpec == Spec /\ Fairness

-----------------------------------------------------------------------------
(* Whatever handlers and tasks do.                                         *)

\* Every host call that the host has accepted and not yet answered has its
\* sender in ASYNC_HOST_CALLS, even if the task has dropped the future, ended
\* or given up: the unwrap of __host_call_response_ready succeeds.
OpenCallHasSender == \A x \in Calls : host[x] = "accepted" => x \in ASYNC_HOST_CALLS

\* A task is suspended only for host calls that the host still owes an answer
\* for: no wake-up is lost between the call, the await and the answer.
NeverWaitsInVain ==
    \A i \in Invocations : task[i] = "waiting" =>
        /\ waits[i] # {}
        /\ \A x \in waits[i] : host[x] = "accepted" /\ oneshot[x] = "open"

\* A host call resolves in the guest only after the host has answered that very
\* call, in whatever order several are answered, and with a response only if
\* the host has one for it: an answer never reaches the future of another call.
ResolvedByOwnAnswer ==
    \A x \in Calls :
        /\ got[x] # "none" => host[x] \in {"ok", "err", "refused"}
        /\ got[x] = "response" => host[x] = "ok"

-----------------------------------------------------------------------------
(* For tasks that await one host call at a time (Events is empty).         *)

\* No frame traps: the subtraction of exhaust_tasks stays above zero, because
\* every sender in the table belongs to a task of its own.
NeverTraps == frame # "trapped"

\* exhaust_tasks hands control back to the host only when every task waits for
\* the host: "Run all tasks until completion" (protocol.rs).
QuietAtHost == frame = "host" => \A i \in Invocations : task[i] # "ready"

\* Every invocation that the guest has started is answered.
InvocationAnswered ==
    \A i \in Invocations :
        (task[i] = "ready" \/ current = i) ~> answer[i] # "none"

-----------------------------------------------------------------------------
(* The guest keeps its side of the protocol.                               *)

AsyncCalls == {x \in Calls : oneshot[x] # "none"}

Protocol == INSTANCE GuestProtocol WITH
    HostCalls <- Calls,
    running   <- frame \in {"init", "call", "exhaust"},
    open      <- {i \in Invocations :
                     task[i] \in {"ready", "waiting"} \/ (frame = "call" /\ current = i)},
    answered  <- {i \in Invocations : answer[i] # "none"},
    made      <- AsyncCalls,
    owed      <- {x \in AsyncCalls : host[x] = "accepted"}

\* A guest of this library never gives up its frame with an invocation that
\* only it could bring forward, never answers one twice and never reuses the
\* number of a host call: what WapcCall assumes of a guest.
KeepsProtocol == Protocol!Spec
=============================================================================
