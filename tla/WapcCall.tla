------------------------------ MODULE WapcCall ------------------------------
(***************************************************************************)
(* One WapcHost::call or WapcHost::call_async on a Wasmtime guest, from    *)
(* the creation of its context to the end of its last background task.     *)
(*                                                                         *)
(* Every call has its own ModuleState, store, instance, message channel    *)
(* and handler task, so one call is the whole unit of interaction.  The    *)
(* actors are                                                              *)
(*   - the caller (wapchost.rs and engine_provider.rs), at pc;             *)
(*   - the guest, which runs inside a frame opened by the caller or by the *)
(*     handler and acts only through the import functions of               *)
(*     wapc_wasmtime.rs;                                                   *)
(*   - one task per asynchronous host call, which awaits the host          *)
(*     callback, stores its reply and notifies the handler;                *)
(*   - the handler task, which receives the notifications and calls the    *)
(*     guest back.                                                         *)
(* They share the call table (ModuleState), the store mutex, the channel   *)
(* and the oneshot of the invocation.                                      *)
(*                                                                         *)
(* The guest and the host callbacks are outside the repository's crates:   *)
(* the guest follows the waPC protocol (it answers an asynchronous call    *)
(* once, and gives up its frame before that only to wait for a host call   *)
(* it has made), the callbacks answer with a value or with an error.       *)
(* Faults names what else may happen.                                      *)
(***************************************************************************)
EXTENDS ModuleState, Sequences

CONSTANTS
    MaxHostCalls,   \* bound on the host calls a guest makes during one call
    Faults          \* "cancel"        the future of call_async is dropped
                    \* "resume_trap"   a guest called back by the handler traps
                    \* "callback_panic" an async host callback panics
                    \* "call_panic"    an import function, or the synchronous
                    \*                 host callback it runs, panics in a frame
                    \*                 of the caller,
                    \* "resume_panic"  or in a frame of the handler

ASSUME MaxHostCallsAssumption == MaxHostCalls \in Nat
ASSUME FaultsAssumption ==
    Faults \subseteq {"cancel", "resume_trap", "callback_panic", "call_panic",
                      "resume_panic"}

VARIABLES
    mode,       \* "sync": WapcHost::call, "async": WapcHost::call_async
    pc,         \* where the caller is
    starter,    \* how many REQUIRED_STARTS init() has gone through
    store,      \* the store mutex: "free", "caller" or "handler"
    inv,        \* the id new_invocation returned, 0 before
    code,       \* what __guest_call returned to the caller
    syncCall,   \* the id of the do_host_call in progress, 0 if none
    tasks,      \* the tasks do_async_host_call has spawned, by id
    queue,      \* the mpsc channel of AsyncChannel messages
    hpc,        \* where the handler task is
    hmsg,       \* the message the handler is working on
    aborted,    \* whether the handler task has been told to abort
    status,     \* what the oneshot of the invocation holds
    result,     \* what the caller got
    said,       \* the guest's own record of its answer
    awaiting    \* the async host calls the guest has not been called back for

callerVars == <<mode, pc, starter, inv, code, result, aborted>>
handlerVars == <<queue, hpc, hmsg>>
hostCallVars == <<syncCall, tasks>>
guestVars == <<said, awaiting>>
vars == <<calls, call_index, mode, pc, starter, store, inv, code, syncCall,
          tasks, queue, hpc, hmsg, aborted, status, result, said, awaiting>>

-----------------------------------------------------------------------------
Starts == 2     \* Len(REQUIRED_STARTS): _start and wapc_init

PCs == {"start", "context", "starting", "created", "invoke", "call", "take",
        "await", "done"}

TaskStates == {"run", "ok", "err", "done", "panicked"}

\* AsyncChannel; the handler treats Message(Ok(v)) and Message(Err(v)) alike.
Message(id, c) == [id |-> id, code |-> c]
Close == Message(0, 0)
Messages == [id : Nat, code : Nat]

Errors == {"none", "guest", "trap", "no_message", "no_response", "context",
           "init", "not_found", "cancelled", "panic", "host_panic"}

Pending == [ok |-> FALSE, val |-> None, err |-> "none"]
OkResult(v) == [ok |-> TRUE, val |-> v, err |-> "none"]
ErrResult(e) == [ok |-> FALSE, val |-> None, err |-> e]

\* The two arms shared by WapcCallContext::call and ::call_async.
FailureArm(s) ==
    ErrResult(IF s.guest_error # "none" THEN s.guest_error ELSE "no_message")

SuccessArm(s) ==
    IF s.guest_response # None THEN OkResult(s.guest_response)
    ELSE ErrResult(IF s.guest_error # "none" THEN s.guest_error
                                             ELSE "no_response")

\* The guest's record: idle until it is given the invocation, then working
\* until it answers it.
Said == [phase : {"idle", "working", "failed", "succeeded"},
         resp  : Payload \cup {None},
         err   : GuestErrors]

HostCallsMade == call_index - 1 - (IF inv = 0 THEN 0 ELSE 1)

InGuest == (pc \in {"starting", "call"} \/ hpc = "resume") /\ syncCall = 0

HasInvocation == said.phase = "working"

\* A frame ends by itself only when the guest has nothing left to do in it:
\* in an async call, once it has answered or waits for a host call.
MayLeave ==
    /\ InGuest
    /\ mode = "async" /\ HasInvocation => awaiting # {}

-----------------------------------------------------------------------------
TableType ==
    /\ call_index \in Nat \ {0}
    /\ DOMAIN calls \subseteq 1..(call_index - 1)
    /\ calls \in [DOMAIN calls -> CallState]

IdsType ==
    /\ inv \in 0..(call_index - 1)
    /\ syncCall \in 0..(call_index - 1)
    /\ DOMAIN tasks \subseteq 1..(call_index - 1)
    /\ tasks \in [DOMAIN tasks -> TaskStates]
    /\ awaiting \subseteq DOMAIN tasks

ChannelType ==
    /\ queue \in Seq(Messages)
    /\ hmsg \in Messages
    /\ hpc \in {"none", "recv", "lock", "resume", "ended"}
    /\ aborted \in BOOLEAN

CallerType ==
    /\ mode \in {"sync", "async"}
    /\ pc \in PCs
    /\ starter \in 0..Starts
    /\ store \in {"free", "caller", "handler"}
    /\ code \in 0..1

AnswerType ==
    /\ status \in CallStatus
    /\ result \in [ok : BOOLEAN, val : Payload \cup {None}, err : Errors]
    /\ said \in Said

TypeOK == TableType /\ IdsType /\ ChannelType /\ CallerType /\ AnswerType

Init ==
    /\ ModuleStateInit
    /\ mode \in {"sync", "async"}
    /\ pc = "start"
    /\ starter = 0
    /\ store = "free"
    /\ inv = 0
    /\ code = 0
    /\ syncCall = 0
    /\ tasks = [i \in {} |-> "run"]
    /\ queue = <<>>
    /\ hpc = "none"
    /\ hmsg = Close
    /\ aborted = FALSE
    /\ status = NoStatus
    /\ result = Pending
    /\ said = [phase |-> "idle", resp |-> None, err |-> "none"]
    /\ awaiting = {}

-----------------------------------------------------------------------------
(* The caller.                                                             *)

\* Going on although the store is locked.
LockStoreAnyway(who) == store' = who

\* store.lock()
LockStore(who) == store = "free" /\ store' = who

\* A channel with room for the latest message only.
DeliverLatest(m) == queue' = IF hpc = "ended" THEN queue ELSE <<m>>

\* Sending on the channel; the message is lost if the handler has dropped rx.
Deliver(m) == queue' = IF hpc = "ended" THEN queue ELSE Append(queue, m)

\* Without Drop for WasmtimeCallContext: the channel and the task live on.
FinishLeakingContext(r) ==
    /\ pc' = "done"
    /\ result' = r
    /\ UNCHANGED <<queue, aborted>>

\* The end of a call that owns a context: Drop for WasmtimeCallContext sends
\* Close and aborts the handler task (see Aborted); the result is returned.
Finish(r) ==
    /\ pc' = "done"
    /\ result' = r
    /\ aborted' = TRUE
    /\ Deliver(Close)

\* WasmtimeEngineProvider::new_context: the instance exists and the handler
\* task has been spawned.
NewContext ==
    /\ pc = "start"
    /\ pc' = "context"
    /\ hpc' = "recv"
    /\ UNCHANGED <<stateVars, mode, starter, inv, code, result, aborted,
                   store, hostCallVars, queue, hmsg, status, guestVars>>

\* Instantiation fails, or the guest does not export the callback.
ContextFails ==
    /\ pc = "start"
    /\ pc' = "done"
    /\ result' = ErrResult("context")
    /\ UNCHANGED <<stateVars, mode, starter, inv, code, aborted, store,
                   hostCallVars, handlerVars, status, guestVars>>

\* Running the loop of init() once too often.
AfterStarterLate == IF starter = Starts THEN "created" ELSE "context"

AfterStarter == IF starter + 1 = Starts THEN "created" ELSE "context"

\* init(): a starter that the guest exports is called with the store locked.
EnterStarter ==
    /\ pc = "context"
    /\ LockStore("caller")
    /\ pc' = "starting"
    /\ UNCHANGED <<stateVars, mode, starter, inv, code, result, aborted,
                   hostCallVars, handlerVars, status, guestVars>>

\* init(): a starter that the guest does not export is skipped.
SkipStarter ==
    /\ pc = "context"
    /\ store = "free"
    /\ starter' = starter + 1
    /\ pc' = AfterStarter
    /\ UNCHANGED <<stateVars, mode, inv, code, result, aborted, store,
                   hostCallVars, handlerVars, status, guestVars>>

StarterReturns ==
    /\ pc = "starting"
    /\ MayLeave
    /\ store' = "free"
    /\ starter' = starter + 1
    /\ pc' = AfterStarter
    /\ UNCHANGED <<stateVars, mode, inv, code, result, aborted, hostCallVars,
                   handlerVars, status, guestVars>>

\* InitializationFailed leaves WapcCallContext::new, which drops the context.
StarterTraps ==
    /\ pc = "starting"
    /\ InGuest
    /\ store' = "free"
    /\ Finish(ErrResult("init"))
    /\ UNCHANGED <<stateVars, mode, starter, inv, code, hostCallVars, hpc,
                   hmsg, status, guestVars>>

\* new_invocation, after the yield_now of an asynchronous call.
Invoke ==
    /\ pc = "created"
    /\ NewInvocation
    /\ inv' = call_index
    /\ pc' = "invoke"
    /\ UNCHANGED <<mode, starter, code, result, aborted, store, hostCallVars,
                   handlerVars, status, guestVars>>

\* call() and call_async() lock the store and enter the guest.
EnterCall ==
    /\ pc = "invoke"
    /\ LockStore("caller")
    /\ pc' = "call"
    /\ said' = [said EXCEPT !.phase = "working"]
    /\ UNCHANGED <<stateVars, mode, starter, inv, code, result, aborted,
                   hostCallVars, handlerVars, status, awaiting>>

\* GuestCallNotFound, AsyncGuestCallNotFound.
ExportMissing ==
    /\ pc = "invoke"
    /\ store = "free"
    /\ Finish(ErrResult("not_found"))
    /\ UNCHANGED <<stateVars, mode, starter, inv, code, store, hostCallVars,
                   hpc, hmsg, status, guestVars>>

\* __guest_call returns c.
CallReturns(c) ==
    /\ pc = "call"
    /\ mode = "sync"
    /\ MayLeave
    /\ store' = "free"
    /\ code' = c
    /\ pc' = "take"
    /\ UNCHANGED <<stateVars, mode, starter, inv, result, aborted,
                   hostCallVars, handlerVars, status, guestVars>>

\* __guest_call traps: the trap becomes the guest error and the result is 0.
CallTraps ==
    /\ pc = "call"
    /\ mode = "sync"
    /\ InGuest
    /\ store' = "free"
    /\ calls' = set_guest_error(calls, inv, "trap")
    /\ said' = [said EXCEPT !.err = "trap"]
    /\ code' = 0
    /\ pc' = "take"
    /\ UNCHANGED <<call_index, mode, starter, inv, result, aborted,
                   hostCallVars, handlerVars, status, awaiting>>

\* take_state(index).unwrap() and the two arms.
TakeState ==
    /\ pc = "take"
    /\ calls' = Remove(calls, inv)
    /\ said' = [said EXCEPT !.phase = IF code = 0 THEN "failed"
                                                  ELSE "succeeded"]
    /\ Finish(IF inv \notin DOMAIN calls THEN ErrResult("panic")
              ELSE IF code = 0 THEN FailureArm(calls[inv])
                               ELSE SuccessArm(calls[inv]))
    /\ UNCHANGED <<call_index, mode, starter, inv, code, store, hostCallVars,
                   hpc, hmsg, status, awaiting>>

\* __async_guest_call returns: the caller awaits the oneshot.
AsyncCallReturns ==
    /\ pc = "call"
    /\ mode = "async"
    /\ MayLeave
    /\ store' = "free"
    /\ pc' = "await"
    /\ UNCHANGED <<stateVars, mode, starter, inv, code, result, aborted,
                   hostCallVars, handlerVars, status, guestVars>>

\* Completing successful invocations only.
FinishSuccess(t, c) ==
    /\ calls' = IF c = 0 THEN t ELSE Remove(t, inv)
    /\ status' = IF c = 0 THEN status ELSE FinishStatus(t, inv, c, status)

\* finish_guest_invocation(inv, c) on table t, and the guest's own view of it.
FinishInvocation(t, c) ==
    /\ calls' = Remove(t, inv)
    /\ status' = FinishStatus(t, inv, c, status)

\* __async_guest_call traps: set_guest_error, then set_guest_call_complete
\* with code 0 and an empty response, still under the store lock.
AsyncCallTraps ==
    /\ pc = "call"
    /\ mode = "async"
    /\ InGuest
    /\ store' = "free"
    /\ LET t == set_guest_error(calls, inv, "trap")
       IN  FinishInvocation(set_guest_response(t, inv, Empty), 0)
    /\ said' = IF HasInvocation
               THEN [phase |-> "failed", resp |-> Empty, err |-> "trap"]
               ELSE said
    /\ pc' = "await"
    /\ UNCHANGED <<call_index, mode, starter, inv, code, result, aborted,
                   hostCallVars, handlerVars, awaiting>>

\* rx.await yields the status; Complete is handled as a failure and Error as
\* a success, the meaning finish_guest_invocation gives them.
Receive ==
    /\ pc = "await"
    /\ status.tag # "None"
    /\ Finish(IF status.tag = "Complete" THEN FailureArm(status.state)
                                         ELSE SuccessArm(status.state))
    /\ UNCHANGED <<stateVars, mode, starter, inv, code, store, hostCallVars,
                   hpc, hmsg, status, guestVars>>

\* The future of call_async is dropped where it is suspended: before its first
\* poll, at yield_now, or at rx.await.
Cancel ==
    /\ "cancel" \in Faults
    /\ mode = "async"
    /\ pc \in {"created", "await"} \/ (pc = "context" /\ starter = 0)
    /\ Finish(ErrResult("cancelled"))
    /\ UNCHANGED <<stateVars, mode, starter, inv, code, store, hostCallVars,
                   hpc, hmsg, status, guestVars>>

\* The panic unwinds through the guest and the call, which drops the guard of
\* the store and the context.
CallPanics ==
    /\ "call_panic" \in Faults
    /\ pc \in {"starting", "call"}
    /\ store' = "free"
    /\ syncCall' = 0
    /\ Finish(ErrResult("host_panic"))
    /\ UNCHANGED <<stateVars, mode, starter, inv, code, tasks, hpc, hmsg,
                   status, guestVars>>

Caller ==
    \/ NewContext \/ ContextFails
    \/ EnterStarter \/ SkipStarter \/ StarterReturns \/ StarterTraps
    \/ Invoke \/ EnterCall \/ ExportMissing
    \/ \E c \in 0..1 : CallReturns(c)
    \/ CallTraps \/ TakeState
    \/ AsyncCallReturns \/ AsyncCallTraps \/ Receive

-----------------------------------------------------------------------------
(* The guest, through the import functions.  __guest_request,              *)
(* __host_response and __host_error only read the table; what they find is *)
(* the subject of the invariants.                                          *)

\* __host_call: the id is drawn and the callback runs on the guest's stack.
HostCall ==
    /\ InGuest
    /\ HostCallsMade < MaxHostCalls
    /\ NewHostCall
    /\ syncCall' = call_index
    /\ UNCHANGED <<callerVars, store, tasks, handlerVars, status, guestVars>>

\* The callback has answered: the guest is told the id, or 0.
HostCallReturns(ok) ==
    /\ syncCall # 0
    /\ calls' = SetHostReply(calls, syncCall, ok)
    /\ syncCall' = 0
    /\ UNCHANGED <<call_index, callerVars, store, tasks, handlerVars, status,
                   said, awaiting>>

\* __async_host_call: the id is drawn, a task is spawned, the id is returned.
AsyncHostCall ==
    /\ InGuest
    /\ HostCallsMade < MaxHostCalls
    /\ NewHostCall
    /\ tasks' = Insert(tasks, call_index, "run")
    /\ awaiting' = awaiting \cup {call_index}
    /\ UNCHANGED <<callerVars, store, syncCall, handlerVars, status, said>>

\* __guest_response.
GuestResponse(p) ==
    /\ InGuest
    /\ said.phase # "idle"
    /\ calls' = set_guest_response(calls, inv, p)
    /\ said' = IF HasInvocation THEN [said EXCEPT !.resp = p] ELSE said
    /\ UNCHANGED <<call_index, callerVars, store, hostCallVars, handlerVars,
                   status, awaiting>>

\* __guest_error.
GuestError ==
    /\ InGuest
    /\ said.phase # "idle"
    /\ calls' = set_guest_error(calls, inv, "guest")
    /\ said' = IF HasInvocation THEN [said EXCEPT !.err = "guest"] ELSE said
    /\ UNCHANGED <<call_index, callerVars, store, hostCallVars, handlerVars,
                   status, awaiting>>

\* __guest_response_ready, once, in an asynchronous call.
GuestResponseReady(c) ==
    /\ InGuest
    /\ mode = "async"
    /\ HasInvocation
    /\ FinishInvocation(calls, c)
    /\ said' = [said EXCEPT !.phase = IF c = 0 THEN "failed" ELSE "succeeded"]
    /\ UNCHANGED <<call_index, callerVars, store, hostCallVars, handlerVars,
                   awaiting>>

Guest ==
    \/ HostCall
    \/ \E ok \in BOOLEAN : HostCallReturns(ok)
    \/ AsyncHostCall
    \/ \E p \in Payload : GuestResponse(p)
    \/ GuestError
    \/ \E c \in 0..1 : GuestResponseReady(c)

-----------------------------------------------------------------------------
(* The task of one asynchronous host call.                                 *)

\* The callback's future completes and its reply is stored under the id.
Resolve(id, ok) ==
    /\ tasks[id] = "run"
    /\ calls' = SetHostReply(calls, id, ok)
    /\ tasks' = [tasks EXCEPT ![id] = IF ok THEN "ok" ELSE "err"]
    /\ UNCHANGED <<call_index, callerVars, store, syncCall, handlerVars,
                   status, guestVars>>

\* callback(id, code)
Notify(id) ==
    /\ tasks[id] \in {"ok", "err"}
    /\ tasks' = [tasks EXCEPT ![id] = "done"]
    /\ Deliver(Message(id, HostCallCode(id, tasks[id] = "ok")))
    /\ UNCHANGED <<stateVars, callerVars, store, syncCall, hpc, hmsg, status,
                   guestVars>>

\* tokio confines the panic of a callback to its task.
CallbackPanics(id) ==
    /\ "callback_panic" \in Faults
    /\ tasks[id] = "run"
    /\ tasks' = [tasks EXCEPT ![id] = "panicked"]
    /\ UNCHANGED <<stateVars, callerVars, store, syncCall, handlerVars,
                   status, guestVars>>

Task(id) == (\E ok \in BOOLEAN : Resolve(id, ok)) \/ Notify(id)

-----------------------------------------------------------------------------
(* The handler task, make_async_hostcall_handler.                          *)

Recv ==
    /\ hpc = "recv"
    /\ queue # <<>>
    /\ Head(queue) # Close
    /\ hmsg' = Head(queue)
    /\ queue' = Tail(queue)
    /\ hpc' = "lock"
    /\ UNCHANGED <<stateVars, callerVars, store, hostCallVars, status,
                   guestVars>>

\* Close breaks the loop; rx and what is left in it are dropped.
Closed ==
    /\ hpc = "recv"
    /\ queue # <<>>
    /\ Head(queue) = Close
    /\ hpc' = "ended"
    /\ queue' = <<>>
    /\ UNCHANGED <<stateVars, callerVars, store, hostCallVars, hmsg, status,
                   guestVars>>

\* task.abort() takes effect where the task is suspended, at rx.recv().
Aborted ==
    /\ aborted
    /\ hpc = "recv"
    /\ hpc' = "ended"
    /\ queue' = <<>>
    /\ UNCHANGED <<stateVars, callerVars, store, hostCallVars, hmsg, status,
                   guestVars>>

\* store.lock() and the call of __host_call_response_ready.
Resume ==
    /\ hpc = "lock"
    /\ LockStore("handler")
    /\ hpc' = "resume"
    /\ awaiting' = awaiting \ {hmsg.id}
    /\ UNCHANGED <<stateVars, callerVars, hostCallVars, queue, hmsg, status,
                   said>>

ResumeReturns ==
    /\ hpc = "resume"
    /\ MayLeave
    /\ store' = "free"
    /\ hpc' = "recv"
    /\ UNCHANGED <<stateVars, callerVars, hostCallVars, queue, hmsg, status,
                   guestVars>>

\* The Err of func.call is discarded.
ResumeTraps ==
    /\ "resume_trap" \in Faults
    /\ hpc = "resume"
    /\ InGuest
    /\ store' = "free"
    /\ hpc' = "recv"
    /\ UNCHANGED <<stateVars, callerVars, hostCallVars, queue, hmsg, status,
                   guestVars>>

\* The panic unwinds through the guest and ends the handler task, and rx with
\* it; the oneshot's sender stays in the table.
ResumePanics ==
    /\ "resume_panic" \in Faults
    /\ hpc = "resume"
    /\ store' = "free"
    /\ syncCall' = 0
    /\ hpc' = "ended"
    /\ queue' = <<>>
    /\ UNCHANGED <<stateVars, callerVars, tasks, hmsg, status, guestVars>>

Handler == Recv \/ Closed \/ Aborted \/ Resume \/ ResumeReturns

-----------------------------------------------------------------------------
Next ==
    \/ Caller \/ Cancel \/ CallPanics
    \/ Guest
    \/ \E id \in DOMAIN tasks : Task(id) \/ CallbackPanics(id)
    \/ Handler \/ ResumeTraps \/ ResumePanics

Spec == Init /\ [][Next]_vars

\* The caller's thread, the handler and the tasks are scheduled by the
\* operating system and tokio; a frame of the guest ends, or the guest answers;
\* host callbacks answer.  Nothing is assumed of Cancel and of the faults.
Fairness ==
    /\ WF_vars(Caller)
    /\ WF_vars(Handler)
    /\ WF_vars(\E c \in 0..1 : GuestResponseReady(c))
    /\ WF_vars(\E ok \in BOOLEAN : HostCallReturns(ok))
    /\ WF_vars(\E id \in DOMAIN tasks : Task(id))

FairSpec == Spec /\ Fairness

-----------------------------------------------------------------------------
(* Safety.                                                                 *)

\* Wasm is single-threaded: the handler never calls the guest back while the
\* caller's thread runs it, whatever the two tasks interleave, because both
\* lock the store for the whole of the call (engine_provider.rs).
GuestNotReentered == ~(pc \in {"starting", "call"} /\ hpc = "resume")

\* A reply is in the table before the guest is called back for it, and the
\* code it is called back with tells which: __host_response(id) yields the
\* reply when the code is the id, __host_error(id) the error when it is 0.
Stored(m) ==
    /\ get_host_response(calls, m.id) = m.code
    /\ get_host_error(calls, m.id) = IF m.code = 0 THEN m.id ELSE 0

NotifiedIsStored ==
    /\ \A i \in 1..Len(queue) : queue[i] # Close => Stored(queue[i])
    /\ hpc \in {"lock", "resume"} => hmsg # Close /\ Stored(hmsg)

\* Where the notification of an asynchronous host call is: with its task
\* (-1), with the handler (0), or at these places of the channel.
Holders(id) ==
    (IF tasks[id] # "done" THEN {-1} ELSE {})
        \cup (IF hpc = "lock" /\ hmsg.id = id THEN {0} ELSE {})
        \cup {i \in 1..Len(queue) : queue[i].id = id}

\* No notification is lost and none is duplicated while the handler lives: a
\* host call the guest waits for is held in exactly one place, one it was
\* called back for is held nowhere.
NotifiedExactlyOnce ==
    hpc # "ended" =>
        /\ \A id \in awaiting : \E h \in -1..Len(queue) : Holders(id) = {h}
        /\ \A id \in DOMAIN tasks \ awaiting : Holders(id) = {}

\* As long as the guest has not answered, the invocation is in the table with
\* its request and the sender of its oneshot: __guest_request finds it, the
\* unwrap of take_state and the one of channel.take() succeed, and rx.await
\* cannot fail.  The answer takes it out, and only the answer sends.
OpenInvocationInTable ==
    /\ inv # 0 /\ said.phase \in {"idle", "working"} =>
           /\ get_guest_request(calls, inv)
           /\ calls[inv].channel
           /\ status = NoStatus
    /\ said.phase \in {"failed", "succeeded"} =>
           /\ inv \notin DOMAIN calls
           /\ mode = "async" => status.tag # "None"

\* What the guest's answer should amount to for the caller.
Answer ==
    IF said.phase = "succeeded" /\ said.resp # None THEN OkResult(said.resp)
    ELSE IF said.err # "none" THEN ErrResult(said.err)
    ELSE ErrResult(IF said.phase = "failed" THEN "no_message"
                                            ELSE "no_response")

\* The caller gets what the guest said last before it answered, be it in the
\* caller's frame or in a later one of the handler, or the error of a step
\* that came before the guest was called, or the panic of the host; nothing
\* that a late task, a late frame or a trap writes afterwards reaches it.
ResultMatchesGuest ==
    /\ result # Pending
    /\ result.err \notin {"context", "init", "not_found", "cancelled",
                          "host_panic"}
    => result = Answer

\* A reply of the host, once stored, is neither overwritten nor removed for as
\* long as the call's table exists: __host_response_len and __host_response
\* read the same value, whatever finishes or is called in between.
HostReplyStable ==
    [][\A id \in DOMAIN calls :
           calls[id].host_response # 0 \/ calls[id].host_error # 0 =>
               /\ get_host_response(calls', id) = get_host_response(calls, id)
               /\ get_host_error(calls', id) = get_host_error(calls, id)]_vars

-----------------------------------------------------------------------------
(* The host keeps its side of the protocol.                                *)

\* A synchronous call is answered by the end of its frame, and any call by a
\* panic of the host in it.
Unanswered ==
    /\ HasInvocation
    /\ ~(mode = "sync" /\ pc \in {"take", "done"})
    /\ result.err # "host_panic"

Protocol == INSTANCE GuestProtocol WITH
    Invocations <- 1..(MaxHostCalls + 1),
    HostCalls   <- 1..(MaxHostCalls + 1),
    running     <- pc \in {"starting", "call"} \/ hpc = "resume",
    open        <- IF Unanswered THEN {inv} ELSE {},
    answered    <- IF Unanswered \/ said.phase = "idle" THEN {} ELSE {inv},
    made        <- DOMAIN tasks,
    owed        <- awaiting

\* The host enters the guest with one invocation, never while it is running,
\* and calls it back once for every asynchronous host call that it has made,
\* and for no other: what WapcGuest assumes of a host.
KeepsProtocol == Protocol!Spec

-----------------------------------------------------------------------------
(* Liveness.                                                               *)

\* The guest waits for nothing but host callbacks that have panicked.
Abandoned ==
    /\ pc = "await" /\ HasInvocation
    /\ awaiting # {} /\ \A id \in awaiting : tasks[id] = "panicked"

\* WapcHost::call and ::call_async return, "either an error or an opaque reply
\* of bytes" (wapchost.rs), unless the guest has not answered and waits for
\* nothing but callbacks that have panicked, of which nobody notifies it: a
\* guest that does not wait for them, or for others as well, answers.
CallReturnsEventually == <>(pc = "done") \/ <>[]Abandoned

\* No handler task outlives its call for ever: once the context is dropped the
\* handler ends, even if it was calling the guest back at that moment.
HandlerEnds == pc = "done" ~> hpc \in {"none", "ended"}
=============================================================================
