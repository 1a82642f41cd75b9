--------------------------- MODULE WapcCallProofs ---------------------------
(***************************************************************************)
(* Theorems about WapcCall, for every set of payloads, every bound on host *)
(* calls and every set of faults.                                          *)
(***************************************************************************)
EXTENDS WapcCall, TLAPS

USE DEF Starts, LockStore, Deliver

\* HashMap::insert adds or replaces one entry and keeps the others.
LEMMA InsertType ==
    ASSUME NEW S, NEW t, t \in [DOMAIN t -> S], NEW id, NEW s \in S
    PROVE  /\ DOMAIN Insert(t, id, s) = DOMAIN t \cup {id}
           /\ Insert(t, id, s) \in [DOMAIN t \cup {id} -> S]
           /\ Insert(t, id, s)[id] = s
           /\ \A i \in DOMAIN t : i # id => Insert(t, id, s)[i] = t[i]
BY DEF Insert

\* HashMap::remove takes out one entry and keeps the others.
LEMMA RemoveType ==
    ASSUME NEW S, NEW t, t \in [DOMAIN t -> S], NEW id
    PROVE  /\ DOMAIN Remove(t, id) = DOMAIN t \ {id}
           /\ Remove(t, id) \in [DOMAIN t \ {id} -> S]
           /\ \A i \in DOMAIN t : i # id => Remove(t, id)[i] = t[i]
BY DEF Remove

\* CallState::new and the state of an invocation are call states; the latter
\* has its request and its sender.
LEMMA DefaultType ==
    /\ DefaultCallState \in CallState
    /\ InvocationState \in CallState
    /\ InvocationState.guest_request
    /\ InvocationState.channel
BY DEF DefaultCallState, InvocationState, CallState, GuestErrors

\* What the handler's channel carries is a message.
LEMMA MessageType ==
    /\ Close \in Messages
    /\ \A id, c \in Nat : Message(id, c) \in Messages
BY DEF Close, Message, Messages

\* The guest's setters change one field of an existing entry, never the ids.
LEMMA SettersType ==
    ASSUME NEW t, t \in [DOMAIN t -> CallState], NEW id,
           NEW r \in Payload, NEW e \in GuestErrors
    PROVE  /\ DOMAIN set_guest_response(t, id, r) = DOMAIN t
           /\ set_guest_response(t, id, r) \in [DOMAIN t -> CallState]
           /\ DOMAIN set_guest_error(t, id, e) = DOMAIN t
           /\ set_guest_error(t, id, e) \in [DOMAIN t -> CallState]
BY DEF set_guest_response, set_guest_error, CallState

\* Storing the reply of a host call keeps the table's ids and type.
LEMMA SetHostReplyType ==
    ASSUME NEW t, t \in [DOMAIN t -> CallState], NEW id \in Nat,
           NEW ok \in BOOLEAN
    PROVE  /\ DOMAIN SetHostReply(t, id, ok) = DOMAIN t
           /\ SetHostReply(t, id, ok) \in [DOMAIN t -> CallState]
BY DEF SetHostReply, CallState

\* finish_guest_invocation sends a call status or leaves the oneshot alone.
LEMMA FinishStatusType ==
    ASSUME NEW t, t \in [DOMAIN t -> CallState], NEW id, NEW c \in 0..1,
           NEW s \in CallStatus
    PROVE  FinishStatus(t, id, c, s) \in CallStatus
BY DEF FinishStatus, CallStatus, CallState

\* Both arms of the match on the guest's return code produce a result.
LEMMA ArmsType ==
    ASSUME NEW s \in CallState
    PROVE  /\ FailureArm(s) \in [ok : BOOLEAN, val : Payload \cup {None}, err : Errors]
           /\ SuccessArm(s) \in [ok : BOOLEAN, val : Payload \cup {None}, err : Errors]
BY DEF FailureArm, SuccessArm, OkResult, ErrResult, CallState, GuestErrors,
       Errors

-----------------------------------------------------------------------------
(* Type correctness and the discipline of the store mutex.                 *)

\* The store is locked by whoever runs the guest and by nobody else.  init()
\* goes through the starters once, which bounds starter.
Locking ==
    /\ pc \in {"start", "context", "starting"} => starter < Starts
    /\ pc = "start" => hpc = "none"
    /\ store = "caller" <=> pc \in {"starting", "call"}
    /\ store = "handler" <=> hpc = "resume"

\* A call starts well typed with a free store.
LEMMA InitTyped == Init => TypeOK /\ Locking
<1> SUFFICES ASSUME Init PROVE TypeOK /\ Locking
    OBVIOUS
<1>1. TableType /\ IdsType
    BY DEF Init, ModuleStateInit, TableType, IdsType
<1>2. ChannelType /\ CallerType
    <2>1. queue \in Seq(Messages) /\ hmsg \in Messages
        BY MessageType DEF Init
    <2>2. aborted \in BOOLEAN
        BY Zenon DEF Init
    <2> QED
        BY <2>1, <2>2 DEF Init, ChannelType, CallerType, PCs
<1>3. NoStatus \in CallStatus
    <2>1. DefaultCallState \in CallState
        BY DefaultType
    <2> QED
        BY <2>1 DEF NoStatus, CallStatus
<1>4. AnswerType
    BY <1>3 DEF Init, AnswerType, Pending, Errors, Said, GuestErrors
<1>5. Locking
    BY DEF Init, Locking
<1> QED
    BY <1>1, <1>2, <1>4, <1>5 DEF TypeOK

\* The actions that leave the table alone.
LEMMA TableUntouched ==
    ASSUME \/ NewContext \/ ContextFails \/ EnterStarter \/ SkipStarter
           \/ StarterReturns \/ StarterTraps \/ EnterCall \/ ExportMissing
           \/ (\E c \in 0..1 : CallReturns(c))
           \/ AsyncCallReturns \/ Receive \/ Cancel \/ CallPanics
           \/ (\E id \in DOMAIN tasks : Notify(id) \/ CallbackPanics(id))
           \/ Handler \/ ResumeTraps \/ ResumePanics
    PROVE  UNCHANGED <<calls, call_index>>
BY DEF NewContext, ContextFails, EnterStarter, SkipStarter, StarterReturns,
    StarterTraps, EnterCall, ExportMissing, CallReturns, AsyncCallReturns,
    Receive, Cancel, CallPanics, Notify, CallbackPanics, Handler, Recv, Closed,
    Aborted, Resume, ResumeReturns, ResumeTraps, ResumePanics, stateVars

\* Every step keeps the call table a map from ids to call states.
LEMMA NextTable == TypeOK /\ [Next]_vars => TableType'
<1> SUFFICES ASSUME TableType, IdsType, [Next]_vars PROVE TableType'
    BY DEF TypeOK
<1>1. CASE UNCHANGED <<calls, call_index>>
    BY <1>1 DEF TableType
<1>2. CASE Invoke
    BY <1>2, DefaultType DEF Invoke, NewInvocation, Insert, TableType
<1>3. CASE HostCall \/ AsyncHostCall
    BY <1>3, DefaultType
    DEF HostCall, AsyncHostCall, NewHostCall, init_host_call, Insert, TableType
<1>4. CASE CallTraps
    BY <1>4, SettersType, PayloadAssumption
    DEF CallTraps, TableType, GuestErrors
<1>5. CASE TakeState
    BY <1>5 DEF TakeState, Remove, TableType
<1>6. CASE AsyncCallTraps
    <2> DEFINE t == set_guest_error(calls, inv, "trap")
               u == set_guest_response(t, inv, Empty)
    <2>1. DOMAIN u = DOMAIN calls /\ u \in [DOMAIN u -> CallState]
        <3>1. DOMAIN t = DOMAIN calls /\ t \in [DOMAIN t -> CallState]
            BY SettersType, PayloadAssumption DEF TableType, GuestErrors
        <3> QED
            BY <3>1, SettersType, PayloadAssumption DEF GuestErrors
    <2>2. calls' = Remove(u, inv) /\ call_index' = call_index
        BY <1>6 DEF AsyncCallTraps, FinishInvocation
    <2> QED
        BY <2>1, <2>2 DEF Remove, TableType
<1>7. ASSUME NEW ok \in BOOLEAN, HostCallReturns(ok) PROVE TableType'
    BY <1>7, SetHostReplyType DEF HostCallReturns, TableType, IdsType
<1>8. ASSUME NEW p \in Payload, GuestResponse(p) PROVE TableType'
    BY <1>8, SettersType DEF GuestResponse, TableType, GuestErrors
<1>9. CASE GuestError
    BY <1>9, SettersType, PayloadAssumption
    DEF GuestError, TableType, GuestErrors
<1>10. ASSUME NEW c \in 0..1, GuestResponseReady(c) PROVE TableType'
    BY <1>10 DEF GuestResponseReady, FinishInvocation, Remove, TableType
<1>11. ASSUME NEW id \in DOMAIN tasks, NEW ok \in BOOLEAN, Resolve(id, ok)
       PROVE  TableType'
    BY <1>11, SetHostReplyType DEF Resolve, TableType, IdsType
<1> QED
    BY <1>1, <1>2, <1>3, <1>4, <1>5, <1>6, <1>7, <1>8, <1>9, <1>10, <1>11,
       TableUntouched
    DEF Next, Caller, Guest, Task, vars

\* Every step keeps the ids of the invocation, the host calls and the tasks
\* among the ids that were given out.
LEMMA NextIds == TypeOK /\ [Next]_vars => IdsType'
<1> SUFFICES ASSUME TableType, IdsType, [Next]_vars PROVE IdsType'
    BY DEF TypeOK
<1> USE DEF stateVars, callerVars, hostCallVars, guestVars
<1>1. CASE UNCHANGED <<call_index, inv, syncCall, tasks, awaiting>>
    BY <1>1 DEF IdsType
<1>2. CASE Invoke
    BY <1>2 DEF Invoke, NewInvocation, TableType, IdsType
<1>3. CASE HostCall
    BY <1>3 DEF HostCall, NewHostCall, TableType, IdsType
<1>4. ASSUME NEW ok \in BOOLEAN, HostCallReturns(ok) PROVE IdsType'
    BY <1>4 DEF HostCallReturns, HostCallCode, TableType, IdsType
<1>5. CASE AsyncHostCall
    BY <1>5
    DEF AsyncHostCall, NewHostCall, Insert, TableType, IdsType, TaskStates
<1>6. ASSUME NEW id \in DOMAIN tasks,
             (\E ok \in BOOLEAN : Resolve(id, ok)) \/ Notify(id) \/ CallbackPanics(id)
      PROVE  IdsType'
    BY <1>6 DEF Resolve, Notify, CallbackPanics, IdsType, TaskStates
<1>7. CASE Resume
    BY <1>7 DEF Resume, IdsType
<1>8. CASE CallPanics \/ ResumePanics
    BY <1>8 DEF CallPanics, ResumePanics, TableType, IdsType
<1> QED
    <2>1. \/ UNCHANGED <<call_index, inv, syncCall, tasks, awaiting>>
          \/ Invoke \/ HostCall \/ (\E ok \in BOOLEAN : HostCallReturns(ok))
          \/ AsyncHostCall \/ Resume \/ CallPanics \/ ResumePanics
          \/ \E id \in DOMAIN tasks : Task(id) \/ CallbackPanics(id)
        BY DEF Next, Caller, Guest, Handler, vars, NewContext, ContextFails,
            EnterStarter, SkipStarter, StarterReturns, StarterTraps, EnterCall,
            ExportMissing, CallReturns, CallTraps, TakeState, AsyncCallReturns,
            AsyncCallTraps, Receive, Cancel, GuestResponse, GuestError,
            GuestResponseReady, Recv, Closed, Aborted, ResumeReturns,
            ResumeTraps
    <2> QED
        BY <1>1, <1>2, <1>3, <1>4, <1>5, <1>6, <1>7, <1>8, <2>1 DEF Task

\* Dropping the context appends at most the Close message.
LEMMA FinishChannel ==
    ASSUME ChannelType, NEW r, Finish(r)
    PROVE  queue' \in Seq(Messages) /\ aborted' \in BOOLEAN
BY MessageType DEF ChannelType, Finish

\* Every step keeps the channel a sequence of messages.
LEMMA NextChannel == TypeOK /\ [Next]_vars => ChannelType'
<1> SUFFICES ASSUME IdsType, ChannelType, [Next]_vars PROVE ChannelType'
    BY DEF TypeOK
<1> USE DEF handlerVars, callerVars
<1>1. CASE UNCHANGED <<queue, hpc, hmsg, aborted>>
    BY <1>1 DEF ChannelType
<1>2. ASSUME NEW r, Finish(r), UNCHANGED <<hpc, hmsg>> PROVE ChannelType'
    BY <1>2, FinishChannel DEF ChannelType
<1>3. CASE NewContext
    BY <1>3 DEF NewContext, ChannelType
<1>4. ASSUME NEW id \in DOMAIN tasks, Notify(id) PROVE ChannelType'
    <2>1. id \in Nat
        BY DEF IdsType
    <2>2. Message(id, HostCallCode(id, tasks[id] = "ok")) \in Messages
        BY <2>1, MessageType DEF HostCallCode
    <2> QED
        BY <1>4, <2>2 DEF Notify, ChannelType
<1>5. CASE Recv
    BY <1>5 DEF Recv, ChannelType
<1>6. CASE \/ Closed \/ Aborted \/ Resume \/ ResumeReturns \/ ResumeTraps
           \/ ResumePanics
    <2> USE DEF ResumePanics
    <2>1. hmsg' = hmsg /\ aborted' = aborted
        BY <1>6 DEF Closed, Aborted, Resume, ResumeReturns, ResumeTraps
    <2>2. queue' = queue \/ queue' = <<>>
        BY <1>6 DEF Closed, Aborted, Resume, ResumeReturns, ResumeTraps
    <2>3. hpc' \in {"recv", "resume", "ended"}
        BY <1>6 DEF Closed, Aborted, Resume, ResumeReturns, ResumeTraps
    <2>4. aborted' \in BOOLEAN
        BY <2>1, Zenon DEF ChannelType
    <2>5. queue \in Seq(Messages) /\ hmsg \in Messages
        BY DEF ChannelType
    <2>6. <<>> \in Seq(Messages)
        OBVIOUS
    <2>7. queue' \in Seq(Messages) /\ hmsg' \in Messages
        BY <2>1, <2>2, <2>5, <2>6, Zenon
    <2> QED
        BY <2>3, <2>4, <2>7 DEF ChannelType
<1> QED
    <2>1. \/ UNCHANGED <<queue, hpc, hmsg, aborted>>
          \/ UNCHANGED <<hpc, hmsg>> /\ \E r : Finish(r)
          \/ NewContext \/ (\E id \in DOMAIN tasks : Notify(id))
          \/ Handler \/ ResumeTraps \/ ResumePanics
        BY DEF Next, Caller, Guest, Task, vars, ContextFails, EnterStarter,
            SkipStarter, StarterReturns, StarterTraps, Invoke, EnterCall,
            ExportMissing, CallReturns, CallTraps, TakeState, AsyncCallReturns,
            AsyncCallTraps, Receive, Cancel, CallPanics, HostCall,
            HostCallReturns, AsyncHostCall, GuestResponse, GuestError, GuestResponseReady,
            Resolve, CallbackPanics
    <2> QED
        BY <1>1, <1>2, <1>3, <1>4, <1>5, <1>6, <2>1 DEF Handler

\* Every step keeps the caller's state typed; the store discipline bounds the
\* number of starters that init() has gone through.
LEMMA NextCaller == TypeOK /\ Locking /\ [Next]_vars => CallerType'
<1> SUFFICES ASSUME CallerType, Locking, [Next]_vars PROVE CallerType'
    BY DEF TypeOK
<1> USE DEF callerVars, CallerType
<1>1. CASE UNCHANGED <<mode, pc, starter, store, code>>
    BY <1>1
<1>2. CASE \/ NewContext \/ ContextFails \/ EnterStarter \/ SkipStarter
           \/ StarterReturns
    BY <1>2 DEF NewContext, ContextFails, EnterStarter, SkipStarter,
        StarterReturns, AfterStarter, Locking, PCs
<1>3. CASE \/ StarterTraps \/ ExportMissing \/ TakeState \/ Receive \/ Cancel
           \/ CallPanics
    BY <1>3 DEF StarterTraps, ExportMissing, TakeState, Receive, Cancel,
        CallPanics, Finish, PCs
<1>4. CASE \/ Invoke \/ EnterCall \/ (\E c \in 0..1 : CallReturns(c))
           \/ CallTraps \/ AsyncCallReturns \/ AsyncCallTraps
    BY <1>4 DEF Invoke, EnterCall, CallReturns, CallTraps, AsyncCallReturns,
        AsyncCallTraps, PCs
<1>5. CASE Resume \/ ResumeReturns \/ ResumeTraps \/ ResumePanics
    BY <1>5 DEF Resume, ResumeReturns, ResumeTraps, ResumePanics
<1> QED
    <2>1. CASE \/ Guest \/ Recv \/ Closed \/ Aborted \/ UNCHANGED vars
               \/ (\E id \in DOMAIN tasks : Task(id) \/ CallbackPanics(id))
        <3>1. UNCHANGED <<mode, pc, starter, store, code>>
            BY <2>1 DEF Guest, Task, vars, HostCall, HostCallReturns,
                AsyncHostCall, GuestResponse, GuestError, GuestResponseReady,
                Resolve, Notify, CallbackPanics, Recv, Closed, Aborted
        <3> QED
            BY <1>1, <3>1
    <2> QED
        BY <1>2, <1>3, <1>4, <1>5, <2>1 DEF Next, Caller, Handler

\* An error is a result.
LEMMA ErrType ==
    ASSUME NEW e \in Errors
    PROVE  ErrResult(e)
               \in [ok : BOOLEAN, val : Payload \cup {None}, err : Errors]
BY DEF ErrResult

\* Every step keeps the oneshot, the result and the guest's record typed.
LEMMA NextAnswer == TypeOK /\ [Next]_vars => AnswerType'
<1> SUFFICES ASSUME TableType, AnswerType, [Next]_vars PROVE AnswerType'
    BY DEF TypeOK
<1> USE DEF callerVars, guestVars
<1> DEFINE R == [ok : BOOLEAN, val : Payload \cup {None}, err : Errors]
<1>1. CASE UNCHANGED <<status, result, said>>
    BY <1>1 DEF AnswerType
<1>2. CASE \/ ContextFails \/ StarterTraps \/ ExportMissing \/ Cancel
           \/ CallPanics
    <2> USE DEF ContextFails, StarterTraps, ExportMissing, Cancel, CallPanics
    <2>1. UNCHANGED <<status, said>>
        BY <1>2
    <2>2. \E e \in Errors : result' = ErrResult(e)
        BY <1>2 DEF Finish, Errors
    <2> QED
        BY <2>1, <2>2, ErrType DEF AnswerType
<1>3. CASE EnterCall
    BY <1>3 DEF EnterCall, AnswerType, Said
<1>4. CASE CallTraps
    BY <1>4 DEF CallTraps, AnswerType, Said, GuestErrors
<1>5. CASE TakeState
    <2>1. said' \in Said /\ status' = status
        BY <1>5 DEF TakeState, AnswerType, Said
    <2>2. result' \in R
        <3>1. CASE inv \notin DOMAIN calls
            BY <1>5, <3>1, ErrType DEF TakeState, Finish, Errors
        <3>2. CASE inv \in DOMAIN calls
            <4>1. calls[inv] \in CallState
                BY <3>2 DEF TableType
            <4> QED
                BY <1>5, <3>2, <4>1, ArmsType DEF TakeState, Finish
        <3> QED
            BY <3>1, <3>2
    <2> QED
        BY <2>1, <2>2 DEF AnswerType
<1>6. CASE AsyncCallTraps
    <2> DEFINE t == set_guest_error(calls, inv, "trap")
               u == set_guest_response(t, inv, Empty)
    <2>1. u \in [DOMAIN u -> CallState]
        <3>1. t \in [DOMAIN t -> CallState]
            BY SettersType, PayloadAssumption DEF TableType, GuestErrors
        <3> QED
            BY <3>1, SettersType, PayloadAssumption DEF GuestErrors
    <2>2. status' = FinishStatus(u, inv, 0, status)
        BY <1>6 DEF AsyncCallTraps, FinishInvocation
    <2>3. status' \in CallStatus
        <3>1. status \in CallStatus /\ 0 \in 0..1
            BY DEF AnswerType
        <3> HIDE DEF u
        <3> QED
            BY <2>1, <2>2, <3>1, FinishStatusType
    <2>4. said' \in Said /\ result' = result
        BY <1>6, PayloadAssumption
        DEF AsyncCallTraps, AnswerType, Said, GuestErrors
    <2> QED
        BY <2>3, <2>4 DEF AnswerType
<1>7. CASE Receive
    <2>1. status.state \in CallState
        BY DEF AnswerType, CallStatus
    <2>2. result' \in R
        BY <1>7, <2>1, ArmsType DEF Receive, Finish
    <2> QED
        BY <1>7, <2>2 DEF Receive, AnswerType
<1>8. ASSUME NEW p \in Payload, GuestResponse(p) PROVE AnswerType'
    BY <1>8 DEF GuestResponse, AnswerType, Said
<1>9. CASE GuestError
    BY <1>9 DEF GuestError, AnswerType, Said, GuestErrors
<1>10. ASSUME NEW c \in 0..1, GuestResponseReady(c) PROVE AnswerType'
    <2>1. status' \in CallStatus
        BY <1>10, FinishStatusType
        DEF GuestResponseReady, FinishInvocation, TableType, AnswerType
    <2> QED
        BY <1>10, <2>1 DEF GuestResponseReady, AnswerType, Said
<1> QED
    <2>1. CASE \/ NewContext \/ EnterStarter \/ SkipStarter \/ StarterReturns
               \/ Invoke \/ (\E c \in 0..1 : CallReturns(c))
               \/ AsyncCallReturns \/ HostCall \/ AsyncHostCall
               \/ (\E ok \in BOOLEAN : HostCallReturns(ok))
               \/ (\E id \in DOMAIN tasks : Task(id) \/ CallbackPanics(id))
               \/ Handler \/ ResumeTraps \/ ResumePanics \/ UNCHANGED vars
        <3>1. UNCHANGED <<status, result, said>>
            BY <2>1 DEF NewContext, EnterStarter, SkipStarter, StarterReturns,
                Invoke, CallReturns, AsyncCallReturns, HostCall, AsyncHostCall,
                HostCallReturns, Task, Resolve, Notify, CallbackPanics,
                Handler, Recv, Closed, Aborted, Resume, ResumeReturns,
                ResumeTraps, ResumePanics, vars
        <3> QED
            BY <1>1, <3>1
    <2> QED
        BY <1>2, <1>3, <1>4, <1>5, <1>6, <1>7, <1>8, <1>9, <1>10, <2>1
        DEF Next, Caller, Guest

\* Every step keeps the store locked by exactly the one that runs the guest.
LEMMA NextLocking == TypeOK /\ Locking /\ [Next]_vars => Locking'
<1> SUFFICES ASSUME CallerType, Locking, [Next]_vars PROVE Locking'
    BY DEF TypeOK
<1> USE DEF callerVars, handlerVars
<1>1. CASE UNCHANGED <<pc, starter, store, hpc>>
    BY <1>1 DEF Locking
<1>2. CASE \/ NewContext \/ ContextFails \/ EnterStarter \/ SkipStarter
           \/ StarterReturns
    BY <1>2 DEF NewContext, ContextFails, EnterStarter, SkipStarter,
        StarterReturns, AfterStarter, Locking, CallerType
<1>3. CASE \/ StarterTraps \/ ExportMissing \/ TakeState \/ Receive \/ Cancel
           \/ CallPanics
    BY <1>3 DEF StarterTraps, ExportMissing, TakeState, Receive, Cancel,
        CallPanics, Finish, Locking
<1>4. CASE \/ Invoke \/ EnterCall \/ (\E c \in 0..1 : CallReturns(c))
           \/ CallTraps \/ AsyncCallReturns \/ AsyncCallTraps
    BY <1>4 DEF Invoke, EnterCall, CallReturns, CallTraps, AsyncCallReturns,
        AsyncCallTraps, Locking
<1>5. CASE \/ Recv \/ Closed \/ Aborted \/ Resume \/ ResumeReturns
           \/ ResumeTraps \/ ResumePanics
    BY <1>5 DEF Recv, Closed, Aborted, Resume, ResumeReturns, ResumeTraps,
        ResumePanics, Locking
<1> QED
    <2>1. CASE \/ Guest \/ UNCHANGED vars
               \/ (\E id \in DOMAIN tasks : Task(id) \/ CallbackPanics(id))
        <3>1. UNCHANGED <<pc, starter, store, hpc>>
            BY <2>1 DEF Guest, Task, vars, HostCall, HostCallReturns,
                AsyncHostCall, GuestResponse, GuestError, GuestResponseReady,
                Resolve, Notify, CallbackPanics
        <3> QED
            BY <1>1, <3>1
    <2> QED
        BY <1>2, <1>3, <1>4, <1>5, <2>1 DEF Next, Caller, Handler

\* Every reachable state of a call, whatever the guest and the callbacks do,
\* is well typed: ids below call_index, messages of the channel's type, a
\* starter count within REQUIRED_STARTS.
THEOREM TypeCorrect == Spec => [](TypeOK /\ Locking)
<1>1. TypeOK /\ Locking /\ [Next]_vars => (TypeOK /\ Locking)'
    BY NextTable, NextIds, NextChannel, NextCaller, NextAnswer, NextLocking
    DEF TypeOK
<1> QED
    BY <1>1, InitTyped, PTL DEF Spec

\* The caller's thread and the handler task never run the guest at the same
\* time (engine_provider.rs locks the store around every call of the guest).
THEOREM Exclusion == Spec => []GuestNotReentered
<1>1. TypeOK /\ Locking => GuestNotReentered
    BY DEF Locking, GuestNotReentered
<1> QED
    BY <1>1, TypeCorrect, PTL

-----------------------------------------------------------------------------
(* The replies of the host in the table.                                   *)

NoReply(id) == get_host_response(calls, id) = 0 /\ get_host_error(calls, id) = 0

\* The reply under an id goes with the state of the host call that drew it.
TaskReply(id) ==
    /\ id \in DOMAIN calls
    /\ id # inv /\ id # syncCall
    /\ tasks[id] \in {"run", "panicked"} => NoReply(id)
    /\ tasks[id] = "ok" =>
           get_host_response(calls, id) = id /\ get_host_error(calls, id) = 0
    /\ tasks[id] = "err" =>
           get_host_response(calls, id) = 0 /\ get_host_error(calls, id) = id

Replies ==
    /\ \A id \in DOMAIN tasks : TaskReply(id)
    /\ NoReply(inv)
    /\ NoReply(syncCall)
    /\ syncCall # 0 => syncCall # inv

SameReplies(t, u) ==
    \A i : /\ get_host_response(t, i) = get_host_response(u, i)
           /\ get_host_error(t, i) = get_host_error(u, i)

\* The guest's setters write no host reply.
LEMMA SettersKeepReplies ==
    ASSUME NEW t, t \in [DOMAIN t -> CallState], NEW id,
           NEW r \in Payload, NEW e \in GuestErrors
    PROVE  /\ SameReplies(set_guest_response(t, id, r), t)
           /\ SameReplies(set_guest_error(t, id, e), t)
BY DEF SameReplies, set_guest_response, set_guest_error, get_host_response,
    get_host_error, CallState

\* Taking out an entry without a host reply removes no reply.
LEMMA RemoveKeepsReplies ==
    ASSUME NEW t, t \in [DOMAIN t -> CallState], NEW id,
           get_host_response(t, id) = 0, get_host_error(t, id) = 0
    PROVE  SameReplies(Remove(t, id), t)
BY DEF SameReplies, Remove, get_host_response, get_host_error

\* A new entry under an unused id changes no reply.
LEMMA InsertKeepsReplies ==
    ASSUME NEW t, t \in [DOMAIN t -> CallState], NEW id, id \notin DOMAIN t
    PROVE  /\ SameReplies(Insert(t, id, DefaultCallState), t)
           /\ SameReplies(Insert(t, id, InvocationState), t)
BY DEF SameReplies, Insert, DefaultCallState, InvocationState,
    get_host_response, get_host_error

\* Storing a reply sets that reply and keeps all the others.
LEMMA SetHostReplyReplies ==
    ASSUME NEW t, t \in [DOMAIN t -> CallState], NEW id, NEW ok \in BOOLEAN
    PROVE  /\ \A i : i # id =>
                  /\ get_host_response(SetHostReply(t, id, ok), i)
                         = get_host_response(t, i)
                  /\ get_host_error(SetHostReply(t, id, ok), i)
                         = get_host_error(t, i)
           /\ id \in DOMAIN t /\ ok =>
                  /\ get_host_response(SetHostReply(t, id, ok), id) = id
                  /\ get_host_error(SetHostReply(t, id, ok), id)
                         = get_host_error(t, id)
           /\ id \in DOMAIN t /\ ~ok =>
                  /\ get_host_error(SetHostReply(t, id, ok), id) = id
                  /\ get_host_response(SetHostReply(t, id, ok), id)
                         = get_host_response(t, id)
BY DEF SetHostReply, get_host_response, get_host_error, CallState

\* Only the end of a host call changes what __host_response and __host_error
\* find: an invocation never has a reply and a new id has none yet.
LEMMA RepliesKept ==
    ASSUME TypeOK, Replies, [Next]_vars
    PROVE  \/ SameReplies(calls', calls)
           \/ \E ok \in BOOLEAN : HostCallReturns(ok)
           \/ \E id \in DOMAIN tasks, ok \in BOOLEAN : Resolve(id, ok)
<1>0. calls \in [DOMAIN calls -> CallState] /\ call_index \notin DOMAIN calls
    BY DEF TypeOK, TableType
<1>1. CASE UNCHANGED <<calls, call_index>>
    BY <1>1 DEF SameReplies
<1>2. CASE Invoke
    BY <1>0, <1>2, InsertKeepsReplies DEF Invoke, NewInvocation
<1>3. CASE HostCall \/ AsyncHostCall
    BY <1>0, <1>3, InsertKeepsReplies
    DEF HostCall, AsyncHostCall, NewHostCall, init_host_call
<1>4. CASE CallTraps \/ GuestError
    BY <1>0, <1>4, SettersKeepReplies, PayloadAssumption
    DEF CallTraps, GuestError, GuestErrors
<1>5. ASSUME NEW p \in Payload, GuestResponse(p)
      PROVE  SameReplies(calls', calls)
    BY <1>0, <1>5, SettersKeepReplies DEF GuestResponse, GuestErrors
<1>6. CASE TakeState
    BY <1>0, <1>6, RemoveKeepsReplies DEF TakeState, Replies, NoReply
<1>7. ASSUME NEW c \in 0..1, GuestResponseReady(c)
      PROVE  SameReplies(calls', calls)
    BY <1>0, <1>7, RemoveKeepsReplies
    DEF GuestResponseReady, FinishInvocation, Replies, NoReply
<1>8. CASE AsyncCallTraps
    <2> DEFINE t == set_guest_error(calls, inv, "trap")
               u == set_guest_response(t, inv, Empty)
    <2>1. t \in [DOMAIN t -> CallState] /\ SameReplies(t, calls)
        BY <1>0, SettersType, SettersKeepReplies, PayloadAssumption
        DEF GuestErrors
    <2>2. u \in [DOMAIN u -> CallState] /\ SameReplies(u, t)
        <3> HIDE DEF t
        <3> QED
            BY <2>1, SettersType, SettersKeepReplies, PayloadAssumption
            DEF GuestErrors
    <2>3. calls' = Remove(u, inv)
        BY <1>8 DEF AsyncCallTraps, FinishInvocation
    <2> HIDE DEF t, u
    <2>4. get_host_response(u, inv) = 0 /\ get_host_error(u, inv) = 0
        BY <2>1, <2>2 DEF SameReplies, Replies, NoReply
    <2>5. SameReplies(Remove(u, inv), u)
        BY <2>2, <2>4, RemoveKeepsReplies
    <2> QED
        BY <2>1, <2>2, <2>3, <2>5 DEF SameReplies
<1> QED
    BY <1>1, <1>2, <1>3, <1>4, <1>5, <1>6, <1>7, <1>8, TableUntouched
    DEF Next, Caller, Guest, Task, vars

\* A host call stays in the table: only the invocation is ever taken out.
LEMMA HostCallsStay ==
    ASSUME TypeOK, [Next]_vars, NEW i \in DOMAIN calls, i # inv
    PROVE  i \in DOMAIN calls'
<1>0. calls \in [DOMAIN calls -> CallState]
    BY DEF TypeOK, TableType
<1>1. CASE UNCHANGED <<calls, call_index>>
    BY <1>1
<1>2. CASE Invoke \/ HostCall \/ AsyncHostCall
    BY <1>2 DEF Invoke, NewInvocation, HostCall, AsyncHostCall, NewHostCall,
        init_host_call, Insert
<1>3. CASE CallTraps \/ GuestError
    BY <1>3 DEF CallTraps, GuestError, set_guest_error
<1>4. ASSUME NEW p \in Payload, GuestResponse(p) PROVE i \in DOMAIN calls'
    BY <1>4 DEF GuestResponse, set_guest_response
<1>5. CASE TakeState
    BY <1>5 DEF TakeState, Remove
<1>6. ASSUME NEW c \in 0..1, GuestResponseReady(c) PROVE i \in DOMAIN calls'
    BY <1>6 DEF GuestResponseReady, FinishInvocation, Remove
<1>7. CASE AsyncCallTraps
    BY <1>7 DEF AsyncCallTraps, FinishInvocation, Remove, set_guest_error,
        set_guest_response
<1>8. ASSUME NEW ok \in BOOLEAN, HostCallReturns(ok) PROVE i \in DOMAIN calls'
    BY <1>8 DEF HostCallReturns, SetHostReply
<1>9. ASSUME NEW id \in DOMAIN tasks, NEW ok \in BOOLEAN, Resolve(id, ok)
      PROVE  i \in DOMAIN calls'
    BY <1>9 DEF Resolve, SetHostReply
<1> QED
    BY <1>1, <1>2, <1>3, <1>4, <1>5, <1>6, <1>7, <1>8, <1>9, TableUntouched
    DEF Next, Caller, Guest, Task, vars

\* The steps that change the tasks, the invocation or the host call under way.
LEMMA IdsKept ==
    ASSUME [Next]_vars
    PROVE  \/ UNCHANGED <<inv, syncCall, tasks>>
           \/ Invoke \/ HostCall \/ AsyncHostCall
           \/ \E ok \in BOOLEAN : HostCallReturns(ok)
           \/ \E id \in DOMAIN tasks : Task(id) \/ CallbackPanics(id)
           \/ CallPanics \/ ResumePanics
BY DEF Next, Caller, Guest, Handler, vars, callerVars, hostCallVars,
    NewContext, ContextFails, EnterStarter, SkipStarter, StarterReturns,
    StarterTraps, EnterCall, ExportMissing, CallReturns, CallTraps, TakeState,
    AsyncCallReturns, AsyncCallTraps, Receive, Cancel, GuestResponse,
    GuestError, GuestResponseReady, Recv, Closed, Aborted, Resume,
    ResumeReturns, ResumeTraps

\* There is no host reply at the start.
LEMMA InitReplies == Init => Replies
BY DEF Init, ModuleStateInit, Replies, NoReply, get_host_response,
    get_host_error

\* Every step keeps it that only ended host calls have a reply.
LEMMA NextReplies == TypeOK /\ Replies /\ [Next]_vars => Replies'
<1> SUFFICES ASSUME TypeOK, Replies, [Next]_vars PROVE Replies'
    OBVIOUS
<1> USE DEF callerVars, hostCallVars, stateVars
<1>0. /\ calls \in [DOMAIN calls -> CallState]
      /\ NoReply(call_index) /\ NoReply(0)
      /\ call_index # 0 /\ call_index # inv /\ call_index # syncCall
      /\ call_index \notin DOMAIN tasks
      /\ 0 \notin DOMAIN tasks
    BY DEF TypeOK, TableType, IdsType, NoReply, get_host_response,
        get_host_error
<1>1. \A id \in DOMAIN tasks : id \in DOMAIN calls'
    BY HostCallsStay DEF Replies, TaskReply
<1>2. CASE UNCHANGED <<inv, syncCall, tasks>> /\ SameReplies(calls', calls)
    BY <1>1, <1>2 DEF Replies, TaskReply, NoReply, SameReplies
<1>3. CASE Invoke
    <2>1. SameReplies(calls', calls)
        BY <1>0, <1>3, InsertKeepsReplies
        DEF Invoke, NewInvocation, TypeOK, TableType
    <2>2. inv' = call_index /\ UNCHANGED <<syncCall, tasks>>
        BY <1>3 DEF Invoke
    <2> QED
        BY <1>0, <1>1, <2>1, <2>2
        DEF Replies, TaskReply, NoReply, SameReplies
<1>4. CASE HostCall
    <2>1. SameReplies(calls', calls)
        BY <1>0, <1>4, InsertKeepsReplies
        DEF HostCall, NewHostCall, init_host_call, TypeOK, TableType
    <2>2. syncCall' = call_index /\ UNCHANGED <<inv, tasks>>
        BY <1>4 DEF HostCall
    <2> QED
        BY <1>0, <1>1, <2>1, <2>2
        DEF Replies, TaskReply, NoReply, SameReplies
<1>5. CASE AsyncHostCall
    <2>0. calls' = Insert(calls, call_index, DefaultCallState)
        BY <1>5 DEF AsyncHostCall, NewHostCall, init_host_call
    <2>1. SameReplies(calls', calls) /\ call_index \in DOMAIN calls'
        <3>1. call_index \notin DOMAIN calls
            BY DEF TypeOK, TableType
        <3>2. call_index \in DOMAIN calls'
            BY <2>0 DEF Insert
        <3> QED
            BY <1>0, <2>0, <3>1, <3>2, InsertKeepsReplies
    <2>2. /\ UNCHANGED <<inv, syncCall>>
          /\ DOMAIN tasks' = DOMAIN tasks \cup {call_index}
          /\ tasks'[call_index] = "run"
          /\ \A id \in DOMAIN tasks : tasks'[id] = tasks[id]
        BY <1>0, <1>5 DEF AsyncHostCall, Insert
    <2> PICK new : new = call_index
        OBVIOUS
    <2>3. TaskReply(new)'
        BY <1>0, <2>1, <2>2 DEF TaskReply, NoReply, SameReplies
    <2>4. \A id \in DOMAIN tasks : TaskReply(id)'
        BY <1>1, <2>1, <2>2 DEF Replies, TaskReply, NoReply, SameReplies
    <2>5. (NoReply(inv) /\ NoReply(syncCall))'
        BY <2>1, <2>2 DEF Replies, NoReply, SameReplies
    <2> QED
        BY <2>2, <2>3, <2>4, <2>5 DEF Replies
<1>6. ASSUME NEW ok \in BOOLEAN, HostCallReturns(ok) PROVE Replies'
    <2>1. syncCall' = 0 /\ UNCHANGED <<inv, tasks>>
        BY <1>6 DEF HostCallReturns
    <2>2. \A i : i # syncCall =>
              /\ get_host_response(calls', i) = get_host_response(calls, i)
              /\ get_host_error(calls', i) = get_host_error(calls, i)
        BY <1>0, <1>6, SetHostReplyReplies DEF HostCallReturns
    <2>3. syncCall # 0 /\ syncCall # inv
        BY <1>6 DEF HostCallReturns, Replies
    <2> QED
        BY <1>0, <1>1, <2>1, <2>2, <2>3 DEF Replies, TaskReply, NoReply
<1>7. ASSUME NEW id \in DOMAIN tasks, NEW ok \in BOOLEAN, Resolve(id, ok)
      PROVE  Replies'
    <2>1. UNCHANGED <<inv, syncCall>>
        BY <1>7 DEF Resolve
    <2>2. /\ DOMAIN tasks' = DOMAIN tasks
          /\ tasks'[id] = IF ok THEN "ok" ELSE "err"
          /\ \A i \in DOMAIN tasks : i # id => tasks'[i] = tasks[i]
        BY <1>7 DEF Resolve, TypeOK, IdsType
    <2>3. \A i : i # id =>
              /\ get_host_response(calls', i) = get_host_response(calls, i)
              /\ get_host_error(calls', i) = get_host_error(calls, i)
        BY <1>0, <1>7, SetHostReplyReplies DEF Resolve
    <2>4. id \in DOMAIN calls /\ id # inv /\ id # syncCall /\ NoReply(id)
        BY <1>7 DEF Resolve, Replies, TaskReply
    <2>5. TaskReply(id)'
        <3>1. calls' = SetHostReply(calls, id, ok)
            BY <1>7 DEF Resolve
        <3>2. CASE ok
            <4>1. /\ get_host_response(calls', id) = id
                  /\ get_host_error(calls', id) = get_host_error(calls, id)
                BY <1>0, <2>4, <3>1, <3>2
                DEF SetHostReply, get_host_response, get_host_error, CallState
            <4> QED
                BY <1>1, <2>1, <2>2, <2>4, <3>2, <4>1 DEF TaskReply, NoReply
        <3>3. CASE ~ok
            <4>1. /\ get_host_error(calls', id) = id
                  /\ get_host_response(calls', id) = get_host_response(calls, id)
                BY <1>0, <2>4, <3>1, <3>3, SetHostReplyReplies
            <4> QED
                BY <1>1, <2>1, <2>2, <2>4, <3>3, <4>1 DEF TaskReply, NoReply
        <3> QED
            BY <3>2, <3>3
    <2>6. \A i \in DOMAIN tasks : i # id => TaskReply(i)'
        BY <1>1, <2>1, <2>2, <2>3 DEF Replies, TaskReply, NoReply
    <2> QED
        BY <2>1, <2>2, <2>3, <2>4, <2>5, <2>6 DEF Replies, NoReply
<1>8. ASSUME NEW id \in DOMAIN tasks, Notify(id) \/ CallbackPanics(id)
      PROVE  Replies'
    <2>1. UNCHANGED <<calls, inv, syncCall>>
        BY <1>8 DEF Notify, CallbackPanics
    <2>2. /\ DOMAIN tasks' = DOMAIN tasks
          /\ tasks'[id] \in {"done", "panicked"}
          /\ tasks'[id] = "panicked" => tasks[id] = "run"
          /\ \A i \in DOMAIN tasks : i # id => tasks'[i] = tasks[i]
        BY <1>8 DEF Notify, CallbackPanics, TypeOK, IdsType
    <2> QED
        BY <2>1, <2>2 DEF Replies, TaskReply, NoReply
<1>9. CASE CallPanics \/ ResumePanics
    <2>1. syncCall' = 0 /\ UNCHANGED <<calls, inv, tasks>>
        BY <1>9 DEF CallPanics, ResumePanics
    <2> QED
        BY <1>0, <2>1 DEF Replies, TaskReply, NoReply
<1> QED
    BY <1>2, <1>3, <1>4, <1>5, <1>6, <1>7, <1>8, <1>9, IdsKept, RepliesKept
    DEF Task

\* A message is of a task that has notified, and its reply is stored.
Delivered(m) == m.id \in DOMAIN tasks /\ tasks[m.id] = "done" /\ Stored(m)

Notifications ==
    /\ \A i \in 1..Len(queue) : queue[i] # Close => Delivered(queue[i])
    /\ hpc \in {"lock", "resume"} => Delivered(hmsg)

\* Nothing undoes a delivery: the task is over and its reply stays.
LEMMA DeliveredStable ==
    ASSUME TypeOK, Replies, [Next]_vars, NEW m \in Messages, Delivered(m)
    PROVE  Delivered(m)'
<1> USE DEF hostCallVars, callerVars
<1>1. m.id \in DOMAIN tasks' /\ tasks'[m.id] = "done"
    <2>1. CASE UNCHANGED tasks
        BY <2>1 DEF Delivered
    <2>2. CASE AsyncHostCall
        BY <2>2 DEF AsyncHostCall, Insert, Delivered, TypeOK, IdsType,
            TableType
    <2>3. ASSUME NEW id \in DOMAIN tasks, Task(id) \/ CallbackPanics(id)
          PROVE  m.id \in DOMAIN tasks' /\ tasks'[m.id] = "done"
        BY <2>3
        DEF Task, Resolve, Notify, CallbackPanics, Delivered, TypeOK, IdsType
    <2> QED
        BY <2>1, <2>2, <2>3, IdsKept
        DEF Invoke, HostCall, HostCallReturns, CallPanics, ResumePanics
<1>2. /\ get_host_response(calls', m.id) = get_host_response(calls, m.id)
      /\ get_host_error(calls', m.id) = get_host_error(calls, m.id)
    <2>0. calls \in [DOMAIN calls -> CallState]
        BY DEF TypeOK, TableType
    <2>1. CASE SameReplies(calls', calls)
        BY <2>1 DEF SameReplies
    <2>2. ASSUME NEW ok \in BOOLEAN, HostCallReturns(ok)
          PROVE  /\ get_host_response(calls', m.id) = get_host_response(calls, m.id)
                 /\ get_host_error(calls', m.id) = get_host_error(calls, m.id)
        <3>1. m.id # syncCall
            BY DEF Delivered, Replies, TaskReply
        <3> QED
            BY <2>0, <2>2, <3>1, SetHostReplyReplies DEF HostCallReturns
    <2>3. ASSUME NEW id \in DOMAIN tasks, NEW ok \in BOOLEAN, Resolve(id, ok)
          PROVE  /\ get_host_response(calls', m.id) = get_host_response(calls, m.id)
                 /\ get_host_error(calls', m.id) = get_host_error(calls, m.id)
        <3>1. m.id # id
            BY <2>3 DEF Delivered, Resolve
        <3> QED
            BY <2>0, <2>3, <3>1, SetHostReplyReplies DEF Resolve
    <2> QED
        BY <2>1, <2>2, <2>3, RepliesKept
<1> QED
    BY <1>1, <1>2 DEF Delivered, Stored

\* How a step changes what the handler has and will be given.
LEMMA ChannelSteps ==
    ASSUME [Next]_vars
    PROVE  \/ UNCHANGED <<queue, hpc, hmsg>>
           \/ UNCHANGED <<hpc, hmsg>> /\ queue' = Append(queue, Close)
           \/ NewContext
           \/ \E id \in DOMAIN tasks : Notify(id)
           \/ Handler \/ ResumeTraps \/ ResumePanics
BY DEF Next, Caller, Guest, Task, vars, callerVars, handlerVars, Finish,
    ContextFails, EnterStarter, SkipStarter, StarterReturns, StarterTraps,
    Invoke, EnterCall, ExportMissing, CallReturns, CallTraps, TakeState,
    AsyncCallReturns, AsyncCallTraps, Receive, Cancel, CallPanics, HostCall,
    HostCallReturns, AsyncHostCall, GuestResponse, GuestError,
    GuestResponseReady, Resolve, CallbackPanics

\* Every step keeps what is in the channel and with the handler delivered.
LEMMA NextNotifications ==
    TypeOK /\ Replies /\ Notifications /\ [Next]_vars => Notifications'
<1> SUFFICES ASSUME TypeOK, Replies, Notifications, [Next]_vars
             PROVE  Notifications'
    OBVIOUS
<1> USE DEF handlerVars
<1>0. queue \in Seq(Messages) /\ hmsg \in Messages
    BY DEF TypeOK, ChannelType
<1>1. \A m \in Messages : Delivered(m) => Delivered(m)'
    BY DeliveredStable
<1>2. ASSUME \A i \in 1..Len(queue') : queue'[i] \in Messages /\ queue'[i] # Close =>
                 \/ Delivered(queue[i])'
                 \/ \E j \in 1..Len(queue) : queue'[i] = queue[j],
             hpc' \in {"lock", "resume"} =>
                 \/ hmsg' = hmsg /\ hpc \in {"lock", "resume"}
                 \/ hmsg' # Close /\ \E j \in 1..Len(queue) : hmsg' = queue[j]
      PROVE  Notifications'
    <2>1. queue' \in Seq(Messages)
        BY NextChannel DEF TypeOK, ChannelType
    <2>2. \A j \in 1..Len(queue) : queue[j] \in Messages
        BY <1>0
    <2>3. \A i \in 1..Len(queue') : queue'[i] \in Messages
        BY <2>1
    <2> QED
        BY <1>0, <1>1, <1>2, <2>2, <2>3 DEF Notifications, Delivered, Stored
<1>3. CASE UNCHANGED <<queue, hpc, hmsg>>
    BY <1>0, <1>2, <1>3
<1>4. CASE UNCHANGED <<hpc, hmsg>> /\ queue' = Append(queue, Close)
    BY <1>0, <1>2, <1>4, MessageType
<1>5. CASE NewContext
    BY <1>0, <1>2, <1>5 DEF NewContext
<1>6. ASSUME NEW id \in DOMAIN tasks, Notify(id) PROVE Notifications'
    <2> DEFINE c == HostCallCode(id, tasks[id] = "ok")
    <2>0. id \in Nat \ {0}
        BY DEF TypeOK, IdsType
    <2>1. /\ UNCHANGED <<calls, hpc, hmsg>>
          /\ DOMAIN tasks' = DOMAIN tasks
          /\ tasks'[id] = "done"
        BY <1>6 DEF Notify, TypeOK, IdsType, stateVars
    <2>2. TaskReply(id) /\ tasks[id] \in {"ok", "err"}
        BY <1>6 DEF Notify, Replies
    <2>3. /\ get_host_response(calls', id) = c
          /\ get_host_error(calls', id) = IF c = 0 THEN id ELSE 0
        BY <2>0, <2>1, <2>2 DEF TaskReply, HostCallCode
    <2> HIDE DEF c
    <2>4. CASE queue' = queue
        BY <1>0, <1>2, <2>1, <2>4
    <2>5. CASE queue' = Append(queue, Message(id, c))
        <3>1. \A i \in 1..Len(queue') :
                  \/ queue'[i] = Message(id, c)
                  \/ \E j \in 1..Len(queue) : queue'[i] = queue[j]
            BY <1>0, <2>5
        <3>2. Message(id, c).id = id /\ Message(id, c).code = c
            BY DEF Message
        <3>3. \A i \in 1..Len(queue') :
                  queue'[i] = Message(id, c) => Delivered(queue[i])'
            BY <2>1, <2>3, <3>2 DEF Delivered, Stored
        <3> QED
            BY <1>2, <2>1, <3>1, <3>3
    <2> QED
        BY <1>6, <2>4, <2>5 DEF Notify, c
<1>7. CASE Recv
    <2>1. queue # <<>> /\ Head(queue) # Close /\ hmsg' = Head(queue)
          /\ queue' = Tail(queue)
        BY <1>7 DEF Recv
    <2>2. 1 \in 1..Len(queue) /\ hmsg' = queue[1]
        BY <1>0, <2>1
    <2>3. \A i \in 1..Len(queue') : \E j \in 1..Len(queue) : queue'[i] = queue[j]
        <3> SUFFICES ASSUME NEW i \in 1..Len(queue')
                     PROVE  i + 1 \in 1..Len(queue) /\ queue'[i] = queue[i + 1]
            OBVIOUS
        <3> QED
            BY <1>0, <2>1
    <2> QED
        BY <1>2, <2>1, <2>2, <2>3
<1>8. CASE Closed \/ Aborted \/ ResumePanics
    BY <1>2, <1>8 DEF Closed, Aborted, ResumePanics
<1>9. CASE Resume \/ ResumeReturns \/ ResumeTraps
    BY <1>0, <1>2, <1>9 DEF Resume, ResumeReturns, ResumeTraps
<1> QED
    BY <1>3, <1>4, <1>5, <1>6, <1>7, <1>8, <1>9, ChannelSteps DEF Handler

\* A delivered message announces a stored reply.
LEMMA NotificationsImply == TypeOK /\ Notifications => NotifiedIsStored
<1>1. \A m : TypeOK /\ Delivered(m) => m # Close
    BY DEF TypeOK, IdsType, TableType, Delivered, Close, Message
<1> QED
    BY <1>1 DEF Notifications, NotifiedIsStored, Delivered

\* Whenever the handler is given a message, calls the guest back with it or
\* still has it in the channel, the reply it announces is in the table, and
\* the code says whether it is a response or an error: the guest's
\* __host_response and __host_error cannot come too early.
THEOREM StoredBeforeNotified == Spec => []NotifiedIsStored
<1>1. Init => Replies /\ Notifications
    BY InitReplies DEF Init, Notifications
<1>2. TypeOK /\ Replies /\ Notifications /\ [Next]_vars
          => (Replies /\ Notifications)'
    BY NextReplies, NextNotifications
<1>3. Spec => [](TypeOK /\ Replies /\ Notifications)
    BY <1>1, <1>2, TypeCorrect, PTL DEF Spec
<1> QED
    BY <1>3, NotificationsImply, PTL

\* No step of any actor overwrites or removes a reply of the host.
THEOREM RepliesStable == Spec => HostReplyStable
<1>1. TypeOK /\ Replies /\ [Next]_vars =>
          [\A id \in DOMAIN calls :
               calls[id].host_response # 0 \/ calls[id].host_error # 0 =>
                   /\ get_host_response(calls', id) = get_host_response(calls, id)
                   /\ get_host_error(calls', id) = get_host_error(calls, id)]_vars
    <2> SUFFICES ASSUME TypeOK, Replies, [Next]_vars, NEW id \in DOMAIN calls,
                        ~NoReply(id)
                 PROVE  /\ get_host_response(calls', id) = get_host_response(calls, id)
                        /\ get_host_error(calls', id) = get_host_error(calls, id)
        BY DEF NoReply, get_host_response, get_host_error
    <2>0. calls \in [DOMAIN calls -> CallState]
        BY DEF TypeOK, TableType
    <2>1. CASE SameReplies(calls', calls)
        BY <2>1 DEF SameReplies
    <2>2. ASSUME NEW ok \in BOOLEAN, HostCallReturns(ok)
          PROVE  /\ get_host_response(calls', id) = get_host_response(calls, id)
                 /\ get_host_error(calls', id) = get_host_error(calls, id)
        <3>1. id # syncCall
            BY DEF Replies
        <3> QED
            BY <2>0, <2>2, <3>1, SetHostReplyReplies DEF HostCallReturns
    <2>3. ASSUME NEW i \in DOMAIN tasks, NEW ok \in BOOLEAN, Resolve(i, ok)
          PROVE  /\ get_host_response(calls', id) = get_host_response(calls, id)
                 /\ get_host_error(calls', id) = get_host_error(calls, id)
        <3>1. id # i
            BY <2>3 DEF Resolve, Replies, TaskReply
        <3> QED
            BY <2>0, <2>3, <3>1, SetHostReplyReplies DEF Resolve
    <2> QED
        BY <2>1, <2>2, <2>3, RepliesKept
<1>2. Spec => [](TypeOK /\ Replies)
    BY InitReplies, NextReplies, TypeCorrect, PTL DEF Spec
<1> QED
    BY <1>1, <1>2, PTL DEF Spec, HostReplyStable
=============================================================================
