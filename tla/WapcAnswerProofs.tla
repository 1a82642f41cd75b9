-------------------------- MODULE WapcAnswerProofs --------------------------
(***************************************************************************)
(* Theorems about the answer of a guest in WapcCall: the entry of the      *)
(* invocation in the call table, its oneshot, and the result of the call.  *)
(***************************************************************************)
EXTENDS WapcCallProofs

USE DEF Starts, LockStore, Deliver

\* An entry or a status holds what the guest has said so far.
Holds(s) == s.guest_response = said.resp /\ s.guest_error = said.err

Open == said.phase \in {"idle", "working"}

\* The entry of the invocation until the guest has answered ...
OpenEntry ==
    /\ inv \in DOMAIN calls
    /\ calls[inv].guest_request
    /\ calls[inv].channel
    /\ Holds(calls[inv])
    /\ status = NoStatus

\* ... and what is left of it after that.
ClosedEntry ==
    /\ inv \notin DOMAIN calls
    /\ mode = "async" =>
           /\ status.tag = IF said.phase = "failed" THEN "Complete" ELSE "Error"
           /\ Holds(status.state)

\* Which parts of a call the guest's record allows.
Stages ==
    /\ pc \in {"start", "context", "starting", "created"} => inv = 0
    /\ pc \in {"invoke", "call", "take", "await"} => inv # 0
    /\ said.phase = "idle" =>
           /\ said.resp = None /\ said.err = "none"
           /\ pc \notin {"call", "take", "await"}
    /\ said.phase # "idle" =>
           inv # 0 /\ pc \in {"call", "take", "await", "done"}
    /\ mode = "sync" /\ pc \in {"call", "take"} => said.phase = "working"
    /\ pc = "take" => mode = "sync"
    /\ pc = "await" => mode = "async"

Entries ==
    /\ inv = 0 => status = NoStatus
    /\ inv # 0 /\ Open => OpenEntry
    /\ ~Open => ClosedEntry

EarlyErrors == {"context", "init", "not_found", "cancelled", "host_panic"}

\* The result is the answer, or an error that comes before there is one.
Outcome ==
    /\ pc # "done" => result = Pending
    /\ pc = "done" => \/ result.err \in EarlyErrors
                      \/ ~Open /\ result = Answer

Conversation == Stages /\ Entries /\ Outcome

-----------------------------------------------------------------------------
(* The table's operations on the entry of the invocation.                  *)

\* __guest_response and __guest_error write one field of the entry and leave
\* its request and its sender alone.
LEMMA SettersEntry ==
    ASSUME NEW t, t \in [DOMAIN t -> CallState], NEW id \in DOMAIN t,
           NEW r \in Payload, NEW e \in GuestErrors
    PROVE  /\ set_guest_response(t, id, r)[id]
                  = [t[id] EXCEPT !.guest_response = r]
           /\ set_guest_error(t, id, e)[id] = [t[id] EXCEPT !.guest_error = e]
BY DEF set_guest_response, set_guest_error

\* The entry of the invocation is the same after a step: what the steps that
\* concern host calls have in common.
SameEntry ==
    /\ inv \in DOMAIN calls' <=> inv \in DOMAIN calls
    /\ inv \in DOMAIN calls => calls'[inv] = calls[inv]

\* Host calls, their tasks and the handler leave the invocation alone: every
\* id they write to is another one.
LEMMA OthersKeepEntry ==
    ASSUME TypeOK, Replies,
           \/ HostCall \/ AsyncHostCall
           \/ (\E ok \in BOOLEAN : HostCallReturns(ok))
           \/ (\E id \in DOMAIN tasks : Task(id) \/ CallbackPanics(id))
           \/ Handler \/ ResumeTraps \/ ResumePanics \/ UNCHANGED vars
    PROVE  SameEntry /\ UNCHANGED <<mode, pc, inv, said, status, result>>
<1> USE DEF callerVars, guestVars
<1>0. calls \in [DOMAIN calls -> CallState] /\ call_index # inv
    BY DEF TypeOK, TableType, IdsType
<1>1. UNCHANGED <<mode, pc, inv, said, status, result>>
    BY DEF HostCall, AsyncHostCall, HostCallReturns, Task, Resolve, Notify,
        CallbackPanics, Handler, Recv, Closed, Aborted, Resume, ResumeReturns,
        ResumeTraps, ResumePanics, vars
<1>2. CASE UNCHANGED calls
    BY <1>1, <1>2 DEF SameEntry
<1>3. CASE HostCall \/ AsyncHostCall
    BY <1>0, <1>3 DEF HostCall, AsyncHostCall, NewHostCall, init_host_call,
        Insert, SameEntry
<1>4. ASSUME NEW id, id # inv, NEW ok \in BOOLEAN,
             calls' = SetHostReply(calls, id, ok)
      PROVE  SameEntry
    <2>1. calls' = calls
              \/ calls' = [calls EXCEPT ![id].host_response = id]
              \/ calls' = [calls EXCEPT ![id].host_error = id]
        BY <1>4, Zenon DEF SetHostReply
    <2> QED
        BY <1>0, <1>4, <2>1 DEF SameEntry
<1>5. ASSUME NEW ok \in BOOLEAN, HostCallReturns(ok) PROVE SameEntry
    BY <1>4, <1>5 DEF HostCallReturns, Replies
<1>6. ASSUME NEW id \in DOMAIN tasks, NEW ok \in BOOLEAN, Resolve(id, ok)
      PROVE  SameEntry
    BY <1>4, <1>6 DEF Resolve, Replies, TaskReply
<1> QED
    <2>1. CASE \/ (\E id \in DOMAIN tasks : Notify(id) \/ CallbackPanics(id))
               \/ Handler \/ ResumeTraps \/ ResumePanics \/ UNCHANGED vars
        BY <1>1, <1>2, <2>1, TableUntouched DEF vars
    <2> QED
        BY <1>1, <1>3, <1>5, <1>6, <2>1 DEF Task

\* What the caller does apart from new_invocation, entering the guest and the
\* end of the invocation: only pc and the result change.
LEMMA CallerKeepsEntry ==
    ASSUME \/ NewContext \/ ContextFails \/ EnterStarter \/ SkipStarter
           \/ StarterReturns \/ StarterTraps \/ ExportMissing
           \/ (\E c \in 0..1 : CallReturns(c))
           \/ AsyncCallReturns \/ Receive \/ Cancel \/ CallPanics
    PROVE  UNCHANGED <<calls, mode, inv, said, status>>
BY DEF NewContext, ContextFails, EnterStarter, SkipStarter, StarterReturns,
    StarterTraps, ExportMissing, CallReturns, AsyncCallReturns, Receive,
    Cancel, CallPanics, stateVars, guestVars

\* A guest that has nothing to say any more changes nothing with its setters,
\* and neither does the trap that ends its frame.
LEMMA LateWrites ==
    ASSUME NEW t, NEW id, id \notin DOMAIN t, NEW r, NEW e, NEW c, NEW s
    PROVE  /\ set_guest_response(t, id, r) = t
           /\ set_guest_error(t, id, e) = t
           /\ DOMAIN Remove(t, id) = DOMAIN t
           /\ FinishStatus(t, id, c, s) = s
BY DEF set_guest_response, set_guest_error, Remove, FinishStatus

-----------------------------------------------------------------------------
(* Every step keeps the conversation.                                      *)

\* The beginning of a call.
LEMMA InitConversation == Init => Conversation
BY DEF Init, Conversation, Stages, Entries, Outcome, Open, ClosedEntry

\* Steps that keep the entry and the guest's record.
LEMMA QuietSteps ==
    ASSUME TypeOK, Conversation, SameEntry,
           UNCHANGED <<mode, pc, inv, said, status, result>>
    PROVE  Conversation'
<1>1. Stages'
    BY DEF Conversation, Stages
<1>2. Entries'
    BY Zenon DEF Conversation, Entries, Open, OpenEntry, ClosedEntry, Holds,
                 SameEntry
<1>3. Outcome'
    BY DEF Conversation, Outcome, Answer, Open
<1> QED
    BY <1>1, <1>2, <1>3 DEF Conversation

\* Steps of the caller that keep the entry: before the guest's answer they end
\* in an early error, after it they deliver what the oneshot holds.
LEMMA CallerSteps ==
    ASSUME TypeOK, Locking, Conversation,
           \/ NewContext \/ ContextFails \/ EnterStarter \/ SkipStarter
           \/ StarterReturns \/ StarterTraps \/ ExportMissing
           \/ (\E c \in 0..1 : CallReturns(c))
           \/ AsyncCallReturns \/ Receive \/ Cancel \/ CallPanics
    PROVE  Conversation'
<1>0. UNCHANGED <<calls, mode, inv, said, status>>
    BY CallerKeepsEntry
<1>1. Entries'
    BY <1>0, Zenon
    DEF Conversation, Entries, Open, OpenEntry, ClosedEntry, Holds
<1>2. CASE NewContext \/ EnterStarter \/ SkipStarter \/ StarterReturns
    <2>1. /\ pc \in {"start", "context", "starting"}
          /\ pc' \in {"context", "starting", "created"}
          /\ result' = result
        BY <1>2 DEF NewContext, EnterStarter, SkipStarter, StarterReturns,
                    AfterStarter
    <2>2. Stages' /\ Outcome'
        BY <1>0, <2>1 DEF Conversation, Stages, Outcome
    <2> QED
        BY <1>1, <2>2 DEF Conversation
<1>3. CASE \/ ContextFails \/ StarterTraps \/ ExportMissing \/ Cancel
           \/ CallPanics
    <2>1. /\ pc' = "done"
          /\ \E e \in EarlyErrors : result' = ErrResult(e)
        BY <1>3 DEF ContextFails, StarterTraps, ExportMissing, Cancel,
                    CallPanics, Finish, EarlyErrors
    <2>2. Stages' /\ Outcome'
        BY <1>0, <2>1 DEF Conversation, Stages, Outcome, ErrResult
    <2> QED
        BY <1>1, <2>2 DEF Conversation
<1>4. CASE (\E c \in 0..1 : CallReturns(c)) \/ AsyncCallReturns
    <2>1. Stages' /\ Outcome'
        BY <1>0, <1>4
        DEF CallReturns, AsyncCallReturns, Conversation, Stages, Outcome
    <2> QED
        BY <1>1, <2>1 DEF Conversation
<1>5. CASE Receive
    <2>1. /\ pc = "await" /\ pc' = "done" /\ status.tag # "None"
          /\ result' = IF status.tag = "Complete" THEN FailureArm(status.state)
                                                  ELSE SuccessArm(status.state)
        BY <1>5 DEF Receive, Finish
    <2>2. ~Open /\ ClosedEntry /\ mode = "async"
        BY <2>1 DEF Conversation, Stages, Entries, OpenEntry, Open, NoStatus
    <2>3. result' = Answer
        BY <2>1, <2>2
        DEF ClosedEntry, Holds, Open, Answer, FailureArm, SuccessArm, TypeOK,
            AnswerType, Said
    <2>4. Stages' /\ Outcome'
        BY <1>0, <2>1, <2>2, <2>3
        DEF Conversation, Stages, Outcome, Open, Answer
    <2> QED
        BY <1>1, <2>4 DEF Conversation
<1> QED
    BY <1>2, <1>3, <1>4, <1>5

\* new_invocation puts a fresh entry with a request and a sender into the
\* table; the caller then enters the guest with it.
LEMMA InvokeSteps ==
    ASSUME TypeOK, Conversation, Invoke \/ EnterCall
    PROVE  Conversation'
<1>0. call_index \in Nat \ {0}
    BY DEF TypeOK, TableType
<1>1. CASE Invoke
    <2>1. /\ pc = "created" /\ pc' = "invoke" /\ inv' = call_index
          /\ calls' = Insert(calls, call_index, InvocationState)
          /\ UNCHANGED <<mode, said, status, result>>
        BY <1>1 DEF Invoke, NewInvocation, guestVars
    <2>2. inv = 0 /\ said.phase = "idle" /\ status = NoStatus
        BY <2>1 DEF Conversation, Stages, Entries
    <2>3. Stages' /\ Outcome'
        BY <1>0, <2>1, <2>2 DEF Conversation, Stages, Outcome
    <2>4. OpenEntry'
        <3>1. inv' \in DOMAIN calls' /\ calls'[inv'] = InvocationState
            BY <2>1 DEF Insert
        <3>2. /\ InvocationState.guest_response = None
              /\ InvocationState.guest_error = "none"
            BY DEF InvocationState, DefaultCallState
        <3>3. said.resp = None /\ said.err = "none"
            BY <2>2 DEF Conversation, Stages
        <3> QED
            BY <2>1, <2>2, <3>1, <3>2, <3>3, DefaultType DEF OpenEntry, Holds
    <2>5. Entries'
        BY <1>0, <2>1, <2>2, <2>4 DEF Entries, Open
    <2> QED
        BY <2>3, <2>5 DEF Conversation
<1>2. CASE EnterCall
    <2>1. /\ pc = "invoke" /\ pc' = "call"
          /\ said' = [said EXCEPT !.phase = "working"]
          /\ UNCHANGED <<calls, mode, inv, status, result>>
        BY <1>2 DEF EnterCall, stateVars
    <2>2. /\ inv # 0 /\ said.phase = "idle"
        BY <2>1 DEF Conversation, Stages, TypeOK, AnswerType, Said
    <2>3. OpenEntry
        BY <2>2 DEF Conversation, Entries, Open
    <2>4. /\ said'.resp = said.resp /\ said'.err = said.err
          /\ said'.phase = "working"
        BY <2>1 DEF TypeOK, AnswerType, Said
    <2>5. Entries'
        BY <2>1, <2>2, <2>3, <2>4 DEF Entries, Open, OpenEntry, Holds
    <2>6. Stages' /\ Outcome'
        BY <2>1, <2>2, <2>4 DEF Conversation, Stages, Outcome
    <2> QED
        BY <2>5, <2>6 DEF Conversation
<1> QED
    BY <1>1, <1>2

\* __guest_response and __guest_error reach the entry as long as the guest has
\* not answered, and nothing after that.
LEMMA SetterSteps ==
    ASSUME TypeOK, Conversation,
           (\E p \in Payload : GuestResponse(p)) \/ GuestError
    PROVE  Conversation'
<1>0. /\ calls \in [DOMAIN calls -> CallState] /\ said \in Said
      /\ inv # 0 /\ said.phase # "idle"
    BY DEF TypeOK, TableType, AnswerType, GuestResponse, GuestError,
        Conversation, Stages
<1>1. UNCHANGED <<mode, pc, inv, status, result>>
    BY DEF GuestResponse, GuestError, callerVars
<1>2. CASE ~Open
    <2>1. inv \notin DOMAIN calls
        BY <1>2 DEF Conversation, Entries, ClosedEntry
    <2>2. calls' = calls /\ said' = said
        BY <1>2, <2>1, LateWrites
        DEF GuestResponse, GuestError, Open, HasInvocation
    <2>3. SameEntry
        BY <2>2, Zenon DEF SameEntry
    <2> QED
        BY <1>1, <2>2, <2>3, QuietSteps
<1>3. CASE Open
    <2>1. said.phase = "working" /\ OpenEntry
        BY <1>0, <1>3 DEF Conversation, Entries, Open
    <2>2. inv \in DOMAIN calls /\ calls[inv] \in CallState
        BY <1>0, <2>1 DEF OpenEntry
    <2>3. /\ DOMAIN calls' = DOMAIN calls
          /\ \/ \E p \in Payload :
                    /\ calls'[inv] = [calls[inv] EXCEPT !.guest_response = p]
                    /\ said' = [said EXCEPT !.resp = p]
             \/ /\ calls'[inv] = [calls[inv] EXCEPT !.guest_error = "guest"]
                /\ said' = [said EXCEPT !.err = "guest"]
        <3>1. CASE GuestError
            <4>1. /\ calls' = set_guest_error(calls, inv, "guest")
                  /\ said' = [said EXCEPT !.err = "guest"]
                BY <2>1, <3>1 DEF GuestError, HasInvocation
            <4> QED
                BY <1>0, <2>2, <4>1 DEF set_guest_error
        <3>2. ASSUME NEW p \in Payload, GuestResponse(p)
              PROVE  /\ DOMAIN calls' = DOMAIN calls
                     /\ calls'[inv] = [calls[inv] EXCEPT !.guest_response = p]
                     /\ said' = [said EXCEPT !.resp = p]
            <4>1. /\ calls' = set_guest_response(calls, inv, p)
                  /\ said' = [said EXCEPT !.resp = p]
                BY <2>1, <3>2 DEF GuestResponse, HasInvocation
            <4> QED
                BY <1>0, <2>2, <4>1 DEF set_guest_response
        <3> QED
            BY <3>1, <3>2
    <2>5. /\ calls'[inv].guest_request = calls[inv].guest_request
          /\ calls'[inv].channel = calls[inv].channel
          /\ said'.phase = "working"
          /\ calls'[inv].guest_response = said'.resp
          /\ calls'[inv].guest_error = said'.err
        BY <1>0, <2>1, <2>2, <2>3 DEF OpenEntry, Holds, CallState, Said
    <2>6. OpenEntry'
        BY <1>1, <2>1, <2>2, <2>3, <2>5, Zenon DEF OpenEntry, Holds
    <2>7. Entries'
        BY <1>0, <1>1, <2>5, <2>6 DEF Entries, Open
    <2>8. Stages' /\ Outcome'
        BY <1>0, <1>1, <2>1, <2>5
        DEF Conversation, Stages, Outcome, Open
    <2> QED
        BY <2>7, <2>8 DEF Conversation
<1> QED
    BY <1>2, <1>3

\* A synchronous call that traps leaves the trap in the entry for take_state.
LEMMA CallTrapsStep ==
    ASSUME TypeOK, Conversation, CallTraps
    PROVE  Conversation'
<1>0. /\ calls \in [DOMAIN calls -> CallState] /\ said \in Said
      /\ inv # 0 /\ said.phase = "working" /\ mode = "sync" /\ pc' = "take"
      /\ pc # "done"
    BY DEF TypeOK, TableType, AnswerType, CallTraps, Conversation, Stages
<1>1. OpenEntry
    BY <1>0 DEF Conversation, Entries, Open
<1>2. /\ UNCHANGED <<mode, inv, status, result>>
      /\ said' = [said EXCEPT !.err = "trap"]
      /\ calls' = set_guest_error(calls, inv, "trap")
    BY DEF CallTraps
<1>3. /\ inv \in DOMAIN calls /\ calls[inv] \in CallState
      /\ DOMAIN calls' = DOMAIN calls
      /\ calls'[inv] = [calls[inv] EXCEPT !.guest_error = "trap"]
    BY <1>0, <1>1, <1>2, SettersType, SettersEntry, PayloadAssumption
    DEF OpenEntry, GuestErrors
<1>4. /\ calls'[inv].guest_request = calls[inv].guest_request
      /\ calls'[inv].channel = calls[inv].channel
      /\ said'.phase = "working"
      /\ calls'[inv].guest_response = said'.resp
      /\ calls'[inv].guest_error = said'.err
    BY <1>0, <1>1, <1>2, <1>3 DEF OpenEntry, Holds, CallState, Said
<1>5. OpenEntry'
    BY <1>1, <1>2, <1>3, <1>4, Zenon DEF OpenEntry, Holds
<1>6. Entries'
    BY <1>0, <1>2, <1>4, <1>5 DEF Entries, Open
<1>7. Stages' /\ Outcome'
    BY <1>0, <1>2, <1>4 DEF Conversation, Stages, Outcome
<1> QED
    BY <1>6, <1>7 DEF Conversation

\* take_state finds the entry, and the two arms make of it what the guest
\* said.
LEMMA TakeStateStep ==
    ASSUME TypeOK, Conversation, TakeState
    PROVE  Conversation'
<1>0. /\ calls \in [DOMAIN calls -> CallState] /\ said \in Said
      /\ code \in 0..1
      /\ inv # 0 /\ said.phase = "working" /\ mode = "sync"
    BY DEF TypeOK, TableType, AnswerType, CallerType, TakeState,
        Conversation, Stages
<1>1. OpenEntry
    BY <1>0 DEF Conversation, Entries, Open
<1>2. /\ UNCHANGED <<mode, inv, status>>
      /\ pc' = "done"
      /\ calls' = Remove(calls, inv)
      /\ said' = [said EXCEPT !.phase = IF code = 0 THEN "failed"
                                                    ELSE "succeeded"]
      /\ result' = IF code = 0 THEN FailureArm(calls[inv])
                               ELSE SuccessArm(calls[inv])
    BY <1>1 DEF TakeState, Finish, OpenEntry
<1>3. /\ said'.phase = IF code = 0 THEN "failed" ELSE "succeeded"
      /\ said'.resp = said.resp /\ said'.err = said.err
    BY <1>0, <1>2 DEF Said
<1>4. result' = Answer'
    BY <1>1, <1>2, <1>3
    DEF OpenEntry, Holds, Answer, FailureArm, SuccessArm
<1>5. ClosedEntry' /\ ~Open'
    BY <1>0, <1>2, <1>3 DEF ClosedEntry, Remove, Open
<1>6. Entries'
    BY <1>0, <1>2, <1>5 DEF Entries
<1>7. Stages' /\ Outcome'
    BY <1>0, <1>2, <1>3, <1>4, <1>5 DEF Conversation, Stages, Outcome
<1> QED
    BY <1>6, <1>7 DEF Conversation

\* The answer to an asynchronous invocation, whether by __guest_response_ready
\* or by a trap: the sender gets the entry, which leaves the table.
LEMMA AnswerClosesEntry ==
    ASSUME TypeOK, Conversation, mode = "async", HasInvocation,
           NEW c \in 0..1, NEW s \in CallState,
           DOMAIN calls' = DOMAIN calls \ {inv},
           status' = [tag   |-> IF c = 0 THEN "Complete" ELSE "Error",
                      state |-> [s EXCEPT !.channel = FALSE]],
           said'.phase = IF c = 0 THEN "failed" ELSE "succeeded",
           said'.resp = s.guest_response, said'.err = s.guest_error,
           pc' \in {pc, "await"}, pc \in {"call", "await", "done"},
           pc = "done" => pc' = "done",
           UNCHANGED <<mode, inv, result>>
    PROVE  Conversation'
<1>0. inv # 0 /\ said.phase = "working"
    BY DEF Conversation, Stages, HasInvocation
<1>1. ClosedEntry' /\ ~Open'
    BY DEF ClosedEntry, Holds, Open, CallState
<1>2. Entries'
    BY <1>0, <1>1 DEF Entries
<1>3. Stages' /\ Outcome'
    BY <1>0 DEF Conversation, Stages, Outcome, Open
<1> QED
    BY <1>2, <1>3 DEF Conversation

\* __guest_response_ready.
LEMMA ReadyStep ==
    ASSUME TypeOK, Conversation, NEW c \in 0..1, GuestResponseReady(c)
    PROVE  Conversation'
<1>0. /\ calls \in [DOMAIN calls -> CallState] /\ said \in Said
      /\ inv # 0 /\ mode = "async" /\ HasInvocation
      /\ pc \in {"call", "await", "done"}
    BY DEF TypeOK, TableType, AnswerType, GuestResponseReady, Conversation,
        Stages, HasInvocation
<1>1. OpenEntry
    BY <1>0 DEF Conversation, Entries, Open, HasInvocation
<1>2. /\ calls' = Remove(calls, inv)
      /\ status' = FinishStatus(calls, inv, c, status)
      /\ said' = [said EXCEPT !.phase = IF c = 0 THEN "failed"
                                                 ELSE "succeeded"]
      /\ UNCHANGED <<mode, pc, inv, result>>
    BY DEF GuestResponseReady, FinishInvocation, callerVars
<1>3. PICK s \in CallState : s = calls[inv]
    BY <1>0, <1>1 DEF OpenEntry
<1>4. DOMAIN calls' = DOMAIN calls \ {inv}
    BY <1>2 DEF Remove
<1>5. status' = [tag   |-> IF c = 0 THEN "Complete" ELSE "Error",
                 state |-> [s EXCEPT !.channel = FALSE]]
    BY <1>1, <1>2, <1>3 DEF FinishStatus, OpenEntry
<1>6. /\ said'.phase = IF c = 0 THEN "failed" ELSE "succeeded"
      /\ said'.resp = s.guest_response /\ said'.err = s.guest_error
    BY <1>0, <1>1, <1>2, <1>3 DEF Said, OpenEntry, Holds
<1> QED
    BY <1>0, <1>2, <1>4, <1>5, <1>6, AnswerClosesEntry

\* A trap of __async_guest_call answers for the guest, unless it has answered
\* before: then nothing is sent a second time.
LEMMA AsyncTrapStep ==
    ASSUME TypeOK, Conversation, AsyncCallTraps
    PROVE  Conversation'
<1> DEFINE t == set_guest_error(calls, inv, "trap")
           u == set_guest_response(t, inv, Empty)
<1>0. /\ calls \in [DOMAIN calls -> CallState] /\ said \in Said
      /\ inv # 0 /\ mode = "async" /\ pc = "call" /\ pc' = "await"
      /\ said.phase # "idle"
    BY DEF TypeOK, TableType, AnswerType, AsyncCallTraps, Conversation,
        Stages
<1>1. /\ calls' = Remove(u, inv)
      /\ status' = FinishStatus(u, inv, 0, status)
      /\ said' = IF HasInvocation
                 THEN [phase |-> "failed", resp |-> Empty, err |-> "trap"]
                 ELSE said
      /\ UNCHANGED <<mode, inv, result>>
    BY DEF AsyncCallTraps, FinishInvocation
<1>2. CASE HasInvocation
    <2>1. OpenEntry
        BY <1>0, <1>2 DEF Conversation, Entries, Open, HasInvocation
    <2>2. /\ t \in [DOMAIN t -> CallState] /\ DOMAIN t = DOMAIN calls
          /\ inv \in DOMAIN t
          /\ t[inv] = [calls[inv] EXCEPT !.guest_error = "trap"]
        BY <1>0, <2>1, SettersType, SettersEntry, PayloadAssumption
        DEF GuestErrors, OpenEntry
    <2> HIDE DEF t
    <2>3. /\ u \in [DOMAIN u -> CallState] /\ DOMAIN u = DOMAIN calls
          /\ u[inv] = [t[inv] EXCEPT !.guest_response = Empty]
        <3>1. u \in [DOMAIN u -> CallState] /\ DOMAIN u = DOMAIN t
            BY <2>2, SettersType, PayloadAssumption DEF GuestErrors
        <3>2. u = [t EXCEPT ![inv].guest_response = Empty]
            BY <2>2 DEF set_guest_response
        <3> QED
            BY <2>2, <3>1, <3>2
    <2> HIDE DEF u
    <2>4. PICK s \in CallState : s = u[inv]
        BY <2>2, <2>3
    <2>5. s.guest_response = Empty /\ s.guest_error = "trap"
        <3>1. calls[inv] \in CallState
            BY <1>0, <2>1 DEF OpenEntry
        <3> QED
            BY <2>2, <2>3, <2>4, <3>1 DEF CallState
    <2>6. DOMAIN calls' = DOMAIN calls \ {inv}
        BY <1>1, <2>3 DEF Remove
    <2>7. status' = [tag   |-> IF 0 = 0 THEN "Complete" ELSE "Error",
                     state |-> [s EXCEPT !.channel = FALSE]]
        BY <1>1, <2>2, <2>3, <2>4 DEF FinishStatus
    <2>8. /\ said'.phase = IF 0 = 0 THEN "failed" ELSE "succeeded"
          /\ said'.resp = s.guest_response /\ said'.err = s.guest_error
        BY <1>1, <1>2, <2>5
    <2>9. 0 \in 0..1
        OBVIOUS
    <2> QED
        BY <1>0, <1>1, <1>2, <2>6, <2>7, <2>8, <2>9, AnswerClosesEntry
<1>3. CASE ~HasInvocation
    <2>1. ~Open /\ inv \notin DOMAIN calls
        BY <1>0, <1>3
        DEF Conversation, Entries, ClosedEntry, Open, HasInvocation
    <2>2. t = calls
        BY <2>1, LateWrites
    <2>3. u = calls
        BY <2>1, <2>2, LateWrites
    <2>4. /\ DOMAIN calls' = DOMAIN calls
          /\ UNCHANGED <<mode, inv, said, status, result>>
        BY <1>1, <1>3, <2>1, <2>3, LateWrites
    <2>5. Entries'
        BY <2>1, <2>4 DEF Conversation, Entries, Open, ClosedEntry, Holds
    <2>6. Stages' /\ Outcome'
        BY <1>0, <2>4 DEF Conversation, Stages, Outcome
    <2> QED
        BY <2>5, <2>6 DEF Conversation
<1> QED
    BY <1>2, <1>3

\* Every step keeps the conversation.
LEMMA NextConversation ==
    TypeOK /\ Locking /\ Replies /\ Conversation /\ [Next]_vars
        => Conversation'
<1> SUFFICES ASSUME TypeOK, Locking, Replies, Conversation, [Next]_vars
             PROVE  Conversation'
    OBVIOUS
<1>1. CASE \/ HostCall \/ AsyncHostCall
           \/ (\E ok \in BOOLEAN : HostCallReturns(ok))
           \/ (\E id \in DOMAIN tasks : Task(id) \/ CallbackPanics(id))
           \/ Handler \/ ResumeTraps \/ ResumePanics \/ UNCHANGED vars
    BY <1>1, OthersKeepEntry, QuietSteps
<1> QED
    BY <1>1, CallerSteps, InvokeSteps, SetterSteps, CallTrapsStep,
        TakeStateStep, ReadyStep, AsyncTrapStep
    DEF Next, Caller, Guest

\* The invariants of a call, all together.
LEMMA CallInvariant ==
    Spec => [](TypeOK /\ Locking /\ Replies /\ Conversation)
<1>1. Init => Replies /\ Conversation
    BY InitReplies, InitConversation
<1>2. TypeOK /\ Locking /\ Replies /\ Conversation /\ [Next]_vars
          => (Replies /\ Conversation)'
    BY NextReplies, NextConversation
<1> QED
    BY <1>1, <1>2, TypeCorrect, PTL DEF Spec

\* Until the guest has answered, the table has its invocation with the request
\* and the sender: the unwraps of take_state and channel.take() succeed, and
\* the oneshot is sent to once.
THEOREM InvocationStaysOpen == Spec => []OpenInvocationInTable
<1>1. TypeOK /\ Conversation => OpenInvocationInTable
    <2> SUFFICES ASSUME TypeOK, Conversation PROVE OpenInvocationInTable
        OBVIOUS
    <2>1. inv # 0 /\ said.phase \in {"idle", "working"} =>
              /\ get_guest_request(calls, inv)
              /\ calls[inv].channel
              /\ status = NoStatus
        BY Zenon DEF Conversation, Entries, Open, OpenEntry, get_guest_request
    <2>2. said.phase \in {"failed", "succeeded"} =>
              /\ inv \notin DOMAIN calls
              /\ mode = "async" => status.tag # "None"
        BY DEF Conversation, Entries, Open, ClosedEntry
    <2> QED
        BY <2>1, <2>2 DEF OpenInvocationInTable
<1> QED
    BY <1>1, CallInvariant, PTL

\* The caller gets what the guest said last before it answered, or the error
\* of a step before the guest was entered or of a panic of the host, and
\* nothing that is written later.
THEOREM ResultIsTheAnswer == Spec => []ResultMatchesGuest
<1>1. Conversation => ResultMatchesGuest
    BY DEF Conversation, Outcome, ResultMatchesGuest, EarlyErrors
<1> QED
    BY <1>1, CallInvariant, PTL

=============================================================================
