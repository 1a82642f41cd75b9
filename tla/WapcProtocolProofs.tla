------------------------- MODULE WapcProtocolProofs -------------------------
(***************************************************************************)
(* Theorems about the host's side of the conversation in WapcCall: every   *)
(* asynchronous host call is notified once, and the host keeps the         *)
(* protocol that WapcGuest relies on.                                      *)
(***************************************************************************)
EXTENDS WapcAnswerProofs, FiniteSetTheorems

USE DEF Starts, LockStore, Deliver

-----------------------------------------------------------------------------
(* The notification of an asynchronous host call.                          *)

Running(id) == tasks[id] # "done"
AtHandler(id) == hpc = "lock" /\ hmsg.id = id
InChannel(id) == \E i \in 1..Len(queue) : queue[i].id = id

\* A host call is awaited as long as its notification is with its task, in the
\* channel or with the handler; it is in one of these places only, and once.
Custody(id) ==
    /\ id \in awaiting <=> Running(id) \/ InChannel(id) \/ AtHandler(id)
    /\ ~(Running(id) /\ InChannel(id))
    /\ ~(Running(id) /\ AtHandler(id))
    /\ ~(InChannel(id) /\ AtHandler(id))
    /\ \A i, j \in 1..Len(queue) :
           queue[i].id = id /\ queue[j].id = id => i = j

Custodies == hpc # "ended" => \A id \in DOMAIN tasks : Custody(id)

\* The channel and the handler have messages of known host calls only.
LEMMA KnownIds ==
    ASSUME TypeOK, Notifications
    PROVE  /\ \A i \in 1..Len(queue) : queue[i].id \in DOMAIN tasks \cup {0}
           /\ \A i \in 1..Len(queue) : queue[i] # Close =>
                  queue[i].id \in DOMAIN tasks /\ tasks[queue[i].id] = "done"
           /\ hpc \in {"lock", "resume"} => hmsg.id \in DOMAIN tasks
           /\ 0 \notin DOMAIN tasks /\ call_index \notin DOMAIN tasks
           /\ call_index # 0
<1>1. Close.id = 0
    BY DEF Close, Message
<1> QED
    BY <1>1 DEF TypeOK, TableType, IdsType, Notifications, Delivered

\* The steps that do not move a notification, apart from the Close message.
LEMMA NotificationSteps ==
    ASSUME [Next]_vars
    PROVE  \/ /\ UNCHANGED <<tasks, awaiting, hpc, hmsg>>
              /\ queue' = queue \/ queue' = Append(queue, Close)
           \/ NewContext \/ AsyncHostCall
           \/ \E id \in DOMAIN tasks : Task(id) \/ CallbackPanics(id)
           \/ Handler \/ ResumeTraps \/ ResumePanics
BY DEF Next, Caller, Guest, vars, callerVars, handlerVars, hostCallVars,
    guestVars, Finish, ContextFails, EnterStarter, SkipStarter,
    StarterReturns, StarterTraps, Invoke, EnterCall, ExportMissing,
    CallReturns, CallTraps, TakeState, AsyncCallReturns, AsyncCallTraps,
    Receive, Cancel, CallPanics, HostCall, HostCallReturns, GuestResponse,
    GuestError, GuestResponseReady

\* Nothing is awaited at the start.
LEMMA InitCustodies == Init => Custodies
BY DEF Init, Custodies

\* Steps that neither make, answer, deliver nor receive: a Close message that
\* the drop of the context appends is nobody's notification.
LEMMA QuietCustodies ==
    ASSUME TypeOK, Notifications, Custodies, hpc # "ended",
           tasks' = tasks, awaiting' = awaiting,
           (hpc = "lock") <=> (hpc' = "lock"), hmsg' = hmsg,
           queue' = queue \/ queue' = Append(queue, Close)
    PROVE  Custodies'
<1> SUFFICES ASSUME NEW id \in DOMAIN tasks PROVE Custody(id)'
    BY DEF Custodies
<1>0. queue \in Seq(Messages) /\ id # 0 /\ Custody(id)
    BY KnownIds DEF TypeOK, ChannelType, Custodies
<1>1. Running(id)' <=> Running(id)
    BY DEF Running
<1>2. AtHandler(id)' <=> AtHandler(id)
    BY DEF AtHandler
<1>3. CASE queue' = queue
    BY <1>0, <1>1, <1>2, <1>3 DEF Custody, InChannel
<1>4. CASE queue' = Append(queue, Close)
    <2>1. /\ Len(queue') = Len(queue) + 1
          /\ \A i \in 1..Len(queue) : queue'[i] = queue[i]
          /\ queue'[Len(queue) + 1] = Close
          /\ Len(queue) \in Nat
        BY <1>0, <1>4, MessageType
    <2>2. Close.id # id
        BY <1>0 DEF Close, Message
    <2>3. \A i \in 1..Len(queue') : queue'[i].id = id =>
              i \in 1..Len(queue) /\ queue[i].id = id
        BY <2>1, <2>2
    <2>4. InChannel(id)' <=> InChannel(id)
        BY <2>1, <2>3 DEF InChannel
    <2> QED
        BY <1>0, <1>1, <1>2, <2>3, <2>4 DEF Custody
<1> QED
    BY <1>3, <1>4

\* __async_host_call: the id is new, nobody has its notification but its task.
LEMMA MadeCustodies ==
    ASSUME TypeOK, Notifications, Custodies, hpc # "ended", AsyncHostCall
    PROVE  Custodies'
<1> PICK new : new = call_index
    OBVIOUS
<1>0. /\ UNCHANGED <<queue, hpc, hmsg>>
      /\ DOMAIN tasks' = DOMAIN tasks \cup {new}
      /\ tasks'[new] = "run"
      /\ awaiting' = awaiting \cup {new}
      /\ new \notin DOMAIN tasks
      /\ \A id \in DOMAIN tasks : tasks'[id] = tasks[id]
    BY KnownIds DEF AsyncHostCall, handlerVars, Insert
<1>1. ASSUME NEW id \in DOMAIN tasks PROVE Custody(id)'
    BY <1>0, <1>1 DEF Custodies, Custody, Running, InChannel, AtHandler
<1>2. Custody(new)'
    <2>1. ~InChannel(new)' /\ ~AtHandler(new)'
        BY <1>0, KnownIds DEF InChannel, AtHandler
    <2> QED
        BY <1>0, <2>1 DEF Custody, Running, InChannel
<1> QED
    BY <1>0, <1>1, <1>2 DEF Custodies

\* A task that has stored its reply, or has panicked, still has to notify.
LEMMA ResolvedCustodies ==
    ASSUME TypeOK, Custodies, hpc # "ended", NEW id \in DOMAIN tasks,
           (\E ok \in BOOLEAN : Resolve(id, ok)) \/ CallbackPanics(id)
    PROVE  Custodies'
<1>0. /\ UNCHANGED <<queue, hpc, hmsg, awaiting>>
      /\ DOMAIN tasks' = DOMAIN tasks
      /\ \A i \in DOMAIN tasks : tasks'[i] = "done" <=> tasks[i] = "done"
    BY DEF Resolve, CallbackPanics, handlerVars, guestVars, TypeOK, IdsType
<1> QED
    BY <1>0 DEF Custodies, Custody, Running, InChannel, AtHandler

\* The notification goes from its task to the end of the channel.
LEMMA NotifyCustodies ==
    ASSUME TypeOK, Notifications, Custodies, hpc # "ended",
           NEW x \in DOMAIN tasks, Notify(x)
    PROVE  Custodies'
<1> DEFINE m == Message(x, HostCallCode(x, tasks[x] = "ok"))
<1>0. /\ UNCHANGED <<hpc, hmsg, awaiting>>
      /\ queue' = Append(queue, m)
      /\ DOMAIN tasks' = DOMAIN tasks
      /\ tasks[x] # "done" /\ tasks'[x] = "done"
      /\ \A i \in DOMAIN tasks : i # x => tasks'[i] = tasks[i]
    BY DEF Notify, guestVars, TypeOK, IdsType
<1>1. queue \in Seq(Messages) /\ m \in Messages /\ m.id = x
    <2>1. x \in Nat
        BY DEF TypeOK, IdsType
    <2>2. HostCallCode(x, tasks[x] = "ok") \in Nat
        BY <2>1 DEF HostCallCode
    <2> QED
        BY <2>1, <2>2 DEF TypeOK, ChannelType, Message, Messages
<1> HIDE DEF m
<1>2. /\ Len(queue') = Len(queue) + 1
      /\ \A i \in 1..Len(queue) : queue'[i] = queue[i]
      /\ queue'[Len(queue) + 1] = m
      /\ Len(queue) \in Nat
    BY <1>0, <1>1
<1>3. ASSUME NEW id \in DOMAIN tasks, id # x PROVE Custody(id)'
    <2>1. Custody(id)
        BY DEF Custodies
    <2>2. \A i \in 1..Len(queue') : queue'[i].id = id =>
              i \in 1..Len(queue) /\ queue[i].id = id
        BY <1>1, <1>2, <1>3
    <2>3. InChannel(id)' <=> InChannel(id)
        BY <1>2, <2>2 DEF InChannel
    <2>4. (Running(id)' <=> Running(id)) /\ (AtHandler(id)' <=> AtHandler(id))
        BY <1>0, <1>3 DEF Running, AtHandler
    <2> QED
        BY <1>0, <2>1, <2>2, <2>3, <2>4 DEF Custody
<1>4. Custody(x)'
    <2>1. Custody(x) /\ Running(x)
        BY <1>0 DEF Custodies, Running
    <2>2. ~InChannel(x) /\ ~AtHandler(x) /\ x \in awaiting
        BY <2>1 DEF Custody
    <2>3. \A i \in 1..Len(queue') : queue'[i].id = x <=> i = Len(queue) + 1
        BY <1>1, <1>2, <2>2 DEF InChannel
    <2>4. InChannel(x)'
        BY <1>2, <2>3 DEF InChannel
    <2>5. ~Running(x)' /\ ~AtHandler(x)'
        BY <1>0, <2>2 DEF Running, AtHandler
    <2> QED
        BY <1>0, <2>2, <2>3, <2>4, <2>5 DEF Custody
<1> QED
    BY <1>0, <1>3, <1>4 DEF Custodies

\* rx.recv(): the notification goes from the channel to the handler.
LEMMA RecvCustodies ==
    ASSUME TypeOK, Notifications, Custodies, Recv
    PROVE  Custodies'
<1>0. /\ hpc = "recv" /\ hpc' = "lock" /\ queue # <<>>
      /\ hmsg' = Head(queue) /\ queue' = Tail(queue)
      /\ UNCHANGED <<tasks, awaiting>>
    BY DEF Recv, hostCallVars, guestVars
<1>1. queue \in Seq(Messages)
    BY DEF TypeOK, ChannelType
<1>2. /\ Len(queue) \in Nat /\ Len(queue) > 0
      /\ hmsg' = queue[1]
      /\ Len(queue') = Len(queue) - 1
      /\ \A i \in 1..Len(queue') : queue'[i] = queue[i + 1]
    BY <1>0, <1>1
<1> SUFFICES ASSUME NEW id \in DOMAIN tasks PROVE Custody(id)'
    BY <1>0 DEF Custodies
<1>3. Custody(id)
    BY <1>0 DEF Custodies
<1>4. \A i \in 1..Len(queue') : i + 1 \in 1..Len(queue)
    BY <1>2
<1>5. InChannel(id)' => InChannel(id) /\ queue[1].id # id
    <2> SUFFICES ASSUME NEW i \in 1..Len(queue'), queue'[i].id = id
                 PROVE  InChannel(id) /\ queue[1].id # id
        BY DEF InChannel
    <2>1. i + 1 \in 1..Len(queue) /\ queue[i + 1].id = id
        BY <1>2, <1>4
    <2>2. 1 \in 1..Len(queue) /\ i + 1 # 1
        BY <1>2
    <2> QED
        BY <1>3, <2>1, <2>2 DEF Custody, InChannel
<1>6. InChannel(id) => InChannel(id)' \/ queue[1].id = id
    <2> SUFFICES ASSUME NEW i \in 1..Len(queue), queue[i].id = id, i # 1
                 PROVE  InChannel(id)'
        BY DEF InChannel
    <2>1. i - 1 \in 1..Len(queue') /\ (i - 1) + 1 = i
        BY <1>2
    <2>2. queue'[i - 1] = queue[i]
        BY <1>2, <2>1
    <2> QED
        BY <2>1, <2>2 DEF InChannel
<1>7. queue[1].id = id => InChannel(id)
    BY <1>2 DEF InChannel
<1>8. /\ AtHandler(id)' <=> queue[1].id = id
      /\ ~AtHandler(id)
      /\ Running(id)' <=> Running(id)
    BY <1>0, <1>2 DEF AtHandler, Running
<1>9. \A i, j \in 1..Len(queue') :
          queue'[i].id = id /\ queue'[j].id = id => i = j
    <2> SUFFICES ASSUME NEW i \in 1..Len(queue'), NEW j \in 1..Len(queue'),
                        queue'[i].id = id, queue'[j].id = id
                 PROVE  i = j
        OBVIOUS
    <2>1. /\ i + 1 \in 1..Len(queue) /\ queue[i + 1].id = id
          /\ j + 1 \in 1..Len(queue) /\ queue[j + 1].id = id
        BY <1>2, <1>4
    <2>2. i + 1 = j + 1
        BY <1>3, <2>1 DEF Custody
    <2> QED
        BY <2>2
<1> QED
    BY <1>0, <1>3, <1>5, <1>6, <1>7, <1>8, <1>9 DEF Custody

\* The handler calls the guest back: the host call is not awaited any more.
LEMMA ResumeCustodies ==
    ASSUME TypeOK, Notifications, Custodies, Resume
    PROVE  Custodies' /\ hmsg.id \in awaiting
<1>0. /\ hpc = "lock" /\ hpc' = "resume"
      /\ awaiting' = awaiting \ {hmsg.id}
      /\ UNCHANGED <<tasks, queue, hmsg>>
    BY DEF Resume, hostCallVars
<1>1. hmsg.id \in DOMAIN tasks
    BY <1>0, KnownIds
<1>2. ASSUME NEW id \in DOMAIN tasks PROVE Custody(id)'
    <2>1. Custody(id)
        BY <1>0 DEF Custodies
    <2>2. /\ InChannel(id)' <=> InChannel(id)
          /\ Running(id)' <=> Running(id)
          /\ ~AtHandler(id)'
          /\ AtHandler(id) <=> id = hmsg.id
        BY <1>0 DEF InChannel, Running, AtHandler
    <2> QED
        BY <1>0, <2>1, <2>2 DEF Custody
<1>3. hmsg.id \in awaiting
    BY <1>0, <1>1 DEF Custodies, Custody, AtHandler
<1> QED
    BY <1>0, <1>2, <1>3 DEF Custodies

\* Every step keeps every notification in one place.
LEMMA NextCustodies ==
    TypeOK /\ Locking /\ Notifications /\ Custodies /\ [Next]_vars
        => Custodies'
<1> SUFFICES ASSUME TypeOK, Locking, Notifications, Custodies, [Next]_vars
             PROVE  Custodies'
    OBVIOUS
<1>1. CASE hpc = "ended"
    <2>1. hpc' = "ended"
        BY <1>1, NotificationSteps
        DEF NewContext, AsyncHostCall, Task, Resolve, Notify, CallbackPanics,
            Handler, Recv, Closed, Aborted, Resume, ResumeReturns,
            ResumeTraps, ResumePanics, handlerVars, Locking
    <2> QED
        BY <2>1 DEF Custodies
<1>2. CASE hpc # "ended"
    <2>1. CASE Closed \/ Aborted \/ ResumePanics
        BY <2>1 DEF Closed, Aborted, ResumePanics, Custodies
    <2>2. CASE NewContext \/ ResumeReturns \/ ResumeTraps
        <3>1. /\ UNCHANGED <<tasks, awaiting, queue, hmsg>>
              /\ hpc = "lock" <=> hpc' = "lock"
            BY <2>2 DEF NewContext, ResumeReturns, ResumeTraps, hostCallVars,
                guestVars, Locking
        <3> QED
            BY <1>2, <3>1, QuietCustodies
    <2> QED
        BY <1>2, <2>1, <2>2, NotificationSteps, QuietCustodies, MadeCustodies,
            ResolvedCustodies, NotifyCustodies, RecvCustodies, ResumeCustodies
        DEF Task, Handler
<1> QED
    BY <1>1, <1>2

\* Custody, counted: one holder for a host call that is awaited, else none.
LEMMA CustodyHolders ==
    ASSUME TypeOK, NEW id \in DOMAIN tasks, Custody(id)
    PROVE  /\ id \in awaiting => \E h \in -1..Len(queue) : Holders(id) = {h}
           /\ id \notin awaiting => Holders(id) = {}
<1>0. Len(queue) \in Nat
    BY DEF TypeOK, ChannelType
<1>1. CASE Running(id)
    <2>1. ~InChannel(id) /\ ~AtHandler(id) /\ id \in awaiting
        BY <1>1 DEF Custody
    <2>2. Holders(id) = {-1}
        BY <1>1, <2>1 DEF Running, InChannel, AtHandler, Holders
    <2> QED
        BY <1>0, <2>1, <2>2
<1>2. CASE ~Running(id) /\ AtHandler(id)
    <2>1. ~InChannel(id) /\ id \in awaiting
        BY <1>2 DEF Custody
    <2>2. Holders(id) = {0}
        BY <1>2, <2>1 DEF Running, InChannel, AtHandler, Holders
    <2> QED
        BY <1>0, <2>1, <2>2
<1>3. CASE ~Running(id) /\ ~AtHandler(id) /\ InChannel(id)
    <2>1. PICK h \in 1..Len(queue) : queue[h].id = id
        BY <1>3 DEF InChannel
    <2>2. id \in awaiting
        BY <1>3 DEF Custody
    <2>3. {i \in 1..Len(queue) : queue[i].id = id} = {h}
        BY <2>1 DEF Custody
    <2>4. Holders(id) = {h}
        BY <1>3, <2>3 DEF Running, AtHandler, Holders
    <2> QED
        BY <1>0, <2>1, <2>2, <2>4
<1>4. CASE ~Running(id) /\ ~AtHandler(id) /\ ~InChannel(id)
    <2>1. id \notin awaiting
        BY <1>4 DEF Custody
    <2>2. Holders(id) = {}
        BY <1>4 DEF Running, AtHandler, InChannel, Holders
    <2> QED
        BY <2>1, <2>2
<1> QED
    BY <1>1, <1>2, <1>3, <1>4

\* The invariants of the notifications, with those they rest on.
LEMMA NotificationInvariant ==
    Spec => [](TypeOK /\ Locking /\ Replies /\ Notifications /\ Custodies)
<1>1. Init => Replies /\ Notifications /\ Custodies
    BY InitReplies, InitCustodies DEF Init, Notifications
<1>2. TypeOK /\ Locking /\ Replies /\ Notifications /\ Custodies /\ [Next]_vars
          => (Replies /\ Notifications /\ Custodies)'
    BY NextReplies, NextNotifications, NextCustodies
<1> QED
    BY <1>1, <1>2, TypeCorrect, PTL DEF Spec

\* No notification of an asynchronous host call is lost or duplicated on its
\* way from its task through the channel to the guest, for any number of host
\* calls, as long as the handler lives.
THEOREM NotificationsExact == Spec => []NotifiedExactlyOnce
<1>1. TypeOK /\ Custodies => NotifiedExactlyOnce
    <2> SUFFICES ASSUME TypeOK, Custodies, hpc # "ended"
                 PROVE  /\ \A id \in awaiting :
                               \E h \in -1..Len(queue) : Holders(id) = {h}
                        /\ \A id \in DOMAIN tasks \ awaiting : Holders(id) = {}
        BY DEF NotifiedExactlyOnce
    <2>1. awaiting \subseteq DOMAIN tasks
        BY DEF TypeOK, IdsType
    <2> QED
        BY <2>1, CustodyHolders DEF Custodies
<1> QED
    BY <1>1, NotificationInvariant, PTL

-----------------------------------------------------------------------------
(* The host keeps its side of the protocol.                                *)

\* The ids that are given out stay within the bound on host calls.
WithinBound == HostCallsMade =< MaxHostCalls

\* Every id is drawn by new_invocation or by a host call below the bound.
LEMMA NextWithinBound ==
    TypeOK /\ Conversation /\ WithinBound /\ [Next]_vars => WithinBound'
<1> SUFFICES ASSUME TypeOK, Conversation, WithinBound, [Next]_vars
             PROVE  WithinBound'
    OBVIOUS
<1>0. call_index \in Nat \ {0} /\ MaxHostCalls \in Nat
    BY MaxHostCallsAssumption DEF TypeOK, TableType
<1>1. CASE UNCHANGED <<call_index, inv>>
    BY <1>1 DEF WithinBound, HostCallsMade
<1>2. CASE Invoke
    <2>1. inv = 0 /\ inv' = call_index /\ call_index' = call_index + 1
        BY <1>2 DEF Invoke, NewInvocation, Conversation, Stages
    <2> QED
        BY <1>0, <2>1 DEF WithinBound, HostCallsMade
<1>3. CASE HostCall \/ AsyncHostCall
    <2>1. /\ HostCallsMade < MaxHostCalls /\ call_index' = call_index + 1
          /\ inv' = inv
        BY <1>3 DEF HostCall, AsyncHostCall, NewHostCall, callerVars
    <2> QED
        BY <1>0, <2>1 DEF WithinBound, HostCallsMade
<1> QED
    <2>1. UNCHANGED <<call_index, inv>> \/ Invoke \/ HostCall \/ AsyncHostCall
        BY DEF Next, Caller, Guest, Task, Handler, vars, stateVars, callerVars,
            NewContext, ContextFails, EnterStarter, SkipStarter,
            StarterReturns, StarterTraps, EnterCall, ExportMissing,
            CallReturns, CallTraps, TakeState, AsyncCallReturns,
            AsyncCallTraps, Receive, Cancel, CallPanics, HostCallReturns,
            GuestResponse, GuestError, GuestResponseReady, Resolve, Notify,
            CallbackPanics, Recv, Closed, Aborted, Resume, ResumeReturns,
            ResumeTraps, ResumePanics
    <2> QED
        BY <1>1, <1>2, <1>3, <2>1

\* The ids of the protocol: every invocation and every host call is one.
LEMMA ProtocolIds ==
    ASSUME TypeOK, WithinBound
    PROVE  /\ inv # 0 => inv \in 1..(MaxHostCalls + 1)
           /\ HostCallsMade < MaxHostCalls =>
                  call_index \in 1..(MaxHostCalls + 1)
           /\ DOMAIN tasks \subseteq 1..(MaxHostCalls + 1)
BY MaxHostCallsAssumption
DEF TypeOK, TableType, IdsType, WithinBound, HostCallsMade

\* A frame of the guest is on some stack.
InFrame == pc \in {"starting", "call"} \/ hpc = "resume"

\* The guest waits for finitely many host calls.
LEMMA AwaitingFinite == TypeOK => IsFiniteSet(awaiting)
<1> SUFFICES ASSUME TypeOK PROVE IsFiniteSet(awaiting)
    OBVIOUS
<1>1. awaiting \in SUBSET (1..(call_index - 1))
    BY DEF TypeOK, IdsType
<1>2. 1 \in Int /\ call_index - 1 \in Int
    BY DEF TypeOK, TableType
<1>3. IsFiniteSet(1..(call_index - 1))
    BY <1>2, FS_Interval
<1> QED
    BY <1>1, <1>3, FS_Subset

\* The guest may leave its frame when nothing is open ...
LEMMA ParkedEmpty == TypeOK => Protocol!Parked({})
<1> SUFFICES ASSUME TypeOK PROVE Protocol!Parked({})
    OBVIOUS
<1>1. IsFiniteSet(awaiting)
    BY AwaitingFinite
<1>2. Cardinality({}) =< Cardinality(awaiting)
    BY <1>1, FS_EmptySet, FS_CardinalityType
<1>3. /\ Protocol!Cardinality({}) = Cardinality({})
      /\ Protocol!Cardinality(awaiting) = Cardinality(awaiting)
    BY Zenon DEF Protocol!Cardinality, Cardinality
<1> QED
    BY <1>2, <1>3 DEF Protocol!Parked

\* ... or when it waits for a host call.
LEMMA ParkedAwaiting ==
    ASSUME TypeOK, awaiting # {}, NEW i
    PROVE  Protocol!Parked({i})
<1>1. IsFiniteSet(awaiting)
    BY AwaitingFinite
<1>2. PICK x : x \in awaiting
    OBVIOUS
<1>3. Cardinality({x}) = 1 /\ Cardinality({i}) = 1
    BY FS_Singleton
<1>4. Cardinality({x}) =< Cardinality(awaiting)
    <2>1. {x} \in SUBSET awaiting
        BY <1>2
    <2> QED
        BY <1>1, <2>1, FS_Subset
<1>5. /\ Protocol!Cardinality({i}) = Cardinality({i})
      /\ Protocol!Cardinality(awaiting) = Cardinality(awaiting)
    BY Zenon DEF Protocol!Cardinality, Cardinality
<1>6. Cardinality({i}) =< Cardinality(awaiting)
    BY <1>3, <1>4
<1> QED
    BY <1>5, <1>6 DEF Protocol!Parked

\* Before the call is over its result is still pending.
LEMMA NoPanicYet ==
    ASSUME Conversation, pc # "done" PROVE result.err # "host_panic"
BY DEF Conversation, Outcome, Pending

\* What the protocol sees of a call: whether a frame is open, whether the
\* invocation is, whether it is answered, and the host calls.
SameView ==
    /\ InFrame' <=> InFrame
    /\ Unanswered' <=> Unanswered
    /\ said'.phase = "idle" <=> said.phase = "idle"
    /\ said.phase # "idle" => inv' = inv
    /\ DOMAIN tasks' = DOMAIN tasks
    /\ awaiting' = awaiting

\* A step that changes nothing of it is invisible to the protocol.
LEMMA HiddenStep ==
    ASSUME SameView
    PROVE  [Protocol!Next]_(Protocol!vars)
<1>1. Unanswered => said.phase # "idle"
    BY DEF Unanswered, HasInvocation
<1>2. (IF Unanswered THEN {inv} ELSE {})' = IF Unanswered THEN {inv} ELSE {}
    BY <1>1 DEF SameView
<1>3. (IF Unanswered \/ said.phase = "idle" THEN {} ELSE {inv})'
          = IF Unanswered \/ said.phase = "idle" THEN {} ELSE {inv}
    BY DEF SameView
<1>4. (pc \in {"starting", "call"} \/ hpc = "resume")'
          = (pc \in {"starting", "call"} \/ hpc = "resume")
    BY DEF SameView, InFrame
<1>5. (DOMAIN tasks)' = DOMAIN tasks /\ awaiting' = awaiting
    BY DEF SameView
<1> QED
    BY <1>2, <1>3, <1>4, <1>5 DEF Protocol!vars

\* The frames of the starters, before the first invocation.
LEMMA StarterFrames ==
    ASSUME TypeOK, Locking, Conversation,
           EnterStarter \/ StarterReturns \/ StarterTraps
    PROVE  [Protocol!Next]_(Protocol!vars)
<1>0. /\ said.phase = "idle" /\ said' = said
      /\ UNCHANGED <<tasks, awaiting>>
    BY DEF Conversation, Stages, EnterStarter, StarterReturns, StarterTraps,
        hostCallVars, guestVars
<1>1. ~Unanswered /\ ~Unanswered'
    BY <1>0 DEF Unanswered, HasInvocation
<1>2. CASE EnterStarter
    <2>1. ~InFrame /\ InFrame'
        BY <1>2 DEF EnterStarter, Locking, InFrame
    <2> QED
        BY <1>0, <1>1, <2>1 DEF Protocol!Next, Protocol!Start, InFrame
<1>3. CASE StarterReturns \/ StarterTraps
    <2>1. InFrame /\ ~InFrame'
        BY <1>3 DEF StarterReturns, StarterTraps, Finish, AfterStarter,
            handlerVars, Locking, InFrame
    <2> QED
        BY <1>0, <1>1, <2>1, ParkedEmpty
        DEF Protocol!Next, Protocol!Leave, InFrame
<1> QED
    BY <1>2, <1>3

\* The frame that gets the invocation.
LEMMA EnterFrame ==
    ASSUME TypeOK, Locking, Conversation, WithinBound, EnterCall
    PROVE  [Protocol!Next]_(Protocol!vars)
<1>0. /\ said.phase = "idle" /\ said'.phase = "working"
      /\ inv # 0 /\ inv' = inv /\ pc' = "call"
      /\ UNCHANGED <<tasks, awaiting>>
    BY DEF Conversation, Stages, EnterCall, hostCallVars, TypeOK, AnswerType,
        Said
<1>1. result'.err # "host_panic"
    BY NoPanicYet DEF EnterCall
<1>2. ~Unanswered /\ Unanswered'
    BY <1>0, <1>1 DEF Unanswered, HasInvocation
<1>3. ~InFrame /\ InFrame'
    BY DEF EnterCall, Locking, InFrame
<1>4. inv \in 1..(MaxHostCalls + 1)
    BY <1>0, ProtocolIds
<1>5. Protocol!Enter(inv)
    BY <1>0, <1>2, <1>3 DEF Protocol!Enter, Protocol!New, InFrame
<1> QED
    BY <1>4, <1>5 DEF Protocol!Next

\* A synchronous frame answers by its end, and so does a trap.
LEMMA ReturnFrames ==
    ASSUME TypeOK, Locking, Conversation, WithinBound,
           \/ (\E c \in 0..1 : CallReturns(c)) \/ CallTraps
           \/ AsyncCallTraps /\ HasInvocation
    PROVE  [Protocol!Next]_(Protocol!vars)
<1>0. /\ pc = "call" /\ pc' \in {"take", "await"} /\ hpc' = hpc
      /\ inv # 0 /\ inv' = inv /\ mode' = mode
      /\ UNCHANGED <<tasks, awaiting>>
    BY DEF Conversation, Stages, CallReturns, CallTraps, AsyncCallTraps,
        hostCallVars, handlerVars, guestVars
<1>1. said.phase = "working" /\ Unanswered
    BY <1>0, NoPanicYet DEF Conversation, Stages, CallReturns, CallTraps, Unanswered,
        HasInvocation
<1>2. ~Unanswered' /\ said'.phase # "idle"
    <2>1. CASE AsyncCallTraps
        BY <1>1, <2>1 DEF AsyncCallTraps, HasInvocation, Unanswered
    <2>2. CASE (\E c \in 0..1 : CallReturns(c)) \/ CallTraps
        <3>1. mode' = "sync" /\ pc' = "take"
            BY <2>2 DEF CallReturns, CallTraps
        <3>2. said'.phase = said.phase
            BY <2>2
            DEF CallReturns, CallTraps, guestVars, TypeOK, AnswerType, Said
        <3> QED
            BY <1>1, <3>1, <3>2 DEF Unanswered
    <2> QED
        BY <2>1, <2>2
<1>3. InFrame /\ ~InFrame'
    BY <1>0 DEF InFrame, Locking
<1>4. inv \in 1..(MaxHostCalls + 1)
    BY <1>0, ProtocolIds
<1>5. Protocol!Return(inv)
    BY <1>0, <1>1, <1>2, <1>3, ParkedEmpty DEF Protocol!Return, InFrame
<1> QED
    BY <1>4, <1>5 DEF Protocol!Next

\* An asynchronous frame ends before the answer only to wait for a host call.
LEMMA LeaveFrames ==
    ASSUME TypeOK, Locking, Conversation,
           \/ AsyncCallReturns \/ ResumeReturns
           \/ AsyncCallTraps /\ ~HasInvocation
    PROVE  [Protocol!Next]_(Protocol!vars)
<1>0. /\ UNCHANGED <<said, inv, mode, result, tasks, awaiting>>
      /\ said.phase # "idle" => inv # 0
    BY DEF Conversation, Stages, AsyncCallReturns, ResumeReturns,
        AsyncCallTraps, callerVars, hostCallVars, guestVars
<1>1. InFrame /\ ~InFrame'
    BY DEF AsyncCallReturns, ResumeReturns, AsyncCallTraps, handlerVars,
        callerVars, Locking, InFrame
<1>2. Unanswered' <=> Unanswered
    BY <1>0 DEF Unanswered, HasInvocation, AsyncCallReturns, ResumeReturns,
        AsyncCallTraps, callerVars
<1>3. Unanswered => awaiting # {}
    <2> SUFFICES ASSUME Unanswered PROVE awaiting # {}
        OBVIOUS
    <2>1. CASE AsyncCallReturns \/ ResumeReturns
        <3>1. mode = "async"
            BY <2>1 DEF AsyncCallReturns, ResumeReturns, Unanswered,
                HasInvocation, Conversation, Stages, Locking, TypeOK,
                CallerType
        <3> QED
            BY <2>1, <3>1
            DEF AsyncCallReturns, ResumeReturns, MayLeave, Unanswered
    <2> QED
        BY <2>1 DEF Unanswered
<1>4. Protocol!Parked(IF Unanswered THEN {inv} ELSE {})
    BY <1>3, ParkedEmpty, ParkedAwaiting
<1>5. Protocol!Leave
    BY <1>0, <1>1, <1>2, <1>4 DEF Protocol!Leave, InFrame
<1> QED
    BY <1>5 DEF Protocol!Next

\* __guest_response_ready answers within a frame, but for a call that a panic
\* of the host has ended.
LEMMA ReadyFrame ==
    ASSUME TypeOK, Conversation, WithinBound,
           NEW c \in 0..1, GuestResponseReady(c)
    PROVE  [Protocol!Next]_(Protocol!vars)
<1>0. /\ UNCHANGED <<mode, pc, hpc, inv, result, tasks, awaiting>>
      /\ said.phase = "working" /\ mode = "async" /\ inv # 0
    BY DEF GuestResponseReady, callerVars, handlerVars, hostCallVars,
        HasInvocation, Conversation, Stages
<1>1. said'.phase \in {"failed", "succeeded"}
    BY DEF GuestResponseReady, TypeOK, AnswerType, Said
<1>2. ~Unanswered'
    BY <1>1 DEF Unanswered, HasInvocation
<1>3. InFrame /\ InFrame'
    BY <1>0 DEF GuestResponseReady, InGuest, InFrame
<1>4. CASE result.err # "host_panic"
    <2>1. Unanswered
        BY <1>0, <1>4 DEF Unanswered, HasInvocation
    <2>2. inv \in 1..(MaxHostCalls + 1)
        BY <1>0, ProtocolIds
    <2>3. Protocol!Answer(inv)
        BY <1>0, <1>1, <1>2, <1>3, <2>1 DEF Protocol!Answer, InFrame
    <2> QED
        BY <2>2, <2>3 DEF Protocol!Next
<1>5. CASE result.err = "host_panic"
    <2>1. ~Unanswered
        BY <1>5 DEF Unanswered
    <2>2. SameView
        BY <1>0, <1>1, <1>2, <1>3, <2>1 DEF SameView
    <2> QED
        BY <2>2, HiddenStep
<1> QED
    BY <1>4, <1>5

\* A panic of the host ends the frame, and with it the invocation if the guest
\* has one that it has not answered.
LEMMA PanicFrame ==
    ASSUME TypeOK, Locking, Conversation, WithinBound, CallPanics
    PROVE  [Protocol!Next]_(Protocol!vars)
<1>0. /\ UNCHANGED <<said, inv, mode, hpc, tasks, awaiting>>
      /\ pc \in {"starting", "call"} /\ pc' = "done"
      /\ said.phase # "idle" => inv # 0
      /\ result'.err = "host_panic"
    BY DEF CallPanics, Finish, ErrResult, guestVars, Conversation, Stages
<1>1. InFrame /\ ~InFrame'
    BY <1>0 DEF InFrame, Locking
<1>2. ~Unanswered'
    BY <1>0 DEF Unanswered
<1>3. CASE Unanswered
    <2>1. said.phase = "working" /\ inv # 0
        BY <1>0, <1>3 DEF Unanswered, HasInvocation
    <2>2. inv \in 1..(MaxHostCalls + 1)
        BY <2>1, ProtocolIds
    <2>3. Protocol!Return(inv)
        BY <1>0, <1>1, <1>2, <1>3, <2>1, ParkedEmpty
        DEF Protocol!Return, InFrame
    <2> QED
        BY <2>2, <2>3 DEF Protocol!Next
<1>4. CASE ~Unanswered
    <2>1. Protocol!Leave
        BY <1>0, <1>1, <1>2, <1>4, ParkedEmpty DEF Protocol!Leave, InFrame
    <2> QED
        BY <2>1 DEF Protocol!Next
<1> QED
    BY <1>3, <1>4

\* __async_host_call has an id of its own.
LEMMA HostCallFrame ==
    ASSUME TypeOK, WithinBound, AsyncHostCall
    PROVE  [Protocol!Next]_(Protocol!vars)
<1> PICK new : new = call_index
    OBVIOUS
<1>0. /\ UNCHANGED <<mode, pc, hpc, inv, result, said>>
      /\ awaiting' = awaiting \cup {new}
      /\ DOMAIN tasks' = DOMAIN tasks \cup {new}
      /\ new \notin DOMAIN tasks
      /\ InFrame
    BY DEF AsyncHostCall, callerVars, handlerVars, Insert, InGuest, InFrame,
        TypeOK, TableType, IdsType
<1>1. Unanswered' <=> Unanswered
    BY <1>0 DEF Unanswered, HasInvocation
<1>2. InFrame'
    BY <1>0 DEF InFrame
<1>3. new \in 1..(MaxHostCalls + 1)
    BY ProtocolIds DEF AsyncHostCall
<1>4. Protocol!CallHost(new)
    BY <1>0, <1>1, <1>2 DEF Protocol!CallHost, InFrame
<1> QED
    BY <1>3, <1>4 DEF Protocol!Next

\* The handler calls the guest back for a host call it is owed.
LEMMA CallBackFrame ==
    ASSUME TypeOK, Locking, WithinBound, Notifications, Custodies, Resume
    PROVE  [Protocol!Next]_(Protocol!vars)
<1> PICK x : x = hmsg.id
    OBVIOUS
<1>0. /\ UNCHANGED <<mode, pc, inv, result, said, tasks>>
      /\ awaiting' = awaiting \ {x}
      /\ ~InFrame /\ InFrame'
    BY DEF Resume, callerVars, hostCallVars, InFrame, Locking
<1>1. x \in awaiting /\ x \in 1..(MaxHostCalls + 1)
    BY ResumeCustodies, ProtocolIds DEF TypeOK, IdsType
<1>2. Unanswered' <=> Unanswered
    BY <1>0 DEF Unanswered, HasInvocation
<1>3. Protocol!CallBack(x)
    BY <1>0, <1>1, <1>2 DEF Protocol!CallBack, InFrame
<1> QED
    BY <1>1, <1>3 DEF Protocol!Next

\* The caller outside the guest's frames.
LEMMA HiddenCaller ==
    ASSUME TypeOK, Locking, Conversation,
           \/ NewContext \/ ContextFails \/ SkipStarter \/ Invoke
           \/ ExportMissing \/ TakeState \/ Receive \/ Cancel
    PROVE  SameView
<1>0. UNCHANGED <<mode, tasks, awaiting>>
    BY DEF NewContext, ContextFails, SkipStarter, Invoke, ExportMissing,
        TakeState, Receive, Cancel, hostCallVars, guestVars
<1>1. InFrame' <=> InFrame
    BY DEF NewContext, ContextFails, SkipStarter, Invoke, ExportMissing,
        TakeState, Receive, Cancel, Finish, AfterStarter, handlerVars,
        InFrame, Locking
<1>2. CASE TakeState
    <2>1. /\ said.phase = "working" /\ mode = "sync" /\ pc' = "done"
          /\ said'.phase # "idle" /\ inv' = inv /\ pc = "take"
        BY <1>2 DEF TakeState, Finish, Conversation, Stages, TypeOK,
            AnswerType, Said
    <2>2. ~Unanswered /\ ~Unanswered'
        BY <1>0, <2>1 DEF Unanswered
    <2> QED
        BY <1>0, <1>1, <2>1, <2>2 DEF SameView
<1>3. CASE NewContext \/ ContextFails \/ SkipStarter \/ Invoke \/ ExportMissing
    <2>1. said.phase = "idle" /\ said' = said
        BY <1>3 DEF NewContext, ContextFails, SkipStarter, Invoke,
            ExportMissing, Conversation, Stages, guestVars
    <2>2. ~Unanswered /\ ~Unanswered'
        BY <2>1 DEF Unanswered, HasInvocation
    <2> QED
        BY <1>0, <1>1, <2>1, <2>2 DEF SameView
<1>4. CASE Receive \/ Cancel
    <2>1. said' = said /\ inv' = inv /\ mode = "async"
        BY <1>4 DEF Receive, Cancel, guestVars, Conversation, Stages
    <2>2. result.err # "host_panic"
        BY <1>4, NoPanicYet DEF Receive, Cancel
    <2>3. result'.err # "host_panic"
        <3>1. CASE Cancel
            BY <3>1 DEF Cancel, Finish, ErrResult
        <3>2. CASE Receive
            <4>1. status.state.guest_error \in GuestErrors
                BY <3>2 DEF Receive, TypeOK, AnswerType, CallStatus, CallState
            <4> QED
                BY <3>2, <4>1 DEF Receive, Finish, FailureArm, SuccessArm,
                    ErrResult, OkResult, GuestErrors
        <3> QED
            BY <1>4, <3>1, <3>2
    <2>4. Unanswered' <=> Unanswered
        BY <1>0, <2>1, <2>2, <2>3 DEF Unanswered, HasInvocation
    <2> QED
        BY <1>0, <1>1, <2>1, <2>4 DEF SameView
<1> QED
    BY <1>2, <1>3, <1>4

\* Synchronous host calls, the setters, the tasks, and the handler apart from
\* its calls of the guest.
LEMMA HiddenOthers ==
    ASSUME TypeOK, Conversation,
           \/ HostCall \/ (\E ok \in BOOLEAN : HostCallReturns(ok))
           \/ (\E p \in Payload : GuestResponse(p)) \/ GuestError
           \/ (\E id \in DOMAIN tasks : Task(id) \/ CallbackPanics(id))
           \/ Recv \/ Closed \/ Aborted \/ UNCHANGED vars
    PROVE  SameView
<1>0. /\ UNCHANGED <<mode, pc, inv, result, awaiting>>
      /\ hpc' = "resume" <=> hpc = "resume"
    BY DEF HostCall, HostCallReturns, GuestResponse, GuestError, Task,
        Resolve, Notify, CallbackPanics, Recv, Closed, Aborted, vars,
        callerVars, handlerVars, guestVars
<1>1. DOMAIN tasks' = DOMAIN tasks
    BY DEF HostCall, HostCallReturns, GuestResponse, GuestError, Task,
        Resolve, Notify, CallbackPanics, Recv, Closed, Aborted, vars,
        hostCallVars
<1>2. said'.phase = said.phase
    BY DEF HostCall, HostCallReturns, GuestResponse, GuestError, Task,
        Resolve, Notify, CallbackPanics, Recv, Closed, Aborted, vars,
        guestVars, TypeOK, AnswerType, Said
<1>3. Unanswered' <=> Unanswered
    BY <1>0, <1>2 DEF Unanswered, HasInvocation
<1> QED
    BY <1>0, <1>1, <1>2, <1>3 DEF SameView, InFrame

\* Every step of a call is a step of the protocol or invisible to it, unless
\* a guest that is called back traps or its host panics there.
LEMMA NextProtocol ==
    ASSUME TypeOK, Locking, Conversation, WithinBound, Notifications,
           Custodies, [Next]_vars,
           "resume_trap" \notin Faults, "resume_panic" \notin Faults
    PROVE  [Protocol!Next]_(Protocol!vars)
<1>1. CASE \/ NewContext \/ ContextFails \/ SkipStarter \/ Invoke
           \/ ExportMissing \/ TakeState \/ Receive \/ Cancel
    BY <1>1, HiddenCaller, HiddenStep
<1>2. CASE \/ HostCall \/ (\E ok \in BOOLEAN : HostCallReturns(ok))
           \/ (\E p \in Payload : GuestResponse(p)) \/ GuestError
           \/ (\E id \in DOMAIN tasks : Task(id) \/ CallbackPanics(id))
           \/ Recv \/ Closed \/ Aborted \/ UNCHANGED vars
    BY <1>2, HiddenOthers, HiddenStep
<1>3. ~ResumeTraps /\ ~ResumePanics
    BY DEF ResumeTraps, ResumePanics
<1> QED
    BY <1>1, <1>2, <1>3, StarterFrames, EnterFrame, ReturnFrames, LeaveFrames,
        ReadyFrame, HostCallFrame, CallBackFrame, PanicFrame
    DEF Next, Caller, Guest, Handler

\* The host enters the guest with one invocation, never while it is running,
\* and calls it back once for each of its asynchronous host calls: what
\* WapcGuest assumes of a host, for every bound and every fault but those of a
\* guest that is called back: the Err of its trap is discarded by the handler
\* and a panic kills the handler, so a frame ends with the invocation open.
THEOREM HostKeepsProtocol ==
    ASSUME "resume_trap" \notin Faults, "resume_panic" \notin Faults
    PROVE  Spec => KeepsProtocol
<1>1. Init => Protocol!Init
    BY DEF Init, Protocol!Init, Unanswered, HasInvocation
<1>2. Init => WithinBound
    BY MaxHostCallsAssumption
    DEF Init, ModuleStateInit, WithinBound, HostCallsMade
<1>3. TypeOK /\ Conversation /\ WithinBound /\ [Next]_vars => WithinBound'
    BY NextWithinBound
<1>4. TypeOK /\ Locking /\ Conversation /\ WithinBound /\ Notifications
          /\ Custodies /\ [Next]_vars => [Protocol!Next]_(Protocol!vars)
    BY NextProtocol
<1> QED
    BY <1>1, <1>2, <1>3, <1>4, CallInvariant, NotificationInvariant, PTL
    DEF Spec, KeepsProtocol, Protocol!Spec

=============================================================================
