--------------------------- MODULE HostPoolProofs ---------------------------
(***************************************************************************)
(* Theorems about HostPool, for every finite set of calls, every minimum   *)
(* and maximum of threads and every set of events.                         *)
(***************************************************************************)
EXTENDS HostPool, FiniteSetTheorems, TLAPS

USE DEF AfterTimeout, Received, HasClosure, Started

-----------------------------------------------------------------------------
(* The inductive invariant, in named parts.                                *)

\* The calls that are past their chance to grow the pool.
Past == {c \in Callers : cpc[c] \in {"blocked", "waiting", "done"}}

\* A call queues at most one closure, on its way to the second send.
QueueBounded == queued =< Cardinality(Past)

\* Core threads stay as long as the pool is open.
CoreStays == pool = "open" => \A w \in CoreThreads : loop[w] # "none"

\* Only the loop of a worker has a request in its hands.
JobsInLoops ==
    \A w \in Threads : job[w] # NoCall => loop[w] \in {"core", "elastic"}

\* No two workers have the same request.
JobsDistinct ==
    \A v, w \in Threads : job[v] # NoCall /\ job[v] = job[w] => v = w

Held(c) == \E w \in Threads : job[w] = c

\* Where a request is: nowhere until it is sent, then in the channel, with a
\* worker or executed, and never in two of these places.
Located(c) ==
    /\ slot = c => ~Held(c)
    /\ cpc[c] \in {"waiting", "done"} =>
           ran[c] = IF slot = c \/ Held(c) THEN 0 ELSE 1
    /\ cpc[c] \notin {"waiting", "done"} =>
           ran[c] = 0 /\ slot # c /\ ~Held(c)

\* New threads start only below the maximum, so that they find a free name.
WithinMax == Cardinality(Live) =< max_threads

Size == CoreStays /\ WithinMax /\ QueueBounded /\ JobsInLoops

Requests ==
    /\ JobsDistinct
    /\ \A c \in Callers : Located(c)

-----------------------------------------------------------------------------
(* Finite sets of threads and calls.                                       *)

\* There are finitely many thread names, more than the maximum.
LEMMA ThreadsFinite ==
    /\ Cardinality(Callers) \in Nat
    /\ IsFiniteSet(Threads)
    /\ Cardinality(Threads) = max_threads + Cardinality(Callers)
    /\ CoreThreads \subseteq Threads
<1>1. Cardinality(Callers) \in Nat
    BY CallersAssumption, FS_CardinalityType
<1>2. /\ IsFiniteSet(Threads)
      /\ Cardinality(Threads) = max_threads + Cardinality(Callers)
    <2> DEFINE n == max_threads + Cardinality(Callers)
    <2>1. 1 \in Int /\ n \in Nat /\ n > 0 /\ n \in Int
        BY <1>1, SizesAssumption
    <2> HIDE DEF n
    <2>2. IsFiniteSet(1..n) /\ Cardinality(1..n) = IF 1 > n THEN 0 ELSE n-1+1
        BY <2>1, FS_Interval
    <2>3. IsFiniteSet(1..n) /\ Cardinality(1..n) = n
        BY <2>1, <2>2
    <2> QED
        BY <2>3 DEF Threads, n
<1>3. CoreThreads \subseteq Threads
    BY <1>1, SizesAssumption DEF Threads, CoreThreads
<1> QED
    BY <1>1, <1>2, <1>3

\* The live threads are finitely many, and so are those of the next state.
LEMMA LiveFinite ==
    /\ IsFiniteSet(Live) /\ Cardinality(Live) \in Nat
    /\ IsFiniteSet(Live') /\ Cardinality(Live') \in Nat
<1>1. Live \in SUBSET Threads /\ Live' \in SUBSET Threads
    BY DEF Live
<1> QED
    BY <1>1, ThreadsFinite, FS_Subset, FS_CardinalityType

\* Threads that only leave, or change what they run, keep the pool in bounds.
LEMMA FewerThreads ==
    ASSUME WithinMax, Live' \subseteq Live
    PROVE  WithinMax'
<1>1. Cardinality(Live') =< Cardinality(Live)
    BY LiveFinite, FS_Subset
<1> QED
    BY <1>1, LiveFinite, SizesAssumption DEF WithinMax

\* The calls past their chance to grow are finitely many.
LEMMA PastFinite ==
    /\ IsFiniteSet(Past) /\ Cardinality(Past) \in 0..Cardinality(Callers)
    /\ IsFiniteSet(Past') /\ Cardinality(Past') \in 0..Cardinality(Callers)
<1>1. Past \in SUBSET Callers /\ Past' \in SUBSET Callers
    BY DEF Past
<1>2. /\ IsFiniteSet(Past) /\ Cardinality(Past) =< Cardinality(Callers)
      /\ IsFiniteSet(Past') /\ Cardinality(Past') =< Cardinality(Callers)
    BY <1>1, CallersAssumption, FS_Subset
<1>3. Cardinality(Past) \in Nat /\ Cardinality(Past') \in Nat
    BY <1>2, FS_CardinalityType
<1> QED
    BY <1>2, <1>3, ThreadsFinite

\* ThreadPool::execute finds a name for a new thread: with all core threads
\* alive and fewer than max_threads in all, some other thread is free.
LEMMA NewThreadExists ==
    ASSUME TypeOK, CoreStays, pool = "open", RoomForThread
    PROVE  /\ NewThread \in Threads
           /\ NewThread \notin CoreThreads
           /\ loop[NewThread] = "none"
<1>1. \E w \in Threads : w \notin CoreThreads /\ loop[w] = "none"
    <2> SUFFICES ASSUME \A w \in Threads : w \in CoreThreads \/ loop[w] # "none"
                 PROVE  FALSE
        OBVIOUS
    <2>1. Live = Threads
        BY DEF CoreStays, Live
    <2> QED
        BY <2>1, ThreadsFinite, SizesAssumption DEF RoomForThread
<1> QED
    BY <1>1 DEF NewThread

-----------------------------------------------------------------------------
(* Types and the size of the pool.                                         *)

\* new() starts min_threads threads, no more than the maximum.
LEMMA InitSize == Init => TypeOK /\ Size
<1> SUFFICES ASSUME Init PROVE TypeOK /\ Size
    OBVIOUS
<1>1. TypeOK
    <2>1. loop \in [Threads -> {"none", "idle", "core", "elastic"}]
        BY DEF Init
    <2> QED
        BY <2>1, ThreadsFinite DEF Init, TypeOK
<1>2. Live = CoreThreads
    BY ThreadsFinite DEF Init, Live
<1>3. Cardinality(CoreThreads) = min_threads
    <2>1. 1 \in Int /\ min_threads \in Int
        BY SizesAssumption
    <2>2. Cardinality(1..min_threads) =
              IF 1 > min_threads THEN 0 ELSE min_threads - 1 + 1
        BY <2>1, FS_Interval
    <2> QED
        BY <2>2, SizesAssumption DEF CoreThreads
<1>4. CoreStays
    BY ThreadsFinite DEF Init, CoreStays
<1> QED
    BY <1>1, <1>2, <1>3, <1>4, PastFinite, SizesAssumption
    DEF Init, Size, WithinMax, QueueBounded, JobsInLoops

\* A step that queues nothing and takes no call back keeps the queue bounded.
LEMMA QueueKept ==
    ASSUME TypeOK, QueueBounded, queued' \in Nat, queued' =< queued,
           Past \subseteq Past'
    PROVE  QueueBounded'
<1>1. Cardinality(Past) =< Cardinality(Past')
    BY PastFinite, FS_Subset
<1> QED
    BY <1>1, PastFinite, ThreadsFinite DEF QueueBounded, TypeOK

\* The steps of a call other than Grow touch neither threads nor closures.
LEMMA CallSteps ==
    ASSUME TypeOK, Size, NEW c \in Callers,
           \/ Call(c) \/ (\E w \in Threads : NestedCall(c, w))
           \/ Send(c) \/ SendTimesOut(c) \/ CheckSize(c)
           \/ Return(c) \/ Cancel(c)
    PROVE  TypeOK' /\ Size'
<1> USE DEF Call, NestedCall, StartCall, Send, SendTimesOut, CheckSize,
            Return, Cancel
<1>1. /\ slot' \in Callers \cup {NoCall}
      /\ reply' \in [Callers -> {"none", "result", "lost", "cancelled"}]
      /\ UNCHANGED <<pool, loop, job, queued, ran>>
    BY DEF TypeOK
<1>2. /\ parent' \in [Callers -> Callers \cup {NoCall}]
      /\ home' \in [Callers -> Threads \cup {0}]
    BY DEF TypeOK
<1>3. /\ cpc' \in [Callers -> {"idle", "sending", "timedout", "growing",
                               "blocked", "waiting", "done"}]
      /\ Past \subseteq Past'
    BY DEF TypeOK, Past
<1>4. TypeOK'
    BY <1>1, <1>2, <1>3 DEF TypeOK
<1>5. QueueBounded'
    BY <1>1, <1>3, QueueKept, ThreadsFinite DEF Size, TypeOK
<1>6. Live' = Live
    BY <1>1 DEF Live
<1> QED
    BY <1>1, <1>4, <1>5, <1>6 DEF Size, CoreStays, WithinMax, JobsInLoops

\* spawn() starts a thread only below the maximum and queues its closure
\* otherwise: a call that queued one is past its only chance to do so.
LEMMA GrowStep ==
    ASSUME TypeOK, Size, NEW c \in Callers, Grow(c)
    PROVE  TypeOK' /\ Size'
<1>1. /\ cpc' = [cpc EXCEPT ![c] = "blocked"]
      /\ UNCHANGED <<pool, slot, parent, home, reply, job, ran>>
    BY DEF Grow
<1>2. Past' = Past \cup {c} /\ c \notin Past
    BY <1>1 DEF Past, TypeOK, Grow
<1>3. Cardinality(Past') = Cardinality(Past) + 1
    BY <1>2, PastFinite, FS_AddElement
<1>4. CASE UNCHANGED <<loop, queued>>
    <2>1. QueueBounded'
        BY <1>2, <1>4, QueueKept, ThreadsFinite DEF Size, TypeOK
    <2>2. Live' = Live
        BY <1>4 DEF Live
    <2> QED
        BY <1>1, <1>4, <2>1, <2>2
        DEF Size, CoreStays, WithinMax, JobsInLoops, TypeOK
<1>5. CASE pool = "open" /\ RoomForThread /\ Execute
    <2>1. PICK l \in {"elastic", "idle"} :
              loop' = [loop EXCEPT ![NewThread] = l]
        BY <1>5 DEF Execute
    <2>2. /\ NewThread \in Threads
          /\ NewThread \notin CoreThreads
          /\ loop[NewThread] = "none"
        BY <1>5, NewThreadExists DEF Size
    <2>3. queued' = queued
        BY <1>5 DEF Execute
    <2>4. QueueBounded'
        BY <1>2, <2>3, QueueKept, ThreadsFinite DEF Size, TypeOK
    <2>5. Live' = Live \cup {NewThread}
        BY <2>1, <2>2 DEF Live, TypeOK
    <2>6. WithinMax'
        BY <1>5, <2>5, LiveFinite, FS_AddElement, SizesAssumption
        DEF RoomForThread, WithinMax
    <2>7. CoreStays'
        BY <1>1, <2>1, <2>2, ThreadsFinite DEF Size, CoreStays, TypeOK
    <2>8. loop' \in [Threads -> {"none", "idle", "core", "elastic"}]
        BY <2>1 DEF TypeOK
    <2>9. JobsInLoops'
        BY <1>1, <2>1, <2>2 DEF Size, JobsInLoops, TypeOK
    <2> QED
        BY <1>1, <2>3, <2>4, <2>6, <2>7, <2>8, <2>9 DEF TypeOK, Size
<1>6. CASE pool = "open" /\ ~RoomForThread /\ Execute
    <2>1. queued' = queued + 1 /\ loop' = loop
        BY <1>6 DEF Execute
    <2>2. QueueBounded' /\ queued' \in 0..Cardinality(Callers)
        BY <1>3, <2>1, PastFinite, ThreadsFinite
        DEF Size, QueueBounded, TypeOK
    <2>3. Live' = Live
        BY <2>1 DEF Live
    <2> QED
        BY <1>1, <2>1, <2>2, <2>3
        DEF Size, CoreStays, WithinMax, JobsInLoops, TypeOK
<1> QED
    BY <1>4, <1>5, <1>6 DEF Grow

\* What a worker does with a request changes neither threads nor closures.
LEMMA RequestSteps ==
    ASSUME TypeOK, Size, NEW w \in Threads, Receive(w) \/ Serve(w)
    PROVE  TypeOK' /\ Size'
<1>1. /\ UNCHANGED <<pool, cpc, parent, home, loop, queued>>
      /\ slot' \in Callers \cup {NoCall}
      /\ job' \in [Threads -> Callers \cup {NoCall}]
      /\ ran' \in [Callers -> Nat]
      /\ reply' \in [Callers -> {"none", "result", "lost", "cancelled"}]
    BY DEF TypeOK, Receive, Serve, Polling
<1>2. Live' = Live /\ Past' = Past
    BY <1>1 DEF Live, Past
<1>3. JobsInLoops'
    BY <1>1 DEF TypeOK, Size, JobsInLoops, Receive, Serve, Polling
<1> QED
    BY <1>1, <1>2, <1>3
    DEF TypeOK, Size, CoreStays, WithinMax, QueueBounded

\* A thread that ends a loop, starts one or leaves adds no thread, and none of
\* the core threads leaves an open pool.
LEMMA ThreadSteps ==
    ASSUME TypeOK, Size, NEW w \in Threads,
           WorkerPanics(w) \/ IdleOut(w) \/ TakeClosure(w) \/ ThreadExit(w)
    PROVE  TypeOK' /\ Size'
<1>1. /\ UNCHANGED <<pool, slot, parent, home>>
      /\ job' \in [Threads -> Callers \cup {NoCall}]
      /\ ran' \in [Callers -> Nat]
    BY DEF TypeOK, WorkerPanics, Polling, LoopEnds, IdleOut, TakeClosure,
           ThreadExit
<1>2. /\ reply' \in [Callers -> {"none", "result", "lost", "cancelled"}]
      /\ cpc' \in [Callers -> {"idle", "sending", "timedout", "growing",
                               "blocked", "waiting", "done"}]
      /\ Past' = Past
    <2>1. CASE UNCHANGED <<cpc, reply>>
        BY <2>1 DEF TypeOK, Past
    <2>2. CASE \E a \in Callers \cup {NoCall} : LoopEnds(w, a)
        BY <2>2 DEF TypeOK, LoopEnds, Tasks, Dropped, Past
    <2> QED
        BY <2>1, <2>2
        DEF TypeOK, WorkerPanics, IdleOut, TakeClosure, ThreadExit
<1>3. /\ queued' \in 0..Cardinality(Callers)
      /\ queued' =< queued
    BY ThreadsFinite
    DEF TypeOK, WorkerPanics, LoopEnds, IdleOut, TakeClosure, ThreadExit
<1>4. PICK l \in {"none", "idle", "elastic"} :
          /\ loop' = [loop EXCEPT ![w] = l]
          /\ l = "none" => w \notin CoreThreads \/ pool # "open"
    BY DEF WorkerPanics, LoopEnds, IdleOut, TakeClosure, ThreadExit
<1>5. CoreStays'
    BY <1>1, <1>4, ThreadsFinite DEF Size, CoreStays, TypeOK
<1>6. WithinMax'
    <2>1. loop[w] # "none"
        BY DEF WorkerPanics, Polling, IdleOut, TakeClosure, ThreadExit, Size,
               JobsInLoops
    <2>2. Live' \subseteq Live
        BY <1>4, <2>1 DEF Live, TypeOK
    <2> QED
        BY <2>2, FewerThreads DEF Size
<1>7. JobsInLoops'
    BY <1>4 DEF Size, JobsInLoops, TypeOK,
                WorkerPanics, IdleOut, TakeClosure, ThreadExit
<1>8. QueueBounded'
    BY <1>3, <1>2, QueueKept, ThreadsFinite DEF Size, TypeOK
<1>9. loop' \in [Threads -> {"none", "idle", "core", "elastic"}]
    BY <1>4 DEF TypeOK
<1> QED
    BY <1>1, <1>3, <1>5, <1>6, <1>7, <1>8, <1>9, <1>2 DEF TypeOK, Size

\* Every step keeps the types and the size of the pool.
LEMMA NextSize == TypeOK /\ Size /\ [Next]_vars => TypeOK' /\ Size'
<1> SUFFICES ASSUME TypeOK, Size, [Next]_vars PROVE TypeOK' /\ Size'
    OBVIOUS
<1>1. ASSUME NEW c \in Callers,
             \/ Call(c) \/ Caller(c) \/ Cancel(c)
             \/ \E w \in Threads : NestedCall(c, w)
      PROVE  TypeOK' /\ Size'
    BY <1>1, CallSteps, GrowStep DEF Caller
<1>2. ASSUME NEW w \in Threads, Worker(w) \/ Serve(w) \/ WorkerPanics(w)
      PROVE  TypeOK' /\ Size'
    BY <1>2, RequestSteps, ThreadSteps DEF Worker
<1>3. CASE Shutdown \/ Joined \/ UNCHANGED vars
    <2>1. /\ pool' \in {"open", "joining", "closed"}
          /\ pool' = "open" => pool = "open"
          /\ UNCHANGED <<slot, cpc, parent, home, reply, loop, job, queued, ran>>
        BY <1>3 DEF TypeOK, Shutdown, Joined, vars
    <2>2. Live' = Live /\ Past' = Past
        BY <2>1 DEF Live, Past
    <2> QED
        BY <2>1, <2>2
        DEF TypeOK, Size, CoreStays, WithinMax, QueueBounded, JobsInLoops
<1> QED
    BY <1>1, <1>2, <1>3 DEF Next

\* HostPool keeps its types: above all, the queue of closures never holds more
\* than one per call, and every new worker finds a thread.
THEOREM PoolTypeCorrect == Spec => [](TypeOK /\ Size)
BY InitSize, NextSize, PTL DEF Spec

-----------------------------------------------------------------------------
(* Where requests are.                                                     *)

\* No request is anywhere in a new pool.
LEMMA InitRequests == Init => Requests
BY CallersAssumption
DEF Init, Requests, JobsDistinct, Located, Held

\* A call puts its request into the channel from its own hands, where no
\* worker has it; sending again after a timeout sends the same request.
LEMMA CallRequests ==
    ASSUME TypeOK, Requests, NEW c \in Callers,
           \/ Call(c) \/ Caller(c) \/ Cancel(c)
           \/ \E w \in Threads : NestedCall(c, w)
    PROVE  Requests'
<1> USE DEF Call, NestedCall, StartCall
<1>1. UNCHANGED <<job, ran>>
    BY DEF Caller, Send, SendTimesOut, CheckSize, Grow, Return, Cancel
<1>2. JobsDistinct'
    BY <1>1 DEF Requests, JobsDistinct
<1>3. ASSUME NEW d \in Callers PROVE Held(d)' <=> Held(d)
    BY <1>1 DEF Held
<1>4. ASSUME NEW d \in Callers PROVE Located(d)'
    <2>1. Located(d) /\ Located(c)
        BY DEF Requests
    <2>2. CASE Send(c)
        BY <1>1, <1>3, <2>1, <2>2, CallersAssumption
        DEF Located, TypeOK, Send
    <2>3. CASE \/ Call(c) \/ \E w \in Threads : NestedCall(c, w)
               \/ SendTimesOut(c) \/ CheckSize(c) \/ Grow(c)
        <3>1. /\ slot' = slot
              /\ cpc[c] \notin {"waiting", "done"}
              /\ \E x \in {"sending", "timedout", "growing", "blocked"} :
                     cpc' = [cpc EXCEPT ![c] = x]
            BY <2>3 DEF SendTimesOut, CheckSize, Grow
        <3> QED
            BY <1>1, <1>3, <2>1, <3>1 DEF Located, TypeOK
    <2>4. CASE Return(c) \/ Cancel(c)
        BY <1>1, <1>3, <2>1, <2>4 DEF Located, TypeOK, Return, Cancel
    <2> QED
        BY <2>2, <2>3, <2>4 DEF Caller
<1> QED
    BY <1>2, <1>4 DEF Requests

\* A receive moves the request from the channel into the hands of one worker.
LEMMA ReceiveRequests ==
    ASSUME TypeOK, Requests, NEW w \in Threads, Receive(w)
    PROVE  Requests'
<1>1. /\ slot \in Callers /\ slot' = NoCall
      /\ job[w] = NoCall
      /\ job' = [job EXCEPT ![w] = slot]
      /\ UNCHANGED <<cpc, ran>>
    BY DEF TypeOK, Receive
<1>2. ~Held(slot)
    BY <1>1 DEF Requests, Located
<1>3. JobsDistinct'
    BY <1>1, <1>2 DEF Requests, JobsDistinct, Held, TypeOK
<1>4. ASSUME NEW d \in Callers PROVE Held(d)' <=> d = slot \/ Held(d)
    BY <1>1, CallersAssumption DEF Held, TypeOK
<1>5. ASSUME NEW d \in Callers PROVE Located(d)'
    <2>1. Located(d)
        BY DEF Requests
    <2> QED
        BY <1>1, <1>4, <2>1, CallersAssumption DEF Located, TypeOK
<1> QED
    BY <1>3, <1>5 DEF Requests

\* A dropped runtime ends calls that have been sent, and their requests go on.
LEMMA TasksWereSent ==
    ASSUME TypeOK, NEW w \in Threads, NEW a, LoopEnds(w, a)
    PROVE  \A c \in Callers :
               cpc'[c] = cpc[c] \/ (cpc[c] = "waiting" /\ cpc'[c] = "done")
BY DEF LoopEnds, Tasks

\* The end of an execution, with a result or by a panic, is the only one of
\* its request: the worker that had it lets go of it.
LEMMA EndRequests ==
    ASSUME TypeOK, Requests, NEW w \in Threads, Serve(w) \/ WorkerPanics(w)
    PROVE  Requests'
<1>1. PICK c \in Callers : c = job[w]
    BY DEF TypeOK, Serve, WorkerPanics, Polling
<1>2. /\ ran' = [ran EXCEPT ![c] = @ + 1]
      /\ job' = [job EXCEPT ![w] = NoCall]
      /\ slot' = slot
    BY <1>1 DEF Serve, WorkerPanics, LoopEnds
<1>3. \A d \in Callers :
          cpc'[d] = cpc[d] \/ (cpc[d] = "waiting" /\ cpc'[d] = "done")
    BY TasksWereSent DEF Serve, WorkerPanics
<1>4. JobsDistinct'
    BY <1>2 DEF Requests, JobsDistinct, TypeOK
<1>5. Held(c) /\ slot # c /\ ran[c] = 0 /\ cpc[c] \in {"waiting", "done"}
    <2>1. Held(c)
        BY <1>1 DEF Held
    <2> QED
        BY <2>1 DEF Requests, Located
<1>6. ASSUME NEW d \in Callers PROVE Held(d)' <=> d # c /\ Held(d)
    BY <1>1, <1>2, CallersAssumption
    DEF Held, TypeOK, Requests, JobsDistinct
<1>7. ASSUME NEW d \in Callers PROVE Located(d)'
    <2>1. Located(d)
        BY DEF Requests
    <2> QED
        BY <1>2, <1>3, <1>5, <1>6, <2>1 DEF Located, TypeOK
<1> QED
    BY <1>4, <1>7 DEF Requests

\* Every step keeps every request in one place.
LEMMA NextRequests == TypeOK /\ Requests /\ [Next]_vars => Requests'
<1> SUFFICES ASSUME TypeOK, Requests, [Next]_vars PROVE Requests'
    OBVIOUS
<1>1. CASE UNCHANGED <<slot, cpc, job, ran>>
    BY <1>1 DEF Requests, JobsDistinct, Located, Held
<1>2. ASSUME NEW c \in Callers,
             \/ Call(c) \/ Caller(c) \/ Cancel(c)
             \/ \E w \in Threads : NestedCall(c, w)
      PROVE  Requests'
    BY <1>2, CallRequests
<1>3. ASSUME NEW w \in Threads, Worker(w) \/ Serve(w) \/ WorkerPanics(w)
      PROVE  Requests'
    <2>1. CASE TakeClosure(w) \/ ThreadExit(w)
        BY <1>1, <2>1 DEF TakeClosure, ThreadExit
    <2>2. CASE IdleOut(w)
        <3>1. UNCHANGED <<slot, job, ran>>
            BY <2>2 DEF IdleOut, LoopEnds
        <3>2. \A d \in Callers :
                  cpc'[d] = cpc[d] \/ (cpc[d] = "waiting" /\ cpc'[d] = "done")
            BY <2>2, TasksWereSent DEF IdleOut
        <3> QED
            BY <3>1, <3>2 DEF Requests, JobsDistinct, Located, Held
    <2> QED
        BY <1>3, <2>1, <2>2, ReceiveRequests, EndRequests DEF Worker
<1>4. CASE Shutdown \/ Joined \/ UNCHANGED vars
    BY <1>1, <1>4 DEF Shutdown, Joined, vars
<1> QED
    BY <1>2, <1>3, <1>4 DEF Next

\* All of the inductive invariant holds in every reachable state.
LEMMA PoolInvariant == Spec => [](TypeOK /\ Size /\ Requests)
<1>1. Init => Requests
    BY InitRequests
<1>2. TypeOK /\ Requests /\ [Next]_vars => Requests'
    BY NextRequests
<1> QED
    BY <1>1, <1>2, PoolTypeCorrect, PTL DEF Spec

\* Every place counted once: what Located says is what ExactlyOnce counts.
LEMMA LocatedOnce == TypeOK /\ Requests => ExactlyOnce
<1> SUFFICES ASSUME TypeOK, Requests, NEW c \in Callers
             PROVE  Cardinality({w \in Threads : job[w] = c})
                        + (IF slot = c THEN 1 ELSE 0) + ran[c]
                    = IF cpc[c] \in {"waiting", "done"} THEN 1 ELSE 0
    BY DEF ExactlyOnce
<1>1. Located(c)
    BY DEF Requests
<1>2. Cardinality({w \in Threads : job[w] = c}) = IF Held(c) THEN 1 ELSE 0
    <2>1. CASE ~Held(c)
        <3>1. {w \in Threads : job[w] = c} = {}
            BY <2>1 DEF Held
        <3> QED
            BY <2>1, <3>1, FS_EmptySet
    <2>2. CASE Held(c)
        <3>1. PICK w \in Threads : job[w] = c
            BY <2>2 DEF Held
        <3>2. {v \in Threads : job[v] = c} = {w}
            BY <3>1, CallersAssumption DEF Requests, JobsDistinct
        <3> QED
            BY <2>2, <3>2, FS_Singleton
    <2> QED
        BY <2>1, <2>2
<1> QED
    BY <1>1, <1>2 DEF Located

\* A request is executed exactly once, whatever its caller does: it is never
\* in two of channel, worker and history, and never lost between them.
THEOREM PoolExactlyOnce == Spec => []ExactlyOnce
BY LocatedOnce, PoolInvariant, PTL

=============================================================================
