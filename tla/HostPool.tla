------------------------------ MODULE HostPool ------------------------------
(***************************************************************************)
(* The elastic pool of waPC hosts: crates/wapc-pool/src/hostpool.rs.       *)
(*                                                                         *)
(* Every member of Callers makes one HostPool::call, whenever it likes, or *)
(* from a host callback of a guest that a worker of the pool is running.   *)
(* Such a callback is a task of its own on the worker's runtime, which has *)
(* no other thread than the worker's (modulestate.rs:231): the blocking    *)
(* sends of HostPool::call stop the worker, the task is polled only while  *)
(* the worker awaits its host, and it goes with the worker's loop.  The    *)
(* guest may wait for the callback or answer before it has returned.       *)
(*                                                                         *)
(* Requests go through a crossbeam channel of capacity one, of which the   *)
(* HostPool keeps both ends, so that it is never disconnected.  A worker   *)
(* is a loop, run as a closure of a rusty_pool thread: a core loop waits   *)
(* for requests for ever, an elastic one leaves after max_idle.            *)
(*                                                                         *)
(* rusty_pool is outside the repository.  From how the pool is built and   *)
(* used: a closure gets a new thread while there are fewer than core_size  *)
(* threads, or fewer than max_size and none is idle, and is queued         *)
(* otherwise; core threads stay, the others leave when no closure is       *)
(* queued (keep_alive 0); a thread that panics is replaced by an idle one; *)
(* shutdown_join waits until every thread has left.                        *)
(*                                                                         *)
(* Durations are abstracted: max_wait may expire whenever the channel is   *)
(* full, max_idle whenever it is empty.  WapcHost::call_async (WapcCall)   *)
(* is one step of the worker.                                              *)
(***************************************************************************)
EXTENDS Integers, FiniteSets

CONSTANTS
    Callers,        \* the calls made on the pool
    NoCall,         \* no request
    min_threads,
    max_threads,
    Events          \* "cancel"   a call's future is dropped
                    \* "panic"    a worker panics: in factory(), or while
                    \*            it runs a guest
                    \* "nested"   a host callback calls the pool it runs in
                    \* "shutdown" the owner of the pool shuts it down

\* rusty_pool's builder refuses a maximum of 0 or below the core size.
ASSUME SizesAssumption ==
    /\ min_threads \in Nat
    /\ max_threads \in Nat \ {0}
    /\ min_threads =< max_threads
ASSUME CallersAssumption == IsFiniteSet(Callers) /\ NoCall \notin Callers
ASSUME EventsAssumption ==
    Events \subseteq {"cancel", "panic", "nested", "shutdown"}

VARIABLES
    pool,       \* Option<ThreadPool>: "open", "joining" (taken), "closed"
    slot,       \* the request in the channel
    cpc,        \* where each call is
    parent,     \* the request whose guest may be waiting for it, if any
    home,       \* the worker whose runtime it runs on; 0: none
    reply,      \* what its caller got
    loop,       \* what each thread runs; "none": there is no such thread
    job,        \* the request a worker is executing
    queued,     \* the closures queued in the ThreadPool
    ran         \* how often each request has been executed

vars == <<pool, slot, cpc, parent, home, reply, loop, job, queued, ran>>

\* Every call spawns at most one worker, so these are enough names.
Threads == 1..(max_threads + Cardinality(Callers))
CoreThreads == 1..min_threads

Live == {w \in Threads : loop[w] # "none"}

num_active_workers == IF pool = "open" THEN Cardinality(Live) ELSE 0

-----------------------------------------------------------------------------
TypeOK ==
    /\ pool \in {"open", "joining", "closed"}
    /\ slot \in Callers \cup {NoCall}
    /\ cpc \in [Callers -> {"idle", "sending", "timedout", "growing",
                            "blocked", "waiting", "done"}]
    /\ parent \in [Callers -> Callers \cup {NoCall}]
    /\ home \in [Callers -> Threads \cup {0}]
    /\ reply \in [Callers -> {"none", "result", "lost", "cancelled"}]
    /\ loop \in [Threads -> {"none", "idle", "core", "elastic"}]
    /\ job \in [Threads -> Callers \cup {NoCall}]
    /\ queued \in 0..Cardinality(Callers)
    /\ ran \in [Callers -> Nat]

\* Losing max_idle: every worker is a core worker.
StartedCore(l) == {"core"}

\* spawn()'s closure builds a host with the factory and enters its loop; a
\* factory that panics leaves its thread idle.
Started(l) == {l} \cup (IF "panic" \in Events THEN {"idle"} ELSE {})

\* new(): min_threads core loops, each on a thread of its own.
Init ==
    /\ pool = "open"
    /\ slot = NoCall
    /\ cpc = [c \in Callers |-> "idle"]
    /\ parent = [c \in Callers |-> NoCall]
    /\ home = [c \in Callers |-> 0]
    /\ reply = [c \in Callers |-> "none"]
    /\ loop \in [Threads -> {"none"} \cup Started("core")]
    /\ \A w \in Threads : loop[w] = "none" <=> w \notin CoreThreads
    /\ job = [w \in Threads |-> NoCall]
    /\ queued = 0
    /\ ran = [c \in Callers |-> 0]

-----------------------------------------------------------------------------
(* HostPool::call.                                                         *)

\* A call of a host callback holds its worker's thread in send_timeout, in
\* spawn or in send.
Blocked(w) ==
    \E c \in Callers : /\ home[c] = w
                       /\ cpc[c] \in {"sending", "timedout", "growing", "blocked"}

\* The worker is at host.call_async(..).await: its runtime polls its tasks.
Polling(w) == job[w] # NoCall /\ ~Blocked(w)

\* shutdown borrows the pool exclusively: no call starts while it joins.
StartCall(c) ==
    /\ cpc[c] = "idle"
    /\ pool # "joining"
    /\ cpc' = [cpc EXCEPT ![c] = "sending"]
    /\ UNCHANGED <<pool, slot, reply, loop, job, queued, ran>>

\* A call from outside the pool.
Call(c) == StartCall(c) /\ UNCHANGED <<parent, home>>

\* A call by a host callback on the runtime of w: of the guest that w is
\* running, or left behind by one that has answered.
NestedCall(c, w) ==
    /\ "nested" \in Events
    /\ Polling(w)
    /\ StartCall(c)
    /\ \E p \in {job[w], NoCall} : parent' = [parent EXCEPT ![c] = p]
    /\ home' = [home EXCEPT ![c] = w]

\* send_timeout succeeds, or send does after the timeout.
Send(c) ==
    /\ cpc[c] \in {"sending", "blocked"}
    /\ slot = NoCall
    /\ slot' = c
    /\ cpc' = [cpc EXCEPT ![c] = "waiting"]
    /\ UNCHANGED <<pool, parent, home, reply, loop, job, queued, ran>>

\* SendTimeoutError::Timeout gives the request back.
SendTimesOut(c) ==
    /\ cpc[c] = "sending"
    /\ slot # NoCall
    /\ cpc' = [cpc EXCEPT ![c] = "timedout"]
    /\ UNCHANGED <<pool, slot, parent, home, reply, loop, job, queued, ran>>

\* Checking, and growing, again and again.
AfterTimeoutLooping == "timedout"

\* Forgetting to send the request again.
AfterTimeoutForgetting == "waiting"

\* self.tx.send(args): what a call does after its timeout.
AfterTimeout == "blocked"

\* num_active_workers() < max_threads, read before anything is spawned.
CheckSize(c) ==
    /\ cpc[c] = "timedout"
    /\ cpc' = [cpc EXCEPT ![c] = IF num_active_workers < max_threads
                                 THEN "growing" ELSE AfterTimeout]
    /\ UNCHANGED <<pool, slot, parent, home, reply, loop, job, queued, ran>>

NewThread == CHOOSE w \in Threads : w \notin CoreThreads /\ loop[w] = "none"

RoomForThread ==
    Cardinality(Live) < max_threads /\ \A w \in Threads : loop[w] # "idle"

\* ThreadPool::execute; core threads stay, so there are always core_size.
Execute ==
    IF RoomForThread
    THEN /\ \E l \in Started("elastic") : loop' = [loop EXCEPT ![NewThread] = l]
         /\ UNCHANGED queued
    ELSE /\ queued' = queued + 1
         /\ UNCHANGED loop

\* spawn(Some(max_idle)); without a pool its NoPool error is only logged.
Grow(c) ==
    /\ cpc[c] = "growing"
    /\ cpc' = [cpc EXCEPT ![c] = AfterTimeout]
    /\ IF pool = "open" THEN Execute ELSE UNCHANGED <<loop, queued>>
    /\ UNCHANGED <<pool, slot, parent, home, reply, job, ran>>

\* The task that makes the call can be polled.
Polled(c) == home[c] # 0 => Polling(home[c])

\* rx.await: the oneshot holds the result, or its sender was dropped.
Return(c) ==
    /\ cpc[c] = "waiting"
    /\ Polled(c)
    /\ reply[c] # "none"
    /\ cpc' = [cpc EXCEPT ![c] = "done"]
    /\ UNCHANGED <<pool, slot, parent, home, reply, loop, job, queued, ran>>

\* The future is dropped at rx.await, the only place where it is suspended.
Cancel(c) ==
    /\ "cancel" \in Events
    /\ cpc[c] = "waiting"
    /\ Polled(c)
    /\ reply[c] = "none"
    /\ cpc' = [cpc EXCEPT ![c] = "done"]
    /\ reply' = [reply EXCEPT ![c] = "cancelled"]
    /\ UNCHANGED <<pool, slot, parent, home, loop, job, queued, ran>>

Caller(c) ==
    Send(c) \/ SendTimesOut(c) \/ CheckSize(c) \/ Grow(c) \/ Return(c)

-----------------------------------------------------------------------------
(* The worker loop and its thread.                                         *)

\* Looking at the request without taking it out of the channel.
ReceivedPeeking == slot

\* A receive leaves the channel empty.
Received == NoCall

\* rx.recv() or rx.recv_timeout().
Receive(w) ==
    /\ loop[w] \in {"core", "elastic"}
    /\ job[w] = NoCall
    /\ slot # NoCall
    /\ job' = [job EXCEPT ![w] = slot]
    /\ slot' = Received
    /\ UNCHANGED <<pool, cpc, parent, home, reply, loop, queued, ran>>

\* host.call_async(..).await and tx.send(result), which fails without effect
\* when the caller has gone.
Serve(w) ==
    /\ Polling(w)
    /\ reply' = [reply EXCEPT ![job[w]] = IF @ = "none" THEN "result" ELSE @]
    /\ ran' = [ran EXCEPT ![job[w]] = @ + 1]
    /\ job' = [job EXCEPT ![w] = NoCall]
    /\ UNCHANGED <<pool, slot, cpc, parent, home, loop, queued>>

\* The unwinding of a worker not reaching the oneshot's sender.
NotDropped(c) == reply[c]

\* What the caller of c sees when its sender is dropped unused.
Dropped(c) == IF reply[c] = "none" THEN "lost" ELSE reply[c]

\* The calls that live on the runtime of w and wait for their answers.
Tasks(w) == {c \in Callers : home[c] = w /\ cpc[c] = "waiting"}

\* The loop of w ends and its runtime is dropped, its tasks with it; a is the
\* request it was executing, whose sender is dropped as well.
LoopEnds(w, a) ==
    /\ loop' = [loop EXCEPT ![w] = "idle"]
    /\ cpc' = [c \in Callers |-> IF c \in Tasks(w) THEN "done" ELSE cpc[c]]
    /\ reply' = [c \in Callers |-> IF c \in Tasks(w) THEN "cancelled"
                                   ELSE IF c = a THEN Dropped(c) ELSE reply[c]]
    /\ UNCHANGED <<pool, slot, parent, home, queued>>

\* The loop unwinds; rusty_pool replaces its thread by an idle one.
WorkerPanics(w) ==
    /\ "panic" \in Events
    /\ Polling(w)
    /\ LoopEnds(w, job[w])
    /\ ran' = [ran EXCEPT ![job[w]] = @ + 1]
    /\ job' = [job EXCEPT ![w] = NoCall]

\* recv_timeout(max_idle) expires and the closure returns.
IdleOut(w) ==
    /\ loop[w] = "elastic"
    /\ job[w] = NoCall
    /\ slot = NoCall
    /\ LoopEnds(w, NoCall)
    /\ UNCHANGED <<job, ran>>

HasClosure == queued > 0

\* An idle thread runs a queued closure, always one of Grow.
TakeClosure(w) ==
    /\ loop[w] = "idle"
    /\ HasClosure
    /\ queued' = queued - 1
    /\ \E l \in Started("elastic") : loop' = [loop EXCEPT ![w] = l]
    /\ UNCHANGED <<pool, slot, cpc, parent, home, reply, job, ran>>

\* keep_alive(0), or the ThreadPool has been shut down.
ThreadExit(w) ==
    /\ loop[w] = "idle"
    /\ ~HasClosure
    /\ w \notin CoreThreads \/ pool # "open"
    /\ loop' = [loop EXCEPT ![w] = "none"]
    /\ UNCHANGED <<pool, slot, cpc, parent, home, reply, job, queued, ran>>

Worker(w) ==
    Receive(w) \/ IdleOut(w) \/ TakeClosure(w) \/ ThreadExit(w)

-----------------------------------------------------------------------------
(* HostPool::shutdown.                                                     *)

\* &mut self: no future of a call is alive.  The ThreadPool is taken.
Shutdown ==
    /\ "shutdown" \in Events
    /\ pool = "open"
    /\ \A c \in Callers : cpc[c] \in {"idle", "done"}
    /\ pool' = "joining"
    /\ UNCHANGED <<slot, cpc, parent, home, reply, loop, job, queued, ran>>

\* shutdown_join returns.
Joined ==
    /\ pool = "joining"
    /\ Live = {}
    /\ pool' = "closed"
    /\ UNCHANGED <<slot, cpc, parent, home, reply, loop, job, queued, ran>>

-----------------------------------------------------------------------------
Next ==
    \/ \E c \in Callers : Call(c) \/ Caller(c) \/ Cancel(c)
    \/ \E c \in Callers, w \in Threads : NestedCall(c, w)
    \/ \E w \in Threads : Worker(w) \/ Serve(w) \/ WorkerPanics(w)
    \/ Shutdown \/ Joined

Spec == Init /\ [][Next]_vars

\* The guest that w runs may be waiting for a call of a host callback.
Waits(w) ==
    job[w] # NoCall /\ \E c \in Callers : parent[c] = job[w] /\ cpc[c] # "done"

\* Threads are scheduled, timeouts expire, and a call of the host returns
\* (WapcCall, CallReturnsEventually), unless the guest waits for the pool.
\* Nobody has to call, cancel, panic or shut down.
Fairness ==
    /\ \A c \in Callers : WF_vars(Caller(c))
    /\ \A w \in Threads : WF_vars(Worker(w))
    /\ \A w \in Threads : WF_vars(Serve(w) /\ ~Waits(w))
    /\ WF_vars(Joined)

FairSpec == Spec /\ Fairness

-----------------------------------------------------------------------------
(* Safety.                                                                 *)

\* A request is executed exactly once: until it is sent nobody has it, then it
\* is in the channel, or with one worker, or it has run, although its caller
\* may have timed out and sent it again, or have gone.
ExactlyOnce ==
    \A c \in Callers :
        Cardinality({w \in Threads : job[w] = c})
            + (IF slot = c THEN 1 ELSE 0) + ran[c]
        = IF cpc[c] \in {"waiting", "done"} THEN 1 ELSE 0

-----------------------------------------------------------------------------
(* Liveness.                                                               *)

\* A worker that cannot come back to the channel before somebody else has.
Stuck(w) == Waits(w) \/ Blocked(w)

CoreAvailable == \E w \in CoreThreads : loop[w] = "core" /\ ~Stuck(w)

NoneStuck == \A w \in Threads : ~Stuck(w)

\* The call of a host callback whose guest did not wait for it has its answer,
\* but its worker is back in rx.recv() and does not poll it.
LeftBehind(c) ==
    /\ home[c] # 0 /\ cpc[c] = "waiting" /\ reply[c] # "none"
    /\ job[home[c]] = NoCall

\* Every call returns as long as some core worker comes back to the channel:
\* no request is stranded by a timeout, by a worker that leaves for idleness
\* just when the request arrives, or by the loss of other workers.  What is
\* excepted does happen: a panic takes the last core worker away, or all of
\* them are held by calls of their own host callbacks, which are sent into the
\* empty channel without anybody being started for them; and a call of a host
\* callback whose guest has not waited for it is left behind with its answer.
CallsAnswered ==
    []<>CoreAvailable =>
        \A c \in Callers :
            cpc[c] = "sending" ~> (cpc[c] = "done" \/ LeftBehind(c))

\* The caller of a request that a worker has taken gets an answer, even if
\* that worker panics, unless host callbacks hold a worker for ever.  Only a
\* call left behind on a runtime that waits in rx.recv() does not see it.
ReceivedIsAnswered ==
    []<>NoneStuck =>
        \A c \in Callers :
            (\E w \in Threads : job[w] = c) ~> (cpc[c] = "done" \/ LeftBehind(c))

\* The pool comes back to its minimum size: every thread above it leaves,
\* those whose closures were queued in the race to grow included (README:
\* "a max_idle duration to auto-kill workers above the minimum size").
ShrinksToMinimum ==
    []<>NoneStuck => <>[](Cardinality(Live) = min_threads)

\* README: "use .call() to initiate requests as you would on a standard
\* WapcHost", with a max_wait "before starting a new worker".
CallReturns == \A c \in Callers : cpc[c] = "sending" ~> cpc[c] = "done"

\* "Shut down the host pool."
ShutdownReturns == pool = "joining" ~> pool = "closed"

=============================================================================
